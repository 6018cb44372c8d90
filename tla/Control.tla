------------------------------- MODULE Control -------------------------------
(* The control process of a runtime (efz_control): one reader of frames, one   *)
(* loop, and a process for every job. It answers requests by their number, in  *)
(* any order; a close ends it. The campaign and the providers are a choice of  *)
(* when they are done. A frame is its number and its operation.                *)
EXTENDS Integers, FiniteSets, Sequences

CONSTANTS
    MaxCall,            \* bound: the numbers of requests
    Slots,              \* how many requests may be under way (64)
    Scenarios           \* bound: sets of things that go wrong in one behaviour

ASSUME ControlAssumption ==
    /\ MaxCall \in Nat /\ Slots \in Nat \ {0}
    /\ Scenarios \subseteq SUBSET {"slow_pipe", "crash", "job", "slow_close", "foreign", "unkillable"}

VARIABLES
    rt,                 \* the process: up or not, campaign, jobs, closing, busy
    stdin, stdout,      \* the two pipes
    faults              \* the scenario

runtimeVars == <<rt, stdin, stdout, faults>>

Calls == 1..MaxCall
Jobs == {"await_result", "close", "mutate"}
Operations == Jobs \cup {"start", "request_stop", "cancel"}
\* A frame, or the part of one that was written before its deadline.
Message == [id : Calls, op : Operations, whole : BOOLEAN]
\* An error is sound when it has the form that a client can read.
Response == [id : 0..MaxCall, ok : BOOLEAN, sound : BOOLEAN]

RuntimeInit ==
    /\ rt = [up |-> TRUE, campaign |-> "none", jobs |-> {}, closing |-> FALSE, busy |-> FALSE]
    /\ stdin = <<>> /\ stdout = <<>>
    /\ faults \in Scenarios

-----------------------------------------------------------------------------
\* send/3. Its errors have their form; those of another runtime may not.
Respond(id, ok) ==
    \E sound \in IF ~ok /\ id # 0 /\ "foreign" \in faults THEN BOOLEAN ELSE {TRUE} :
        stdout' = Append(stdout, [id |-> id, ok |-> ok, sound |-> sound])

Running(op) == {j \in rt.jobs : j.op = op}
Job(m) == [id |-> m.id, op |-> m.op]
Begin(m) == [rt EXCEPT !.jobs = @ \cup {Job(m)}]

\* accept/2: too many jobs, a closing session, or what the operation refuses.
Refused(m) ==
    \/ Cardinality(rt.jobs) >= Slots
    \/ rt.closing
    \/ m.op = "start" /\ rt.campaign # "none"
    \/ m.op \in {"request_stop", "await_result"} /\ rt.campaign = "none"
    \/ m.op = "mutate" /\ rt.busy

Stopping == IF rt.campaign = "running" THEN "stopping" ELSE rt.campaign

\* dispatch/4: what the operation does; a job answers later. A close stops the
\* campaign first. A mutation that is cancelled answers as it would anyway, with
\* a result or an error.
Dispatch(m) ==
    CASE m.op = "start"        -> rt' = [rt EXCEPT !.campaign = "running"] /\ Respond(m.id, TRUE)
      [] m.op = "request_stop" -> rt' = [rt EXCEPT !.campaign = Stopping] /\ Respond(m.id, TRUE)
      [] m.op = "cancel"       -> UNCHANGED rt /\ Respond(m.id, TRUE)
      [] m.op = "await_result" -> rt' = Begin(m) /\ UNCHANGED stdout
      [] m.op = "mutate"       -> rt' = [Begin(m) EXCEPT !.busy = TRUE] /\ UNCHANGED stdout
      [] m.op = "close"        -> /\ rt' = [Begin(m) EXCEPT !.closing = TRUE, !.campaign = Stopping]
                                  /\ UNCHANGED stdout

\* The next frame. A frame that is cut waits for the rest.
Accept ==
    /\ rt.up /\ stdin # <<>> /\ Head(stdin).whole
    /\ stdin' = Tail(stdin)
    /\ LET m == Head(stdin) IN
       IF Refused(m) THEN Respond(m.id, FALSE) /\ UNCHANGED rt ELSE Dispatch(m)
    /\ UNCHANGED faults

\* A part of a frame with another frame behind it does not decode; the process
\* cleans up and ends.
WireError ==
    /\ rt.up /\ Len(stdin) > 1 /\ ~Head(stdin).whole
    /\ Respond(0, FALSE)
    /\ rt' = [rt EXCEPT !.up = FALSE] /\ stdin' = <<>>
    /\ UNCHANGED faults

Freed(j) == IF j.op = "mutate" THEN FALSE ELSE rt.busy

\* job_done, for all but a close: what the provider made of the mutation, the
\* report of a campaign that is over, or an error (its time, or the close).
JobDone(j) ==
    /\ rt.up /\ j \in rt.jobs /\ j.op # "close"
    /\ Respond(j.id, j.op = "mutate" \/ rt.campaign = "over")
    /\ rt' = [rt EXCEPT !.jobs = @ \ {j}, !.busy = Freed(j)]
    /\ UNCHANGED <<stdin, faults>>

\* A job ends without job_done. The provider stays taken.
JobDies(j) ==
    /\ "job" \in faults
    /\ rt.up /\ j \in rt.jobs /\ j.op # "close"
    /\ Respond(j.id, FALSE)
    /\ rt' = [rt EXCEPT !.jobs = @ \ {j}]
    /\ UNCHANGED <<stdin, faults>>

\* campaign_done
CampaignEnds ==
    /\ rt.up /\ rt.campaign \in {"running", "stopping"}
    /\ rt' = [rt EXCEPT !.campaign = "over"]
    /\ UNCHANGED <<stdin, stdout, faults>>

\* The runtime is gone; jobs that were not answered stay visible.
Gone == [rt EXCEPT !.up = FALSE]
Ended == rt' = Gone /\ stdin' = <<>>

\* Mutant: the jobs are told to end and not waited for.
CloseDoneAtOnce(j) ==
    /\ rt.up /\ j.op = "close" /\ rt.campaign \in {"none", "over"}
    /\ Respond(j.id, TRUE) /\ Ended /\ UNCHANGED faults

\* cancel_jobs/2, await_jobs/2: a close is acknowledged after the mutations. The
\* other jobs are shut down, and the news of it may come too late for an answer.
CloseDone(j) ==
    /\ rt.up /\ j.op = "close" /\ rt.campaign \in {"none", "over"}
    /\ Running("mutate") = {}
    /\ Respond(j.id, TRUE) /\ Ended /\ UNCHANGED faults

\* Its time is over before that, or the process dies.
CloseFails(j) ==
    /\ "slow_close" \in faults /\ rt.up /\ j.op = "close"
    /\ Respond(j.id, FALSE) /\ Ended /\ UNCHANGED faults

\* The process dies, perhaps within a response.
RuntimeCrashes ==
    /\ "crash" \in faults
    /\ rt.up /\ Ended
    /\ Respond(0, FALSE) \/ UNCHANGED stdout
    /\ UNCHANGED faults

RuntimeStep ==
    \/ Accept \/ WireError \/ CampaignEnds \/ RuntimeCrashes
    \/ \E j \in rt.jobs : JobDone(j) \/ JobDies(j) \/ CloseDone(j) \/ CloseFails(j)
=============================================================================
