------------------------------ MODULE Campaign ------------------------------
(***************************************************************************)
(* A campaign: the coordinator efz_fuzzer, its single efz_worker, the      *)
(* worker's request to a mutation provider, and the clients blocked in     *)
(* efz_fuzzer:await/1.                                                     *)
(*                                                                         *)
(* The worker drives itself with an `iterate' message to its own mailbox;  *)
(* the coordinator's casts wait there behind it.  Within an iteration the  *)
(* worker is deaf: only verify/5 looks into the mailbox, for a stop.       *)
(* Everything the worker tells the coordinator travels in one order (up).  *)
(* One execution is one step here: Guardian and Runner model its inside.   *)
(***************************************************************************)
EXTENDS Integers, SequencesExt

CONSTANTS
    Clients,         \* processes that call await/1
    MaxAwaits,       \* bound: calls one client makes
    Seeds,           \* initial corpus entries to calibrate
    MaxIterations,   \* max_iterations of a campaign that is not continuous
    MaxIdle,         \* the plan's max_idle_visits: skips in a row
    MaxExtra,        \* verification executions of one input
    Modes            \* bound: what a campaign is set up with and what happens to it

ASSUME CampaignAssumption ==
    /\ MaxAwaits \in Nat /\ Seeds \in Nat /\ MaxIdle \in Nat /\ MaxExtra \in Nat
    /\ MaxIterations \in Nat \ {0}
    /\ Modes \subseteq SUBSET {"continuous", "provider", "idle_stop", "quarantine", "crash",
                              "poll", "benchmark", "teardown"}

VARIABLES
    worker,      \* ready, executing, checking, verifying, dead, killed
    inbox,       \* its mailbox
    seedsLeft, phase, iteration, idle,
    extra,       \* verification executions still requested
    pending,     \* pending_mutation is set
    stopping,    \* provider_stopping
    finished,    \* campaign_finished
    provider,    \* the request: none, working, cancelling
    wire,        \* messages on their way from coordinator to worker
    up,          \* messages on their way from worker to coordinator
    coordinator, \* ready, calling, crashed, stopped
    report, stopRequested, samplePending,
    context,     \* execution_context: the latest the worker sent
    waiters,     \* <<client, token>>
    client,      \* [pc, token] of each client
    calls,       \* messages on their way from each client
    replies,     \* tokens whose answers are on their way to each client
    diedAs,      \* history: what the worker was doing when it crashed
    late,        \* history: executions begun with a stop in the mailbox
    mode         \* its set-up: one of Modes

turn == <<seedsLeft, phase, iteration, idle, extra>>
workerVars == <<worker, inbox, turn, pending, stopping, finished, provider>>
clientVars == <<client, calls>>
coordVars == <<coordinator, report, stopRequested, samplePending, context, waiters, replies>>
history == <<diedAs, late>>
vars == <<workerVars, wire, up, coordVars, clientVars, history, mode>>

None == "none"
Contexts == {None, "target", "provider", "verification"}
Statuses == {"completed", "no_new_coverage", "exhausted", "stopped_by_user",
             "infrastructure", "worker_down"}
Results == {"candidate", "skip", "error", "cancelled"}
WorkerMessages == {"iterate", "stop", "sample", "snapshot", "gone"} \cup Results
Tokens == 1..MaxAwaits
Waiters == Clients \X Tokens

Ctx(c) == [kind |-> "context", value |-> c]
Done(s) == [kind |-> "campaign_done", value |-> s]
Sample == [kind |-> "monitor_sample", value |-> None]
Down == [kind |-> "DOWN", value |-> None]
\* Only the latest of consecutive contexts can be seen.
Tell(channel, c) ==
    Append(IF channel # <<>> /\ Last(channel).kind = "context" THEN Front(channel) ELSE channel,
           Ctx(c))

Alive == worker \notin {"dead", "killed"}
\* max_iterations is infinity, inputs may come from a mutation provider,
\* stop_after_no_new_coverage_seconds is set, a supervisor may quarantine inputs.
Continuous == "continuous" \in mode
Provider == "provider" \in mode
IdleStops == "idle_stop" \in mode
Quarantines == "quarantine" \in mode
\* What happens to the campaign from outside.
WorkersMayDie == "crash" \in mode
Polled == "poll" \in mode
Benchmarked == "benchmark" \in mode
TornDown == "teardown" \in mode
StopWaits == Contains(inbox, "stop")

Init ==
    /\ worker = "ready" /\ inbox = <<"iterate">>
    /\ seedsLeft = Seeds /\ phase = "calibration" /\ iteration = 0 /\ idle = 0 /\ extra = 0
    /\ pending = FALSE /\ stopping = FALSE /\ finished = FALSE /\ provider = None
    /\ wire = <<>> /\ up = <<>>
    /\ coordinator = "ready" /\ report = None
    /\ stopRequested = FALSE /\ samplePending = FALSE /\ context = None
    /\ waiters = {} /\ replies = [c \in Clients |-> {}]
    /\ client = [c \in Clients |-> [pc |-> "idle", token |-> 0]]
    /\ calls = [c \in Clients |-> <<>>]
    /\ diedAs = None /\ late = 0 /\ mode \in Modes

-----------------------------------------------------------------------------
(* The worker. *)

\* finish/2: the report goes up, once, and the worker stays for questions.
Finish(status, channel) ==
    /\ up' = Append(IF Polled THEN Append(channel, Sample) ELSE channel, Done(status))
    /\ finished' = TRUE /\ worker' = "ready"
Infrastructure(c) == Finish("infrastructure", Tell(up, c))

Late == late' = IF StopWaits /\ late < 2 THEN late + 1 ELSE late
Counted == iteration' = IF Continuous THEN 0 ELSE iteration + 1

\* Mutant: a quarantined input ends the turn without asking for the next.
ExecuteAndForget(rest, channel) ==
    \/ /\ worker' = "executing" /\ up' = Tell(channel, "target") /\ inbox' = rest
       /\ Late /\ UNCHANGED finished
    \/ /\ Quarantines /\ inbox' = rest /\ up' = channel
       /\ UNCHANGED <<worker, finished, late>>

\* execute/4: the context is told before the target is called.
Execute(rest, channel) ==
    \/ /\ worker' = "executing" /\ up' = Tell(channel, "target") /\ inbox' = rest
       /\ Late /\ UNCHANGED finished
    \/ /\ Quarantines /\ inbox' = Append(rest, "iterate") /\ up' = channel
       /\ UNCHANGED <<worker, finished, late>>

Takes(message) == worker = "ready" /\ inbox # <<>> /\ Head(inbox) = message

\* A turn that is not the worker's any more.
IterateForNothing ==
    /\ Takes("iterate") /\ (finished \/ pending)
    /\ inbox' = Tail(inbox)
    /\ UNCHANGED <<worker, turn, pending, stopping, finished, provider, up, history>>

Turn == Takes("iterate") /\ ~finished /\ ~pending
Mutating == Turn /\ seedsLeft = 0 /\ phase = "mutation"
MayMutate == Mutating /\ (Continuous \/ iteration # MaxIterations)

Calibrate ==
    /\ Turn /\ seedsLeft > 0 /\ seedsLeft' = seedsLeft - 1
    /\ Execute(Tail(inbox), up)
    /\ UNCHANGED <<phase, iteration, idle, extra, pending, stopping, provider, diedAs>>

BeginMutation ==
    /\ Turn /\ seedsLeft = 0 /\ phase = "calibration"
    /\ phase' = "mutation" /\ inbox' = Append(Tail(inbox), "iterate")
    /\ UNCHANGED <<worker, seedsLeft, iteration, idle, extra, pending, stopping, finished,
                   provider, up, history>>

\* The bound on iterations, or on time without new coverage, is reached.
Expire ==
    /\ Mutating /\ inbox' = Tail(inbox)
    /\ \/ ~Continuous /\ iteration = MaxIterations /\ Finish("completed", up)
       \/ MayMutate /\ IdleStops /\ Finish("no_new_coverage", up)
    /\ UNCHANGED <<turn, pending, stopping, provider, history>>

\* staged_choice/2, by what the plan chose.
Candidate ==
    /\ MayMutate /\ Counted /\ idle' = 0
    /\ Execute(Tail(inbox), up)
    /\ UNCHANGED <<seedsLeft, phase, extra, pending, stopping, provider, diedAs>>
AskProvider ==
    /\ MayMutate /\ Provider
    /\ pending' = TRUE /\ provider' = "working" /\ up' = Tell(up, "provider")
    /\ inbox' = Tail(inbox)
    /\ UNCHANGED <<worker, turn, stopping, finished, history>>
Skip ==
    /\ MayMutate /\ idle < MaxIdle /\ idle' = idle + 1
    /\ inbox' = Append(Tail(inbox), "iterate")
    /\ up' = IF Provider THEN Tell(up, None) ELSE up
    /\ UNCHANGED <<worker, seedsLeft, phase, iteration, extra, pending, stopping, finished,
                   provider, history>>
Exhausted ==
    /\ MayMutate /\ inbox' = Tail(inbox)
    /\ \/ ~Continuous /\ Finish("exhausted", up)
       \/ Infrastructure(None)
    /\ UNCHANGED <<turn, pending, stopping, provider, history>>

\* The target has run: an infrastructure failure, or a result to verify.
Executed ==
    /\ worker = "executing"
    /\ \/ Infrastructure("target") /\ UNCHANGED extra
       \/ /\ \E n \in 0..MaxExtra : extra' = n
          /\ worker' = "checking" /\ UNCHANGED <<up, finished>>
    /\ UNCHANGED <<inbox, seedsLeft, phase, iteration, idle, pending, stopping, provider, history>>

\* accepted_success/2
Accepted ==
    /\ worker' = "ready" /\ extra' = 0
    /\ inbox' = Append(inbox, "iterate") /\ up' = Tell(up, None)
    /\ UNCHANGED late
VerifyNext ==
    /\ worker' = "verifying" /\ up' = Tell(up, "verification") /\ Late
    /\ UNCHANGED <<extra, inbox>>

\* Mutant: the mailbox is not looked into.
VerifyToTheEnd ==
    /\ worker = "checking"
    /\ IF extra = 0 THEN Accepted ELSE VerifyNext
    /\ UNCHANGED <<seedsLeft, phase, iteration, idle, pending, stopping, finished, provider, diedAs>>
\* Mutant: the stop found in the mailbox is not put back.
VerifyAndSwallow ==
    /\ worker = "checking"
    /\ IF extra = 0 \/ StopWaits
         THEN /\ worker' = "ready" /\ extra' = 0
              /\ inbox' = Append(RemoveFirst(inbox, "stop"), "iterate") /\ up' = Tell(up, None)
              /\ UNCHANGED late
         ELSE VerifyNext
    /\ UNCHANGED <<seedsLeft, phase, iteration, idle, pending, stopping, finished, provider, diedAs>>

\* verify/5: verification_stop_requested/0 receives a waiting stop and sends it
\* again, behind the other messages but before the next turn.
Verify ==
    /\ worker = "checking"
    /\ IF extra = 0 THEN Accepted
       ELSE IF StopWaits
         THEN /\ worker' = "ready" /\ extra' = 0
              /\ inbox' = RemoveFirst(inbox, "stop") \o <<"stop", "iterate">> /\ up' = Tell(up, None)
              /\ UNCHANGED late
         ELSE VerifyNext
    /\ UNCHANGED <<seedsLeft, phase, iteration, idle, pending, stopping, finished, provider, diedAs>>

Verified ==
    /\ worker = "verifying"
    /\ \/ Infrastructure("verification") /\ extra' = 0
       \/ worker' = "checking" /\ extra' = extra - 1 /\ UNCHANGED <<up, finished>>
    /\ UNCHANGED <<inbox, seedsLeft, phase, iteration, idle, pending, stopping, provider, history>>

-----------------------------------------------------------------------------
(* The provider's answer, and the coordinator's casts. *)

\* provider_reply/4, provider_stopped/2 and staged_choice/2
ReplyTaken(result) ==
    /\ Takes(result) /\ pending /\ pending' = FALSE
    /\ IF stopping
         THEN /\ inbox' = Tail(inbox)
              /\ IF result = "error" THEN Infrastructure("provider")
                 ELSE Finish("stopped_by_user", Tell(up, "provider"))
              /\ UNCHANGED <<iteration, idle, late>>
         ELSE \/ /\ result = "candidate" /\ Counted /\ idle' = 0
                 /\ Execute(Tail(inbox), Tell(up, "provider"))
              \/ /\ result = "skip" /\ inbox' = Append(Tail(inbox), "iterate")
                 /\ idle' = IF idle < MaxIdle THEN idle + 1 ELSE idle
                 /\ up' = Tell(up, None) /\ UNCHANGED <<worker, finished, iteration, late>>
              \/ /\ result \in {"error", "cancelled"} /\ inbox' = Tail(inbox)
                 /\ Infrastructure("provider") /\ UNCHANGED <<iteration, idle, late>>
    /\ UNCHANGED <<seedsLeft, phase, extra, stopping, provider, diedAs>>
ProviderReplied == \E result \in Results : ReplyTaken(result)

\* The request's guardian went down without an answer.
ProviderGone ==
    /\ Takes("gone") /\ pending /\ pending' = FALSE
    /\ inbox' = Tail(inbox) /\ Infrastructure("provider")
    /\ UNCHANGED <<turn, stopping, provider, history>>

\* Mutant: a stop does not wait for the provider's cleanup.
StopAtOnce ==
    /\ Takes("stop") /\ inbox' = Tail(inbox)
    /\ \/ finished /\ UNCHANGED <<worker, finished, up, stopping, provider>>
       \/ ~finished /\ Finish("stopped_by_user", up) /\ UNCHANGED <<stopping, provider>>
    /\ UNCHANGED <<turn, pending, history>>
\* Mutant: a stop does not ask whether the campaign is over.
StopAgain ==
    /\ Takes("stop") /\ inbox' = Tail(inbox)
    /\ Finish("stopped_by_user", up)
    /\ UNCHANGED <<turn, pending, stopping, provider, history>>

\* handle_cast(request_stop)
StopTaken ==
    /\ Takes("stop") /\ inbox' = Tail(inbox)
    /\ \/ (finished \/ stopping) /\ UNCHANGED <<worker, finished, up, stopping, provider>>
       \/ /\ ~finished /\ ~stopping /\ pending /\ stopping' = TRUE
          /\ provider' = IF provider = "working" THEN "cancelling" ELSE provider
          /\ UNCHANGED <<worker, finished, up>>
       \/ /\ ~finished /\ ~pending /\ Finish("stopped_by_user", up)
          /\ UNCHANGED <<stopping, provider>>
    /\ UNCHANGED <<turn, pending, history>>

SampleTaken ==
    /\ Takes("sample") /\ inbox' = Tail(inbox) /\ up' = Append(up, Sample)
    /\ UNCHANGED <<worker, turn, pending, stopping, finished, provider, history>>

\* A process the worker runs in dies: nothing traps, the supervisor does not
\* restart it, and the coordinator's monitor tells.
WorkerCrashes ==
    /\ WorkersMayDie /\ Alive /\ worker' = "dead" /\ inbox' = <<>>
    /\ up' = Append(up, Down)
    /\ diedAs' = CASE worker = "executing" -> "target"
                   [] worker = "verifying" -> "verification"
                   [] worker = "ready" /\ pending -> "provider"
                   [] OTHER -> None
    /\ UNCHANGED <<turn, pending, stopping, finished, provider, late>>

\* efz_mutation_request: one answer, after its process group is reaped; a
\* cancel may come too late to change it.
ProviderAnswers ==
    /\ provider # None /\ Alive /\ provider' = None
    /\ \E result \in Results :
         /\ result = "cancelled" => provider = "cancelling"
         /\ inbox' = Append(inbox, result)
    /\ UNCHANGED <<worker, turn, pending, stopping, finished, up, history>>
ProviderFails ==
    /\ provider # None /\ Alive /\ provider' = None /\ inbox' = Append(inbox, "gone")
    /\ UNCHANGED <<worker, turn, pending, stopping, finished, up, history>>
\* Its owner is gone: it cleans up for nobody.
ProviderOrphaned ==
    /\ provider # None /\ ~Alive /\ provider' = None
    /\ UNCHANGED <<worker, inbox, turn, pending, stopping, finished, up, history>>

Deliver ==
    /\ wire # <<>> /\ wire' = Tail(wire)
    /\ inbox' = IF Alive THEN Append(inbox, Head(wire)) ELSE inbox
    /\ UNCHANGED <<worker, turn, pending, stopping, finished, provider, up, coordVars,
                   clientVars, history, mode>>

WorkerStep ==
    /\ \/ IterateForNothing \/ Calibrate \/ BeginMutation \/ Expire
       \/ Candidate \/ AskProvider \/ Skip \/ Exhausted
       \/ Executed \/ Verify \/ Verified
       \/ ProviderReplied \/ ProviderGone \/ StopTaken \/ SampleTaken
    /\ UNCHANGED <<wire, coordVars, clientVars, mode>>
Surroundings ==
    /\ ProviderAnswers \/ ProviderFails \/ ProviderOrphaned
    /\ UNCHANGED <<wire, coordVars, clientVars, mode>>
Crash == WorkerCrashes /\ UNCHANGED <<wire, coordVars, clientVars, mode>>

-----------------------------------------------------------------------------
(* The coordinator. *)

unchangedWorker == UNCHANGED <<workerVars, history>>
Ready == coordinator = "ready"

\* handle_call(request_stop): one stop is sent, while there is no report.
RequestStop ==
    /\ Ready /\ ~stopRequested /\ report = None
    /\ stopRequested' = TRUE /\ wire' = Append(wire, "stop")
    /\ unchangedWorker
    /\ UNCHANGED <<up, coordinator, report, samplePending, context, waiters, replies, clientVars, mode>>

\* handle_call(monitor_snapshot): never waits for the worker.
Poll ==
    /\ Polled /\ Ready /\ report = None /\ ~samplePending
    /\ samplePending' = TRUE /\ wire' = Append(wire, "sample")
    /\ unchangedWorker
    /\ UNCHANGED <<up, coordinator, report, stopRequested, context, waiters, replies, clientVars, mode>>

\* handle_call(benchmark_snapshot): waits for the worker.
Benchmark ==
    /\ Benchmarked /\ Ready /\ report = None
    /\ coordinator' = "calling" /\ wire' = Append(wire, "snapshot")
    /\ unchangedWorker
    /\ UNCHANGED <<up, report, stopRequested, samplePending, context, waiters, replies, clientVars, mode>>
SnapshotTaken ==
    /\ Takes("snapshot") /\ inbox' = Tail(inbox)
    /\ coordinator' = IF coordinator = "calling" THEN "ready" ELSE coordinator
    /\ UNCHANGED <<worker, turn, pending, stopping, finished, provider, wire, up, report,
                   stopRequested, samplePending, context, waiters, replies, clientVars, history, mode>>

\* terminate/2 takes the services down with the coordinator; callers get an
\* exit instead of a report.
End(how) ==
    /\ coordinator' = how
    /\ worker' = IF Alive THEN "killed" ELSE worker
    /\ inbox' = <<>> /\ wire' = <<>> /\ up' = <<>> /\ waiters' = {}
    /\ calls' = [c \in Clients |-> <<>>] /\ replies' = [c \in Clients |-> {}]
    /\ client' = [c \in Clients |->
         IF client[c].pc = "waiting" THEN [client[c] EXCEPT !.pc = "idle"] ELSE client[c]]
    /\ UNCHANGED <<turn, pending, stopping, finished, provider, report, stopRequested,
                   samplePending, context, history, mode>>
\* The call failed, by its 10 s or by the worker's death: nothing catches it.
BenchmarkFails == coordinator = "calling" /\ worker # "ready" /\ End("crashed")
\* efz_fuzzer:stop/0
Stop == TornDown /\ Ready /\ End("stopped")

ReplyWaiters == [c \in Clients |-> replies[c] \cup {k \in Tokens : <<c, k>> \in waiters}]

\* handle_info of what the worker sent
Hear(message) ==
    CASE message.kind = "context" ->
           context' = message.value /\ UNCHANGED <<report, waiters, replies, samplePending>>
      [] message.kind = "monitor_sample" ->
           samplePending' = FALSE /\ UNCHANGED <<report, waiters, replies, context>>
      [] message.kind = "DOWN" /\ report # None ->
           UNCHANGED <<report, waiters, replies, context, samplePending>>
      [] OTHER ->
           /\ report' = IF message.kind = "DOWN" THEN "worker_down" ELSE message.value
           /\ replies' = ReplyWaiters /\ waiters' = {}
           /\ UNCHANGED <<context, samplePending>>

HearWorker ==
    /\ Ready /\ up # <<>> /\ up' = Tail(up) /\ Hear(Head(up))
    /\ unchangedWorker /\ UNCHANGED <<wire, coordinator, stopRequested, clientVars, mode>>

Await(k) == [kind |-> "await", token |-> k]
CancelAwait(k) == [kind |-> "cancel_await", token |-> k]
ClientDown == [kind |-> "DOWN", token |-> 0]

\* Mutant: a caller is noted although the report is in.
NoteAlways(c, k) == waiters' = waiters \cup {<<c, k>>} /\ UNCHANGED replies
\* handle_call({await, Token})
Note(c, k) ==
    IF report = None THEN waiters' = waiters \cup {<<c, k>>} /\ UNCHANGED replies
    ELSE replies' = [replies EXCEPT ![c] = @ \cup {k}] /\ UNCHANGED waiters
\* handle_cast({cancel_await, Token}) and the client's DOWN
Cancel(c, k) == waiters' = waiters \ {<<c, k>>} /\ UNCHANGED replies
Unnote(c) == waiters' = {w \in waiters : w[1] # c} /\ UNCHANGED replies

HearClient(c) ==
    /\ Ready /\ calls[c] # <<>>
    /\ calls' = [calls EXCEPT ![c] = Tail(@)]
    /\ LET message == Head(calls[c]) IN
         \/ message.kind = "await" /\ Note(c, message.token)
         \/ message.kind = "cancel_await" /\ Cancel(c, message.token)
         \/ message.kind = "DOWN" /\ Unnote(c)
    /\ unchangedWorker
    /\ UNCHANGED <<wire, up, coordinator, report, stopRequested, samplePending, context, client, mode>>

-----------------------------------------------------------------------------
(* The clients. *)

Send(c, message) == calls' = [calls EXCEPT ![c] = Append(@, message)]
Waiting(c) == client[c].pc = "waiting"
onlyClients == UNCHANGED <<workerVars, wire, up, coordinator, report, stopRequested,
                           samplePending, context, waiters, history, mode>>

Call(c) ==
    /\ client[c].pc = "idle" /\ client[c].token < MaxAwaits
    /\ coordinator \in {"ready", "calling"}
    /\ client' = [client EXCEPT ![c] = [pc |-> "waiting", token |-> @.token + 1]]
    /\ Send(c, Await(client[c].token + 1))
    /\ onlyClients /\ UNCHANGED replies
\* An answer to an earlier call is dropped with the call's alias.
Answered(c) ==
    /\ replies[c] # {}
    /\ replies' = [replies EXCEPT ![c] = {}]
    /\ client' = [client EXCEPT ![c].pc =
                    IF @ = "waiting" /\ client[c].token \in replies[c] THEN "idle" ELSE @]
    /\ onlyClients /\ UNCHANGED calls
GiveUp(c) ==
    /\ Waiting(c) /\ client' = [client EXCEPT ![c].pc = "idle"]
    /\ Send(c, CancelAwait(client[c].token))
    /\ onlyClients /\ UNCHANGED replies
Die(c) ==
    /\ client[c].pc # "dead" /\ client' = [client EXCEPT ![c].pc = "dead"]
    /\ Send(c, ClientDown)
    /\ onlyClients /\ UNCHANGED replies

-----------------------------------------------------------------------------
Next ==
    \/ WorkerStep \/ Surroundings \/ Crash \/ Deliver
    \/ RequestStop \/ Poll \/ Benchmark \/ SnapshotTaken \/ BenchmarkFails \/ Stop
    \/ HearWorker
    \/ \E c \in Clients : HearClient(c) \/ Call(c) \/ Answered(c) \/ GiveUp(c) \/ Die(c)

Spec == Init /\ [][Next]_vars

\* The scheduler runs every process and delivers every message; an execution
\* ends by its own deadlines (Guardian's EveryCallReturns), a request by its.
\* The coordinator's mailbox is a queue: what waits there is heard although
\* other calls keep coming, hence strong fairness.
Fairness ==
    /\ WF_vars(WorkerStep) /\ WF_vars(Surroundings) /\ WF_vars(Deliver)
    /\ WF_vars(SnapshotTaken) /\ WF_vars(BenchmarkFails) /\ SF_vars(HearWorker)
    /\ \A c \in Clients : SF_vars(HearClient(c)) /\ WF_vars(Answered(c))

FairSpec == Spec /\ Fairness

-----------------------------------------------------------------------------
\* What the worker tells, and what a client asks for.
Told == {Ctx(c) : c \in Contexts} \cup {Done(s) : s \in Statuses \ {"worker_down"}} \cup {Sample, Down}
Asked == {Await(k) : k \in Tokens} \cup {CancelAwait(k) : k \in Tokens} \cup {ClientDown}
TypeOK ==
    /\ worker \in {"ready", "executing", "checking", "verifying", "dead", "killed"}
    /\ inbox \in Seq(WorkerMessages) /\ wire \in Seq({"stop", "sample", "snapshot"})
    /\ seedsLeft \in 0..Seeds /\ phase \in {"calibration", "mutation"}
    /\ iteration \in 0..MaxIterations /\ (Continuous => iteration = 0)
    /\ idle \in 0..MaxIdle /\ extra \in 0..MaxExtra
    /\ {pending, stopping, finished, stopRequested, samplePending} \subseteq BOOLEAN
    /\ provider \in {None, "working", "cancelling"}
    /\ up \in Seq(Told)
    /\ coordinator \in {"ready", "calling", "crashed", "stopped"}
    /\ report \in {None} \cup Statuses /\ context \in Contexts
    /\ waiters \subseteq Waiters /\ replies \in [Clients -> SUBSET Tokens]
    /\ client \in [Clients -> [pc : {"idle", "waiting", "dead"}, token : 0..MaxAwaits]]
    /\ calls \in [Clients -> Seq(Asked)]
    /\ diedAs \in Contexts /\ late \in 0..2 /\ mode \in Modes

Turns == Cardinality({i \in DOMAIN inbox : inbox[i] = "iterate"})
AnswersWaiting == Cardinality({i \in DOMAIN inbox : inbox[i] \in Results \cup {"gone"}})
\* efz_worker: while the campaign runs, exactly one thing keeps it going: an
\* `iterate' in the mailbox, an execution in progress, or a provider's request
\* whose answer or end is still to come.  It never stalls and never runs twice.
OneTurn ==
    Alive /\ ~finished =>
        /\ Turns + (IF worker # "ready" THEN 1 ELSE 0) + (IF pending THEN 1 ELSE 0) = 1
        /\ pending => AnswersWaiting + (IF provider # None THEN 1 ELSE 0) = 1

\* docs/continuous.md: request_stop/0 stops scheduling after the current target
\* call.  Once the stop is in the worker's mailbox at most one more execution
\* begins, verification included.
StopIsPrompt == late <= 1

\* What the report says is what happened.  A campaign that says it was stopped
\* by its user was asked to stop, has no provider process left behind, and did
\* not lose its worker on the way.  The coordinator's own report of a crash
\* names what the worker was doing: the context was sent before the work began.
StatusIsHonest ==
    /\ report = "stopped_by_user" =>
         /\ stopRequested /\ provider = None
         /\ worker = "dead" => finished
    /\ report = "worker_down" /\ diedAs # None => context = diedAs

Sent(c, message) == Contains(calls[c], message)
\* Every caller of await/1 is on its way in, noted, or on its way out with an
\* answer; and nobody is noted who has neither an interest in the report nor a
\* message on its way that takes the note away.
WaitersExact ==
    coordinator \in {"ready", "calling"} =>
        /\ \A c \in Clients : Waiting(c) =>
             LET k == client[c].token IN
             Sent(c, Await(k)) \/ <<c, k>> \in waiters \/ k \in replies[c]
        /\ \A w \in waiters :
             \/ Waiting(w[1]) /\ client[w[1]].token = w[2]
             \/ Sent(w[1], CancelAwait(w[2])) \/ Sent(w[1], ClientDown)
        /\ report # None => waiters = {}

\* The first report is the report: a late DOWN, stop or second finish changes
\* nothing (docs/continuous.md: a finished campaign keeps its status).
ReportIsFinal == [][report # None => report' = report]_report

\* A requested stop ends in a report, whatever the worker is doing, unless the
\* coordinator itself ends first.
StopIsObeyed == stopRequested ~> (report # None \/ coordinator \in {"stopped", "crashed"})

\* A caller that keeps waiting in a campaign asked to stop gets its answer.
CallersAreAnswered ==
    \A c \in Clients : (Waiting(c) /\ stopRequested) ~> ~Waiting(c)
=============================================================================
