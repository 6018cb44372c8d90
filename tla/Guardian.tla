------------------------------ MODULE Guardian ------------------------------
(***************************************************************************)
(* One execution of one input: efz_guardian, the lifecycle owner, with the *)
(* processes it talks to.  These are the caller blocked in                 *)
(* efz_executor:run_pinned/4, the coordinator that classifies the root,    *)
(* the root, the descendants it creates through efz_target:spawn/1, and    *)
(* the descendants it creates behind the guardian's back with a plain      *)
(* erlang:spawn/1, of which only trace messages tell.                      *)
(*                                                                         *)
(* Delivery.  Erlang orders the signals of one sender to one receiver and  *)
(* nothing else; trace messages are "dislocated" from the signals of the   *)
(* traced process.  Messages in flight are therefore kept in sets, and a   *)
(* receive action of the guardian takes any of them, except that the DOWN  *)
(* of a sender comes after everything else that sender sent, and that a    *)
(* delivery barrier comes after the trace messages it waits for.  Messages *)
(* of one sender that precede its DOWN have handlers that commute.         *)
(*                                                                         *)
(* Time.  A deadline may pass at any moment, so Expire is always possible; *)
(* it is weakly fair because the guardian reads the clock on each turn of  *)
(* its loop, whatever its mailbox holds.                                   *)
(***************************************************************************)
EXTENDS Naturals, FiniteSets

CONSTANTS
    Procs,            \* process identities the target can bring to life
    Root,             \* the process that runs Module:run/1
    NoProc,           \* "no process"
    DescendantLimit,  \* the 4096 of efz_guardian: processes seen per execution
    Deeds,            \* what target code may do in this instance
    Faults,           \* which of the runner's own processes may die
    Sampling          \* whether the efz_runtime sampler is on

AllDeeds == {"spawn_owned", "plain_spawn", "remote_spawn", "declare_dirty",
             "detach", "load", "contaminate"}
AllFaults == {"caller", "coordinator", "guardian"}

ASSUME GuardianAssumption ==
    /\ Root \in Procs
    /\ NoProc \notin Procs
    /\ DescendantLimit \in Nat
    /\ Deeds \subseteq AllDeeds
    /\ Faults \subseteq AllFaults
    /\ Sampling \in BOOLEAN

TargetOutcome == {"ok", "failed", "harness_error"}
Infrastructure == {"harness_error", "caller_down", "coordinator_down", "not_admitted",
                   "uncontrolled_spawn", "remote_spawn", "coverage",
                   "dirty_runner", "guardian_down"}
Outcome == {"none", "timeout"} \cup TargetOutcome \cup Infrastructure

TraceKind == {"spawn", "spawned", "remote", "attach", "detach", "load"}
Trace == [from : Procs \cup {NoProc}, kind : TraceKind, pid : Procs]
CodeServer == NoProc        \* the one traced process outside the target
AllBarrier == NoProc        \* the barrier trace:delivered(Session, all)

Report == [outcome : Outcome, reusable : BOOLEAN,
           cleanup : {"none", "confirmed", "unconfirmed"}]
NoReport == [outcome |-> "none", reusable |-> FALSE, cleanup |-> "none"]

VARIABLES
    phase,            \* guardian: starting, running, cleaning, replied, done, dead
    outcome,          \* the outcome cleanup/2 was entered with
    alive,            \* guardian's map of monitored processes
    seen,             \* guardian's map: unseen, controlled or uncontrolled
    barriers,         \* delivery barriers the guardian waits for
    awaited,          \* trace messages the global barrier is behind
    codeDrained,      \* the global barrier has been requested
    coordinatorAlive, \* guardian's view of the coordinator
    violations,       \* "declared", "uncontrolled", ... (usort'ed list)
    coverageFailure,  \* the first coverage failure has been recorded
    attached,         \* the root's attachment was observed
    sampler,          \* off, alive or exited (DOWN in flight)
    result,           \* the reply sent to the caller
    dirty,            \* the persistent dirty_runner marker of the VM
    pstate,           \* what every target process really is
    request,          \* spawn_owned in the guardian's mailbox: the child asked for
    grant,            \* {ok,Child} reply in flight to the parent: the child
    denied,           \* parents with an {error,_} reply in flight
    startMail,        \* start_owned messages in flight, by receiver
    killed,           \* processes with a kill signal in flight
    dirtyMail,        \* runner_dirty messages in flight, by sender
    downMail,         \* DOWN messages in flight to the guardian, by process
    traces,           \* trace messages in flight
    loader,           \* the code server and a load asked for by the target
    cstate,           \* coordinator: unstarted, idle, watching, resulted, gone
    ckilled,          \* a kill signal is in flight to the coordinator
    cmail,            \* messages of the coordinator in flight to the guardian
    rootResult,       \* the target_result the root sent to the coordinator
    caller,           \* waiting, answered, dead
    callerDown,       \* the caller's DOWN is in flight to the guardian
    answer,           \* what efz_executor:run/4 returned
    spoiled           \* observer: what the target has done that must not be lost

fate == <<phase, outcome>>
books == <<alive, seen, coordinatorAlive>>
drain == <<barriers, awaited, codeDrained>>
notes == <<violations, coverageFailure, attached>>
verdict == <<result, dirty>>
kills == <<killed, ckilled>>
mail == <<request, dirtyMail, downMail>>
replies == <<grant, denied, startMail>>
coordinator == <<cstate, cmail, rootResult>>
callerVars == <<caller, callerDown, answer>>
world == <<loader, spoiled>>
guardianVars == <<fate, books, drain, notes, verdict>>
vars == <<guardianVars, pstate, mail, replies, kills, traces, coordinator,
          callerVars, sampler, world>>

-----------------------------------------------------------------------------
Live(p) == pstate[p] \in {"gated", "running", "waiting", "returned"}
LiveProcs == {p \in Procs : Live(p)}
Born(p) == Live(p) \/ pstate[p] = "dead"
Known == {p \in Procs : seen[p] # "unseen"}
GuardianUp == phase \in {"running", "cleaning"}

Init ==
    /\ phase = "starting" /\ outcome = "none"
    /\ alive = {} /\ seen = [p \in Procs |-> "unseen"]
    /\ barriers = {} /\ awaited = {} /\ codeDrained = FALSE
    /\ coordinatorAlive = FALSE
    /\ violations = {} /\ coverageFailure = FALSE /\ attached = FALSE
    /\ sampler = "off"
    /\ result = NoReport /\ dirty = FALSE
    /\ pstate = [p \in Procs |-> "unborn"]
    /\ request = [p \in Procs |-> NoProc] /\ grant = [p \in Procs |-> NoProc]
    /\ denied = {} /\ startMail = {} /\ killed = {}
    /\ dirtyMail = {} /\ downMail = {}
    /\ traces = {} /\ loader = "idle"
    /\ cstate = "unstarted" /\ ckilled = FALSE /\ cmail = {}
    /\ rootResult = "none"
    /\ caller = "waiting" /\ callerDown = FALSE /\ answer = NoReport
    /\ spoiled = {}

-----------------------------------------------------------------------------
(* The guardian's loop.  On every turn it first looks whether cleanup is   *)
(* over; at rest it acts on that and reads no message.                     *)

\* Mutant: cleanup is over with the last DOWN, barriers or not.
DrainedOnDown == phase = "cleaning" /\ ~coordinatorAlive /\ alive = {}

Drained == /\ phase = "cleaning" /\ ~coordinatorAlive
           /\ alive = {} /\ barriers = {}
AtRest == Drained /\ (codeDrained => sampler = "off")
Receiving == GuardianUp /\ ~AtRest

\* Signals to the dead vanish.
Kill(S) == killed \cup {p \in S : Live(p)}

\* cleanup/2: only the first reason counts, and everything known is killed.
Cleanup(why, known) ==
    IF phase = "running"
      THEN /\ phase' = "cleaning" /\ outcome' = why
           /\ killed' = Kill(known) /\ ckilled' = (cstate # "gone")
      ELSE UNCHANGED <<fate, kills>>

\* start/6: the coordinator, the sampler and the gated root exist, monitored
\* and traced, before the loop is entered.
Start ==
    /\ phase = "starting"
    /\ phase' = "running"
    /\ coordinatorAlive' = TRUE /\ cstate' = "idle"
    /\ pstate' = [pstate EXCEPT ![Root] = "gated"]
    /\ alive' = {Root} /\ seen' = [seen EXCEPT ![Root] = "controlled"]
    /\ sampler' = IF Sampling THEN "alive" ELSE "off"
    /\ UNCHANGED <<outcome, drain, notes, verdict, mail, replies, kills,
                   traces, cmail, rootResult, callerVars, world>>

\* The coordinator monitors the root: the root's gate may open.
RecvReady ==
    /\ Receiving /\ "ready" \in cmail
    /\ cmail' = cmail \ {"ready"}
    /\ startMail' = IF phase = "running" /\ Live(Root)
                      THEN startMail \cup {Root} ELSE startMail
    /\ UNCHANGED <<guardianVars, pstate, mail, grant, denied, kills, traces,
                   cstate, rootResult, callerVars, sampler, world>>

DoneOutcome == IF rootResult = "none" THEN "failed" ELSE rootResult

RecvDone ==
    /\ Receiving /\ "done" \in cmail /\ "ready" \notin cmail
    /\ cmail' = cmail \ {"done"}
    /\ Cleanup(DoneOutcome, alive)
    /\ UNCHANGED <<books, drain, notes, verdict, pstate, mail, replies,
                   traces, cstate, rootResult, callerVars, sampler, world>>

RecvCoordinatorDown ==
    /\ Receiving /\ cmail = {"down"}
    /\ cmail' = {}
    /\ coordinatorAlive' = FALSE
    /\ Cleanup("coordinator_down", alive)
    /\ UNCHANGED <<alive, seen, drain, notes, verdict, pstate, mail, replies,
                   traces, cstate, rootResult, callerVars, sampler, world>>

RecvCallerDown ==
    /\ Receiving /\ callerDown
    /\ callerDown' = FALSE
    /\ Cleanup("caller_down", alive)
    /\ UNCHANGED <<books, drain, notes, verdict, pstate, mail, replies,
                   traces, coordinator, caller, answer, sampler, world>>

-----------------------------------------------------------------------------
(* spawn_owned: admission of a descendant, or one of the two refusals.     *)

AdmitChild(p) ==
    LET c == request[p] IN
    /\ Receiving /\ c # NoProc /\ phase = "running"
    /\ p \in alive /\ Cardinality(Known) < DescendantLimit
    /\ pstate' = [pstate EXCEPT ![c] = "gated"]
    /\ alive' = alive \cup {c} /\ seen' = [seen EXCEPT ![c] = "controlled"]
    /\ request' = [request EXCEPT ![p] = NoProc]
    /\ grant' = IF Live(p) THEN [grant EXCEPT ![p] = c] ELSE grant
    /\ UNCHANGED <<fate, coordinatorAlive, drain, notes, verdict, dirtyMail,
                   downMail, denied, startMail, kills, traces, coordinator,
                   callerVars, sampler, world>>

Refuse(p) ==
    /\ pstate' = [pstate EXCEPT ![request[p]] = "unborn"]
    /\ request' = [request EXCEPT ![p] = NoProc]
    /\ denied' = IF Live(p) THEN denied \cup {p} ELSE denied
    /\ UNCHANGED <<books, drain, coverageFailure, attached, verdict,
                   dirtyMail, downMail, grant, startMail, traces, coordinator,
                   callerVars, sampler, world>>

RefuseAtLimit(p) ==
    /\ Receiving /\ request[p] # NoProc /\ phase = "running"
    /\ ~(p \in alive /\ Cardinality(Known) < DescendantLimit)
    /\ violations' = violations \cup {"descendant_limit"}
    /\ Cleanup("not_admitted", alive)
    /\ Refuse(p)

RefuseStopping(p) ==
    /\ Receiving /\ request[p] # NoProc /\ phase = "cleaning"
    /\ Refuse(p)
    /\ UNCHANGED <<fate, kills, violations>>

-----------------------------------------------------------------------------
(* The other messages of the target's processes.                           *)

\* Mutant: a declaration is listened to only until cleanup begins.
RecvDirtyWhileRunning(p) ==
    /\ Receiving /\ p \in dirtyMail
    /\ dirtyMail' = dirtyMail \ {p}
    /\ violations' = IF phase = "running" THEN violations \cup {"declared"}
                                          ELSE violations
    /\ UNCHANGED <<fate, books, drain, coverageFailure, attached, verdict,
                   pstate, request, downMail, replies, kills, traces,
                   coordinator, callerVars, sampler, world>>

RecvDirty(p) ==
    /\ Receiving /\ p \in dirtyMail
    /\ dirtyMail' = dirtyMail \ {p}
    /\ violations' = violations \cup {"declared"}
    /\ UNCHANGED <<fate, books, drain, coverageFailure, attached, verdict,
                   pstate, request, downMail, replies, kills, traces,
                   coordinator, callerVars, sampler, world>>

\* The death of a process is not the end of its traces: a barrier of its own
\* is asked for.
RecvDown(p) ==
    /\ Receiving /\ p \in downMail
    /\ request[p] = NoProc /\ p \notin dirtyMail
    /\ downMail' = downMail \ {p}
    /\ alive' = alive \ {p} /\ barriers' = barriers \cup {p}
    /\ UNCHANGED <<fate, seen, coordinatorAlive, awaited, codeDrained, notes,
                   verdict, pstate, request, dirtyMail, replies, kills, traces,
                   coordinator, callerVars, sampler, world>>

RecvBarrier(b) ==
    /\ Receiving /\ b \in barriers
    /\ IF b = AllBarrier THEN awaited \cap traces = {}
                         ELSE \A m \in traces : m.from # b
    /\ barriers' = barriers \ {b}
    /\ UNCHANGED <<fate, books, awaited, codeDrained, notes, verdict, pstate,
                   mail, replies, kills, traces, coordinator, callerVars,
                   sampler, world>>

RecvSamplerDown ==
    /\ Receiving /\ sampler = "exited"
    /\ sampler' = "off"
    /\ UNCHANGED <<guardianVars, pstate, mail, replies, kills, traces,
                   coordinator, callerVars, world>>

\* Mutant: the discovered process is killed but not held against the VM.
DiscoverQuietly(c) ==
    /\ seen' = [seen EXCEPT ![c] = "uncontrolled"]
    /\ alive' = alive \cup {c}
    /\ downMail' = IF Live(c) THEN downMail ELSE downMail \cup {c}
    /\ IF phase = "running"
         THEN Cleanup("timeout", alive \cup {c})
         ELSE killed' = Kill({c}) /\ UNCHANGED <<fate, ckilled>>
    /\ UNCHANGED notes

\* discovered/2 of a process nobody admitted.  Monitoring a process that is
\* already dead yields its DOWN at once.
Discover(c) ==
    /\ seen' = [seen EXCEPT ![c] = "uncontrolled"]
    /\ alive' = alive \cup {c}
    /\ violations' = violations \cup {"uncontrolled_spawn"}
    /\ downMail' = IF Live(c) THEN downMail ELSE downMail \cup {c}
    /\ IF phase = "running"
         THEN Cleanup("uncontrolled_spawn", alive \cup {c})
         ELSE killed' = Kill({c}) /\ UNCHANGED <<fate, ckilled>>
    /\ UNCHANGED <<coverageFailure, attached>>

TakeTrace(m) ==
    /\ Receiving /\ m \in traces
    /\ traces' = traces \ {m}
    /\ UNCHANGED <<coordinatorAlive, drain, verdict, pstate, request,
                   dirtyMail, replies, coordinator, callerVars, sampler, world>>

RecvSpawnTrace(m) ==
    /\ TakeTrace(m) /\ m.kind \in {"spawn", "spawned"}
    /\ IF seen[m.pid] = "unseen"
         THEN Discover(m.pid)
         ELSE UNCHANGED <<fate, alive, seen, notes, downMail, kills>>

RecvRemoteTrace(m) ==
    /\ TakeTrace(m) /\ m.kind = "remote"
    /\ violations' = violations \cup {"remote_spawn"}
    /\ Cleanup("remote_spawn", alive)
    /\ UNCHANGED <<alive, seen, coverageFailure, attached, downMail>>

\* efz_cov_integrity:trace_event/3: the root attached, a process dropped its
\* coverage context, or the code server loaded a pinned module.
RecvCoverageTrace(m) ==
    /\ TakeTrace(m) /\ m.kind \in {"attach", "detach", "load"}
    /\ attached' = (attached \/ m.kind = "attach")
    /\ coverageFailure' = (coverageFailure \/ m.kind # "attach")
    /\ UNCHANGED <<fate, alive, seen, violations, downMail, kills>>

-----------------------------------------------------------------------------
(* The end of an execution.                                                *)

\* Mutant: no barrier for the loader.
SkipGlobalBarrier ==
    /\ AtRest /\ ~codeDrained
    /\ codeDrained' = TRUE
    /\ UNCHANGED <<fate, barriers, awaited, books, notes, verdict, pstate,
                   mail, replies, kills, traces, coordinator, callerVars,
                   sampler, world>>

\* Once everything known is dead, one barrier over all traced processes
\* covers the loader activity that overlapped the target.
RequestGlobalBarrier ==
    /\ AtRest /\ ~codeDrained
    /\ codeDrained' = TRUE
    /\ barriers' = {AllBarrier} /\ awaited' = traces
    /\ UNCHANGED <<fate, books, notes, verdict, pstate, mail, replies, kills,
                   traces, coordinator, callerVars, sampler, world>>

\* finish/2.  spoiled holds "contaminate" when the persistent terms, the
\* environment, the tables or the names of the VM differ from the baseline.
\* Loads are taken to be transient: the check of the pins sees nothing.
Publish(status, noted) ==
    LET changes  == spoiled \cap {"contaminate"}
        reusable == status = "confirmed" /\ noted \cup changes = {}
        lost     == coverageFailure \/ (outcome = "ok" /\ ~attached)
        final    == IF outcome \in Infrastructure THEN outcome
                    ELSE CASE ~reusable          -> "dirty_runner"
                           [] reusable /\ lost   -> "coverage"
                           [] reusable /\ ~lost  -> outcome
    IN /\ violations' = noted
       /\ result' = [outcome |-> final, reusable |-> reusable,
                     cleanup |-> status]
       /\ dirty' = (dirty \/ ~reusable)
       /\ phase' = "replied" /\ traces' = {}
       /\ UNCHANGED <<outcome, books, drain, coverageFailure, attached,
                      pstate, mail, replies, kills, coordinator, callerVars,
                      sampler, world>>

Finish == AtRest /\ codeDrained /\ Publish("confirmed", violations)

\* Mutant: the clock is read only when the mailbox is empty.
ExpireWhenIdle ==
    /\ Receiving /\ phase = "running"
    /\ dirtyMail = {} /\ downMail = {} /\ traces = {} /\ cmail = {}
    /\ Cleanup("timeout", alive)
    /\ UNCHANGED <<books, drain, notes, verdict, pstate, mail, replies,
                   traces, coordinator, callerVars, sampler, world>>

ExpireRunning ==
    /\ Receiving /\ phase = "running"
    /\ Cleanup("timeout", alive)
    /\ UNCHANGED <<books, drain, notes, verdict, pstate, mail, replies,
                   traces, coordinator, callerVars, sampler, world>>

ExpireCleaning ==
    /\ Receiving /\ phase = "cleaning"
    /\ Publish("unconfirmed", violations \cup {"cleanup_deadline"})

Expire == ExpireRunning \/ ExpireCleaning

GuardianExits ==
    /\ phase = "replied" /\ phase' = "done"
    /\ UNCHANGED <<outcome, books, drain, notes, verdict, pstate, mail,
                   replies, kills, traces, coordinator, callerVars, sampler,
                   world>>

\* The guardian is killed or crashes; its trace session goes with it.
GuardianDies ==
    /\ "guardian" \in Faults
    /\ phase \in {"starting", "running", "cleaning", "replied"}
    /\ phase' = "dead" /\ traces' = {}
    /\ UNCHANGED <<outcome, books, drain, notes, verdict, pstate, mail,
                   replies, kills, coordinator, callerVars, sampler, world>>

-----------------------------------------------------------------------------
(* The target's processes.                                                 *)

\* Everything but the target's own state.
TargetFrame == UNCHANGED <<guardianVars, callerVars, ckilled, sampler>>

Emit(ms) == IF GuardianUp THEN traces \cup ms ELSE traces
Message(from, kind, pid) == [from |-> from, kind |-> kind, pid |-> pid]
Running(p) == pstate[p] = "running"
Become(p, s) == pstate' = [pstate EXCEPT ![p] = s]

\* admit/2 in the new process: attach the coverage context, then run.  Only
\* the root's attachment is looked at.
GateOpens(p) ==
    /\ pstate[p] = "gated" /\ p \in startMail
    /\ startMail' = startMail \ {p}
    /\ Become(p, "running")
    /\ traces' = IF p = Root THEN Emit({Message(p, "attach", p)}) ELSE traces
    /\ TargetFrame
    /\ UNCHANGED <<mail, grant, denied, killed, coordinator, world>>

GuardianGone == phase \in {"done", "dead"}

Dies(p) ==
    /\ Become(p, "dead")
    /\ downMail' = IF seen[p] # "unseen" THEN downMail \cup {p} ELSE downMail
    /\ startMail' = startMail \ {p} /\ killed' = killed \ {p}
    /\ denied' = denied \ {p} /\ grant' = [grant EXCEPT ![p] = NoProc]
    /\ TargetFrame
    /\ UNCHANGED <<request, dirtyMail, traces, coordinator, world>>

KillArrives(p) == p \in killed /\ Dies(p)

\* Mutant: only the root watches the guardian from its gate.
GateAbandonedByRoot(p) ==
    /\ pstate[p] = "gated" /\ GuardianGone /\ p = Root /\ p \notin startMail
    /\ Dies(p)

\* The guardian died before the gate opened.
GateAbandoned(p) ==
    /\ pstate[p] = "gated" /\ GuardianGone /\ (p # Root \/ p \notin startMail)
    /\ Dies(p)

\* A normal return, an exception, a broken link, a kill by another target
\* process.  Nobody knows the root before it runs.
Exits(p) == Live(p) /\ (p # Root \/ pstate[p] # "gated") /\ Dies(p)

\* efz_executor:invoke/4 in the root.
Returns(o) ==
    /\ Running(Root) /\ Become(Root, "returned")
    /\ rootResult' = o
    /\ TargetFrame
    /\ UNCHANGED <<mail, replies, killed, traces, cstate, cmail, world>>

\* efz_target:spawn/1: ask the guardian and wait.  The model names the child
\* the guardian would create; when nobody is there the call fails at once.
RequestChild(p, c) ==
    /\ "spawn_owned" \in Deeds /\ GuardianUp
    /\ Running(p) /\ seen[p] = "controlled" /\ pstate[c] = "unborn"
    /\ pstate' = [pstate EXCEPT ![p] = "waiting", ![c] = "reserved"]
    /\ request' = [request EXCEPT ![p] = c]
    /\ TargetFrame
    /\ UNCHANGED <<dirtyMail, downMail, replies, killed, traces, coordinator,
                   world>>

RecvGrant(p) ==
    /\ pstate[p] = "waiting" /\ grant[p] # NoProc
    /\ Become(p, "running")
    /\ startMail' = IF Live(grant[p]) THEN startMail \cup {grant[p]}
                                      ELSE startMail
    /\ grant' = [grant EXCEPT ![p] = NoProc]
    /\ TargetFrame
    /\ UNCHANGED <<mail, denied, killed, traces, coordinator, world>>

RecvDenial(p) ==
    /\ pstate[p] = "waiting" /\ p \in denied
    /\ Become(p, "running") /\ denied' = denied \ {p}
    /\ TargetFrame
    /\ UNCHANGED <<mail, grant, startMail, killed, traces, coordinator, world>>

\* Mutant: a parent notices only a guardian that ended normally.
OwnerLeft(p) ==
    /\ pstate[p] = "waiting" /\ phase = "done"
    /\ request[p] # NoProc
    /\ pstate' = [pstate EXCEPT ![p] = "running", ![request[p]] = "unborn"]
    /\ request' = [request EXCEPT ![p] = NoProc]
    /\ TargetFrame
    /\ UNCHANGED <<dirtyMail, downMail, replies, killed, traces, coordinator,
                   world>>

OwnerLost(p) ==
    /\ pstate[p] = "waiting" /\ GuardianGone
    /\ request[p] # NoProc
    /\ pstate' = [pstate EXCEPT ![p] = "running", ![request[p]] = "unborn"]
    /\ request' = [request EXCEPT ![p] = NoProc]
    /\ TargetFrame
    /\ UNCHANGED <<dirtyMail, downMail, replies, killed, traces, coordinator,
                   world>>

Spoil(deed) == spoiled' = spoiled \cup {deed}

PlainSpawn(p, c) ==
    /\ "plain_spawn" \in Deeds /\ Running(p) /\ pstate[c] = "unborn"
    /\ Become(c, "running") /\ Spoil("plain_spawn")
    /\ traces' = Emit({Message(p, "spawn", c), Message(c, "spawned", c)})
    /\ TargetFrame
    /\ UNCHANGED <<mail, replies, killed, coordinator, loader>>

RemoteSpawn(p) ==
    /\ "remote_spawn" \in Deeds /\ Running(p) /\ Spoil("remote_spawn")
    /\ traces' = Emit({Message(p, "remote", p)})
    /\ TargetFrame
    /\ UNCHANGED <<pstate, mail, replies, killed, coordinator, loader>>

\* efz_target:dirty/1; only an admitted process holds the capability.
DeclareDirty(p) ==
    /\ "declare_dirty" \in Deeds /\ Running(p) /\ seen[p] = "controlled"
    /\ Spoil("declare_dirty")
    /\ dirtyMail' = IF GuardianUp THEN dirtyMail \cup {p} ELSE dirtyMail
    /\ TargetFrame
    /\ UNCHANGED <<pstate, request, downMail, replies, killed, traces,
                   coordinator, loader>>

\* erase/0 or put/2 on the coverage key of an admitted process.
Detach(p) ==
    /\ "detach" \in Deeds /\ Running(p) /\ seen[p] = "controlled"
    /\ Spoil("detach")
    /\ traces' = Emit({Message(p, "detach", p)})
    /\ TargetFrame
    /\ UNCHANGED <<pstate, mail, replies, killed, coordinator, loader>>

Contaminate(p) ==
    /\ "contaminate" \in Deeds /\ Running(p) /\ Spoil("contaminate")
    /\ TargetFrame
    /\ UNCHANGED <<pstate, mail, replies, killed, traces, coordinator, loader>>

\* A load of a pinned module is a request to the code server, which may come
\* to it after its sender is dead.
RequestLoad(p) ==
    /\ "load" \in Deeds /\ Running(p) /\ loader = "idle"
    /\ loader' = "requested"
    /\ TargetFrame
    /\ UNCHANGED <<pstate, mail, replies, killed, traces, coordinator, spoiled>>

LoadCommits ==
    /\ loader = "requested" /\ loader' = "committed"
    /\ traces' = Emit({Message(CodeServer, "load", Root)})
    /\ spoiled' = IF LiveProcs # {} THEN spoiled \cup {"load"} ELSE spoiled
    /\ TargetFrame
    /\ UNCHANGED <<pstate, mail, replies, killed, coordinator>>

-----------------------------------------------------------------------------
(* The coordinator, the sampler and the caller.                            *)

Watches ==
    /\ cstate = "idle" /\ cstate' = "watching"
    /\ cmail' = cmail \cup {"ready"}
    /\ UNCHANGED <<guardianVars, pstate, mail, replies, kills, traces,
                   rootResult, callerVars, sampler, world>>

GetsResult ==
    /\ cstate = "watching" /\ rootResult # "none" /\ cstate' = "resulted"
    /\ UNCHANGED <<guardianVars, pstate, mail, replies, kills, traces, cmail,
                   rootResult, callerVars, sampler, world>>

\* The root is DOWN, after its result or without one: report it and leave.
Classifies ==
    /\ pstate[Root] = "dead"
    /\ cstate = "resulted" \/ (cstate = "watching" /\ rootResult = "none")
    /\ cstate' = "gone" /\ ckilled' = FALSE
    /\ cmail' = cmail \cup {"done", "down"}
    /\ UNCHANGED <<guardianVars, pstate, mail, replies, killed, traces,
                   rootResult, callerVars, sampler, world>>

CoordinatorDies ==
    /\ cstate \in {"idle", "watching", "resulted"}
    /\ ckilled \/ GuardianGone \/ "coordinator" \in Faults
    /\ cstate' = "gone" /\ ckilled' = FALSE
    /\ cmail' = cmail \cup {"down"}
    /\ UNCHANGED <<guardianVars, pstate, mail, replies, killed, traces,
                   rootResult, callerVars, sampler, world>>

\* The sampler fails, or the kill of cleanup/2 reaches it.
SamplerExits ==
    /\ sampler = "alive" /\ sampler' = "exited"
    /\ UNCHANGED <<guardianVars, pstate, mail, replies, kills, traces,
                   coordinator, callerVars, world>>

CallerDies ==
    /\ "caller" \in Faults /\ caller = "waiting"
    /\ caller' = "dead" /\ callerDown' = TRUE
    /\ UNCHANGED <<guardianVars, pstate, mail, replies, kills, traces,
                   coordinator, answer, sampler, world>>

\* run_pinned/4: the result counts once the guardian is DOWN.
CallerReturns ==
    /\ caller = "waiting" /\ phase = "done"
    /\ caller' = "answered" /\ answer' = result
    /\ UNCHANGED <<guardianVars, pstate, mail, replies, kills, traces,
                   coordinator, callerDown, sampler, world>>

\* Mutant: the VM is not marked.
CallerMarksNothing ==
    /\ caller = "waiting" /\ phase = "dead"
    /\ caller' = "answered"
    /\ answer' = [outcome |-> "guardian_down", reusable |-> FALSE,
                  cleanup |-> "unconfirmed"]
    /\ UNCHANGED <<guardianVars, pstate, mail, replies, kills, traces,
                   coordinator, callerDown, sampler, world>>
\* guardian_failed/2: the VM is retired, the primary failure is kept.
CallerFindsGuardianDead ==
    /\ caller = "waiting" /\ phase = "dead"
    /\ caller' = "answered" /\ dirty' = TRUE
    /\ answer' = [outcome |-> IF result.outcome \in Infrastructure
                                THEN result.outcome ELSE "guardian_down",
                  reusable |-> FALSE, cleanup |-> "unconfirmed"]
    /\ UNCHANGED <<fate, books, drain, notes, result, pstate, mail, replies,
                   kills, traces, coordinator, callerDown, sampler, world>>

-----------------------------------------------------------------------------
GuardianStep ==
    \/ RecvReady \/ RecvDone \/ RecvCoordinatorDown \/ RecvCallerDown
    \/ RecvSamplerDown
    \/ \E p \in Procs : \/ AdmitChild(p) \/ RefuseAtLimit(p)
                        \/ RefuseStopping(p) \/ RecvDirty(p) \/ RecvDown(p)
    \/ \E b \in Procs \cup {AllBarrier} : RecvBarrier(b)
    \/ \E m \in traces : \/ RecvSpawnTrace(m) \/ RecvRemoteTrace(m)
                         \/ RecvCoverageTrace(m)
    \/ Start \/ RequestGlobalBarrier \/ Finish \/ GuardianExits

\* What the runtime delivers to a target process.
Delivery(p) == \/ KillArrives(p) \/ GateAbandoned(p) \/ GateOpens(p)
               \/ RecvGrant(p) \/ RecvDenial(p) \/ OwnerLost(p)

\* What target code may choose to do.
TargetStep(p) ==
    \/ Exits(p)
    \/ \E c \in Procs : RequestChild(p, c) \/ PlainSpawn(p, c)
    \/ RemoteSpawn(p) \/ DeclareDirty(p) \/ Detach(p) \/ Contaminate(p)
    \/ RequestLoad(p)

CoordinatorStep == Watches \/ GetsResult \/ Classifies
CallerStep == CallerReturns \/ CallerFindsGuardianDead

Next ==
    \/ GuardianStep \/ Expire \/ GuardianDies
    \/ \E p \in Procs : Delivery(p) \/ TargetStep(p)
    \/ \E o \in TargetOutcome : Returns(o)
    \/ LoadCommits \/ CoordinatorStep \/ CoordinatorDies \/ SamplerExits
    \/ CallerStep \/ CallerDies

Spec == Init /\ [][Next]_vars

(* The scheduler of the VM runs every runnable process and delivers every  *)
(* signal; deadlines pass.  Nothing is assumed of the target: it may block, *)
(* loop or fill mailboxes for ever.                                        *)
Fairness ==
    /\ WF_vars(GuardianStep) /\ WF_vars(Expire)
    /\ WF_vars(CoordinatorStep) /\ WF_vars((ckilled \/ GuardianGone) /\ CoordinatorDies)
    /\ WF_vars(CallerStep)
    /\ WF_vars(phase = "cleaning" /\ SamplerExits)
    /\ \A p \in Procs : WF_vars(Delivery(p))

FairSpec == Spec /\ Fairness

-----------------------------------------------------------------------------
(* Properties.                                                             *)

TypeOK ==
    /\ phase \in {"starting", "running", "cleaning", "replied", "done", "dead"}
    /\ outcome \in Outcome
    /\ alive \subseteq Procs
    /\ seen \in [Procs -> {"unseen", "controlled", "uncontrolled"}]
    /\ barriers \subseteq Procs \cup {AllBarrier}
    /\ awaited \subseteq Trace /\ traces \subseteq Trace
    /\ codeDrained \in BOOLEAN /\ coordinatorAlive \in BOOLEAN
    /\ violations \subseteq {"descendant_limit", "declared", "remote_spawn",
                             "uncontrolled_spawn", "cleanup_deadline"}
    /\ coverageFailure \in BOOLEAN /\ attached \in BOOLEAN
    /\ sampler \in {"off", "alive", "exited"}
    /\ result \in Report /\ answer \in Report /\ dirty \in BOOLEAN
    /\ pstate \in [Procs -> {"unborn", "reserved", "gated", "running",
                             "waiting", "returned", "dead"}]
    /\ request \in [Procs -> Procs \cup {NoProc}]
    /\ grant \in [Procs -> Procs \cup {NoProc}]
    /\ denied \subseteq Procs /\ startMail \subseteq Procs
    /\ killed \subseteq Procs /\ dirtyMail \subseteq Procs
    /\ downMail \subseteq Procs
    /\ loader \in {"idle", "requested", "committed"}
    /\ cstate \in {"unstarted", "idle", "watching", "resulted", "gone"}
    /\ ckilled \in BOOLEAN /\ cmail \subseteq {"ready", "done", "down"}
    /\ rootResult \in {"none"} \cup TargetOutcome
    /\ caller \in {"waiting", "answered", "dead"} /\ callerDown \in BOOLEAN
    /\ spoiled \subseteq AllDeeds

(* A confirmed cleanup means that nothing the execution started is running *)
(* any more, descendants the guardian learnt of late included: DOWN,       *)
(* barriers and discovery together leave no process behind (finish/2 is    *)
(* reached only through the first clause of loop/1).                       *)
ConfirmedIsQuiet == result.cleanup = "confirmed" => LiveProcs = {}

(* A VM is declared reusable only if the target neither created a process  *)
(* behind the guardian's back, nor spawned remotely, nor declared an       *)
(* effect, nor changed shared state: none of the messages that tell of it  *)
(* is overtaken by the verdict.                                            *)
ReusableIsUnspoiled ==
    result.reusable =>
        spoiled \cap {"plain_spawn", "remote_spawn", "declare_dirty",
                      "contaminate"} = {}

(* An outcome of the target is reported only with an intact observation:   *)
(* no detached context and no load of a pinned module that overlapped a    *)
(* process of the target, however late its trace.                          *)
TargetOutcomeIsObserved ==
    result.outcome \in {"ok", "failed", "timeout"} =>
        spoiled \cap {"detach", "load"} = {}

(* And the converse for the coverage: an undisturbed execution is never    *)
(* blamed for lost coverage (missing_coverage_attachment), because the     *)
(* attachment is read behind the barrier of the root.                      *)
NoFalseLoss ==
    result.outcome = "coverage" /\ result.cleanup = "confirmed" =>
        "detach" \in spoiled \/ loader = "committed"

(* run_pinned/4 returns ok only if the root returned, it returned ok, and  *)
(* the guardian ended normally after a confirmed cleanup.                  *)
OkIsEarned ==
    answer.outcome = "ok" =>
        /\ rootResult = "ok" /\ phase = "done"
        /\ answer.cleanup = "confirmed" /\ answer.reusable

(* The first infrastructure failure survives dirty cleanup and the later   *)
(* death of the guardian, once the guardian has replied.                   *)
FirstReasonKept ==
    caller = "answered" /\ result # NoReport /\ outcome \in Infrastructure =>
        answer.outcome = outcome

(* Whenever anybody has learnt the end of the execution while a process of *)
(* it still lives, the VM is marked dirty.                                 *)
SurvivorsRetireTheVm ==
    (phase \in {"replied", "done"} \/ caller = "answered") /\ LiveProcs # {} =>
        dirty

(* The root runs no target code before the coordinator monitors it, so its *)
(* death cannot be missed.                                                 *)
RootIsWatched ==
    pstate[Root] \in {"running", "waiting", "returned"} =>
        cstate \notin {"unstarted", "idle"}

(* run/4 always returns, whatever the target does and whoever dies, and    *)
(* the guardian brings the execution to its end, for a dead caller too.    *)
EveryCallReturns == <>(caller # "waiting" /\ GuardianGone)

(* A descendant at its gate whose parent died, or whose owner is gone, is  *)
(* not left there for ever.                                                *)
NobodyStuckAtGate ==
    \A p \in Procs : (GuardianGone /\ pstate[p] = "gated") ~> pstate[p] # "gated"

(* A target process blocked in efz_target:spawn/1 gets an answer, or dies. *)
SpawnIsAnswered ==
    \A p \in Procs : pstate[p] = "waiting" ~> pstate[p] # "waiting"

-----------------------------------------------------------------------------
(* Why the properties hold: an invariant that every step preserves, built  *)
(* of named parts.                                                         *)

Unseen == {p \in Procs : Born(p) /\ seen[p] = "unseen"}
LoadMessage == Message(CodeServer, "load", Root)
AttachMessage == Message(Root, "attach", Root)

\* Who is who: identities, requests, grants and deaths.
Identity ==
    /\ phase = "starting" =>
           /\ \A p \in Procs : pstate[p] = "unborn"
           /\ spoiled = {} /\ loader = "idle" /\ rootResult = "none"
           /\ cstate = "unstarted" /\ cmail = {} /\ dirtyMail = {}
           /\ traces = {} /\ barriers = {} /\ ~codeDrained
           /\ ~coverageFailure /\ outcome = "none"
    /\ phase \notin {"starting", "dead"} => Born(Root)
    /\ \A p \in Procs : pstate[p] # "unborn" => Born(Root)
    /\ \A p \in Procs : seen[p] # "unseen" => Born(p)
    /\ Born(Root) => seen[Root] = "controlled"
    /\ \A p \in killed : Live(p)
    /\ alive \subseteq Known
    /\ downMail \subseteq Known
    /\ \A p \in Known : p \notin alive => pstate[p] = "dead"
    /\ \A p \in downMail : pstate[p] = "dead"
    /\ \A p \in Procs : request[p] # NoProc =>
           /\ pstate[request[p]] = "reserved"
           /\ \A q \in Procs \ {p} : request[q] # request[p]
    /\ \A p \in Procs : grant[p] # Root
    /\ Root \in startMail \/ "ready" \in cmail => cstate \notin {"unstarted", "idle"}
    /\ "done" \in cmail \/ outcome = "ok" => pstate[Root] = "dead"
    /\ outcome = "ok" => rootResult = "ok"
    /\ outcome # "coverage"

\* Traces in flight come from processes whose last barrier is still to come.
TraceOrigins ==
    GuardianUp =>
        /\ \A m \in traces : m.from # CodeServer => Born(m.from)
        /\ \A m \in traces : m.kind = "load" <=> m.from = CodeServer
        /\ \A m \in traces : m.kind \in {"spawn", "spawned"} => Born(m.pid)
        /\ \A m \in traces :
               m.from \in Unseen \cup alive \cup barriers \/ m.from = CodeServer
        /\ \A p \in barriers \cap Procs : p \in Known \ alive

\* Every set of undiscovered processes has a member whose spawn trace comes
\* from outside the set: discovery cannot stop short of the last of them.
Discoverable ==
    GuardianUp =>
        \A S \in SUBSET Unseen : S # {} =>
            \E c \in S, q \in Procs \ S :
                Born(q) /\ Message(q, "spawn", c) \in traces

\* Nothing the target did is both unknown to the guardian and out of flight.
Reported ==
    GuardianUp =>
        /\ dirtyMail \subseteq alive
        /\ "plain_spawn" \in spoiled =>
               "uncontrolled_spawn" \in violations \/ Unseen # {}
        /\ "declare_dirty" \in spoiled =>
               "declared" \in violations \/ dirtyMail # {}
        /\ "remote_spawn" \in spoiled =>
               "remote_spawn" \in violations \/ \E m \in traces : m.kind = "remote"
        /\ "detach" \in spoiled =>
               coverageFailure \/ \E m \in traces : m.kind = "detach"
        /\ "load" \in spoiled => coverageFailure \/ LoadMessage \in traces
        /\ pstate[Root] \in {"running", "waiting"} \/ rootResult # "none" =>
               attached \/ AttachMessage \in traces

\* And the guardian holds nothing against a target that did nothing.
Blameless ==
    GuardianUp =>
        /\ \A m \in traces : m.kind = "detach" => "detach" \in spoiled
        /\ \A m \in traces : m.kind = "load" => loader = "committed"
        /\ coverageFailure => "detach" \in spoiled \/ loader = "committed"
        /\ "load" \in spoiled => loader = "committed"

Tracking == TraceOrigins /\ Discoverable /\ Reported /\ Blameless

\* The global barrier, and what has been said to the caller.
Closing ==
    /\ phase \in {"starting", "running", "cleaning"} => result = NoReport
    /\ phase \in {"replied", "done"} => result.cleanup # "none"
    /\ phase = "running" => ~codeDrained /\ outcome = "none"
    /\ phase = "cleaning" /\ codeDrained =>
           /\ LiveProcs = {} /\ Unseen = {}
           /\ "load" \in spoiled => coverageFailure \/ LoadMessage \in awaited
           /\ LoadMessage \in awaited => loader = "committed"
           /\ AllBarrier \notin barriers => LoadMessage \notin awaited \cap traces
    /\ result.cleanup = "unconfirmed" => ~result.reusable
    /\ result.cleanup # "none" /\ ~result.reusable => dirty
    /\ result.outcome \in {"ok", "failed", "timeout"} => result.reusable
    /\ result.outcome = "ok" => outcome = "ok"
    /\ result.reusable => result.cleanup = "confirmed"
    /\ result # NoReport /\ outcome \in Infrastructure => result.outcome = outcome
    /\ caller # "answered" => answer = NoReport
    /\ caller = "answered" =>
           \/ phase = "done" /\ answer = result
           \/ phase = "dead" /\ dirty /\ answer.outcome \in Infrastructure
              /\ (result # NoReport /\ outcome \in Infrastructure =>
                     answer.outcome = outcome)

Safe == /\ ConfirmedIsQuiet /\ ReusableIsUnspoiled /\ TargetOutcomeIsObserved
        /\ NoFalseLoss /\ RootIsWatched

(* The inductive invariant: what the guardian knows, what is in flight and *)
(* what it has said always add up to what the target really did.           *)
Bookkeeping == TypeOK /\ Identity /\ Tracking /\ Closing /\ Safe

(* The execution as its caller sees it: the verdict is known when the      *)
(* guardian is DOWN after its reply, or when the VM has been marked.       *)
Contract == INSTANCE Execution WITH
    live    <- LiveProcs,
    broken  <- spoiled \cap {"plain_spawn", "remote_spawn", "declare_dirty",
                             "contaminate"} # {},
    verdict <- IF dirty THEN "retired"
               ELSE IF phase = "done" THEN "clean"
               ELSE IF seen[Root] = "unseen" THEN "unstarted" ELSE "open"

(* The guardian, the coordinator and the caller together keep the contract *)
(* of an execution: every step is a step of Execution or invisible there.  *)
KeepsContract == Contract!Spec
=============================================================================
