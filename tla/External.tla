------------------------------- MODULE External -------------------------------
(* The external supervisor (priv/efz_external.py): it owns a campaign that     *)
(* runs in another VM, because the target may take that VM down. A run is      *)
(* executed only after its record is on disk; a VM that dies, hangs or is      *)
(* spoiled is replaced, and the input that did it is not run again.            *)
(*                                                                             *)
(* Besides the supervisor: the worker VM of the present generation and its     *)
(* launcher, the command line that started the supervisor (its parent), the    *)
(* disk, and whoever starts the supervisor again on the same directory.        *)
(* Inputs stand for their digests. A deadline is a step that may be taken      *)
(* while it runs. A record takes one unit of the journal's bytes.              *)
EXTENDS Integers, Sequences

CONSTANTS
    Inputs, NoInput,
    SupervisedRuns,     \* --supervised-runs
    MaxIterations,      \* --max-iterations
    RestartBudget,      \* --restart-budget
    JournalRecords,     \* --journal-bytes, in records
    EventLimit,         \* how many events the report keeps (256)
    Finding,            \* --external-finding, where it is given: its input
    ReproduceRuns,      \* --reproduce-runs
    MaxBoots,           \* bound: how often the supervisor is started
    Scenarios           \* bound: sets of things that go wrong in one behaviour,
                        \* besides what the target does to its VM

\* options: the ranges the command line accepts.
Options ==
    /\ SupervisedRuns \in 1..10^5 /\ MaxIterations \in 0..10^6
    /\ RestartBudget \in 0..128 /\ ReproduceRuns \in 1..16
    /\ JournalRecords \in Nat \ {0}

ASSUME ExternalAssumption ==
    /\ Options /\ NoInput \notin Inputs /\ Finding \in Inputs
    /\ EventLimit \in Nat \ {0} /\ MaxBoots \in Nat
    /\ Scenarios \subseteq SUBSET {"restart", "crash", "power", "disk", "parent", "rot", "build",
            "bad_frame", "stuck", "slow", "late", "native", "launcher", "campaign_ms", "replay"}

VARIABLES
    s,          \* the supervisor's memory
    vm,         \* the worker VM, its socket and its launcher
    journal,    \* the records of all campaigns of the directory
    world,      \* starts so far, the parent, damage on disk, the scenario
    executed    \* history: the records whose run a worker began

vars == <<s, vm, journal, world, executed>>

Slots == 1..JournalRecords
NotDone == 2

Kills == {"campaign_deadline", "worker_hard_timeout", "startup_or_idle_timeout",
          "worker_protocol_failure", "supervisor_parent_death"}
Stops == Kills \cup {"none", "budget_completed", "dirty_recycle"}
Verdicts == Kills \cup {"execution_result", "dirty_recycle", "budget_completed", "native_vm_crash",
                        "worker_unexpected_exit", "interrupted_unknown", "interrupted_prepared"}
Statuses == Stops \cup {"completed", "worker_unexpected_exit", "restart_budget_exhausted"}

Empty == [campaign |-> 0, input |-> NoInput, mem |-> 0, safe |-> 0, result |-> "none"]
Frame == [kind : {"hello", "ready", "prepare", "result", "done", "bad"},
          input : Inputs \cup {NoInput}, mutation : BOOLEAN,
          run : Slots \cup {0}, dirty : BOOLEAN, code : 0..1]
Msg(kind) == [kind |-> kind, input |-> NoInput, mutation |-> FALSE, run |-> 0,
              dirty |-> FALSE, code |-> 0]
Nothing == [kind |-> "none", run |-> 0]

\* The campaign reproduces a finding: it has no input but that one.
Replay == "replay" \in world.faults
Offered == IF Replay THEN {Finding} ELSE Inputs
Mutations == IF Replay THEN 0 ELSE MaxIterations

NoVm == [worker |-> "none", input |-> NoInput, run |-> 0, avoid |-> {}, left |-> 0,
         conn |-> FALSE, out |-> <<>>, in |-> Nothing, end |-> "none", told |-> FALSE,
         line |-> FALSE, clean |-> TRUE, lost |-> FALSE]

\* Supervisor.__init__, the fields.
Fresh == [pc |-> "recover", after |-> "recover", gen |-> 0, state |-> "STARTING",
          done |-> NotDone, stop |-> "none", killed |-> FALSE, sock |-> FALSE, eof |-> FALSE,
          evidence |-> FALSE, pending |-> 0, rec |-> 0, verdict |-> "none", dirty |-> FALSE,
          runs |-> 0, muts |-> 0, quarantine |-> {}, age |-> 0, wasReady |-> FALSE,
          status |-> "none"]
Gone == [Fresh EXCEPT !.pc = "down"]

Init ==
    /\ s = Gone /\ vm = NoVm
    /\ journal = [r \in Slots |-> Empty]
    /\ \E f \in Scenarios :
          world = [boots |-> 0, parent |-> FALSE, rot |-> FALSE, faults |-> f]
    /\ executed = {}

-----------------------------------------------------------------------------
(* The journal.                                                            *)

Used == {r \in Slots : journal[r].mem > 0}
Open == {r \in Used : journal[r].result = "none"}

Step(pc) == s' = [s EXCEPT !.pc = pc]
Fail == Step("abort")

\* Journal.prepare: the staged directory is complete; it gets its name.
PublishRun ==
    /\ s.pc = "publish"
    /\ journal' = [journal EXCEPT ![s.rec].mem = 1]
    /\ s' = [s EXCEPT !.pc = "sync", !.after = "authorize"]
    /\ UNCHANGED <<vm, world, executed>>

\* Mutant: the permission is not synced before it is given.
AuthorizeUnsynced ==
    /\ s.pc = "authorize"
    /\ journal' = [journal EXCEPT ![s.rec].mem = 2]
    /\ s' = [s EXCEPT !.pc = "permit", !.pending = s.rec]
    /\ UNCHANGED <<vm, world, executed>>

\* Journal.authorize; the run is the pending one from here on.
Authorize ==
    /\ s.pc = "authorize"
    /\ journal' = [journal EXCEPT ![s.rec].mem = 2]
    /\ s' = [s EXCEPT !.pc = "sync", !.after = "permit", !.pending = s.rec]
    /\ UNCHANGED <<vm, world, executed>>

\* Journal.finish: a record that has its result keeps it, another one is refused.
Finish ==
    /\ s.pc = "finish"
    /\ IF journal[s.rec].mem < 3
       THEN /\ journal' = [journal EXCEPT ![s.rec].mem = 3, ![s.rec].result = s.verdict]
            /\ Step("sync")
       ELSE /\ Step(IF journal[s.rec].result = s.verdict THEN s.after ELSE "abort")
            /\ UNCHANGED journal
    /\ UNCHANGED <<vm, world, executed>>

\* fsync_dir: a new name survives a power loss. A permission or a result is a
\* name in the directory of its record. Recovery syncs that directory only: a
\* record whose own name was not synced stays one that may be lost.
Named == s.after = "authorize" \/ journal[s.rec].safe > 0
SyncDirectory ==
    /\ s.pc = "sync"
    /\ journal' = [journal EXCEPT ![s.rec].safe = IF Named THEN journal[s.rec].mem ELSE 0]
    /\ s' = [s EXCEPT !.pc = s.after, !.after = "recover"]
    /\ UNCHANGED <<vm, world, executed>>

\* Mutant: recovery takes a record without permission for one that may have run.
VerdictGuessed(r) == IF journal[r].mem = 2 THEN "interrupted_prepared" ELSE "interrupted_unknown"

\* The verdict of a record that an earlier supervisor left open.
Interrupted(r) == IF journal[r].mem = 2 THEN "interrupted_unknown" ELSE "interrupted_prepared"

\* load_run, validated_result: what is on disk is what was written.
Intact == ~world.rot

\* Journal.__init__, one record of the scan.
Recover ==
    /\ s.pc = "recover" /\ Open # {}
    /\ \/ /\ Intact
          /\ \E r \in Open :
                 s' = [s EXCEPT !.pc = "finish", !.after = "recover", !.rec = r,
                                !.verdict = Interrupted(r)]
       \/ ~Intact /\ Fail
    /\ UNCHANGED <<vm, journal, world, executed>>

\* Mutant: a record whose run was permitted may be left as it is.
RecoveredEarly ==
    /\ s.pc = "recover" /\ \A r \in Open : journal[r].mem = 2
    /\ Step(IF ~Intact THEN "abort" ELSE IF Replay THEN "finding" ELSE "decide")
    /\ UNCHANGED <<vm, journal, world, executed>>

\* Journal.__init__ has returned: every record has its result.
Recovered ==
    /\ s.pc = "recover" /\ Open = {}
    /\ Step(IF ~Intact THEN "abort" ELSE IF Replay THEN "finding" ELSE "decide")
    /\ UNCHANGED <<vm, journal, world, executed>>

\* Supervisor.__init__: the finding is whole, of these files, and of a VM that was
\* lost; or not.
LoadFinding ==
    /\ s.pc = "finding"
    /\ Step("decide") \/ Fail
    /\ UNCHANGED <<vm, journal, world, executed>>

-----------------------------------------------------------------------------
(* Messages of the worker.                                                 *)

\* event: only the last ones are kept. age counts the events since this
\* generation was ready, with that one; zero while it has not been.
Logged(t) == [t EXCEPT !.age = IF @ = 0 THEN 0 ELSE IF @ > EventLimit THEN @ ELSE @ + 1]

ReadyKept == s.age \in 1..EventLimit

\* The next frame, when frames are still listened to, and the VM without it.
Hears(kind, states) ==
    /\ s.pc = "loop" /\ s.sock /\ ~s.eof /\ vm.out # <<>>
    /\ s.stop \in {"none", "dirty_recycle"}
    /\ Head(vm.out).kind = kind /\ s.state \in states
Taken == [vm EXCEPT !.out = Tail(@)]

\* send: to a worker that is gone it raises.
Send(t, w, kind, run) ==
    \/ /\ w.worker # "dead"
       /\ s' = t /\ vm' = [w EXCEPT !.in = [kind |-> kind, run |-> run]]
    \/ /\ w.worker = "dead"
       /\ Fail /\ vm' = w

OnHello ==
    /\ Hears("hello", {"STARTING"})
    /\ Send([s EXCEPT !.state = "SETUP"], Taken, "ack", 0)
    /\ UNCHANGED <<journal, world, executed>>

OnReady ==
    /\ Hears("ready", {"SETUP"})
    /\ Send([s EXCEPT !.state = "READY", !.age = 1, !.wasReady = TRUE], Taken, "ack", 0)
    /\ UNCHANGED <<journal, world, executed>>

Spent(m) == s.runs >= SupervisedRuns \/ (m.mutation /\ s.muts >= Mutations)

\* A request to run an input that the budgets no longer cover.
OnPrepareSpent ==
    /\ Hears("prepare", {"READY"}) /\ Spent(Head(vm.out))
    /\ Send([s EXCEPT !.stop = "budget_completed"], Taken, "spent", 0)
    /\ UNCHANGED <<journal, world, executed>>

\* The record after the last one.
Free(r) == (\A q \in Used : q < r) /\ (r = 1 \/ r - 1 \in Used)

\* A request to run an input: it is counted, and its record is written, if the
\* journal has room.
OnPrepare ==
    LET m == Head(vm.out)
    IN  /\ Hears("prepare", {"READY"}) /\ ~Spent(m)
        /\ vm' = Taken
        /\ \/ \E r \in Slots :
              /\ Free(r)
              /\ s' = [s EXCEPT !.pc = "publish", !.state = "PREPARING", !.rec = r,
                                !.runs = @ + 1, !.muts = IF m.mutation THEN @ + 1 ELSE @]
              /\ journal' = [journal EXCEPT ![r] = [Empty EXCEPT !.campaign = world.boots,
                                                                 !.input = m.input]]
           \/ JournalRecords \in Used /\ Fail /\ UNCHANGED journal
        /\ UNCHANGED <<world, executed>>

\* The run may start: its permission is on disk.
Permit ==
    /\ s.pc = "permit"
    /\ Send([s EXCEPT !.pc = "loop", !.state = "EXECUTING"], vm, "run", s.rec)
    /\ UNCHANGED <<journal, world, executed>>

OnResult ==
    /\ Hears("result", {"EXECUTING"}) /\ Head(vm.out).run = s.rec
    /\ vm' = Taken
    /\ s' = [s EXCEPT !.pc = "finish", !.after = "acknowledge", !.state = "FINALIZING",
                      !.dirty = Head(vm.out).dirty,
                      !.verdict = IF Head(vm.out).dirty THEN "dirty_recycle" ELSE "execution_result"]
    /\ UNCHANGED <<journal, world, executed>>

\* Mutant: the input of a dirty run is not put aside.
AcknowledgeAndForget ==
    LET t == [Logged(s) EXCEPT !.pc = "loop", !.pending = 0, !.state = "READY",
                               !.verdict = "none", !.dirty = FALSE]
    IN  /\ s.pc = "acknowledge"
        /\ Send(IF s.dirty THEN [t EXCEPT !.stop = "dirty_recycle", !.state = "RECYCLING"] ELSE t,
                vm, "ack", s.rec)
        /\ UNCHANGED <<journal, world, executed>>

\* The result is on disk: the run is over, whatever becomes of its worker. A VM
\* that cannot be used again is replaced.
Acknowledge ==
    LET t == [Logged(s) EXCEPT !.pc = "loop", !.pending = 0, !.state = "READY",
                               !.verdict = "none", !.dirty = FALSE]
        spoiled == [t EXCEPT !.stop = "dirty_recycle", !.state = "RECYCLING",
                             !.quarantine = @ \cup {journal[s.rec].input}]
    IN  /\ s.pc = "acknowledge"
        /\ Send(IF s.dirty THEN spoiled ELSE t, vm, "ack", s.rec)
        /\ UNCHANGED <<journal, world, executed>>

OnDone ==
    /\ Hears("done", {"READY", "SETUP", "RECYCLING"})
    /\ Send([s EXCEPT !.state = "STOPPING", !.done = Head(vm.out).code], Taken, "ack", 0)
    /\ UNCHANGED <<journal, world, executed>>

Expected(m) ==
    CASE m.kind = "hello"   -> s.state = "STARTING"
      [] m.kind = "ready"   -> s.state = "SETUP"
      [] m.kind = "prepare" -> s.state = "READY"
      [] m.kind = "result"  -> s.state = "EXECUTING" /\ m.run = s.rec
      [] m.kind = "done"    -> s.state \in {"READY", "SETUP", "RECYCLING"}
      [] OTHER              -> FALSE

\* A frame that does not parse, or that the state does not allow.
OnBadFrame ==
    /\ Hears(Head(vm.out).kind, {s.state}) /\ ~Expected(Head(vm.out))
    /\ vm' = Taken
    /\ s' = [Logged(s) EXCEPT !.stop = "worker_protocol_failure"]
    /\ UNCHANGED <<journal, world, executed>>

\* The rest of a frame does not come within a second.
FrameStalls ==
    /\ "bad_frame" \in world.faults /\ s.sock /\ ~s.eof /\ s.stop = "none" /\ vm.worker # "dead"
    /\ s.pc = "loop" /\ s' = [s EXCEPT !.stop = "worker_protocol_failure"]
    /\ UNCHANGED <<vm, journal, world, executed>>

\* Once the generation is to end, frames are only drained.
Drain ==
    /\ s.pc = "loop" /\ s.sock /\ ~s.eof /\ vm.out # <<>>
    /\ s.stop \notin {"none", "dirty_recycle"}
    /\ vm' = Taken
    /\ UNCHANGED <<s, journal, world, executed>>

\* recv: the end of the stream; with an answer the worker never read it raises.
ReadEof ==
    /\ s.pc = "loop" /\ s.sock /\ ~s.eof /\ vm.out = <<>> /\ vm.worker = "dead"
    /\ s' = IF vm.in = Nothing THEN [s EXCEPT !.eof = TRUE] ELSE [s EXCEPT !.pc = "abort"]
    /\ UNCHANGED <<vm, journal, world, executed>>

-----------------------------------------------------------------------------
(* The loop of a generation.                                               *)

InLoop(t) == s.pc = "loop" /\ s' = t /\ UNCHANGED <<journal, world, executed>>

\* Mutant: only executions have a deadline.
DeadlineOfRuns ==
    /\ s.stop = "none" /\ s.state = "EXECUTING"
    /\ InLoop([s EXCEPT !.stop = "worker_hard_timeout"])
    /\ UNCHANGED vm

\* The absolute deadline of the state it is in.
Deadline ==
    /\ s.stop = "none"
    /\ InLoop([s EXCEPT !.stop = IF s.state = "EXECUTING" THEN "worker_hard_timeout"
                                 ELSE "startup_or_idle_timeout"])
    /\ UNCHANGED vm

CampaignDeadline ==
    /\ "campaign_ms" \in world.faults /\ s.stop = "none"
    /\ InLoop([s EXCEPT !.stop = "campaign_deadline"])
    /\ UNCHANGED vm

\* stop_helper: the byte that makes the launcher kill.
StopHelper == vm' = [vm EXCEPT !.told = TRUE]

Kill ==
    /\ s.stop # "none" /\ ~s.killed
    /\ InLoop([s EXCEPT !.killed = TRUE]) /\ StopHelper

\* Five seconds after that the supervisor waits no longer.
KillUnconfirmed ==
    /\ "slow" \in world.faults /\ s.killed
    /\ InLoop([s EXCEPT !.pc = "abort"])
    /\ UNCHANGED vm

\* The parent's pidfd is readable; this replaces any other reason.
ParentSeen ==
    /\ ~world.parent /\ s.stop # "supervisor_parent_death"
    /\ InLoop([s EXCEPT !.stop = "supervisor_parent_death"]) /\ StopHelper

Accept ==
    /\ vm.conn /\ ~s.sock
    /\ InLoop([s EXCEPT !.sock = TRUE])
    /\ UNCHANGED vm

\* The launcher's second line: how the worker ended, and whether all is reaped.
ReadEvidence ==
    /\ vm.line /\ ~s.evidence
    /\ InLoop([s EXCEPT !.evidence = TRUE])
    /\ UNCHANGED vm

\* The launcher has ended without that line.
LauncherFailed ==
    /\ vm.lost
    /\ InLoop([s EXCEPT !.pc = "abort"])
    /\ UNCHANGED vm

Over == s.evidence /\ (s.eof \/ ~vm.conn)

\* The generation is over and leaves processes behind.
EndUnclean ==
    /\ Over /\ ~vm.clean
    /\ InLoop([s EXCEPT !.pc = "abort"])
    /\ UNCHANGED vm

\* Mutant: how the worker ended is asked before why it was stopped.
ReasonOfSignal == IF vm.end # "exit" THEN "native_vm_crash"
                  ELSE IF s.stop # "none" THEN s.stop ELSE "worker_unexpected_exit"

\* Why the worker ended with a run in flight.
Reason == IF s.stop # "none" THEN s.stop
          ELSE IF vm.end # "exit" THEN "native_vm_crash" ELSE "worker_unexpected_exit"

GenerationStatus == IF s.stop # "none" THEN s.stop
                    ELSE IF s.done = 0 THEN "completed" ELSE "worker_unexpected_exit"

\* Mutant: whether everything was reaped is not looked at.
EndHasty ==
    /\ Over
    /\ InLoop(IF s.pending = 0
              THEN [Logged(s) EXCEPT !.pc = "decide", !.status = GenerationStatus]
              ELSE [Logged(s) EXCEPT !.pc = "finish", !.after = "index", !.rec = s.pending,
                                     !.verdict = Reason])
    /\ UNCHANGED vm

\* The generation is over: a run in flight gets its verdict from the evidence.
End ==
    /\ Over /\ vm.clean
    /\ InLoop(IF s.pending = 0
              THEN [Logged(s) EXCEPT !.pc = "decide", !.status = GenerationStatus]
              ELSE [Logged(s) EXCEPT !.pc = "finish", !.after = "index", !.rec = s.pending,
                                     !.verdict = Reason])
    /\ UNCHANGED vm

\* The finding is indexed and its input put aside.
Index ==
    /\ s.pc = "index"
    /\ s' = [s EXCEPT !.pc = "decide", !.pending = 0, !.status = GenerationStatus,
                      !.verdict = "none", !.quarantine = @ \cup {journal[s.rec].input}]
    /\ UNCHANGED <<vm, journal, world, executed>>

-----------------------------------------------------------------------------
(* The campaign: one generation after the other.                           *)

Ends == {"budget_completed", "campaign_deadline", "supervisor_parent_death"}

\* Why another generation is not tried, but for the restart budget.
Final ==
    \/ s.status \in Ends
    \/ IF Replay THEN s.gen >= ReproduceRuns ELSE s.status = "completed"
    \/ ~ReadyKept
    \/ s.done = 1 /\ s.status # "dirty_recycle"

Exhausted == s.gen = RestartBudget + 1

\* file_identity differs from that of the start, or there is no launcher.
LaunchFails ==
    /\ "build" \in world.faults
    /\ s.pc = "decide" /\ (s.gen = 0 \/ ~(Final \/ Exhausted))
    /\ Fail
    /\ UNCHANGED <<vm, journal, world, executed>>

\* args, and the list of inputs put aside: what the next worker is told.
WorkerArgs ==
    [avoid |-> IF Replay THEN {} ELSE s.quarantine,
     left |-> IF Mutations > s.muts THEN Mutations - s.muts ELSE 0]

\* The next generation starts.
Launch ==
    /\ s.pc = "decide" /\ (s.gen = 0 \/ ~(Final \/ Exhausted))
    /\ s' = [s EXCEPT !.pc = "loop", !.gen = @ + 1, !.state = "STARTING", !.done = NotDone,
                      !.stop = "none", !.killed = FALSE, !.sock = FALSE, !.eof = FALSE,
                      !.evidence = FALSE, !.age = 0, !.wasReady = FALSE,
                      !.rec = 0, !.status = "none"]
    /\ vm' = [NoVm EXCEPT !.worker = "booting", !.avoid = WorkerArgs.avoid, !.left = WorkerArgs.left]
    /\ UNCHANGED <<journal, world, executed>>

\* The report is written; the supervisor ends.
Report ==
    /\ s.pc = "decide" /\ s.gen > 0 /\ (Final \/ Exhausted)
    /\ s' = [Gone EXCEPT !.status = IF Final THEN s.status ELSE "restart_budget_exhausted",
                         !.done = s.done, !.wasReady = s.wasReady]
    /\ UNCHANGED <<vm, journal, world, executed>>

\* An error ends the supervisor: the launcher is told, and waited for.
Abort ==
    /\ s.pc = "abort"
    /\ \/ s.gen > 0 /\ ~vm.told /\ StopHelper /\ UNCHANGED s
       \/ /\ s.gen = 0 \/ (vm.told /\ (vm.line \/ vm.lost \/ "slow" \in world.faults))
          /\ s' = Gone /\ UNCHANGED vm
    /\ UNCHANGED <<journal, world, executed>>

\* A write, a rename or an fsync fails.
DiskFails ==
    /\ "disk" \in world.faults /\ s.pc \in {"publish", "authorize", "finish", "sync"}
    /\ Fail
    /\ UNCHANGED <<vm, journal, world, executed>>

\* Somebody starts the supervisor on the directory: the lock is free. Bound: the
\* model starts it again after one that ended without its report.
Start ==
    /\ s.pc = "down" /\ world.boots < MaxBoots /\ (world.boots = 0 \/ ("restart" \in world.faults /\ s.status = "none"))
    /\ s' = Fresh
    /\ world' = [world EXCEPT !.boots = @ + 1, !.parent = TRUE]
    /\ UNCHANGED <<vm, journal, executed>>

-----------------------------------------------------------------------------
(* The worker and its launcher.                                            *)

Alive == vm.worker \notin {"none", "dead"}
Waits == {"hello", "announcing", "asking", "reporting", "leaving"}
Vm(w) == vm' = w /\ UNCHANGED <<s, journal, world>>

\* efz_external_worker:init: it connects and says who it is.
Connect ==
    /\ vm.worker = "booting"
    /\ Vm([vm EXCEPT !.worker = "hello", !.conn = TRUE, !.out = Append(@, Msg("hello"))])
    /\ UNCHANGED executed

Announce ==
    /\ vm.worker = "setup"
    /\ Vm([vm EXCEPT !.worker = "announcing", !.out = Append(@, Msg("ready"))])
    /\ UNCHANGED executed

\* The campaign takes an input that is not put aside, and asks to run it.
Ask ==
    /\ vm.worker = "idle"
    /\ \E i \in Offered \ vm.avoid, m \in BOOLEAN :
          /\ m => vm.left > 0
          /\ Vm([vm EXCEPT !.worker = "asking", !.input = i, !.left = IF m THEN @ - 1 ELSE @,
                           !.out = Append(@, [Msg("prepare") EXCEPT !.input = i, !.mutation = m])])
    /\ UNCHANGED executed

\* The execution returns.
Answer ==
    /\ vm.worker = "running"
    /\ \E dirty \in BOOLEAN :
          Vm([vm EXCEPT !.worker = "reporting",
                        !.out = Append(@, [Msg("result") EXCEPT !.run = vm.run, !.dirty = dirty])])
    /\ UNCHANGED executed

\* efz_cli has returned.
Leave ==
    /\ vm.worker \in {"setup", "idle"}
    /\ \E c \in 0..1 :
          Vm([vm EXCEPT !.worker = "leaving", !.out = Append(@, [Msg("done") EXCEPT !.code = c])])
    /\ UNCHANGED executed

Ended(w, end) == [w EXCEPT !.worker = "dead", !.end = end, !.run = 0, !.input = NoInput,
                           !.avoid = {}, !.left = 0]

\* It reads the answer it waits for; an answer of another kind ends it.
ReadAnswer ==
    /\ vm.worker \in Waits /\ vm.in # Nothing
    /\ LET w == [vm EXCEPT !.in = Nothing] IN
       CASE vm.worker = "asking" /\ vm.in.kind = "run" ->
              /\ Vm([w EXCEPT !.worker = "running", !.run = vm.in.run])
              /\ executed' = executed \cup {vm.in.run}
         [] vm.worker # "asking" /\ vm.in.kind = "ack" ->
              /\ Vm(CASE vm.worker = "hello"      -> [w EXCEPT !.worker = "setup"]
                      [] vm.worker = "announcing" -> [w EXCEPT !.worker = "idle"]
                      [] vm.worker = "reporting"  -> [w EXCEPT !.worker = "idle", !.run = 0, !.input = NoInput]
                      [] OTHER                    -> Ended(w, "exit"))
              /\ UNCHANGED executed
         [] OTHER -> Vm(Ended(w, "exit")) /\ UNCHANGED executed

\* recv has waited ten seconds.
AnswerIsLate ==
    /\ "late" \in world.faults /\ vm.worker \in Waits /\ vm.in = Nothing
    /\ Vm(Ended(vm, "exit"))
    /\ UNCHANGED executed

\* The target takes the VM down; native code may do so at any time.
Crash ==
    /\ vm.worker = "running" \/ ("native" \in world.faults /\ Alive)
    /\ \E e \in {"signal", "exit"} : Vm(Ended(vm, e))
    /\ UNCHANGED executed

\* Something else than the protocol's next frame.
Babble ==
    /\ "bad_frame" \in world.faults /\ Alive /\ vm.conn /\ vm.out = <<>>
    /\ Vm([vm EXCEPT !.out = Append(@, Msg("bad"))])
    /\ UNCHANGED executed

\* The launcher kills: the supervisor says so or is gone, or it gets a signal.
LauncherKills ==
    /\ Alive /\ (vm.told \/ "launcher" \in world.faults) /\ ~vm.lost
    /\ Vm(Ended(vm, "killed"))
    /\ UNCHANGED executed

\* It reaps what is left for two seconds, and reports.
LauncherReports ==
    /\ vm.worker = "dead" /\ ~vm.line /\ ~vm.lost
    /\ \E c \in (IF "stuck" \in world.faults THEN BOOLEAN ELSE {TRUE}) :
          Vm([vm EXCEPT !.line = TRUE, !.clean = c])
    /\ UNCHANGED executed

\* The launcher is killed; the worker dies with it.
LauncherDies ==
    /\ "slow" \in world.faults /\ vm.worker # "none" /\ ~vm.line /\ ~vm.lost
    /\ Vm([Ended(vm, IF Alive THEN "killed" ELSE vm.end) EXCEPT !.lost = TRUE])
    /\ UNCHANGED executed

-----------------------------------------------------------------------------
(* Faults.                                                                 *)

ParentDies ==
    /\ "parent" \in world.faults /\ world.parent
    /\ world' = [world EXCEPT !.parent = FALSE]
    /\ UNCHANGED <<s, vm, journal, executed>>

\* The supervisor is killed: its launcher sees that.
SupervisorDies ==
    /\ "crash" \in world.faults /\ s.pc # "down"
    /\ s' = Gone /\ vm' = [vm EXCEPT !.told = TRUE]
    /\ UNCHANGED <<journal, world, executed>>

\* What is not synced may be lost.
PowerLoss ==
    /\ "power" \in world.faults /\ world.boots > 0
    /\ s' = Gone /\ vm' = NoVm
    /\ world' = [world EXCEPT !.parent = FALSE]
    /\ \E kept \in SUBSET Slots :
          journal' = [r \in Slots |->
              LET e == journal[r]
                  m == IF r \in kept THEN e.mem ELSE e.safe
              IN  IF m = 0 THEN Empty
                  ELSE [e EXCEPT !.mem = m, !.safe = m,
                                 !.result = IF m = 3 THEN @ ELSE "none"]]
    /\ UNCHANGED executed

\* A byte of a record changes on disk, while no supervisor runs.
Rot ==
    /\ "rot" \in world.faults /\ ~world.rot /\ Used # {} /\ s.pc = "down"
    /\ world' = [world EXCEPT !.rot = TRUE]
    /\ UNCHANGED <<s, vm, journal, executed>>

-----------------------------------------------------------------------------
Frames == OnHello \/ OnReady \/ OnPrepareSpent \/ OnPrepare \/ OnResult \/ OnDone
          \/ OnBadFrame \/ Drain \/ ReadEof
Supervise == Accept \/ ReadEvidence \/ Kill \/ ParentSeen \/ End \/ EndUnclean \/ LauncherFailed
Records == PublishRun \/ Authorize \/ Finish \/ SyncDirectory \/ Permit \/ Acknowledge \/ Index
Conduct == Recover \/ Recovered \/ LoadFinding \/ Launch \/ Report \/ Abort
Supervisor == Frames \/ Supervise \/ Records \/ Conduct

Worker == Connect \/ Announce \/ Ask \/ Answer \/ Leave \/ ReadAnswer \/ AnswerIsLate \/ Crash \/ Babble
Launcher == LauncherKills \/ LauncherReports
Mishap == CampaignDeadline \/ FrameStalls \/ KillUnconfirmed \/ LaunchFails \/ DiskFails \/ LauncherDies
          \/ ParentDies \/ SupervisorDies \/ PowerLoss \/ Rot

Next == Supervisor \/ Deadline \/ Start \/ Worker \/ Launcher \/ Mishap

Spec == Init /\ [][Next]_vars

\* The supervisor's loop looks at everything it watches in every turn, and its
\* clock advances; the launcher does what it is told. Nothing is assumed of the
\* worker, nor of the campaign's own deadline.
FairSpec ==
    /\ Spec
    /\ WF_vars(Supervisor) /\ WF_vars(Kill) /\ WF_vars(ParentSeen) /\ WF_vars(ReadEvidence)
    /\ WF_vars(Deadline) /\ WF_vars(vm.told /\ LauncherKills) /\ WF_vars(LauncherReports)

-----------------------------------------------------------------------------
(* Properties.                                                             *)

Pcs == {"down", "recover", "finding", "decide", "loop", "publish", "authorize", "sync", "permit", "finish",
        "acknowledge", "index", "abort"}

States == {"STARTING", "SETUP", "READY", "PREPARING", "EXECUTING", "FINALIZING",
           "RECYCLING", "STOPPING"}
SupervisorType ==
    [pc : Pcs, after : Pcs, gen : 0..(RestartBudget + 1), done : 0..NotDone,
     state : States,
     stop : Stops, killed : BOOLEAN, sock : BOOLEAN, eof : BOOLEAN, evidence : BOOLEAN,
     pending : Slots \cup {0}, rec : Slots \cup {0}, verdict : Verdicts \cup {"none"},
     dirty : BOOLEAN, runs : 0..SupervisedRuns, muts : 0..MaxIterations,
     quarantine : SUBSET Inputs, age : 0..(EventLimit + 1), wasReady : BOOLEAN,
     status : Statuses]
Answers == [kind : {"none", "ack", "run", "spent"}, run : Slots \cup {0}]
Workers == {"none", "booting", "setup", "idle", "running", "dead"} \cup Waits
Deaths == {"none", "signal", "exit", "killed"}
VmType ==
    [worker : Workers,
     input : Inputs \cup {NoInput}, run : Slots \cup {0}, avoid : SUBSET Inputs,
     left : 0..MaxIterations, conn : BOOLEAN, out : Seq(Frame), in : Answers,
     end : Deaths, told : BOOLEAN, line : BOOLEAN,
     clean : BOOLEAN, lost : BOOLEAN]
Entry == [campaign : 0..MaxBoots, input : Inputs \cup {NoInput},
          mem : 0..3, safe : 0..3, result : Verdicts \cup {"none"}]

\* Every variable has its type.
TypeOK ==
    /\ s \in SupervisorType /\ vm \in VmType
    /\ journal \in [Slots -> Entry]
    /\ world \in [boots : 0..MaxBoots, parent : BOOLEAN, rot : BOOLEAN, faults : Scenarios]
    /\ executed \subseteq Slots

\* A worker runs an input only under a record of that input whose permission
\* would survive a power loss: whatever happens next, the run is accounted for.
ExecutionIsAuthorized ==
    vm.worker = "running" =>
        vm.run \in Slots /\ journal[vm.run].safe >= 2 /\ journal[vm.run].input = vm.input

\* "interrupted_prepared" says that the run never began, through crashes and
\* power losses; a result of its own says that it did.
VerdictsMatchHistory ==
    \A r \in Slots :
        /\ journal[r].result = "interrupted_prepared" => r \notin executed
        /\ journal[r].result \in {"execution_result", "dirty_recycle"} => r \in executed

\* An input whose run took its VM down or spoiled it is not run again in the
\* campaign: a seed that kills the worker cannot keep the campaign busy.
PoisonRunsOnce ==
    ~Replay => \A q, r \in Slots :
        /\ q < r /\ journal[q].campaign = journal[r].campaign
        /\ journal[q].result \notin {"none", "execution_result"}
        => journal[q].input # journal[r].input

\* A native crash is reported only of a worker that died with its run in flight,
\* not by leaving, and that the supervisor had not told its launcher to kill. It
\* died of a signal of its own, with one exception: a launcher that gets a signal
\* from elsewhere kills it, and says so (launcher_kill), and nobody reads that.
CrashIsHonest ==
    s.pc \in {"finish", "index"} /\ s.verdict = "native_vm_crash" =>
        /\ ~vm.told
        /\ vm.end = "signal" \/ (vm.end = "killed" /\ "launcher" \in world.faults)

\* A run that its supervisor left in flight (it was killed, the disk failed, the
\* worker died before an answer could be sent to it, the machine went down) has its
\* verdict before anything else is run: no run is forgotten, and there is never more
\* than one whose end is unknown.
AbandonedIsJudged ==
    vm.worker = "running" => \A r \in executed : r = vm.run \/ journal[r].result # "none"

\* A campaign that had a worker ready, and ends with a report, ends because the
\* worker is done, a budget is used up, or it was told to stop; not because of how
\* a worker ended. It says nothing of a supervisor that an exception ends: that one
\* writes no report.
GivesUpForCause ==
    s.pc = "down" /\ s.status \in {"worker_unexpected_exit", "worker_hard_timeout", "dirty_recycle",
                                   "worker_protocol_failure"} /\ ~Replay =>
        ~s.wasReady \/ s.done = 1

\* A worker is followed by another one of the same supervisor only when it and
\* all it started are reaped.
ReplacedWhenReaped ==
    [][s'.gen > s.gen /\ s.gen > 0 => vm.worker = "dead" /\ vm.line /\ vm.clean]_vars

\* Whatever the worker does, the campaign ends.
CampaignEnds == (s.pc # "down") ~> (s.pc = "down")
=============================================================================
