---------------------------- MODULE ExternalProofs ----------------------------
(* Proofs about External, for any inputs, budgets, journal, number of starts   *)
(* and scenarios.                                                              *)
EXTENDS External, TLAPS

(* What the supervisor is doing to the record s.rec.                           *)
InRecord == s.pc \in {"finish", "sync"}
Writing ==
    \/ s.pc \in {"publish", "authorize", "permit"}
    \/ s.pc = "sync" /\ s.after \in {"authorize", "permit"}
Finalizing == s.pc = "acknowledge" \/ (InRecord /\ s.after = "acknowledge")
Closing == s.pc = "index" \/ (InRecord /\ s.after = "index")
Recovering == s.pc \in {"recover", "finding"} \/ (InRecord /\ s.after = "recover")

(* The supervisor by itself. A run is in flight exactly in state EXECUTING.    *)
ControlInv ==
    /\ s.pc = "sync" => s.after \in {"authorize", "permit", "recover", "acknowledge", "index"}
    /\ s.pc = "finish" => s.after \in {"recover", "acknowledge", "index"}
    /\ Recovering => s.gen = 0 /\ s.pending = 0
    /\ s.pc = "loop" \/ Writing \/ Closing \/ Finalizing => s.gen > 0
    /\ InRecord \/ Writing \/ Closing \/ Finalizing => s.rec \in Slots
    /\ Writing => s.state = "PREPARING"
    /\ s.pc = "permit" \/ (s.pc = "sync" /\ s.after = "permit") => s.pending = s.rec
    /\ Finalizing => s.state = "FINALIZING"
    /\ s.pc = "decide" => s.pending = 0
    /\ s.pc = "loop" => /\ s.pending # 0 <=> s.state = "EXECUTING"
                        /\ s.pending # 0 => s.pending = s.rec
    /\ s.stop = "dirty_recycle" => s.state \in {"RECYCLING", "STOPPING"}

(* How much of the record s.rec is on disk, and how much would survive.        *)
RecordInv ==
    LET e == journal[s.rec]
    IN  /\ s.pc = "publish" => e.mem = 0 /\ e.safe = 0 /\ e.input \in Inputs
        /\ s.pc = "sync" /\ s.after = "authorize" => e.mem = 1 /\ e.safe = 0
        /\ s.pc = "authorize" => e.mem = 1 /\ e.safe = 1
        /\ s.pc = "sync" /\ s.after = "permit" => e.mem = 2 /\ e.safe = 1
        /\ s.pc = "permit" => e.mem = 2 /\ e.safe = 2
        /\ s.pc = "loop" /\ s.pending # 0 => e.mem = 2 /\ e.safe = 2
        /\ s.pc = "finish" => e.mem \in {1, 2}
        /\ s.pc = "finish" /\ s.after # "recover" => e.mem = 2 /\ e.safe = 2
        /\ s.pc = "sync" /\ s.after \notin {"authorize", "permit"} => e.mem = 3
        /\ s.pc = "sync" /\ s.after \in {"acknowledge", "index"} => e.safe = 2
        /\ s.pc \in {"acknowledge", "index"} => e.mem = 3 /\ e.safe = 3
        /\ s.pc # "finish" /\ (Finalizing \/ Closing) => e.result = s.verdict

(* The verdict that is being written.                                          *)
Own == {"execution_result", "dirty_recycle"}
VerdictInv ==
    /\ s.pc = "finish" => s.verdict # "none"
    /\ s.pc = "finish" /\ s.verdict = "interrupted_prepared" => journal[s.rec].mem = 1
    /\ s.pc = "finish" /\ s.verdict \in Own => s.rec \in executed
    /\ Finalizing => s.verdict = IF s.dirty THEN "dirty_recycle" ELSE "execution_result"

(* The journal by itself, and the runs that began.                             *)
JournalInv ==
    \A r \in Slots :
        /\ journal[r].safe <= journal[r].mem
        /\ journal[r].mem = 3 <=> journal[r].result # "none"
        /\ journal[r].mem > 0 => journal[r].input \in Inputs
Begun == {r \in Slots : journal[r].safe >= 2 /\ journal[r].result # "interrupted_prepared"}
RanInv ==
    /\ executed \subseteq Begun
    /\ \A r \in Slots : journal[r].result \in Own => r \in executed

(* The evidence of a worker's end, and what a generation that ended left.      *)
EndInv ==
    /\ s.evidence => vm.line
    /\ vm.line => vm.worker = "dead" /\ ~vm.lost
    /\ s.gen > 0 /\ (Closing \/ s.pc = "decide") => vm.line /\ vm.clean

(* A worker asks for one run at a time.                                        *)
PrepareInv ==
    /\ \A i \in DOMAIN vm.out : vm.out[i].kind = "prepare" =>
          /\ vm.out[i].input \in Inputs
          /\ vm.worker # "dead" =>
                /\ vm.worker = "asking" /\ vm.in.kind # "run" /\ vm.out[i].input = vm.input
                /\ \A j \in DOMAIN vm.out : vm.out[j].kind = "prepare" => j = i
    /\ vm.in.kind = "run" => vm.worker \in {"asking", "dead"}
AskerInv ==
    Writing /\ vm.worker # "dead" =>
        /\ vm.worker = "asking" /\ vm.in.kind # "run" /\ vm.input = journal[s.rec].input
        /\ \A i \in DOMAIN vm.out : vm.out[i].kind # "prepare"

(* What the worker was permitted to run, runs, or ran.                         *)
RunInv ==
    /\ vm.worker = "asking" /\ vm.in.kind = "run" =>
          vm.in.run \in Begun /\ journal[vm.in.run].input = vm.input
    /\ vm.worker = "running" => vm.run \in executed /\ journal[vm.run].input = vm.input
    /\ vm.worker = "reporting" => vm.run \in executed
    /\ \A i \in DOMAIN vm.out : vm.out[i].kind = "result" => vm.out[i].run \in executed

Kept ==
    /\ ControlInv /\ RecordInv /\ VerdictInv /\ JournalInv /\ RanInv
    /\ EndInv /\ PrepareInv /\ AskerInv /\ RunInv
SafeInv == TypeOK /\ Kept

(* The frames that are answered at once.                                       *)
Answering == OnHello \/ OnReady \/ OnPrepareSpent \/ OnDone

(* The type of world.                                                          *)
WorldType == [boots : 0..MaxBoots, parent : BOOLEAN, rot : BOOLEAN, faults : Scenarios]

(* The VM as the supervisor leaves it: at most a frame is taken from it, and   *)
(* what it waits for is answered.                                              *)
SameVm ==
    /\ vm'.worker = vm.worker /\ vm'.input = vm.input /\ vm'.run = vm.run
    /\ vm'.line = vm.line /\ vm'.lost = vm.lost /\ vm'.clean = vm.clean
SameOut == vm'.out = vm.out \/ (vm.out # <<>> /\ vm'.out = Tail(vm.out))
SameIn == vm'.in.kind # "run" \/ vm'.in = vm.in

(* Records of runs that began stay that.                                       *)
Grown == \A r \in Begun : r \in Begun' /\ journal'[r].input = journal[r].input

(* Why a worker is dead. A launcher that gets a signal from elsewhere kills    *)
(* for a reason that the supervisor does not look at.                          *)
CrashInv ==
    /\ vm.worker = "dead" => vm.end # "none"
    /\ vm.end = "killed" => vm.told \/ vm.lost \/ "launcher" \in world.faults
    /\ s.gen > 0 /\ s.pc \notin {"abort", "down"} /\ vm.told => s.stop # "none"
    /\ s.verdict = "native_vm_crash" /\ (s.pc = "finish" \/ Closing) =>
          /\ Closing /\ s.stop = "none"
          /\ vm.end = "signal" \/ (vm.end = "killed" /\ "launcher" \in world.faults)

(* The records of the present campaign: all but that in flight are final.      *)
Current(r) == journal[r].campaign = world.boots
Poison(r) == journal[r].result \notin {"none", "execution_result"}
Running == s.gen > 0 /\ s.pc \notin {"down", "abort"}
InFlight(r) ==
    r = s.rec /\ (Writing \/ Finalizing \/ Closing \/ (s.pc = "loop" /\ s.pending = r))
CampaignInv ==
    /\ \A r \in Slots : journal[r].campaign <= world.boots
    /\ \A r \in Slots : journal[r].input # NoInput => journal[r].campaign > 0
    /\ s.pc # "down" => world.boots > 0
    /\ s.gen = 0 /\ s.pc \notin {"down", "abort"} => \A r \in Slots : ~Current(r)
    /\ \A q, r \in Slots :
          q < r /\ journal[q].campaign = journal[r].campaign /\ journal[q].campaign > 0 =>
             journal[q].safe = 3
    /\ Running => \A r \in Slots : Current(r) => journal[r].safe = 3 \/ InFlight(r)

(* An input put aside is neither at the worker's choice nor on its way.        *)
Avoiding == Running /\ s.pc # "decide" /\ s.state \notin {"RECYCLING", "STOPPING"}
AvoidInv ==
    Avoiding =>
        /\ vm.worker # "dead" => s.quarantine \subseteq vm.avoid
        /\ \A i \in DOMAIN vm.out : vm.out[i].kind = "prepare" => vm.out[i].input \notin s.quarantine
PoisonInv ==
    ~Replay =>
        /\ Running => \A r \in Slots : Current(r) /\ Poison(r) =>
              journal[r].input \in s.quarantine \/ InFlight(r)
        /\ AvoidInv /\ PoisonRunsOnce

(* The worker's life, as the supervisor leaves it.                             *)
SameLife ==
    /\ vm'.worker = vm.worker /\ vm'.avoid = vm.avoid /\ vm'.end = vm.end /\ vm'.lost = vm.lost
    /\ vm.told => vm'.told
    /\ SameOut

(* A step of the supervisor within its campaign: a record stops being in       *)
(* flight only once it is final and, if it was poison, its input is put aside. *)
Calm ==
    /\ world'.boots = world.boots /\ world'.faults = world.faults
    /\ SameLife
    /\ vm'.told => vm.told \/ ~Running' \/ s'.stop # "none"
    /\ s'.pc # "down" => s.pc # "down"
    /\ s'.gen = 0 /\ s'.pc \notin {"down", "abort"} => s.gen = 0 /\ s.pc \notin {"down", "abort"}
    /\ Running' =>
          /\ Running /\ (s.stop # "none" => s'.stop # "none") /\ s.quarantine \subseteq s'.quarantine
          /\ \A r \in Slots : InFlight(r) =>
                \/ InFlight(r)'
                \/ journal[r].safe = 3 /\ (Poison(r) => journal[r].input \in s'.quarantine)
    /\ Avoiding' => Avoiding /\ s'.quarantine = s.quarantine

(* The steps of the supervisor, and what goes wrong within a campaign.         *)
Acts == Supervisor \/ Deadline
Harms == CampaignDeadline \/ FrameStalls \/ KillUnconfirmed \/ LaunchFails \/ DiskFails
         \/ ParentDies \/ SupervisorDies \/ Rot

(* Everything together.                                                        *)
FullInv == SafeInv /\ CampaignInv /\ PoisonInv
HonestInv == SafeInv /\ CrashInv

(* The runs that began, of this supervisor and of those before it, have their  *)
(* verdict, but for the one in flight. A supervisor reads what is left behind  *)
(* before it starts a worker; what it adds is of its own campaign.             *)
Settled(r) == journal[r].result # "none"
Scanned == s.pc \notin {"down", "abort"} /\ (s.gen > 0 \/ s.pc \in {"finding", "decide"})
JudgedInv ==
    /\ Writing => Current(s.rec)
    /\ Scanned => \A r \in Slots : journal[r].mem > 0 => Current(r) \/ Settled(r)
    /\ vm.worker = "asking" /\ vm.in.kind = "run" =>
          \A r \in executed : r = vm.in.run \/ Settled(r)
    /\ AbandonedIsJudged

(* A campaign has one run at a time: the record before the last one is final,  *)
(* on disk, with its result.                                                   *)
OneRunAtATime ==
    \A q, r \in Slots :
        q < r /\ journal[q].campaign = journal[r].campaign /\ journal[q].campaign > 0 =>
           journal[q].safe = 3 /\ journal[q].result # "none"

(* A result that is on disk is never written again, nor is what it is about.   *)
ResultsStand ==
    [][\A r \in Slots : journal[r].safe = 3 =>
          /\ journal'[r].safe = 3 /\ journal'[r].result = journal[r].result
          /\ journal'[r].input = journal[r].input /\ journal'[r].campaign = journal[r].campaign]_vars

-----------------------------------------------------------------------------
(* Types.                                                                      *)

(* The ranges of the constants.                                                *)
LEMMA RangesOfOptions ==
  ASSUME Options
  PROVE  /\ SupervisedRuns \in Nat \ {0} /\ MaxIterations \in Nat /\ RestartBudget \in Nat
         /\ JournalRecords \in Nat \ {0}
<1>1. SupervisedRuns \in 1..10^5 /\ MaxIterations \in 0..10^6 /\ RestartBudget \in 0..128
  BY DEF Options
<1>2. JournalRecords \in Nat \ {0} BY DEF Options
<1> QED BY <1>1, <1>2

(* What the assumption on the constants says of them.                          *)
LEMMA Params ==
  /\ SupervisedRuns \in Nat \ {0} /\ MaxIterations \in Nat /\ RestartBudget \in Nat
  /\ JournalRecords \in Nat \ {0} /\ EventLimit \in Nat \ {0} /\ MaxBoots \in Nat
  /\ NoInput \notin Inputs /\ Finding \in Inputs
<1>1. Options BY ExternalAssumption
<1>2. NoInput \notin Inputs /\ Finding \in Inputs /\ EventLimit \in Nat \ {0} /\ MaxBoots \in Nat
  BY ExternalAssumption
<1> QED BY <1>1, <1>2, RangesOfOptions

(* The places of the supervisor, its states and its verdicts.                  *)
LEMMA Known ==
  /\ {"down", "recover", "finding", "decide", "loop", "publish", "authorize", "sync", "permit",
      "finish", "acknowledge", "index", "abort"} \subseteq Pcs
  /\ {"STARTING", "SETUP", "READY", "PREPARING", "EXECUTING", "FINALIZING", "RECYCLING",
      "STOPPING"} \subseteq States
  /\ Stops \subseteq Statuses /\ {"none"} \cup Kills \subseteq Stops
  /\ {"completed", "worker_unexpected_exit", "restart_budget_exhausted"} \subseteq Statuses
  /\ {"budget_completed", "dirty_recycle", "campaign_deadline", "worker_hard_timeout",
      "startup_or_idle_timeout", "worker_protocol_failure", "supervisor_parent_death"} \subseteq Stops
  /\ {"execution_result", "dirty_recycle", "interrupted_unknown", "interrupted_prepared"} \subseteq Verdicts
  BY DEF Pcs, States, Stops, Kills, Statuses, Verdicts

(* A frame at the head of the stream.                                          *)
LEMMA TakenTyped ==
  ASSUME vm \in VmType, vm.out # <<>>
  PROVE  Taken \in VmType /\ Head(vm.out) \in Frame
<1>1. vm.out \in Seq(Frame) BY DEF VmType
<1>2. Tail(vm.out) \in Seq(Frame) /\ Head(vm.out) \in Frame BY <1>1
<1> QED BY <1>2 DEF Taken, VmType

(* An answer keeps the types.                                                  *)
LEMMA SendTyped ==
  ASSUME s \in SupervisorType, NEW t \in SupervisorType, NEW w \in VmType,
         NEW kind \in {"ack", "run", "spent"}, NEW run \in Slots \cup {0}, Send(t, w, kind, run)
  PROVE  s' \in SupervisorType /\ vm' \in VmType
<1>1. CASE s' = t /\ vm' = [w EXCEPT !.in = [kind |-> kind, run |-> run]]
  <2>1. [kind |-> kind, run |-> run] \in Answers BY DEF Answers
  <2> QED BY <1>1, <2>1 DEF VmType
<1>2. CASE Fail /\ vm' = w
  BY <1>2, Known DEF Fail, Step, SupervisorType
<1> QED BY <1>1, <1>2 DEF Send

(* An event more.                                                              *)
LEMMA LoggedTyped ==
  ASSUME NEW t \in SupervisorType
  PROVE  Logged(t) \in SupervisorType
<1> DEFINE a == IF t.age = 0 THEN 0 ELSE IF t.age > EventLimit THEN t.age ELSE t.age + 1
<1>1. a \in 0..(EventLimit + 1) BY Params DEF SupervisorType
<1>2. Logged(t) = [t EXCEPT !.age = a] BY DEF Logged
<1> HIDE DEF a
<1> QED BY <1>1, <1>2 DEF SupervisorType

(* A supervisor that starts, one that is gone, and no worker.                  *)
LEMMA FreshTyped == Fresh \in SupervisorType /\ Gone \in SupervisorType /\ NoVm \in VmType
<1>1. Fresh \in SupervisorType
  BY Params DEF Fresh, SupervisorType, Pcs, States, Stops, Kills, Verdicts, Statuses, NotDone
<1>2. Gone \in SupervisorType BY <1>1, Known DEF Gone, SupervisorType
<1>3. <<>> \in Seq(Frame) OBVIOUS
<1> QED BY <1>1, <1>2, <1>3, Params DEF NoVm, VmType, Workers, Deaths, Answers, Nothing

(* The verdict of a run in flight and the status of a generation.              *)
LEMMA ReasonTyped ==
  ASSUME s \in SupervisorType
  PROVE  Reason \in Verdicts /\ GenerationStatus \in Statuses
<1>1. s.stop \in Stops BY DEF SupervisorType
<1> QED BY <1>1 DEF Reason, GenerationStatus, Stops, Kills, Verdicts, Statuses

(* Steps of the supervisor that change its place, or its reason to end the     *)
(* generation, and little else.                                                *)
LEMMA PlaceTyped ==
  ASSUME s \in SupervisorType, NEW pc \in Pcs
  PROVE  /\ [s EXCEPT !.pc = pc] \in SupervisorType
         /\ [s EXCEPT !.pc = pc, !.after = "recover"] \in SupervisorType
         /\ [s EXCEPT !.pc = "sync", !.after = pc] \in SupervisorType
<1>1. {"recover", "sync"} \subseteq Pcs BY Known
<1> QED BY <1>1 DEF SupervisorType

(* A reason to end the generation.                                             *)
LEMMA StopTyped ==
  ASSUME s \in SupervisorType, NEW stop \in Stops
  PROVE  [s EXCEPT !.stop = stop] \in SupervisorType
  BY DEF SupervisorType

(* The flags that the loop sets.                                               *)
LEMMA FlagTyped ==
  ASSUME s \in SupervisorType
  PROVE  /\ [s EXCEPT !.sock = TRUE] \in SupervisorType
         /\ [s EXCEPT !.evidence = TRUE] \in SupervisorType
         /\ [s EXCEPT !.killed = TRUE] \in SupervisorType
  BY DEF SupervisorType

(* The frames of the worker.                                                   *)
LEMMA FrameChanged ==
  ASSUME NEW f \in Frame, NEW i \in Inputs, NEW m \in BOOLEAN, NEW r \in Slots \cup {0},
         NEW c \in 0..1
  PROVE  /\ [f EXCEPT !.input = i, !.mutation = m] \in Frame
         /\ [f EXCEPT !.run = r, !.dirty = m] \in Frame
         /\ [f EXCEPT !.code = c] \in Frame
<1>1. i \in Inputs \cup {NoInput} OBVIOUS
<1>2. [f EXCEPT !.input = i, !.mutation = m] \in Frame BY <1>1 DEF Frame
<1>3. [f EXCEPT !.run = r, !.dirty = m] \in Frame BY DEF Frame
<1>4. [f EXCEPT !.code = c] \in Frame BY DEF Frame
<1> QED BY <1>2, <1>3, <1>4

(* A frame of each kind is one.                                                *)
LEMMA MsgTyped ==
  ASSUME NEW kind \in {"hello", "ready", "prepare", "result", "done", "bad"}
  PROVE  Msg(kind) \in Frame
  BY DEF Msg, Frame

(* A request to run an input.                                                  *)
LEMMA PrepareFrame ==
  ASSUME NEW i \in Inputs, NEW m \in BOOLEAN
  PROVE  [Msg("prepare") EXCEPT !.input = i, !.mutation = m] \in Frame
<1>1. Msg("prepare") \in Frame /\ 0 \in Slots \cup {0} /\ 0 \in 0..1 BY MsgTyped
<1> QED BY <1>1, FrameChanged

(* The result of a run.                                                        *)
LEMMA ResultFrame ==
  ASSUME NEW r \in Slots \cup {0}, NEW m \in BOOLEAN
  PROVE  [Msg("result") EXCEPT !.run = r, !.dirty = m] \in Frame
<1>1. Msg("result") \in Frame /\ Finding \in Inputs /\ 0 \in 0..1 BY MsgTyped, Params
<1> QED BY <1>1, FrameChanged

(* The end of the campaign in the worker.                                      *)
LEMMA DoneFrame ==
  ASSUME NEW c \in 0..1
  PROVE  [Msg("done") EXCEPT !.code = c] \in Frame
<1>1. Msg("done") \in Frame /\ Finding \in Inputs /\ 0 \in Slots \cup {0} /\ TRUE \in BOOLEAN
  BY MsgTyped, Params
<1> QED BY <1>1, FrameChanged

(* A request taken up: the counters stay within the budgets.                   *)
LEMMA PrepareTyped ==
  ASSUME s \in SupervisorType, OnPrepare
  PROVE  s' \in SupervisorType
<1>1. CASE Fail BY <1>1, PlaceTyped, Known DEF Fail, Step, SupervisorType
<1>2. ASSUME NEW r \in Slots,
             s' = [s EXCEPT !.pc = "publish", !.state = "PREPARING", !.rec = r, !.runs = @ + 1,
                            !.muts = IF Head(vm.out).mutation THEN @ + 1 ELSE @]
      PROVE  s' \in SupervisorType
  <2> DEFINE m == Head(vm.out)
             k == IF m.mutation THEN s.muts + 1 ELSE s.muts
  <2>1. ~Spent(m) BY DEF OnPrepare
  <2>2. s.runs + 1 \in 0..SupervisedRuns BY <2>1, Params DEF Spent, SupervisorType
  <2>3. k \in 0..MaxIterations BY <2>1, Params DEF Spent, SupervisorType, Mutations
  <2>4. s' = [s EXCEPT !.pc = "publish", !.state = "PREPARING", !.rec = r, !.runs = s.runs + 1,
                       !.muts = k]
    BY <1>2
  <2>5. "publish" \in Pcs /\ "PREPARING" \in States BY Known
  <2> HIDE DEF k
  <2> QED BY <2>2, <2>3, <2>4, <2>5 DEF SupervisorType
<1> QED BY <1>1, <1>2 DEF OnPrepare

(* A result taken from the stream.                                             *)
LEMMA ResultTyped ==
  ASSUME s \in SupervisorType, vm \in VmType, OnResult
  PROVE  s' \in SupervisorType
<1> DEFINE dirty == Head(vm.out).dirty
           x == IF dirty THEN "dirty_recycle" ELSE "execution_result"
<1>1. vm.out # <<>> BY DEF OnResult, Hears
<1>2. dirty \in BOOLEAN BY <1>1, TakenTyped DEF Frame
<1>3. x \in Verdicts BY Known
<1>4. s' = [s EXCEPT !.pc = "finish", !.after = "acknowledge", !.state = "FINALIZING",
                     !.dirty = dirty, !.verdict = x]
  BY DEF OnResult
<1>5. {"finish", "acknowledge"} \subseteq Pcs /\ "FINALIZING" \in States BY Known
<1> HIDE DEF dirty, x
<1> QED BY <1>2, <1>3, <1>4, <1>5 DEF SupervisorType

(* The end of a generation.                                                    *)
LEMMA EndTyped ==
  ASSUME s \in SupervisorType, End
  PROVE  s' \in SupervisorType
<1>1. /\ Logged(s) \in SupervisorType /\ Reason \in Verdicts /\ GenerationStatus \in Statuses
      /\ s.pending \in Slots \cup {0} /\ {"decide", "finish", "index"} \subseteq Pcs
  BY LoggedTyped, ReasonTyped, Known DEF SupervisorType
<1>2. CASE s' = [Logged(s) EXCEPT !.pc = "decide", !.status = GenerationStatus]
  BY <1>1, <1>2 DEF SupervisorType
<1>3. CASE s' = [Logged(s) EXCEPT !.pc = "finish", !.after = "index", !.rec = s.pending,
                                  !.verdict = Reason]
  BY <1>1, <1>3 DEF SupervisorType
<1> QED BY <1>2, <1>3 DEF End, InLoop

(* A run that lost its VM: its input is put aside.                             *)
LEMMA IndexTyped ==
  ASSUME s \in SupervisorType, ControlInv, RecordInv, JournalInv, Index
  PROVE  s' \in SupervisorType
<1> DEFINE q == s.quarantine \cup {journal[s.rec].input}
<1>1. journal[s.rec].input \in Inputs BY DEF Index, ControlInv, RecordInv, JournalInv, Closing
<1>2. q \in SUBSET Inputs BY <1>1 DEF SupervisorType
<1>3. s' = [s EXCEPT !.pc = "decide", !.pending = 0, !.status = GenerationStatus,
                     !.verdict = "none", !.quarantine = q]
  BY DEF Index
<1>4. GenerationStatus \in Statuses /\ "decide" \in Pcs BY ReasonTyped, Known
<1> HIDE DEF q
<1> QED BY <1>2, <1>3, <1>4 DEF SupervisorType

(* A run whose worker answered.                                                *)
LEMMA AcknowledgeTyped ==
  ASSUME s \in SupervisorType, vm \in VmType, ControlInv, RecordInv, JournalInv, Acknowledge
  PROVE  s' \in SupervisorType /\ vm' \in VmType
<1> DEFINE t == [Logged(s) EXCEPT !.pc = "loop", !.pending = 0, !.state = "READY",
                                  !.verdict = "none", !.dirty = FALSE]
           u == [t EXCEPT !.stop = "dirty_recycle", !.state = "RECYCLING",
                          !.quarantine = t.quarantine \cup {journal[s.rec].input}]
<1>1. journal[s.rec].input \in Inputs /\ s.rec \in Slots
  BY DEF Acknowledge, ControlInv, RecordInv, JournalInv, Finalizing
<1>2. Send(IF s.dirty THEN u ELSE t, vm, "ack", s.rec) BY DEF Acknowledge
<1>3. Logged(s) \in SupervisorType BY LoggedTyped
<1>4. /\ "loop" \in Pcs /\ {"READY", "RECYCLING"} \subseteq States /\ "dirty_recycle" \in Stops
  BY Known
<1>5. t \in SupervisorType BY <1>3, <1>4 DEF SupervisorType
<1> HIDE DEF t
<1>6. t.quarantine \cup {journal[s.rec].input} \in SUBSET Inputs BY <1>1, <1>5 DEF SupervisorType
<1>7. u \in SupervisorType BY <1>4, <1>5, <1>6 DEF SupervisorType
<1> HIDE DEF u
<1>8. (IF s.dirty THEN u ELSE t) \in SupervisorType BY <1>5, <1>7
<1> QED BY <1>1, <1>2, <1>8, SendTyped

(* A record that an earlier supervisor left open.                              *)
LEMMA RecoverTyped ==
  ASSUME s \in SupervisorType, Recover
  PROVE  s' \in SupervisorType
<1>1. CASE Fail BY <1>1, PlaceTyped, Known DEF Fail, Step, SupervisorType
<1>2. ASSUME NEW r \in Open,
             s' = [s EXCEPT !.pc = "finish", !.after = "recover", !.rec = r,
                            !.verdict = Interrupted(r)]
      PROVE  s' \in SupervisorType
  <2>1. r \in Slots BY DEF Open, Used
  <2>2. Interrupted(r) \in Verdicts BY Known DEF Interrupted
  <2>3. {"finish", "recover"} \subseteq Pcs BY Known
  <2> QED BY <1>2, <2>1, <2>2, <2>3 DEF SupervisorType
<1> QED BY <1>1, <1>2 DEF Recover

(* The start of a generation: the restart budget bounds its number.            *)
LEMMA LaunchTyped ==
  ASSUME s \in SupervisorType, Launch
  PROVE  s' \in SupervisorType /\ vm' \in VmType
<1> DEFINE t == [s EXCEPT !.pc = "loop", !.gen = s.gen + 1, !.state = "STARTING",
                          !.done = NotDone, !.stop = "none", !.killed = FALSE, !.sock = FALSE]
           u == [t EXCEPT !.eof = FALSE, !.evidence = FALSE, !.age = 0, !.wasReady = FALSE,
                          !.rec = 0, !.status = "none"]
<1>1. s.gen + 1 \in 0..(RestartBudget + 1) BY Params DEF Launch, Exhausted, SupervisorType
<1>2. "loop" \in Pcs /\ "STARTING" \in States /\ "none" \in Stops /\ "none" \in Statuses BY Known
<1>3. NotDone \in 0..NotDone BY DEF NotDone
<1>4. t \in SupervisorType BY <1>1, <1>2, <1>3 DEF SupervisorType
<1>5. s' = u BY DEF Launch, SupervisorType
<1> HIDE DEF t
<1>6. 0 \in 0..(EventLimit + 1) BY Params
<1>7. u \in SupervisorType BY <1>2, <1>4, <1>6 DEF SupervisorType
<1>8. WorkerArgs.avoid \in SUBSET Inputs /\ WorkerArgs.left \in 0..MaxIterations
  BY Params DEF WorkerArgs, SupervisorType, Mutations
<1>9. vm' = [NoVm EXCEPT !.worker = "booting", !.avoid = WorkerArgs.avoid, !.left = WorkerArgs.left]
  BY DEF Launch
<1>10. "booting" \in Workers BY DEF Workers
<1>11. vm' \in VmType BY <1>8, <1>9, <1>10, FreshTyped DEF VmType
<1> QED BY <1>5, <1>7, <1>11

(* The remaining steps of the supervisor.                                      *)
LEMMA FrameTyped ==
  ASSUME s \in SupervisorType, vm \in VmType,
         OnHello \/ OnReady \/ OnPrepareSpent \/ OnDone \/ Permit
  PROVE  s' \in SupervisorType /\ vm' \in VmType
<1>1. s.pc # "permit" => Taken \in VmType /\ Head(vm.out) \in Frame
  BY TakenTyped DEF OnHello, OnReady, OnPrepareSpent, OnDone, Permit, Hears
<1>2. /\ {"SETUP", "READY", "STOPPING", "EXECUTING"} \subseteq States /\ "loop" \in Pcs
      /\ "budget_completed" \in Stops /\ s.rec \in Slots \cup {0} /\ 1 \in 0..(EventLimit + 1)
  BY Known, Params DEF SupervisorType
<1>3. CASE OnHello
  <2>1. [s EXCEPT !.state = "SETUP"] \in SupervisorType BY <1>2 DEF SupervisorType
  <2>2. Taken \in VmType BY <1>1, <1>3 DEF OnHello, Hears
  <2>3. Send([s EXCEPT !.state = "SETUP"], Taken, "ack", 0) BY <1>3 DEF OnHello
  <2> QED BY <2>1, <2>2, <2>3, SendTyped
<1>4. CASE OnReady
  <2> DEFINE t == [s EXCEPT !.state = "READY", !.age = 1, !.wasReady = TRUE]
  <2>1. t \in SupervisorType BY <1>2 DEF SupervisorType
  <2>2. Taken \in VmType BY <1>1, <1>4 DEF OnReady, Hears
  <2>3. Send(t, Taken, "ack", 0) BY <1>4 DEF OnReady
  <2> HIDE DEF t
  <2> QED BY <2>1, <2>2, <2>3, SendTyped
<1>5. CASE OnPrepareSpent
  <2> DEFINE t == [s EXCEPT !.stop = "budget_completed"]
  <2>1. t \in SupervisorType BY <1>2 DEF SupervisorType
  <2>2. Taken \in VmType BY <1>1, <1>5 DEF OnPrepareSpent, Hears
  <2>3. Send(t, Taken, "spent", 0) BY <1>5 DEF OnPrepareSpent
  <2> HIDE DEF t
  <2> QED BY <2>1, <2>2, <2>3, SendTyped
<1>6. CASE OnDone
  <2> DEFINE c == Head(vm.out).code
             t == [s EXCEPT !.state = "STOPPING", !.done = c]
  <2>1. Taken \in VmType /\ Head(vm.out) \in Frame BY <1>1, <1>6 DEF OnDone, Hears
  <2>2. c \in 0..NotDone BY <2>1 DEF Frame, NotDone
  <2>3. Send(t, Taken, "ack", 0) BY <1>6 DEF OnDone
  <2> HIDE DEF c
  <2>4. t \in SupervisorType BY <1>2, <2>2 DEF SupervisorType
  <2> HIDE DEF t
  <2> QED BY <2>1, <2>3, <2>4, SendTyped
<1>7. CASE Permit
  <2> DEFINE t == [s EXCEPT !.pc = "loop", !.state = "EXECUTING"]
  <2>1. t \in SupervisorType BY <1>2 DEF SupervisorType
  <2>2. Send(t, vm, "run", s.rec) BY <1>7 DEF Permit
  <2> HIDE DEF t
  <2> QED BY <1>2, <2>1, <2>2, SendTyped
<1> QED BY <1>3, <1>4, <1>5, <1>6, <1>7

(* The turns of the loop.                                                      *)
LEMMA LoopTyped ==
  ASSUME s \in SupervisorType,
         Drain \/ ReadEof \/ Accept \/ ReadEvidence \/ Kill \/ ParentSeen \/ EndUnclean
           \/ LauncherFailed \/ Deadline \/ CampaignDeadline \/ FrameStalls \/ KillUnconfirmed
  PROVE  s' \in SupervisorType
<1>1. {"loop", "abort"} \subseteq Pcs /\ {"supervisor_parent_death", "worker_hard_timeout",
        "startup_or_idle_timeout", "campaign_deadline", "worker_protocol_failure"} \subseteq Stops
  BY Known
<1>2. CASE Drain BY <1>2 DEF Drain
<1>3. CASE ReadEof BY <1>1, <1>3 DEF ReadEof, SupervisorType
<1>4. CASE Accept \/ ReadEvidence \/ Kill
  BY <1>4, FlagTyped DEF Accept, ReadEvidence, Kill, InLoop
<1>5. CASE ParentSeen \/ Deadline \/ CampaignDeadline \/ FrameStalls
  BY <1>1, <1>5, StopTyped DEF ParentSeen, Deadline, CampaignDeadline, FrameStalls, InLoop
<1>6. CASE EndUnclean \/ LauncherFailed \/ KillUnconfirmed
  BY <1>1, <1>6, PlaceTyped DEF EndUnclean, LauncherFailed, KillUnconfirmed, InLoop
<1> QED BY <1>2, <1>3, <1>4, <1>5, <1>6

(* The steps on disk, and those of the start.                                  *)
LEMMA RecordTyped ==
  ASSUME s \in SupervisorType, ControlInv,
         PublishRun \/ Authorize \/ Finish \/ SyncDirectory \/ Recovered \/ LoadFinding
           \/ LaunchFails \/ DiskFails
  PROVE  s' \in SupervisorType
<1>1. /\ {"sync", "authorize", "permit", "abort", "finding", "decide"} \subseteq Pcs
      /\ s.after \in Pcs /\ s.rec \in Slots \cup {0}
  BY Known DEF SupervisorType
<1>2. CASE PublishRun BY <1>1, <1>2 DEF PublishRun, SupervisorType
<1>3. CASE Authorize BY <1>1, <1>3 DEF Authorize, SupervisorType
<1>4. CASE SyncDirectory BY <1>1, <1>4, PlaceTyped DEF SyncDirectory
<1>5. CASE Finish
  BY <1>1, <1>5, PlaceTyped DEF Finish, Step
<1>6. CASE Recovered \/ LoadFinding \/ LaunchFails \/ DiskFails
  BY <1>1, <1>6, PlaceTyped DEF Recovered, LoadFinding, LaunchFails, DiskFails, Step, Fail
<1> QED BY <1>2, <1>3, <1>4, <1>5, <1>6

(* The steps after which there is no supervisor, or a fresh one.               *)
LEMMA BootTyped ==
  ASSUME s \in SupervisorType,
         Report \/ Abort \/ Start \/ SupervisorDies \/ PowerLoss
  PROVE  s' \in SupervisorType
<1>1. CASE Report
  <2> DEFINE status == IF Final THEN s.status ELSE "restart_budget_exhausted"
  <2>1. s.status \in Statuses /\ s.done \in 0..NotDone /\ s.wasReady \in BOOLEAN
    BY DEF SupervisorType
  <2>2. status \in Statuses BY <2>1, Known
  <2>3. s' = [Gone EXCEPT !.status = status, !.done = s.done, !.wasReady = s.wasReady]
    BY <1>1 DEF Report
  <2> HIDE DEF status
  <2> QED BY <2>1, <2>2, <2>3, FreshTyped DEF SupervisorType
<1>2. CASE Abort \/ Start \/ SupervisorDies \/ PowerLoss
  BY <1>2, FreshTyped DEF Abort, Start, SupervisorDies, PowerLoss
<1> QED BY <1>1, <1>2

(* A frame that is not expected.                                               *)
LEMMA BadFrameTyped ==
  ASSUME s \in SupervisorType, OnBadFrame
  PROVE  s' \in SupervisorType
<1>1. Logged(s) \in SupervisorType /\ "worker_protocol_failure" \in Stops BY LoggedTyped, Known
<1> QED BY <1>1 DEF OnBadFrame, SupervisorType

(* The worker, its socket and its launcher.                                    *)
LEMMA TakesTyped ==
  ASSUME vm \in VmType,
         OnPrepare \/ OnResult \/ OnBadFrame \/ Drain \/ Kill \/ ParentSeen \/ Abort
           \/ SupervisorDies \/ PowerLoss
  PROVE  vm' \in VmType
<1>1. CASE OnPrepare \/ OnResult \/ OnBadFrame \/ Drain
  BY <1>1, TakenTyped DEF OnPrepare, OnResult, OnBadFrame, Drain, Hears
<1>2. CASE Kill \/ ParentSeen \/ Abort \/ SupervisorDies
  BY <1>2 DEF Kill, ParentSeen, Abort, SupervisorDies, StopHelper, VmType
<1>3. CASE PowerLoss BY <1>3, FreshTyped DEF PowerLoss
<1> QED BY <1>1, <1>2, <1>3

(* A worker that ends.                                                         *)
LEMMA EndedTyped ==
  ASSUME NEW w \in VmType, NEW end \in Deaths
  PROVE  Ended(w, end) \in VmType
<1>1. "dead" \in Workers /\ {} \in SUBSET Inputs /\ 0 \in 0..MaxIterations BY Params DEF Workers
<1> QED BY <1>1 DEF Ended, VmType

(* A worker that speaks, or that reads an answer.                              *)
LEMMA SaysTyped ==
  ASSUME vm \in VmType, NEW m \in Frame, NEW to \in Workers
  PROVE  /\ [vm EXCEPT !.worker = to, !.out = Append(@, m)] \in VmType
         /\ [vm EXCEPT !.worker = to, !.conn = TRUE, !.out = Append(@, m)] \in VmType
         /\ [vm EXCEPT !.out = Append(@, m)] \in VmType
         /\ [vm EXCEPT !.worker = to, !.in = Nothing] \in VmType
<1>1. Append(vm.out, m) \in Seq(Frame) BY DEF VmType
<1>2. Nothing \in Answers BY DEF Nothing, Answers
<1> QED BY <1>1, <1>2 DEF VmType

(* All steps of the worker.                                                    *)
LEMMA WorkerTyped ==
  ASSUME vm \in VmType, Worker
  PROVE  vm' \in VmType
<1>1. {"hello", "announcing", "asking", "reporting", "leaving", "setup", "idle", "running"} \subseteq Workers
  BY DEF Workers, Waits
<1>2. {"signal", "exit", "killed"} \subseteq Deaths BY DEF Deaths
<1>3. Msg("hello") \in Frame /\ Msg("ready") \in Frame /\ Msg("bad") \in Frame BY MsgTyped
<1>4. CASE Connect BY <1>1, <1>3, <1>4, SaysTyped DEF Connect, Vm
<1>5. CASE Announce BY <1>1, <1>3, <1>5, SaysTyped DEF Announce, Vm
<1>6. CASE Ask
  <2>1. PICK i \in Offered \ vm.avoid, m \in BOOLEAN :
          /\ m => vm.left > 0
          /\ Vm([vm EXCEPT !.worker = "asking", !.input = i, !.left = IF m THEN @ - 1 ELSE @,
                           !.out = Append(@, [Msg("prepare") EXCEPT !.input = i, !.mutation = m])])
    BY <1>6 DEF Ask
  <2> DEFINE f == [Msg("prepare") EXCEPT !.input = i, !.mutation = m]
             k == IF m THEN vm.left - 1 ELSE vm.left
  <2>2. i \in Inputs BY Params DEF Offered
  <2>3. f \in Frame BY <2>2, PrepareFrame
  <2>4. k \in 0..MaxIterations BY <2>1, Params DEF VmType
  <2>5. vm' = [vm EXCEPT !.worker = "asking", !.input = i, !.left = k, !.out = Append(vm.out, f)]
    BY <2>1 DEF Vm
  <2> HIDE DEF f, k
  <2>6. Append(vm.out, f) \in Seq(Frame) BY <2>3 DEF VmType
  <2> QED BY <1>1, <2>2, <2>4, <2>5, <2>6 DEF VmType
<1>7. CASE Answer
  <2>1. PICK dirty \in BOOLEAN :
          Vm([vm EXCEPT !.worker = "reporting",
                        !.out = Append(@, [Msg("result") EXCEPT !.run = vm.run, !.dirty = dirty])])
    BY <1>7 DEF Answer
  <2>2. [Msg("result") EXCEPT !.run = vm.run, !.dirty = dirty] \in Frame
    BY ResultFrame DEF VmType
  <2> QED BY <1>1, <2>1, <2>2, SaysTyped DEF Vm
<1>8. CASE Leave
  <2>1. PICK c \in 0..1 :
          Vm([vm EXCEPT !.worker = "leaving", !.out = Append(@, [Msg("done") EXCEPT !.code = c])])
    BY <1>8 DEF Leave
  <2>2. [Msg("done") EXCEPT !.code = c] \in Frame BY DoneFrame
  <2> QED BY <1>1, <2>1, <2>2, SaysTyped DEF Vm
<1>9. CASE ReadAnswer
  <2> DEFINE w == [vm EXCEPT !.in = Nothing]
  <2>1. w \in VmType BY DEF VmType, Answers, Nothing
  <2>2. vm.in.run \in Slots \cup {0} /\ vm.in \in Answers BY DEF VmType, Answers
  <2>3. Ended(w, "exit") \in VmType BY <1>2, <2>1, EndedTyped
  <2>4. [w EXCEPT !.worker = "running", !.run = vm.in.run] \in VmType
    BY <1>1, <2>1, <2>2 DEF VmType
  <2>5. NoInput \in Inputs \cup {NoInput} OBVIOUS
  <2> HIDE DEF w
  <2>6. /\ [w EXCEPT !.worker = "setup"] \in VmType /\ [w EXCEPT !.worker = "idle"] \in VmType
        /\ [w EXCEPT !.worker = "idle", !.run = 0, !.input = NoInput] \in VmType
    BY <1>1, <2>1, <2>5 DEF VmType
  <2>7. vm' \in {Ended(w, "exit"), [w EXCEPT !.worker = "running", !.run = vm.in.run],
                 [w EXCEPT !.worker = "setup"], [w EXCEPT !.worker = "idle"],
                 [w EXCEPT !.worker = "idle", !.run = 0, !.input = NoInput]}
    BY <1>9 DEF ReadAnswer, Vm, w
  <2> QED BY <2>3, <2>4, <2>6, <2>7
<1>10. CASE AnswerIsLate BY <1>2, <1>10, EndedTyped DEF AnswerIsLate, Vm
<1>11. CASE Crash BY <1>2, <1>11, EndedTyped DEF Crash, Vm
<1>12. CASE Babble BY <1>1, <1>3, <1>12, SaysTyped DEF Babble, Vm, VmType
<1> QED BY <1>4, <1>5, <1>6, <1>7, <1>8, <1>9, <1>10, <1>11, <1>12 DEF Worker

(* All steps of the launcher.                                                  *)
LEMMA LauncherTyped ==
  ASSUME vm \in VmType, LauncherKills \/ LauncherReports \/ LauncherDies
  PROVE  vm' \in VmType
<1>1. "killed" \in Deaths /\ vm.end \in Deaths BY DEF Deaths, VmType
<1>2. CASE LauncherKills BY <1>1, <1>2, EndedTyped DEF LauncherKills, Vm
<1>3. CASE LauncherReports
  <2>1. PICK c \in BOOLEAN : vm' = [vm EXCEPT !.line = TRUE, !.clean = c]
    BY <1>3 DEF LauncherReports, Vm
  <2> QED BY <2>1 DEF VmType
<1>4. CASE LauncherDies
  <2> DEFINE e == IF Alive THEN "killed" ELSE vm.end
             w == Ended(vm, e)
  <2>1. e \in Deaths BY <1>1
  <2>2. w \in VmType BY <2>1, EndedTyped
  <2>3. vm' = [w EXCEPT !.lost = TRUE] BY <1>4 DEF LauncherDies, Vm
  <2> HIDE DEF w
  <2> QED BY <2>2, <2>3 DEF VmType
<1> QED BY <1>2, <1>3, <1>4

-----------------------------------------------------------------------------
(* What the steps keep. Frames that wait, first.                               *)

(* The frames behind the one that is taken.                                    *)
LEMMA TailOut ==
  ASSUME vm \in VmType, vm.out # <<>>
  PROVE  /\ 1 \in DOMAIN vm.out /\ Head(vm.out) = vm.out[1]
         /\ \A i \in DOMAIN Tail(vm.out) :
               i \in Nat /\ i + 1 \in DOMAIN vm.out /\ Tail(vm.out)[i] = vm.out[i + 1]
<1>1. vm.out \in Seq(Frame) BY DEF VmType
<1> QED BY <1>1

(* Requests that wait behind the frame that was taken.                         *)
LEMMA PrepareTail ==
  ASSUME vm \in VmType, vm.out # <<>>, PrepareInv, vm'.out = Tail(vm.out),
         vm'.worker = vm.worker, vm'.input = vm.input, vm'.in.kind # "run" \/ vm'.in = vm.in
  PROVE  PrepareInv'
<1>1. ASSUME NEW i \in DOMAIN vm'.out, vm'.out[i].kind = "prepare"
      PROVE  /\ vm'.out[i].input \in Inputs
             /\ vm'.worker # "dead" =>
                   /\ vm'.worker = "asking" /\ vm'.in.kind # "run" /\ vm'.out[i].input = vm'.input
                   /\ \A j \in DOMAIN vm'.out : vm'.out[j].kind = "prepare" => j = i
  <2>1. i \in Nat /\ i + 1 \in DOMAIN vm.out /\ vm'.out[i] = vm.out[i + 1] BY <1>1, TailOut
  <2>2. /\ vm.out[i + 1].input \in Inputs
        /\ vm.worker # "dead" =>
              /\ vm.worker = "asking" /\ vm.in.kind # "run" /\ vm.out[i + 1].input = vm.input
              /\ \A j \in DOMAIN vm.out : vm.out[j].kind = "prepare" => j = i + 1
    BY <1>1, <2>1 DEF PrepareInv
  <2>3. ASSUME vm.worker # "dead", NEW j \in DOMAIN vm'.out, vm'.out[j].kind = "prepare"
        PROVE  j = i
    <3>1. j \in Nat /\ j + 1 \in DOMAIN vm.out /\ vm'.out[j] = vm.out[j + 1] BY TailOut
    <3>2. j + 1 = i + 1 BY <2>2, <2>3, <3>1
    <3> QED BY <2>1, <3>1, <3>2
  <2> QED BY <2>1, <2>2, <2>3
<1>2. vm'.in.kind = "run" => vm'.worker \in {"asking", "dead"} BY DEF PrepareInv
<1> QED BY <1>1, <1>2 DEF PrepareInv

(* A request that is made.                                                     *)
LEMMA PrepareAsked ==
  ASSUME vm \in VmType, PrepareInv, vm.worker = "idle", NEW f \in Frame, f.kind = "prepare",
         f.input \in Inputs, vm'.out = Append(vm.out, f), vm'.worker = "asking",
         vm'.in = vm.in, vm'.input = f.input
  PROVE  PrepareInv'
<1> DEFINE n == Len(vm.out) + 1
<1>1. vm.out \in Seq(Frame) BY DEF VmType
<1>2. \A i \in DOMAIN vm.out : vm.out[i].kind # "prepare" BY DEF PrepareInv
<1>3. vm.in.kind # "run" BY DEF PrepareInv
<1>4. \A i \in DOMAIN vm'.out : i = n \/ (i \in DOMAIN vm.out /\ vm'.out[i] = vm.out[i])
  BY <1>1
<1>5. n \in DOMAIN vm'.out /\ vm'.out[n] = f BY <1>1
<1>6. \A i \in DOMAIN vm'.out : vm'.out[i].kind = "prepare" <=> i = n BY <1>2, <1>4, <1>5
<1> HIDE DEF n
<1> QED BY <1>3, <1>5, <1>6 DEF PrepareInv

(* A frame that is no request.                                                 *)
LEMMA OtherSaid ==
  ASSUME vm \in VmType, NEW f \in Frame, vm'.out = Append(vm.out, f)
  PROVE  \A i \in DOMAIN vm'.out : vm'.out[i] = f \/ (i \in DOMAIN vm.out /\ vm'.out[i] = vm.out[i])
<1>1. vm.out \in Seq(Frame) BY DEF VmType
<1> QED BY <1>1

(* A step of the supervisor says nothing new of requests and runs.             *)
LEMMA VmKeeps ==
  ASSUME SafeInv, SameVm, SameOut, SameIn, Grown, executed' = executed
  PROVE  PrepareInv' /\ RunInv'
<1>0. vm \in VmType /\ PrepareInv /\ RunInv /\ executed \subseteq Begun
  BY DEF SafeInv, TypeOK, Kept, RanInv
<1>1. PrepareInv'
  <2>1. CASE vm'.out = vm.out BY <1>0, <2>1 DEF PrepareInv, SameVm, SameIn
  <2>2. CASE vm.out # <<>> /\ vm'.out = Tail(vm.out) BY <1>0, <2>2, PrepareTail DEF SameVm, SameIn
  <2> QED BY <2>1, <2>2 DEF SameOut
<1>2. \A i \in DOMAIN vm'.out : vm'.out[i].kind = "result" => vm'.out[i].run \in executed
  <2>1. CASE vm'.out = vm.out BY <1>0, <2>1 DEF RunInv
  <2>2. CASE vm.out # <<>> /\ vm'.out = Tail(vm.out) BY <1>0, <2>2, TailOut DEF RunInv
  <2> QED BY <2>1, <2>2 DEF SameOut
<1>3. vm'.worker = "asking" /\ vm'.in.kind = "run" =>
         vm'.in.run \in Begun' /\ journal'[vm'.in.run].input = vm'.input
  BY <1>0 DEF RunInv, SameVm, SameIn, Grown
<1>4. vm'.worker = "running" => vm'.run \in executed' /\ journal'[vm'.run].input = vm'.input
  BY <1>0 DEF RunInv, SameVm, Grown
<1>5. vm'.worker = "reporting" => vm'.run \in executed'
  BY <1>0 DEF RunInv, SameVm
<1> QED BY <1>1, <1>2, <1>3, <1>4, <1>5 DEF RunInv

(* A step that leaves the disk alone.                                          *)
LEMMA DiskKeeps ==
  ASSUME SafeInv, journal' = journal, executed' = executed
  PROVE  JournalInv' /\ RanInv' /\ Grown /\ Begun' = Begun
<1>1. Begun' = Begun BY DEF Begun
<1> QED BY <1>1 DEF SafeInv, Kept, JournalInv, RanInv, Grown

(* A step within the loop of a generation.                                     *)
LEMMA LoopKeeps ==
  ASSUME SafeInv, s.pc = "loop", s'.pc = "loop", s'.gen = s.gen, s'.pending = s.pending,
         s'.rec = s.rec, s'.state = "EXECUTING" <=> s.state = "EXECUTING",
         s'.stop = "dirty_recycle" => s'.state \in {"RECYCLING", "STOPPING"},
         s'.evidence => s.evidence \/ vm.line,
         SameVm, SameOut, SameIn, journal' = journal, executed' = executed
  PROVE  Kept'
<1>1. JournalInv' /\ RanInv' /\ Grown BY DiskKeeps
<1>2. PrepareInv' /\ RunInv' BY <1>1, VmKeeps
<1>3. ControlInv'
  BY DEF SafeInv, Kept, ControlInv, InRecord, Writing, Finalizing, Closing, Recovering
<1>4. RecordInv' BY DEF SafeInv, Kept, RecordInv, InRecord, Finalizing, Closing
<1>5. VerdictInv' BY DEF VerdictInv, InRecord, Finalizing
<1>6. EndInv' BY DEF SafeInv, Kept, EndInv, InRecord, Closing, SameVm
<1>7. AskerInv' BY DEF AskerInv, Writing
<1> QED BY <1>1, <1>2, <1>3, <1>4, <1>5, <1>6, <1>7 DEF Kept

(* A step that ends with the supervisor giving up.                             *)
LEMMA AbortKeeps ==
  ASSUME SafeInv, s'.pc = "abort", s'.stop = s.stop, s'.state = s.state,
         s'.evidence = s.evidence, SameVm, SameOut, SameIn, journal' = journal, executed' = executed
  PROVE  Kept'
<1>1. JournalInv' /\ RanInv' /\ Grown BY DiskKeeps
<1>2. PrepareInv' /\ RunInv' BY <1>1, VmKeeps
<1>3. ControlInv'
  BY DEF SafeInv, Kept, ControlInv, InRecord, Writing, Finalizing, Closing, Recovering
<1>4. RecordInv' BY DEF RecordInv, InRecord, Finalizing, Closing
<1>5. VerdictInv' BY DEF VerdictInv, InRecord, Finalizing
<1>6. EndInv' BY DEF SafeInv, Kept, EndInv, InRecord, Closing, SameVm
<1>7. AskerInv' BY DEF AskerInv, Writing
<1> QED BY <1>1, <1>2, <1>3, <1>4, <1>5, <1>6, <1>7 DEF Kept

(* A supervisor that is gone, that starts, or that has no generation yet.      *)
LEMMA IdleKeeps ==
  ASSUME SafeInv, s'.pc \in {"down", "recover", "finding", "decide"}, s'.gen = 0, s'.pending = 0,
         s'.stop = "none" \/ (s'.stop = s.stop /\ s'.state = s.state), s'.evidence => s.evidence,
         SameVm, SameOut, SameIn, journal' = journal, executed' = executed
  PROVE  Kept'
<1>1. JournalInv' /\ RanInv' /\ Grown BY DiskKeeps
<1>2. PrepareInv' /\ RunInv' BY <1>1, VmKeeps
<1>3. ControlInv'
  BY DEF SafeInv, Kept, ControlInv, InRecord, Writing, Finalizing, Closing, Recovering
<1>4. RecordInv' BY DEF RecordInv, InRecord, Finalizing, Closing
<1>5. VerdictInv' BY DEF VerdictInv, InRecord, Finalizing
<1>6. EndInv' BY DEF SafeInv, Kept, EndInv, InRecord, Closing, SameVm
<1>7. AskerInv' BY DEF AskerInv, Writing
<1> QED BY <1>1, <1>2, <1>3, <1>4, <1>5, <1>6, <1>7 DEF Kept

(* A request that is taken up: its record is new.                              *)
LEMMA TakeUpKeeps ==
  ASSUME SafeInv, NEW r \in Slots, journal[r].mem = 0, s.pc = "loop", s.state = "READY",
         s.stop \in {"none", "dirty_recycle"}, vm.out # <<>>, Head(vm.out).kind = "prepare",
         s' = [s EXCEPT !.pc = "publish", !.state = "PREPARING", !.rec = r,
                        !.runs = s'.runs, !.muts = s'.muts],
         vm' = [vm EXCEPT !.out = Tail(vm.out)], executed' = executed,
         journal'[r].campaign = world.boots, journal'[r].input = Head(vm.out).input,
         journal'[r].mem = 0, journal'[r].safe = 0, journal'[r].result = "none",
         \A q \in Slots : q # r => journal'[q] = journal[q]
  PROVE  Kept'
<1>0. s \in SupervisorType /\ vm \in VmType /\ journal \in [Slots -> Entry] /\ executed \subseteq Slots
  BY DEF SafeInv, TypeOK
<1>1. /\ s'.pc = "publish" /\ s'.state = "PREPARING" /\ s'.rec = r /\ s'.gen = s.gen
      /\ s'.stop = s.stop /\ s'.evidence = s.evidence /\ s'.pending = s.pending
  BY <1>0 DEF SupervisorType
<1>2. /\ vm'.out = Tail(vm.out) /\ vm'.worker = vm.worker /\ vm'.in = vm.in /\ vm'.input = vm.input
      /\ vm'.run = vm.run /\ vm'.line = vm.line /\ vm'.lost = vm.lost
  BY <1>0 DEF VmType
<1>3. /\ 1 \in DOMAIN vm.out /\ vm.out[1].kind = "prepare" /\ Head(vm.out) = vm.out[1]
      /\ Head(vm.out).input \in Inputs
      /\ vm.worker # "dead" => /\ vm.worker = "asking" /\ vm.in.kind # "run"
                               /\ Head(vm.out).input = vm.input
                               /\ \A j \in DOMAIN vm.out : vm.out[j].kind = "prepare" => j = 1
  BY <1>0, TailOut DEF SafeInv, Kept, PrepareInv
<1>4. /\ journal'[r].campaign = world.boots /\ journal'[r].input = Head(vm.out).input
      /\ journal'[r].mem = 0 /\ journal'[r].safe = 0 /\ journal'[r].result = "none"
      /\ \A q \in Slots : q # r => journal'[q] = journal[q]
  OBVIOUS
<1>5. r \notin Begun /\ r \notin executed
  <2>1. JournalInv /\ RanInv BY DEF SafeInv, Kept
  <2>2. journal[r].safe \in 0..3 /\ journal[r].safe <= 0 BY <1>0, <2>1 DEF JournalInv, Entry
  <2> QED BY <2>1, <2>2 DEF RanInv, Begun
<1>6. Begun \subseteq Begun' BY <1>4, <1>5 DEF Begun
<1>7. \A i \in DOMAIN vm'.out : i + 1 \in DOMAIN vm.out /\ vm'.out[i] = vm.out[i + 1] /\ i + 1 # 1
  BY <1>0, <1>2, TailOut
<1>8. ControlInv'
  BY <1>1 DEF SafeInv, Kept, ControlInv, InRecord, Writing, Finalizing, Closing, Recovering
<1>9. RecordInv'
  BY <1>1, <1>3, <1>4 DEF RecordInv, InRecord, Finalizing, Closing
<1>10. VerdictInv' BY <1>1 DEF VerdictInv, InRecord, Finalizing
<1>11. JournalInv' BY <1>3, <1>4 DEF SafeInv, Kept, JournalInv
<1>12. RanInv' BY <1>4, <1>6 DEF SafeInv, Kept, RanInv, Own
<1>13. EndInv' BY <1>1, <1>2 DEF SafeInv, Kept, EndInv, InRecord, Closing
<1>14. PrepareInv' BY <1>0, <1>2, PrepareTail DEF SafeInv, Kept
<1>15. AskerInv' BY <1>1, <1>2, <1>3, <1>4, <1>7 DEF AskerInv, Writing
<1>16. RunInv'
  <2>1. /\ vm.worker = "asking" /\ vm.in.kind = "run" => vm.in.run \in Begun /\ vm.in.run # r
        /\ vm.worker = "running" => vm.run \in Slots /\ vm.run # r
    BY <1>0, <1>5 DEF SafeInv, Kept, RunInv
  <2>2. \A q \in Begun : q # r /\ q \in Slots BY <1>5 DEF Begun
  <2> QED BY <1>1, <1>2, <1>4, <1>5, <1>6, <1>7, <2>1, <2>2 DEF SafeInv, Kept, RunInv
<1> QED BY <1>8, <1>9, <1>10, <1>11, <1>12, <1>13, <1>14, <1>15, <1>16 DEF Kept

(* One record changes and the journal stays in order.                          *)
LEMMA RecordKeeps ==
  ASSUME SafeInv, NEW r \in Slots, \A q \in Slots : q # r => journal'[q] = journal[q],
         journal'[r].safe <= journal'[r].mem,
         journal'[r].mem = 3 <=> journal'[r].result # "none",
         journal'[r].mem > 0 => journal'[r].input \in Inputs
  PROVE  JournalInv'
<1>1. ASSUME NEW q \in Slots
      PROVE  /\ journal'[q].safe <= journal'[q].mem
             /\ journal'[q].mem = 3 <=> journal'[q].result # "none"
             /\ journal'[q].mem > 0 => journal'[q].input \in Inputs
  <2>1. CASE q = r BY <2>1
  <2>2. CASE q # r
    <3>1. journal'[q] = journal[q] BY <2>2
    <3> QED BY <3>1 DEF SafeInv, Kept, JournalInv
  <2> QED BY <2>1, <2>2
<1> QED BY <1>1 DEF JournalInv

(* The record gets its name, its permission, its result; and survives.         *)
LEMMA PublishKeeps ==
  ASSUME SafeInv, PublishRun
  PROVE  Kept'
<1>0. /\ s \in SupervisorType /\ journal \in [Slots -> Entry] /\ s.rec \in Slots
      /\ journal[s.rec].mem = 0 /\ journal[s.rec].safe = 0 /\ journal[s.rec].input \in Inputs
      /\ journal[s.rec].result = "none"
  BY DEF SafeInv, TypeOK, Kept, PublishRun, ControlInv, RecordInv, JournalInv, Writing
<1>1. s' = [s EXCEPT !.pc = "sync", !.after = "authorize"] /\ vm' = vm /\ executed' = executed
  BY DEF PublishRun
<1>2. /\ s'.pc = "sync" /\ s'.after = "authorize" /\ s'.rec = s.rec /\ s'.gen = s.gen
      /\ s'.state = s.state /\ s'.stop = s.stop /\ s'.evidence = s.evidence
  BY <1>0, <1>1 DEF SupervisorType
<1>3. /\ journal'[s.rec] = [journal[s.rec] EXCEPT !.mem = 1]
      /\ \A q \in Slots : q # s.rec => journal'[q] = journal[q]
  BY <1>0 DEF PublishRun
<1>4. /\ journal'[s.rec].mem = 1 /\ journal'[s.rec].safe = 0 /\ journal'[s.rec].result = "none"
      /\ \A q \in Slots : journal'[q].input = journal[q].input /\ journal'[q].safe = journal[q].safe
                          /\ journal'[q].result = journal[q].result
  BY <1>0, <1>3 DEF Entry
<1>5. Begun' = Begun /\ Grown BY <1>4 DEF Begun, Grown
<1>6. PrepareInv' /\ RunInv' BY <1>1, <1>5, VmKeeps DEF SameVm, SameOut, SameIn
<1>7. ControlInv'
  BY <1>2 DEF PublishRun, SafeInv, Kept, ControlInv, InRecord, Writing, Finalizing, Closing, Recovering
<1>8. RecordInv' BY <1>2, <1>4 DEF RecordInv, InRecord, Finalizing, Closing
<1>9. VerdictInv' BY <1>2 DEF VerdictInv, InRecord, Finalizing
<1>10. JournalInv'
  <2>1. /\ journal'[s.rec].safe <= journal'[s.rec].mem
        /\ journal'[s.rec].mem = 3 <=> journal'[s.rec].result # "none"
        /\ journal'[s.rec].input \in Inputs
    BY <1>0, <1>4
  <2>2. \A q \in Slots : q # s.rec => journal'[q] = journal[q] BY <1>3
  <2>3. s.rec \in Slots BY <1>0
  <2> QED BY <2>1, <2>2, <2>3, RecordKeeps
<1>11. RanInv' BY <1>1, <1>4, <1>5 DEF SafeInv, Kept, RanInv
<1>12. EndInv' BY <1>1, <1>2 DEF SafeInv, Kept, EndInv, InRecord, Closing
<1>13. AskerInv' BY <1>1, <1>2, <1>4 DEF SafeInv, Kept, AskerInv, Writing, PublishRun
<1> QED BY <1>6, <1>7, <1>8, <1>9, <1>10, <1>11, <1>12, <1>13 DEF Kept

(* The permission gets its name.                                               *)
LEMMA AuthorizeKeeps ==
  ASSUME SafeInv, Authorize
  PROVE  Kept'
<1>0. /\ s \in SupervisorType /\ journal \in [Slots -> Entry] /\ s.rec \in Slots
      /\ journal[s.rec].mem = 1 /\ journal[s.rec].safe = 1 /\ journal[s.rec].input \in Inputs
      /\ journal[s.rec].result = "none"
  BY DEF SafeInv, TypeOK, Kept, Authorize, ControlInv, RecordInv, JournalInv, Writing
<1>1. /\ s' = [s EXCEPT !.pc = "sync", !.after = "permit", !.pending = s.rec]
      /\ vm' = vm /\ executed' = executed
  BY DEF Authorize
<1>2. /\ s'.pc = "sync" /\ s'.after = "permit" /\ s'.rec = s.rec /\ s'.gen = s.gen
      /\ s'.state = s.state /\ s'.stop = s.stop /\ s'.evidence = s.evidence /\ s'.pending = s.rec
  BY <1>0, <1>1 DEF SupervisorType
<1>3. /\ journal'[s.rec] = [journal[s.rec] EXCEPT !.mem = 2]
      /\ \A q \in Slots : q # s.rec => journal'[q] = journal[q]
  BY <1>0 DEF Authorize
<1>4. /\ journal'[s.rec].mem = 2 /\ journal'[s.rec].safe = 1 /\ journal'[s.rec].result = "none"
      /\ \A q \in Slots : journal'[q].input = journal[q].input /\ journal'[q].safe = journal[q].safe
                          /\ journal'[q].result = journal[q].result
  BY <1>0, <1>3 DEF Entry
<1>5. Begun' = Begun /\ Grown BY <1>4 DEF Begun, Grown
<1>6. PrepareInv' /\ RunInv' BY <1>1, <1>5, VmKeeps DEF SameVm, SameOut, SameIn
<1>7. ControlInv'
  BY <1>2 DEF Authorize, SafeInv, Kept, ControlInv, InRecord, Writing, Finalizing, Closing, Recovering
<1>8. RecordInv' BY <1>2, <1>4 DEF RecordInv, InRecord, Finalizing, Closing
<1>9. VerdictInv' BY <1>2 DEF VerdictInv, InRecord, Finalizing
<1>10. JournalInv'
  <2>1. /\ journal'[s.rec].safe <= journal'[s.rec].mem
        /\ journal'[s.rec].mem = 3 <=> journal'[s.rec].result # "none"
        /\ journal'[s.rec].input \in Inputs
    BY <1>0, <1>4
  <2>2. \A q \in Slots : q # s.rec => journal'[q] = journal[q] BY <1>3
  <2>3. s.rec \in Slots BY <1>0
  <2> QED BY <2>1, <2>2, <2>3, RecordKeeps
<1>11. RanInv' BY <1>1, <1>4, <1>5 DEF SafeInv, Kept, RanInv
<1>12. EndInv' BY <1>1, <1>2 DEF SafeInv, Kept, EndInv, InRecord, Closing
<1>13. AskerInv' BY <1>1, <1>2, <1>4 DEF SafeInv, Kept, AskerInv, Writing, Authorize
<1> QED BY <1>6, <1>7, <1>8, <1>9, <1>10, <1>11, <1>12, <1>13 DEF Kept

(* The result gets its name.                                                   *)
LEMMA FinishKeeps ==
  ASSUME SafeInv, Finish
  PROVE  Kept'
<1>0. /\ s \in SupervisorType /\ journal \in [Slots -> Entry] /\ s.rec \in Slots
      /\ journal[s.rec].mem \in {1, 2} /\ journal[s.rec].result = "none"
      /\ s.verdict # "none" /\ (s.verdict = "interrupted_prepared" => journal[s.rec].mem = 1)
      /\ (s.verdict \in Own => s.rec \in executed) /\ journal[s.rec].safe <= journal[s.rec].mem
      /\ (s.after # "recover" => journal[s.rec].mem = 2 /\ journal[s.rec].safe = 2)
      /\ s.after \in {"recover", "acknowledge", "index"} /\ s.pc = "finish"
  BY DEF SafeInv, TypeOK, Kept, Finish, ControlInv, RecordInv, VerdictInv, JournalInv, InRecord
<1>1. /\ s' = [s EXCEPT !.pc = "sync"] /\ vm' = vm /\ executed' = executed
      /\ journal' = [journal EXCEPT ![s.rec].mem = 3, ![s.rec].result = s.verdict]
  BY <1>0 DEF Finish, Step
<1>2. /\ s'.pc = "sync" /\ s'.after = s.after /\ s'.rec = s.rec /\ s'.gen = s.gen
      /\ s'.state = s.state /\ s'.stop = s.stop /\ s'.evidence = s.evidence
      /\ s'.pending = s.pending /\ s'.verdict = s.verdict /\ s'.dirty = s.dirty
  BY <1>0, <1>1 DEF SupervisorType
<1>3. /\ journal'[s.rec] = [journal[s.rec] EXCEPT !.mem = 3, !.result = s.verdict]
      /\ \A q \in Slots : q # s.rec => journal'[q] = journal[q]
  BY <1>0, <1>1 DEF Entry
<1>4. /\ journal'[s.rec].mem = 3 /\ journal'[s.rec].result = s.verdict
      /\ journal'[s.rec].safe = journal[s.rec].safe /\ journal'[s.rec].input = journal[s.rec].input
  BY <1>0, <1>3 DEF Entry
<1>5. journal[s.rec].safe \in 0..2 /\ (s.verdict = "interrupted_prepared" => journal[s.rec].safe < 2)
  BY <1>0 DEF Entry
<1>6. Begun' = Begun
  <2>1. ASSUME NEW q \in Slots PROVE q \in Begun' <=> q \in Begun
    <3>1. CASE q # s.rec BY <1>3, <3>1 DEF Begun
    <3>2. CASE q = s.rec BY <1>0, <1>4, <1>5, <3>2 DEF Begun
    <3> QED BY <3>1, <3>2
  <2> QED BY <2>1 DEF Begun
<1>7. Grown BY <1>3, <1>4, <1>6 DEF Grown, Begun
<1>8. PrepareInv' /\ RunInv' BY <1>1, <1>7, VmKeeps DEF SameVm, SameOut, SameIn
<1>9. ControlInv'
  BY <1>0, <1>2 DEF SafeInv, Kept, ControlInv, InRecord, Writing, Finalizing, Closing, Recovering
<1>10. RecordInv' BY <1>0, <1>2, <1>4 DEF RecordInv, InRecord, Finalizing, Closing
<1>11. VerdictInv' BY <1>0, <1>2 DEF SafeInv, Kept, VerdictInv, InRecord, Finalizing
<1>12. JournalInv'
  <2>1. journal'[s.rec].safe <= 3 /\ journal[s.rec].input \in Inputs
    BY <1>0, <1>4, <1>5 DEF SafeInv, Kept, JournalInv
  <2> QED BY <1>0, <1>3, <1>4, <2>1, RecordKeeps
<1>13. RanInv' BY <1>0, <1>1, <1>3, <1>4, <1>6 DEF SafeInv, Kept, RanInv
<1>14. EndInv' BY <1>0, <1>1, <1>2 DEF SafeInv, Kept, EndInv, InRecord, Closing
<1>15. AskerInv' BY <1>0, <1>2 DEF AskerInv, Writing
<1> QED BY <1>8, <1>9, <1>10, <1>11, <1>12, <1>13, <1>14, <1>15 DEF Kept

(* What was named survives from here on.                                       *)
LEMMA SyncKeeps ==
  ASSUME SafeInv, SyncDirectory
  PROVE  Kept'
<1>0. /\ s \in SupervisorType /\ journal \in [Slots -> Entry] /\ s.rec \in Slots /\ s.pc = "sync"
      /\ s.after \in {"authorize", "permit", "recover", "acknowledge", "index"}
      /\ journal[s.rec].safe <= journal[s.rec].mem
  BY DEF SafeInv, TypeOK, Kept, SyncDirectory, ControlInv, JournalInv, InRecord
<1>1. /\ s' = [s EXCEPT !.pc = s.after, !.after = "recover"] /\ vm' = vm /\ executed' = executed
  BY DEF SyncDirectory
<1>2. /\ s'.pc = s.after /\ s'.rec = s.rec /\ s'.gen = s.gen
      /\ s'.state = s.state /\ s'.stop = s.stop /\ s'.evidence = s.evidence
      /\ s'.pending = s.pending /\ s'.verdict = s.verdict /\ s'.dirty = s.dirty
  BY <1>0, <1>1 DEF SupervisorType
<1> DEFINE n == IF Named THEN journal[s.rec].mem ELSE 0
<1>3. journal' = [journal EXCEPT ![s.rec].safe = n] BY DEF SyncDirectory
<1>4. /\ journal'[s.rec].safe = n
      /\ \A q \in Slots : q # s.rec => journal'[q] = journal[q]
      /\ \A q \in Slots : journal'[q].input = journal[q].input /\ journal'[q].mem = journal[q].mem
                          /\ journal'[q].result = journal[q].result
  BY <1>0, <1>3 DEF Entry
<1>5. journal[s.rec].mem \in 0..3 /\ journal[s.rec].safe \in 0..3 BY <1>0 DEF Entry
<1>6. n \in 0..3 /\ journal[s.rec].safe <= n /\ n <= journal[s.rec].mem BY <1>0, <1>5 DEF Named
<1>7. s.after # "recover" => n = journal[s.rec].mem
  BY <1>0 DEF SafeInv, Kept, SyncDirectory, RecordInv, Named
<1> HIDE DEF n
<1>8. Grown
  <2>1. ASSUME NEW q \in Begun PROVE q \in Begun'
    <3>1. CASE q # s.rec BY <1>4, <3>1 DEF Begun
    <3>2. CASE q = s.rec
      <4>1. journal'[s.rec].safe >= 2 BY <1>4, <1>5, <1>6, <3>2 DEF Begun
      <4> QED BY <1>0, <1>4, <3>2, <4>1 DEF Begun
    <3> QED BY <3>1, <3>2
  <2> QED BY <1>4, <2>1 DEF Grown, Begun
<1>9. Begun \subseteq Begun' BY <1>8 DEF Grown
<1>10. PrepareInv' /\ RunInv' BY <1>1, <1>8, VmKeeps DEF SameVm, SameOut, SameIn
<1>11. ControlInv'
  BY <1>0, <1>2 DEF SafeInv, Kept, ControlInv, InRecord, Writing, Finalizing, Closing, Recovering
<1>12. RecordInv'
  BY <1>0, <1>2, <1>4, <1>7 DEF SafeInv, Kept, RecordInv, InRecord, Finalizing, Closing
<1>13. VerdictInv' BY <1>0, <1>2 DEF SafeInv, Kept, VerdictInv, InRecord, Finalizing
<1>14. JournalInv' BY <1>0, <1>4, <1>6, RecordKeeps DEF SafeInv, Kept, JournalInv
<1>15. RanInv' BY <1>1, <1>4, <1>9 DEF SafeInv, Kept, RanInv
<1>16. EndInv' BY <1>0, <1>1, <1>2 DEF SafeInv, Kept, EndInv, InRecord, Closing
<1>17. AskerInv' BY <1>0, <1>1, <1>2, <1>4 DEF SafeInv, Kept, AskerInv, Writing
<1> QED BY <1>10, <1>11, <1>12, <1>13, <1>14, <1>15, <1>16, <1>17 DEF Kept

(* The result of a run in flight arrives, or its generation ends without one.  *)
LEMMA ResultKeeps ==
  ASSUME SafeInv, OnResult
  PROVE  Kept'
<1> DEFINE d == Head(vm.out).dirty
<1>0. /\ s \in SupervisorType /\ vm \in VmType /\ vm.out # <<>>
      /\ s.pc = "loop" /\ s.state = "EXECUTING" /\ s.rec \in Slots /\ s.gen > 0
      /\ s.pending = s.rec /\ s.stop # "dirty_recycle"
      /\ journal[s.rec].mem = 2 /\ journal[s.rec].safe = 2
  BY DEF SafeInv, TypeOK, Kept, OnResult, Hears, ControlInv, RecordInv, SupervisorType
<1>1. Head(vm.out).kind = "result" /\ Head(vm.out).run = s.rec BY DEF OnResult, Hears
<1>2. s.rec \in executed BY <1>0, <1>1, TailOut DEF SafeInv, Kept, RunInv
<1>3. /\ s' = [s EXCEPT !.pc = "finish", !.after = "acknowledge", !.state = "FINALIZING",
                        !.dirty = d, !.verdict = IF d THEN "dirty_recycle" ELSE "execution_result"]
      /\ vm' = [vm EXCEPT !.out = Tail(vm.out)] /\ journal' = journal /\ executed' = executed
  BY DEF OnResult, Taken
<1> HIDE DEF d
<1>4. /\ s'.pc = "finish" /\ s'.after = "acknowledge" /\ s'.state = "FINALIZING" /\ s'.dirty = d
      /\ s'.verdict = (IF d THEN "dirty_recycle" ELSE "execution_result")
      /\ s'.rec = s.rec /\ s'.gen = s.gen /\ s'.pending = s.pending /\ s'.stop = s.stop
      /\ s'.evidence = s.evidence
  BY <1>0, <1>3 DEF SupervisorType
<1>5. JournalInv' /\ RanInv' /\ Grown BY <1>3, DiskKeeps
<1>6. SameVm /\ SameOut /\ SameIn BY <1>0, <1>3 DEF SameVm, SameOut, SameIn, VmType
<1>7. PrepareInv' /\ RunInv' BY <1>3, <1>5, <1>6, VmKeeps
<1>8. ControlInv'
  BY <1>0, <1>4 DEF ControlInv, InRecord, Writing, Finalizing, Closing, Recovering
<1>9. RecordInv' BY <1>0, <1>3, <1>4 DEF RecordInv, InRecord, Finalizing, Closing
<1>10. VerdictInv' BY <1>2, <1>3, <1>4 DEF VerdictInv, InRecord, Finalizing
<1>11. EndInv' BY <1>4, <1>6 DEF SafeInv, Kept, EndInv, InRecord, Closing, SameVm
<1>12. AskerInv' BY <1>4 DEF AskerInv, Writing
<1> QED BY <1>5, <1>7, <1>8, <1>9, <1>10, <1>11, <1>12 DEF Kept

(* The generation is over; its evidence is there.                              *)
LEMMA EndKeeps ==
  ASSUME SafeInv, End
  PROVE  Kept'
<1>0. /\ s \in SupervisorType /\ s.pc = "loop" /\ s.gen > 0 /\ s.evidence /\ vm.clean
      /\ (s.pending # 0 <=> s.state = "EXECUTING") /\ (s.pending # 0 => s.pending = s.rec)
      /\ vm' = vm /\ journal' = journal /\ executed' = executed
  BY DEF SafeInv, TypeOK, Kept, End, InLoop, Over, ControlInv
<1>1. Logged(s) \in SupervisorType BY <1>0, LoggedTyped
<1>2. /\ Logged(s).gen = s.gen /\ Logged(s).pending = s.pending /\ Logged(s).stop = s.stop
      /\ Logged(s).evidence = s.evidence /\ Logged(s).state = s.state /\ Logged(s).rec = s.rec
  BY <1>0 DEF Logged, SupervisorType
<1>3. /\ s'.gen = s.gen /\ s'.pending = s.pending /\ s'.stop = s.stop
      /\ s'.evidence = s.evidence /\ s'.state = s.state
      /\ \/ s.pending = 0 /\ s'.pc = "decide"
         \/ /\ s.pending \in Slots /\ s'.rec = s.pending
            /\ s'.pc = "finish" /\ s'.after = "index" /\ s'.verdict = Reason
  <2>1. CASE s.pending = 0
    <3>1. s' = [Logged(s) EXCEPT !.pc = "decide", !.status = GenerationStatus]
      BY <2>1 DEF End, InLoop
    <3> QED BY <1>1, <1>2, <2>1, <3>1 DEF SupervisorType
  <2>2. CASE s.pending # 0
    <3>1. s' = [Logged(s) EXCEPT !.pc = "finish", !.after = "index", !.rec = s.pending,
                                 !.verdict = Reason]
      BY <2>2 DEF End, InLoop
    <3>2. s.pending \in Slots BY <1>0, <2>2 DEF SupervisorType
    <3> QED BY <1>1, <1>2, <3>1, <3>2 DEF SupervisorType
  <2> QED BY <2>1, <2>2
<1>4. s.pending # 0 => journal[s.pending].mem = 2 /\ journal[s.pending].safe = 2
  BY <1>0 DEF SafeInv, Kept, RecordInv
<1>5. s.pending # 0 => Reason \notin {"none", "interrupted_prepared", "execution_result", "dirty_recycle"}
  BY <1>0 DEF SafeInv, Kept, ControlInv, SupervisorType, Reason, Stops, Kills
<1>6. JournalInv' /\ RanInv' /\ Grown BY <1>0, DiskKeeps
<1>7. SameVm /\ SameOut /\ SameIn BY <1>0 DEF SameVm, SameOut, SameIn
<1>8. PrepareInv' /\ RunInv' BY <1>0, <1>6, <1>7, VmKeeps
<1>9. 0 \notin Slots BY DEF Slots
<1>10. ControlInv'
  BY <1>0, <1>3, <1>9 DEF SafeInv, Kept, ControlInv, InRecord, Writing, Finalizing, Closing, Recovering
<1>11. RecordInv' BY <1>0, <1>3, <1>4, <1>9 DEF RecordInv, InRecord, Finalizing, Closing
<1>12. VerdictInv' BY <1>3, <1>5, <1>9 DEF VerdictInv, Own, InRecord, Finalizing
<1>13. EndInv' BY <1>0, <1>3 DEF SafeInv, Kept, EndInv, InRecord, Closing
<1>14. AskerInv' BY <1>3 DEF AskerInv, Writing
<1> QED BY <1>6, <1>8, <1>10, <1>11, <1>12, <1>13, <1>14 DEF Kept

(* The record is indexed: the next generation may start.                       *)
LEMMA IndexKeeps ==
  ASSUME SafeInv, Index
  PROVE  Kept'
<1>0. /\ s \in SupervisorType /\ s.pc = "index" /\ s.gen > 0
      /\ vm' = vm /\ journal' = journal /\ executed' = executed
  BY DEF SafeInv, TypeOK, Kept, Index, ControlInv, Closing
<1>1. s' = [s EXCEPT !.pc = "decide", !.pending = 0, !.status = GenerationStatus,
                     !.verdict = "none", !.quarantine = s.quarantine \cup {journal[s.rec].input}]
  BY DEF Index
<1>2. /\ s'.pc = "decide" /\ s'.pending = 0 /\ s'.gen = s.gen /\ s'.stop = s.stop
      /\ s'.state = s.state /\ s'.evidence = s.evidence
  BY <1>0, <1>1 DEF SupervisorType
<1>3. JournalInv' /\ RanInv' /\ Grown BY <1>0, DiskKeeps
<1>4. SameVm /\ SameOut /\ SameIn BY <1>0 DEF SameVm, SameOut, SameIn
<1>5. PrepareInv' /\ RunInv' BY <1>0, <1>3, <1>4, VmKeeps
<1>6. ControlInv'
  BY <1>0, <1>2 DEF SafeInv, Kept, ControlInv, InRecord, Writing, Finalizing, Closing, Recovering
<1>7. RecordInv' BY <1>2 DEF RecordInv, InRecord, Finalizing, Closing
<1>8. VerdictInv' BY <1>2 DEF VerdictInv, InRecord, Finalizing
<1>9. EndInv' BY <1>0, <1>2 DEF SafeInv, Kept, EndInv, InRecord, Closing
<1>10. AskerInv' BY <1>2 DEF AskerInv, Writing
<1> QED BY <1>3, <1>5, <1>6, <1>7, <1>8, <1>9, <1>10 DEF Kept

(* A supervisor takes up a record that another one left open.                  *)
LEMMA RecoverKeeps ==
  ASSUME SafeInv, NEW r \in Slots, journal[r].mem > 0, journal[r].result = "none", s.pc = "recover",
         s' = [s EXCEPT !.pc = "finish", !.after = "recover", !.rec = r, !.verdict = Interrupted(r)],
         vm' = vm, journal' = journal, executed' = executed
  PROVE  Kept'
<1>0. /\ s \in SupervisorType /\ s.gen = 0 /\ s.pending = 0 /\ journal[r].mem \in 0..3
      /\ journal[r].mem # 3
  BY DEF SafeInv, TypeOK, Kept, ControlInv, JournalInv, Recovering, Entry
<1>1. /\ s'.pc = "finish" /\ s'.after = "recover" /\ s'.rec = r /\ s'.verdict = Interrupted(r)
      /\ s'.gen = 0 /\ s'.pending = 0 /\ s'.stop = s.stop /\ s'.state = s.state
      /\ s'.evidence = s.evidence
  BY <1>0 DEF SupervisorType
<1>2. journal[r].mem \in {1, 2} BY <1>0
<1>3. JournalInv' /\ RanInv' /\ Grown BY DiskKeeps
<1>4. SameVm /\ SameOut /\ SameIn BY DEF SameVm, SameOut, SameIn
<1>5. PrepareInv' /\ RunInv' BY <1>3, <1>4, VmKeeps
<1>6. ControlInv'
  BY <1>1 DEF SafeInv, Kept, ControlInv, InRecord, Writing, Finalizing, Closing, Recovering
<1>7. RecordInv' BY <1>1, <1>2 DEF RecordInv, InRecord, Finalizing, Closing
<1>8. VerdictInv' BY <1>1, <1>2 DEF VerdictInv, Interrupted, Own, InRecord, Finalizing
<1>9. EndInv' BY <1>1 DEF SafeInv, Kept, EndInv, InRecord, Closing
<1>10. AskerInv' BY <1>1 DEF AskerInv, Writing
<1> QED BY <1>3, <1>5, <1>6, <1>7, <1>8, <1>9, <1>10 DEF Kept

(* The worker may run what its record says.                                    *)
LEMMA PermitKeeps ==
  ASSUME SafeInv, s.pc = "permit", vm.worker # "dead",
         s' = [s EXCEPT !.pc = "loop", !.state = "EXECUTING"],
         vm' = [vm EXCEPT !.in = [kind |-> "run", run |-> s.rec]],
         journal' = journal, executed' = executed
  PROVE  Kept'
<1>0. /\ s \in SupervisorType /\ vm \in VmType /\ s.gen > 0 /\ s.rec \in Slots
      /\ s.pending = s.rec /\ s.state = "PREPARING" /\ s.stop # "dirty_recycle"
      /\ journal[s.rec].mem = 2 /\ journal[s.rec].safe = 2
  BY DEF SafeInv, TypeOK, Kept, ControlInv, RecordInv, Writing
<1>1. /\ s'.pc = "loop" /\ s'.state = "EXECUTING" /\ s'.rec = s.rec /\ s'.gen = s.gen
      /\ s'.pending = s.rec /\ s'.stop = s.stop /\ s'.evidence = s.evidence
  BY <1>0 DEF SupervisorType
<1>2. /\ vm'.worker = vm.worker /\ vm'.input = vm.input /\ vm'.run = vm.run /\ vm'.out = vm.out
      /\ vm'.in.kind = "run" /\ vm'.in.run = s.rec
      /\ vm'.line = vm.line /\ vm'.lost = vm.lost /\ vm'.clean = vm.clean
  BY <1>0 DEF VmType
<1>3. /\ vm.worker = "asking" /\ vm.input = journal[s.rec].input
      /\ \A i \in DOMAIN vm.out : vm.out[i].kind # "prepare"
  BY DEF SafeInv, Kept, AskerInv, Writing
<1>4. s.rec \in Begun /\ 0 \notin Slots
  <2>1. journal[s.rec].result = "none" BY <1>0 DEF SafeInv, Kept, JournalInv
  <2> QED BY <1>0, <2>1 DEF Begun, Slots
<1>5. JournalInv' /\ RanInv' /\ Begun' = Begun BY DiskKeeps
<1>6. ControlInv'
  BY <1>0, <1>1, <1>4 DEF ControlInv, InRecord, Writing, Finalizing, Closing, Recovering
<1>7. RecordInv' BY <1>0, <1>1 DEF RecordInv, InRecord, Finalizing, Closing
<1>8. VerdictInv' BY <1>1 DEF VerdictInv, InRecord, Finalizing
<1>9. EndInv' BY <1>1, <1>2 DEF SafeInv, Kept, EndInv, InRecord, Closing
<1>10. PrepareInv' BY <1>2, <1>3 DEF PrepareInv
<1>11. AskerInv' BY <1>1 DEF AskerInv, Writing
<1>12. RunInv' BY <1>2, <1>3, <1>4, <1>5 DEF SafeInv, Kept, RunInv
<1> QED BY <1>5, <1>6, <1>7, <1>8, <1>9, <1>10, <1>11, <1>12 DEF Kept

(* The run is over; a spoiled VM is not used again.                            *)
LEMMA AcknowledgeKeeps ==
  ASSUME SafeInv, s.pc = "acknowledge", s'.pc = "loop", s'.gen = s.gen, s'.pending = 0,
         \/ s'.state = "READY" /\ s'.stop = s.stop
         \/ s'.state = "RECYCLING" /\ s'.stop = "dirty_recycle",
         s'.evidence = s.evidence, SameVm, SameOut, SameIn, journal' = journal, executed' = executed
  PROVE  Kept'
<1>0. s.gen > 0 /\ s.state = "FINALIZING" /\ s.stop # "dirty_recycle"
  BY DEF SafeInv, Kept, ControlInv, Finalizing
<1>1. JournalInv' /\ RanInv' /\ Grown BY DiskKeeps
<1>2. PrepareInv' /\ RunInv' BY <1>1, VmKeeps
<1>3. ControlInv'
  BY <1>0 DEF ControlInv, InRecord, Writing, Finalizing, Closing, Recovering
<1>4. RecordInv' BY DEF RecordInv, InRecord, Finalizing, Closing
<1>5. VerdictInv' BY DEF VerdictInv, InRecord, Finalizing
<1>6. EndInv' BY DEF SafeInv, Kept, EndInv, InRecord, Closing, SameVm
<1>7. AskerInv' BY DEF AskerInv, Writing
<1> QED BY <1>1, <1>2, <1>3, <1>4, <1>5, <1>6, <1>7 DEF Kept

(* The next generation starts.                                                 *)
LEMMA LaunchKeeps ==
  ASSUME SafeInv, Launch
  PROVE  Kept'
<1>0. /\ s \in SupervisorType /\ s.pc = "decide" /\ s.pending = 0
      /\ journal' = journal /\ executed' = executed
  BY DEF SafeInv, TypeOK, Kept, ControlInv, Launch
<1>1. /\ s'.pc = "loop" /\ s'.gen = s.gen + 1 /\ s'.state = "STARTING" /\ s'.stop = "none"
      /\ s'.evidence = FALSE /\ s'.pending = 0
  BY <1>0 DEF Launch, SupervisorType
<1>2. s'.gen > 0 BY <1>0, <1>1, Params DEF SupervisorType
<1>3. /\ vm'.worker = "booting" /\ vm'.out = <<>> /\ vm'.in = Nothing /\ vm'.line = FALSE
      /\ vm'.lost = FALSE
  BY DEF Launch, NoVm
<1>4. JournalInv' /\ RanInv' BY <1>0, DiskKeeps
<1>5. ControlInv' BY <1>1, <1>2 DEF ControlInv, InRecord, Writing, Finalizing, Closing, Recovering
<1>6. RecordInv' BY <1>1 DEF RecordInv, InRecord, Finalizing, Closing
<1>7. VerdictInv' BY <1>1 DEF VerdictInv, InRecord, Finalizing
<1>8. EndInv' BY <1>1, <1>3 DEF EndInv, InRecord, Closing
<1>9. PrepareInv' /\ RunInv' BY <1>3 DEF PrepareInv, RunInv, Nothing
<1>10. AskerInv' BY <1>1 DEF AskerInv, Writing
<1> QED BY <1>4, <1>5, <1>6, <1>7, <1>8, <1>9, <1>10 DEF Kept


(* What a power loss leaves of a record: what is on disk or what had survived. *)
LEMMA Survives ==
  ASSUME SafeInv, PowerLoss, NEW r \in Slots
  PROVE  /\ journal'[r] \in Entry
         /\ journal'[r].safe = journal'[r].mem /\ journal'[r].safe >= journal[r].safe
         /\ journal'[r].mem <= journal[r].mem
         /\ journal'[r].mem = 3 <=> journal'[r].result # "none"
         /\ journal'[r].mem > 0 => /\ journal'[r].input = journal[r].input
                                   /\ journal'[r].campaign = journal[r].campaign
         /\ journal'[r].mem = 0 => journal'[r].campaign = 0 /\ journal'[r].input = NoInput
         /\ journal'[r].result \in {"none", journal[r].result}
<1>1. PICK kept \in SUBSET Slots :
          journal' = [q \in Slots |->
              LET e == journal[q]
                  m == IF q \in kept THEN e.mem ELSE e.safe
              IN  IF m = 0 THEN Empty
                  ELSE [e EXCEPT !.mem = m, !.safe = m, !.result = IF m = 3 THEN @ ELSE "none"]]
  BY DEF PowerLoss
<1> DEFINE e == journal[r]
           m == IF r \in kept THEN e.mem ELSE e.safe
           n == IF m = 3 THEN e.result ELSE "none"
<1>2. journal'[r] = IF m = 0 THEN Empty ELSE [e EXCEPT !.mem = m, !.safe = m, !.result = n]
  BY <1>1
<1>3. e \in Entry /\ JournalInv BY DEF SafeInv, TypeOK, Kept
<1>4. /\ e.safe <= e.mem /\ e.safe \in 0..3 /\ e.mem \in 0..3 /\ (e.mem = 3 <=> e.result # "none")
  BY <1>3 DEF JournalInv, Entry
<1>5. m \in 0..3 /\ e.safe <= m /\ m <= e.mem BY <1>4
<1>6. n \in {"none", e.result} /\ (m = 3 <=> n # "none") BY <1>4, <1>5
<1>7. n \in Verdicts \cup {"none"} BY <1>3, <1>6 DEF Entry
<1>8. Empty \in Entry BY Params DEF Empty, Entry
<1> HIDE DEF e, m, n
<1>9. CASE m = 0
  <2>1. journal'[r] = Empty BY <1>2, <1>9
  <2>2. /\ Empty.mem = 0 /\ Empty.safe = 0 /\ Empty.result = "none" /\ Empty.campaign = 0
        /\ Empty.input = NoInput
    BY DEF Empty
  <2> QED BY <1>4, <1>5, <1>8, <1>9, <2>1, <2>2 DEF e
<1>10. CASE m # 0
  <2>1. journal'[r] = [e EXCEPT !.mem = m, !.safe = m, !.result = n] BY <1>2, <1>10
  <2>2. journal'[r] \in Entry BY <1>3, <1>5, <1>7, <2>1 DEF Entry
  <2>3. /\ journal'[r].mem = m /\ journal'[r].safe = m /\ journal'[r].result = n
        /\ journal'[r].input = e.input /\ journal'[r].campaign = e.campaign
    BY <1>3, <2>1 DEF Entry
  <2> QED BY <1>4, <1>5, <1>6, <1>10, <2>2, <2>3 DEF e
<1> QED BY <1>9, <1>10

(* A power loss leaves records that are whole, and none of a run that began    *)
(* is lost.                                                                    *)
LEMMA PowerKeeps ==
  ASSUME SafeInv, PowerLoss
  PROVE  Kept' /\ journal' \in [Slots -> Entry]
<1>0. /\ journal \in [Slots -> Entry] /\ JournalInv /\ RanInv /\ executed' = executed
  BY DEF SafeInv, TypeOK, Kept, PowerLoss
<1>1. DOMAIN journal' = Slots /\ journal' = [q \in DOMAIN journal' |-> journal'[q]]
  BY DEF PowerLoss
<1>2. \A r \in Slots : journal'[r] \in Entry BY Survives
<1>3. journal' \in [Slots -> Entry] BY <1>1, <1>2
<1>4. /\ s'.pc = "down" /\ s'.gen = 0 /\ s'.pending = 0 /\ s'.stop = "none" /\ s'.evidence = FALSE
      /\ vm'.worker = "none" /\ vm'.out = <<>> /\ vm'.in = Nothing /\ vm'.line = FALSE
  BY DEF PowerLoss, Gone, Fresh, NoVm
<1>5. JournalInv'
  <2>1. ASSUME NEW r \in Slots
        PROVE  /\ journal'[r].safe <= journal'[r].mem
               /\ journal'[r].mem = 3 <=> journal'[r].result # "none"
               /\ journal'[r].mem > 0 => journal'[r].input \in Inputs
    <3>1. journal'[r].mem \in 0..3 /\ journal[r].mem \in 0..3 BY <1>0, <1>2 DEF Entry
    <3>2. /\ journal'[r].safe = journal'[r].mem /\ journal'[r].mem <= journal[r].mem
          /\ journal'[r].mem = 3 <=> journal'[r].result # "none"
          /\ journal'[r].mem > 0 => journal'[r].input = journal[r].input
      BY Survives
    <3>3. journal[r].mem > 0 => journal[r].input \in Inputs BY <1>0 DEF JournalInv
    <3> QED BY <3>1, <3>2, <3>3
  <2> QED BY <2>1 DEF JournalInv
<1>6. Begun \subseteq Begun'
  <2>1. ASSUME NEW r \in Begun PROVE r \in Begun'
    <3>1. r \in Slots /\ journal[r].safe >= 2 /\ journal[r].result # "interrupted_prepared"
      BY DEF Begun
    <3>2. /\ journal'[r].safe >= journal[r].safe /\ journal'[r].result \in {"none", journal[r].result}
      BY <3>1, Survives
    <3>3. journal'[r].safe \in 0..3 /\ journal[r].safe \in 0..3 BY <1>0, <1>2, <3>1 DEF Entry
    <3>4. journal'[r].safe >= 2 BY <3>1, <3>2, <3>3
    <3> QED BY <3>1, <3>2, <3>4 DEF Begun
  <2> QED BY <2>1
<1>7. RanInv'
  <2>1. ASSUME NEW r \in Slots, journal'[r].result \in Own PROVE r \in executed'
    <3>1. journal[r].result \in Own BY <2>1, Survives DEF Own
    <3> QED BY <1>0, <3>1 DEF RanInv
  <2> QED BY <1>0, <1>6, <2>1 DEF RanInv
<1>8. ControlInv'
  BY <1>4 DEF ControlInv, InRecord, Writing, Finalizing, Closing, Recovering
<1>9. RecordInv' /\ VerdictInv' /\ AskerInv'
  BY <1>4 DEF RecordInv, VerdictInv, AskerInv, Writing, InRecord, Finalizing, Closing
<1>10. EndInv' BY <1>4 DEF EndInv, InRecord, Closing
<1>11. PrepareInv' /\ RunInv' BY <1>4 DEF PrepareInv, RunInv, Nothing
<1> QED BY <1>3, <1>5, <1>7, <1>8, <1>9, <1>10, <1>11 DEF Kept

(* What a step of the worker or its launcher leaves to prove.                  *)
LEMMA WorkerKeeps ==
  ASSUME SafeInv, s' = s, journal' = journal, executed' = executed,
         vm'.line => vm.line \/ (vm'.worker = "dead" /\ ~vm'.lost),
         vm.line => vm'.line /\ vm'.worker = vm.worker /\ vm'.lost = vm.lost /\ vm'.clean = vm.clean,
         PrepareInv', RunInv',
         Writing /\ vm'.worker # "dead" =>
            /\ vm'.worker = vm.worker /\ vm'.in = vm.in /\ vm'.input = vm.input
            /\ \A i \in DOMAIN vm'.out : vm'.out[i].kind = "prepare" =>
                  \E j \in DOMAIN vm.out : vm.out[j].kind = "prepare"
  PROVE  Kept'
<1>1. JournalInv' /\ RanInv' BY DiskKeeps
<1>2. ControlInv'
  BY DEF SafeInv, Kept, ControlInv, InRecord, Writing, Finalizing, Closing, Recovering
<1>3. RecordInv' BY DEF SafeInv, Kept, RecordInv, InRecord, Finalizing, Closing
<1>4. VerdictInv' BY DEF SafeInv, Kept, VerdictInv, InRecord, Finalizing
<1>5. EndInv' BY DEF SafeInv, Kept, EndInv, InRecord, Closing
<1>6. AskerInv' BY DEF SafeInv, Kept, AskerInv, Writing
<1> QED BY <1>1, <1>2, <1>3, <1>4, <1>5, <1>6 DEF Kept

(* A worker that dies, whatever kills it.                                      *)
LEMMA DeathKeeps ==
  ASSUME SafeInv, s' = s, journal' = journal, executed' = executed, vm'.worker = "dead",
         vm'.out = vm.out, ~vm.line, ~vm'.line
  PROVE  Kept'
<1>1. PrepareInv' BY DEF SafeInv, Kept, PrepareInv
<1>2. RunInv' BY DEF SafeInv, Kept, RunInv
<1> QED BY <1>1, <1>2, WorkerKeeps

(* A worker that says something that is no request and no result.              *)
LEMMA SpeechKeeps ==
  ASSUME SafeInv, s' = s, journal' = journal, executed' = executed, vm.worker # "dead",
         NEW f \in Frame, f.kind \notin {"prepare", "result"}, vm'.out = Append(vm.out, f),
         \/ vm'.worker = vm.worker
         \/ vm.worker \in {"booting", "setup", "idle"} /\ vm'.worker \in {"hello", "announcing", "leaving"},
         vm'.input = vm.input, vm'.run = vm.run, vm'.in = vm.in,
         vm'.line = vm.line, vm'.lost = vm.lost, vm'.clean = vm.clean
  PROVE  Kept'
<1>0. vm \in VmType /\ PrepareInv /\ RunInv /\ AskerInv /\ EndInv BY DEF SafeInv, TypeOK, Kept
<1>1. \A i \in DOMAIN vm'.out : vm'.out[i].kind \in {"prepare", "result"} =>
          i \in DOMAIN vm.out /\ vm'.out[i] = vm.out[i]
  BY <1>0, OtherSaid
<1>2. PrepareInv' BY <1>0, <1>1 DEF PrepareInv
<1>3. RunInv'
  <2>1. /\ vm'.worker = "asking" => vm.worker = "asking"
        /\ vm'.worker = "running" => vm.worker = "running"
        /\ vm'.worker = "reporting" => vm.worker = "reporting"
    OBVIOUS
  <2>2. \A i \in DOMAIN vm'.out : vm'.out[i].kind = "result" => vm'.out[i].run \in executed
    BY <1>0, <1>1 DEF RunInv
  <2> QED BY <1>0, <2>1, <2>2, DiskKeeps DEF RunInv
<1>4. Writing => vm.worker = "asking" BY <1>0 DEF AskerInv
<1>5. ~vm.line BY <1>0 DEF EndInv
<1> QED BY <1>1, <1>2, <1>3, <1>4, <1>5, WorkerKeeps

(* A request to run an input.                                                  *)
LEMMA AskKeeps ==
  ASSUME SafeInv, Ask
  PROVE  Kept'
<1>0. /\ vm \in VmType /\ PrepareInv /\ RunInv /\ AskerInv /\ EndInv /\ executed \subseteq Slots
      /\ s' = s /\ journal' = journal /\ executed' = executed /\ vm.worker = "idle"
  BY DEF SafeInv, TypeOK, Kept, Ask, Vm
<1>1. PICK i \in Offered \ vm.avoid, m \in BOOLEAN :
          Vm([vm EXCEPT !.worker = "asking", !.input = i, !.left = IF m THEN @ - 1 ELSE @,
                        !.out = Append(@, [Msg("prepare") EXCEPT !.input = i, !.mutation = m])])
  BY DEF Ask
<1> DEFINE f == [Msg("prepare") EXCEPT !.input = i, !.mutation = m]
<1>2. i \in Inputs BY Params DEF Offered
<1>3. f \in Frame BY <1>2, PrepareFrame
<1>4. f.kind = "prepare" /\ f.input = i BY DEF Msg
<1> HIDE DEF f
<1>5. /\ vm'.worker = "asking" /\ vm'.input = i /\ vm'.out = Append(vm.out, f) /\ vm'.in = vm.in
      /\ vm'.run = vm.run /\ vm'.line = vm.line /\ vm'.lost = vm.lost /\ vm'.clean = vm.clean
  BY <1>0, <1>1 DEF Vm, VmType, f
<1>6. PrepareInv' BY <1>0, <1>2, <1>3, <1>4, <1>5, PrepareAsked
<1>7. RunInv'
  <2>1. vm.in.kind # "run" BY <1>0 DEF PrepareInv
  <2>2. \A j \in DOMAIN vm'.out : vm'.out[j].kind = "result" => vm'.out[j].run \in executed
    BY <1>0, <1>3, <1>4, <1>5, OtherSaid DEF RunInv
  <2> QED BY <1>0, <1>5, <2>1, <2>2 DEF RunInv
<1>8. ~Writing /\ ~vm.line BY <1>0 DEF AskerInv, EndInv
<1> QED BY <1>0, <1>5, <1>6, <1>7, <1>8, WorkerKeeps

(* The result of an execution.                                                 *)
LEMMA AnswerKeeps ==
  ASSUME SafeInv, Answer
  PROVE  Kept'
<1>0. /\ vm \in VmType /\ PrepareInv /\ RunInv /\ AskerInv /\ EndInv
      /\ s' = s /\ journal' = journal /\ executed' = executed /\ vm.worker = "running"
  BY DEF SafeInv, TypeOK, Kept, Answer, Vm
<1>1. PICK dirty \in BOOLEAN :
          Vm([vm EXCEPT !.worker = "reporting",
                        !.out = Append(@, [Msg("result") EXCEPT !.run = vm.run, !.dirty = dirty])])
  BY DEF Answer
<1> DEFINE f == [Msg("result") EXCEPT !.run = vm.run, !.dirty = dirty]
<1>2. f \in Frame /\ vm.run \in executed BY <1>0, ResultFrame DEF VmType, RunInv
<1>3. f.kind = "result" /\ f.run = vm.run BY DEF Msg
<1> HIDE DEF f
<1>4. /\ vm'.worker = "reporting" /\ vm'.input = vm.input /\ vm'.out = Append(vm.out, f)
      /\ vm'.in = vm.in /\ vm'.run = vm.run /\ vm'.line = vm.line /\ vm'.lost = vm.lost
      /\ vm'.clean = vm.clean
  BY <1>0, <1>1 DEF Vm, VmType, f
<1>5. \A i \in DOMAIN vm'.out : vm'.out[i] = f \/ (i \in DOMAIN vm.out /\ vm'.out[i] = vm.out[i])
  BY <1>0, <1>2, <1>4, OtherSaid
<1>6. PrepareInv' BY <1>0, <1>3, <1>4, <1>5 DEF PrepareInv
<1>7. RunInv'
  <2>1. \A i \in DOMAIN vm'.out : vm'.out[i].kind = "result" => vm'.out[i].run \in executed
    BY <1>0, <1>2, <1>3, <1>5 DEF RunInv
  <2> QED BY <1>0, <1>2, <1>4, <2>1 DEF RunInv
<1>8. ~Writing /\ ~vm.line BY <1>0 DEF AskerInv, EndInv
<1> QED BY <1>0, <1>4, <1>6, <1>7, <1>8, WorkerKeeps

(* The permission is read: the run begins.                                     *)
LEMMA BeginKeeps ==
  ASSUME SafeInv, vm.worker = "asking", vm.in.kind = "run", s' = s, journal' = journal,
         vm' = [vm EXCEPT !.in = Nothing, !.worker = "running", !.run = vm.in.run],
         executed' = executed \cup {vm.in.run}
  PROVE  Kept' /\ executed' \subseteq Slots
<1>0. /\ vm \in VmType /\ executed \subseteq Slots /\ PrepareInv /\ RunInv /\ AskerInv /\ EndInv
      /\ JournalInv /\ RanInv
  BY DEF SafeInv, TypeOK, Kept
<1>1. /\ vm'.worker = "running" /\ vm'.run = vm.in.run /\ vm'.in = Nothing /\ vm'.input = vm.input
      /\ vm'.out = vm.out /\ vm'.line = vm.line /\ vm'.lost = vm.lost /\ vm'.clean = vm.clean
  BY <1>0 DEF VmType
<1>2. vm.in.run \in Begun /\ journal[vm.in.run].input = vm.input BY <1>0 DEF RunInv
<1>3. Begun' = Begun BY DEF Begun
<1>4. ~Writing /\ ~vm.line BY <1>0 DEF AskerInv, EndInv
<1>5. JournalInv' BY <1>0 DEF JournalInv
<1>6. RanInv' BY <1>0, <1>2, <1>3 DEF RanInv
<1>7. ControlInv'
  BY DEF SafeInv, Kept, ControlInv, InRecord, Writing, Finalizing, Closing, Recovering
<1>8. RecordInv' BY DEF SafeInv, Kept, RecordInv, InRecord, Finalizing, Closing
<1>9. VerdictInv' BY DEF SafeInv, Kept, VerdictInv, InRecord, Finalizing
<1>10. EndInv' BY <1>1, <1>4, <1>0 DEF EndInv, InRecord, Closing
<1>11. PrepareInv'
  <2>1. \A i \in DOMAIN vm.out : vm.out[i].kind # "prepare" BY <1>0 DEF PrepareInv
  <2> QED BY <1>1, <2>1 DEF PrepareInv, Nothing
<1>12. AskerInv' BY <1>4 DEF AskerInv, Writing
<1>13. RunInv' BY <1>0, <1>1, <1>2 DEF RunInv
<1>14. executed' \subseteq Slots BY <1>0, <1>2 DEF Begun
<1> QED BY <1>5, <1>6, <1>7, <1>8, <1>9, <1>10, <1>11, <1>12, <1>13, <1>14 DEF Kept

(* Another answer is read.                                                     *)
LEMMA GoOnKeeps ==
  ASSUME SafeInv, vm.worker \in {"hello", "announcing", "reporting"}, s' = s, journal' = journal,
         executed' = executed, vm'.worker \in {"setup", "idle"}, vm'.in = Nothing, vm'.out = vm.out,
         vm'.line = vm.line, vm'.lost = vm.lost, vm'.clean = vm.clean
  PROVE  Kept'
<1>0. PrepareInv /\ RunInv /\ AskerInv /\ EndInv BY DEF SafeInv, Kept
<1>1. \A i \in DOMAIN vm.out : vm.out[i].kind # "prepare" BY <1>0 DEF PrepareInv
<1>2. PrepareInv' BY <1>1 DEF PrepareInv, Nothing
<1>3. RunInv' BY <1>0 DEF RunInv
<1>4. ~Writing /\ ~vm.line BY <1>0 DEF AskerInv, EndInv
<1> QED BY <1>2, <1>3, <1>4, WorkerKeeps

(* The worker reads its answer: a run begins only where one was permitted.     *)
LEMMA ReadKeeps ==
  ASSUME SafeInv, ReadAnswer
  PROVE  Kept' /\ executed' \subseteq Slots
<1> DEFINE w == [vm EXCEPT !.in = Nothing]
<1>0. /\ vm \in VmType /\ executed \subseteq Slots /\ EndInv /\ vm.worker \in Waits
      /\ s' = s /\ journal' = journal
  BY DEF SafeInv, TypeOK, Kept, ReadAnswer, Vm
<1>1. ~vm.line BY <1>0 DEF EndInv, Waits
<1>2. CASE vm.worker = "asking" /\ vm.in.kind = "run"
  <2>1. /\ vm' = [w EXCEPT !.worker = "running", !.run = vm.in.run]
        /\ executed' = executed \cup {vm.in.run}
    BY <1>2 DEF ReadAnswer, Vm
  <2>2. vm' = [vm EXCEPT !.in = Nothing, !.worker = "running", !.run = vm.in.run] BY <2>1
  <2> QED BY <1>0, <1>2, <2>1, <2>2, BeginKeeps
<1>3. CASE /\ vm.worker \in {"hello", "announcing", "reporting"} /\ executed' = executed
           /\ vm' \in {[w EXCEPT !.worker = "setup"], [w EXCEPT !.worker = "idle"],
                       [w EXCEPT !.worker = "idle", !.run = 0, !.input = NoInput]}
  <2>1. /\ vm'.worker \in {"setup", "idle"} /\ vm'.in = Nothing /\ vm'.out = vm.out
        /\ vm'.line = vm.line /\ vm'.lost = vm.lost /\ vm'.clean = vm.clean
    BY <1>0, <1>3 DEF VmType
  <2> QED BY <1>0, <1>3, <2>1, GoOnKeeps
<1>4. CASE vm' = Ended(w, "exit") /\ executed' = executed
  <2>1. vm'.worker = "dead" /\ vm'.out = vm.out /\ vm'.line = vm.line
    BY <1>0, <1>4 DEF Ended, VmType
  <2> QED BY <1>0, <1>1, <1>4, <2>1, DeathKeeps
<1>5. \/ vm.worker = "asking" /\ vm.in.kind = "run"
      \/ /\ vm.worker \in {"hello", "announcing", "reporting"} /\ executed' = executed
         /\ vm' \in {[w EXCEPT !.worker = "setup"], [w EXCEPT !.worker = "idle"],
                     [w EXCEPT !.worker = "idle", !.run = 0, !.input = NoInput]}
      \/ vm' = Ended(w, "exit") /\ executed' = executed
  BY <1>0 DEF ReadAnswer, Vm, Waits
<1> QED BY <1>2, <1>3, <1>4, <1>5

(* The other steps of the worker and its launcher.                             *)
LEMMA SayKeeps ==
  ASSUME SafeInv, Connect \/ Announce \/ Leave \/ Babble
  PROVE  Kept'
<1>0. /\ vm \in VmType /\ s' = s /\ journal' = journal /\ executed' = executed
      /\ vm.worker # "dead"
  BY DEF SafeInv, TypeOK, Connect, Announce, Leave, Babble, Vm, Alive
<1>1. PICK f \in Frame :
          /\ f.kind \notin {"prepare", "result"} /\ vm'.out = Append(vm.out, f)
          /\ \/ vm'.worker = vm.worker
             \/ /\ vm.worker \in {"booting", "setup", "idle"}
                /\ vm'.worker \in {"hello", "announcing", "leaving"}
          /\ vm'.input = vm.input /\ vm'.run = vm.run /\ vm'.in = vm.in
          /\ vm'.line = vm.line /\ vm'.lost = vm.lost /\ vm'.clean = vm.clean
  <2>1. CASE Connect
    <3>1. Msg("hello") \in Frame /\ Msg("hello").kind = "hello" BY MsgTyped DEF Msg
    <3> QED BY <1>0, <2>1, <3>1 DEF Connect, Vm, VmType
  <2>2. CASE Announce
    <3>1. Msg("ready") \in Frame /\ Msg("ready").kind = "ready" BY MsgTyped DEF Msg
    <3> QED BY <1>0, <2>2, <3>1 DEF Announce, Vm, VmType
  <2>3. CASE Leave
    <3>1. PICK c \in 0..1 :
            Vm([vm EXCEPT !.worker = "leaving", !.out = Append(@, [Msg("done") EXCEPT !.code = c])])
      BY <2>3 DEF Leave
    <3> DEFINE f == [Msg("done") EXCEPT !.code = c]
    <3>2. f \in Frame /\ f.kind = "done" BY DoneFrame DEF Msg
    <3> HIDE DEF f
    <3>3. vm' = [vm EXCEPT !.worker = "leaving", !.out = Append(vm.out, f)]
      BY <3>1 DEF Vm, f
    <3> QED BY <1>0, <2>3, <3>2, <3>3 DEF Leave, VmType
  <2>4. CASE Babble
    <3>1. Msg("bad") \in Frame /\ Msg("bad").kind = "bad" BY MsgTyped DEF Msg
    <3> QED BY <1>0, <2>4, <3>1 DEF Babble, Vm, VmType
  <2> QED BY <2>1, <2>2, <2>3, <2>4
<1> QED BY <1>0, <1>1, SpeechKeeps

(* The worker ends, one way or the other.                                      *)
LEMMA DieKeeps ==
  ASSUME SafeInv, AnswerIsLate \/ Crash \/ LauncherKills \/ LauncherDies
  PROVE  Kept'
<1>0. /\ vm \in VmType /\ EndInv /\ s' = s /\ journal' = journal /\ executed' = executed
  BY DEF SafeInv, TypeOK, Kept, AnswerIsLate, Crash, LauncherKills, LauncherDies, Vm
<1>1. vm'.worker = "dead" /\ vm'.out = vm.out /\ vm'.line = vm.line
  BY <1>0 DEF AnswerIsLate, Crash, LauncherKills, LauncherDies, Vm, Ended, VmType
<1>2. ~vm.line
  BY <1>0 DEF EndInv, AnswerIsLate, Crash, LauncherKills, LauncherDies, Alive, Waits
<1> QED BY <1>0, <1>1, <1>2, DeathKeeps

(* The launcher reports on a dead worker.                                      *)
LEMMA ReportsKeeps ==
  ASSUME SafeInv, LauncherReports
  PROVE  Kept'
<1>0. /\ vm \in VmType /\ PrepareInv /\ RunInv /\ s' = s /\ journal' = journal
      /\ executed' = executed /\ vm.worker = "dead" /\ ~vm.line /\ ~vm.lost
  BY DEF SafeInv, TypeOK, Kept, LauncherReports, Vm
<1>1. vm'.worker = "dead" /\ vm'.in = vm.in /\ vm'.out = vm.out /\ vm'.lost = vm.lost
  BY <1>0 DEF LauncherReports, Vm, VmType
<1>2. PrepareInv' BY <1>0, <1>1 DEF PrepareInv
<1>3. RunInv' BY <1>0, <1>1 DEF RunInv
<1> QED BY <1>0, <1>1, <1>2, <1>3, WorkerKeeps

-----------------------------------------------------------------------------
(* The invariant, action by action.                                            *)

(* A frame is taken, and nothing else of the VM changes.                       *)
LEMMA TakenSame ==
  ASSUME vm \in VmType, vm.out # <<>>, vm' = Taken
  PROVE  SameVm /\ SameOut /\ SameIn
  BY DEF Taken, SameVm, SameOut, SameIn, VmType

(* A frame is taken and answered, but not with a permission.                   *)
LEMMA AnsweredSame ==
  ASSUME vm \in VmType, vm.out # <<>>, NEW kind \in {"ack", "spent"}, NEW run,
         vm' = [Taken EXCEPT !.in = [kind |-> kind, run |-> run]]
  PROVE  SameVm /\ SameOut /\ SameIn
  BY DEF Taken, SameVm, SameOut, SameIn, VmType

(* The frames that are answered at once.                                       *)
LEMMA AnswerForms ==
  ASSUME SafeInv, Answering
  PROVE  /\ vm.out # <<>> /\ s.pc = "loop" /\ s.state # "EXECUTING"
         /\ UNCHANGED <<journal, world, executed>>
         /\ \/ s' = [s EXCEPT !.pc = "abort"] /\ vm' = Taken
            \/ /\ s'.pc = "loop" /\ s'.gen = s.gen /\ s'.pending = s.pending /\ s'.rec = s.rec
               /\ s'.evidence = s.evidence /\ s'.quarantine = s.quarantine
               /\ s'.state # "EXECUTING" /\ s'.stop \in {s.stop, "budget_completed"}
               /\ s'.state = s.state \/ s'.state = "STOPPING" \/ s.state \in {"STARTING", "SETUP"}
               /\ s'.stop = "dirty_recycle" => s'.state \in {"RECYCLING", "STOPPING"}
               /\ \E kind \in {"ack", "spent"} : vm' = [Taken EXCEPT !.in = [kind |-> kind, run |-> 0]]
<1>0. /\ s \in SupervisorType /\ vm.out # <<>> /\ s.pc = "loop" /\ s.state # "EXECUTING" /\ ControlInv
      /\ UNCHANGED <<journal, world, executed>>
  BY DEF SafeInv, TypeOK, Kept, Answering, OnHello, OnReady, OnPrepareSpent, OnDone, Hears
<1>1. s.stop = "dirty_recycle" => s.state \in {"RECYCLING", "STOPPING"} BY <1>0 DEF ControlInv
<1>2. ASSUME NEW t, NEW kind \in {"ack", "spent"}, Send(t, Taken, kind, 0)
      PROVE  \/ s' = [s EXCEPT !.pc = "abort"] /\ vm' = Taken
             \/ s' = t /\ vm' = [Taken EXCEPT !.in = [kind |-> kind, run |-> 0]]
  BY <1>2 DEF Send, Fail, Step
<1>3. CASE OnHello
  <2> DEFINE t == [s EXCEPT !.state = "SETUP"]
  <2>1. s.state = "STARTING" /\ Send(t, Taken, "ack", 0) BY <1>3 DEF OnHello, Hears
  <2>2. /\ t.pc = "loop" /\ t.gen = s.gen /\ t.pending = s.pending /\ t.rec = s.rec
        /\ t.evidence = s.evidence /\ t.quarantine = s.quarantine
        /\ t.state = "SETUP" /\ t.stop = s.stop
    BY <1>0 DEF SupervisorType
  <2> HIDE DEF t
  <2>3. \/ s' = [s EXCEPT !.pc = "abort"] /\ vm' = Taken
        \/ s' = t /\ vm' = [Taken EXCEPT !.in = [kind |-> "ack", run |-> 0]]
    BY <1>2, <2>1
  <2> QED BY <1>0, <1>1, <2>1, <2>2, <2>3
<1>4. CASE OnReady
  <2> DEFINE t == [s EXCEPT !.state = "READY", !.age = 1, !.wasReady = TRUE]
  <2>1. s.state = "SETUP" /\ Send(t, Taken, "ack", 0) BY <1>4 DEF OnReady, Hears
  <2>2. /\ t.pc = "loop" /\ t.gen = s.gen /\ t.pending = s.pending /\ t.rec = s.rec
        /\ t.evidence = s.evidence /\ t.quarantine = s.quarantine
        /\ t.state = "READY" /\ t.stop = s.stop
    BY <1>0 DEF SupervisorType
  <2> HIDE DEF t
  <2>3. \/ s' = [s EXCEPT !.pc = "abort"] /\ vm' = Taken
        \/ s' = t /\ vm' = [Taken EXCEPT !.in = [kind |-> "ack", run |-> 0]]
    BY <1>2, <2>1
  <2> QED BY <1>0, <1>1, <2>1, <2>2, <2>3
<1>5. CASE OnPrepareSpent
  <2> DEFINE t == [s EXCEPT !.stop = "budget_completed"]
  <2>1. s.state = "READY" /\ Send(t, Taken, "spent", 0) BY <1>5 DEF OnPrepareSpent, Hears
  <2>2. /\ t.pc = "loop" /\ t.gen = s.gen /\ t.pending = s.pending /\ t.rec = s.rec
        /\ t.evidence = s.evidence /\ t.quarantine = s.quarantine
        /\ t.state = s.state /\ t.stop = "budget_completed"
    BY <1>0 DEF SupervisorType
  <2> HIDE DEF t
  <2>3. \/ s' = [s EXCEPT !.pc = "abort"] /\ vm' = Taken
        \/ s' = t /\ vm' = [Taken EXCEPT !.in = [kind |-> "spent", run |-> 0]]
    BY <1>2, <2>1
  <2> QED BY <1>0, <1>1, <2>1, <2>2, <2>3
<1>6. CASE OnDone
  <2> DEFINE t == [s EXCEPT !.state = "STOPPING", !.done = Head(vm.out).code]
  <2>1. Send(t, Taken, "ack", 0) BY <1>6 DEF OnDone, Hears
  <2>2. /\ t.pc = "loop" /\ t.gen = s.gen /\ t.pending = s.pending /\ t.rec = s.rec
        /\ t.evidence = s.evidence /\ t.quarantine = s.quarantine
        /\ t.state = "STOPPING" /\ t.stop = s.stop
    BY <1>0 DEF SupervisorType
  <2> HIDE DEF t
  <2>3. \/ s' = [s EXCEPT !.pc = "abort"] /\ vm' = Taken
        \/ s' = t /\ vm' = [Taken EXCEPT !.in = [kind |-> "ack", run |-> 0]]
    BY <1>2, <2>1
  <2> QED BY <1>0, <1>1, <2>1, <2>2, <2>3
<1> QED BY <1>0, <1>3, <1>4, <1>5, <1>6 DEF Answering

(* The frames that are answered at once.                                       *)
LEMMA AnswersKeep ==
  ASSUME SafeInv, Answering
  PROVE  Kept'
<1>0. s \in SupervisorType /\ vm \in VmType BY DEF SafeInv, TypeOK
<1>1. vm.out # <<>> /\ s.pc = "loop" /\ s.state # "EXECUTING" /\ journal' = journal /\ executed' = executed
  BY AnswerForms
<1>2. CASE s' = [s EXCEPT !.pc = "abort"] /\ vm' = Taken
  <2>1. /\ s'.pc = "abort" /\ s'.stop = s.stop /\ s'.state = s.state /\ s'.evidence = s.evidence
    BY <1>0, <1>2 DEF SupervisorType
  <2> QED BY <1>0, <1>1, <1>2, <2>1, TakenSame, AbortKeeps
<1>3. CASE /\ s'.pc = "loop" /\ s'.gen = s.gen /\ s'.pending = s.pending /\ s'.rec = s.rec
           /\ s'.evidence = s.evidence /\ s'.state # "EXECUTING"
           /\ s'.stop = "dirty_recycle" => s'.state \in {"RECYCLING", "STOPPING"}
           /\ \E kind \in {"ack", "spent"} : vm' = [Taken EXCEPT !.in = [kind |-> kind, run |-> 0]]
  <2>1. SameVm /\ SameOut /\ SameIn BY <1>0, <1>1, <1>3, AnsweredSame
  <2> QED BY <1>1, <1>3, <2>1, LoopKeeps
<1> QED BY <1>2, <1>3, AnswerForms

(* A request to run an input.                                                  *)
LEMMA OnPrepareKeeps ==
  ASSUME SafeInv, OnPrepare
  PROVE  Kept'
<1>0. /\ s \in SupervisorType /\ vm \in VmType /\ vm.out # <<>> /\ s.pc = "loop"
      /\ Head(vm.out).kind = "prepare" /\ s.state = "READY" /\ s.stop \in {"none", "dirty_recycle"}
      /\ vm' = Taken /\ executed' = executed /\ journal \in [Slots -> Entry]
  BY DEF SafeInv, TypeOK, OnPrepare, Hears
<1>1. CASE Fail /\ journal' = journal
  <2>1. s'.pc = "abort" /\ s'.stop = s.stop /\ s'.state = s.state /\ s'.evidence = s.evidence
    BY <1>0, <1>1 DEF Fail, Step, SupervisorType
  <2> QED BY <1>0, <1>1, <2>1, TakenSame, AbortKeeps
<1>2. ASSUME NEW r \in Slots, Free(r),
             s' = [s EXCEPT !.pc = "publish", !.state = "PREPARING", !.rec = r, !.runs = @ + 1,
                            !.muts = IF Head(vm.out).mutation THEN @ + 1 ELSE @],
             journal' = [journal EXCEPT ![r] = [Empty EXCEPT !.campaign = world.boots,
                                                             !.input = Head(vm.out).input]]
      PROVE  Kept'
  <2>1. journal[r].mem = 0
    <3>1. r \notin Used BY <1>2 DEF Free, Slots
    <3> QED BY <1>0, <1>2, <3>1 DEF Used, Entry
  <2>2. s' = [s EXCEPT !.pc = "publish", !.state = "PREPARING", !.rec = r, !.runs = s'.runs,
                       !.muts = s'.muts]
    BY <1>0, <1>2 DEF SupervisorType
  <2>3. vm' = [vm EXCEPT !.out = Tail(vm.out)] BY <1>0 DEF Taken
  <2>4. journal'[r] = [Empty EXCEPT !.campaign = world.boots, !.input = Head(vm.out).input]
    BY <1>0, <1>2
  <2>5. /\ journal'[r].campaign = world.boots /\ journal'[r].input = Head(vm.out).input
        /\ journal'[r].mem = 0 /\ journal'[r].safe = 0 /\ journal'[r].result = "none"
    BY <2>4 DEF Empty
  <2>6. \A q \in Slots : q # r => journal'[q] = journal[q] BY <1>0, <1>2
  <2> QED BY <1>0, <1>2, <2>1, <2>2, <2>3, <2>5, <2>6, TakeUpKeeps
<1> QED BY <1>1, <1>2 DEF OnPrepare

(* The permission is sent, or there is nobody to send it to.                   *)
LEMMA OnPermitKeeps ==
  ASSUME SafeInv, Permit
  PROVE  Kept'
<1>0. s \in SupervisorType /\ s.pc = "permit" /\ journal' = journal /\ executed' = executed
  BY DEF SafeInv, TypeOK, Permit
<1>1. CASE Fail /\ vm' = vm
  <2>1. s'.pc = "abort" /\ s'.stop = s.stop /\ s'.state = s.state /\ s'.evidence = s.evidence
    BY <1>0, <1>1 DEF Fail, Step, SupervisorType
  <2>2. SameVm /\ SameOut /\ SameIn BY <1>1 DEF SameVm, SameOut, SameIn
  <2> QED BY <1>0, <2>1, <2>2, AbortKeeps
<1>2. CASE /\ vm.worker # "dead" /\ s' = [s EXCEPT !.pc = "loop", !.state = "EXECUTING"]
           /\ vm' = [vm EXCEPT !.in = [kind |-> "run", run |-> s.rec]]
  BY <1>0, <1>2, PermitKeeps
<1> QED BY <1>1, <1>2 DEF Permit, Send

(* The result is acknowledged, or there is nobody to send that to.             *)
LEMMA OnAcknowledgeKeeps ==
  ASSUME SafeInv, Acknowledge
  PROVE  Kept'
<1> DEFINE t == [Logged(s) EXCEPT !.pc = "loop", !.pending = 0, !.state = "READY",
                                  !.verdict = "none", !.dirty = FALSE]
           u == [t EXCEPT !.stop = "dirty_recycle", !.state = "RECYCLING",
                          !.quarantine = @ \cup {journal[s.rec].input}]
<1>0. /\ s \in SupervisorType /\ vm \in VmType /\ s.pc = "acknowledge" /\ Logged(s) \in SupervisorType
      /\ journal' = journal /\ executed' = executed
  BY LoggedTyped DEF SafeInv, TypeOK, Acknowledge
<1>1. Send(IF s.dirty THEN u ELSE t, vm, "ack", s.rec) BY DEF Acknowledge
<1>2. Logged(s).gen = s.gen /\ Logged(s).stop = s.stop /\ Logged(s).evidence = s.evidence
  BY <1>0 DEF Logged, SupervisorType
<1>3. /\ t.pc = "loop" /\ t.gen = s.gen /\ t.pending = 0 /\ t.state = "READY" /\ t.stop = s.stop
      /\ t.evidence = s.evidence
      /\ u.pc = "loop" /\ u.gen = s.gen /\ u.pending = 0 /\ u.state = "RECYCLING"
      /\ u.stop = "dirty_recycle" /\ u.evidence = s.evidence
  BY <1>0, <1>2 DEF SupervisorType
<1> HIDE DEF t, u
<1>4. CASE Fail /\ vm' = vm
  <2>1. s'.pc = "abort" /\ s'.stop = s.stop /\ s'.state = s.state /\ s'.evidence = s.evidence
    BY <1>0, <1>4 DEF Fail, Step, SupervisorType
  <2>2. SameVm /\ SameOut /\ SameIn BY <1>4 DEF SameVm, SameOut, SameIn
  <2> QED BY <1>0, <2>1, <2>2, AbortKeeps
<1>5. CASE s' \in {t, u} /\ vm' = [vm EXCEPT !.in = [kind |-> "ack", run |-> s.rec]]
  <2>1. SameVm /\ SameOut /\ SameIn BY <1>0, <1>5 DEF SameVm, SameOut, SameIn, VmType
  <2> QED BY <1>0, <1>3, <1>5, <2>1, AcknowledgeKeeps
<1> QED BY <1>1, <1>4, <1>5 DEF Send

(* A record is recovered, or found damaged.                                    *)
LEMMA OnRecoverKeeps ==
  ASSUME SafeInv, Recover
  PROVE  Kept'
<1>0. /\ s \in SupervisorType /\ s.pc = "recover" /\ vm' = vm /\ journal' = journal
      /\ executed' = executed
  BY DEF SafeInv, TypeOK, Recover
<1>1. CASE Fail
  <2>1. s'.pc = "abort" /\ s'.stop = s.stop /\ s'.state = s.state /\ s'.evidence = s.evidence
    BY <1>0, <1>1 DEF Fail, Step, SupervisorType
  <2>2. SameVm /\ SameOut /\ SameIn BY <1>0 DEF SameVm, SameOut, SameIn
  <2> QED BY <1>0, <2>1, <2>2, AbortKeeps
<1>2. ASSUME NEW r \in Open,
             s' = [s EXCEPT !.pc = "finish", !.after = "recover", !.rec = r,
                            !.verdict = Interrupted(r)]
      PROVE  Kept'
  <2>1. r \in Slots /\ journal[r].mem > 0 /\ journal[r].result = "none" BY DEF Open, Used
  <2> QED BY <1>0, <1>2, <2>1, RecoverKeeps
<1> QED BY <1>1, <1>2 DEF Recover

(* The loop of a generation.                                                   *)
LEMMA TurnKeeps ==
  ASSUME SafeInv,
         OnBadFrame \/ Drain \/ ReadEof \/ Accept \/ ReadEvidence \/ Kill \/ ParentSeen \/ EndUnclean
           \/ LauncherFailed \/ Deadline \/ CampaignDeadline \/ FrameStalls \/ KillUnconfirmed
  PROVE  Kept'
<1>0. /\ s \in SupervisorType /\ vm \in VmType /\ ControlInv /\ s.pc = "loop"
      /\ journal' = journal /\ executed' = executed
  BY DEF SafeInv, TypeOK, Kept, OnBadFrame, Drain, ReadEof, Accept, ReadEvidence, Kill, ParentSeen,
         EndUnclean, LauncherFailed, Deadline, CampaignDeadline, FrameStalls, KillUnconfirmed, InLoop, Hears
<1>1. SameVm /\ SameOut /\ SameIn
  <2>1. CASE OnBadFrame \/ Drain BY <1>0, <2>1, TakenSame DEF OnBadFrame, Drain, Hears
  <2>2. CASE Kill \/ ParentSeen
    BY <1>0, <2>2 DEF Kill, ParentSeen, StopHelper, SameVm, SameOut, SameIn, VmType
  <2>3. CASE vm' = vm BY <2>3 DEF SameVm, SameOut, SameIn
  <2> QED BY <2>1, <2>2, <2>3 DEF ReadEof, Accept, ReadEvidence, EndUnclean, LauncherFailed, Deadline,
                                  CampaignDeadline, FrameStalls, KillUnconfirmed
<1>2. CASE s' = [s EXCEPT !.pc = "abort"]
  <2>1. s'.pc = "abort" /\ s'.stop = s.stop /\ s'.state = s.state /\ s'.evidence = s.evidence
    BY <1>0, <1>2 DEF SupervisorType
  <2> QED BY <1>0, <1>1, <2>1, AbortKeeps
<1>3. CASE /\ s'.pc = "loop" /\ s'.gen = s.gen /\ s'.pending = s.pending /\ s'.rec = s.rec
           /\ s'.state = s.state /\ (s'.evidence => s.evidence \/ vm.line)
           /\ s'.stop = s.stop \/ s'.stop # "dirty_recycle"
  BY <1>0, <1>1, <1>3, LoopKeeps DEF ControlInv
<1>4. CASE OnBadFrame
  <2>1. s' = [Logged(s) EXCEPT !.stop = "worker_protocol_failure"] BY <1>4 DEF OnBadFrame
  <2>2. Logged(s) \in SupervisorType BY <1>0, LoggedTyped
  <2>3. /\ Logged(s).pc = s.pc /\ Logged(s).gen = s.gen /\ Logged(s).pending = s.pending
        /\ Logged(s).rec = s.rec /\ Logged(s).state = s.state /\ Logged(s).evidence = s.evidence
    BY <1>0 DEF Logged, SupervisorType
  <2> QED BY <1>0, <1>3, <2>1, <2>2, <2>3 DEF SupervisorType
<1>5. CASE Drain BY <1>0, <1>3, <1>5 DEF Drain
<1>6. CASE ReadEof BY <1>0, <1>2, <1>3, <1>6 DEF ReadEof, SupervisorType
<1>7. CASE Accept \/ ReadEvidence \/ Kill
  BY <1>0, <1>3, <1>7 DEF Accept, ReadEvidence, Kill, InLoop, SupervisorType
<1>8. CASE ParentSeen \/ Deadline \/ CampaignDeadline \/ FrameStalls
  <2>1. PICK stop \in Stops : s' = [s EXCEPT !.stop = stop] /\ stop # "dirty_recycle"
    BY <1>8, Known DEF ParentSeen, Deadline, CampaignDeadline, FrameStalls, InLoop
  <2> QED BY <1>0, <1>3, <2>1 DEF SupervisorType
<1>9. CASE EndUnclean \/ LauncherFailed \/ KillUnconfirmed
  BY <1>2, <1>9 DEF EndUnclean, LauncherFailed, KillUnconfirmed, InLoop
<1> QED BY <1>4, <1>5, <1>6, <1>7, <1>8, <1>9

(* Before the first generation, after the last one, and between two starts.    *)
LEMMA EdgeKeeps ==
  ASSUME SafeInv,
         Recovered \/ LoadFinding \/ LaunchFails \/ DiskFails \/ Report \/ Abort \/ Start
           \/ SupervisorDies \/ ParentDies \/ Rot
  PROVE  Kept'
<1>0. /\ s \in SupervisorType /\ vm \in VmType /\ ControlInv /\ journal' = journal
      /\ executed' = executed
  BY DEF SafeInv, TypeOK, Kept, Recovered, LoadFinding, LaunchFails, DiskFails, Report, Abort, Start,
         SupervisorDies, ParentDies, Rot
<1>1. SameVm /\ SameOut /\ SameIn
  <2>1. CASE vm' = [vm EXCEPT !.told = TRUE] BY <1>0, <2>1 DEF SameVm, SameOut, SameIn, VmType
  <2>2. CASE vm' = vm BY <2>2 DEF SameVm, SameOut, SameIn
  <2> QED BY <2>1, <2>2 DEF Recovered, LoadFinding, LaunchFails, DiskFails, Report, Abort, Start,
                            SupervisorDies, ParentDies, Rot, StopHelper
<1>2. CASE s' = [s EXCEPT !.pc = "abort"]
  <2>1. s'.pc = "abort" /\ s'.stop = s.stop /\ s'.state = s.state /\ s'.evidence = s.evidence
    BY <1>0, <1>2 DEF SupervisorType
  <2> QED BY <1>0, <1>1, <2>1, AbortKeeps
<1>3. CASE s' = s /\ SameVm /\ vm'.out = vm.out
  <2>1. JournalInv' /\ RanInv' /\ Grown BY <1>0, DiskKeeps
  <2>2. PrepareInv' /\ RunInv' BY <1>0, <1>1, <2>1, VmKeeps
  <2>3. ControlInv'
    BY <1>3 DEF SafeInv, Kept, ControlInv, InRecord, Writing, Finalizing, Closing, Recovering
  <2>4. RecordInv' BY <1>0, <1>3 DEF SafeInv, Kept, RecordInv, InRecord, Finalizing, Closing
  <2>5. VerdictInv' BY <1>0, <1>3 DEF SafeInv, Kept, VerdictInv, InRecord, Finalizing
  <2>6. EndInv' BY <1>3 DEF SafeInv, Kept, EndInv, InRecord, Closing, SameVm
  <2>7. AskerInv' BY <1>0, <1>1, <1>3 DEF SafeInv, Kept, AskerInv, Writing, SameVm, SameIn
  <2> QED BY <2>1, <2>2, <2>3, <2>4, <2>5, <2>6, <2>7 DEF Kept
<1>4. CASE Recovered \/ LoadFinding
  <2>1. s.gen = 0 /\ s.pending = 0 BY <1>0, <1>4 DEF Recovered, LoadFinding, ControlInv, Recovering
  <2>2. CASE s' = [s EXCEPT !.pc = "finding"] \/ s' = [s EXCEPT !.pc = "decide"]
    <3>1. /\ s'.pc \in {"finding", "decide"} /\ s'.gen = 0 /\ s'.pending = 0 /\ s'.stop = s.stop
          /\ s'.state = s.state /\ s'.evidence = s.evidence
      BY <1>0, <2>1, <2>2 DEF SupervisorType
    <3> QED BY <1>0, <1>1, <3>1, IdleKeeps
  <2> QED BY <1>2, <1>4, <2>2 DEF Recovered, LoadFinding, Fail, Step
<1>5. CASE LaunchFails \/ DiskFails BY <1>2, <1>5 DEF LaunchFails, DiskFails, Fail, Step
<1>6. CASE s' = Gone \/ s' = Fresh \/ Report
  <2>1. /\ s'.pc \in {"down", "recover"} /\ s'.gen = 0 /\ s'.pending = 0 /\ s'.stop = "none"
        /\ s'.evidence = FALSE
    <3>1. CASE s' = Gone BY <3>1 DEF Gone, Fresh
    <3>2. CASE s' = Fresh BY <3>2 DEF Fresh
    <3>3. CASE Report BY <3>3 DEF Report, Gone, Fresh
    <3> QED BY <1>6, <3>1, <3>2, <3>3
  <2> QED BY <1>0, <1>1, <2>1, IdleKeeps
<1>7. CASE Abort
  <2>1. CASE s' = s /\ StopHelper
    <3>1. vm'.out = vm.out BY <1>0, <2>1 DEF StopHelper, VmType
    <3> QED BY <1>1, <1>3, <2>1, <3>1
  <2> QED BY <1>6, <1>7, <2>1 DEF Abort
<1> QED BY <1>1, <1>3, <1>4, <1>5, <1>6, <1>7 DEF Start, SupervisorDies, ParentDies, Rot

(* The journal stays a journal.                                                *)
LEMMA EntryChanged ==
  ASSUME NEW e \in Entry, NEW m \in 0..3, NEW v \in Verdicts \cup {"none"}
  PROVE  /\ [e EXCEPT !.mem = m] \in Entry /\ [e EXCEPT !.safe = m] \in Entry
         /\ [e EXCEPT !.mem = m, !.result = v] \in Entry
<1> DEFINE V == Verdicts \cup {"none"}
<1>1. v \in V OBVIOUS
<1>2. Entry = [campaign : 0..MaxBoots, input : Inputs \cup {NoInput}, mem : 0..3, safe : 0..3, result : V]
  BY DEF Entry
<1> HIDE DEF V
<1> QED BY <1>1, <1>2

(* The steps that change a record.                                             *)
LEMMA JournalTyped ==
  ASSUME SafeInv, world.boots \in 0..MaxBoots,
         OnPrepare \/ PublishRun \/ Authorize \/ Finish \/ SyncDirectory \/ PowerLoss
  PROVE  journal' \in [Slots -> Entry]
<1>0. /\ s \in SupervisorType /\ vm \in VmType /\ journal \in [Slots -> Entry]
      /\ ControlInv /\ JournalInv
  BY DEF SafeInv, TypeOK, Kept
<1>1. ASSUME NEW r \in Slots, NEW e \in Entry, journal' = [journal EXCEPT ![r] = e]
      PROVE  journal' \in [Slots -> Entry]
  BY <1>0, <1>1
<1>2. CASE PublishRun
  <2>1. s.rec \in Slots BY <1>0, <1>2 DEF PublishRun, ControlInv, Writing
  <2>2. [journal[s.rec] EXCEPT !.mem = 1] \in Entry BY <1>0, <2>1 DEF Entry
  <2>3. journal' = [journal EXCEPT ![s.rec] = [journal[s.rec] EXCEPT !.mem = 1]]
    BY <1>2 DEF PublishRun
  <2> QED BY <1>1, <2>1, <2>2, <2>3
<1>3. CASE Authorize
  <2>1. s.rec \in Slots BY <1>0, <1>3 DEF Authorize, ControlInv, Writing
  <2>2. [journal[s.rec] EXCEPT !.mem = 2] \in Entry BY <1>0, <2>1 DEF Entry
  <2>3. journal' = [journal EXCEPT ![s.rec] = [journal[s.rec] EXCEPT !.mem = 2]]
    BY <1>3 DEF Authorize
  <2> QED BY <1>1, <2>1, <2>2, <2>3
<1>4. CASE Finish
  <2>1. s.rec \in Slots BY <1>0, <1>4 DEF Finish, ControlInv, InRecord
  <2>2. s.verdict \in Verdicts \cup {"none"} BY <1>0 DEF SupervisorType
  <2>3. [journal[s.rec] EXCEPT !.mem = 3, !.result = s.verdict] \in Entry
    <3>1. journal[s.rec] \in Entry /\ 3 \in 0..3 BY <1>0, <2>1
    <3> QED BY <2>2, <3>1, EntryChanged
  <2>4. CASE journal' = journal BY <1>0, <2>4
  <2>5. CASE journal' = [journal EXCEPT ![s.rec].mem = 3, ![s.rec].result = s.verdict]
    <3>1. journal' = [journal EXCEPT ![s.rec] = [journal[s.rec] EXCEPT !.mem = 3, !.result = s.verdict]]
      BY <1>0, <2>1, <2>5
    <3> QED BY <1>1, <2>1, <2>3, <3>1
  <2> QED BY <1>4, <2>4, <2>5 DEF Finish
<1>5. CASE SyncDirectory
  <2> DEFINE n == IF Named THEN journal[s.rec].mem ELSE 0
  <2>1. s.rec \in Slots BY <1>0, <1>5 DEF SyncDirectory, ControlInv, InRecord
  <2>2. n \in 0..3 BY <1>0, <2>1 DEF Entry
  <2>3. journal' = [journal EXCEPT ![s.rec] = [journal[s.rec] EXCEPT !.safe = n]]
    BY <1>5 DEF SyncDirectory
  <2> HIDE DEF n
  <2>4. [journal[s.rec] EXCEPT !.safe = n] \in Entry BY <1>0, <2>1, <2>2 DEF Entry
  <2> QED BY <1>1, <2>1, <2>3, <2>4
<1>6. CASE OnPrepare
  <2>1. Head(vm.out) \in Frame BY <1>0, <1>6, TakenTyped DEF OnPrepare, Hears
  <2>2. Empty \in Entry BY Params DEF Empty, Entry
  <2>3. [Empty EXCEPT !.campaign = world.boots, !.input = Head(vm.out).input] \in Entry
    BY <2>1, <2>2 DEF Entry, Frame
  <2> QED BY <1>0, <1>1, <1>6, <2>3 DEF OnPrepare
<1>7. CASE PowerLoss BY <1>7, PowerKeeps
<1> QED BY <1>2, <1>3, <1>4, <1>5, <1>6, <1>7

(* Starts are counted, the parent dies, a record is damaged.                   *)
LEMMA WorldTyped ==
  ASSUME world \in WorldType, Start \/ ParentDies \/ PowerLoss \/ Rot
  PROVE  world' \in WorldType
<1>1. CASE Start
  <2>1. world.boots + 1 \in 0..MaxBoots BY <1>1, Params DEF Start, WorldType
  <2>2. world' = [world EXCEPT !.boots = world.boots + 1, !.parent = TRUE] BY <1>1 DEF Start
  <2> QED BY <2>1, <2>2 DEF WorldType
<1>2. CASE ParentDies BY <1>2 DEF ParentDies, WorldType
<1>3. CASE PowerLoss BY <1>3 DEF PowerLoss, WorldType
<1>4. CASE Rot BY <1>4 DEF Rot, WorldType
<1> QED BY <1>1, <1>2, <1>3, <1>4

(* Every step keeps what the steps are proved to keep.                         *)
LEMMA KeptStep ==
  ASSUME SafeInv, Next
  PROVE  Kept' /\ executed' \subseteq Slots
<1>1. CASE Frames
  <2>1. executed' = executed
    BY <1>1 DEF Frames, OnHello, OnReady, OnPrepareSpent, OnPrepare, OnResult, OnDone, OnBadFrame, Drain, ReadEof
  <2> QED BY <1>1, <2>1, AnswersKeep, OnPrepareKeeps, ResultKeeps, TurnKeeps
          DEF Frames, Answering, SafeInv, TypeOK
<1>2. CASE Supervise \/ Deadline
  <2>1. executed' = executed
    BY <1>2 DEF Supervise, Accept, ReadEvidence, Kill, ParentSeen, End, EndUnclean, LauncherFailed, Deadline, InLoop
  <2> QED BY <1>2, <2>1, TurnKeeps, EndKeeps DEF Supervise, SafeInv, TypeOK
<1>3. CASE Records
  <2>1. executed' = executed
    BY <1>3 DEF Records, PublishRun, Authorize, Finish, SyncDirectory, Permit, Acknowledge, Index
  <2> QED BY <1>3, <2>1, PublishKeeps, AuthorizeKeeps, FinishKeeps, SyncKeeps, OnPermitKeeps,
             OnAcknowledgeKeeps, IndexKeeps DEF Records, SafeInv, TypeOK
<1>4. CASE Conduct \/ Start
  <2>1. executed' = executed
    BY <1>4 DEF Conduct, Recover, Recovered, LoadFinding, Launch, Report, Abort, Start
  <2> QED BY <1>4, <2>1, OnRecoverKeeps, EdgeKeeps, LaunchKeeps DEF Conduct, SafeInv, TypeOK
<1>5. CASE Worker \/ Launcher
  <2>1. CASE ReadAnswer BY <2>1, ReadKeeps
  <2>2. CASE ~ReadAnswer
    <3>1. executed' = executed
      BY <1>5, <2>2 DEF Worker, Launcher, Connect, Announce, Ask, Answer, Leave, AnswerIsLate, Crash, Babble,
                        LauncherKills, LauncherReports
    <3> QED BY <1>5, <2>2, <3>1, AskKeeps, AnswerKeeps, SayKeeps, DieKeeps, ReportsKeeps
            DEF Worker, Launcher, SafeInv, TypeOK
  <2> QED BY <2>1, <2>2
<1>6. CASE Mishap
  <2>1. executed' = executed
    BY <1>6 DEF Mishap, CampaignDeadline, FrameStalls, KillUnconfirmed, LaunchFails, DiskFails, LauncherDies,
                ParentDies, SupervisorDies, PowerLoss, Rot, InLoop
  <2> QED BY <1>6, <2>1, TurnKeeps, EdgeKeeps, DieKeeps, PowerKeeps DEF Mishap, SafeInv, TypeOK
<1> QED BY <1>1, <1>2, <1>3, <1>4, <1>5, <1>6 DEF Next, Supervisor

(* The supervisor's memory and the VM.                                         *)
LEMMA MemoryTyped ==
  ASSUME SafeInv, Next
  PROVE  s' \in SupervisorType /\ vm' \in VmType
<1>0. /\ s \in SupervisorType /\ vm \in VmType /\ ControlInv /\ RecordInv /\ JournalInv
  BY DEF SafeInv, TypeOK, Kept
<1>1. CASE Frames
  <2>1. CASE OnHello \/ OnReady \/ OnPrepareSpent \/ OnDone BY <1>0, <2>1, FrameTyped
  <2>2. CASE OnPrepare BY <1>0, <2>2, PrepareTyped, TakesTyped
  <2>3. CASE OnResult BY <1>0, <2>3, ResultTyped, TakesTyped
  <2>4. CASE OnBadFrame BY <1>0, <2>4, BadFrameTyped, TakesTyped
  <2>5. CASE Drain BY <1>0, <2>5, LoopTyped, TakesTyped
  <2>6. CASE ReadEof
    <3>1. vm' = vm BY <2>6 DEF ReadEof
    <3> QED BY <1>0, <2>6, <3>1, LoopTyped
  <2> QED BY <1>1, <2>1, <2>2, <2>3, <2>4, <2>5, <2>6 DEF Frames
<1>2. CASE Supervise \/ Deadline
  <2>1. CASE Kill \/ ParentSeen BY <1>0, <2>1, LoopTyped, TakesTyped
  <2>2. CASE End
    <3>1. vm' = vm BY <2>2 DEF End
    <3> QED BY <1>0, <2>2, <3>1, EndTyped
  <2>3. CASE Accept \/ ReadEvidence \/ EndUnclean \/ LauncherFailed \/ Deadline
    <3>1. vm' = vm BY <2>3 DEF Accept, ReadEvidence, EndUnclean, LauncherFailed, Deadline
    <3> QED BY <1>0, <2>3, <3>1, LoopTyped
  <2> QED BY <1>2, <2>1, <2>2, <2>3 DEF Supervise
<1>3. CASE Records
  <2>1. CASE PublishRun \/ Authorize \/ Finish \/ SyncDirectory
    <3>1. vm' = vm BY <2>1 DEF PublishRun, Authorize, Finish, SyncDirectory
    <3> QED BY <1>0, <2>1, <3>1, RecordTyped
  <2>2. CASE Permit BY <1>0, <2>2, FrameTyped
  <2>3. CASE Acknowledge BY <1>0, <2>3, AcknowledgeTyped
  <2>4. CASE Index
    <3>1. vm' = vm BY <2>4 DEF Index
    <3> QED BY <1>0, <2>4, <3>1, IndexTyped
  <2> QED BY <1>3, <2>1, <2>2, <2>3, <2>4 DEF Records
<1>4. CASE Conduct \/ Start
  <2>1. CASE Recover
    <3>1. vm' = vm BY <2>1 DEF Recover
    <3> QED BY <1>0, <2>1, <3>1, RecoverTyped
  <2>2. CASE Recovered \/ LoadFinding
    <3>1. vm' = vm BY <2>2 DEF Recovered, LoadFinding
    <3> QED BY <1>0, <2>2, <3>1, RecordTyped
  <2>3. CASE Launch BY <1>0, <2>3, LaunchTyped
  <2>4. CASE Report \/ Start
    <3>1. vm' = vm BY <2>4 DEF Report, Start
    <3> QED BY <1>0, <2>4, <3>1, BootTyped
  <2>5. CASE Abort BY <1>0, <2>5, BootTyped, TakesTyped
  <2> QED BY <1>4, <2>1, <2>2, <2>3, <2>4, <2>5 DEF Conduct
<1>5. CASE Worker \/ Launcher
  <2>1. CASE Worker
    <3>1. s' = s
      BY <2>1 DEF Worker, Connect, Announce, Ask, Answer, Leave, ReadAnswer, AnswerIsLate, Crash, Babble, Vm
    <3> QED BY <1>0, <2>1, <3>1, WorkerTyped
  <2>2. CASE Launcher
    <3>1. s' = s BY <2>2 DEF Launcher, LauncherKills, LauncherReports, Vm
    <3> QED BY <1>0, <2>2, <3>1, LauncherTyped DEF Launcher
  <2> QED BY <1>5, <2>1, <2>2
<1>6. CASE Mishap
  <2>1. CASE CampaignDeadline \/ FrameStalls \/ KillUnconfirmed
    <3>1. vm' = vm BY <2>1 DEF CampaignDeadline, FrameStalls, KillUnconfirmed
    <3> QED BY <1>0, <2>1, <3>1, LoopTyped
  <2>2. CASE LaunchFails \/ DiskFails
    <3>1. vm' = vm BY <2>2 DEF LaunchFails, DiskFails
    <3> QED BY <1>0, <2>2, <3>1, RecordTyped
  <2>3. CASE LauncherDies
    <3>1. s' = s BY <2>3 DEF LauncherDies, Vm
    <3> QED BY <1>0, <2>3, <3>1, LauncherTyped
  <2>4. CASE SupervisorDies \/ PowerLoss BY <1>0, <2>4, BootTyped, TakesTyped
  <2>5. CASE ParentDies \/ Rot BY <1>0, <2>5 DEF ParentDies, Rot
  <2> QED BY <1>6, <2>1, <2>2, <2>3, <2>4, <2>5 DEF Mishap
<1> QED BY <1>1, <1>2, <1>3, <1>4, <1>5, <1>6 DEF Next, Supervisor

(* The disk and the world.                                                     *)
LEMMA DiskTyped ==
  ASSUME SafeInv, Next
  PROVE  journal' \in [Slots -> Entry] /\ world' \in WorldType
<1>0. journal \in [Slots -> Entry] /\ world \in WorldType /\ world.boots \in 0..MaxBoots
  BY DEF SafeInv, TypeOK, WorldType
<1>1. CASE OnPrepare \/ PublishRun \/ Authorize \/ Finish \/ SyncDirectory \/ PowerLoss
  <2>1. journal' \in [Slots -> Entry] BY <1>0, <1>1, JournalTyped
  <2>2. world' = world \/ PowerLoss
    BY <1>1 DEF OnPrepare, PublishRun, Authorize, Finish, SyncDirectory
  <2> QED BY <1>0, <2>1, <2>2, WorldTyped
<1>2. CASE Start \/ ParentDies \/ Rot
  <2>1. journal' = journal BY <1>2 DEF Start, ParentDies, Rot
  <2> QED BY <1>0, <1>2, <2>1, WorldTyped
<1>3. CASE UNCHANGED <<journal, world>> BY <1>0, <1>3
<1>4. Frames => OnPrepare \/ UNCHANGED <<journal, world>>
  BY DEF Frames, OnHello, OnReady, OnPrepareSpent, OnResult, OnDone, OnBadFrame, Drain, ReadEof
<1>5. Supervise \/ Deadline => UNCHANGED <<journal, world>>
  BY DEF Supervise, Accept, ReadEvidence, Kill, ParentSeen, End, EndUnclean, LauncherFailed, Deadline, InLoop
<1>6. Records => \/ PublishRun \/ Authorize \/ Finish \/ SyncDirectory \/ UNCHANGED <<journal, world>>
  BY DEF Records, Permit, Acknowledge, Index
<1>7. Conduct => UNCHANGED <<journal, world>>
  BY DEF Conduct, Recover, Recovered, LoadFinding, Launch, Report, Abort
<1>8. Worker \/ Launcher => UNCHANGED <<journal, world>>
  BY DEF Worker, Launcher, Connect, Announce, Ask, Answer, Leave, ReadAnswer, AnswerIsLate, Crash, Babble,
         LauncherKills, LauncherReports, Vm
<1>9. Mishap => PowerLoss \/ ParentDies \/ Rot \/ UNCHANGED <<journal, world>>
  BY DEF Mishap, CampaignDeadline, FrameStalls, KillUnconfirmed, LaunchFails, DiskFails, LauncherDies,
         SupervisorDies, InLoop, Vm
<1> QED BY <1>1, <1>2, <1>3, <1>4, <1>5, <1>6, <1>7, <1>8, <1>9 DEF Next, Supervisor

(* The invariant holds at the start and is kept by every step.                 *)
LEMMA SafeInit == Init => SafeInv
<1> SUFFICES ASSUME Init PROVE SafeInv OBVIOUS
<1>1. PICK f \in Scenarios : world = [boots |-> 0, parent |-> FALSE, rot |-> FALSE, faults |-> f]
  BY DEF Init
<1>2. /\ s = Gone /\ vm = NoVm /\ journal = [r \in Slots |-> Empty] /\ executed = {} BY DEF Init
<1>3. TypeOK
  <2>1. Empty \in Entry BY Params DEF Empty, Entry
  <2>2. 0 \in 0..MaxBoots BY Params
  <2> QED BY <1>1, <1>2, <2>1, <2>2, FreshTyped DEF TypeOK
<1>4. /\ s.pc = "down" /\ s.gen = 0 /\ s.pending = 0 /\ s.stop = "none" /\ s.evidence = FALSE
      /\ vm.worker = "none" /\ vm.out = <<>> /\ vm.in = Nothing /\ vm.line = FALSE
  BY <1>2 DEF Gone, Fresh, NoVm
<1>5. ControlInv /\ RecordInv /\ VerdictInv /\ AskerInv
  BY <1>4 DEF ControlInv, RecordInv, VerdictInv, AskerInv, InRecord, Writing, Finalizing, Closing, Recovering
<1>6. JournalInv /\ RanInv BY <1>2 DEF JournalInv, RanInv, Empty, Own
<1>7. EndInv /\ PrepareInv /\ RunInv BY <1>4 DEF EndInv, PrepareInv, RunInv, InRecord, Closing, Nothing
<1> QED BY <1>3, <1>5, <1>6, <1>7 DEF SafeInv, Kept

(* The invariant is inductive.                                                 *)
LEMMA SafeStep == SafeInv /\ [Next]_vars => SafeInv'
<1> SUFFICES ASSUME SafeInv, [Next]_vars PROVE SafeInv' OBVIOUS
<1>1. CASE Next BY <1>1, KeptStep, MemoryTyped, DiskTyped DEF SafeInv, TypeOK, WorldType
<1>2. CASE UNCHANGED vars
  BY <1>2 DEF vars, SafeInv, Kept, TypeOK, WorldType, ControlInv, RecordInv, VerdictInv, JournalInv, RanInv, EndInv,
              PrepareInv, AskerInv, RunInv, InRecord, Writing, Finalizing, Closing, Recovering, Begun
<1> QED BY <1>1, <1>2

-----------------------------------------------------------------------------
(* What a campaign keeps.                                                      *)

(* The supervisor touches the socket and the launcher, never the worker.       *)
LEMMA LifeSame ==
  ASSUME vm \in VmType,
         \/ vm' = vm \/ (vm.out # <<>> /\ vm' = Taken) \/ vm' = [vm EXCEPT !.told = TRUE]
         \/ vm.out # <<>> /\ \E kind \in {"ack", "spent"} : vm' = [Taken EXCEPT !.in = [kind |-> kind, run |-> 0]]
         \/ \E kind \in {"ack", "run"} : vm' = [vm EXCEPT !.in = [kind |-> kind, run |-> s.rec]]
  PROVE  SameLife /\ (vm'.told = vm.told \/ vm' = [vm EXCEPT !.told = TRUE])
<1>1. CASE vm' = vm BY <1>1 DEF SameLife, SameOut
<1>2. CASE vm.out # <<>> /\ vm' = Taken BY <1>2 DEF Taken, SameLife, SameOut, VmType
<1>3. CASE vm' = [vm EXCEPT !.told = TRUE] BY <1>3 DEF SameLife, SameOut, VmType
<1>4. ASSUME vm.out # <<>>, NEW kind \in {"ack", "spent"},
             vm' = [Taken EXCEPT !.in = [kind |-> kind, run |-> 0]]
      PROVE  SameLife /\ vm'.told = vm.told
  BY <1>4 DEF Taken, SameLife, SameOut, VmType
<1>5. ASSUME NEW kind \in {"ack", "run"}, vm' = [vm EXCEPT !.in = [kind |-> kind, run |-> s.rec]]
      PROVE  SameLife /\ vm'.told = vm.told
  BY <1>5 DEF SameLife, SameOut, VmType
<1> QED BY <1>1, <1>2, <1>3, <1>4, <1>5

(* A step that ends the campaign, or that does not begin it yet.               *)
LEMMA CalmOutside ==
  ASSUME world'.boots = world.boots, world'.faults = world.faults, SameLife,
         \/ s'.pc \in {"abort", "down"}
         \/ s'.gen = 0 /\ s.gen = 0 /\ s.pc \notin {"down", "abort"},
         s'.pc # "down" => s.pc # "down"
  PROVE  Calm
  BY DEF Calm, Running, Avoiding

(* A turn of the loop that leaves the run in flight alone.                     *)
LEMMA CalmTurn ==
  ASSUME world' = world, SameLife, vm'.told => vm.told \/ s'.stop # "none",
         s.gen > 0, s.pc = "loop", s'.pc = "loop", s'.gen = s.gen, s'.pending = s.pending,
         s'.rec = s.rec, s'.quarantine = s.quarantine, s.stop # "none" => s'.stop # "none",
         s'.state \notin {"RECYCLING", "STOPPING"} => s.state \notin {"RECYCLING", "STOPPING"}
  PROVE  Calm
<1>1. \A r \in Slots : InFlight(r) => InFlight(r)'
  BY DEF InFlight, Writing, Finalizing, Closing, InRecord
<1> QED BY <1>1 DEF Calm, Running, Avoiding

(* The frames and the turns of the loop.                                       *)
LEMMA CalmLoop ==
  ASSUME SafeInv,
         Answering \/ OnBadFrame \/ Drain \/ ReadEof \/ Accept \/ ReadEvidence \/ Kill \/ ParentSeen
           \/ EndUnclean \/ LauncherFailed \/ Deadline \/ CampaignDeadline \/ FrameStalls \/ KillUnconfirmed
  PROVE  Calm
<1>0. /\ s \in SupervisorType /\ vm \in VmType /\ s.pc = "loop" /\ s.gen > 0 /\ world' = world
  BY AnswerForms DEF SafeInv, TypeOK, Kept, ControlInv, OnBadFrame, Drain, ReadEof, Accept, ReadEvidence, Kill,
         ParentSeen, EndUnclean, LauncherFailed, Deadline, CampaignDeadline, FrameStalls, KillUnconfirmed,
         InLoop, Hears
<1>1. SameLife /\ (vm'.told = vm.told \/ Kill \/ ParentSeen)
  <2>1. CASE Answering BY <1>0, <2>1, AnswerForms, LifeSame DEF VmType, Taken
  <2>2. CASE OnBadFrame \/ Drain BY <1>0, <2>2, LifeSame DEF OnBadFrame, Drain, Hears, VmType, Taken
  <2>3. CASE Kill \/ ParentSeen BY <1>0, <2>3, LifeSame DEF Kill, ParentSeen, StopHelper
  <2>4. CASE vm' = vm BY <1>0, <2>4, LifeSame
  <2> QED BY <2>1, <2>2, <2>3, <2>4 DEF ReadEof, Accept, ReadEvidence, EndUnclean, LauncherFailed, Deadline,
                                        CampaignDeadline, FrameStalls, KillUnconfirmed
<1>2. CASE s' = [s EXCEPT !.pc = "abort"]
  <2>1. s'.pc = "abort" BY <1>0, <1>2 DEF SupervisorType
  <2> QED BY <1>0, <1>1, <2>1, CalmOutside
<1>3. CASE Answering
  <2>1. vm'.told = vm.told
    <3>1. vm' = Taken \/ \E kind \in {"ack", "spent"} : vm' = [Taken EXCEPT !.in = [kind |-> kind, run |-> 0]]
      BY <1>3, AnswerForms
    <3> QED BY <1>0, <3>1 DEF Taken, VmType
  <2>2. s.stop # "none" => s'.stop # "none" \/ s' = [s EXCEPT !.pc = "abort"] BY <1>3, AnswerForms
  <2> QED BY <1>0, <1>1, <1>2, <1>3, <2>1, <2>2, AnswerForms, CalmTurn
<1>4. CASE OnBadFrame
  <2>1. s' = [Logged(s) EXCEPT !.stop = "worker_protocol_failure"] /\ vm' = Taken BY <1>4 DEF OnBadFrame
  <2>2. Logged(s) \in SupervisorType BY <1>0, LoggedTyped
  <2>3. /\ Logged(s).pc = s.pc /\ Logged(s).gen = s.gen /\ Logged(s).pending = s.pending
        /\ Logged(s).rec = s.rec /\ Logged(s).state = s.state /\ Logged(s).quarantine = s.quarantine
    BY <1>0 DEF Logged, SupervisorType
  <2>4. /\ s'.pc = s.pc /\ s'.gen = s.gen /\ s'.pending = s.pending /\ s'.rec = s.rec
        /\ s'.state = s.state /\ s'.quarantine = s.quarantine /\ s'.stop = "worker_protocol_failure"
    BY <2>1, <2>2, <2>3 DEF SupervisorType
  <2> QED BY <1>0, <1>1, <2>4, CalmTurn
<1>5. CASE s' = s /\ vm'.told = vm.told BY <1>0, <1>1, <1>5, CalmTurn
<1>6. CASE Drain
  <2>1. s' = s /\ vm' = Taken BY <1>6 DEF Drain
  <2>2. vm'.told = vm.told BY <1>0, <2>1 DEF Taken, VmType
  <2> QED BY <1>5, <2>1, <2>2
<1>7. CASE ReadEof \/ Accept \/ ReadEvidence
  <2>1. \/ s' = [s EXCEPT !.pc = "abort"] \/ s' = [s EXCEPT !.eof = TRUE]
        \/ s' = [s EXCEPT !.sock = TRUE] \/ s' = [s EXCEPT !.evidence = TRUE]
    BY <1>7 DEF ReadEof, Accept, ReadEvidence, InLoop
  <2>2. \/ s' = [s EXCEPT !.pc = "abort"]
        \/ /\ s'.pc = s.pc /\ s'.gen = s.gen /\ s'.pending = s.pending /\ s'.rec = s.rec
           /\ s'.state = s.state /\ s'.quarantine = s.quarantine /\ s'.stop = s.stop
    BY <1>0, <2>1 DEF SupervisorType
  <2>3. vm'.told = vm.told BY <1>7 DEF ReadEof, Accept, ReadEvidence
  <2> QED BY <1>0, <1>1, <1>2, <2>2, <2>3, CalmTurn
<1>8. CASE Kill
  <2>1. s' = [s EXCEPT !.killed = TRUE] /\ s.stop # "none" BY <1>8 DEF Kill, InLoop
  <2>2. /\ s'.pc = s.pc /\ s'.gen = s.gen /\ s'.pending = s.pending /\ s'.rec = s.rec
        /\ s'.state = s.state /\ s'.quarantine = s.quarantine /\ s'.stop = s.stop
    BY <1>0, <2>1 DEF SupervisorType
  <2> QED BY <1>0, <1>1, <2>1, <2>2, CalmTurn
<1>9. CASE ParentSeen \/ Deadline \/ CampaignDeadline \/ FrameStalls
  <2>1. PICK stop \in Stops : s' = [s EXCEPT !.stop = stop] /\ stop # "none"
    BY <1>9, Known DEF ParentSeen, Deadline, CampaignDeadline, FrameStalls, InLoop
  <2>2. /\ s'.pc = s.pc /\ s'.gen = s.gen /\ s'.pending = s.pending /\ s'.rec = s.rec
        /\ s'.state = s.state /\ s'.quarantine = s.quarantine /\ s'.stop # "none"
    BY <1>0, <2>1 DEF SupervisorType
  <2> QED BY <1>0, <1>1, <2>2, CalmTurn
<1>10. CASE EndUnclean \/ LauncherFailed \/ KillUnconfirmed
  BY <1>2, <1>10 DEF EndUnclean, LauncherFailed, KillUnconfirmed, InLoop
<1> QED BY <1>3, <1>4, <1>6, <1>7, <1>8, <1>9, <1>10

(* Outside of the loop of a generation.                                        *)
LEMMA CalmEdge ==
  ASSUME SafeInv,
         Recover \/ Recovered \/ LoadFinding \/ LaunchFails \/ DiskFails \/ Report \/ Abort
           \/ SupervisorDies \/ ParentDies \/ Rot
  PROVE  Calm
<1>0. /\ s \in SupervisorType /\ vm \in VmType /\ world'.boots = world.boots
      /\ world'.faults = world.faults
  <2>1. world' = world \/ world' = [world EXCEPT !.parent = FALSE] \/ world' = [world EXCEPT !.rot = TRUE]
    BY DEF Recover, Recovered, LoadFinding, LaunchFails, DiskFails, Report, Abort, SupervisorDies, ParentDies, Rot
  <2> QED BY <2>1 DEF SafeInv, TypeOK
<1>1. SameLife
  <2>1. vm' = vm \/ vm' = [vm EXCEPT !.told = TRUE]
    BY DEF Recover, Recovered, LoadFinding, LaunchFails, DiskFails, Report, Abort, SupervisorDies, ParentDies, Rot,
           StopHelper
  <2> QED BY <1>0, <2>1, LifeSame
<1>2. CASE s' = [s EXCEPT !.pc = "abort"] /\ s.pc # "down"
  <2>1. s'.pc = "abort" BY <1>0, <1>2 DEF SupervisorType
  <2> QED BY <1>0, <1>1, <1>2, <2>1, CalmOutside
<1>3. CASE Recover \/ Recovered \/ LoadFinding
  <2>1. s.gen = 0 /\ s.pc \in {"recover", "finding"}
    BY <1>3 DEF SafeInv, Kept, ControlInv, Recovering, Recover, Recovered, LoadFinding
  <2>2. \/ s' = [s EXCEPT !.pc = "abort"] \/ s' = [s EXCEPT !.pc = "finding"]
        \/ s' = [s EXCEPT !.pc = "decide"]
        \/ \E r \in Slots : s' = [s EXCEPT !.pc = "finish", !.after = "recover", !.rec = r,
                                           !.verdict = Interrupted(r)]
    BY <1>3 DEF Recover, Recovered, LoadFinding, Fail, Step, Open, Used
  <2>3. s'.gen = 0 /\ s'.pc # "down"
    <3>1. CASE \E pc \in {"abort", "finding", "decide"} : s' = [s EXCEPT !.pc = pc]
      BY <1>0, <2>1, <3>1 DEF SupervisorType
    <3>2. ASSUME NEW r \in Slots, s' = [s EXCEPT !.pc = "finish", !.after = "recover", !.rec = r,
                                                 !.verdict = Interrupted(r)]
          PROVE  s'.gen = 0 /\ s'.pc # "down"
      BY <1>0, <2>1, <3>2 DEF SupervisorType
    <3> QED BY <2>2, <3>1, <3>2
  <2> QED BY <1>0, <1>1, <2>1, <2>3, CalmOutside
<1>4. CASE LaunchFails \/ DiskFails BY <1>2, <1>4 DEF LaunchFails, DiskFails, Fail, Step
<1>5. CASE s'.pc = "down" BY <1>0, <1>1, <1>5, CalmOutside
<1>6. CASE Report \/ SupervisorDies
  <2>1. CASE Report BY <1>5, <2>1 DEF Report, Gone, Fresh
  <2>2. CASE SupervisorDies BY <1>5, <2>2 DEF SupervisorDies, Gone, Fresh
  <2> QED BY <1>6, <2>1, <2>2
<1>7. CASE Abort
  <2>1. s.pc = "abort" /\ (s' = s \/ s' = Gone) BY <1>7 DEF Abort
  <2>2. Gone.pc = "down" BY DEF Gone, Fresh
  <2>3. s'.pc \in {"abort", "down"} BY <2>1, <2>2
  <2> QED BY <1>0, <1>1, <2>1, <2>3, CalmOutside
<1>8. CASE (ParentDies \/ Rot) /\ vm' = vm
  <2>1. s' = s BY <1>8 DEF ParentDies, Rot
  <2>2. \A r \in Slots : InFlight(r) => InFlight(r)'
    BY <2>1 DEF InFlight, Writing, Finalizing, Closing, InRecord
  <2>3. (Running' <=> Running) /\ (Avoiding' <=> Avoiding) BY <2>1 DEF Running, Avoiding
  <2> QED BY <1>0, <1>1, <1>8, <2>1, <2>2, <2>3 DEF Calm
<1>9. ParentDies \/ Rot => vm' = vm BY DEF ParentDies, Rot
<1> QED BY <1>3, <1>4, <1>6, <1>7, <1>8, <1>9


(* A record on its way through the supervisor's hands stays in flight.         *)
LEMMA CalmRecord ==
  ASSUME SafeInv, OnPrepare \/ OnResult \/ End \/ PublishRun \/ Authorize \/ Finish \/ SyncDirectory \/ Permit
  PROVE  Calm
<1>0. /\ s \in SupervisorType /\ vm \in VmType /\ ControlInv /\ world' = world /\ s.pc # "down"
      /\ 0 \notin Slots
  <2>1. s \in SupervisorType /\ vm \in VmType /\ ControlInv /\ 0 \notin Slots
    BY DEF SafeInv, TypeOK, Kept, Slots
  <2>2. world' = world
    BY DEF OnPrepare, OnResult, End, PublishRun, Authorize, Finish, SyncDirectory, Permit, InLoop
  <2>3. s.pc # "down"
    BY DEF OnPrepare, OnResult, End, PublishRun, Authorize, Finish, SyncDirectory, Permit, InLoop, Hears
  <2> QED BY <2>1, <2>2, <2>3
<1>1. SameLife /\ vm'.told = vm.told
  <2>1. CASE OnPrepare \/ OnResult
    <3>1. vm' = Taken /\ vm.out # <<>> BY <2>1 DEF OnPrepare, OnResult, Hears
    <3>2. vm'.told = vm.told BY <1>0, <3>1 DEF Taken, VmType
    <3> QED BY <1>0, <3>1, <3>2, LifeSame
  <2>2. CASE Permit
    <3>1. vm' = vm \/ vm' = [vm EXCEPT !.in = [kind |-> "run", run |-> s.rec]] BY <2>2 DEF Permit, Send
    <3>2. vm'.told = vm.told BY <1>0, <3>1 DEF VmType
    <3> QED BY <1>0, <3>1, <3>2, LifeSame
  <2>3. CASE End \/ PublishRun \/ Authorize \/ Finish \/ SyncDirectory
    <3>1. vm' = vm BY <2>3 DEF End, PublishRun, Authorize, Finish, SyncDirectory
    <3> QED BY <1>0, <3>1, LifeSame
  <2> QED BY <2>1, <2>2, <2>3
<1>2. CASE Fail
  <2>1. s'.pc = "abort" BY <1>0, <1>2 DEF Fail, Step, SupervisorType
  <2> QED BY <1>0, <1>1, <2>1, CalmOutside
<1>3. ASSUME s'.gen = s.gen, s'.stop = s.stop, s'.quarantine = s.quarantine,
             s.pc \notin {"abort", "down", "decide"}, s'.pc # "down",
             s'.pc = "abort" \/ s'.pc = "decide" \/ s'.state = s.state
               \/ s.state \in {"READY", "EXECUTING", "PREPARING"},
             \A r \in Slots : s.gen > 0 /\ s'.pc # "abort" /\ InFlight(r) => InFlight(r)'
      PROVE  Calm
  BY <1>0, <1>1, <1>3 DEF Calm, Running, Avoiding
<1>4. CASE OnPrepare /\ ~Fail
  <2>1. PICK r \in Slots :
          s' = [s EXCEPT !.pc = "publish", !.state = "PREPARING", !.rec = r,
                         !.runs = @ + 1, !.muts = IF Head(vm.out).mutation THEN @ + 1 ELSE @]
    BY <1>4 DEF OnPrepare
  <2>2. /\ s'.gen = s.gen /\ s'.stop = s.stop /\ s'.quarantine = s.quarantine /\ s'.pc = "publish"
    BY <1>0, <2>1 DEF SupervisorType
  <2>3. s.pc = "loop" /\ s.state = "READY" /\ s.pending = 0
    BY <1>0, <1>4 DEF OnPrepare, Hears, ControlInv
  <2>4. \A q \in Slots : ~InFlight(q)
    BY <1>0, <2>3 DEF InFlight, Writing, Finalizing, Closing, InRecord
  <2> QED BY <1>3, <2>2, <2>3, <2>4
<1>5. CASE OnResult
  <2>1. /\ s' = [s EXCEPT !.pc = "finish", !.after = "acknowledge", !.state = "FINALIZING",
                          !.dirty = Head(vm.out).dirty,
                          !.verdict = IF Head(vm.out).dirty THEN "dirty_recycle" ELSE "execution_result"]
        /\ s.pc = "loop" /\ s.state = "EXECUTING"
    BY <1>5 DEF OnResult, Hears, SupervisorType
  <2>2. /\ s'.gen = s.gen /\ s'.stop = s.stop /\ s'.quarantine = s.quarantine /\ s'.pc = "finish"
        /\ s'.after = "acknowledge" /\ s'.rec = s.rec
    BY <1>0, <2>1 DEF SupervisorType
  <2>3. \A r \in Slots : InFlight(r) => InFlight(r)' BY <2>2 DEF InFlight, Finalizing, InRecord
  <2> QED BY <1>3, <2>1, <2>2, <2>3
<1>6. CASE End
  <2>1. /\ Logged(s) \in SupervisorType /\ Logged(s).gen = s.gen /\ Logged(s).stop = s.stop
        /\ Logged(s).quarantine = s.quarantine /\ Logged(s).state = s.state /\ s.pc = "loop"
        /\ s.pending # 0 => s.pending = s.rec /\ s.rec \in Slots
    BY <1>0, <1>6, LoggedTyped DEF End, InLoop, Logged, ControlInv, SupervisorType
  <2>2. CASE s.pending = 0
    <3>1. s' = [Logged(s) EXCEPT !.pc = "decide", !.status = GenerationStatus]
      BY <1>6, <2>2 DEF End, InLoop
    <3>2. /\ s'.gen = s.gen /\ s'.stop = s.stop /\ s'.quarantine = s.quarantine /\ s'.pc = "decide"
      BY <2>1, <3>1 DEF SupervisorType
    <3>3. \A q \in Slots : ~InFlight(q)
      BY <1>0, <2>1, <2>2 DEF InFlight, Writing, Finalizing, Closing, InRecord
    <3> QED BY <1>3, <2>1, <3>2, <3>3
  <2>3. CASE s.pending # 0
    <3>1. s' = [Logged(s) EXCEPT !.pc = "finish", !.after = "index", !.rec = s.pending,
                                 !.verdict = Reason]
      BY <1>6, <2>3 DEF End, InLoop
    <3>2. /\ s'.gen = s.gen /\ s'.stop = s.stop /\ s'.quarantine = s.quarantine /\ s'.pc = "finish"
          /\ s'.after = "index" /\ s'.rec = s.rec /\ s'.state = s.state
      BY <2>1, <2>3, <3>1 DEF SupervisorType
    <3>3. \A r \in Slots : InFlight(r) => InFlight(r)' BY <3>2 DEF InFlight, Closing, InRecord
    <3> QED BY <1>3, <2>1, <3>2, <3>3
  <2> QED BY <2>2, <2>3
<1>7. CASE PublishRun \/ Authorize
  <2>1. \/ s.pc = "publish" /\ s' = [s EXCEPT !.pc = "sync", !.after = "authorize"]
        \/ s.pc = "authorize" /\ s' = [s EXCEPT !.pc = "sync", !.after = "permit", !.pending = s.rec]
    BY <1>7 DEF PublishRun, Authorize
  <2>2. /\ s'.gen = s.gen /\ s'.stop = s.stop /\ s'.quarantine = s.quarantine /\ s'.pc = "sync"
        /\ s'.after \in {"authorize", "permit"} /\ s'.rec = s.rec /\ s'.state = s.state
    <3>1. CASE s' = [s EXCEPT !.pc = "sync", !.after = "authorize"] BY <1>0, <3>1 DEF SupervisorType
    <3>2. CASE s' = [s EXCEPT !.pc = "sync", !.after = "permit", !.pending = s.rec]
      BY <1>0, <3>2 DEF SupervisorType
    <3> QED BY <2>1, <3>1, <3>2
  <2>3. \A r \in Slots : InFlight(r) => InFlight(r)' BY <2>2 DEF InFlight, Writing
  <2> QED BY <1>3, <2>1, <2>2, <2>3
<1>8. CASE Finish
  <2>1. /\ s.pc = "finish" /\ s.after \in {"recover", "acknowledge", "index"}
        /\ \/ s' = [s EXCEPT !.pc = "sync"] \/ s' = [s EXCEPT !.pc = s.after] \/ s' = [s EXCEPT !.pc = "abort"]
    BY <1>0, <1>8 DEF Finish, Step, ControlInv
  <2>2. /\ s'.gen = s.gen /\ s'.stop = s.stop /\ s'.quarantine = s.quarantine
        /\ s'.pc \in {"sync", s.after, "abort"}
        /\ s'.after = s.after /\ s'.rec = s.rec /\ s'.state = s.state
    BY <1>0, <2>1 DEF SupervisorType
  <2>3. \A r \in Slots : s'.pc # "abort" /\ InFlight(r) => InFlight(r)'
    BY <2>1, <2>2 DEF InFlight, Finalizing, Closing, InRecord, Writing
  <2> QED BY <1>3, <2>1, <2>2, <2>3
<1>9. CASE SyncDirectory
  <2>1. /\ s.pc = "sync" /\ s.after \in {"authorize", "permit", "recover", "acknowledge", "index"}
        /\ s' = [s EXCEPT !.pc = s.after, !.after = "recover"]
    BY <1>0, <1>9 DEF SyncDirectory, ControlInv
  <2>2. /\ s'.gen = s.gen /\ s'.stop = s.stop /\ s'.quarantine = s.quarantine /\ s'.pc = s.after
        /\ s'.rec = s.rec /\ s'.state = s.state
    BY <1>0, <2>1 DEF SupervisorType
  <2>3. \A r \in Slots : InFlight(r) => InFlight(r)'
    BY <2>1, <2>2 DEF InFlight, Finalizing, Closing, InRecord, Writing
  <2> QED BY <1>3, <2>1, <2>2, <2>3
<1>10. CASE Permit /\ ~Fail
  <2>1. s.pc = "permit" /\ s' = [s EXCEPT !.pc = "loop", !.state = "EXECUTING"]
    BY <1>10 DEF Permit, Send
  <2>2. s.state = "PREPARING" /\ s.pending = s.rec BY <1>0, <2>1 DEF ControlInv, Writing
  <2>3. /\ s'.gen = s.gen /\ s'.stop = s.stop /\ s'.quarantine = s.quarantine /\ s'.pc = "loop"
        /\ s'.rec = s.rec /\ s'.pending = s.pending
    BY <1>0, <2>1 DEF SupervisorType
  <2>4. \A r \in Slots : InFlight(r) => InFlight(r)' BY <2>2, <2>3 DEF InFlight
  <2> QED BY <1>3, <2>1, <2>2, <2>3, <2>4
<1> QED BY <1>2, <1>4, <1>5, <1>6, <1>7, <1>8, <1>9, <1>10

(* A run is over: its record is final, and an input that spoiled or lost its   *)
(* VM is put aside.                                                            *)
LEMMA CalmOver ==
  ASSUME SafeInv, Acknowledge \/ Index
  PROVE  Calm
<1>0. /\ s \in SupervisorType /\ vm \in VmType /\ ControlInv /\ RecordInv /\ VerdictInv
      /\ world' = world /\ s.pc \in {"acknowledge", "index"} /\ s.rec \in Slots /\ s.gen > 0
      /\ journal[s.rec].safe = 3 /\ journal[s.rec].result = s.verdict
  BY DEF SafeInv, TypeOK, Kept, Acknowledge, Index, ControlInv, RecordInv, Finalizing, Closing
<1>1. SameLife /\ vm'.told = vm.told
  <2>1. CASE Acknowledge
    <3>1. vm' = vm \/ vm' = [vm EXCEPT !.in = [kind |-> "ack", run |-> s.rec]]
      BY <2>1 DEF Acknowledge, Send
    <3>2. vm'.told = vm.told BY <1>0, <3>1 DEF VmType
    <3> QED BY <1>0, <3>1, <3>2, LifeSame
  <2>2. CASE Index
    <3>1. vm' = vm BY <2>2 DEF Index
    <3> QED BY <1>0, <3>1, LifeSame
  <2> QED BY <2>1, <2>2
<1>2. \A r \in Slots : InFlight(r) => r = s.rec BY DEF InFlight
<1>3. CASE Index
  <2>1. s' = [s EXCEPT !.pc = "decide", !.pending = 0, !.status = GenerationStatus,
                       !.verdict = "none", !.quarantine = s.quarantine \cup {journal[s.rec].input}]
    BY <1>3 DEF Index
  <2>2. /\ s'.pc = "decide" /\ s'.gen = s.gen /\ s'.stop = s.stop
        /\ s'.quarantine = s.quarantine \cup {journal[s.rec].input}
    BY <1>0, <2>1 DEF SupervisorType
  <2> QED BY <1>0, <1>1, <1>2, <2>2 DEF Calm, Running, Avoiding
<1>4. CASE Acknowledge
  <2> DEFINE t == [Logged(s) EXCEPT !.pc = "loop", !.pending = 0, !.state = "READY",
                                    !.verdict = "none", !.dirty = FALSE]
             u == [t EXCEPT !.stop = "dirty_recycle", !.state = "RECYCLING",
                            !.quarantine = t.quarantine \cup {journal[s.rec].input}]
  <2>1. Send(IF s.dirty THEN u ELSE t, vm, "ack", s.rec) BY <1>4 DEF Acknowledge
  <2>2. /\ Logged(s) \in SupervisorType /\ Logged(s).gen = s.gen /\ Logged(s).stop = s.stop
        /\ Logged(s).quarantine = s.quarantine
    BY <1>0, LoggedTyped DEF Logged, SupervisorType
  <2>3. /\ t.pc = "loop" /\ t.gen = s.gen /\ t.state = "READY" /\ t.stop = s.stop
        /\ t.quarantine = s.quarantine
        /\ u.pc = "loop" /\ u.gen = s.gen /\ u.state = "RECYCLING" /\ u.stop = "dirty_recycle"
        /\ u.quarantine = s.quarantine \cup {journal[s.rec].input}
    BY <2>2 DEF SupervisorType
  <2> HIDE DEF t, u
  <2>4. s.state = "FINALIZING" /\ (~s.dirty => s.verdict = "execution_result")
    BY <1>0, <1>4 DEF ControlInv, VerdictInv, Finalizing, Acknowledge
  <2>5. CASE Fail
    <3>1. s'.pc = "abort" BY <1>0, <2>5 DEF Fail, Step, SupervisorType
    <3> QED BY <1>0, <1>1, <3>1, CalmOutside
  <2>6. CASE s' = u BY <1>0, <1>1, <1>2, <2>3, <2>6 DEF Calm, Running, Avoiding
  <2>7. CASE s' = t /\ ~s.dirty
    <3>1. ~Poison(s.rec) BY <1>0, <2>4, <2>7 DEF Poison
    <3> QED BY <1>0, <1>1, <1>2, <1>4, <2>3, <2>4, <2>7, <3>1 DEF Calm, Running, Avoiding, Acknowledge
  <2> QED BY <2>1, <2>5, <2>6, <2>7 DEF Send
<1> QED BY <1>3, <1>4

(* All steps of the supervisor but the start of a generation are such.         *)
LEMMA CalmStep ==
  ASSUME SafeInv, Acts \/ Harms, ~Launch
  PROVE  Calm
  BY CalmLoop, CalmEdge, CalmRecord, CalmOver
     DEF Acts, Harms, Supervisor, Frames, Supervise, Records, Conduct, Answering

(* What a step on disk does to the records.                                    *)
LEMMA DiskStep ==
  ASSUME SafeInv, PublishRun \/ Authorize \/ Finish \/ SyncDirectory
  PROVE  /\ s.rec \in Slots
         /\ \A q \in Slots :
               /\ q # s.rec => journal'[q] = journal[q]
               /\ journal'[q].campaign = journal[q].campaign /\ journal'[q].input = journal[q].input
               /\ journal[q].safe = 3 => journal'[q].safe = 3
               /\ journal'[q].result = journal[q].result
                  \/ (q = s.rec /\ journal[q].result = "none" /\ journal[q].safe # 3)
         /\ journal'[s.rec].result = journal[s.rec].result \/ s'.pc = "sync"
<1>0. /\ journal \in [Slots -> Entry] /\ JournalInv /\ s.rec \in Slots /\ s \in SupervisorType
  BY DEF SafeInv, TypeOK, Kept, ControlInv, PublishRun, Authorize, Finish, SyncDirectory, Writing, InRecord
<1>1. CASE PublishRun \/ Authorize
  <2>1. journal' = [journal EXCEPT ![s.rec].mem = 1] \/ journal' = [journal EXCEPT ![s.rec].mem = 2]
    BY <1>1 DEF PublishRun, Authorize
  <2>2. \A q \in Slots : q # s.rec => journal'[q] = journal[q] BY <1>0, <2>1
  <2>3. \A q \in Slots : /\ journal'[q].campaign = journal[q].campaign /\ journal'[q].input = journal[q].input
                         /\ journal'[q].safe = journal[q].safe /\ journal'[q].result = journal[q].result
    BY <1>0, <2>1 DEF Entry
  <2> QED BY <1>0, <2>2, <2>3
<1>2. CASE Finish
  <2>1. /\ journal[s.rec].mem < 3 /\ journal[s.rec].mem \in 0..3 /\ journal[s.rec].safe \in 0..3
        /\ journal[s.rec].safe <= journal[s.rec].mem /\ journal[s.rec].result = "none"
    BY <1>0, <1>2 DEF SafeInv, Kept, RecordInv, JournalInv, Finish, Entry
  <2>2. /\ journal' = [journal EXCEPT ![s.rec].mem = 3, ![s.rec].result = s.verdict]
        /\ s' = [s EXCEPT !.pc = "sync"]
    BY <1>2, <2>1 DEF Finish, Step
  <2>3. /\ \A q \in Slots : q # s.rec => journal'[q] = journal[q]
        /\ s'.pc = "sync"
    BY <1>0, <2>2 DEF SupervisorType
  <2>4. journal'[s.rec] = [journal[s.rec] EXCEPT !.mem = 3, !.result = s.verdict] BY <1>0, <2>2
  <2>5. /\ journal'[s.rec].campaign = journal[s.rec].campaign
        /\ journal'[s.rec].input = journal[s.rec].input /\ journal'[s.rec].safe = journal[s.rec].safe
    BY <1>0, <2>4 DEF Entry
  <2>6. journal[s.rec].safe # 3 BY <2>1
  <2> QED BY <1>0, <2>1, <2>3, <2>5, <2>6
<1>3. CASE SyncDirectory
  <2> DEFINE n == IF Named THEN journal[s.rec].mem ELSE 0
  <2>1. journal' = [journal EXCEPT ![s.rec].safe = n] BY <1>3 DEF SyncDirectory
  <2>2. journal[s.rec].safe = 3 => n = 3
    BY <1>0 DEF Named, JournalInv, Entry
  <2> HIDE DEF n
  <2>3. \A q \in Slots : q # s.rec => journal'[q] = journal[q] BY <1>0, <2>1
  <2>4. \A q \in Slots : /\ journal'[q].campaign = journal[q].campaign /\ journal'[q].input = journal[q].input
                         /\ journal'[q].result = journal[q].result
    BY <1>0, <2>1 DEF Entry
  <2>5. journal'[s.rec].safe = n BY <1>0, <2>1 DEF Entry
  <2> QED BY <1>0, <2>2, <2>3, <2>4, <2>5
<1> QED BY <1>1, <1>2, <1>3

(* What OnPrepare does when it takes a request up.                             *)
LEMMA TakesUp ==
  ASSUME SafeInv, OnPrepare, ~Fail
  PROVE  \E r \in Slots :
            /\ Free(r) /\ s'.pc = "publish" /\ s'.rec = r /\ s'.gen = s.gen /\ s'.quarantine = s.quarantine
            /\ s.pc = "loop" /\ s.state = "READY" /\ s.gen > 0 /\ s.pending = 0
            /\ journal'[r].campaign = world.boots /\ journal'[r].input = Head(vm.out).input
            /\ journal'[r].mem = 0 /\ journal'[r].result = "none"
            /\ \A q \in Slots : q # r => journal'[q] = journal[q]
            /\ \A q \in Slots : ~InFlight(q)
            /\ Head(vm.out).input \in Inputs /\ Head(vm.out).kind = "prepare" /\ vm.out # <<>>
<1>0. /\ s \in SupervisorType /\ vm \in VmType /\ journal \in [Slots -> Entry] /\ ControlInv /\ PrepareInv
      /\ s.pc = "loop" /\ s.state = "READY" /\ vm.out # <<>> /\ Head(vm.out).kind = "prepare"
  BY DEF SafeInv, TypeOK, Kept, OnPrepare, Hears
<1>1. PICK r \in Slots :
        /\ Free(r)
        /\ s' = [s EXCEPT !.pc = "publish", !.state = "PREPARING", !.rec = r,
                          !.runs = @ + 1, !.muts = IF Head(vm.out).mutation THEN @ + 1 ELSE @]
        /\ journal' = [journal EXCEPT ![r] = [Empty EXCEPT !.campaign = world.boots,
                                                           !.input = Head(vm.out).input]]
  BY DEF OnPrepare
<1>2. s'.pc = "publish" /\ s'.rec = r /\ s'.gen = s.gen /\ s'.quarantine = s.quarantine
  BY <1>0, <1>1 DEF SupervisorType
<1>3. s.gen > 0 /\ s.pending = 0 BY <1>0 DEF ControlInv
<1>4. journal'[r] = [Empty EXCEPT !.campaign = world.boots, !.input = Head(vm.out).input]
  BY <1>0, <1>1
<1>5. /\ journal'[r].campaign = world.boots /\ journal'[r].input = Head(vm.out).input
      /\ journal'[r].mem = 0 /\ journal'[r].result = "none"
  BY <1>4 DEF Empty
<1>6. \A q \in Slots : q # r => journal'[q] = journal[q] BY <1>0, <1>1
<1>7. 0 \notin Slots BY DEF Slots
<1>8. \A q \in Slots : ~InFlight(q)
  BY <1>0, <1>3, <1>7 DEF InFlight, Writing, Finalizing, Closing, InRecord
<1>9. Head(vm.out).input \in Inputs BY <1>0, TailOut DEF PrepareInv
<1> QED BY <1>0, <1>1, <1>2, <1>3, <1>5, <1>6, <1>8, <1>9

(* The steps that change no record.                                            *)
LEMMA ActsOnDisk ==
  ASSUME Acts \/ Harms, ~(PublishRun \/ Authorize \/ Finish \/ SyncDirectory \/ OnPrepare)
  PROVE  journal' = journal
<1>1. Frames => OnPrepare \/ journal' = journal
  BY DEF Frames, OnHello, OnReady, OnPrepareSpent, OnResult, OnDone, OnBadFrame, Drain, ReadEof
<1>2. Supervise \/ Deadline => journal' = journal
  BY DEF Supervise, Accept, ReadEvidence, Kill, ParentSeen, End, EndUnclean, LauncherFailed, Deadline, InLoop
<1>3. Records => PublishRun \/ Authorize \/ Finish \/ SyncDirectory \/ journal' = journal
  BY DEF Records, Permit, Acknowledge, Index
<1>4. Conduct => journal' = journal
  BY DEF Conduct, Recover, Recovered, LoadFinding, Launch, Report, Abort
<1>5. Harms => journal' = journal
  BY DEF Harms, CampaignDeadline, FrameStalls, KillUnconfirmed, LaunchFails, DiskFails, ParentDies,
         SupervisorDies, Rot, InLoop
<1> QED BY <1>1, <1>2, <1>3, <1>4, <1>5 DEF Acts, Supervisor

(* The steps of the worker and of its launcher.                                *)
LEMMA WorkerApart ==
  ASSUME Worker \/ Launcher \/ LauncherDies
  PROVE  s' = s /\ journal' = journal /\ world' = world
  BY DEF Worker, Launcher, Connect, Announce, Ask, Answer, Leave, ReadAnswer, AnswerIsLate, Crash, Babble,
         LauncherKills, LauncherReports, LauncherDies, Vm

(* All steps.                                                                  *)
LEMMA Steps ==
  Next => \/ Acts \/ Harms \/ Start \/ PowerLoss
          \/ Worker \/ Launcher \/ LauncherDies
  BY DEF Next, Acts, Harms, Mishap

(* A calm step that keeps the records of runs as they are.                     *)
LEMMA CampaignCalm ==
  ASSUME CampaignInv, Calm,
         \A q \in Slots : /\ journal'[q].campaign = journal[q].campaign
                          /\ journal'[q].input = journal[q].input
                          /\ journal[q].safe = 3 => journal'[q].safe = 3
  PROVE  CampaignInv'
<1>1. world'.boots = world.boots BY DEF Calm
<1>2. \A r \in Slots : /\ journal'[r].campaign <= world'.boots
                       /\ journal'[r].input # NoInput => journal'[r].campaign > 0
  BY <1>1 DEF CampaignInv
<1>3. s'.pc # "down" => world'.boots > 0 BY <1>1 DEF CampaignInv, Calm
<1>4. \A r \in Slots : Current(r)' <=> Current(r) BY <1>1 DEF Current
<1>5. s'.gen = 0 /\ s'.pc \notin {"down", "abort"} => \A r \in Slots : ~Current(r)'
  BY <1>4 DEF CampaignInv, Calm
<1>6. \A q, r \in Slots :
         q < r /\ journal'[q].campaign = journal'[r].campaign /\ journal'[q].campaign > 0 =>
            journal'[q].safe = 3
  BY DEF CampaignInv
<1>7. Running' => \A r \in Slots : Current(r)' => journal'[r].safe = 3 \/ InFlight(r)'
  BY <1>4 DEF CampaignInv, Calm
<1> QED BY <1>2, <1>3, <1>5, <1>6, <1>7 DEF CampaignInv

(* The records of the campaign when none of them is in flight.                 *)
LEMMA CampaignTakesUp ==
  ASSUME SafeInv, CampaignInv, OnPrepare, ~Fail
  PROVE  CampaignInv'
<1>1. PICK r \in Slots :
            /\ Free(r) /\ s'.pc = "publish" /\ s'.rec = r /\ s'.gen = s.gen /\ s'.quarantine = s.quarantine
            /\ s.pc = "loop" /\ s.state = "READY" /\ s.gen > 0 /\ s.pending = 0
            /\ journal'[r].campaign = world.boots /\ journal'[r].input = Head(vm.out).input
            /\ journal'[r].mem = 0 /\ journal'[r].result = "none"
            /\ \A q \in Slots : q # r => journal'[q] = journal[q]
            /\ \A q \in Slots : ~InFlight(q)
            /\ Head(vm.out).input \in Inputs /\ Head(vm.out).kind = "prepare" /\ vm.out # <<>>
  BY TakesUp
<1>2. Calm BY CalmRecord
<1>3. /\ world'.boots = world.boots /\ world.boots > 0 /\ world.boots \in Nat
  BY <1>1, <1>2, Params DEF Calm, CampaignInv, SafeInv, TypeOK
<1>4. Running BY <1>1 DEF Running
<1>5. \A q \in Slots : Current(q) => journal[q].safe = 3 BY <1>1, <1>4 DEF CampaignInv
<1>6. \A q \in Slots : Current(q) => q < r
  <2>1. ASSUME NEW q \in Slots, Current(q) PROVE q < r
    <3>1. journal[q].safe = 3 BY <1>5, <2>1
    <3>2. journal[q].safe <= journal[q].mem /\ journal[q].mem \in 0..3
      BY DEF SafeInv, TypeOK, Kept, JournalInv, Entry
    <3>3. q \in Used BY <3>1, <3>2 DEF Used
    <3> QED BY <1>1, <3>3 DEF Free
  <2> QED BY <2>1
<1>7. \A q \in Slots : q # r => (Current(q)' <=> Current(q)) BY <1>1, <1>3 DEF Current
<1>8. \A q \in Slots : /\ journal'[q].campaign <= world'.boots
                       /\ journal'[q].input # NoInput => journal'[q].campaign > 0
  BY <1>1, <1>3 DEF CampaignInv
<1>9. ASSUME NEW p \in Slots, NEW q \in Slots, p < q,
             journal'[p].campaign = journal'[q].campaign, journal'[p].campaign > 0
      PROVE  journal'[p].safe = 3
  <2>1. CASE p # r /\ q # r BY <1>1, <1>9, <2>1 DEF CampaignInv
  <2>2. CASE q = r
    <3>1. p # r BY <1>9, <2>2 DEF Slots
    <3>2. Current(p) BY <1>1, <1>9, <2>2, <3>1 DEF Current
    <3> QED BY <1>1, <1>5, <3>1, <3>2
  <2>3. CASE p = r
    <3>1. q # r BY <1>9, <2>3 DEF Slots
    <3>2. Current(q) BY <1>1, <1>9, <2>3, <3>1 DEF Current
    <3>3. q < r BY <1>6, <3>2
    <3> QED BY <1>9, <2>3, <3>3 DEF Slots
  <2> QED BY <2>1, <2>2, <2>3
<1>10. InFlight(r)' BY <1>1 DEF InFlight, Writing
<1>11. \A q \in Slots : Current(q)' => journal'[q].safe = 3 \/ InFlight(q)'
  BY <1>1, <1>5, <1>7, <1>10
<1>12. s'.gen > 0 BY <1>1
<1> QED BY <1>1, <1>3, <1>8, <1>9, <1>11, <1>12 DEF CampaignInv

(* A power loss takes records away, or takes them back.                        *)
LEMMA CampaignPower ==
  ASSUME SafeInv, CampaignInv, PowerLoss
  PROVE  CampaignInv'
<1>0. /\ journal \in [Slots -> Entry] /\ journal' \in [Slots -> Entry] /\ world.boots \in Nat
  BY PowerKeeps, Params DEF SafeInv, TypeOK
<1>1. world'.boots = world.boots BY DEF PowerLoss, SafeInv, TypeOK
<1>2. s'.pc = "down" /\ s'.gen = 0 BY DEF PowerLoss, Gone, Fresh
<1>3. ASSUME NEW r \in Slots
      PROVE  /\ journal'[r].campaign <= world.boots
             /\ journal'[r].input # NoInput => journal'[r].campaign > 0
             /\ journal'[r].campaign > 0 => journal'[r].campaign = journal[r].campaign
             /\ journal[r].safe = 3 => journal'[r].safe = 3
  <2>1. /\ journal'[r].mem > 0 => /\ journal'[r].input = journal[r].input
                                  /\ journal'[r].campaign = journal[r].campaign
        /\ journal'[r].mem = 0 => journal'[r].campaign = 0 /\ journal'[r].input = NoInput
        /\ journal'[r].safe >= journal[r].safe
    BY Survives
  <2>2. journal'[r].mem \in 0..3 /\ journal'[r].safe \in 0..3 BY <1>0 DEF Entry
  <2>3. journal[r].campaign <= world.boots /\ (journal[r].input # NoInput => journal[r].campaign > 0)
    BY DEF CampaignInv
  <2>4. CASE journal'[r].mem = 0 BY <1>0, <2>1, <2>2, <2>4
  <2>5. CASE journal'[r].mem > 0 BY <2>1, <2>2, <2>3, <2>5
  <2> QED BY <2>2, <2>4, <2>5
<1>4. \A q, r \in Slots :
         q < r /\ journal'[q].campaign = journal'[r].campaign /\ journal'[q].campaign > 0 =>
            journal'[q].safe = 3
  BY <1>3 DEF CampaignInv
<1> QED BY <1>1, <1>2, <1>3, <1>4 DEF CampaignInv, Running

(* The records of the campaign, step by step.                                  *)
LEMMA CampaignStep ==
  ASSUME SafeInv, CampaignInv, Next
  PROVE  CampaignInv'
<1>1. CASE (Acts \/ Harms) /\ ~Launch
  <2>1. Calm BY <1>1, CalmStep
  <2>2. CASE PublishRun \/ Authorize \/ Finish \/ SyncDirectory BY <2>1, <2>2, DiskStep, CampaignCalm
  <2>3. CASE OnPrepare
    <3>1. CASE Fail
      <4>1. s'.pc = "abort" BY <3>1 DEF Fail, Step, SafeInv, TypeOK, SupervisorType
      <4>2. journal' = journal \/ s'.pc = "publish"
        BY <2>3 DEF OnPrepare, SafeInv, TypeOK, SupervisorType
      <4> QED BY <2>1, <4>1, <4>2, CampaignCalm
    <3> QED BY <2>3, <3>1, CampaignTakesUp
  <2>4. CASE ~(PublishRun \/ Authorize \/ Finish \/ SyncDirectory \/ OnPrepare)
    <3>1. journal' = journal BY <1>1, <2>4, ActsOnDisk
    <3> QED BY <2>1, <3>1, CampaignCalm
  <2> QED BY <2>2, <2>3, <2>4
<1>2. CASE Launch
  <2>1. /\ s.pc = "decide" /\ s'.pc = "loop" /\ journal' = journal /\ world' = world
    BY <1>2 DEF Launch, SafeInv, TypeOK, SupervisorType
  <2>2. \A r \in Slots : ~InFlight(r)
    BY <2>1 DEF InFlight, Writing, Finalizing, Closing, InRecord
  <2>3. s.gen \in Nat /\ s'.gen = s.gen + 1
    BY <1>2, Params DEF Launch, SafeInv, TypeOK, SupervisorType
  <2>4. \A r \in Slots : Current(r) => journal[r].safe = 3
    <3>1. CASE s.gen = 0 BY <2>1, <3>1 DEF CampaignInv
    <3>2. CASE s.gen > 0 BY <2>1, <2>2, <3>2 DEF CampaignInv, Running
    <3> QED BY <2>3, <3>1, <3>2
  <2> QED BY <2>1, <2>3, <2>4 DEF CampaignInv, Current
<1>3. CASE Start
  <2>1. /\ s'.gen = 0 /\ s'.pc = "recover" /\ journal' = journal
    BY <1>3 DEF Start, Fresh
  <2>2. world'.boots = world.boots + 1 /\ world.boots \in Nat
    BY <1>3, Params DEF Start, SafeInv, TypeOK
  <2>3. \A r \in Slots : journal[r].campaign \in Nat /\ journal[r].campaign <= world.boots
    BY Params DEF CampaignInv, SafeInv, TypeOK, Entry
  <2>4. \A r \in Slots : ~Current(r)' BY <2>1, <2>2, <2>3 DEF Current
  <2>5. \A r \in Slots : journal'[r].campaign <= world'.boots BY <2>1, <2>2, <2>3
  <2>6. world'.boots > 0 BY <2>2
  <2> QED BY <2>1, <2>4, <2>5, <2>6 DEF CampaignInv, Running
<1>4. CASE PowerLoss BY <1>4, CampaignPower
<1>5. CASE Worker \/ Launcher \/ LauncherDies
  <2>1. s' = s /\ journal' = journal /\ world' = world BY <1>5, WorkerApart
  <2> QED BY <2>1 DEF CampaignInv, Current, Running, InFlight, Writing, Finalizing, Closing, InRecord
<1> QED BY <1>1, <1>2, <1>3, <1>4, <1>5, Steps

(* There is no record at the start.                                            *)
LEMMA CampaignInit ==
  ASSUME Init
  PROVE  CampaignInv
<1>1. /\ s = Gone /\ journal = [r \in Slots |-> Empty] /\ world.boots = 0 BY DEF Init
<1>2. s.pc = "down" /\ s.gen = 0 BY <1>1 DEF Gone, Fresh
<1>3. \A r \in Slots : journal[r].campaign = 0 /\ journal[r].input = NoInput BY <1>1 DEF Empty
<1> QED BY <1>1, <1>2, <1>3 DEF CampaignInv, Running

-----------------------------------------------------------------------------
(* Why a worker is dead.                                                       *)

(* No worker, no verdict.                                                      *)
LEMMA CrashStart ==
  ASSUME Init
  PROVE  CrashInv
<1>1. /\ s.pc = "down" /\ s.gen = 0 /\ vm.worker = "none" /\ vm.end = "none"
  BY DEF Init, Gone, Fresh, NoVm
<1> QED BY <1>1 DEF CrashInv, Closing, InRecord

(* How the steps of the worker and of its launcher end it.                     *)
LEMMA WorkerEnds ==
  ASSUME vm \in VmType, Worker \/ Launcher \/ LauncherDies
  PROVE  /\ vm'.told = vm.told /\ (vm.lost => vm'.lost)
         /\ vm.worker = "dead" => ~vm.line /\ ~vm.lost
         /\ \/ vm'.worker # "dead" /\ vm'.end = vm.end
            \/ vm.worker = "dead" /\ vm'.end = vm.end
            \/ vm'.end \in {"signal", "exit"}
            \/ vm'.end = "killed" /\ (vm.told \/ vm'.lost \/ "launcher" \in world.faults)
<1>1. CASE Connect \/ Announce \/ Babble \/ Answer \/ Leave
  <2>1. vm'.told = vm.told /\ vm'.lost = vm.lost /\ vm'.end = vm.end
    BY <1>1 DEF Connect, Announce, Babble, Answer, Leave, Vm, VmType
  <2>2. vm'.worker # "dead" /\ vm.worker # "dead"
    BY <1>1 DEF Connect, Announce, Babble, Answer, Leave, Vm, VmType, Alive
  <2> QED BY <2>1, <2>2
<1>2. CASE Ask
  <2>1. PICK i \in Inputs, m \in BOOLEAN :
          vm' = [vm EXCEPT !.worker = "asking", !.input = i, !.left = IF m THEN @ - 1 ELSE @,
                           !.out = Append(@, [Msg("prepare") EXCEPT !.input = i, !.mutation = m])]
    BY <1>2, Params DEF Ask, Vm, Offered
  <2>2. vm'.told = vm.told /\ vm'.lost = vm.lost /\ vm'.end = vm.end /\ vm'.worker = "asking"
    BY <2>1 DEF VmType
  <2> QED BY <1>2, <2>2 DEF Ask
<1>3. CASE AnswerIsLate \/ Crash \/ LauncherKills
  <2>1. PICK e \in {"signal", "exit", "killed"} :
          /\ vm' = Ended(vm, e)
          /\ e = "killed" => vm.told \/ "launcher" \in world.faults
    BY <1>3 DEF AnswerIsLate, Crash, LauncherKills, Vm
  <2>2. vm'.told = vm.told /\ vm'.lost = vm.lost /\ vm'.end = e BY <2>1 DEF Ended, VmType
  <2>3. vm.worker # "dead" BY <1>3 DEF AnswerIsLate, Crash, LauncherKills, Alive, Waits
  <2> QED BY <2>1, <2>2, <2>3
<1>4. CASE LauncherReports
  <2>1. PICK c \in BOOLEAN : vm' = [vm EXCEPT !.line = TRUE, !.clean = c]
    BY <1>4 DEF LauncherReports, Vm
  <2>2. vm'.told = vm.told /\ vm'.lost = vm.lost /\ vm'.end = vm.end BY <2>1 DEF VmType
  <2> QED BY <1>4, <2>2 DEF LauncherReports
<1>5. CASE LauncherDies
  <2>1. vm' = [Ended(vm, IF Alive THEN "killed" ELSE vm.end) EXCEPT !.lost = TRUE]
        /\ vm.worker # "none" /\ ~vm.line /\ ~vm.lost
    BY <1>5 DEF LauncherDies, Vm
  <2>2. vm'.told = vm.told /\ vm'.lost = TRUE /\ vm'.end = IF Alive THEN "killed" ELSE vm.end
    BY <2>1 DEF Ended, VmType
  <2> QED BY <2>1, <2>2 DEF Alive
<1>6. CASE ReadAnswer
  <2> DEFINE w == [vm EXCEPT !.in = Nothing]
  <2>1. vm.worker # "dead" BY <1>6 DEF ReadAnswer, Waits
  <2>2. \/ \E r \in {vm.in.run} : vm' = [w EXCEPT !.worker = "running", !.run = r]
        \/ \E to \in {"setup", "idle"} : vm' = [w EXCEPT !.worker = to]
        \/ vm' = [w EXCEPT !.worker = "idle", !.run = 0, !.input = NoInput]
        \/ vm' = Ended(w, "exit")
    BY <1>6 DEF ReadAnswer, Vm
  <2>3. w \in VmType /\ w.told = vm.told /\ w.lost = vm.lost /\ w.end = vm.end
    BY DEF VmType, Answers, Nothing
  <2> HIDE DEF w
  <2>4. CASE \E r \in {vm.in.run} : vm' = [w EXCEPT !.worker = "running", !.run = r]
    BY <2>1, <2>3, <2>4 DEF VmType
  <2>5. CASE \E to \in {"setup", "idle"} : vm' = [w EXCEPT !.worker = to]
    BY <2>1, <2>3, <2>5 DEF VmType
  <2>6. CASE vm' = [w EXCEPT !.worker = "idle", !.run = 0, !.input = NoInput]
    BY <2>1, <2>3, <2>6 DEF VmType
  <2>7. CASE vm' = Ended(w, "exit") BY <2>1, <2>3, <2>7 DEF Ended, VmType
  <2> QED BY <2>2, <2>4, <2>5, <2>6, <2>7
<1> QED BY <1>1, <1>2, <1>3, <1>4, <1>5, <1>6 DEF Worker, Launcher

(* The verdict that is being written, once it is given.                        *)
LEMMA VerdictSame ==
  ASSUME SafeInv, Acts \/ Harms, ~Launch, ~OnResult, ~End, ~Recover, s'.pc = "finish" \/ Closing'
  PROVE  /\ s'.verdict = s.verdict /\ s'.stop = s.stop
         /\ (s.pc = "finish" \/ Closing) /\ (Closing => Closing')
<1>0. /\ s \in SupervisorType /\ ControlInv BY DEF SafeInv, TypeOK, Kept
<1>1. s'.pc \in {"finish", "index", "sync"} /\ (s'.pc = "sync" => s'.after = "index")
  BY DEF Closing, InRecord
<1>2. CASE s' = s
  BY <1>2 DEF Closing, InRecord
<1>3. CASE Finish
  <2>1. \/ s' = [s EXCEPT !.pc = "sync"] \/ s' = [s EXCEPT !.pc = s.after]
        \/ s' = [s EXCEPT !.pc = "abort"]
    BY <1>3 DEF Finish, Step
  <2>2. s'.verdict = s.verdict /\ s'.stop = s.stop /\ s'.after = s.after BY <1>0, <2>1 DEF SupervisorType
  <2>3. s.pc = "finish" BY <1>3 DEF Finish
  <2>4. s.after = "index" => s'.pc \in {"sync", "index", "abort"} BY <1>0, <2>1 DEF SupervisorType
  <2> QED BY <1>1, <2>2, <2>3, <2>4 DEF Closing, InRecord
<1>4. CASE SyncDirectory
  <2>1. s.pc = "sync" /\ s' = [s EXCEPT !.pc = s.after, !.after = "recover"]
    BY <1>4 DEF SyncDirectory
  <2>2. s'.verdict = s.verdict /\ s'.stop = s.stop /\ s'.after = "recover" /\ s'.pc = s.after
    BY <1>0, <2>1 DEF SupervisorType
  <2>3. s.after \in {"authorize", "permit", "recover", "acknowledge", "index"} BY <1>0, <2>1 DEF ControlInv
  <2>4. s'.pc = "index" BY <1>1, <2>2, <2>3
  <2> QED BY <2>1, <2>2, <2>4 DEF Closing, InRecord
<1>5. CASE s.pc = "loop" /\ s'.pc \in {"loop", "abort", "publish"} BY <1>1, <1>5
<1>6. CASE s'.pc \in {"abort", "down", "decide", "loop", "finding", "recover"} BY <1>1, <1>6
<1>7. CASE Frames \/ Supervise \/ Deadline \/ CampaignDeadline \/ FrameStalls \/ KillUnconfirmed
  <2>1. CASE OnHello \/ OnReady \/ OnPrepareSpent \/ OnDone
    <3>1. s' = [s EXCEPT !.pc = "abort"] \/ s'.pc = "loop" BY <2>1, AnswerForms DEF Answering
    <3>2. s'.pc \in {"loop", "abort"} BY <1>0, <3>1 DEF SupervisorType
    <3> QED BY <1>6, <3>2
  <2>2. CASE OnPrepare
    <3>1. s'.pc \in {"publish", "abort"}
      BY <1>0, <2>2 DEF OnPrepare, Fail, Step, SupervisorType
    <3> QED BY <1>1, <3>1
  <2>3. CASE OnBadFrame
    <3>1. s.pc = "loop" /\ s' = [Logged(s) EXCEPT !.stop = "worker_protocol_failure"]
      BY <2>3 DEF OnBadFrame, Hears
    <3>2. Logged(s) \in SupervisorType /\ Logged(s).pc = s.pc
      BY <1>0, LoggedTyped DEF Logged, SupervisorType
    <3>3. s'.pc = "loop" BY <3>1, <3>2 DEF SupervisorType
    <3> QED BY <1>6, <3>3
  <2>4. CASE Drain \/ ReadEof \/ Accept \/ ReadEvidence \/ Kill \/ ParentSeen \/ EndUnclean
             \/ LauncherFailed \/ Deadline \/ CampaignDeadline \/ FrameStalls \/ KillUnconfirmed
    <3>1. s'.pc \in {"loop", "abort"}
      BY <1>0, <2>4 DEF Drain, ReadEof, Accept, ReadEvidence, Kill, ParentSeen, EndUnclean, LauncherFailed,
         Deadline, CampaignDeadline, FrameStalls, KillUnconfirmed, InLoop, SupervisorType
    <3> QED BY <1>6, <3>1
  <2> QED BY <1>7, <2>1, <2>2, <2>3, <2>4 DEF Frames, Supervise
<1>8. CASE PublishRun \/ Authorize
  <2>1. s'.pc = "sync" /\ s'.after # "index"
    BY <1>0, <1>8 DEF PublishRun, Authorize, SupervisorType
  <2> QED BY <1>1, <2>1
<1>9. CASE Permit \/ Acknowledge \/ Index
  <2>1. CASE Permit
    <3>1. s' = [s EXCEPT !.pc = "loop", !.state = "EXECUTING"] \/ s' = [s EXCEPT !.pc = "abort"]
      BY <2>1 DEF Permit, Send, Fail, Step
    <3>2. s'.pc \in {"loop", "abort"} BY <1>0, <3>1 DEF SupervisorType
    <3> QED BY <1>6, <3>2
  <2>2. CASE Index
    <3>1. s'.pc = "decide" BY <1>0, <2>2 DEF Index, SupervisorType
    <3> QED BY <1>6, <3>1
  <2>3. CASE Acknowledge
    <3> DEFINE t == [Logged(s) EXCEPT !.pc = "loop", !.pending = 0, !.state = "READY",
                                      !.verdict = "none", !.dirty = FALSE]
               u == [t EXCEPT !.stop = "dirty_recycle", !.state = "RECYCLING",
                              !.quarantine = t.quarantine \cup {journal[s.rec].input}]
    <3>1. Send(IF s.dirty THEN u ELSE t, vm, "ack", s.rec) BY <2>3 DEF Acknowledge
    <3>2. Logged(s) \in SupervisorType BY <1>0, LoggedTyped
    <3>3. t.pc = "loop" /\ u.pc = "loop" BY <3>2 DEF SupervisorType
    <3> HIDE DEF t, u
    <3>4. s' = t \/ s' = u \/ s' = [s EXCEPT !.pc = "abort"] BY <3>1 DEF Send, Fail, Step
    <3>5. s'.pc \in {"loop", "abort"} BY <1>0, <3>3, <3>4 DEF SupervisorType
    <3> QED BY <1>6, <3>5
  <2> QED BY <1>9, <2>1, <2>2, <2>3
<1>10. CASE Recovered \/ LoadFinding \/ LaunchFails \/ DiskFails
  <2>1. s'.pc \in {"abort", "decide", "finding"}
    BY <1>0, <1>10 DEF Recovered, LoadFinding, LaunchFails, DiskFails, Fail, Step, SupervisorType
  <2> QED BY <1>6, <2>1
<1>11. CASE Report \/ Abort \/ SupervisorDies
  <2>1. CASE Report BY <1>6, <2>1 DEF Report, Gone, Fresh
  <2>2. CASE Abort BY <1>2, <1>6, <2>2 DEF Abort, Gone, Fresh
  <2>3. CASE SupervisorDies BY <1>6, <2>3 DEF SupervisorDies, Gone, Fresh
  <2> QED BY <1>11, <2>1, <2>2, <2>3
<1>12. ParentDies \/ Rot => s' = s BY DEF ParentDies, Rot
<1> QED BY <1>2, <1>3, <1>4, <1>7, <1>8, <1>9, <1>10, <1>11, <1>12
        DEF Acts, Harms, Supervisor, Records, Conduct

(* The verdict is a native crash only of a VM that did not leave and was not   *)
(* to be stopped.                                                              *)
LEMMA CrashVerdict ==
  ASSUME SafeInv, CrashInv, Calm, Acts \/ Harms, ~Launch, s'.pc = "finish" \/ Closing',
         s'.verdict = "native_vm_crash"
  PROVE  /\ Closing' /\ s'.stop = "none"
         /\ vm'.end = "signal" \/ (vm'.end = "killed" /\ "launcher" \in world'.faults)
<1>0. s \in SupervisorType /\ vm \in VmType /\ vm'.end = vm.end /\ world'.faults = world.faults
  BY DEF SafeInv, TypeOK, Calm, SameLife
<1>1. CASE ~OnResult /\ ~End /\ ~Recover BY <1>0, <1>1, VerdictSame DEF CrashInv
<1>2. CASE OnResult
  <2>1. s'.verdict \in {"dirty_recycle", "execution_result"} BY <1>0, <1>2 DEF OnResult, SupervisorType
  <2> QED BY <2>1
<1>3. CASE Recover
  <2>1. \/ s' = [s EXCEPT !.pc = "abort"]
        \/ \E r \in Slots : s' = [s EXCEPT !.pc = "finish", !.after = "recover", !.rec = r,
                                           !.verdict = Interrupted(r)]
    BY <1>3 DEF Recover, Fail, Step, Open, Used
  <2>2. s'.pc = "abort" \/ s'.verdict \in {"interrupted_unknown", "interrupted_prepared"}
    BY <1>0, <2>1 DEF SupervisorType, Interrupted
  <2>3. s'.pc # "abort" BY DEF Closing, InRecord
  <2> QED BY <2>2, <2>3
<1>4. CASE End
  <2>1. Logged(s) \in SupervisorType BY <1>0, LoggedTyped
  <2>2. \/ s' = [Logged(s) EXCEPT !.pc = "decide", !.status = GenerationStatus]
        \/ s' = [Logged(s) EXCEPT !.pc = "finish", !.after = "index", !.rec = s.pending,
                                  !.verdict = Reason]
    BY <1>4 DEF End, InLoop
  <2>3. \/ s'.pc = "decide"
        \/ s'.pc = "finish" /\ s'.after = "index" /\ s'.verdict = Reason /\ s'.stop = Logged(s).stop
    BY <2>1, <2>2 DEF SupervisorType
  <2>4. s'.pc = "finish" /\ s'.after = "index" /\ Reason = "native_vm_crash" /\ s'.stop = Logged(s).stop
    BY <2>3 DEF Closing, InRecord
  <2>5. s.stop = "none" /\ vm.end # "exit"
    BY <1>0, <2>4 DEF Reason, SupervisorType, Stops, Kills
  <2>6. s.evidence /\ s.pc = "loop" /\ s.gen > 0
    BY <1>4 DEF End, Over, InLoop, SafeInv, Kept, ControlInv
  <2>7. vm.worker = "dead" /\ ~vm.lost BY <2>6 DEF SafeInv, Kept, EndInv
  <2>8. vm.end # "none" /\ (vm.end = "killed" => "launcher" \in world.faults)
    BY <2>5, <2>6, <2>7 DEF CrashInv
  <2>9. vm.end = "signal" \/ (vm.end = "killed" /\ "launcher" \in world.faults)
    BY <1>0, <2>5, <2>8 DEF VmType, Deaths
  <2>10. Logged(s).stop = "none" BY <1>0, <2>5 DEF Logged, SupervisorType
  <2> QED BY <1>0, <2>4, <2>9, <2>10 DEF Closing, InRecord
<1> QED BY <1>1, <1>2, <1>3, <1>4

(* Why a worker is dead, step by step.                                         *)
LEMMA CrashStep ==
  ASSUME SafeInv, CrashInv, Next
  PROVE  CrashInv'
<1>0. s \in SupervisorType /\ vm \in VmType BY DEF SafeInv, TypeOK
<1>1. CASE (Acts \/ Harms) /\ ~Launch
  <2>1. Calm BY <1>1, CalmStep
  <2>2. /\ vm'.worker = "dead" => vm'.end # "none"
        /\ vm'.end = "killed" => vm'.told \/ vm'.lost \/ "launcher" \in world'.faults
    BY <2>1 DEF CrashInv, Calm, SameLife
  <2>3. Running' /\ vm'.told => s'.stop # "none" BY <2>1 DEF CrashInv, Calm, Running
  <2>4. s'.verdict = "native_vm_crash" /\ (s'.pc = "finish" \/ Closing') =>
           /\ Closing' /\ s'.stop = "none"
           /\ vm'.end = "signal" \/ (vm'.end = "killed" /\ "launcher" \in world'.faults)
    BY <1>1, <2>1, CrashVerdict
  <2> QED BY <2>2, <2>3, <2>4 DEF CrashInv, Running
<1>2. CASE Launch
  <2>1. /\ s'.pc = "loop" /\ vm' = [NoVm EXCEPT !.worker = "booting", !.avoid = WorkerArgs.avoid, !.left = WorkerArgs.left]
    BY <1>0, <1>2 DEF Launch, SupervisorType
  <2>2. vm'.worker = "booting" /\ vm'.end = "none" /\ ~vm'.told BY <2>1 DEF NoVm
  <2> QED BY <2>1, <2>2 DEF CrashInv, Closing, InRecord
<1>3. CASE Start
  <2>1. s'.pc = "recover" /\ s'.after = "recover" /\ s'.gen = 0 /\ vm' = vm /\ s'.verdict = "none"
    BY <1>3 DEF Start, Fresh
  <2>2. world'.faults = world.faults BY <1>3 DEF Start, SafeInv, TypeOK
  <2> QED BY <2>1, <2>2 DEF CrashInv, Closing, InRecord
<1>4. CASE PowerLoss
  <2>1. s'.pc = "down" /\ s'.gen = 0 /\ vm'.worker = "none" /\ vm'.end = "none"
    BY <1>4 DEF PowerLoss, Gone, Fresh, NoVm
  <2> QED BY <2>1 DEF CrashInv, Closing, InRecord
<1>5. CASE Worker \/ Launcher \/ LauncherDies
  <2>1. s' = s /\ world' = world BY <1>5, WorkerApart
  <2>2. /\ vm'.worker = "dead" => vm'.end # "none"
        /\ vm'.end = "killed" => vm'.told \/ vm'.lost \/ "launcher" \in world'.faults
        /\ vm'.told = vm.told
    BY <1>0, <1>5, <2>1, WorkerEnds DEF CrashInv
  <2>3. ~(Closing /\ s.gen > 0)
    <3>1. vm.worker = "dead" => ~vm.line BY <1>0, <1>5, WorkerEnds
    <3> QED BY <3>1 DEF SafeInv, Kept, EndInv
  <2>4. Closing => s.gen > 0 BY DEF SafeInv, Kept, ControlInv
  <2> QED BY <2>1, <2>2, <2>3, <2>4 DEF CrashInv, Closing, InRecord
<1> QED BY <1>1, <1>2, <1>3, <1>4, <1>5, Steps

-----------------------------------------------------------------------------
(* The inputs that are put aside.                                              *)

(* No record, no campaign.                                                     *)
LEMMA PoisonStart ==
  ASSUME Init
  PROVE  PoisonInv
<1>1. /\ s = Gone /\ journal = [r \in Slots |-> Empty] BY DEF Init
<1>2. s.pc = "down" BY <1>1 DEF Gone, Fresh
<1>3. \A r \in Slots : journal[r].result = "none" BY <1>1 DEF Empty
<1> QED BY <1>2, <1>3 DEF PoisonInv, AvoidInv, Avoiding, Running, PoisonRunsOnce

(* The supervisor changes neither what the worker avoids nor what it asked.    *)
LEMMA AvoidCalm ==
  ASSUME vm \in VmType, AvoidInv, Calm
  PROVE  AvoidInv'
<1> SUFFICES ASSUME Avoiding'
             PROVE  /\ vm'.worker # "dead" => s'.quarantine \subseteq vm'.avoid
                    /\ \A i \in DOMAIN vm'.out : vm'.out[i].kind = "prepare" => vm'.out[i].input \notin s'.quarantine
  BY DEF AvoidInv
<1>1. Avoiding /\ s'.quarantine = s.quarantine BY DEF Calm
<1>2. vm'.worker = vm.worker /\ vm'.avoid = vm.avoid /\ SameOut BY DEF Calm, SameLife
<1>3. ASSUME NEW i \in DOMAIN vm'.out, vm'.out[i].kind = "prepare"
      PROVE  vm'.out[i].input \notin s'.quarantine
  <2>1. CASE vm'.out = vm.out BY <1>1, <1>3, <2>1 DEF AvoidInv
  <2>2. CASE vm.out # <<>> /\ vm'.out = Tail(vm.out)
    <3>1. i + 1 \in DOMAIN vm.out /\ vm'.out[i] = vm.out[i + 1] BY <1>3, <2>2, TailOut
    <3> QED BY <1>1, <1>3, <3>1 DEF AvoidInv
  <2> QED BY <1>2, <2>1, <2>2 DEF SameOut
<1> QED BY <1>1, <1>2, <1>3 DEF AvoidInv

(* Only a live worker speaks, and asks for what it does not avoid.             *)
LEMMA AvoidWorker ==
  ASSUME vm \in VmType, AvoidInv, Worker \/ Launcher \/ LauncherDies
  PROVE  AvoidInv'
<1>0. s' = s BY WorkerApart
<1> SUFFICES ASSUME Avoiding
             PROVE  /\ vm'.worker # "dead" => s.quarantine \subseteq vm'.avoid
                    /\ \A i \in DOMAIN vm'.out : vm'.out[i].kind = "prepare" => vm'.out[i].input \notin s.quarantine
  BY <1>0 DEF AvoidInv, Avoiding, Running
<1>1. /\ vm.worker # "dead" => s.quarantine \subseteq vm.avoid
      /\ \A i \in DOMAIN vm.out : vm.out[i].kind = "prepare" => vm.out[i].input \notin s.quarantine
  BY DEF AvoidInv
<1>2. ASSUME NEW f \in Frame, vm'.out = Append(vm.out, f), f.kind # "prepare" \/ f.input \notin s.quarantine,
             vm'.avoid = vm.avoid, vm.worker # "dead"
      PROVE  /\ s.quarantine \subseteq vm'.avoid
             /\ \A i \in DOMAIN vm'.out : vm'.out[i].kind = "prepare" => vm'.out[i].input \notin s.quarantine
  BY <1>1, <1>2, OtherSaid
<1>3. CASE vm'.out = vm.out /\ (vm'.worker = "dead" \/ (vm.worker # "dead" /\ vm'.avoid = vm.avoid))
  BY <1>1, <1>3
<1>4. CASE Connect \/ Announce \/ Babble \/ Answer \/ Leave
  <2>1. PICK f \in Frame :
          /\ vm'.out = Append(vm.out, f) /\ vm'.avoid = vm.avoid /\ f.kind # "prepare"
    <3>1. CASE Connect BY <3>1, MsgTyped DEF Connect, Vm, VmType, Msg
    <3>2. CASE Announce BY <3>2, MsgTyped DEF Announce, Vm, VmType, Msg
    <3>3. CASE Babble BY <3>3, MsgTyped DEF Babble, Vm, VmType, Msg
    <3>4. CASE Answer
      <4>1. PICK d \in BOOLEAN :
              vm' = [vm EXCEPT !.worker = "reporting",
                               !.out = Append(@, [Msg("result") EXCEPT !.run = vm.run, !.dirty = d])]
        BY <3>4 DEF Answer, Vm
      <4> DEFINE f == [Msg("result") EXCEPT !.run = vm.run, !.dirty = d]
      <4>2. f \in Frame BY ResultFrame DEF VmType
      <4>3. f.kind = "result" BY DEF Msg
      <4> HIDE DEF f
      <4>4. vm'.out = Append(vm.out, f) /\ vm'.avoid = vm.avoid BY <4>1 DEF VmType, f
      <4> QED BY <4>2, <4>3, <4>4
    <3>5. CASE Leave
      <4>1. PICK c \in 0..1 :
              vm' = [vm EXCEPT !.worker = "leaving", !.out = Append(@, [Msg("done") EXCEPT !.code = c])]
        BY <3>5 DEF Leave, Vm
      <4> DEFINE f == [Msg("done") EXCEPT !.code = c]
      <4>2. f \in Frame BY DoneFrame
      <4>3. f.kind = "done" BY DEF Msg
      <4> HIDE DEF f
      <4>4. vm'.out = Append(vm.out, f) /\ vm'.avoid = vm.avoid BY <4>1 DEF VmType, f
      <4> QED BY <4>2, <4>3, <4>4
    <3> QED BY <1>4, <3>1, <3>2, <3>3, <3>4, <3>5
  <2>2. vm.worker # "dead" BY <1>4 DEF Connect, Announce, Babble, Answer, Leave, Alive
  <2> QED BY <1>2, <2>1, <2>2
<1>5. CASE Ask
  <2>1. PICK i \in Inputs \ vm.avoid, m \in BOOLEAN :
          vm' = [vm EXCEPT !.worker = "asking", !.input = i, !.left = IF m THEN @ - 1 ELSE @,
                           !.out = Append(@, [Msg("prepare") EXCEPT !.input = i, !.mutation = m])]
    BY <1>5, Params DEF Ask, Vm, Offered
  <2> DEFINE f == [Msg("prepare") EXCEPT !.input = i, !.mutation = m]
  <2>2. f \in Frame BY PrepareFrame
  <2>3. f.input = i BY DEF Msg
  <2> HIDE DEF f
  <2>4. vm'.out = Append(vm.out, f) /\ vm'.avoid = vm.avoid BY <2>1 DEF VmType, f
  <2>5. vm.worker # "dead" BY <1>5 DEF Ask
  <2>6. i \notin s.quarantine BY <1>1, <2>1, <2>5
  <2> QED BY <1>2, <2>2, <2>3, <2>4, <2>5, <2>6
<1>6. CASE AnswerIsLate \/ Crash \/ LauncherKills
  <2>1. PICK e \in {"signal", "exit", "killed"} : vm' = Ended(vm, e)
    BY <1>6 DEF AnswerIsLate, Crash, LauncherKills, Vm
  <2>2. vm'.out = vm.out /\ vm'.worker = "dead" BY <2>1 DEF Ended, VmType
  <2> QED BY <1>3, <2>2
<1>7. CASE LauncherReports
  <2>1. PICK c \in BOOLEAN : vm' = [vm EXCEPT !.line = TRUE, !.clean = c]
    BY <1>7 DEF LauncherReports, Vm
  <2>2. vm'.out = vm.out /\ vm'.worker = "dead" BY <1>7, <2>1 DEF VmType, LauncherReports
  <2> QED BY <1>3, <2>2
<1>8. CASE LauncherDies
  <2>1. vm' = [Ended(vm, IF Alive THEN "killed" ELSE vm.end) EXCEPT !.lost = TRUE]
    BY <1>8 DEF LauncherDies, Vm
  <2>2. vm'.out = vm.out /\ vm'.worker = "dead" BY <2>1 DEF Ended, VmType
  <2> QED BY <1>3, <2>2
<1>9. CASE ReadAnswer
  <2> DEFINE w == [vm EXCEPT !.in = Nothing]
  <2>1. vm.worker # "dead" BY <1>9 DEF ReadAnswer, Waits
  <2>2. \/ \E r \in {vm.in.run} : vm' = [w EXCEPT !.worker = "running", !.run = r]
        \/ \E to \in {"setup", "idle"} : vm' = [w EXCEPT !.worker = to]
        \/ vm' = [w EXCEPT !.worker = "idle", !.run = 0, !.input = NoInput]
        \/ vm' = Ended(w, "exit")
    BY <1>9 DEF ReadAnswer, Vm
  <2>3. w \in VmType /\ w.out = vm.out /\ w.avoid = vm.avoid
    BY DEF VmType, Answers, Nothing
  <2> HIDE DEF w
  <2>4. CASE \E r \in {vm.in.run} : vm' = [w EXCEPT !.worker = "running", !.run = r]
    <3>1. vm'.out = w.out /\ vm'.avoid = w.avoid BY <2>3, <2>4 DEF VmType
    <3> QED BY <1>3, <2>1, <2>3, <3>1
  <2>5. CASE \E to \in {"setup", "idle"} : vm' = [w EXCEPT !.worker = to]
    <3>1. vm'.out = w.out /\ vm'.avoid = w.avoid BY <2>3, <2>5 DEF VmType
    <3> QED BY <1>3, <2>1, <2>3, <3>1
  <2>6. CASE vm' = [w EXCEPT !.worker = "idle", !.run = 0, !.input = NoInput]
    <3>1. vm'.out = w.out /\ vm'.avoid = w.avoid BY <2>3, <2>6 DEF VmType
    <3> QED BY <1>3, <2>1, <2>3, <3>1
  <2>7. CASE vm' = Ended(w, "exit")
    <3>1. vm'.out = w.out /\ vm'.worker = "dead" BY <2>3, <2>7 DEF Ended, VmType
    <3> QED BY <1>3, <2>3, <3>1
  <2> QED BY <2>2, <2>4, <2>5, <2>6, <2>7
<1> QED BY <1>4, <1>5, <1>6, <1>7, <1>8, <1>9 DEF Worker, Launcher

(* A calm step that changes no record.                                         *)
LEMMA PoisonCalm ==
  ASSUME SafeInv, PoisonInv, Calm, journal' = journal
  PROVE  PoisonInv'
<1>1. Replay' = Replay BY DEF Replay, Calm
<1>2. CASE Replay BY <1>1, <1>2 DEF PoisonInv
<1>3. CASE ~Replay
  <2>1. AvoidInv' BY <1>3, AvoidCalm DEF PoisonInv, SafeInv, TypeOK
  <2>2. PoisonRunsOnce' BY <1>1, <1>3 DEF PoisonInv, PoisonRunsOnce
  <2>3. ASSUME Running', NEW r \in Slots, Current(r)', Poison(r)'
        PROVE  journal'[r].input \in s'.quarantine \/ InFlight(r)'
    <3>1. Running /\ Current(r) /\ Poison(r) BY <2>3 DEF Calm, Current, Poison
    <3>2. journal[r].input \in s.quarantine \/ InFlight(r) BY <1>3, <3>1 DEF PoisonInv
    <3> QED BY <2>3, <3>1, <3>2 DEF Calm
  <2> QED BY <2>1, <2>2, <2>3 DEF PoisonInv
<1> QED BY <1>2, <1>3

(* A step on disk gives a result at most to the record that is in flight, the  *)
(* last one of its campaign.                                                   *)
LEMMA PoisonDisk ==
  ASSUME SafeInv, CampaignInv, PoisonInv, PublishRun \/ Authorize \/ Finish \/ SyncDirectory
  PROVE  PoisonInv'
<1>0. Calm /\ JournalInv'
  <2>1. Next BY DEF Next, Supervisor, Records
  <2> QED BY <2>1, CalmRecord, KeptStep DEF Kept
<1>1. Replay' = Replay BY <1>0 DEF Replay, Calm
<1>2. CASE Replay BY <1>1, <1>2 DEF PoisonInv
<1>3. CASE ~Replay
  <2>1. AvoidInv' BY <1>0, <1>3, AvoidCalm DEF PoisonInv, SafeInv, TypeOK
  <2>2. \A q \in Slots :
           /\ journal'[q].campaign = journal[q].campaign /\ journal'[q].input = journal[q].input
           /\ journal'[q].result = journal[q].result \/ journal[q].safe # 3
    BY DiskStep
  <2>3. ASSUME NEW q \in Slots, NEW r \in Slots, q < r,
               journal'[q].campaign = journal'[r].campaign, Poison(q)'
        PROVE  journal'[q].input # journal'[r].input
    <3>1. CASE journal'[q].result = journal[q].result
      BY <1>3, <2>2, <2>3, <3>1 DEF PoisonInv, PoisonRunsOnce, Poison
    <3>2. CASE journal[q].safe # 3
      <4>1. journal'[q].mem = 3 BY <1>0, <2>3 DEF JournalInv, Poison
      <4>2. journal'[q].input \in Inputs BY <1>0, <4>1 DEF JournalInv
      <4>3. journal[q].campaign > 0 BY <2>2, <4>2, Params DEF CampaignInv
      <4> QED BY <2>2, <2>3, <3>2, <4>3 DEF CampaignInv
    <3> QED BY <2>2, <3>1, <3>2
  <2>4. PoisonRunsOnce' BY <2>3 DEF PoisonRunsOnce, Poison
  <2>5. ASSUME Running', NEW r \in Slots, Current(r)', Poison(r)'
        PROVE  journal'[r].input \in s'.quarantine \/ InFlight(r)'
    <3>1. Running /\ Current(r) BY <1>0, <2>2, <2>5 DEF Calm, Current
    <3>2. CASE journal'[r].result = journal[r].result
      <4>1. journal[r].input \in s.quarantine \/ InFlight(r)
        BY <1>3, <2>5, <3>1, <3>2 DEF PoisonInv, Poison
      <4>2. Poison(r) BY <2>5, <3>2 DEF Poison
      <4> QED BY <1>0, <2>2, <2>5, <4>1, <4>2 DEF Calm
    <3>3. CASE journal[r].safe # 3
      <4>1. InFlight(r) BY <3>1, <3>3 DEF CampaignInv
      <4> QED BY <1>0, <2>5, <3>3, <4>1 DEF Calm
    <3> QED BY <2>2, <3>2, <3>3
  <2> QED BY <2>1, <2>4, <2>5 DEF PoisonInv
<1> QED BY <1>2, <1>3

(* The input of a new record is none that is put aside, and all that spoiled   *)
(* or lost a VM in this campaign are: no record is in flight.                  *)
LEMMA PoisonTakesUp ==
  ASSUME SafeInv, CampaignInv, PoisonInv, OnPrepare, ~Fail
  PROVE  PoisonInv'
<1>0. Calm BY CalmRecord
<1>1. Replay' = Replay /\ world'.boots = world.boots BY <1>0 DEF Replay, Calm
<1>2. CASE Replay BY <1>1, <1>2 DEF PoisonInv
<1>3. CASE ~Replay
  <2>1. PICK r \in Slots :
            /\ Free(r) /\ s'.pc = "publish" /\ s'.rec = r /\ s'.gen = s.gen /\ s'.quarantine = s.quarantine
            /\ s.pc = "loop" /\ s.state = "READY" /\ s.gen > 0 /\ s.pending = 0
            /\ journal'[r].campaign = world.boots /\ journal'[r].input = Head(vm.out).input
            /\ journal'[r].mem = 0 /\ journal'[r].result = "none"
            /\ \A q \in Slots : q # r => journal'[q] = journal[q]
            /\ \A q \in Slots : ~InFlight(q)
            /\ Head(vm.out).input \in Inputs /\ Head(vm.out).kind = "prepare" /\ vm.out # <<>>
    BY TakesUp
  <2>2. AvoidInv' BY <1>0, <1>3, AvoidCalm DEF PoisonInv, SafeInv, TypeOK
  <2>3. \A q \in Slots : Current(q) /\ Poison(q) => journal[q].input \in s.quarantine
    BY <1>3, <2>1 DEF PoisonInv, Running
  <2>4. Head(vm.out).input \notin s.quarantine
    <3>1. Avoiding BY <2>1 DEF Avoiding, Running
    <3>2. 1 \in DOMAIN vm.out /\ Head(vm.out) = vm.out[1] BY <2>1, TailOut DEF SafeInv, TypeOK
    <3> QED BY <1>3, <2>1, <3>1, <3>2 DEF PoisonInv, AvoidInv
  <2>5. \A q \in Slots : Poison(q)' => q # r /\ Poison(q) BY <2>1 DEF Poison
  <2>6. \A q \in Slots : Current(q)' /\ q # r => Current(q) BY <1>1, <2>1 DEF Current
  <2>7. ASSUME NEW q \in Slots, NEW p \in Slots, q < p,
               journal'[q].campaign = journal'[p].campaign, Poison(q)'
        PROVE  journal'[q].input # journal'[p].input
    <3>1. q # r /\ Poison(q) BY <2>5, <2>7
    <3>2. CASE p = r
      <4>1. Current(q) BY <2>1, <2>7, <3>1, <3>2 DEF Current
      <4> QED BY <2>1, <2>3, <2>4, <3>1, <3>2, <4>1
    <3>3. CASE p # r BY <1>3, <2>1, <2>7, <3>1, <3>3 DEF PoisonInv, PoisonRunsOnce, Poison
    <3> QED BY <3>2, <3>3
  <2>8. PoisonRunsOnce' BY <2>7 DEF PoisonRunsOnce, Poison
  <2>9. \A q \in Slots : Current(q)' /\ Poison(q)' => journal'[q].input \in s'.quarantine
    BY <2>1, <2>3, <2>5, <2>6
  <2> QED BY <2>2, <2>8, <2>9 DEF PoisonInv
<1> QED BY <1>2, <1>3

(* The next worker is told everything that was put aside.                      *)
LEMMA PoisonLaunch ==
  ASSUME SafeInv, CampaignInv, PoisonInv, Launch
  PROVE  PoisonInv'
<1>0. s \in SupervisorType BY DEF SafeInv, TypeOK
<1>1. /\ s.pc = "decide" /\ s'.quarantine = s.quarantine /\ journal' = journal /\ world' = world
      /\ vm' = [NoVm EXCEPT !.worker = "booting", !.avoid = WorkerArgs.avoid, !.left = WorkerArgs.left]
  BY <1>0 DEF Launch, SupervisorType
<1>2. Replay' = Replay BY <1>1 DEF Replay
<1>3. CASE Replay BY <1>2, <1>3 DEF PoisonInv
<1>4. CASE ~Replay
  <2>1. WorkerArgs.avoid = s.quarantine BY <1>4 DEF WorkerArgs
  <2>2. vm'.avoid = s.quarantine /\ vm'.out = <<>> BY <1>1, <2>1 DEF NoVm
  <2>3. AvoidInv' BY <1>1, <2>2 DEF AvoidInv
  <2>4. PoisonRunsOnce' BY <1>1, <1>2, <1>4 DEF PoisonInv, PoisonRunsOnce
  <2>5. \A r \in Slots : ~InFlight(r)
    BY <1>1 DEF InFlight, Writing, Finalizing, Closing, InRecord
  <2>6. \A r \in Slots : Current(r) /\ Poison(r) => journal[r].input \in s.quarantine
    <3>1. CASE s.gen = 0 BY <1>1, <3>1 DEF CampaignInv
    <3>2. CASE s.gen > 0 BY <1>1, <1>4, <2>5, <3>2 DEF PoisonInv, Running
    <3> QED BY <1>0, <3>1, <3>2 DEF SupervisorType
  <2> QED BY <1>1, <2>3, <2>4, <2>6 DEF PoisonInv, Current, Poison
<1> QED BY <1>3, <1>4

(* A record that a power loss leaves is one there was.                         *)
LEMMA PoisonPower ==
  ASSUME SafeInv, CampaignInv, PoisonInv, PowerLoss
  PROVE  PoisonInv'
<1>0. JournalInv' /\ CampaignInv' /\ journal' \in [Slots -> Entry]
  BY PowerKeeps, CampaignPower DEF Kept
<1>1. s'.pc = "down" BY DEF PowerLoss, Gone, Fresh
<1>2. Replay' = Replay BY DEF PowerLoss, Replay, SafeInv, TypeOK
<1>3. CASE Replay BY <1>2, <1>3 DEF PoisonInv
<1>4. CASE ~Replay
  <2>1. ASSUME NEW q \in Slots, NEW r \in Slots, q < r,
               journal'[q].campaign = journal'[r].campaign, Poison(q)'
        PROVE  journal'[q].input # journal'[r].input
    <3>1. journal'[q].mem = 3 /\ journal'[q].input \in Inputs BY <1>0, <2>1 DEF JournalInv, Poison
    <3>2. journal'[q].campaign > 0 BY <1>0, <3>1, Params DEF CampaignInv
    <3>3. journal'[q].input = journal[q].input /\ journal'[q].campaign = journal[q].campaign
      BY <3>1, Survives
    <3>4. journal'[r].mem # 0 BY <2>1, <3>2, Survives
    <3>5. journal'[r].mem \in 0..3 BY <1>0 DEF Entry
    <3>6. journal'[r].input = journal[r].input /\ journal'[r].campaign = journal[r].campaign
      BY <3>4, <3>5, Survives
    <3>7. Poison(q) BY <2>1, Survives DEF Poison
    <3> QED BY <1>4, <2>1, <3>3, <3>6, <3>7 DEF PoisonInv, PoisonRunsOnce, Poison
  <2>2. PoisonRunsOnce' BY <2>1 DEF PoisonRunsOnce, Poison
  <2> QED BY <1>1, <2>2 DEF PoisonInv, AvoidInv, Avoiding, Running
<1> QED BY <1>3, <1>4

(* The inputs that are put aside, step by step.                                *)
LEMMA PoisonStep ==
  ASSUME SafeInv, CampaignInv, PoisonInv, Next
  PROVE  PoisonInv'
<1>1. CASE (Acts \/ Harms) /\ ~Launch
  <2>1. Calm BY <1>1, CalmStep
  <2>2. CASE PublishRun \/ Authorize \/ Finish \/ SyncDirectory BY <2>2, PoisonDisk
  <2>3. CASE OnPrepare
    <3>1. CASE Fail
      <4>1. s'.pc = "abort" BY <3>1 DEF Fail, Step, SafeInv, TypeOK, SupervisorType
      <4>2. journal' = journal \/ s'.pc = "publish"
        BY <2>3 DEF OnPrepare, SafeInv, TypeOK, SupervisorType
      <4> QED BY <2>1, <4>1, <4>2, PoisonCalm
    <3> QED BY <2>3, <3>1, PoisonTakesUp
  <2>4. CASE ~(PublishRun \/ Authorize \/ Finish \/ SyncDirectory \/ OnPrepare)
    <3>1. journal' = journal BY <1>1, <2>4, ActsOnDisk
    <3> QED BY <2>1, <3>1, PoisonCalm
  <2> QED BY <2>2, <2>3, <2>4
<1>2. CASE Launch BY <1>2, PoisonLaunch
<1>3. CASE Start
  <2>1. s'.gen = 0 /\ journal' = journal BY <1>3 DEF Start, Fresh
  <2>2. Replay' = Replay BY <1>3 DEF Start, Replay, SafeInv, TypeOK
  <2> QED BY <2>1, <2>2 DEF PoisonInv, AvoidInv, Avoiding, Running, PoisonRunsOnce
<1>4. CASE PowerLoss BY <1>4, PoisonPower
<1>5. CASE Worker \/ Launcher \/ LauncherDies
  <2>1. s' = s /\ journal' = journal /\ world' = world BY <1>5, WorkerApart
  <2>2. Replay' = Replay BY <2>1 DEF Replay
  <2>3. ~Replay => AvoidInv' BY <1>5, AvoidWorker DEF PoisonInv, SafeInv, TypeOK
  <2> QED BY <2>1, <2>2, <2>3
          DEF PoisonInv, PoisonRunsOnce, Running, Current, Poison, InFlight, Writing, Finalizing, Closing, InRecord
<1> QED BY <1>1, <1>2, <1>3, <1>4, <1>5, Steps

-----------------------------------------------------------------------------
(* The number of the generation.                                               *)

(* The steps with which a supervisor goes on.                                  *)
LEMMA GoesOn ==
  ASSUME SafeInv, Acts \/ Harms, ~Launch, ~Report, ~Abort, ~SupervisorDies, ~ParentDies, ~Rot
  PROVE  s'.gen = s.gen /\ s'.pc # "down"
<1>0. s \in SupervisorType /\ ControlInv BY DEF SafeInv, TypeOK, Kept
<1>1. CASE s' = [s EXCEPT !.pc = "abort"] BY <1>0, <1>1 DEF SupervisorType
<1>2. CASE OnHello \/ OnReady \/ OnPrepareSpent \/ OnDone
  <2>1. s' = [s EXCEPT !.pc = "abort"] \/ (s'.gen = s.gen /\ s'.pc = "loop")
    BY <1>2, AnswerForms DEF Answering
  <2> QED BY <1>1, <2>1
<1>3. CASE OnPrepare BY <1>1, <1>3, TakesUp DEF Fail, Step
<1>4. Logged(s) \in SupervisorType /\ Logged(s).gen = s.gen /\ Logged(s).pc = s.pc
  BY <1>0, LoggedTyped DEF Logged, SupervisorType
<1>5. CASE OnBadFrame
  <2>1. s' = [Logged(s) EXCEPT !.stop = "worker_protocol_failure"] /\ s.pc = "loop"
    BY <1>5 DEF OnBadFrame, Hears
  <2> QED BY <1>4, <2>1 DEF SupervisorType
<1>6. CASE End
  <2>1. \/ s' = [Logged(s) EXCEPT !.pc = "decide", !.status = GenerationStatus]
        \/ s' = [Logged(s) EXCEPT !.pc = "finish", !.after = "index", !.rec = s.pending,
                                  !.verdict = Reason]
    BY <1>6 DEF End, InLoop
  <2> QED BY <1>4, <2>1 DEF SupervisorType
<1>7. CASE OnResult BY <1>0, <1>7 DEF OnResult, SupervisorType
<1>8. CASE Recover
  <2>1. \/ s' = [s EXCEPT !.pc = "abort"]
        \/ \E r \in Slots : s' = [s EXCEPT !.pc = "finish", !.after = "recover", !.rec = r,
                                           !.verdict = Interrupted(r)]
    BY <1>8 DEF Recover, Fail, Step, Open, Used
  <2> QED BY <1>0, <2>1 DEF SupervisorType
<1>9. CASE Index BY <1>0, <1>9 DEF Index, SupervisorType
<1>10. CASE \/ Drain \/ ReadEof \/ Accept \/ ReadEvidence \/ Kill \/ ParentSeen \/ EndUnclean
            \/ LauncherFailed \/ Deadline \/ CampaignDeadline \/ FrameStalls \/ KillUnconfirmed
  <2>1. s.pc = "loop"
    BY <1>10 DEF Drain, ReadEof, Accept, ReadEvidence, Kill, ParentSeen, EndUnclean, LauncherFailed,
       Deadline, CampaignDeadline, FrameStalls, KillUnconfirmed, InLoop
  <2>2. \/ s' = s \/ s' = [s EXCEPT !.pc = "abort"]
        \/ s' = [s EXCEPT !.eof = TRUE] \/ s' = [s EXCEPT !.sock = TRUE]
        \/ s' = [s EXCEPT !.evidence = TRUE] \/ s' = [s EXCEPT !.killed = TRUE]
        \/ \E stop \in Stops : s' = [s EXCEPT !.stop = stop]
    BY <1>10, Known DEF Drain, ReadEof, Accept, ReadEvidence, Kill, ParentSeen, EndUnclean, LauncherFailed,
       Deadline, CampaignDeadline, FrameStalls, KillUnconfirmed, InLoop
  <2>3. s'.gen = s.gen /\ (s'.pc = s.pc \/ s'.pc = "abort") BY <1>0, <2>2 DEF SupervisorType
  <2> QED BY <2>1, <2>3
<1>11. CASE PublishRun \/ Authorize
  BY <1>0, <1>11 DEF PublishRun, Authorize, SupervisorType
<1>12. CASE Finish \/ SyncDirectory
  <2>1. s.after \in {"authorize", "permit", "recover", "acknowledge", "index"}
    BY <1>0, <1>12 DEF Finish, SyncDirectory, ControlInv
  <2>2. \/ s' = [s EXCEPT !.pc = "sync"] \/ s' = [s EXCEPT !.pc = "abort"]
        \/ s' = [s EXCEPT !.pc = s.after] \/ s' = [s EXCEPT !.pc = s.after, !.after = "recover"]
    BY <1>12 DEF Finish, SyncDirectory, Step
  <2>3. s'.gen = s.gen /\ s'.pc \in {"sync", "abort", s.after} BY <1>0, <2>2 DEF SupervisorType
  <2> QED BY <2>1, <2>3
<1>13. CASE Permit
  <2>1. s' = [s EXCEPT !.pc = "loop", !.state = "EXECUTING"] \/ s' = [s EXCEPT !.pc = "abort"]
    BY <1>13 DEF Permit, Send, Fail, Step
  <2> QED BY <1>0, <2>1 DEF SupervisorType
<1>14. CASE Acknowledge
  <2> DEFINE t == [Logged(s) EXCEPT !.pc = "loop", !.pending = 0, !.state = "READY",
                                    !.verdict = "none", !.dirty = FALSE]
             u == [t EXCEPT !.stop = "dirty_recycle", !.state = "RECYCLING",
                            !.quarantine = t.quarantine \cup {journal[s.rec].input}]
  <2>1. Send(IF s.dirty THEN u ELSE t, vm, "ack", s.rec) BY <1>14 DEF Acknowledge
  <2>2. t.gen = s.gen /\ u.gen = s.gen /\ t.pc = "loop" /\ u.pc = "loop" BY <1>4 DEF SupervisorType
  <2> HIDE DEF t, u
  <2>3. s' = t \/ s' = u \/ s' = [s EXCEPT !.pc = "abort"] BY <2>1 DEF Send, Fail, Step
  <2> QED BY <1>1, <2>2, <2>3
<1>15. CASE Recovered \/ LoadFinding \/ LaunchFails \/ DiskFails
  BY <1>0, <1>15 DEF Recovered, LoadFinding, LaunchFails, DiskFails, Fail, Step, SupervisorType
<1> QED BY <1>2, <1>3, <1>5, <1>6, <1>7, <1>8, <1>9, <1>10, <1>11, <1>12, <1>13, <1>14, <1>15
        DEF Acts, Harms, Supervisor, Frames, Supervise, Records, Conduct

(* A step that is not the start of a generation keeps its number, or ends the  *)
(* supervisor.                                                                 *)
LEMMA GenerationStays ==
  ASSUME SafeInv, Next, ~Launch
  PROVE  s'.gen = s.gen \/ s'.gen = 0
<1>1. CASE Report \/ Abort \/ SupervisorDies \/ Start \/ PowerLoss
  <2>1. Gone.gen = 0 /\ Fresh.gen = 0 BY DEF Gone, Fresh
  <2>2. CASE Report BY <2>2 DEF Report, Gone, Fresh
  <2>3. CASE Abort \/ SupervisorDies \/ Start \/ PowerLoss
    BY <2>1, <2>3 DEF Abort, SupervisorDies, Start, PowerLoss
  <2> QED BY <1>1, <2>2, <2>3
<1>2. CASE Worker \/ Launcher \/ LauncherDies \/ ParentDies \/ Rot
  BY <1>2, WorkerApart DEF ParentDies, Rot
<1>3. CASE (Acts \/ Harms) /\ ~Report /\ ~Abort /\ ~SupervisorDies /\ ~ParentDies /\ ~Rot
  BY <1>3, GoesOn
<1> QED BY <1>1, <1>2, <1>3, Steps

-----------------------------------------------------------------------------
(* The theorems.                                                               *)

(* What a step does to a record that is final.                                 *)
LEMMA FinalStays ==
  ASSUME SafeInv, Next, NEW r \in Slots, journal[r].safe = 3
  PROVE  /\ journal'[r].safe = 3 /\ journal'[r].result = journal[r].result
         /\ journal'[r].input = journal[r].input /\ journal'[r].campaign = journal[r].campaign
<1>0. /\ journal[r].mem = 3 /\ journal[r].result # "none"
      /\ journal \in [Slots -> Entry]
  <2>1. journal[r].safe <= journal[r].mem /\ journal[r].mem \in 0..3 /\ JournalInv
    BY DEF SafeInv, TypeOK, Kept, JournalInv, Entry
  <2> QED BY <2>1 DEF JournalInv, SafeInv, TypeOK
<1>1. CASE PublishRun \/ Authorize \/ Finish \/ SyncDirectory
  BY <1>1, DiskStep
<1>2. CASE OnPrepare
  <2>1. CASE ~Fail
    <3>1. PICK q \in Slots : Free(q) /\ \A p \in Slots : p # q => journal'[p] = journal[p]
      BY <1>2, <2>1, TakesUp
    <3>2. r \in Used BY <1>0 DEF Used
    <3>3. r # q BY <3>1, <3>2 DEF Free, Slots
    <3> QED BY <3>1, <3>3
  <2>2. CASE Fail
    <3>1. s'.pc = "abort" BY <2>2 DEF Fail, Step, SafeInv, TypeOK, SupervisorType
    <3>2. journal' = journal \/ s'.pc = "publish"
      BY <1>2 DEF OnPrepare, SafeInv, TypeOK, SupervisorType
    <3> QED BY <3>1, <3>2
  <2> QED BY <2>1, <2>2
<1>3. CASE PowerLoss
  <2>1. journal'[r].safe >= 3 /\ journal'[r].safe = journal'[r].mem /\ journal'[r] \in Entry
    BY <1>3, Survives
  <2>2. journal'[r].safe = 3 /\ journal'[r].mem = 3 BY <2>1 DEF Entry
  <2> QED BY <1>3, <2>2, Survives
<1>4. CASE Launch \/ Start BY <1>4 DEF Launch, Start
<1>5. CASE Worker \/ Launcher \/ LauncherDies BY <1>5, WorkerApart
<1>6. CASE (Acts \/ Harms) /\ ~(PublishRun \/ Authorize \/ Finish \/ SyncDirectory \/ OnPrepare)
  BY <1>6, ActsOnDisk
<1> QED BY <1>1, <1>2, <1>3, <1>4, <1>5, <1>6, Steps

(* The supervisor touches neither the worker nor the run that it carries out;  *)
(* it permits only the run whose record it holds.                              *)
LEMMA VmApart ==
  ASSUME SafeInv, Acts \/ Harms, ~Launch
  PROVE  /\ executed' = executed /\ vm'.worker = vm.worker /\ vm'.run = vm.run
         /\ vm'.in.kind = "run" => vm'.in = vm.in \/ (Permit /\ vm'.in.run = s.rec)
<1>0. s \in SupervisorType /\ vm \in VmType BY DEF SafeInv, TypeOK
<1>1. executed' = executed
  BY DEF Acts, Harms, Supervisor, Frames, Supervise, Records, Conduct, OnHello, OnReady, OnPrepareSpent,
     OnPrepare, OnResult, OnDone, OnBadFrame, Drain, ReadEof, Accept, ReadEvidence, Kill, ParentSeen, End,
     EndUnclean, LauncherFailed, PublishRun, Authorize, Finish, SyncDirectory, Permit, Acknowledge, Index,
     Recover, Recovered, LoadFinding, Launch, Report, Abort, Deadline, CampaignDeadline, FrameStalls,
     KillUnconfirmed, LaunchFails, DiskFails, ParentDies, SupervisorDies, Rot, InLoop
<1>2. CASE vm' = vm BY <1>1, <1>2
<1>3. CASE vm' = Taken BY <1>0, <1>1, <1>3 DEF Taken, VmType
<1>4. CASE vm' = [vm EXCEPT !.told = TRUE] BY <1>0, <1>1, <1>4 DEF VmType
<1>5. CASE Answering
  <2>1. vm' = Taken \/ \E kind \in {"ack", "spent"} : vm' = [Taken EXCEPT !.in = [kind |-> kind, run |-> 0]]
    BY <1>5, AnswerForms
  <2>2. ASSUME NEW kind \in {"ack", "spent"}, vm' = [Taken EXCEPT !.in = [kind |-> kind, run |-> 0]]
        PROVE  vm'.worker = vm.worker /\ vm'.run = vm.run /\ vm'.in.kind # "run"
    BY <1>0, <2>2 DEF Taken, VmType
  <2> QED BY <1>1, <1>3, <2>1, <2>2
<1>6. CASE Permit \/ Acknowledge
  <2>1. vm' = vm \/ \E kind \in {"ack", "run"} :
           /\ vm' = [vm EXCEPT !.in = [kind |-> kind, run |-> s.rec]]
           /\ kind = "run" => Permit
    BY <1>6 DEF Permit, Acknowledge, Send
  <2>2. ASSUME NEW kind \in {"ack", "run"}, vm' = [vm EXCEPT !.in = [kind |-> kind, run |-> s.rec]]
        PROVE  vm'.worker = vm.worker /\ vm'.run = vm.run /\ vm'.in.kind = kind /\ vm'.in.run = s.rec
    BY <1>0, <2>2 DEF VmType
  <2> QED BY <1>1, <1>2, <2>1, <2>2
<1>7. CASE OnPrepare \/ OnResult \/ OnBadFrame \/ Drain
  BY <1>3, <1>7 DEF OnPrepare, OnResult, OnBadFrame, Drain
<1>8. CASE \/ ReadEof \/ Accept \/ ReadEvidence \/ End \/ EndUnclean \/ LauncherFailed
           \/ PublishRun \/ Authorize \/ Finish \/ SyncDirectory \/ Index
           \/ Recover \/ Recovered \/ LoadFinding \/ Report \/ Deadline
           \/ CampaignDeadline \/ FrameStalls \/ KillUnconfirmed \/ LaunchFails \/ DiskFails
           \/ ParentDies \/ Rot
  BY <1>2, <1>8 DEF ReadEof, Accept, ReadEvidence, End, EndUnclean, LauncherFailed, PublishRun, Authorize,
     Finish, SyncDirectory, Index, Recover, Recovered, LoadFinding, Report, Deadline, CampaignDeadline,
     FrameStalls, KillUnconfirmed, LaunchFails, DiskFails, ParentDies, Rot
<1>9. CASE Kill \/ ParentSeen \/ Abort \/ SupervisorDies
  BY <1>2, <1>4, <1>9 DEF Kill, ParentSeen, Abort, SupervisorDies, StopHelper
<1> QED BY <1>5, <1>6, <1>7, <1>8, <1>9
        DEF Answering, Acts, Harms, Supervisor, Frames, Supervise, Records, Conduct

(* A worker begins the run that it was permitted, and no other.                *)
LEMMA WorkerBegins ==
  ASSUME SafeInv, Worker \/ Launcher \/ LauncherDies
  PROVE  \/ /\ executed' = executed
            /\ vm'.worker = "running" => vm.worker = "running" /\ vm'.run = vm.run
            /\ vm'.worker = "asking" /\ vm'.in.kind = "run" => vm.worker = "asking" /\ vm'.in = vm.in
         \/ /\ vm.worker = "asking" /\ vm.in.kind = "run" /\ executed' = executed \cup {vm.in.run}
            /\ vm'.worker = "running" /\ vm'.run = vm.in.run
<1>0. vm \in VmType /\ (vm.in.kind = "run" => vm.worker \in {"asking", "dead"})
  BY DEF SafeInv, TypeOK, Kept, PrepareInv
<1>1. CASE Connect \/ Announce \/ Answer \/ Leave
  <2>1. executed' = executed /\ vm'.worker \in {"hello", "announcing", "reporting", "leaving"}
    BY <1>0, <1>1 DEF Connect, Announce, Answer, Leave, Vm, VmType
  <2> QED BY <2>1
<1>2. CASE Babble \/ LauncherReports
  <2>1. vm'.worker = vm.worker /\ vm'.run = vm.run /\ vm'.in = vm.in /\ executed' = executed
    BY <1>0, <1>2 DEF Babble, LauncherReports, Vm, VmType
  <2> QED BY <2>1
<1>3. CASE Ask
  <2>1. PICK i \in Inputs, m \in BOOLEAN :
          vm' = [vm EXCEPT !.worker = "asking", !.input = i, !.left = IF m THEN @ - 1 ELSE @,
                           !.out = Append(@, [Msg("prepare") EXCEPT !.input = i, !.mutation = m])]
    BY <1>3, Params DEF Ask, Vm, Offered
  <2>2. vm'.worker = "asking" /\ vm'.in = vm.in BY <1>0, <2>1 DEF VmType
  <2>3. vm.in.kind # "run" /\ executed' = executed BY <1>0, <1>3 DEF Ask
  <2> QED BY <2>2, <2>3
<1>4. CASE AnswerIsLate \/ Crash \/ LauncherKills \/ LauncherDies
  <2>1. executed' = executed /\ \E e \in {"signal", "exit", "killed", vm.end} :
          vm' = Ended(vm, e) \/ vm' = [Ended(vm, e) EXCEPT !.lost = TRUE]
    BY <1>4 DEF AnswerIsLate, Crash, LauncherKills, LauncherDies, Vm
  <2>2. vm'.worker = "dead" BY <1>0, <2>1 DEF Ended, VmType
  <2> QED BY <2>1, <2>2
<1>5. CASE ReadAnswer
  <2> DEFINE w == [vm EXCEPT !.in = Nothing]
  <2>1. w \in VmType /\ w.in = Nothing BY <1>0 DEF VmType, Answers, Nothing
  <2>2. CASE vm.worker = "asking" /\ vm.in.kind = "run"
    <3>1. vm' = [w EXCEPT !.worker = "running", !.run = vm.in.run] /\ executed' = executed \cup {vm.in.run}
      BY <1>5, <2>2 DEF ReadAnswer, Vm
    <3>2. vm'.worker = "running" /\ vm'.run = vm.in.run BY <2>1, <3>1 DEF VmType
    <3> QED BY <2>2, <3>1, <3>2
  <2>3. CASE ~(vm.worker = "asking" /\ vm.in.kind = "run")
    <3>1. /\ executed' = executed
          /\ \/ \E to \in {"setup", "idle"} : vm' = [w EXCEPT !.worker = to]
             \/ vm' = [w EXCEPT !.worker = "idle", !.run = 0, !.input = NoInput]
             \/ vm' = Ended(w, "exit")
      BY <1>5, <2>3 DEF ReadAnswer, Vm, Waits
    <3> HIDE DEF w
    <3>2. vm'.worker \in {"setup", "idle", "dead"} BY <2>1, <3>1 DEF VmType, Ended
    <3> QED BY <3>1, <3>2
  <2> QED BY <2>2, <2>3
<1> QED BY <1>1, <1>2, <1>3, <1>4, <1>5 DEF Worker, Launcher

(* A run that began and has its verdict keeps having one.                      *)
LEMMA VerdictStays ==
  ASSUME SafeInv, Acts \/ Harms, NEW r \in executed, Settled(r)
  PROVE  Settled(r)'
<1>0. r \in Slots /\ r \in Used
  BY DEF SafeInv, TypeOK, Kept, RanInv, JournalInv, Begun, Used, Entry
<1>1. CASE PublishRun \/ Authorize \/ Finish \/ SyncDirectory BY <1>0, <1>1, DiskStep DEF Settled
<1>2. CASE OnPrepare
  <2>1. CASE ~Fail
    <3>1. PICK q \in Slots : Free(q) /\ \A p \in Slots : p # q => journal'[p] = journal[p]
      BY <1>2, <2>1, TakesUp
    <3>2. r # q BY <1>0, <3>1 DEF Free, Slots
    <3> QED BY <1>0, <3>1, <3>2 DEF Settled
  <2>2. CASE Fail
    <3>1. s'.pc = "abort" BY <2>2 DEF Fail, Step, SafeInv, TypeOK, SupervisorType
    <3>2. journal' = journal \/ s'.pc = "publish"
      BY <1>2 DEF OnPrepare, SafeInv, TypeOK, SupervisorType
    <3> QED BY <3>1, <3>2 DEF Settled
  <2> QED BY <2>1, <2>2
<1>3. CASE ~(PublishRun \/ Authorize \/ Finish \/ SyncDirectory \/ OnPrepare)
  BY <1>3, ActsOnDisk DEF Settled
<1> QED BY <1>1, <1>2, <1>3

(* The steps that touch no record take none up, and only the end of the scan   *)
(* leads on from it.                                                           *)
LEMMA PlaceAfter ==
  ASSUME SafeInv, Acts \/ Harms, ~Launch,
         ~(PublishRun \/ Authorize \/ Finish \/ SyncDirectory \/ OnPrepare)
  PROVE  /\ Writing' => s' = s
         /\ s'.pc \in {"finding", "decide"} => s' = s \/ s.pc = "finding" \/ s.gen > 0 \/ Recovered
<1>0. s \in SupervisorType /\ ControlInv BY DEF SafeInv, TypeOK, Kept
<1>1. CASE s' = s BY <1>1
<1>2. CASE s'.pc \in {"abort", "down", "loop", "recover"} BY <1>2 DEF Writing
<1>3. CASE OnHello \/ OnReady \/ OnPrepareSpent \/ OnDone
  <2>1. s' = [s EXCEPT !.pc = "abort"] \/ s'.pc = "loop" BY <1>3, AnswerForms DEF Answering
  <2>2. s'.pc \in {"loop", "abort"} BY <1>0, <2>1 DEF SupervisorType
  <2> QED BY <1>2, <2>2
<1>4. CASE OnResult \/ Recover
  <2>1. s'.pc \in {"finish", "abort"}
    BY <1>0, <1>4 DEF OnResult, Recover, Fail, Step, SupervisorType
  <2> QED BY <2>1 DEF Writing
<1>5. Logged(s) \in SupervisorType /\ Logged(s).pc = s.pc
  BY <1>0, LoggedTyped DEF Logged, SupervisorType
<1>6. CASE OnBadFrame
  <2>1. s.pc = "loop" /\ s' = [Logged(s) EXCEPT !.stop = "worker_protocol_failure"]
    BY <1>6 DEF OnBadFrame, Hears
  <2>2. s'.pc = "loop" BY <1>5, <2>1 DEF SupervisorType
  <2> QED BY <1>2, <2>2
<1>7. CASE Drain \/ ReadEof \/ Accept \/ ReadEvidence \/ Kill \/ ParentSeen \/ EndUnclean
           \/ LauncherFailed \/ Deadline \/ CampaignDeadline \/ FrameStalls \/ KillUnconfirmed
  <2>1. s'.pc \in {"loop", "abort"}
    BY <1>0, <1>7 DEF Drain, ReadEof, Accept, ReadEvidence, Kill, ParentSeen, EndUnclean, LauncherFailed,
       Deadline, CampaignDeadline, FrameStalls, KillUnconfirmed, InLoop, SupervisorType
  <2> QED BY <1>2, <2>1
<1>8. CASE End
  <2>1. \/ s' = [Logged(s) EXCEPT !.pc = "decide", !.status = GenerationStatus]
        \/ s' = [Logged(s) EXCEPT !.pc = "finish", !.after = "index", !.rec = s.pending,
                                  !.verdict = Reason]
    BY <1>8 DEF End, InLoop
  <2>2. s'.pc \in {"decide", "finish"} BY <1>5, <2>1 DEF SupervisorType
  <2>3. s.gen > 0 BY <1>0, <1>8 DEF End, InLoop, ControlInv
  <2> QED BY <2>2, <2>3 DEF Writing
<1>9. CASE Permit
  <2>1. s' = [s EXCEPT !.pc = "loop", !.state = "EXECUTING"] \/ s' = [s EXCEPT !.pc = "abort"]
    BY <1>9 DEF Permit, Send, Fail, Step
  <2>2. s'.pc \in {"loop", "abort"} BY <1>0, <2>1 DEF SupervisorType
  <2> QED BY <1>2, <2>2
<1>10. CASE Index
  <2>1. s'.pc = "decide" /\ s.gen > 0
    BY <1>0, <1>10 DEF Index, SupervisorType, ControlInv, Closing
  <2> QED BY <2>1 DEF Writing
<1>11. CASE Acknowledge
  <2> DEFINE t == [Logged(s) EXCEPT !.pc = "loop", !.pending = 0, !.state = "READY",
                                    !.verdict = "none", !.dirty = FALSE]
             u == [t EXCEPT !.stop = "dirty_recycle", !.state = "RECYCLING",
                            !.quarantine = t.quarantine \cup {journal[s.rec].input}]
  <2>1. Send(IF s.dirty THEN u ELSE t, vm, "ack", s.rec) BY <1>11 DEF Acknowledge
  <2>2. t.pc = "loop" /\ u.pc = "loop" BY <1>5 DEF SupervisorType
  <2> HIDE DEF t, u
  <2>3. s' = t \/ s' = u \/ s' = [s EXCEPT !.pc = "abort"] BY <2>1 DEF Send, Fail, Step
  <2>4. s'.pc \in {"loop", "abort"} BY <1>0, <2>2, <2>3 DEF SupervisorType
  <2> QED BY <1>2, <2>4
<1>12. CASE Recovered \/ LoadFinding \/ LaunchFails \/ DiskFails
  <2>1. /\ s'.pc \in {"abort", "decide", "finding"}
        /\ LoadFinding => s.pc = "finding"
        /\ LaunchFails \/ DiskFails => s'.pc = "abort"
    BY <1>0, <1>12 DEF Recovered, LoadFinding, LaunchFails, DiskFails, Fail, Step, SupervisorType
  <2> QED BY <1>12, <2>1 DEF Writing
<1>13. CASE Report \/ Abort \/ SupervisorDies
  <2>1. CASE Report BY <1>2, <2>1 DEF Report, Gone, Fresh
  <2>2. CASE Abort BY <1>1, <1>2, <2>2 DEF Abort, Gone, Fresh
  <2>3. CASE SupervisorDies BY <1>2, <2>3 DEF SupervisorDies, Gone, Fresh
  <2> QED BY <1>13, <2>1, <2>2, <2>3
<1>14. ParentDies \/ Rot => s' = s BY DEF ParentDies, Rot
<1> QED BY <1>1, <1>3, <1>4, <1>6, <1>7, <1>8, <1>9, <1>10, <1>11, <1>12, <1>13, <1>14
        DEF Acts, Harms, Supervisor, Frames, Supervise, Records, Conduct

(* What is left behind stays read: the records that a step adds to the scan    *)
(* are of the present campaign.                                                *)
LEMMA ScanStays ==
  ASSUME SafeInv, JudgedInv, Acts \/ Harms, ~Launch
  PROVE  /\ Writing' => Current(s.rec)'
         /\ Scanned' => \A r \in Slots : journal'[r].mem > 0 => Current(r)' \/ Settled(r)'
<1>0. /\ s \in SupervisorType /\ journal \in [Slots -> Entry] /\ ControlInv /\ VerdictInv /\ JournalInv
      /\ s.gen \in Nat
  BY Params DEF SafeInv, TypeOK, Kept, SupervisorType
<1>1. world'.boots = world.boots BY CalmStep DEF Calm
<1>2. s'.gen \in Nat
  <2>1. Next BY DEF Acts, Harms, Next, Mishap
  <2> QED BY <2>1, SafeStep, Params DEF SafeInv, TypeOK, SupervisorType
<1>3. CASE PublishRun \/ Authorize \/ Finish \/ SyncDirectory
  <2>1. /\ s.rec \in Slots
        /\ \A q \in Slots :
              /\ q # s.rec => journal'[q] = journal[q]
              /\ journal'[q].campaign = journal[q].campaign
    BY <1>3, DiskStep
  <2>2. \A q \in Slots : Current(q)' <=> Current(q) BY <1>1, <2>1 DEF Current
  <2>3. s'.rec = s.rec /\ s'.gen = s.gen
    BY <1>0, <1>3 DEF PublishRun, Authorize, Finish, SyncDirectory, Step, SupervisorType
  <2>4. s'.pc \in {"sync", "abort", s.after} \/ Writing
    BY <1>0, <1>3 DEF PublishRun, Authorize, Finish, SyncDirectory, Step, SupervisorType, Writing
  <2>5. Writing' => Writing
    BY <1>0, <1>3 DEF PublishRun, Authorize, Finish, SyncDirectory, Step, SupervisorType, Writing, ControlInv
  <2>6. Scanned' => Scanned
    <3>1. s.pc \notin {"down", "abort"}
      BY <1>3 DEF PublishRun, Authorize, Finish, SyncDirectory
    <3>2. s.after \notin {"finding", "decide"} \/ Writing
      BY <1>0, <1>3 DEF PublishRun, Authorize, Finish, SyncDirectory, ControlInv, Writing
    <3>3. Writing => s.gen > 0 BY <1>0 DEF ControlInv
    <3> QED BY <2>3, <2>4, <3>1, <3>2, <3>3 DEF Scanned
  <2>7. Scanned => (Current(s.rec) \/ Settled(s.rec)' \/ journal'[s.rec].mem = 0)
    <3> SUFFICES ASSUME Scanned, ~Current(s.rec) PROVE Settled(s.rec)' \/ journal'[s.rec].mem = 0
      OBVIOUS
    <3>1. journal[s.rec].mem > 0 => Settled(s.rec) BY <2>1 DEF JudgedInv
    <3>2. ~Writing BY DEF JudgedInv
    <3>3. CASE Finish
      <4>1. journal[s.rec].mem < 3 => journal'[s.rec] = [journal[s.rec] EXCEPT !.mem = 3, !.result = s.verdict]
        BY <1>0, <2>1, <3>3 DEF Finish
      <4>2. journal[s.rec].mem < 3 => Settled(s.rec)'
        BY <1>0, <2>1, <2>3, <3>3, <4>1 DEF Settled, Entry, VerdictInv, Finish
      <4>3. journal[s.rec].mem >= 3 => journal' = journal BY <1>0, <2>1, <3>3 DEF Finish, Entry
      <4> QED BY <1>0, <2>1, <2>3, <3>1, <4>2, <4>3 DEF Settled, Entry
    <3>4. CASE SyncDirectory
      <4>1. journal' = [journal EXCEPT ![s.rec].safe = IF Named THEN journal[s.rec].mem ELSE 0]
        BY <3>4 DEF SyncDirectory
      <4>2. journal'[s.rec].mem = journal[s.rec].mem /\ journal'[s.rec].result = journal[s.rec].result
        BY <1>0, <2>1, <4>1 DEF Entry
      <4>3. journal[s.rec].mem \in 0..3 BY <1>0, <2>1 DEF Entry
      <4> QED BY <2>3, <3>1, <4>2, <4>3 DEF Settled
    <3>5. CASE PublishRun \/ Authorize BY <3>2, <3>5 DEF PublishRun, Authorize, Writing
    <3> QED BY <1>3, <3>3, <3>4, <3>5
  <2>8. ASSUME Scanned', NEW r \in Slots, journal'[r].mem > 0 PROVE Current(r)' \/ Settled(r)'
    <3>1. CASE r = s.rec
      <4>1. Current(r) \/ Settled(r)' BY <2>3, <2>6, <2>7, <2>8, <3>1 DEF Settled
      <4>2. Current(r) => Current(r)' BY <2>1, <2>2, <3>1
      <4> QED BY <4>1, <4>2
    <3>2. CASE r # s.rec BY <2>1, <2>2, <2>6, <2>8, <3>2 DEF Settled, JudgedInv
    <3> QED BY <3>1, <3>2
  <2> QED BY <2>1, <2>2, <2>3, <2>5, <2>8 DEF JudgedInv, Current
<1>4. CASE OnPrepare /\ ~Fail
  <2>1. PICK r \in Slots :
            /\ s'.rec = r /\ s.gen > 0 /\ s.pc = "loop"
            /\ journal'[r].campaign = world.boots
            /\ \A q \in Slots : q # r => journal'[q] = journal[q]
    BY <1>4, TakesUp
  <2>2. Current(r)' /\ Current(s.rec)' BY <1>1, <2>1 DEF Current
  <2>3. \A q \in Slots : q # r => (Current(q)' <=> Current(q)) BY <1>1, <2>1 DEF Current
  <2>4. Scanned BY <2>1 DEF Scanned
  <2> QED BY <2>1, <2>2, <2>3, <2>4 DEF JudgedInv, Settled, Current
<1>5. CASE ~(PublishRun \/ Authorize \/ Finish \/ SyncDirectory) /\ ~(OnPrepare /\ ~Fail)
  <2>1. CASE OnPrepare
    <3>1. s'.pc = "abort" BY <1>5, <2>1 DEF Fail, Step, SafeInv, TypeOK, SupervisorType
    <3> QED BY <3>1 DEF Writing, Scanned
  <2>2. CASE ~OnPrepare
    <3>1. journal' = journal BY <1>5, <2>2, ActsOnDisk
    <3>2. \A r \in Slots : (Current(r)' <=> Current(r)) /\ (Settled(r)' <=> Settled(r))
      BY <1>1, <3>1 DEF Current, Settled
    <3>3. Writing' => s' = s BY <1>5, <2>2, PlaceAfter
    <3>4. Writing' => Current(s.rec)'
      BY <1>1, <3>1, <3>3 DEF JudgedInv, Current, Writing
    <3>5. CASE Scanned BY <3>1, <3>2, <3>4, <3>5 DEF JudgedInv
    <3>6. CASE ~Scanned /\ Scanned'
      <4>1. s'.gen = 0 /\ s.gen = 0 /\ s.pc \notin {"down", "abort"}
        BY <1>0, <1>2, <3>6, CalmStep DEF Calm, Running, Scanned
      <4>2. s'.pc \in {"finding", "decide"} /\ s.pc \notin {"finding", "decide"}
        BY <3>6, <4>1 DEF Scanned
      <4>3. Recovered BY <1>5, <2>2, <4>1, <4>2, PlaceAfter
      <4>4. Open = {} BY <4>3 DEF Recovered
      <4>5. \A r \in Slots : journal[r].mem > 0 => Settled(r) BY <4>4 DEF Open, Used, Settled
      <4> QED BY <3>1, <3>2, <3>4, <4>5
    <3> QED BY <3>4, <3>5, <3>6
  <2> QED BY <2>1, <2>2
<1> QED BY <1>3, <1>4, <1>5

(* The worker and the supervisors that start it, step by step.                 *)
LEMMA JudgedStep ==
  ASSUME SafeInv, CampaignInv, JudgedInv, Next
  PROVE  JudgedInv'
<1>0. s \in SupervisorType /\ executed \subseteq Slots BY DEF SafeInv, TypeOK
<1>1. CASE (Acts \/ Harms) /\ ~Launch
  <2>1. /\ executed' = executed /\ vm'.worker = vm.worker /\ vm'.run = vm.run
        /\ vm'.in.kind = "run" => vm'.in = vm.in \/ (Permit /\ vm'.in.run = s.rec)
    BY <1>1, VmApart
  <2>2. \A r \in executed : Settled(r) => Settled(r)' BY <1>1, VerdictStays
  <2>3. ASSUME Permit, NEW r \in executed PROVE r = s.rec \/ Settled(r)'
    <3>1. s.pc = "permit" /\ Writing /\ Running /\ Scanned
      BY <2>3 DEF Permit, Writing, Running, Scanned, SafeInv, Kept, ControlInv
    <3>2. journal[r].mem > 0
      BY <1>0 DEF SafeInv, TypeOK, Kept, RanInv, JournalInv, Begun, Entry
    <3>3. CASE Current(r)
      <4>1. journal[r].safe = 3 \/ InFlight(r) BY <1>0, <3>1, <3>3 DEF CampaignInv
      <4>2. journal[r].safe = 3 => Settled(r)
        BY <1>0 DEF SafeInv, TypeOK, Kept, JournalInv, Entry, Settled
      <4> QED BY <2>2, <4>1, <4>2 DEF InFlight
    <3>4. CASE ~Current(r) BY <1>0, <2>2, <3>1, <3>2, <3>4 DEF JudgedInv
    <3> QED BY <3>3, <3>4
  <2>4. /\ Writing' => Current(s.rec)'
        /\ Scanned' => \A r \in Slots : journal'[r].mem > 0 => Current(r)' \/ Settled(r)'
    BY <1>1, ScanStays
  <2>5. vm'.worker = "asking" /\ vm'.in.kind = "run" =>
           \A r \in executed' : r = vm'.in.run \/ Settled(r)'
    BY <2>1, <2>2, <2>3 DEF JudgedInv
  <2>6. AbandonedIsJudged' BY <2>1, <2>2 DEF JudgedInv, AbandonedIsJudged, Settled
  <2> QED BY <2>4, <2>5, <2>6 DEF JudgedInv
<1>2. CASE Launch
  <2>1. /\ s.pc = "decide" /\ s'.pc = "loop" /\ journal' = journal /\ world' = world /\ executed' = executed
        /\ vm' = [NoVm EXCEPT !.worker = "booting", !.avoid = WorkerArgs.avoid, !.left = WorkerArgs.left]
    BY <1>0, <1>2 DEF Launch, SupervisorType
  <2>2. vm'.worker = "booting" BY <2>1 DEF NoVm
  <2>3. Scanned BY <2>1 DEF Scanned
  <2>4. \A r \in Slots : journal'[r].mem > 0 => Current(r)' \/ Settled(r)'
    BY <2>1, <2>3 DEF JudgedInv, Current, Settled
  <2> QED BY <2>1, <2>2, <2>4 DEF JudgedInv, Writing, AbandonedIsJudged
<1>3. CASE Start
  <2>1. /\ s'.pc = "recover" /\ s'.gen = 0 /\ vm' = vm /\ journal' = journal /\ executed' = executed
    BY <1>3 DEF Start, Fresh
  <2>2. ~Writing' /\ ~Scanned' BY <2>1 DEF Writing, Scanned
  <2> QED BY <2>1, <2>2 DEF JudgedInv, AbandonedIsJudged, Settled
<1>4. CASE PowerLoss
  <2>1. s'.pc = "down" /\ vm'.worker = "none" BY <1>4 DEF PowerLoss, Gone, Fresh, NoVm
  <2> QED BY <2>1 DEF JudgedInv, Writing, Scanned, AbandonedIsJudged
<1>5. CASE Worker \/ Launcher \/ LauncherDies
  <2>1. s' = s /\ journal' = journal /\ world' = world BY <1>5, WorkerApart
  <2>2. (Writing' <=> Writing) /\ (Scanned' <=> Scanned) /\ s'.rec = s.rec
        /\ \A r : (Current(r)' <=> Current(r)) /\ (Settled(r)' <=> Settled(r))
    BY <2>1 DEF Writing, Scanned, Current, Settled
  <2>3. vm'.worker = "asking" /\ vm'.in.kind = "run" =>
           \A r \in executed' : r = vm'.in.run \/ Settled(r)'
    BY <1>5, <2>2, WorkerBegins DEF JudgedInv
  <2>4. vm'.worker = "running" => \A r \in executed' : r = vm'.run \/ Settled(r)'
    BY <1>5, <2>2, WorkerBegins DEF JudgedInv, AbandonedIsJudged, Settled
  <2>5. AbandonedIsJudged' BY <2>4 DEF AbandonedIsJudged, Settled
  <2> QED BY <2>1, <2>2, <2>3, <2>5 DEF JudgedInv
<1> QED BY <1>1, <1>2, <1>3, <1>4, <1>5, Steps

(* Everything together, at the start and at every step.                        *)
LEMMA FullStep == FullInv /\ [Next]_vars => FullInv'
<1> SUFFICES ASSUME FullInv, [Next]_vars PROVE FullInv' OBVIOUS
<1>1. SafeInv' BY SafeStep DEF FullInv
<1>2. CASE Next BY <1>1, <1>2, CampaignStep, PoisonStep DEF FullInv
<1>3. CASE UNCHANGED vars
  BY <1>1, <1>3 DEF vars, FullInv, CampaignInv, PoisonInv, AvoidInv, Avoiding, PoisonRunsOnce, Running, Current,
                    Poison, InFlight, Writing, Finalizing, Closing, InRecord, Replay
<1> QED BY <1>2, <1>3

(* Why workers die, at every step of a behaviour.                              *)
LEMMA HonestStep == HonestInv /\ [Next]_vars => HonestInv'
<1> SUFFICES ASSUME HonestInv, [Next]_vars PROVE HonestInv' OBVIOUS
<1>1. SafeInv' BY SafeStep DEF HonestInv
<1>2. CASE Next BY <1>1, <1>2, CrashStep DEF HonestInv
<1>3. CASE UNCHANGED vars BY <1>1, <1>3 DEF vars, HonestInv, CrashInv, Closing, InRecord
<1> QED BY <1>2, <1>3

(* The invariant holds of every behaviour.                                     *)
THEOREM Invariant == Spec => []FullInv
<1>1. Init => FullInv BY SafeInit, CampaignInit, PoisonStart DEF FullInv
<1> QED BY <1>1, FullStep, PTL DEF Spec

(* Every variable has its type, whatever the inputs, budgets and scenarios.    *)
THEOREM TypeCorrect == Spec => []TypeOK
<1>1. FullInv => TypeOK BY DEF FullInv, SafeInv
<1> QED BY <1>1, Invariant, PTL

(* A worker runs an input only under a record of that input whose permission   *)
(* is on disk for good (Journal.authorize before the permission is sent).      *)
THEOREM ExecutionAuthorized == Spec => []ExecutionIsAuthorized
<1>1. FullInv => ExecutionIsAuthorized
  BY DEF FullInv, SafeInv, Kept, RunInv, RanInv, Begun, ExecutionIsAuthorized
<1> QED BY <1>1, Invariant, PTL

(* "interrupted_prepared" is only ever said of a run that did not begin, and a *)
(* result of its own only of one that did, through crashes and power losses.   *)
THEOREM VerdictsTrue == Spec => []VerdictsMatchHistory
<1>1. FullInv => VerdictsMatchHistory
  BY DEF FullInv, SafeInv, Kept, RanInv, Begun, Own, VerdictsMatchHistory
<1> QED BY <1>1, Invariant, PTL

(* An input that took its VM down or spoiled it is not run again in its        *)
(* campaign, whatever generations, crashes and restarts follow.                *)
THEOREM PoisonAvoided == Spec => []PoisonRunsOnce
<1>1. FullInv => PoisonRunsOnce BY DEF FullInv, PoisonInv, PoisonRunsOnce
<1> QED BY <1>1, Invariant, PTL

(* The record of a run is opened only when the one before it in its campaign   *)
(* has its result on disk.                                                     *)
THEOREM RunsAreSequential == Spec => []OneRunAtATime
<1>1. FullInv => OneRunAtATime
  <2> SUFFICES ASSUME FullInv PROVE OneRunAtATime OBVIOUS
  <2>1. \A r \in Slots : journal[r].safe = 3 => journal[r].result # "none"
    BY DEF FullInv, SafeInv, TypeOK, Kept, JournalInv, Entry
  <2> QED BY <2>1 DEF FullInv, CampaignInv, OneRunAtATime
<1> QED BY <1>1, Invariant, PTL

(* A result that is on disk stands: no supervisor of this campaign or of a     *)
(* later one, and no power loss, changes it (Journal.finish).                  *)
THEOREM ResultsKept == Spec => ResultsStand
<1> DEFINE A == \A r \in Slots : journal[r].safe = 3 =>
                   /\ journal'[r].safe = 3 /\ journal'[r].result = journal[r].result
                   /\ journal'[r].input = journal[r].input /\ journal'[r].campaign = journal[r].campaign
<1>1. FullInv /\ [Next]_vars => [A]_vars
  <2> SUFFICES ASSUME FullInv, Next PROVE A BY DEF vars
  <2> QED BY FinalStays DEF FullInv
<1>2. ResultsStand <=> [][A]_vars BY DEF ResultsStand
<1> QED BY <1>1, <1>2, Invariant, PTL DEF Spec

(* A run left in flight by a supervisor that was killed, or that an error or   *)
(* the end of its worker stopped, has its verdict before another input is run: *)
(* when a worker runs, every run that began but that one has a result in the   *)
(* journal (Journal.__init__ before the first generation, Journal.finish       *)
(* before the next request).                                                   *)
THEOREM AbandonedJudged == Spec => []AbandonedIsJudged
<1> DEFINE I == SafeInv /\ CampaignInv /\ JudgedInv
<1>1. Init => I
  <2> SUFFICES ASSUME Init PROVE I OBVIOUS
  <2>1. s.pc = "down" /\ vm.worker = "none" BY DEF Init, Gone, Fresh, NoVm
  <2>2. JudgedInv BY <2>1 DEF JudgedInv, Writing, Scanned, AbandonedIsJudged
  <2> QED BY <2>2, SafeInit, CampaignInit
<1>2. I /\ [Next]_vars => I'
  <2> SUFFICES ASSUME I, [Next]_vars PROVE I' OBVIOUS
  <2>1. SafeInv' BY SafeStep
  <2>2. CASE Next BY <2>1, <2>2, CampaignStep, JudgedStep
  <2>3. CASE UNCHANGED vars
    BY <2>1, <2>3 DEF vars, CampaignInv, JudgedInv, AbandonedIsJudged, Running, Current, Settled, Scanned,
                      InFlight, Writing, Finalizing, Closing, InRecord
  <2> QED BY <2>2, <2>3
<1>3. I => AbandonedIsJudged BY DEF JudgedInv
<1> QED BY <1>1, <1>2, <1>3, PTL DEF Spec

(* A worker is followed by another one only when it, and all it started, is    *)
(* reaped and its launcher has said so.                                        *)
THEOREM ReplacedReaped == Spec => ReplacedWhenReaped
<1> DEFINE A == s'.gen > s.gen /\ s.gen > 0 => vm.worker = "dead" /\ vm.line /\ vm.clean
<1>1. FullInv /\ [Next]_vars => [A]_vars
  <2> SUFFICES ASSUME FullInv, Next, s'.gen > s.gen, s.gen > 0
               PROVE  vm.worker = "dead" /\ vm.line /\ vm.clean
    BY DEF vars
  <2>1. s.gen \in Nat BY Params DEF FullInv, SafeInv, TypeOK, SupervisorType
  <2>2. Launch BY <2>1, GenerationStays DEF FullInv
  <2>3. s.pc = "decide" BY <2>2 DEF Launch
  <2> QED BY <2>3 DEF FullInv, SafeInv, Kept, EndInv
<1>2. ReplacedWhenReaped <=> [][A]_vars BY DEF ReplacedWhenReaped
<1> QED BY <1>1, <1>2, Invariant, PTL DEF Spec

(* A native crash is reported only of a worker that died with its run in       *)
(* flight, not by leaving, and that the supervisor had not told its launcher   *)
(* to kill; of a signal of its own, unless the launcher got one from           *)
(* elsewhere.                                                                  *)
THEOREM CrashReportsHonest == Spec => []CrashIsHonest
<1>1. Init => HonestInv BY SafeInit, CrashStart DEF HonestInv
<1>2. HonestInv => CrashIsHonest
  <2> SUFFICES ASSUME HonestInv, s.pc \in {"finish", "index"}, s.verdict = "native_vm_crash"
               PROVE  /\ ~vm.told
                      /\ vm.end = "signal" \/ (vm.end = "killed" /\ "launcher" \in world.faults)
    BY DEF CrashIsHonest
  <2>1. Closing /\ s.stop = "none" BY DEF HonestInv, CrashInv, Closing, InRecord
  <2>2. s.gen > 0 BY <2>1 DEF HonestInv, SafeInv, Kept, ControlInv
  <2>3. ~vm.told BY <2>1, <2>2 DEF HonestInv, CrashInv
  <2> QED BY <2>3 DEF HonestInv, CrashInv, Closing, InRecord
<1>3. HonestInv /\ [Next]_vars => HonestInv' BY HonestStep
<1> QED BY <1>1, <1>2, <1>3, PTL DEF Spec
=============================================================================
