------------------------------- MODULE Runner -------------------------------
(***************************************************************************)
(* The VM as a runner of executions: the admission of efz_guardian:run/6   *)
(* and the life of its dirty_runner marker, over several executions asked  *)
(* for by several processes.  A guardian owns the VM while the name        *)
(* efz_execution_guardian is registered to it; the runtime gives the name  *)
(* back when the guardian ends, however it ends.  The marker is a          *)
(* persistent term: it outlives every process.                             *)
(*                                                                         *)
(* What happens inside an execution is the business of Guardian; here it   *)
(* either ends with a confirmed cleanup or leaves processes behind.        *)
(***************************************************************************)
EXTENDS Naturals, FiniteSets

CONSTANTS
    Callers,          \* processes that call efz_executor:run/4
    NoCaller,         \* the name is free
    CallersMayDie,    \* whether a caller may die in the middle of a call
    GuardiansMayDie   \* whether a guardian may end abnormally

ASSUME RunnerAssumption ==
    /\ NoCaller \notin Callers
    /\ CallersMayDie \in BOOLEAN /\ GuardiansMayDie \in BOOLEAN

VARIABLES
    caller,    \* idle, waiting, dead
    guardian,  \* of the call: none, born, registered, admitted, running,
               \* replied, done, dead
    name,      \* whose guardian is registered
    dirty,     \* the dirty_runner marker
    reply,     \* what the guardian answered
    orphans    \* ended executions that left processes alive: "reported" by
               \* a guardian that replied, "lost" with one that died

vars == <<caller, guardian, name, dirty, reply, orphans>>

Replies == {"none", "busy", "dirty", "rejected", "clean", "retired"}

Init ==
    /\ caller = [c \in Callers |-> "idle"]
    /\ guardian = [c \in Callers |-> "none"]
    /\ name = NoCaller /\ dirty = FALSE
    /\ reply = [c \in Callers |-> "none"]
    /\ orphans = {}

Holding(c) == guardian[c] \in {"registered", "admitted", "running"}
Move(c, state) == guardian' = [guardian EXCEPT ![c] = state]
Release(c) == name' = IF name = c THEN NoCaller ELSE name

Answer(c, r) == reply' = [reply EXCEPT ![c] = r] /\ Move(c, "replied")

Call(c) ==
    /\ caller[c] = "idle" /\ caller' = [caller EXCEPT ![c] = "waiting"]
    /\ Move(c, "born") /\ reply' = [reply EXCEPT ![c] = "none"]
    /\ UNCHANGED <<name, dirty, orphans>>

\* Mutant: a name in use is taken over.
RegisterOver(c) ==
    /\ guardian[c] = "born"
    /\ name' = c /\ Move(c, "registered")
    /\ UNCHANGED <<caller, dirty, reply, orphans>>

\* run/6: register, or answer runner_busy.
Register(c) ==
    /\ guardian[c] = "born"
    /\ \/ name = NoCaller /\ name' = c /\ Move(c, "registered") /\ UNCHANGED reply
       \/ name # NoCaller /\ Answer(c, "busy") /\ UNCHANGED name
    /\ UNCHANGED <<caller, dirty, orphans>>

\* Then read the marker, once.
CheckStatus(c) ==
    /\ guardian[c] = "registered"
    /\ \/ dirty /\ Answer(c, "dirty")
       \/ ~dirty /\ Move(c, "admitted") /\ UNCHANGED reply
    /\ UNCHANGED <<caller, name, dirty, orphans>>

\* Then compare the loaded code with the pins of the call.
ValidateIdentities(c) ==
    /\ guardian[c] = "admitted"
    /\ \/ Move(c, "running") /\ UNCHANGED reply
       \/ Answer(c, "rejected")
    /\ UNCHANGED <<caller, name, dirty, orphans>>

FinishClean(c) ==
    /\ guardian[c] = "running" /\ Answer(c, "clean")
    /\ UNCHANGED <<caller, name, dirty, orphans>>

\* Mutant: the guardian leaves the marking to its caller.
FinishUnmarked(c) ==
    /\ guardian[c] = "running" /\ Answer(c, "retired")
    /\ orphans' \in {orphans, orphans \cup {"reported"}}
    /\ UNCHANGED <<caller, name, dirty>>

\* finish/2 marks the VM before it replies, and so before it lets the name go.
FinishDirty(c) ==
    /\ guardian[c] = "running" /\ Answer(c, "retired")
    /\ dirty' = TRUE
    /\ orphans' \in {orphans, orphans \cup {"reported"}}
    /\ UNCHANGED <<caller, name>>

GuardianEnds(c) ==
    /\ guardian[c] = "replied" /\ Move(c, "done") /\ Release(c)
    /\ UNCHANGED <<caller, dirty, reply, orphans>>

\* The guardian is killed or crashes; nobody but its caller will know.
GuardianDies(c) ==
    /\ GuardiansMayDie
    /\ Holding(c) \/ guardian[c] \in {"born", "replied"}
    /\ Move(c, "dead") /\ Release(c)
    /\ \/ UNCHANGED orphans
       \/ guardian[c] = "running" /\ orphans' = orphans \cup {"lost"}
    /\ UNCHANGED <<caller, dirty, reply>>

\* run_pinned/4 after the guardian's DOWN.
Returns(c) ==
    /\ caller[c] = "waiting" /\ guardian[c] = "done"
    /\ caller' = [caller EXCEPT ![c] = "idle"]
    /\ UNCHANGED <<guardian, name, dirty, reply, orphans>>

\* Mutant: a failure after the reply does not retire the VM.
PoisonsUnlessReplied(c) ==
    /\ caller[c] = "waiting" /\ guardian[c] = "dead"
    /\ caller' = [caller EXCEPT ![c] = "idle"]
    /\ dirty' = (dirty \/ reply[c] = "retired")
    /\ UNCHANGED <<guardian, name, reply, orphans>>

\* guardian_failed/2.
Poisons(c) ==
    /\ caller[c] = "waiting" /\ guardian[c] = "dead"
    /\ caller' = [caller EXCEPT ![c] = "idle"] /\ dirty' = TRUE
    /\ UNCHANGED <<guardian, name, reply, orphans>>

CallerDies(c) ==
    /\ CallersMayDie /\ caller[c] # "dead"
    /\ caller' = [caller EXCEPT ![c] = "dead"]
    /\ UNCHANGED <<guardian, name, dirty, reply, orphans>>

OrphansDie ==
    /\ orphans # {} /\ orphans' \in SUBSET orphans
    /\ UNCHANGED <<caller, guardian, name, dirty, reply>>

Next ==
    \/ \E c \in Callers :
        \/ Call(c) \/ Register(c) \/ CheckStatus(c) \/ ValidateIdentities(c)
        \/ FinishClean(c) \/ FinishDirty(c) \/ GuardianEnds(c)
        \/ GuardianDies(c) \/ Returns(c) \/ Poisons(c) \/ CallerDies(c)
    \/ OrphansDie

Spec == Init /\ [][Next]_vars

-----------------------------------------------------------------------------
TypeOK ==
    /\ caller \in [Callers -> {"idle", "waiting", "dead"}]
    /\ guardian \in [Callers -> {"none", "born", "registered", "admitted",
                                 "running", "replied", "done", "dead"}]
    /\ name \in Callers \cup {NoCaller} /\ dirty \in BOOLEAN
    /\ reply \in [Callers -> Replies]
    /\ orphans \subseteq {"reported", "lost"}

(* One execution at a time: two guardians never own the VM together,       *)
(* whatever ends how (the registration in run/6).                          *)
OneExecution == \A c, d \in Callers : Holding(c) /\ Holding(d) => c = d

(* Processes that a guardian had to leave behind are never joined by a new *)
(* execution: the marker is set before the name is free (finish/2), and a  *)
(* guardian reads it only when it owns the name.                           *)
ReportedOrphansRunAlone ==
    "reported" \in orphans => \A c \in Callers : guardian[c] # "running"

(* Once the caller of a dead guardian has returned, nothing is admitted    *)
(* next to what that guardian left alive: the marker is set before the     *)
(* return (guardian_failed/2).  What remains is the time before, and the   *)
(* caller that never gets there.                                           *)
LossSeenBeforeAdmission ==
    [][\A c \in Callers :
           guardian[c] = "registered" /\ guardian'[c] = "admitted"
               /\ "lost" \in orphans =>
           \E d \in Callers : guardian[d] = "dead" /\ caller[d] # "idle"]_vars

(* "Guardian death / cleanup deadline: ... no VM reuse" as                 *)
(* docs/architecture.md has it: no execution runs next to what a dead      *)
(* guardian left alive.                                                    *)
NoReuseAfterGuardianDeath ==
    "lost" \in orphans => \A c \in Callers : guardian[c] # "running"
=============================================================================
