---------------------------- MODULE RunnerProofs ----------------------------
(* Proofs about Runner, for any number of callers and any faults.          *)
EXTENDS Runner, TLAPS

(* What is inductive: the name is the lock of the VM, a guardian that is   *)
(* still at work has a caller that is still waiting, and every process     *)
(* left behind is accounted for by the marker or by a caller on its way to *)
(* set it.                                                                 *)
Owners == \A c \in Callers : Holding(c) => name = c

Waited ==
    \A c \in Callers :
        Holding(c) \/ guardian[c] \in {"born", "replied"} => caller[c] # "idle"

ReportedRetire ==
    "reported" \in orphans =>
        dirty /\ \A c \in Callers : guardian[c] \notin {"admitted", "running"}

LostRetire ==
    "lost" \in orphans =>
        dirty \/ \E d \in Callers : guardian[d] = "dead" /\ caller[d] # "idle"

Ownership == TypeOK /\ Owners /\ Waited /\ ReportedRetire /\ LostRetire

LEMMA InitOwnership == Init => Ownership
  BY RunnerAssumption DEF Init, Ownership, TypeOK, Owners, Waited, ReportedRetire,
     LostRetire, Holding, Replies

(* Every step keeps the name with the guardian that owns the VM.           *)
LEMMA OwnershipStep ==
  ASSUME Ownership, [Next]_vars
  PROVE  Ownership'
<1> USE RunnerAssumption DEF Ownership, TypeOK, Holding, Replies, Move, Answer
<1>1. ASSUME NEW c \in Callers, Call(c) PROVE Ownership'
  <2>1. TypeOK' BY <1>1 DEF Call
  <2>2. Owners' /\ Waited' BY <1>1 DEF Call, Owners, Waited
  <2>3. ReportedRetire' /\ LostRetire' BY <1>1 DEF Call, ReportedRetire, LostRetire
  <2> QED BY <2>1, <2>2, <2>3
<1>2. ASSUME NEW c \in Callers, Register(c) PROVE Ownership'
  <2>1. TypeOK' BY <1>2 DEF Register
  <2>2. Owners' /\ Waited' BY <1>2 DEF Register, Owners, Waited
  <2>3. ReportedRetire' /\ LostRetire' BY <1>2 DEF Register, ReportedRetire, LostRetire
  <2> QED BY <2>1, <2>2, <2>3
<1>3. ASSUME NEW c \in Callers, CheckStatus(c) PROVE Ownership'
  <2>1. TypeOK' BY <1>3 DEF CheckStatus
  <2>2. Owners' /\ Waited' BY <1>3 DEF CheckStatus, Owners, Waited
  <2>3. ReportedRetire' /\ LostRetire' BY <1>3 DEF CheckStatus, ReportedRetire, LostRetire
  <2> QED BY <2>1, <2>2, <2>3
<1>4. ASSUME NEW c \in Callers, ValidateIdentities(c) PROVE Ownership'
  <2>1. TypeOK' BY <1>4 DEF ValidateIdentities
  <2>2. Owners' /\ Waited' BY <1>4 DEF ValidateIdentities, Owners, Waited
  <2>3. ReportedRetire' /\ LostRetire'
    BY <1>4 DEF ValidateIdentities, ReportedRetire, LostRetire
  <2> QED BY <2>1, <2>2, <2>3
<1>5. ASSUME NEW c \in Callers, FinishClean(c) PROVE Ownership'
  <2>1. TypeOK' BY <1>5 DEF FinishClean
  <2>2. Owners' /\ Waited' BY <1>5 DEF FinishClean, Owners, Waited
  <2>3. ReportedRetire' /\ LostRetire' BY <1>5 DEF FinishClean, ReportedRetire, LostRetire
  <2> QED BY <2>1, <2>2, <2>3
<1>6. ASSUME NEW c \in Callers, FinishDirty(c) PROVE Ownership'
  <2>1. TypeOK' BY <1>6 DEF FinishDirty
  <2>2. Owners' /\ Waited' BY <1>6 DEF FinishDirty, Owners, Waited
  \* The only guardian at work is the one that has just replied.
  <2>3. \A d \in Callers : guardian'[d] \notin {"admitted", "running"}
    BY <1>6 DEF FinishDirty, Owners
  <2>4. ReportedRetire' /\ LostRetire'
    BY <1>6, <2>3 DEF FinishDirty, ReportedRetire, LostRetire
  <2> QED BY <2>1, <2>2, <2>4
<1>7. ASSUME NEW c \in Callers, GuardianEnds(c) PROVE Ownership'
  <2>1. TypeOK' BY <1>7 DEF GuardianEnds, Release
  <2>2. Owners' /\ Waited' BY <1>7 DEF GuardianEnds, Release, Owners, Waited
  <2>3. ReportedRetire' /\ LostRetire' BY <1>7 DEF GuardianEnds, ReportedRetire, LostRetire
  <2> QED BY <2>1, <2>2, <2>3
<1>8. ASSUME NEW c \in Callers, GuardianDies(c) PROVE Ownership'
  <2>1. TypeOK' BY <1>8 DEF GuardianDies, Release
  <2>2. Owners' /\ Waited' BY <1>8 DEF GuardianDies, Release, Owners, Waited
  <2>3. ReportedRetire' BY <1>8 DEF GuardianDies, ReportedRetire
  \* The caller of the dead guardian is the witness.
  <2>4. guardian'[c] = "dead" /\ caller'[c] # "idle" BY <1>8 DEF GuardianDies, Waited
  <2>5. LostRetire' BY <2>4 DEF LostRetire
  <2> QED BY <2>1, <2>2, <2>3, <2>5
<1>9. ASSUME NEW c \in Callers, Returns(c) PROVE Ownership'
  <2>1. TypeOK' BY <1>9 DEF Returns
  <2>2. Owners' /\ Waited' BY <1>9 DEF Returns, Owners, Waited
  <2>3. ReportedRetire' /\ LostRetire' BY <1>9 DEF Returns, ReportedRetire, LostRetire
  <2> QED BY <2>1, <2>2, <2>3
<1>10. ASSUME NEW c \in Callers, Poisons(c) PROVE Ownership'
  <2>1. TypeOK' BY <1>10 DEF Poisons
  <2>2. Owners' /\ Waited' BY <1>10 DEF Poisons, Owners, Waited
  <2>3. ReportedRetire' /\ LostRetire' BY <1>10 DEF Poisons, ReportedRetire, LostRetire
  <2> QED BY <2>1, <2>2, <2>3
<1>11. ASSUME NEW c \in Callers, CallerDies(c) PROVE Ownership'
  <2>1. TypeOK' BY <1>11 DEF CallerDies
  <2>2. Owners' /\ Waited' BY <1>11 DEF CallerDies, Owners, Waited
  <2>3. ReportedRetire' /\ LostRetire' BY <1>11 DEF CallerDies, ReportedRetire, LostRetire
  <2> QED BY <2>1, <2>2, <2>3
<1>12. CASE OrphansDie
  BY <1>12 DEF OrphansDie, Owners, Waited, ReportedRetire, LostRetire
<1>13. CASE UNCHANGED vars
  BY <1>13 DEF vars, Owners, Waited, ReportedRetire, LostRetire
<1> QED
  BY <1>1, <1>2, <1>3, <1>4, <1>5, <1>6, <1>7, <1>8, <1>9, <1>10, <1>11, <1>12,
     <1>13 DEF Next

THEOREM OwnershipHolds == Spec => []Ownership
<1>1. Init => Ownership BY InitOwnership
<1>2. Ownership /\ [Next]_vars => Ownership' BY OwnershipStep
<1> QED BY <1>1, <1>2, PTL DEF Spec

(* Two executions never share the VM, for any number of callers.           *)
THEOREM OneExecutionHolds == Spec => []OneExecution
<1>1. Ownership => OneExecution BY DEF Ownership, Owners, OneExecution
<1> QED BY <1>1, OwnershipHolds, PTL

(* What a guardian reported it left alive is alone from then on.           *)
THEOREM ReportedOrphansAlone == Spec => []ReportedOrphansRunAlone
<1>1. Ownership => ReportedOrphansRunAlone
  BY DEF Ownership, ReportedRetire, ReportedOrphansRunAlone
<1> QED BY <1>1, OwnershipHolds, PTL

(* An admission next to what a dead guardian left alive precedes the       *)
(* return of that guardian's caller.                                       *)
THEOREM LossSeen == Spec => LossSeenBeforeAdmission
<1> DEFINE Seen ==
      \A c \in Callers :
          guardian[c] = "registered" /\ guardian'[c] = "admitted" /\ "lost" \in orphans =>
              \E d \in Callers : guardian[d] = "dead" /\ caller[d] # "idle"
<1>1. ASSUME Ownership, [Next]_vars PROVE [Seen]_vars
  <2> SUFFICES ASSUME NEW c \in Callers, guardian[c] = "registered",
                      guardian'[c] = "admitted", "lost" \in orphans, Next
               PROVE  \E d \in Callers : guardian[d] = "dead" /\ caller[d] # "idle"
    BY <1>1
  <2>1. CASE CheckStatus(c)
    BY <1>1, <2>1 DEF CheckStatus, Ownership, TypeOK, LostRetire, Answer, Move
  \* No other step admits anybody.
  <2>2. CASE ~CheckStatus(c)
    BY <1>1, <2>2 DEF Ownership, TypeOK, Next, Call, Register, CheckStatus,
       ValidateIdentities, FinishClean, FinishDirty, GuardianEnds, GuardianDies,
       Returns, Poisons, CallerDies, OrphansDie, Answer, Move, Holding
  <2> QED BY <2>1, <2>2
<1> QED BY <1>1, OwnershipHolds, PTL DEF Spec, LossSeenBeforeAdmission
=============================================================================
