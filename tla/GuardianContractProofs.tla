----------------------- MODULE GuardianContractProofs -----------------------
(***************************************************************************)
(* Guardian implements Execution: every step of the one is a step of the   *)
(* other or invisible there, for any number of processes.                  *)
(***************************************************************************)
EXTENDS GuardianProofs

(* The deeds that break the contract of an execution.                      *)
Offences == spoiled \cap {"plain_spawn", "remote_spawn", "declare_dirty", "contaminate"}

(* A step the caller cannot see is a stuttering step of Execution.         *)
LEMMA ContractStutter ==
  ASSUME UNCHANGED <<pstate, dirty, phase, seen>>, Offences' = Offences
  PROVE  UNCHANGED Contract!vars
BY DEF Contract!vars, Offences, LiveProcs, Live

(* A living process that breaks the contract takes a step Break.           *)
LEMMA ContractBreak ==
  ASSUME UNCHANGED <<pstate, dirty, phase, seen>>, LiveProcs # {}, Offences' # {}
  PROVE  Contract!Next
BY DEF Contract!Next, Contract!Break, Offences, LiveProcs, Live

(* Every step of the guardian, the target and the processes around them is *)
(* a step of Execution, or invisible there.                                *)
LEMMA ContractStep ==
  Bookkeeping /\ Bookkeeping' /\ [Next]_vars => [Contract!Next]_(Contract!vars)
<1> SUFFICES ASSUME Bookkeeping, Bookkeeping', [Next]_vars
             PROVE  [Contract!Next]_(Contract!vars)
  OBVIOUS
<1> USE GuardianAssumption
<1> USE DEF Bookkeeping, Identity, TraceOrigins, Tracking, Closing, Safe, Live,
            Born, LiveProcs, GuardianUp, Receiving, ConfirmedIsQuiet,
            ReusableIsUnspoiled, TypeOK, Contract!vars, Contract!Next,
            Contract!Begin, Contract!Fork, Contract!Break, Contract!Leave,
            Contract!Clear, Contract!Retire,
            fate, books, drain, notes, verdict, kills, mail, replies, coordinator,
            callerVars, world, guardianVars, vars
<1>1. CASE Start BY <1>1 DEF Start
<1>2. CASE RecvReady BY <1>2 DEF RecvReady
<1>3. CASE RecvDone
  BY <1>3 DEF RecvDone, DoneOutcome, TargetOutcome, Cleanup, Kill
<1>4. CASE RecvCoordinatorDown BY <1>4 DEF RecvCoordinatorDown, Cleanup, Kill
<1>5. CASE RecvCallerDown BY <1>5 DEF RecvCallerDown, Cleanup, Kill
<1>6. CASE RecvSamplerDown BY <1>6 DEF RecvSamplerDown
<1>7. CASE RequestGlobalBarrier
  BY <1>7 DEF RequestGlobalBarrier, AtRest, Drained
<1>8. CASE Finish
  <2>1. Publish("confirmed", violations) /\ phase = "cleaning"
    BY <1>8 DEF Finish, AtRest, Drained
  <2>2. dirty' <=> dirty \/ ~result'.reusable
    <3> HIDE DEF TypeOK
    <3> QED BY <2>1, PublishFacts DEF Bookkeeping
  <2>3. phase' = "replied" /\ UNCHANGED <<pstate, spoiled, seen>>
    BY <2>1, Zenon DEF Publish, books, world
  <2>4. dirty \in BOOLEAN /\ dirty' \in BOOLEAN
    BY DEF Bookkeeping, TypeOK
  <2>5. LiveProcs' = LiveProcs /\ Offences' = Offences
    BY <2>3 DEF Offences
  <2> QED BY <2>1, <2>2, <2>3, <2>4, <2>5 DEF Offences
<1>9. CASE GuardianExits
  <2>1. phase = "replied" /\ phase' = "done" /\ UNCHANGED <<pstate, spoiled, dirty, seen>>
    BY <1>9, Zenon DEF GuardianExits, books, world, verdict
  <2>2. LiveProcs' = LiveProcs /\ Offences' = Offences
    BY <2>1 DEF Offences
  <2>3. ~dirty => LiveProcs = {} /\ Offences = {}
    BY <2>1 DEF Offences
  <2>4. seen[Root] # "unseen" \/ dirty
    BY <2>1
  <2>5. CASE dirty
    BY <2>1, <2>2, <2>5 DEF Offences
  <2>6. CASE ~dirty
    BY <2>1, <2>2, <2>3, <2>4, <2>6 DEF Offences
  <2> QED BY <2>5, <2>6
<1>10. CASE ExpireRunning BY <1>10 DEF ExpireRunning, Cleanup, Kill
<1>11. CASE ExpireCleaning BY <1>11 DEF ExpireCleaning, Publish
<1>12. CASE GuardianDies BY <1>12 DEF GuardianDies
<1>13. CASE LoadCommits
  <2>1. UNCHANGED <<pstate, dirty, phase, seen>>
    BY <1>13, Zenon DEF LoadCommits, TargetFrame
  <2>2. Offences' = Offences
    BY <1>13 DEF LoadCommits, Offences
  <2> QED BY <2>1, <2>2, ContractStutter
<1>14. CASE Watches BY <1>14 DEF Watches
<1>15. CASE GetsResult BY <1>15 DEF GetsResult
<1>16. CASE Classifies BY <1>16 DEF Classifies
<1>17. CASE CoordinatorDies BY <1>17 DEF CoordinatorDies
<1>18. CASE SamplerExits BY <1>18 DEF SamplerExits
<1>19. CASE CallerReturns BY <1>19 DEF CallerReturns
<1>20. CASE CallerFindsGuardianDead BY <1>20 DEF CallerFindsGuardianDead
<1>21. CASE CallerDies BY <1>21 DEF CallerDies
<1>22. ASSUME NEW p \in Procs, AdmitChild(p) PROVE [Contract!Next]_(Contract!vars)
  BY <1>22 DEF AdmitChild
<1>23. ASSUME NEW p \in Procs, RefuseAtLimit(p) PROVE [Contract!Next]_(Contract!vars)
  BY <1>23 DEF RefuseAtLimit, Refuse, Cleanup, Kill
<1>24. ASSUME NEW p \in Procs, RefuseStopping(p) PROVE [Contract!Next]_(Contract!vars)
  BY <1>24 DEF RefuseStopping, Refuse
<1>25. ASSUME NEW p \in Procs, RecvDirty(p) PROVE [Contract!Next]_(Contract!vars)
  BY <1>25 DEF RecvDirty
<1>26. ASSUME NEW p \in Procs, RecvDown(p) PROVE [Contract!Next]_(Contract!vars)
  BY <1>26 DEF RecvDown
<1>27. ASSUME NEW p \in Procs, KillArrives(p) PROVE [Contract!Next]_(Contract!vars)
  BY <1>27 DEF KillArrives, Dies, TargetFrame, Become
<1>28. ASSUME NEW p \in Procs, GateAbandoned(p) PROVE [Contract!Next]_(Contract!vars)
  BY <1>28 DEF GateAbandoned, Dies, TargetFrame, Become, GuardianGone
<1>29. ASSUME NEW p \in Procs, GateOpens(p) PROVE [Contract!Next]_(Contract!vars)
  BY <1>29 DEF GateOpens, TargetFrame, Become, Emit, Message
<1>30. ASSUME NEW p \in Procs, RecvGrant(p) PROVE [Contract!Next]_(Contract!vars)
  BY <1>30 DEF RecvGrant, TargetFrame, Become
<1>31. ASSUME NEW p \in Procs, RecvDenial(p) PROVE [Contract!Next]_(Contract!vars)
  BY <1>31 DEF RecvDenial, TargetFrame, Become
<1>32. ASSUME NEW p \in Procs, OwnerLost(p) PROVE [Contract!Next]_(Contract!vars)
  BY <1>32 DEF OwnerLost, TargetFrame
<1>33. ASSUME NEW p \in Procs, Exits(p) PROVE [Contract!Next]_(Contract!vars)
  BY <1>33 DEF Exits, Dies, TargetFrame, Become
<1>34. ASSUME NEW p \in Procs, RemoteSpawn(p) PROVE [Contract!Next]_(Contract!vars)
  <2>1. UNCHANGED <<pstate, dirty, phase, seen>> /\ p \in LiveProcs
    BY <1>34 DEF RemoteSpawn, TargetFrame, Running
  <2>2. Offences' # {}
    BY <1>34 DEF RemoteSpawn, Spoil, Offences
  <2> QED BY <2>1, <2>2, ContractBreak
<1>35. ASSUME NEW p \in Procs, DeclareDirty(p) PROVE [Contract!Next]_(Contract!vars)
  <2>1. UNCHANGED <<pstate, dirty, phase, seen>> /\ p \in LiveProcs
    BY <1>35 DEF DeclareDirty, TargetFrame, Running
  <2>2. Offences' # {}
    BY <1>35 DEF DeclareDirty, Spoil, Offences
  <2> QED BY <2>1, <2>2, ContractBreak
<1>36. ASSUME NEW p \in Procs, Detach(p) PROVE [Contract!Next]_(Contract!vars)
  <2>1. UNCHANGED <<pstate, dirty, phase, seen>>
    BY <1>36, Zenon DEF Detach, TargetFrame
  <2>2. Offences' = Offences
    BY <1>36 DEF Detach, Spoil, Offences
  <2> QED BY <2>1, <2>2, ContractStutter
<1>37. ASSUME NEW p \in Procs, Contaminate(p) PROVE [Contract!Next]_(Contract!vars)
  <2>1. UNCHANGED <<pstate, dirty, phase, seen>> /\ p \in LiveProcs
    BY <1>37 DEF Contaminate, TargetFrame, Running
  <2>2. Offences' # {}
    BY <1>37 DEF Contaminate, Spoil, Offences
  <2> QED BY <2>1, <2>2, ContractBreak
<1>38. ASSUME NEW p \in Procs, RequestLoad(p) PROVE [Contract!Next]_(Contract!vars)
  BY <1>38 DEF RequestLoad, TargetFrame, Running
<1>39. ASSUME NEW p \in Procs, NEW c \in Procs, RequestChild(p, c) PROVE [Contract!Next]_(Contract!vars)
  BY <1>39 DEF RequestChild, TargetFrame, Running
<1>40. ASSUME NEW p \in Procs, NEW c \in Procs, PlainSpawn(p, c) PROVE [Contract!Next]_(Contract!vars)
  <2>1. UNCHANGED <<dirty, phase, seen>> /\ p \in LiveProcs
    BY <1>40 DEF PlainSpawn, TargetFrame, Running
  <2>2. LiveProcs' = LiveProcs \cup {c} /\ Offences' # {}
    BY <1>40 DEF PlainSpawn, Become, Spoil, Running, Offences
  <2>3. seen[Root] # "unseen" /\ (phase = "done" => dirty)
    BY <2>1
  <2>4. Contract!Fork
    BY <2>1, <2>2, <2>3 DEF Offences
  <2> QED BY <2>4
<1>41. ASSUME NEW b \in Procs \cup {AllBarrier}, RecvBarrier(b) PROVE [Contract!Next]_(Contract!vars)
  BY <1>41 DEF RecvBarrier
<1>42. ASSUME NEW m \in traces, RecvSpawnTrace(m) PROVE [Contract!Next]_(Contract!vars)
  BY <1>42 DEF RecvSpawnTrace, TakeTrace, Discover, Cleanup, Kill
<1>43. ASSUME NEW m \in traces, RecvRemoteTrace(m) PROVE [Contract!Next]_(Contract!vars)
  BY <1>43 DEF RecvRemoteTrace, TakeTrace, Cleanup, Kill
<1>44. ASSUME NEW m \in traces, RecvCoverageTrace(m) PROVE [Contract!Next]_(Contract!vars)
  BY <1>44 DEF RecvCoverageTrace, TakeTrace
<1>45. ASSUME NEW o \in TargetOutcome, Returns(o) PROVE [Contract!Next]_(Contract!vars)
  BY <1>45 DEF Returns, TargetFrame, Become, Running
<1>46. CASE UNCHANGED vars
  BY <1>46
<1> HIDE DEF Bookkeeping, Identity, TraceOrigins, Tracking, Closing, Safe, TypeOK
<1>47. QED
  BY <1>1, <1>2, <1>3, <1>4, <1>5, <1>6, <1>7, <1>8, <1>9, <1>10, <1>11,
     <1>12, <1>13, <1>14, <1>15, <1>16, <1>17, <1>18, <1>19, <1>20, <1>21,
     <1>22, <1>23, <1>24, <1>25, <1>26, <1>27, <1>28, <1>29, <1>30, <1>31,
     <1>32, <1>33, <1>34, <1>35, <1>36, <1>37, <1>38, <1>39, <1>40, <1>41,
     <1>42, <1>43, <1>44, <1>45, <1>46
  DEF Next, GuardianStep, Expire, Delivery, TargetStep, CoordinatorStep,
      CallerStep

(* The guardian, the coordinator and the caller implement the contract of  *)
(* an execution (Execution.tla), for any number of processes.              *)
THEOREM ContractKept == Spec => KeepsContract
<1>1. Init => Contract!Init
  <2> SUFFICES ASSUME Init PROVE Contract!Init
    OBVIOUS
  <2>1. LiveProcs = {} /\ Offences = {}
    BY DEF Init, LiveProcs, Live, Offences
  <2>2. ~dirty /\ phase = "starting" /\ seen[Root] = "unseen"
    BY GuardianAssumption DEF Init
  <2> QED BY <2>1, <2>2 DEF Contract!Init, Offences
<1> QED
  BY <1>1, ContractStep, BookkeepingHolds, PTL DEF Spec, KeepsContract, Contract!Spec

=============================================================================
