--------------------------- MODULE GuardianProofs ---------------------------
(***************************************************************************)
(* Type correctness and safety of Guardian, for any number of processes    *)
(* and any choice of misbehaviours and faults.                             *)
(***************************************************************************)
EXTENDS Guardian, TLAPS

-----------------------------------------------------------------------------
(* Types.                                                                  *)

(* cleanup/2 moves to cleaning, with a known outcome, or does nothing.     *)
LEMMA CleanupTyped ==
  ASSUME TypeOK, NEW why \in Outcome, NEW known \in SUBSET Procs,
         Cleanup(why, known)
  PROVE  /\ phase' \in {"running", "cleaning", phase}
         /\ outcome' \in Outcome
         /\ killed' \subseteq Procs
         /\ ckilled' \in BOOLEAN
<1>1. CASE phase = "running"
  <2>1. phase' = "cleaning" /\ outcome' = why /\ killed' = Kill(known)
    BY <1>1 DEF Cleanup
  <2>2. killed' \subseteq Procs
    BY <2>1, SMT DEF Kill, TypeOK
  <2>3. ckilled' \in BOOLEAN
    <3>1. ckilled' = (cstate # "gone")
      BY <1>1 DEF Cleanup
    <3> QED BY <3>1, Zenon
  <2>4. QED BY <2>1, <2>2, <2>3
<1>2. CASE phase # "running"
  BY <1>2 DEF Cleanup, TypeOK, fate, kills
<1>3. QED BY <1>1, <1>2

(* The initial state is well typed.                                        *)
LEMMA InitTyped == Init => TypeOK
<1> SUFFICES ASSUME Init PROVE TypeOK
  OBVIOUS
<1>1. /\ codeDrained \in BOOLEAN /\ coordinatorAlive \in BOOLEAN
      /\ coverageFailure \in BOOLEAN /\ attached \in BOOLEAN
      /\ dirty \in BOOLEAN /\ ckilled \in BOOLEAN /\ callerDown \in BOOLEAN
  BY Zenon DEF Init
<1>2. result \in Report /\ answer \in Report
  BY DEF Init, Report, NoReport, Outcome
<1> QED
  BY <1>1, <1>2, GuardianAssumption
  DEF Init, TypeOK, Outcome, TargetOutcome

(* Every step, of the guardian, the target or the processes around them,   *)
(* keeps the state well typed.                                             *)
LEMMA TypeStep == TypeOK /\ [Next]_vars => TypeOK'
<1> SUFFICES ASSUME TypeOK, [Next]_vars PROVE TypeOK'
  OBVIOUS
<1> USE GuardianAssumption
<1> USE DEF TypeOK, fate, books, drain, notes, verdict, kills, mail,
            replies, coordinator, callerVars, world, guardianVars, vars,
            Outcome, TargetOutcome, Infrastructure, Report, NoReport, Trace,
            TraceKind, CodeServer, AllBarrier, AllDeeds, Kill
<1>1. ASSUME Start PROVE TypeOK'
  BY <1>1 DEF Start
<1>2. ASSUME RecvReady PROVE TypeOK'
  BY <1>2 DEF RecvReady
<1>3. ASSUME RecvDone PROVE TypeOK'
  <2>1. DoneOutcome \in Outcome
    BY DEF DoneOutcome
  <2>2. Cleanup(DoneOutcome, alive)
    BY <1>3 DEF RecvDone
  <2>. QED
    BY <1>3, <2>1, <2>2, CleanupTyped DEF RecvDone
<1>4. ASSUME RecvCoordinatorDown PROVE TypeOK'
  <2>. Cleanup("coordinator_down", alive)
    BY <1>4 DEF RecvCoordinatorDown
  <2>1. coordinatorAlive' \in BOOLEAN
    BY <1>4, Zenon DEF RecvCoordinatorDown
  <2>. QED
    BY <1>4, <2>1, CleanupTyped DEF RecvCoordinatorDown
<1>5. ASSUME RecvCallerDown PROVE TypeOK'
  <2>. Cleanup("caller_down", alive)
    BY <1>5 DEF RecvCallerDown
  <2>1. callerDown' \in BOOLEAN
    BY <1>5, Zenon DEF RecvCallerDown
  <2>. QED
    BY <1>5, <2>1, CleanupTyped DEF RecvCallerDown
<1>6. ASSUME RecvSamplerDown PROVE TypeOK'
  BY <1>6 DEF RecvSamplerDown
<1>7. ASSUME RequestGlobalBarrier PROVE TypeOK'
  BY <1>7 DEF RequestGlobalBarrier
<1>8. ASSUME Finish PROVE TypeOK'
  BY <1>8 DEF Finish, Publish
<1>9. ASSUME GuardianExits PROVE TypeOK'
  BY <1>9 DEF GuardianExits
<1>10. ASSUME ExpireRunning PROVE TypeOK'
  BY <1>10 DEF ExpireRunning, Cleanup
<1>11. ASSUME ExpireCleaning PROVE TypeOK'
  BY <1>11 DEF ExpireCleaning, Publish
<1>12. ASSUME GuardianDies PROVE TypeOK'
  BY <1>12 DEF GuardianDies
<1>13. ASSUME LoadCommits PROVE TypeOK'
  BY <1>13 DEF LoadCommits, TargetFrame, Emit, Message
<1>14. ASSUME Watches PROVE TypeOK'
  BY <1>14 DEF Watches
<1>15. ASSUME GetsResult PROVE TypeOK'
  BY <1>15 DEF GetsResult
<1>16. ASSUME Classifies PROVE TypeOK'
  <2>1. ckilled' \in BOOLEAN
    BY <1>16, Zenon DEF Classifies
  <2>. QED
    BY <1>16, <2>1 DEF Classifies
<1>17. ASSUME CoordinatorDies PROVE TypeOK'
  <2>1. ckilled' \in BOOLEAN
    BY <1>17, Zenon DEF CoordinatorDies
  <2>. QED
    BY <1>17, <2>1 DEF CoordinatorDies
<1>18. ASSUME SamplerExits PROVE TypeOK'
  BY <1>18 DEF SamplerExits
<1>19. ASSUME CallerReturns PROVE TypeOK'
  BY <1>19 DEF CallerReturns
<1>20. ASSUME CallerFindsGuardianDead PROVE TypeOK'
  BY <1>20 DEF CallerFindsGuardianDead
<1>21. ASSUME CallerDies PROVE TypeOK'
  BY <1>21 DEF CallerDies
<1>22. ASSUME NEW p \in Procs, AdmitChild(p) PROVE TypeOK'
  BY <1>22 DEF AdmitChild
<1>23. ASSUME NEW p \in Procs, RefuseAtLimit(p) PROVE TypeOK'
  BY <1>23 DEF RefuseAtLimit, Cleanup, Refuse
<1>24. ASSUME NEW p \in Procs, RefuseStopping(p) PROVE TypeOK'
  BY <1>24 DEF RefuseStopping, Refuse
<1>25. ASSUME NEW p \in Procs, RecvDirty(p) PROVE TypeOK'
  BY <1>25 DEF RecvDirty
<1>26. ASSUME NEW p \in Procs, RecvDown(p) PROVE TypeOK'
  BY <1>26 DEF RecvDown
<1>27. ASSUME NEW p \in Procs, KillArrives(p) PROVE TypeOK'
  BY <1>27 DEF KillArrives, Dies, TargetFrame, Become
<1>28. ASSUME NEW p \in Procs, GateAbandoned(p) PROVE TypeOK'
  BY <1>28 DEF GateAbandoned, Dies, TargetFrame, Become
<1>29. ASSUME NEW p \in Procs, GateOpens(p) PROVE TypeOK'
  BY <1>29 DEF GateOpens, TargetFrame, Become, Emit, Message, Spoil
<1>30. ASSUME NEW p \in Procs, RecvGrant(p) PROVE TypeOK'
  BY <1>30 DEF RecvGrant, TargetFrame, Become, Emit, Message, Spoil
<1>31. ASSUME NEW p \in Procs, RecvDenial(p) PROVE TypeOK'
  BY <1>31 DEF RecvDenial, TargetFrame, Become, Emit, Message, Spoil
<1>32. ASSUME NEW p \in Procs, OwnerLost(p) PROVE TypeOK'
  BY <1>32 DEF OwnerLost, TargetFrame
<1>33. ASSUME NEW p \in Procs, Exits(p) PROVE TypeOK'
  BY <1>33 DEF Exits, Dies, TargetFrame, Become
<1>34. ASSUME NEW p \in Procs, RemoteSpawn(p) PROVE TypeOK'
  BY <1>34 DEF RemoteSpawn, TargetFrame, Become, Emit, Message, Spoil
<1>35. ASSUME NEW p \in Procs, DeclareDirty(p) PROVE TypeOK'
  BY <1>35 DEF DeclareDirty, TargetFrame, Become, Emit, Message, Spoil
<1>36. ASSUME NEW p \in Procs, Detach(p) PROVE TypeOK'
  BY <1>36 DEF Detach, TargetFrame, Become, Emit, Message, Spoil
<1>37. ASSUME NEW p \in Procs, Contaminate(p) PROVE TypeOK'
  BY <1>37 DEF Contaminate, TargetFrame, Become, Emit, Message, Spoil
<1>38. ASSUME NEW p \in Procs, RequestLoad(p) PROVE TypeOK'
  BY <1>38 DEF RequestLoad, TargetFrame, Become, Emit, Message, Spoil
<1>39. ASSUME NEW p \in Procs, NEW c \in Procs, RequestChild(p,c) PROVE TypeOK'
  BY <1>39 DEF RequestChild, TargetFrame, Become, Emit, Message, Spoil
<1>40. ASSUME NEW p \in Procs, NEW c \in Procs, PlainSpawn(p,c) PROVE TypeOK'
  BY <1>40 DEF PlainSpawn, TargetFrame, Become, Emit, Message, Spoil
<1>41. ASSUME NEW b \in Procs \cup {AllBarrier}, RecvBarrier(b) PROVE TypeOK'
  BY <1>41 DEF RecvBarrier
<1>42. ASSUME NEW m \in traces, RecvSpawnTrace(m) PROVE TypeOK'
  <2>. DEFINE c == m.pid
  <2>1. c \in Procs /\ TakeTrace(m)
    BY <1>42 DEF RecvSpawnTrace
  <2>2. CASE seen[c] # "unseen"
    <3>1. UNCHANGED <<fate, alive, seen, notes, downMail, kills>>
      BY <1>42, <2>2, Zenon DEF RecvSpawnTrace
    <3>. QED
      BY <2>1, <3>1 DEF TakeTrace
  <2>3. CASE seen[c] = "unseen" /\ phase = "running"
    <3>1. Discover(c) /\ Cleanup("uncontrolled_spawn", alive \cup {c})
      BY <1>42, <2>3 DEF RecvSpawnTrace, Discover
    <3>. QED
      BY <2>1, <3>1, CleanupTyped DEF TakeTrace, Discover
  <2>4. CASE seen[c] = "unseen" /\ phase # "running"
    <3>1. Discover(c)
      BY <1>42, <2>4 DEF RecvSpawnTrace
    <3>2. killed' = Kill({c}) /\ UNCHANGED <<fate, ckilled>>
      BY <2>4, <3>1 DEF Discover
    <3>3. killed' \subseteq Procs
      BY <2>1, <3>2
    <3>. QED
      BY <2>1, <3>1, <3>2, <3>3 DEF TakeTrace, Discover
  <2>. QED
    BY <2>2, <2>3, <2>4
<1>43. ASSUME NEW m \in traces, RecvRemoteTrace(m) PROVE TypeOK'
  <2>. Cleanup("remote_spawn", alive)
    BY <1>43 DEF RecvRemoteTrace
  <2>. QED
    BY <1>43, CleanupTyped DEF RecvRemoteTrace, TakeTrace
<1>44. ASSUME NEW m \in traces, RecvCoverageTrace(m) PROVE TypeOK'
  BY <1>44 DEF RecvCoverageTrace, TakeTrace
<1>45. ASSUME NEW o \in TargetOutcome, Returns(o) PROVE TypeOK'
  BY <1>45 DEF Returns, TargetFrame, Become, Emit, Message, Spoil
<1>46. CASE UNCHANGED vars
  BY <1>46
<1>47. QED
  BY <1>1, <1>2, <1>3, <1>4, <1>5, <1>6, <1>7, <1>8, <1>9, <1>10, <1>11,
     <1>12, <1>13, <1>14, <1>15, <1>16, <1>17, <1>18, <1>19, <1>20, <1>21,
     <1>22, <1>23, <1>24, <1>25, <1>26, <1>27, <1>28, <1>29, <1>30, <1>31,
     <1>32, <1>33, <1>34, <1>35, <1>36, <1>37, <1>38, <1>39, <1>40, <1>41,
     <1>42, <1>43, <1>44, <1>45, <1>46
  DEF Next, GuardianStep, Expire, Delivery, TargetStep, CoordinatorStep,
      CallerStep

(* The state of an execution is always well typed; in particular the       *)
(* outcome reported is one of the documented ones.                         *)
THEOREM TypeCorrect == Spec => []TypeOK
  BY InitTyped, TypeStep, PTL DEF Spec

-----------------------------------------------------------------------------
(* Bookkeeping is inductive.  One lemma per named part of it, with one     *)
(* step per action; then the theorem, and the safety properties the runs   *)
(* check as its corollaries.                                               *)

(* When cleanup may be confirmed, nothing of the execution is alive or      *)
(* undiscovered: the argument behind ConfirmedIsQuiet.  No process can be   *)
(* missed, because the set of all undiscovered ones would need a spawn      *)
(* trace from a process that has no barrier and no DOWN left to come.       *)
LEMMA DrainedIsQuiet ==
  ASSUME TypeOK, Identity, TraceOrigins, Discoverable, Drained
  PROVE  Unseen = {} /\ LiveProcs = {}
<1>1. GuardianUp
  BY DEF Drained, GuardianUp
<1>2. Unseen = {}
  <2> SUFFICES ASSUME Unseen # {} PROVE FALSE
    OBVIOUS
  <2>1. PICK c \in Unseen, q \in Procs \ Unseen :
            Born(q) /\ Message(q, "spawn", c) \in traces
    BY <1>1, Zenon DEF Discoverable
  <2>2. Message(q, "spawn", c).from = q
    BY DEF Message
  <2>3. q \in Unseen \cup alive \cup barriers \/ q = CodeServer
    BY <1>1, <2>1, <2>2 DEF TraceOrigins
  <2>4. q # CodeServer
    BY GuardianAssumption DEF CodeServer
  <2> QED BY <2>3, <2>4 DEF Drained
<1>3. LiveProcs = {}
  BY <1>2 DEF LiveProcs, Unseen, Born, Known, Identity, Drained, Live, TypeOK
<1> QED BY <1>2, <1>3

(* A step that neither hides a spawn trace of an undiscovered process nor   *)
(* makes one undiscovered keeps Discoverable.                               *)
LEMMA DiscoverableKept ==
  ASSUME Discoverable,
         GuardianUp' =>
             /\ GuardianUp
             /\ Unseen' \subseteq Unseen
             /\ \A q \in Procs : Born(q) => Born(q)'
             /\ \A m \in traces :
                    m.kind = "spawn" /\ m.pid \in Unseen' => m \in traces'
  PROVE  Discoverable'
<1> SUFFICES ASSUME GuardianUp', NEW S \in SUBSET (Unseen'), S # {}
             PROVE  \E c \in S, q \in Procs \ S :
                        Born(q)' /\ Message(q, "spawn", c) \in traces'
  BY DEF Discoverable, Message
<1>1. PICK c \in S, q \in Procs \ S :
          Born(q) /\ Message(q, "spawn", c) \in traces
  <2>1. S \in SUBSET Unseen
    OBVIOUS
  <2> QED BY <2>1, Zenon DEF Discoverable
<1>2. Message(q, "spawn", c).kind = "spawn" /\ Message(q, "spawn", c).pid = c
  BY DEF Message
<1>3. Message(q, "spawn", c) \in traces'
  BY <1>1, <1>2, Zenon
<1>4. Born(q)'
  BY <1>1
<1> HIDE DEF Unseen
<1> QED BY <1>1, <1>3, <1>4, Zenon

(* What finish/2 says, by case.                                            *)
LEMMA PublishFacts ==
  ASSUME TypeOK, NEW status \in {"confirmed", "unconfirmed"}, NEW noted,
         Publish(status, noted)
  PROVE  /\ result'.cleanup = status
         /\ result'.reusable <=>
                status = "confirmed" /\ noted \cup (spoiled \cap {"contaminate"}) = {}
         /\ dirty' <=> dirty \/ ~result'.reusable
         /\ outcome \in Infrastructure => result'.outcome = outcome
         /\ outcome \notin Infrastructure =>
                \/ result'.outcome \in {"dirty_runner", "coverage"}
                \/ /\ result'.outcome = outcome /\ result'.reusable
                   /\ ~coverageFailure /\ (outcome = "ok" => attached)
         /\ result'.outcome = "coverage" =>
                outcome = "coverage" \/ coverageFailure \/ (outcome = "ok" /\ ~attached)
<1> DEFINE reusable == status = "confirmed" /\ noted \cup (spoiled \cap {"contaminate"}) = {}
           lost == coverageFailure \/ (outcome = "ok" /\ ~attached)
           final == IF outcome \in Infrastructure THEN outcome
                    ELSE CASE ~reusable          -> "dirty_runner"
                           [] reusable /\ lost   -> "coverage"
                           [] reusable /\ ~lost  -> outcome
<1>1. /\ result' = [outcome |-> final, reusable |-> reusable, cleanup |-> status]
      /\ dirty' = (dirty \/ ~reusable)
  BY Zenon DEF Publish
<1>2. /\ outcome \in Infrastructure => final = outcome
      /\ outcome \notin Infrastructure /\ ~reusable => final = "dirty_runner"
      /\ outcome \notin Infrastructure /\ reusable /\ lost => final = "coverage"
      /\ outcome \notin Infrastructure /\ reusable /\ ~lost => final = outcome
  <2>1. reusable \in BOOLEAN /\ lost \in BOOLEAN
    BY DEF TypeOK
  <2> HIDE DEF reusable, lost
  <2> QED BY <2>1, SMTT(20)
<1>3. reusable \in BOOLEAN
  OBVIOUS
<1> HIDE DEF reusable, lost, final
<1>4. result'.outcome = final /\ result'.reusable = reusable /\ result'.cleanup = status
  BY <1>1, Zenon
<1>5. dirty' <=> dirty \/ ~result'.reusable
  BY <1>1, <1>4, Zenon
<1>6. result'.reusable <=>
                status = "confirmed" /\ noted \cup (spoiled \cap {"contaminate"}) = {}
  BY <1>4, Zenon DEF reusable
<1>7. lost <=> coverageFailure \/ (outcome = "ok" /\ ~attached)
  BY DEF lost
<1>8. outcome \in Infrastructure => result'.outcome = outcome
  BY <1>2, <1>4, Zenon
<1>9. outcome \notin Infrastructure =>
                \/ result'.outcome \in {"dirty_runner", "coverage"}
                \/ /\ result'.outcome = outcome /\ result'.reusable
                   /\ ~coverageFailure /\ (outcome = "ok" => attached)
  BY <1>2, <1>4, <1>7, Zenon
<1>10. result'.outcome = "coverage" =>
                outcome = "coverage" \/ coverageFailure \/ (outcome = "ok" /\ ~attached)
  BY <1>2, <1>3, <1>4, <1>7
<1> QED BY <1>4, <1>5, <1>6, <1>8, <1>9, <1>10, Zenon

(* Identities, requests, grants and deaths stay consistent.                *)
LEMMA IdentityStep ==
  TypeOK /\ TypeOK' /\ Identity /\ TraceOrigins /\ [Next]_vars => Identity'
<1> SUFFICES ASSUME TypeOK, TypeOK', Identity, TraceOrigins, [Next]_vars
             PROVE  Identity'
  OBVIOUS
<1> USE GuardianAssumption
<1> USE DEF Identity, TraceOrigins, Trace, Receiving, Known, Live, Born, Running, GuardianUp,
            TypeOK, fate, books, drain, notes, verdict, kills, mail, replies, coordinator,
             callerVars, world, guardianVars, vars
<1>1. CASE Start BY <1>1 DEF Start
<1>2. CASE RecvReady BY <1>2 DEF RecvReady
<1>3. CASE RecvDone
  BY <1>3 DEF RecvDone, DoneOutcome, TargetOutcome, Cleanup, Kill
<1>4. CASE RecvCoordinatorDown BY <1>4 DEF RecvCoordinatorDown, Cleanup, Kill
<1>5. CASE RecvCallerDown BY <1>5 DEF RecvCallerDown, Cleanup, Kill
<1>6. CASE RecvSamplerDown BY <1>6 DEF RecvSamplerDown
<1>7. CASE RequestGlobalBarrier
  BY <1>7 DEF RequestGlobalBarrier, AtRest, Drained
<1>8. CASE Finish BY <1>8 DEF Finish, AtRest, Drained, Publish
<1>9. CASE GuardianExits BY <1>9 DEF GuardianExits
<1>10. CASE ExpireRunning BY <1>10 DEF ExpireRunning, Cleanup, Kill
<1>11. CASE ExpireCleaning BY <1>11 DEF ExpireCleaning, Publish
<1>12. CASE GuardianDies BY <1>12 DEF GuardianDies
<1>13. CASE LoadCommits BY <1>13 DEF LoadCommits, TargetFrame, Emit, Message
<1>14. CASE Watches BY <1>14 DEF Watches
<1>15. CASE GetsResult BY <1>15 DEF GetsResult
<1>16. CASE Classifies BY <1>16 DEF Classifies
<1>17. CASE CoordinatorDies BY <1>17 DEF CoordinatorDies
<1>18. CASE SamplerExits BY <1>18 DEF SamplerExits
<1>19. CASE CallerReturns BY <1>19 DEF CallerReturns
<1>20. CASE CallerFindsGuardianDead BY <1>20 DEF CallerFindsGuardianDead
<1>21. CASE CallerDies BY <1>21 DEF CallerDies
<1>22. ASSUME NEW p \in Procs, AdmitChild(p) PROVE Identity'
  BY <1>22 DEF AdmitChild
<1>23. ASSUME NEW p \in Procs, RefuseAtLimit(p) PROVE Identity'
  BY <1>23 DEF RefuseAtLimit, Refuse, Cleanup, Kill
<1>24. ASSUME NEW p \in Procs, RefuseStopping(p) PROVE Identity'
  BY <1>24 DEF RefuseStopping, Refuse
<1>25. ASSUME NEW p \in Procs, RecvDirty(p) PROVE Identity'
  BY <1>25 DEF RecvDirty
<1>26. ASSUME NEW p \in Procs, RecvDown(p) PROVE Identity'
  BY <1>26 DEF RecvDown
<1>27. ASSUME NEW p \in Procs, KillArrives(p) PROVE Identity'
  BY <1>27 DEF KillArrives, Dies, TargetFrame, Become
<1>28. ASSUME NEW p \in Procs, GateAbandoned(p) PROVE Identity'
  BY <1>28 DEF GateAbandoned, Dies, TargetFrame, Become, GuardianGone
<1>29. ASSUME NEW p \in Procs, GateOpens(p) PROVE Identity'
  BY <1>29 DEF GateOpens, TargetFrame, Become, Emit, Message
<1>30. ASSUME NEW p \in Procs, RecvGrant(p) PROVE Identity'
  BY <1>30 DEF RecvGrant, TargetFrame, Become
<1>31. ASSUME NEW p \in Procs, RecvDenial(p) PROVE Identity'
  BY <1>31 DEF RecvDenial, TargetFrame, Become
<1>32. ASSUME NEW p \in Procs, OwnerLost(p) PROVE Identity'
  BY <1>32 DEF OwnerLost, TargetFrame
<1>33. ASSUME NEW p \in Procs, Exits(p) PROVE Identity'
  BY <1>33 DEF Exits, Dies, TargetFrame, Become
<1>34. ASSUME NEW p \in Procs, RemoteSpawn(p) PROVE Identity'
  BY <1>34 DEF RemoteSpawn, TargetFrame, Emit, Message, Spoil, Running
<1>35. ASSUME NEW p \in Procs, DeclareDirty(p) PROVE Identity'
  BY <1>35 DEF DeclareDirty, TargetFrame, Spoil, Running
<1>36. ASSUME NEW p \in Procs, Detach(p) PROVE Identity'
  BY <1>36 DEF Detach, TargetFrame, Emit, Message, Spoil, Running
<1>37. ASSUME NEW p \in Procs, Contaminate(p) PROVE Identity'
  BY <1>37 DEF Contaminate, TargetFrame, Spoil, Running
<1>38. ASSUME NEW p \in Procs, RequestLoad(p) PROVE Identity'
  BY <1>38 DEF RequestLoad, TargetFrame, Running
<1>39. ASSUME NEW p \in Procs, NEW c \in Procs, RequestChild(p, c) PROVE Identity'
  BY <1>39 DEF RequestChild, TargetFrame, Running
<1>40. ASSUME NEW p \in Procs, NEW c \in Procs, PlainSpawn(p, c) PROVE Identity'
  BY <1>40 DEF PlainSpawn, TargetFrame, Become, Emit, Message, Spoil, Running
<1>41. ASSUME NEW b \in Procs \cup {AllBarrier}, RecvBarrier(b) PROVE Identity'
  BY <1>41 DEF RecvBarrier
<1>42. ASSUME NEW m \in traces, RecvSpawnTrace(m) PROVE Identity'
  BY <1>42 DEF RecvSpawnTrace, TakeTrace, Discover, Cleanup, Kill
<1>43. ASSUME NEW m \in traces, RecvRemoteTrace(m) PROVE Identity'
  BY <1>43 DEF RecvRemoteTrace, TakeTrace, Cleanup, Kill
<1>44. ASSUME NEW m \in traces, RecvCoverageTrace(m) PROVE Identity'
  BY <1>44 DEF RecvCoverageTrace, TakeTrace
<1>45. ASSUME NEW o \in TargetOutcome, Returns(o) PROVE Identity'
  BY <1>45 DEF Returns, TargetFrame, Become, Running
<1>46. CASE UNCHANGED vars
  BY <1>46
<1>47. QED
  BY <1>1, <1>2, <1>3, <1>4, <1>5, <1>6, <1>7, <1>8, <1>9, <1>10, <1>11,
     <1>12, <1>13, <1>14, <1>15, <1>16, <1>17, <1>18, <1>19, <1>20, <1>21,
     <1>22, <1>23, <1>24, <1>25, <1>26, <1>27, <1>28, <1>29, <1>30, <1>31,
     <1>32, <1>33, <1>34, <1>35, <1>36, <1>37, <1>38, <1>39, <1>40, <1>41,
     <1>42, <1>43, <1>44, <1>45, <1>46
  DEF Next, GuardianStep, Expire, Delivery, TargetStep, CoordinatorStep,
      CallerStep

(* Traces in flight keep a barrier, a monitor or a discovery ahead of them.*)
LEMMA TraceOriginsStep ==
  TypeOK /\ TypeOK' /\ Identity /\ TraceOrigins /\ [Next]_vars => TraceOrigins'
<1> SUFFICES ASSUME TypeOK, TypeOK', Identity, TraceOrigins, [Next]_vars
             PROVE  TraceOrigins'
  OBVIOUS
<1> USE GuardianAssumption
<1> USE DEF Identity, TraceOrigins, Known, Born, Live, GuardianUp, Unseen,
            CodeServer, AllBarrier, Trace,
            TypeOK, fate, books, drain, notes, verdict, kills, mail, replies, coordinator,
             callerVars, world, guardianVars, vars
<1>1. CASE Start BY <1>1 DEF Start
<1>2. CASE RecvReady BY <1>2 DEF RecvReady
<1>3. CASE RecvDone
  BY <1>3 DEF RecvDone, DoneOutcome, TargetOutcome, Cleanup, Kill
<1>4. CASE RecvCoordinatorDown BY <1>4 DEF RecvCoordinatorDown, Cleanup, Kill
<1>5. CASE RecvCallerDown BY <1>5 DEF RecvCallerDown, Cleanup, Kill
<1>6. CASE RecvSamplerDown BY <1>6 DEF RecvSamplerDown
<1>7. CASE RequestGlobalBarrier
  BY <1>7 DEF RequestGlobalBarrier, AtRest, Drained
<1>8. CASE Finish BY <1>8 DEF Finish, AtRest, Drained, Publish
<1>9. CASE GuardianExits BY <1>9 DEF GuardianExits
<1>10. CASE ExpireRunning BY <1>10 DEF ExpireRunning, Cleanup, Kill
<1>11. CASE ExpireCleaning BY <1>11 DEF ExpireCleaning, Publish
<1>12. CASE GuardianDies BY <1>12 DEF GuardianDies
<1>13. CASE LoadCommits BY <1>13 DEF LoadCommits, TargetFrame, Emit, Message
<1>14. CASE Watches BY <1>14 DEF Watches
<1>15. CASE GetsResult BY <1>15 DEF GetsResult
<1>16. CASE Classifies BY <1>16 DEF Classifies
<1>17. CASE CoordinatorDies BY <1>17 DEF CoordinatorDies
<1>18. CASE SamplerExits BY <1>18 DEF SamplerExits
<1>19. CASE CallerReturns BY <1>19 DEF CallerReturns
<1>20. CASE CallerFindsGuardianDead BY <1>20 DEF CallerFindsGuardianDead
<1>21. CASE CallerDies BY <1>21 DEF CallerDies
<1>22. ASSUME NEW p \in Procs, AdmitChild(p) PROVE TraceOrigins'
  BY <1>22 DEF AdmitChild
<1>23. ASSUME NEW p \in Procs, RefuseAtLimit(p) PROVE TraceOrigins'
  BY <1>23 DEF RefuseAtLimit, Refuse, Cleanup, Kill
<1>24. ASSUME NEW p \in Procs, RefuseStopping(p) PROVE TraceOrigins'
  BY <1>24 DEF RefuseStopping, Refuse
<1>25. ASSUME NEW p \in Procs, RecvDirty(p) PROVE TraceOrigins'
  BY <1>25 DEF RecvDirty
<1>26. ASSUME NEW p \in Procs, RecvDown(p) PROVE TraceOrigins'
  BY <1>26 DEF RecvDown
<1>27. ASSUME NEW p \in Procs, KillArrives(p) PROVE TraceOrigins'
  BY <1>27 DEF KillArrives, Dies, TargetFrame, Become
<1>28. ASSUME NEW p \in Procs, GateAbandoned(p) PROVE TraceOrigins'
  BY <1>28 DEF GateAbandoned, Dies, TargetFrame, Become, GuardianGone
<1>29. ASSUME NEW p \in Procs, GateOpens(p) PROVE TraceOrigins'
  BY <1>29 DEF GateOpens, TargetFrame, Become, Emit, Message
<1>30. ASSUME NEW p \in Procs, RecvGrant(p) PROVE TraceOrigins'
  BY <1>30 DEF RecvGrant, TargetFrame, Become
<1>31. ASSUME NEW p \in Procs, RecvDenial(p) PROVE TraceOrigins'
  BY <1>31 DEF RecvDenial, TargetFrame, Become
<1>32. ASSUME NEW p \in Procs, OwnerLost(p) PROVE TraceOrigins'
  BY <1>32 DEF OwnerLost, TargetFrame
<1>33. ASSUME NEW p \in Procs, Exits(p) PROVE TraceOrigins'
  BY <1>33 DEF Exits, Dies, TargetFrame, Become
<1>34. ASSUME NEW p \in Procs, RemoteSpawn(p) PROVE TraceOrigins'
  BY <1>34 DEF RemoteSpawn, TargetFrame, Emit, Message, Spoil, Running
<1>35. ASSUME NEW p \in Procs, DeclareDirty(p) PROVE TraceOrigins'
  BY <1>35 DEF DeclareDirty, TargetFrame, Spoil, Running
<1>36. ASSUME NEW p \in Procs, Detach(p) PROVE TraceOrigins'
  BY <1>36 DEF Detach, TargetFrame, Emit, Message, Spoil, Running
<1>37. ASSUME NEW p \in Procs, Contaminate(p) PROVE TraceOrigins'
  BY <1>37 DEF Contaminate, TargetFrame, Spoil, Running
<1>38. ASSUME NEW p \in Procs, RequestLoad(p) PROVE TraceOrigins'
  BY <1>38 DEF RequestLoad, TargetFrame, Running
<1>39. ASSUME NEW p \in Procs, NEW c \in Procs, RequestChild(p, c) PROVE TraceOrigins'
  BY <1>39 DEF RequestChild, TargetFrame, Running
<1>40. ASSUME NEW p \in Procs, NEW c \in Procs, PlainSpawn(p, c) PROVE TraceOrigins'
  BY <1>40 DEF PlainSpawn, TargetFrame, Become, Emit, Message, Spoil, Running
<1>41. ASSUME NEW b \in Procs \cup {AllBarrier}, RecvBarrier(b) PROVE TraceOrigins'
  BY <1>41 DEF RecvBarrier
<1>42. ASSUME NEW m \in traces, RecvSpawnTrace(m) PROVE TraceOrigins'
  BY <1>42 DEF RecvSpawnTrace, TakeTrace, Discover, Cleanup, Kill
<1>43. ASSUME NEW m \in traces, RecvRemoteTrace(m) PROVE TraceOrigins'
  BY <1>43 DEF RecvRemoteTrace, TakeTrace, Cleanup, Kill
<1>44. ASSUME NEW m \in traces, RecvCoverageTrace(m) PROVE TraceOrigins'
  BY <1>44 DEF RecvCoverageTrace, TakeTrace
<1>45. ASSUME NEW o \in TargetOutcome, Returns(o) PROVE TraceOrigins'
  BY <1>45 DEF Returns, TargetFrame, Become, Running
<1>46. CASE UNCHANGED vars
  BY <1>46
<1>47. QED
  BY <1>1, <1>2, <1>3, <1>4, <1>5, <1>6, <1>7, <1>8, <1>9, <1>10, <1>11,
     <1>12, <1>13, <1>14, <1>15, <1>16, <1>17, <1>18, <1>19, <1>20, <1>21,
     <1>22, <1>23, <1>24, <1>25, <1>26, <1>27, <1>28, <1>29, <1>30, <1>31,
     <1>32, <1>33, <1>34, <1>35, <1>36, <1>37, <1>38, <1>39, <1>40, <1>41,
     <1>42, <1>43, <1>44, <1>45, <1>46
  DEF Next, GuardianStep, Expire, Delivery, TargetStep, CoordinatorStep,
      CallerStep

(* Every set of undiscovered processes is reachable by a spawn trace from   *)
(* outside it, whatever the target starts and the guardian discovers.      *)
LEMMA DiscoverableStep ==
  TypeOK /\ TypeOK' /\ Identity /\ TraceOrigins /\ Discoverable /\ [Next]_vars => Discoverable'
<1> SUFFICES ASSUME TypeOK, TypeOK', Identity, TraceOrigins, Discoverable, [Next]_vars
             PROVE  Discoverable'
  OBVIOUS
<1> USE GuardianAssumption
<1> USE DEF Born, Live, Unseen, Identity, GuardianUp, Message, Receiving, AtRest, Trace,
            TypeOK, fate, books, drain, notes, verdict, kills, mail, replies, coordinator,
             callerVars, world, guardianVars, vars
<1>1. CASE Start
  <2>1. Unseen' = {}
    BY <1>1 DEF Start
  <2> QED BY <2>1 DEF Discoverable
<1>2. CASE RecvReady
  BY <1>2, DiscoverableKept DEF RecvReady
<1>3. CASE RecvDone
  BY <1>3, DiscoverableKept DEF RecvDone, DoneOutcome, TargetOutcome, Cleanup, Kill
<1>4. CASE RecvCoordinatorDown
  BY <1>4, DiscoverableKept DEF RecvCoordinatorDown, Cleanup, Kill
<1>5. CASE RecvCallerDown
  BY <1>5, DiscoverableKept DEF RecvCallerDown, Cleanup, Kill
<1>6. CASE RecvSamplerDown
  BY <1>6, DiscoverableKept DEF RecvSamplerDown
<1>7. CASE RequestGlobalBarrier
  BY <1>7, DiscoverableKept DEF RequestGlobalBarrier, AtRest, Drained
<1>8. CASE Finish
  BY <1>8, DiscoverableKept DEF Finish, AtRest, Drained, Publish
<1>9. CASE GuardianExits
  BY <1>9, DiscoverableKept DEF GuardianExits
<1>10. CASE ExpireRunning
  BY <1>10, DiscoverableKept DEF ExpireRunning, Cleanup, Kill
<1>11. CASE ExpireCleaning
  BY <1>11, DiscoverableKept DEF ExpireCleaning, Publish
<1>12. CASE GuardianDies
  BY <1>12, DiscoverableKept DEF GuardianDies
<1>13. CASE LoadCommits
  BY <1>13, DiscoverableKept DEF LoadCommits, TargetFrame, Emit, Message
<1>14. CASE Watches
  BY <1>14, DiscoverableKept DEF Watches
<1>15. CASE GetsResult
  BY <1>15, DiscoverableKept DEF GetsResult
<1>16. CASE Classifies
  BY <1>16, DiscoverableKept DEF Classifies
<1>17. CASE CoordinatorDies
  BY <1>17, DiscoverableKept DEF CoordinatorDies
<1>18. CASE SamplerExits
  BY <1>18, DiscoverableKept DEF SamplerExits
<1>19. CASE CallerReturns
  BY <1>19, DiscoverableKept DEF CallerReturns
<1>20. CASE CallerFindsGuardianDead
  BY <1>20, DiscoverableKept DEF CallerFindsGuardianDead
<1>21. CASE CallerDies
  BY <1>21, DiscoverableKept DEF CallerDies
<1>22. ASSUME NEW p \in Procs, AdmitChild(p) PROVE Discoverable'
  BY <1>22, DiscoverableKept DEF AdmitChild
<1>23. ASSUME NEW p \in Procs, RefuseAtLimit(p) PROVE Discoverable'
  BY <1>23, DiscoverableKept DEF RefuseAtLimit, Refuse, Cleanup, Kill
<1>24. ASSUME NEW p \in Procs, RefuseStopping(p) PROVE Discoverable'
  BY <1>24, DiscoverableKept DEF RefuseStopping, Refuse
<1>25. ASSUME NEW p \in Procs, RecvDirty(p) PROVE Discoverable'
  BY <1>25, DiscoverableKept DEF RecvDirty
<1>26. ASSUME NEW p \in Procs, RecvDown(p) PROVE Discoverable'
  BY <1>26, DiscoverableKept DEF RecvDown
<1>27. ASSUME NEW p \in Procs, KillArrives(p) PROVE Discoverable'
  BY <1>27, DiscoverableKept DEF KillArrives, Dies, TargetFrame, Become
<1>28. ASSUME NEW p \in Procs, GateAbandoned(p) PROVE Discoverable'
  BY <1>28, DiscoverableKept DEF GateAbandoned, Dies, TargetFrame, Become, GuardianGone
<1>29. ASSUME NEW p \in Procs, GateOpens(p) PROVE Discoverable'
  BY <1>29, DiscoverableKept DEF GateOpens, TargetFrame, Become, Emit, Message
<1>30. ASSUME NEW p \in Procs, RecvGrant(p) PROVE Discoverable'
  BY <1>30, DiscoverableKept DEF RecvGrant, TargetFrame, Become
<1>31. ASSUME NEW p \in Procs, RecvDenial(p) PROVE Discoverable'
  BY <1>31, DiscoverableKept DEF RecvDenial, TargetFrame, Become
<1>32. ASSUME NEW p \in Procs, OwnerLost(p) PROVE Discoverable'
  BY <1>32, DiscoverableKept DEF OwnerLost, TargetFrame
<1>33. ASSUME NEW p \in Procs, Exits(p) PROVE Discoverable'
  BY <1>33, DiscoverableKept DEF Exits, Dies, TargetFrame, Become
<1>34. ASSUME NEW p \in Procs, RemoteSpawn(p) PROVE Discoverable'
  BY <1>34, DiscoverableKept DEF RemoteSpawn, TargetFrame, Emit, Message, Spoil, Running
<1>35. ASSUME NEW p \in Procs, DeclareDirty(p) PROVE Discoverable'
  BY <1>35, DiscoverableKept DEF DeclareDirty, TargetFrame, Spoil, Running
<1>36. ASSUME NEW p \in Procs, Detach(p) PROVE Discoverable'
  BY <1>36, DiscoverableKept DEF Detach, TargetFrame, Emit, Message, Spoil, Running
<1>37. ASSUME NEW p \in Procs, Contaminate(p) PROVE Discoverable'
  BY <1>37, DiscoverableKept DEF Contaminate, TargetFrame, Spoil, Running
<1>38. ASSUME NEW p \in Procs, RequestLoad(p) PROVE Discoverable'
  BY <1>38, DiscoverableKept DEF RequestLoad, TargetFrame, Running
<1>39. ASSUME NEW p \in Procs, NEW c \in Procs, RequestChild(p, c) PROVE Discoverable'
  BY <1>39, DiscoverableKept DEF RequestChild, TargetFrame, Running
<1>40. ASSUME NEW p \in Procs, NEW c \in Procs, PlainSpawn(p, c) PROVE Discoverable'
  <2>1. /\ Unseen' \subseteq Unseen \cup {c} /\ ~Born(c) /\ Born(p) /\ Born(p)'
        /\ \A q \in Procs : Born(q) => Born(q)'
    BY <1>40 DEF PlainSpawn, TargetFrame, Become, Running
  <2>2. GuardianUp' => /\ GuardianUp /\ traces \subseteq traces'
                       /\ Message(p, "spawn", c) \in traces'
    BY <1>40 DEF PlainSpawn, TargetFrame, Emit
  <2> SUFFICES ASSUME GuardianUp', NEW S \in SUBSET (Unseen'), S # {}
               PROVE  \E d \in S, q \in Procs \ S :
                          Born(q)' /\ Message(q, "spawn", d) \in traces'
    BY Zenon DEF Discoverable, Message
  <2> HIDE DEF Unseen, GuardianUp, Born
  <2>3. CASE S \subseteq {c}
    BY <2>1, <2>2, <2>3
  <2>4. CASE ~(S \subseteq {c})
    <3> DEFINE R == S \ {c}
    <3>1. R \in SUBSET Unseen /\ R # {}
      BY <2>1, <2>4
    <3>2. PICK d \in R, q \in Procs \ R :
              Born(q) /\ Message(q, "spawn", d) \in traces
      BY <2>2, <3>1, Zenon DEF Discoverable
    <3>3. q \notin S
      BY <2>1, <3>2
    <3> QED BY <2>1, <2>2, <3>2, <3>3
  <2> QED BY <2>3, <2>4
<1>41. ASSUME NEW b \in Procs \cup {AllBarrier}, RecvBarrier(b) PROVE Discoverable'
  BY <1>41, DiscoverableKept DEF RecvBarrier
<1>42. ASSUME NEW m \in traces, RecvSpawnTrace(m) PROVE Discoverable'
  BY <1>42, DiscoverableKept DEF RecvSpawnTrace, TakeTrace, Discover, Cleanup, Kill
<1>43. ASSUME NEW m \in traces, RecvRemoteTrace(m) PROVE Discoverable'
  BY <1>43, DiscoverableKept DEF RecvRemoteTrace, TakeTrace, Cleanup, Kill
<1>44. ASSUME NEW m \in traces, RecvCoverageTrace(m) PROVE Discoverable'
  BY <1>44, DiscoverableKept DEF RecvCoverageTrace, TakeTrace
<1>45. ASSUME NEW o \in TargetOutcome, Returns(o) PROVE Discoverable'
  BY <1>45, DiscoverableKept DEF Returns, TargetFrame, Become, Running
<1>46. CASE UNCHANGED vars
  <2> HIDE DEF TypeOK, Identity
  <2> QED BY <1>46, DiscoverableKept
<1>47. QED
  BY <1>1, <1>2, <1>3, <1>4, <1>5, <1>6, <1>7, <1>8, <1>9, <1>10, <1>11,
     <1>12, <1>13, <1>14, <1>15, <1>16, <1>17, <1>18, <1>19, <1>20, <1>21,
     <1>22, <1>23, <1>24, <1>25, <1>26, <1>27, <1>28, <1>29, <1>30, <1>31,
     <1>32, <1>33, <1>34, <1>35, <1>36, <1>37, <1>38, <1>39, <1>40, <1>41,
     <1>42, <1>43, <1>44, <1>45, <1>46
  DEF Next, GuardianStep, Expire, Delivery, TargetStep, CoordinatorStep,
      CallerStep

(* What the target did stays known or in flight.                           *)
LEMMA ReportedStep ==
  TypeOK /\ TypeOK' /\ Identity /\ TraceOrigins /\ Reported /\ [Next]_vars => Reported'
<1> SUFFICES ASSUME TypeOK, TypeOK', Identity, TraceOrigins, Reported, [Next]_vars
             PROVE  Reported'
  OBVIOUS
<1> USE GuardianAssumption
<1> USE DEF Identity, Reported, TraceOrigins, Known, Born, Live, GuardianUp, Unseen,
            CodeServer, LoadMessage, AttachMessage, Message, Trace,
            TypeOK, fate, books, drain, notes, verdict, kills, mail, replies, coordinator,
             callerVars, world, guardianVars, vars
<1>1. CASE Start BY <1>1 DEF Start
<1>2. CASE RecvReady BY <1>2 DEF RecvReady
<1>3. CASE RecvDone
  BY <1>3 DEF RecvDone, DoneOutcome, TargetOutcome, Cleanup, Kill
<1>4. CASE RecvCoordinatorDown BY <1>4 DEF RecvCoordinatorDown, Cleanup, Kill
<1>5. CASE RecvCallerDown BY <1>5 DEF RecvCallerDown, Cleanup, Kill
<1>6. CASE RecvSamplerDown BY <1>6 DEF RecvSamplerDown
<1>7. CASE RequestGlobalBarrier
  BY <1>7 DEF RequestGlobalBarrier, AtRest, Drained
<1>8. CASE Finish BY <1>8 DEF Finish, AtRest, Drained, Publish
<1>9. CASE GuardianExits BY <1>9 DEF GuardianExits
<1>10. CASE ExpireRunning BY <1>10 DEF ExpireRunning, Cleanup, Kill
<1>11. CASE ExpireCleaning BY <1>11 DEF ExpireCleaning, Publish
<1>12. CASE GuardianDies BY <1>12 DEF GuardianDies
<1>13. CASE LoadCommits BY <1>13 DEF LoadCommits, TargetFrame, Emit, Message
<1>14. CASE Watches BY <1>14 DEF Watches
<1>15. CASE GetsResult BY <1>15 DEF GetsResult
<1>16. CASE Classifies BY <1>16 DEF Classifies
<1>17. CASE CoordinatorDies BY <1>17 DEF CoordinatorDies
<1>18. CASE SamplerExits BY <1>18 DEF SamplerExits
<1>19. CASE CallerReturns BY <1>19 DEF CallerReturns
<1>20. CASE CallerFindsGuardianDead BY <1>20 DEF CallerFindsGuardianDead
<1>21. CASE CallerDies BY <1>21 DEF CallerDies
<1>22. ASSUME NEW p \in Procs, AdmitChild(p) PROVE Reported'
  BY <1>22 DEF AdmitChild
<1>23. ASSUME NEW p \in Procs, RefuseAtLimit(p) PROVE Reported'
  BY <1>23 DEF RefuseAtLimit, Refuse, Cleanup, Kill
<1>24. ASSUME NEW p \in Procs, RefuseStopping(p) PROVE Reported'
  BY <1>24 DEF RefuseStopping, Refuse
<1>25. ASSUME NEW p \in Procs, RecvDirty(p) PROVE Reported'
  BY <1>25 DEF RecvDirty
<1>26. ASSUME NEW p \in Procs, RecvDown(p) PROVE Reported'
  BY <1>26 DEF RecvDown
<1>27. ASSUME NEW p \in Procs, KillArrives(p) PROVE Reported'
  BY <1>27 DEF KillArrives, Dies, TargetFrame, Become
<1>28. ASSUME NEW p \in Procs, GateAbandoned(p) PROVE Reported'
  BY <1>28 DEF GateAbandoned, Dies, TargetFrame, Become, GuardianGone
<1>29. ASSUME NEW p \in Procs, GateOpens(p) PROVE Reported'
  BY <1>29 DEF GateOpens, TargetFrame, Become, Emit, Message
<1>30. ASSUME NEW p \in Procs, RecvGrant(p) PROVE Reported'
  BY <1>30 DEF RecvGrant, TargetFrame, Become
<1>31. ASSUME NEW p \in Procs, RecvDenial(p) PROVE Reported'
  BY <1>31 DEF RecvDenial, TargetFrame, Become
<1>32. ASSUME NEW p \in Procs, OwnerLost(p) PROVE Reported'
  BY <1>32 DEF OwnerLost, TargetFrame
<1>33. ASSUME NEW p \in Procs, Exits(p) PROVE Reported'
  BY <1>33 DEF Exits, Dies, TargetFrame, Become
<1>34. ASSUME NEW p \in Procs, RemoteSpawn(p) PROVE Reported'
  BY <1>34 DEF RemoteSpawn, TargetFrame, Emit, Message, Spoil, Running
<1>35. ASSUME NEW p \in Procs, DeclareDirty(p) PROVE Reported'
  BY <1>35 DEF DeclareDirty, TargetFrame, Spoil, Running
<1>36. ASSUME NEW p \in Procs, Detach(p) PROVE Reported'
  BY <1>36 DEF Detach, TargetFrame, Emit, Message, Spoil, Running
<1>37. ASSUME NEW p \in Procs, Contaminate(p) PROVE Reported'
  BY <1>37 DEF Contaminate, TargetFrame, Spoil, Running
<1>38. ASSUME NEW p \in Procs, RequestLoad(p) PROVE Reported'
  BY <1>38 DEF RequestLoad, TargetFrame, Running
<1>39. ASSUME NEW p \in Procs, NEW c \in Procs, RequestChild(p, c) PROVE Reported'
  BY <1>39 DEF RequestChild, TargetFrame, Running
<1>40. ASSUME NEW p \in Procs, NEW c \in Procs, PlainSpawn(p, c) PROVE Reported'
  BY <1>40 DEF PlainSpawn, TargetFrame, Become, Emit, Message, Spoil, Running
<1>41. ASSUME NEW b \in Procs \cup {AllBarrier}, RecvBarrier(b) PROVE Reported'
  BY <1>41 DEF RecvBarrier
<1>42. ASSUME NEW m \in traces, RecvSpawnTrace(m) PROVE Reported'
  BY <1>42 DEF RecvSpawnTrace, TakeTrace, Discover, Cleanup, Kill
<1>43. ASSUME NEW m \in traces, RecvRemoteTrace(m) PROVE Reported'
  BY <1>43 DEF RecvRemoteTrace, TakeTrace, Cleanup, Kill
<1>44. ASSUME NEW m \in traces, RecvCoverageTrace(m) PROVE Reported'
  <2>1. attached' <=> attached \/ m.kind = "attach"
    BY <1>44, Zenon DEF RecvCoverageTrace
  <2>2. coverageFailure' <=> coverageFailure \/ m.kind # "attach"
    BY <1>44, Zenon DEF RecvCoverageTrace
  <2> QED BY <1>44, <2>1, <2>2 DEF RecvCoverageTrace, TakeTrace
<1>45. ASSUME NEW o \in TargetOutcome, Returns(o) PROVE Reported'
  BY <1>45 DEF Returns, TargetFrame, Become, Running
<1>46. CASE UNCHANGED vars
  BY <1>46
<1>47. QED
  BY <1>1, <1>2, <1>3, <1>4, <1>5, <1>6, <1>7, <1>8, <1>9, <1>10, <1>11,
     <1>12, <1>13, <1>14, <1>15, <1>16, <1>17, <1>18, <1>19, <1>20, <1>21,
     <1>22, <1>23, <1>24, <1>25, <1>26, <1>27, <1>28, <1>29, <1>30, <1>31,
     <1>32, <1>33, <1>34, <1>35, <1>36, <1>37, <1>38, <1>39, <1>40, <1>41,
     <1>42, <1>43, <1>44, <1>45, <1>46
  DEF Next, GuardianStep, Expire, Delivery, TargetStep, CoordinatorStep,
      CallerStep

(* What the guardian holds against the target, the target did.             *)
LEMMA BlamelessStep ==
  TypeOK /\ TypeOK' /\ Identity /\ Blameless /\ [Next]_vars => Blameless'
<1> SUFFICES ASSUME TypeOK, TypeOK', Identity, Blameless, [Next]_vars
             PROVE  Blameless'
  OBVIOUS
<1> USE GuardianAssumption
<1> USE DEF Blameless, Identity, GuardianUp, LoadMessage, Message, CodeServer,
            TypeOK, fate, books, drain, notes, verdict, kills, mail, replies, coordinator,
             callerVars, world, guardianVars, vars
<1>1. CASE Start BY <1>1 DEF Start
<1>2. CASE RecvReady BY <1>2 DEF RecvReady
<1>3. CASE RecvDone
  BY <1>3 DEF RecvDone, DoneOutcome, TargetOutcome, Cleanup, Kill
<1>4. CASE RecvCoordinatorDown BY <1>4 DEF RecvCoordinatorDown, Cleanup, Kill
<1>5. CASE RecvCallerDown BY <1>5 DEF RecvCallerDown, Cleanup, Kill
<1>6. CASE RecvSamplerDown BY <1>6 DEF RecvSamplerDown
<1>7. CASE RequestGlobalBarrier
  BY <1>7 DEF RequestGlobalBarrier, AtRest, Drained
<1>8. CASE Finish BY <1>8 DEF Finish, AtRest, Drained, Publish
<1>9. CASE GuardianExits BY <1>9 DEF GuardianExits
<1>10. CASE ExpireRunning BY <1>10 DEF ExpireRunning, Cleanup, Kill
<1>11. CASE ExpireCleaning BY <1>11 DEF ExpireCleaning, Publish
<1>12. CASE GuardianDies BY <1>12 DEF GuardianDies
<1>13. CASE LoadCommits BY <1>13 DEF LoadCommits, TargetFrame, Emit, Message
<1>14. CASE Watches BY <1>14 DEF Watches
<1>15. CASE GetsResult BY <1>15 DEF GetsResult
<1>16. CASE Classifies BY <1>16 DEF Classifies
<1>17. CASE CoordinatorDies BY <1>17 DEF CoordinatorDies
<1>18. CASE SamplerExits BY <1>18 DEF SamplerExits
<1>19. CASE CallerReturns BY <1>19 DEF CallerReturns
<1>20. CASE CallerFindsGuardianDead BY <1>20 DEF CallerFindsGuardianDead
<1>21. CASE CallerDies BY <1>21 DEF CallerDies
<1>22. ASSUME NEW p \in Procs, AdmitChild(p) PROVE Blameless'
  BY <1>22 DEF AdmitChild
<1>23. ASSUME NEW p \in Procs, RefuseAtLimit(p) PROVE Blameless'
  BY <1>23 DEF RefuseAtLimit, Refuse, Cleanup, Kill
<1>24. ASSUME NEW p \in Procs, RefuseStopping(p) PROVE Blameless'
  BY <1>24 DEF RefuseStopping, Refuse
<1>25. ASSUME NEW p \in Procs, RecvDirty(p) PROVE Blameless'
  BY <1>25 DEF RecvDirty
<1>26. ASSUME NEW p \in Procs, RecvDown(p) PROVE Blameless'
  BY <1>26 DEF RecvDown
<1>27. ASSUME NEW p \in Procs, KillArrives(p) PROVE Blameless'
  BY <1>27 DEF KillArrives, Dies, TargetFrame, Become
<1>28. ASSUME NEW p \in Procs, GateAbandoned(p) PROVE Blameless'
  BY <1>28 DEF GateAbandoned, Dies, TargetFrame, Become, GuardianGone
<1>29. ASSUME NEW p \in Procs, GateOpens(p) PROVE Blameless'
  BY <1>29 DEF GateOpens, TargetFrame, Become, Emit, Message
<1>30. ASSUME NEW p \in Procs, RecvGrant(p) PROVE Blameless'
  BY <1>30 DEF RecvGrant, TargetFrame, Become
<1>31. ASSUME NEW p \in Procs, RecvDenial(p) PROVE Blameless'
  BY <1>31 DEF RecvDenial, TargetFrame, Become
<1>32. ASSUME NEW p \in Procs, OwnerLost(p) PROVE Blameless'
  BY <1>32 DEF OwnerLost, TargetFrame
<1>33. ASSUME NEW p \in Procs, Exits(p) PROVE Blameless'
  BY <1>33 DEF Exits, Dies, TargetFrame, Become
<1>34. ASSUME NEW p \in Procs, RemoteSpawn(p) PROVE Blameless'
  BY <1>34 DEF RemoteSpawn, TargetFrame, Emit, Message, Spoil, Running
<1>35. ASSUME NEW p \in Procs, DeclareDirty(p) PROVE Blameless'
  BY <1>35 DEF DeclareDirty, TargetFrame, Spoil, Running
<1>36. ASSUME NEW p \in Procs, Detach(p) PROVE Blameless'
  BY <1>36 DEF Detach, TargetFrame, Emit, Message, Spoil, Running
<1>37. ASSUME NEW p \in Procs, Contaminate(p) PROVE Blameless'
  BY <1>37 DEF Contaminate, TargetFrame, Spoil, Running
<1>38. ASSUME NEW p \in Procs, RequestLoad(p) PROVE Blameless'
  BY <1>38 DEF RequestLoad, TargetFrame, Running
<1>39. ASSUME NEW p \in Procs, NEW c \in Procs, RequestChild(p, c) PROVE Blameless'
  BY <1>39 DEF RequestChild, TargetFrame, Running
<1>40. ASSUME NEW p \in Procs, NEW c \in Procs, PlainSpawn(p, c) PROVE Blameless'
  BY <1>40 DEF PlainSpawn, TargetFrame, Become, Emit, Message, Spoil, Running
<1>41. ASSUME NEW b \in Procs \cup {AllBarrier}, RecvBarrier(b) PROVE Blameless'
  BY <1>41 DEF RecvBarrier
<1>42. ASSUME NEW m \in traces, RecvSpawnTrace(m) PROVE Blameless'
  BY <1>42 DEF RecvSpawnTrace, TakeTrace, Discover, Cleanup, Kill
<1>43. ASSUME NEW m \in traces, RecvRemoteTrace(m) PROVE Blameless'
  BY <1>43 DEF RecvRemoteTrace, TakeTrace, Cleanup, Kill
<1>44. ASSUME NEW m \in traces, RecvCoverageTrace(m) PROVE Blameless'
  <2>1. attached' <=> attached \/ m.kind = "attach"
    BY <1>44, Zenon DEF RecvCoverageTrace
  <2>2. coverageFailure' <=> coverageFailure \/ m.kind # "attach"
    BY <1>44, Zenon DEF RecvCoverageTrace
  <2> QED BY <1>44, <2>1, <2>2 DEF RecvCoverageTrace, TakeTrace
<1>45. ASSUME NEW o \in TargetOutcome, Returns(o) PROVE Blameless'
  BY <1>45 DEF Returns, TargetFrame, Become, Running
<1>46. CASE UNCHANGED vars
  BY <1>46
<1>47. QED
  BY <1>1, <1>2, <1>3, <1>4, <1>5, <1>6, <1>7, <1>8, <1>9, <1>10, <1>11,
     <1>12, <1>13, <1>14, <1>15, <1>16, <1>17, <1>18, <1>19, <1>20, <1>21,
     <1>22, <1>23, <1>24, <1>25, <1>26, <1>27, <1>28, <1>29, <1>30, <1>31,
     <1>32, <1>33, <1>34, <1>35, <1>36, <1>37, <1>38, <1>39, <1>40, <1>41,
     <1>42, <1>43, <1>44, <1>45, <1>46
  DEF Next, GuardianStep, Expire, Delivery, TargetStep, CoordinatorStep,
      CallerStep

(* The global barrier and the verdict stay in step with the rest.          *)
LEMMA ClosingStep ==
  TypeOK /\ TypeOK' /\ Identity /\ Tracking /\ Closing /\ Safe /\ [Next]_vars => Closing'
<1> SUFFICES ASSUME TypeOK, TypeOK', Identity, Tracking, Closing, Safe, [Next]_vars
             PROVE  Closing'
  OBVIOUS
<1> USE GuardianAssumption
<1> USE DEF Identity, TraceOrigins, Reported, Blameless, Closing, Safe, Known, Born,
            Live, GuardianUp, Unseen, CodeServer, AllBarrier, LoadMessage, LiveProcs,
            NoReport, Report, Receiving, ConfirmedIsQuiet, ReusableIsUnspoiled,
            TargetOutcomeIsObserved, NoFalseLoss, RootIsWatched, Infrastructure,
            TargetOutcome, Outcome, Tracking,
            TypeOK, fate, books, drain, notes, verdict, kills, mail, replies, coordinator,
             callerVars, world, guardianVars, vars
<1>1. CASE Start BY <1>1 DEF Start
<1>2. CASE RecvReady BY <1>2 DEF RecvReady
<1>3. CASE RecvDone
  BY <1>3 DEF RecvDone, DoneOutcome, TargetOutcome, Cleanup, Kill
<1>4. CASE RecvCoordinatorDown BY <1>4 DEF RecvCoordinatorDown, Cleanup, Kill
<1>5. CASE RecvCallerDown BY <1>5 DEF RecvCallerDown, Cleanup, Kill
<1>6. CASE RecvSamplerDown BY <1>6 DEF RecvSamplerDown
<1>7. CASE RequestGlobalBarrier
  <2>1. Drained
    BY <1>7 DEF RequestGlobalBarrier, AtRest
  <2>2. LiveProcs = {} /\ Unseen = {}
    BY <2>1, DrainedIsQuiet, Zenon DEF Tracking
  <2> QED BY <1>7, <2>1, <2>2 DEF RequestGlobalBarrier, Drained, AtRest
<1>8. CASE Finish
  <2>1. Publish("confirmed", violations)
    BY <1>8 DEF Finish
  <2>2. Drained /\ codeDrained
    BY <1>8 DEF Finish, AtRest
  <2>3. LiveProcs = {} /\ Unseen = {}
    BY <2>2, DrainedIsQuiet, Zenon DEF Tracking
  <2>4. /\ result'.cleanup = "confirmed"
        /\ result'.reusable <=> violations \cup (spoiled \cap {"contaminate"}) = {}
        /\ dirty' <=> dirty \/ ~result'.reusable
        /\ outcome \in Infrastructure => result'.outcome = outcome
        /\ outcome \notin Infrastructure =>
               \/ result'.outcome \in {"dirty_runner", "coverage"}
               \/ /\ result'.outcome = outcome /\ result'.reusable
                  /\ ~coverageFailure /\ (outcome = "ok" => attached)
        /\ result'.outcome = "coverage" =>
               outcome = "coverage" \/ coverageFailure \/ (outcome = "ok" /\ ~attached)
    <3> HIDE DEF TypeOK, Outcome, Infrastructure, TargetOutcome, Report
    <3> QED BY <2>1, PublishFacts
  <2>5. /\ phase' = "replied" /\ result' # NoReport
        /\ UNCHANGED <<outcome, pstate, seen, caller, answer, cstate, spoiled, loader,
                       rootResult, alive, barriers, codeDrained, attached>>
    BY <2>1, <2>4, Zenon DEF Publish, books, drain, coordinator, callerVars, world, NoReport
  <2>6. phase = "cleaning" /\ alive = {} /\ barriers = {} /\ ~coordinatorAlive
    BY <2>2 DEF Drained
  <2> HIDE DEF TypeOK
  <2> QED BY <2>2, <2>3, <2>4, <2>5, <2>6
<1>9. CASE GuardianExits BY <1>9 DEF GuardianExits
<1>10. CASE ExpireRunning BY <1>10 DEF ExpireRunning, Cleanup, Kill
<1>11. CASE ExpireCleaning
  <2>1. Publish("unconfirmed", violations \cup {"cleanup_deadline"})
    BY <1>11 DEF ExpireCleaning
  <2>2. /\ result'.cleanup = "unconfirmed" /\ ~result'.reusable /\ dirty'
        /\ outcome \in Infrastructure => result'.outcome = outcome
        /\ outcome \notin Infrastructure =>
               result'.outcome \in {"dirty_runner", "coverage"}
    <3> HIDE DEF TypeOK, Outcome, Infrastructure, TargetOutcome, Report
    <3> QED BY <2>1, PublishFacts
  <2>3. /\ phase' = "replied" /\ result' # NoReport
        /\ UNCHANGED <<outcome, caller, answer, spoiled>>
    BY <2>1, <2>2, Zenon DEF Publish, callerVars, world, NoReport
  <2>4. phase = "cleaning"
    BY <1>11 DEF ExpireCleaning
  <2> HIDE DEF TypeOK
  <2> QED BY <2>2, <2>3, <2>4
<1>12. CASE GuardianDies BY <1>12 DEF GuardianDies
<1>13. CASE LoadCommits BY <1>13 DEF LoadCommits, TargetFrame, Emit, Message
<1>14. CASE Watches BY <1>14 DEF Watches
<1>15. CASE GetsResult BY <1>15 DEF GetsResult
<1>16. CASE Classifies BY <1>16 DEF Classifies
<1>17. CASE CoordinatorDies BY <1>17 DEF CoordinatorDies
<1>18. CASE SamplerExits BY <1>18 DEF SamplerExits
<1>19. CASE CallerReturns BY <1>19 DEF CallerReturns
<1>20. CASE CallerFindsGuardianDead BY <1>20 DEF CallerFindsGuardianDead
<1>21. CASE CallerDies BY <1>21 DEF CallerDies
<1>22. ASSUME NEW p \in Procs, AdmitChild(p) PROVE Closing'
  BY <1>22 DEF AdmitChild
<1>23. ASSUME NEW p \in Procs, RefuseAtLimit(p) PROVE Closing'
  BY <1>23 DEF RefuseAtLimit, Refuse, Cleanup, Kill
<1>24. ASSUME NEW p \in Procs, RefuseStopping(p) PROVE Closing'
  BY <1>24 DEF RefuseStopping, Refuse
<1>25. ASSUME NEW p \in Procs, RecvDirty(p) PROVE Closing'
  BY <1>25 DEF RecvDirty
<1>26. ASSUME NEW p \in Procs, RecvDown(p) PROVE Closing'
  BY <1>26 DEF RecvDown
<1>27. ASSUME NEW p \in Procs, KillArrives(p) PROVE Closing'
  BY <1>27 DEF KillArrives, Dies, TargetFrame, Become
<1>28. ASSUME NEW p \in Procs, GateAbandoned(p) PROVE Closing'
  BY <1>28 DEF GateAbandoned, Dies, TargetFrame, Become, GuardianGone
<1>29. ASSUME NEW p \in Procs, GateOpens(p) PROVE Closing'
  BY <1>29 DEF GateOpens, TargetFrame, Become, Emit, Message
<1>30. ASSUME NEW p \in Procs, RecvGrant(p) PROVE Closing'
  BY <1>30 DEF RecvGrant, TargetFrame, Become
<1>31. ASSUME NEW p \in Procs, RecvDenial(p) PROVE Closing'
  BY <1>31 DEF RecvDenial, TargetFrame, Become
<1>32. ASSUME NEW p \in Procs, OwnerLost(p) PROVE Closing'
  BY <1>32 DEF OwnerLost, TargetFrame
<1>33. ASSUME NEW p \in Procs, Exits(p) PROVE Closing'
  BY <1>33 DEF Exits, Dies, TargetFrame, Become
<1>34. ASSUME NEW p \in Procs, RemoteSpawn(p) PROVE Closing'
  BY <1>34 DEF RemoteSpawn, TargetFrame, Emit, Message, Spoil, Running
<1>35. ASSUME NEW p \in Procs, DeclareDirty(p) PROVE Closing'
  BY <1>35 DEF DeclareDirty, TargetFrame, Spoil, Running
<1>36. ASSUME NEW p \in Procs, Detach(p) PROVE Closing'
  BY <1>36 DEF Detach, TargetFrame, Emit, Message, Spoil, Running
<1>37. ASSUME NEW p \in Procs, Contaminate(p) PROVE Closing'
  BY <1>37 DEF Contaminate, TargetFrame, Spoil, Running
<1>38. ASSUME NEW p \in Procs, RequestLoad(p) PROVE Closing'
  BY <1>38 DEF RequestLoad, TargetFrame, Running
<1>39. ASSUME NEW p \in Procs, NEW c \in Procs, RequestChild(p, c) PROVE Closing'
  BY <1>39 DEF RequestChild, TargetFrame, Running
<1>40. ASSUME NEW p \in Procs, NEW c \in Procs, PlainSpawn(p, c) PROVE Closing'
  BY <1>40 DEF PlainSpawn, TargetFrame, Become, Emit, Message, Spoil, Running
<1>41. ASSUME NEW b \in Procs \cup {AllBarrier}, RecvBarrier(b) PROVE Closing'
  BY <1>41 DEF RecvBarrier
<1>42. ASSUME NEW m \in traces, RecvSpawnTrace(m) PROVE Closing'
  BY <1>42 DEF RecvSpawnTrace, TakeTrace, Discover, Cleanup, Kill
<1>43. ASSUME NEW m \in traces, RecvRemoteTrace(m) PROVE Closing'
  BY <1>43 DEF RecvRemoteTrace, TakeTrace, Cleanup, Kill
<1>44. ASSUME NEW m \in traces, RecvCoverageTrace(m) PROVE Closing'
  BY <1>44 DEF RecvCoverageTrace, TakeTrace
<1>45. ASSUME NEW o \in TargetOutcome, Returns(o) PROVE Closing'
  BY <1>45 DEF Returns, TargetFrame, Become, Running
<1>46. CASE UNCHANGED vars
  BY <1>46
<1> HIDE DEF Identity, TraceOrigins, Reported, Blameless, Closing, Safe, Known, Born,
             Live, GuardianUp, Unseen, CodeServer, AllBarrier, LoadMessage, LiveProcs,
             NoReport, Report, Receiving, ConfirmedIsQuiet, ReusableIsUnspoiled,
             TargetOutcomeIsObserved, NoFalseLoss, RootIsWatched, Infrastructure,
             TargetOutcome, Outcome, Tracking, TypeOK
<1>47. QED
  BY <1>1, <1>2, <1>3, <1>4, <1>5, <1>6, <1>7, <1>8, <1>9, <1>10, <1>11,
     <1>12, <1>13, <1>14, <1>15, <1>16, <1>17, <1>18, <1>19, <1>20, <1>21,
     <1>22, <1>23, <1>24, <1>25, <1>26, <1>27, <1>28, <1>29, <1>30, <1>31,
     <1>32, <1>33, <1>34, <1>35, <1>36, <1>37, <1>38, <1>39, <1>40, <1>41,
     <1>42, <1>43, <1>44, <1>45, <1>46
  DEF Next, GuardianStep, Expire, Delivery, TargetStep, CoordinatorStep,
      CallerStep

(* And the safety properties follow, step by step.                         *)
LEMMA SafeStep ==
  TypeOK /\ TypeOK' /\ Identity /\ Tracking /\ Closing /\ Safe /\ [Next]_vars => Safe'
<1> SUFFICES ASSUME TypeOK, TypeOK', Identity, Tracking, Closing, Safe, [Next]_vars
             PROVE  Safe'
  OBVIOUS
<1> USE GuardianAssumption
<1> USE DEF Identity, TraceOrigins, Reported, Blameless, Closing, Safe, Known, Born,
            Live, GuardianUp, Unseen, CodeServer, AllBarrier, LoadMessage, LiveProcs,
            NoReport, Report, Receiving, ConfirmedIsQuiet, ReusableIsUnspoiled,
            TargetOutcomeIsObserved, NoFalseLoss, RootIsWatched, Infrastructure,
            TargetOutcome, Outcome, Tracking,
            TypeOK, fate, books, drain, notes, verdict, kills, mail, replies, coordinator,
             callerVars, world, guardianVars, vars
<1>1. CASE Start BY <1>1 DEF Start
<1>2. CASE RecvReady BY <1>2 DEF RecvReady
<1>3. CASE RecvDone
  BY <1>3 DEF RecvDone, DoneOutcome, TargetOutcome, Cleanup, Kill
<1>4. CASE RecvCoordinatorDown BY <1>4 DEF RecvCoordinatorDown, Cleanup, Kill
<1>5. CASE RecvCallerDown BY <1>5 DEF RecvCallerDown, Cleanup, Kill
<1>6. CASE RecvSamplerDown BY <1>6 DEF RecvSamplerDown
<1>7. CASE RequestGlobalBarrier
  BY <1>7 DEF RequestGlobalBarrier, AtRest, Drained
<1>8. CASE Finish
  <2>1. Publish("confirmed", violations)
    BY <1>8 DEF Finish
  <2>2. Drained /\ codeDrained
    BY <1>8 DEF Finish, AtRest
  <2>3. LiveProcs = {} /\ Unseen = {}
    BY <2>2, DrainedIsQuiet, Zenon DEF Tracking
  <2>4. /\ result'.cleanup = "confirmed"
        /\ result'.reusable <=> violations \cup (spoiled \cap {"contaminate"}) = {}
        /\ dirty' <=> dirty \/ ~result'.reusable
        /\ outcome \in Infrastructure => result'.outcome = outcome
        /\ outcome \notin Infrastructure =>
               \/ result'.outcome \in {"dirty_runner", "coverage"}
               \/ /\ result'.outcome = outcome /\ result'.reusable
                  /\ ~coverageFailure /\ (outcome = "ok" => attached)
        /\ result'.outcome = "coverage" =>
               outcome = "coverage" \/ coverageFailure \/ (outcome = "ok" /\ ~attached)
    <3> HIDE DEF TypeOK, Outcome, Infrastructure, TargetOutcome, Report
    <3> QED BY <2>1, PublishFacts
  <2>5. /\ phase' = "replied" /\ result' # NoReport
        /\ UNCHANGED <<outcome, pstate, seen, caller, answer, cstate, spoiled, loader,
                       rootResult, alive, barriers, codeDrained, attached>>
    BY <2>1, <2>4, Zenon DEF Publish, books, drain, coordinator, callerVars, world, NoReport
  <2>6. phase = "cleaning" /\ alive = {} /\ barriers = {} /\ ~coordinatorAlive
    BY <2>2 DEF Drained
  <2> HIDE DEF TypeOK
  <2> QED BY <2>2, <2>3, <2>4, <2>5, <2>6
<1>9. CASE GuardianExits BY <1>9 DEF GuardianExits
<1>10. CASE ExpireRunning BY <1>10 DEF ExpireRunning, Cleanup, Kill
<1>11. CASE ExpireCleaning BY <1>11 DEF ExpireCleaning, Publish
<1>12. CASE GuardianDies BY <1>12 DEF GuardianDies
<1>13. CASE LoadCommits BY <1>13 DEF LoadCommits, TargetFrame, Emit, Message
<1>14. CASE Watches BY <1>14 DEF Watches
<1>15. CASE GetsResult BY <1>15 DEF GetsResult
<1>16. CASE Classifies BY <1>16 DEF Classifies
<1>17. CASE CoordinatorDies BY <1>17 DEF CoordinatorDies
<1>18. CASE SamplerExits BY <1>18 DEF SamplerExits
<1>19. CASE CallerReturns BY <1>19 DEF CallerReturns
<1>20. CASE CallerFindsGuardianDead BY <1>20 DEF CallerFindsGuardianDead
<1>21. CASE CallerDies BY <1>21 DEF CallerDies
<1>22. ASSUME NEW p \in Procs, AdmitChild(p) PROVE Safe'
  BY <1>22 DEF AdmitChild
<1>23. ASSUME NEW p \in Procs, RefuseAtLimit(p) PROVE Safe'
  BY <1>23 DEF RefuseAtLimit, Refuse, Cleanup, Kill
<1>24. ASSUME NEW p \in Procs, RefuseStopping(p) PROVE Safe'
  BY <1>24 DEF RefuseStopping, Refuse
<1>25. ASSUME NEW p \in Procs, RecvDirty(p) PROVE Safe'
  BY <1>25 DEF RecvDirty
<1>26. ASSUME NEW p \in Procs, RecvDown(p) PROVE Safe'
  BY <1>26 DEF RecvDown
<1>27. ASSUME NEW p \in Procs, KillArrives(p) PROVE Safe'
  BY <1>27 DEF KillArrives, Dies, TargetFrame, Become
<1>28. ASSUME NEW p \in Procs, GateAbandoned(p) PROVE Safe'
  BY <1>28 DEF GateAbandoned, Dies, TargetFrame, Become, GuardianGone
<1>29. ASSUME NEW p \in Procs, GateOpens(p) PROVE Safe'
  BY <1>29 DEF GateOpens, TargetFrame, Become, Emit, Message
<1>30. ASSUME NEW p \in Procs, RecvGrant(p) PROVE Safe'
  BY <1>30 DEF RecvGrant, TargetFrame, Become
<1>31. ASSUME NEW p \in Procs, RecvDenial(p) PROVE Safe'
  BY <1>31 DEF RecvDenial, TargetFrame, Become
<1>32. ASSUME NEW p \in Procs, OwnerLost(p) PROVE Safe'
  BY <1>32 DEF OwnerLost, TargetFrame
<1>33. ASSUME NEW p \in Procs, Exits(p) PROVE Safe'
  BY <1>33 DEF Exits, Dies, TargetFrame, Become
<1>34. ASSUME NEW p \in Procs, RemoteSpawn(p) PROVE Safe'
  BY <1>34 DEF RemoteSpawn, TargetFrame, Emit, Message, Spoil, Running
<1>35. ASSUME NEW p \in Procs, DeclareDirty(p) PROVE Safe'
  BY <1>35 DEF DeclareDirty, TargetFrame, Spoil, Running
<1>36. ASSUME NEW p \in Procs, Detach(p) PROVE Safe'
  BY <1>36 DEF Detach, TargetFrame, Emit, Message, Spoil, Running
<1>37. ASSUME NEW p \in Procs, Contaminate(p) PROVE Safe'
  BY <1>37 DEF Contaminate, TargetFrame, Spoil, Running
<1>38. ASSUME NEW p \in Procs, RequestLoad(p) PROVE Safe'
  BY <1>38 DEF RequestLoad, TargetFrame, Running
<1>39. ASSUME NEW p \in Procs, NEW c \in Procs, RequestChild(p, c) PROVE Safe'
  BY <1>39 DEF RequestChild, TargetFrame, Running
<1>40. ASSUME NEW p \in Procs, NEW c \in Procs, PlainSpawn(p, c) PROVE Safe'
  BY <1>40 DEF PlainSpawn, TargetFrame, Become, Emit, Message, Spoil, Running
<1>41. ASSUME NEW b \in Procs \cup {AllBarrier}, RecvBarrier(b) PROVE Safe'
  BY <1>41 DEF RecvBarrier
<1>42. ASSUME NEW m \in traces, RecvSpawnTrace(m) PROVE Safe'
  BY <1>42 DEF RecvSpawnTrace, TakeTrace, Discover, Cleanup, Kill
<1>43. ASSUME NEW m \in traces, RecvRemoteTrace(m) PROVE Safe'
  BY <1>43 DEF RecvRemoteTrace, TakeTrace, Cleanup, Kill
<1>44. ASSUME NEW m \in traces, RecvCoverageTrace(m) PROVE Safe'
  BY <1>44 DEF RecvCoverageTrace, TakeTrace
<1>45. ASSUME NEW o \in TargetOutcome, Returns(o) PROVE Safe'
  BY <1>45 DEF Returns, TargetFrame, Become, Running
<1>46. CASE UNCHANGED vars
  BY <1>46
<1> HIDE DEF Identity, TraceOrigins, Reported, Blameless, Closing, Safe, Known, Born,
             Live, GuardianUp, Unseen, CodeServer, AllBarrier, LoadMessage, LiveProcs,
             NoReport, Report, Receiving, ConfirmedIsQuiet, ReusableIsUnspoiled,
             TargetOutcomeIsObserved, NoFalseLoss, RootIsWatched, Infrastructure,
             TargetOutcome, Outcome, Tracking, TypeOK
<1>47. QED
  BY <1>1, <1>2, <1>3, <1>4, <1>5, <1>6, <1>7, <1>8, <1>9, <1>10, <1>11,
     <1>12, <1>13, <1>14, <1>15, <1>16, <1>17, <1>18, <1>19, <1>20, <1>21,
     <1>22, <1>23, <1>24, <1>25, <1>26, <1>27, <1>28, <1>29, <1>30, <1>31,
     <1>32, <1>33, <1>34, <1>35, <1>36, <1>37, <1>38, <1>39, <1>40, <1>41,
     <1>42, <1>43, <1>44, <1>45, <1>46
  DEF Next, GuardianStep, Expire, Delivery, TargetStep, CoordinatorStep,
      CallerStep

(* Bookkeeping holds initially.                                            *)
LEMMA InitBookkeeping == Init => Bookkeeping
<1> SUFFICES ASSUME Init PROVE Bookkeeping
  OBVIOUS
<1>1. TypeOK
  BY InitTyped
<1>2. Identity
  BY GuardianAssumption DEF Init, Identity, Known, Born, Live
<1>3. TraceOrigins /\ Discoverable /\ Reported /\ Blameless
  BY DEF Init, TraceOrigins, Discoverable, Reported, Blameless, GuardianUp
<1>4. Closing
  BY DEF Init, Closing, NoReport, Infrastructure
<1>5. Safe
  BY GuardianAssumption DEF Init, Safe, ConfirmedIsQuiet, ReusableIsUnspoiled,
     TargetOutcomeIsObserved, NoFalseLoss, RootIsWatched, NoReport
<1> QED BY <1>1, <1>2, <1>3, <1>4, <1>5 DEF Bookkeeping, Tracking

(* Every step keeps Bookkeeping.                                           *)
LEMMA BookkeepingStep == Bookkeeping /\ [Next]_vars => Bookkeeping'
  BY TypeStep, IdentityStep, TraceOriginsStep, DiscoverableStep, ReportedStep,
     BlamelessStep, ClosingStep, SafeStep, Zenon DEF Bookkeeping, Tracking

(* In every execution, whatever the target does and whoever dies: what the *)
(* guardian knows, what is in flight and what it has said add up.          *)
THEOREM BookkeepingHolds == Spec => []Bookkeeping
  BY InitBookkeeping, BookkeepingStep, PTL DEF Spec

(* A confirmed cleanup leaves no process of the execution alive.           *)
THEOREM ConfirmedQuiet == Spec => []ConfirmedIsQuiet
<1>1. Bookkeeping => ConfirmedIsQuiet
  BY DEF Bookkeeping, Safe
<1> QED BY <1>1, BookkeepingHolds, PTL

(* A reusable VM was not spoiled by the target.                            *)
THEOREM ReusableUnspoiled == Spec => []ReusableIsUnspoiled
<1>1. Bookkeeping => ReusableIsUnspoiled
  BY DEF Bookkeeping, Safe
<1> QED BY <1>1, BookkeepingHolds, PTL

(* An outcome of the target rests on an intact observation.                *)
THEOREM TargetOutcomeObserved == Spec => []TargetOutcomeIsObserved
<1>1. Bookkeeping => TargetOutcomeIsObserved
  BY DEF Bookkeeping, Safe
<1> QED BY <1>1, BookkeepingHolds, PTL

(* An undisturbed execution is never blamed for lost coverage.             *)
THEOREM NoLossInvented == Spec => []NoFalseLoss
<1>1. Bookkeeping => NoFalseLoss
  BY DEF Bookkeeping, Safe
<1> QED BY <1>1, BookkeepingHolds, PTL

(* The root runs only under the coordinator's monitor.                     *)
THEOREM RootWatched == Spec => []RootIsWatched
<1>1. Bookkeeping => RootIsWatched
  BY DEF Bookkeeping, Safe
<1> QED BY <1>1, BookkeepingHolds, PTL

(* An answer "ok" was earned by the root and by the cleanup after it.      *)
THEOREM OkEarned == Spec => []OkIsEarned
<1>1. Bookkeeping => OkIsEarned
  BY DEF Bookkeeping, Identity, Closing, OkIsEarned, NoReport, Infrastructure
<1> QED BY <1>1, BookkeepingHolds, PTL

(* The first infrastructure failure is the one the caller is told of.      *)
THEOREM FirstReasonIsKept == Spec => []FirstReasonKept
<1>1. Bookkeeping => FirstReasonKept
  BY DEF Bookkeeping, Closing, FirstReasonKept
<1> QED BY <1>1, BookkeepingHolds, PTL

(* Survivors of a reported execution have retired the VM.                  *)
THEOREM SurvivorsRetire == Spec => []SurvivorsRetireTheVm
<1>1. Bookkeeping => SurvivorsRetireTheVm
  <2> SUFFICES ASSUME Bookkeeping, LiveProcs # {},
                      phase \in {"replied", "done"} \/ caller = "answered"
               PROVE  dirty
    BY DEF SurvivorsRetireTheVm
  <2>1. result.cleanup # "confirmed"
    BY Zenon DEF Bookkeeping, Safe, ConfirmedIsQuiet
  <2>2. result.cleanup \in {"none", "confirmed", "unconfirmed"}
    BY DEF Bookkeeping, TypeOK, Report
  <2> QED BY <2>1, <2>2 DEF Bookkeeping, Closing
<1> QED BY <1>1, BookkeepingHolds, PTL
=============================================================================
