----------------------------- MODULE ClientProofs -----------------------------
(* Proofs about Client, for any threads, slots, scenarios and number of calls. *)
EXTENDS Client, TLAPS

Ids == 0..MaxCall

CallerType ==
    [pc : {"idle", "write", "half", "wait", "failing", "result", "close", "reap", "reaped"},
     op : Operations \cup {"none"}, id : Ids, bounded : BOOLEAN,
     stage : {"user", "stop", "close", "reaped"}, call : Ids, forgot : BOOLEAN,
     hands : SUBSET Calls]
FutureType == [done : BOOLEAN, from : Ids, ok : BOOLEAN]
TableType == [next : 1..(MaxCall + 1), pending : SUBSET Calls, failure : BOOLEAN,
              closing : BOOLEAN, closed : BOOLEAN, started : BOOLEAN, clean : BOOLEAN,
              unreaped : BOOLEAN]
ReaderType == [pc : {"reading", "popped", "failing", "ended"}, hands : SUBSET Calls,
               response : Response]
RuntimeType == [up : BOOLEAN, campaign : {"none", "running", "stopping", "over"},
                jobs : SUBSET [id : Calls, op : Jobs], closing : BOOLEAN, busy : BOOLEAN]

RuntimeTyped == rt \in RuntimeType /\ stdin \in Seq(Message) /\ stdout \in Seq(Response)
ClientTyped == /\ py \in TableType /\ future \in [Calls -> FutureType]
               /\ th \in [Threads -> CallerType] /\ reader \in ReaderType

(* The numbers that are left: two of them wait for a close(), one at a time.     *)
Closing(t) == th[t].stage # "user" \/ th[t].pc \in {"close", "reap", "reaped"}
Room ==
    /\ ~py.closing => py.next < MaxCall
    /\ \A t \in Threads :
          /\ Closing(t) => py.closing
          /\ th[t].stage = "stop" => py.next <= MaxCall
          /\ th[t].stage = "reaped" => th[t].pc = "failing"
          /\ th[t].pc \in {"reap", "reaped"} => th[t].stage = "close"
          /\ th[t].pc = "close" => th[t].stage \in {"stop", "close"}
          /\ th[t].pc = "close" /\ th[t].stage = "stop" => py.next < MaxCall
          /\ th[t].pc = "close" /\ th[t].stage = "close" => py.next <= MaxCall
          /\ \A u \in Threads : Closing(t) /\ Closing(u) => t = u

(* Who writes or waits has a number and an operation.                          *)
Asking(t) == th[t].pc \in {"write", "half", "wait"}
Asked == \A t \in Threads : Asking(t) => th[t].id # 0 /\ th[t].op \in Operations

Sound == RuntimeTyped /\ ClientTyped /\ Room /\ Asked

-----------------------------------------------------------------------------
(* The number of a call that may begin is a number of the model.              *)
LEMMA NextInCalls ==
  ASSUME ClientTyped, Room, NEW t \in Threads, th[t].pc = "close" \/ py.next \in UserCalls
  PROVE  py.next \in Calls /\ py.next + 1 \in 1..(MaxCall + 1)
<1>1. MaxCall \in Nat /\ MaxCall > 2 BY ControlAssumption, ClientAssumption
<1>2. py.next \in 1..(MaxCall + 1) BY DEF ClientTyped, TableType
<1>3. CASE py.next \in UserCalls BY <1>1, <1>2, <1>3 DEF UserCalls, Calls
<1>4. CASE th[t].pc = "close" BY <1>1, <1>2, <1>4 DEF Room, Calls
<1> QED BY <1>3, <1>4

(* The operators of the client return what the types say.                     *)
LEMMA CompletedTyped ==
  ASSUME ClientTyped, NEW hands \in SUBSET Calls, NEW from \in Ids, NEW ok \in BOOLEAN
  PROVE  Completed(hands, from, ok) \in [Calls -> FutureType]
  BY DEF ClientTyped, Completed, FutureType

LEMMA DroppedTyped ==
  ASSUME ClientTyped, NEW i
  PROVE  Dropped(i) \in [Calls -> FutureType]
<1>1. 0 \in Ids BY ControlAssumption DEF Ids
<1> QED BY <1>1 DEF ClientTyped, Dropped, Undone, FutureType

LEMMA TableTyped ==
  ASSUME ClientTyped
  PROVE  /\ Failing \in TableType
         /\ \A i : Without(i) \in TableType
         /\ \A t, ok \in BOOLEAN : Noted(t, ok) \in TableType
  BY DEF ClientTyped, TableType, Failing, Without, Noted

LEMMA ReturnsTyped ==
  ASSUME ClientTyped, NEW t \in Threads, NEW ok \in BOOLEAN
  PROVE  /\ Returns(t, ok) \in [Threads -> CallerType]
         /\ \A u \in Threads \ {t} : Returns(t, ok)[u] = th[u]
         /\ Returns(t, ok)[t] = [th[t] EXCEPT !.id = 0, !.op = "none", !.bounded = TRUE,
                                   !.pc = Returns(t, ok)[t].pc, !.stage = Returns(t, ok)[t].stage]
         /\ th[t].stage = "user" => Returns(t, ok)[t].stage = "user" /\ Returns(t, ok)[t].pc = "idle"
         /\ th[t].stage # "user" => /\ Returns(t, ok)[t].stage = "close"
                                    /\ Returns(t, ok)[t].pc \in {"idle", "reap", "close"}
         /\ Returns(t, ok)[t].pc = "close" => th[t].stage \notin {"user", "close"}
<1> DEFINE q == CASE th[t].stage = "user" -> "idle"
                  [] th[t].stage # "user" /\ (~ok \/ th[t].stage = "close") -> "reap"
                  [] OTHER -> "close"
           g == IF th[t].stage = "user" THEN "user" ELSE "close"
           c == [th[t] EXCEPT !.id = 0, !.op = "none", !.bounded = TRUE, !.pc = q, !.stage = g]
<1>1. 0 \in Ids BY ControlAssumption DEF Ids
<1>2. th \in [Threads -> CallerType] /\ th[t] \in CallerType BY DEF ClientTyped
<1>3. q \in {"idle", "reap", "close"} /\ g \in {"user", "close"}
  OBVIOUS
<1>4. Returns(t, ok) = [th EXCEPT ![t] = c] BY <1>2 DEF Returns
<1>5. c \in CallerType /\ c.pc = q /\ c.stage = g
  <2> HIDE DEF q, g
  <2> QED BY <1>1, <1>2, <1>3 DEF CallerType
<1>6. /\ th[t].stage = "user" => g = "user" /\ q = "idle"
      /\ th[t].stage # "user" => g = "close"
      /\ q = "close" => th[t].stage \notin {"user", "close"}
  OBVIOUS
<1>7. Returns(t, ok)[t] = c BY <1>2, <1>4
<1> HIDE DEF q, g
<1>8. c = [th[t] EXCEPT !.id = 0, !.op = "none", !.bounded = TRUE, !.pc = c.pc, !.stage = c.stage]
  BY <1>2, <1>5
<1> HIDE DEF c
<1> QED BY <1>2, <1>3, <1>4, <1>5, <1>6, <1>7, <1>8

(* What a call leaves behind that has begun.                                   *)
Begun(t, op, bounded, stage) ==
    /\ py' \in TableType /\ th' \in [Threads -> CallerType]
    /\ py' = [py EXCEPT !.next = py.next + 1, !.pending = py.pending \cup {py.next}]
    /\ \A u \in Threads \ {t} : th'[u] = th[u]
    /\ th'[t] = [th[t] EXCEPT !.pc = "write", !.op = op, !.id = py.next,
                              !.bounded = bounded, !.stage = stage]

LEMMA BeginTyped ==
  ASSUME ClientTyped, NEW t \in Threads, NEW op \in Operations, NEW bounded \in BOOLEAN,
         NEW stage \in {"user", "stop", "close"}, py.next \in Calls,
         py.next + 1 \in 1..(MaxCall + 1), BeginCall(t, op, bounded, stage)
  PROVE  Begun(t, op, bounded, stage)
<1>1. py.next \in Ids BY DEF Ids, Calls
<1>2. py' = [py EXCEPT !.next = py.next + 1, !.pending = py.pending \cup {py.next}]
  BY DEF BeginCall, ClientTyped, TableType
<1>3. py' \in TableType BY <1>2 DEF ClientTyped, TableType
<1> DEFINE c == [th[t] EXCEPT !.pc = "write", !.op = op, !.id = py.next,
                              !.bounded = bounded, !.stage = stage]
<1>4. th \in [Threads -> CallerType] /\ th[t] \in CallerType BY DEF ClientTyped
<1>5. c \in CallerType BY <1>1, <1>4 DEF CallerType
<1>6. th' = [th EXCEPT ![t] = c] BY <1>4 DEF BeginCall, CallerType
<1> HIDE DEF c
<1>7. th' \in [Threads -> CallerType] /\ th'[t] = c /\ \A u \in Threads \ {t} : th'[u] = th[u]
  BY <1>4, <1>5, <1>6
<1> QED BY <1>2, <1>3, <1>7 DEF c, Begun

-----------------------------------------------------------------------------
(* The runtime by itself.                                                      *)
LEMMA Responds ==
  ASSUME RuntimeTyped, NEW id \in Ids, NEW ok \in BOOLEAN, Respond(id, ok)
  PROVE  stdout' \in Seq(Response)
<1>1. \A sound \in BOOLEAN : [id |-> id, ok |-> ok, sound |-> sound] \in Response
  BY DEF Response, Ids
<1>2. \E sound \in BOOLEAN : stdout' = Append(stdout, [id |-> id, ok |-> ok, sound |-> sound])
  BY DEF Respond
<1> QED BY <1>1, <1>2 DEF RuntimeTyped

(* The frame that the loop takes.                                             *)
LEMMA TakesFrame ==
  ASSUME RuntimeTyped, stdin # <<>>
  PROVE  Head(stdin) \in Message /\ Tail(stdin) \in Seq(Message) /\ Head(stdin).id \in Ids
<1>1. Head(stdin) \in Message /\ Tail(stdin) \in Seq(Message) BY DEF RuntimeTyped
<1> QED BY <1>1 DEF Message, Calls, Ids

(* Every step of the runtime keeps its types.                                 *)
LEMMA RuntimeStepTyped ==
  ASSUME RuntimeTyped, RuntimeStep
  PROVE  RuntimeTyped'
<1>0. 0 \in Ids BY ControlAssumption DEF Ids
<1> USE DEF RuntimeTyped
<1>e. <<>> \in Seq(Message) OBVIOUS
<1>g. rt' = Gone => rt' \in RuntimeType BY DEF Gone, RuntimeType
<1>j. \A j \in rt.jobs : j \in [id : Calls, op : Jobs] /\ j.id \in Ids
  BY DEF RuntimeType, Calls, Ids
<1>1. CASE Accept
  <2> DEFINE m == Head(stdin)
  <2>1. m \in Message /\ Tail(stdin) \in Seq(Message) /\ m.id \in Ids
    BY <1>1, TakesFrame DEF Accept
  <2>2. CASE Refused(m)
    <3>1. Respond(m.id, FALSE) /\ rt' = rt /\ stdin' = Tail(stdin) BY <1>1, <2>2 DEF Accept
    <3> QED BY <2>1, <3>1, Responds
  <2>3. CASE ~Refused(m)
    <3>1. Dispatch(m) /\ stdin' = Tail(stdin) BY <1>1, <2>3 DEF Accept
    <3> DEFINE more == rt.jobs \cup {[id |-> m.id, op |-> m.op]}
    <3>2. m.op \in Jobs => Job(m) \in [id : Calls, op : Jobs] BY <2>1 DEF Job, Message
    <3>3. m.op \in Operations BY <2>1 DEF Message
    <3>4. Stopping \in {"none", "running", "stopping", "over"} BY DEF Stopping, RuntimeType
    <3>5. CASE m.op \in {"start", "request_stop", "cancel"}
      <4>1. Respond(m.id, TRUE) BY <3>1, <3>5 DEF Dispatch
      <4>2. \/ rt' = [rt EXCEPT !.campaign = "running"] \/ rt' = [rt EXCEPT !.campaign = Stopping]
            \/ rt' = rt
        BY <3>1, <3>5 DEF Dispatch
      <4>3. rt' \in RuntimeType BY <3>4, <4>2 DEF RuntimeType
      <4> QED BY <2>1, <3>1, <4>1, <4>3, Responds
    <3>6. CASE m.op \in Jobs
      <4>1. Job(m) \in [id : Calls, op : Jobs] BY <3>2, <3>6
      <4>2. \/ rt' = Begin(m) \/ rt' = [Begin(m) EXCEPT !.busy = TRUE]
            \/ rt' = [Begin(m) EXCEPT !.closing = TRUE, !.campaign = Stopping]
        BY <3>1, <3>6 DEF Dispatch, Jobs
      <4>3. stdout' = stdout BY <3>1, <3>6 DEF Dispatch, Jobs
      <4>4. Begin(m) \in RuntimeType BY <4>1 DEF Begin, RuntimeType
      <4>5. rt' \in RuntimeType BY <3>4, <4>2, <4>4 DEF RuntimeType
      <4> QED BY <2>1, <3>1, <4>3, <4>5
    <3> QED BY <3>3, <3>5, <3>6 DEF Operations
  <2> QED BY <2>2, <2>3
<1>2. CASE WireError
  <2>1. Respond(0, FALSE) /\ stdin' = <<>> BY <1>2 DEF WireError
  <2>2. rt' \in RuntimeType BY <1>2 DEF WireError, RuntimeType
  <2> QED BY <1>0, <1>e, <2>1, <2>2, Responds
<1>3. CASE CampaignEnds
  <2>1. rt' \in RuntimeType BY <1>3 DEF CampaignEnds, RuntimeType
  <2> QED BY <1>3, <2>1 DEF CampaignEnds
<1>4. CASE RuntimeCrashes
  <2>1. rt' \in RuntimeType /\ stdin' = <<>> BY <1>4, <1>g DEF RuntimeCrashes, Ended
  <2>2. stdout' \in Seq(Response) BY <1>0, <1>4, Responds DEF RuntimeCrashes
  <2> QED BY <1>e, <2>1, <2>2
<1>5. ASSUME NEW j \in rt.jobs, JobDone(j) PROVE RuntimeTyped'
  <2>1. Freed(j) \in BOOLEAN BY DEF Freed, RuntimeType
  <2>2. rt' \in RuntimeType BY <1>5, <2>1 DEF JobDone, RuntimeType
  <2>3. stdout' \in Seq(Response)
    BY <1>5, <1>j, Responds DEF JobDone
  <2> QED BY <1>5, <2>2, <2>3 DEF JobDone
<1>6. ASSUME NEW j \in rt.jobs, JobDies(j) PROVE RuntimeTyped'
  <2>2. rt' \in RuntimeType BY <1>6 DEF JobDies, RuntimeType
  <2>3. stdout' \in Seq(Response) BY <1>6, <1>j, Responds DEF JobDies
  <2> QED BY <1>6, <2>2, <2>3 DEF JobDies
<1>7. ASSUME NEW j \in rt.jobs, CloseDone(j) PROVE RuntimeTyped'
  BY <1>7, <1>g, <1>e, <1>j, Responds DEF CloseDone, Ended
<1>8. ASSUME NEW j \in rt.jobs, CloseFails(j) PROVE RuntimeTyped'
  BY <1>8, <1>g, <1>e, <1>j, Responds DEF CloseFails, Ended
<1> QED BY <1>1, <1>2, <1>3, <1>4, <1>5, <1>6, <1>7, <1>8 DEF RuntimeStep

-----------------------------------------------------------------------------
(* The client. A step of one thread leaves the others where they are.          *)
LEMMA RoomKept ==
  ASSUME ClientTyped, Room, NEW t \in Threads,
         py'.closing = py.closing, py'.next = py.next,
         \A u \in Threads \ {t} : th'[u] = th[u],
         th[t].stage = "user" => th'[t].stage = "user" /\ th'[t].pc \notin {"close", "reap", "reaped"},
         th'[t].stage = "stop" => th[t].stage = "stop",
         th'[t].stage = "reaped" => th'[t].pc = "failing",
         th'[t].pc \in {"reap", "reaped"} => th'[t].stage = "close",
         th'[t].pc = "close" => th[t].stage = "stop" /\ th'[t].stage = "close"
  PROVE  Room'
<1>1. MaxCall \in Nat /\ py.next \in Int
  BY ControlAssumption DEF ClientTyped, TableType
<1>2. \A u \in Threads : Closing(u)' => Closing(u) BY DEF Closing
<1>3. \A u \in Threads : /\ th'[u].stage = "stop" => th[u].stage = "stop"
                         /\ th'[u].stage = "reaped" => th'[u].pc = "failing"
                         /\ th'[u].pc \in {"reap", "reaped"} => th'[u].stage = "close"
  BY DEF Room
<1>4. \A u \in Threads : th'[u].pc = "close" =>
          \/ th[u].pc = "close" /\ th[u].stage = th'[u].stage
          \/ th[u].stage = "stop" /\ th'[u].stage = "close"
  OBVIOUS
<1> QED BY <1>1, <1>2, <1>3, <1>4 DEF Room

(* A step that leaves the threads alone keeps what is said of them.           *)
LEMMA RoomUntouched ==
  ASSUME Room, Asked, UNCHANGED th, py'.closing = py.closing, py'.next = py.next
  PROVE  Room' /\ Asked'
  BY DEF Room, Closing, Asked, Asking

(* A call begins.                                                              *)
LEMMA CallBegins ==
  ASSUME ClientTyped, Room, NEW t \in Threads, NEW op \in Operations, NEW bounded \in BOOLEAN,
         NEW stage \in {"user", "stop", "close"}, BeginCall(t, op, bounded, stage),
         \/ stage = "user" /\ py.next \in UserCalls /\ th[t].pc = "idle"
         \/ stage = th[t].stage /\ th[t].pc = "close",
         Asked
  PROVE  py' \in TableType /\ th' \in [Threads -> CallerType] /\ Room' /\ Asked'
<1>1. py.next \in Calls /\ py.next + 1 \in 1..(MaxCall + 1) BY NextInCalls
<1>2. Begun(t, op, bounded, stage) BY <1>1, BeginTyped
<1>b. /\ py' \in TableType /\ th' \in [Threads -> CallerType]
      /\ \A u \in Threads \ {t} : th'[u] = th[u]
  BY <1>2 DEF Begun
<1>3. py'.next = py.next + 1 /\ py'.closing = py.closing BY <1>2 DEF ClientTyped, TableType, Begun
<1>4. th'[t].pc = "write" /\ th'[t].stage = stage
  BY <1>2 DEF ClientTyped, CallerType, Begun
<1>5. MaxCall \in Nat /\ py.next \in Int BY <1>1, ControlAssumption DEF Calls
<1>8. th'[t].id # 0 /\ th'[t].op \in Operations
  BY <1>1, <1>2 DEF ClientTyped, CallerType, Begun, Calls
<1>9. Asked' BY <1>8, <1>b DEF Asked, Asking
<1> HIDE DEF ClientTyped
<1>6. CASE stage = "user" /\ py.next \in UserCalls
  <2>1. py'.next < MaxCall BY <1>3, <1>5, <1>6 DEF UserCalls
  <2>2. ~Closing(t)' BY <1>4, <1>6 DEF Closing
  <2>3. \A u \in Threads \ {t} : Closing(u)' = Closing(u) /\ th'[u] = th[u] BY <1>b DEF Closing
  <2>4. py.next < MaxCall BY <1>5, <1>6 DEF UserCalls
  <2>5. ASSUME NEW u \in Threads
        PROVE  /\ Closing(u)' => py'.closing
               /\ th'[u].stage = "reaped" => th'[u].pc = "failing"
               /\ th'[u].pc \in {"reap", "reaped"} => th'[u].stage = "close"
               /\ th'[u].pc = "close" => th'[u].stage \in {"stop", "close"}
               /\ \A w \in Threads : Closing(u)' /\ Closing(w)' => u = w
    BY <1>3, <1>4, <1>6, <2>2, <2>3 DEF Room
  <2> QED BY <1>b, <1>5, <1>9, <2>1, <2>5, <1>3, SMT DEF Room
<1>7. CASE stage = th[t].stage /\ th[t].pc = "close"
  <2>1. Closing(t) /\ py.closing BY <1>7 DEF Closing, Room
  <2>2. \A u \in Threads \ {t} : ~Closing(u) /\ ~Closing(u)' /\ th'[u] = th[u]
    BY <1>b, <2>1 DEF Closing, Room
  <2>3. \A u \in Threads \ {t} : /\ th'[u].stage = "user"
                                /\ th'[u].pc \notin {"close", "reap", "reaped"}
    BY <2>2 DEF Closing
  <2>4. stage = "stop" => py.next < MaxCall BY <1>7 DEF Room
  <2>5. stage = "stop" => py'.next <= MaxCall BY <1>3, <1>5, <2>4
  <2>6. stage # "reaped" OBVIOUS
  <2>7. ASSUME NEW u \in Threads
        PROVE  /\ Closing(u)' => py'.closing
               /\ th'[u].stage = "stop" => py'.next <= MaxCall
               /\ th'[u].stage = "reaped" => th'[u].pc = "failing"
               /\ th'[u].pc \in {"reap", "reaped"} => th'[u].stage = "close"
               /\ th'[u].pc # "close"
               /\ \A w \in Threads : Closing(u)' /\ Closing(w)' => u = w
    BY <1>3, <1>4, <2>1, <2>2, <2>3, <2>5, <2>6
  <2> QED BY <1>b, <1>3, <1>9, <2>1, <2>7 DEF Room
<1> QED BY <1>6, <1>7

(* A call is over.                                                             *)
LEMMA CallReturns ==
  ASSUME ClientTyped, Room, NEW t \in Threads, NEW ok \in BOOLEAN, th[t].stage # "reaped",
         py'.closing = py.closing, py'.next = py.next,
         NEW h \in SUBSET Calls,
         th' = Returns(t, ok) \/ th' = [Returns(t, ok) EXCEPT ![t].hands = h],
         Asked
  PROVE  th' \in [Threads -> CallerType] /\ Room' /\ Asked'
<1> DEFINE r == Returns(t, ok)
<1>1. /\ r \in [Threads -> CallerType]
      /\ \A u \in Threads \ {t} : r[u] = th[u]
      /\ th[t].stage = "user" => r[t].stage = "user" /\ r[t].pc = "idle"
      /\ th[t].stage # "user" => r[t].stage = "close" /\ r[t].pc \in {"idle", "reap", "close"}
      /\ r[t].pc = "close" => th[t].stage \notin {"user", "close"}
  BY ReturnsTyped
<1>2. th[t].stage \in {"user", "stop", "close", "reaped"} BY DEF ClientTyped, CallerType
<1> HIDE DEF r
<1>3. /\ th' \in [Threads -> CallerType]
      /\ \A u \in Threads \ {t} : th'[u] = th[u]
      /\ th'[t].pc = r[t].pc /\ th'[t].stage = r[t].stage
  <2>1. CASE th' = r BY <1>1, <2>1
  <2>2. CASE th' = [r EXCEPT ![t].hands = h]
    BY <1>1, <2>2 DEF CallerType
  <2> QED BY <2>1, <2>2 DEF r
<1>4. th'[t].stage = "stop" => th[t].stage = "stop" BY <1>1, <1>3
<1>5. /\ th'[t].stage # "reaped"
      /\ th'[t].pc \in {"reap", "reaped"} => th'[t].stage = "close"
  BY <1>1, <1>3
<1>6. th'[t].pc = "close" => th[t].stage = "stop" /\ th'[t].stage = "close" BY <1>1, <1>2, <1>3
<1>7. th[t].stage = "user" => th'[t].stage = "user" /\ th'[t].pc \notin {"close", "reap", "reaped"}
  BY <1>1, <1>3
<1>8. th'[t].pc \in {"idle", "reap", "close"} BY <1>1, <1>3
<1>9. Asked' BY <1>3, <1>8 DEF Asked, Asking
<1> QED BY <1>3, <1>4, <1>5, <1>6, <1>7, <1>9, RoomKept

-----------------------------------------------------------------------------
(* The beginning.                                                             *)
LEMMA SoundInit == Init => Sound
<1> SUFFICES ASSUME Init PROVE Sound OBVIOUS
<1>0. MaxCall \in Nat /\ MaxCall > 2 BY ControlAssumption, ClientAssumption
<1>1. RuntimeTyped
  <2>1. <<>> \in Seq(Message) /\ <<>> \in Seq(Response) OBVIOUS
  <2> QED BY <2>1 DEF Init, RuntimeInit, RuntimeTyped, RuntimeType
<1>2. NoCall \in CallerType BY <1>0 DEF NoCall, CallerType, Ids
<1>3. Undone \in FutureType BY <1>0 DEF Undone, FutureType, Ids
<1>4. py \in TableType BY <1>0 DEF Init, TableType
<1>5. reader \in ReaderType BY <1>0 DEF Init, NoResponse, ReaderType, Response
<1>6. ClientTyped BY <1>2, <1>3, <1>4, <1>5 DEF Init, ClientTyped
<1>7. Room BY <1>0 DEF Init, Room, NoCall, Closing
<1>8. Asked BY DEF Init, Asked, Asking, NoCall
<1> QED BY <1>1, <1>6, <1>7, <1>8 DEF Sound

(* The reader.                                                                *)
LEMMA ReaderSound ==
  ASSUME Sound, Reader
  PROVE  Sound'
<1>0. 0 \in Ids BY ControlAssumption DEF Ids
<1>a. /\ py \in TableType /\ reader \in ReaderType /\ py.pending \in SUBSET Calls
      /\ reader.response.id \in Ids /\ reader.response.ok \in BOOLEAN
      /\ reader.hands \in SUBSET Calls
  BY DEF Sound, ClientTyped, TableType, ReaderType, Response, Ids
<1>t. ClientTyped /\ RuntimeTyped /\ Room /\ Asked BY DEF Sound
<1>b. /\ Failing \in TableType /\ Failing.closing = py.closing /\ Failing.next = py.next
      /\ \A i : /\ Without(i) \in TableType /\ Without(i).closing = py.closing
                /\ Without(i).next = py.next
  BY <1>a DEF TableType, Failing, Without
<1>1. CASE ReaderTakes
  <2>1. stdout \in Seq(Response) /\ stdout # <<>> BY <1>1 DEF Sound, RuntimeTyped, ReaderTakes
  <2>2. Head(stdout) \in Response /\ stdout' \in Seq(Response)
    BY <1>1, <2>1 DEF ReaderTakes
  <2>3. py' = Failing \/ \E i : py' = Without(i) BY <1>1 DEF ReaderTakes
  <2>4. \/ reader' = [reader EXCEPT !.pc = "failing", !.hands = py.pending]
        \/ reader' = reader
        \/ \E h \in SUBSET Calls : reader' = [pc |-> "popped", hands |-> h, response |-> Head(stdout)]
    <3>1. {Head(stdout).id} \cap py.pending \in SUBSET Calls BY <1>a
    <3> QED BY <1>1, <3>1 DEF ReaderTakes
  <2>5. reader' \in ReaderType
    <3>1. CASE \E h \in SUBSET Calls : reader' = [pc |-> "popped", hands |-> h, response |-> Head(stdout)]
      BY <2>2, <3>1 DEF ReaderType
    <3>2. CASE reader' = [reader EXCEPT !.pc = "failing", !.hands = py.pending]
      BY <1>a, <3>2 DEF ReaderType
    <3> QED BY <1>a, <2>4, <3>1, <3>2
  <2>6. UNCHANGED <<rt, stdin, th, future>> BY <1>1 DEF ReaderTakes
  <2>7. ClientTyped' BY <1>b, <1>t, <2>3, <2>5, <2>6 DEF ClientTyped
  <2>8. RuntimeTyped' BY <1>t, <2>2, <2>6 DEF RuntimeTyped
  <2>9. Room' /\ Asked' BY <1>b, <1>t, <2>3, <2>6, RoomUntouched
  <2> QED BY <2>7, <2>8, <2>9 DEF Sound
<1>2. CASE ReaderAnswers
  <2>1. future' \in [Calls -> FutureType] BY <1>2, <1>a, <1>t, CompletedTyped DEF ReaderAnswers
  <2>r. NoResponse \in Response BY ControlAssumption DEF NoResponse, Response
  <2>2. reader' \in ReaderType BY <1>2, <1>a, <2>r DEF ReaderAnswers, ReaderType
  <2>3. UNCHANGED <<rt, stdin, stdout, py, th>> BY <1>2 DEF ReaderAnswers, runtimeVars
  <2>4. Room' /\ Asked' BY <1>t, <2>3, RoomUntouched
  <2> QED BY <1>t, <2>1, <2>2, <2>3, <2>4 DEF Sound, ClientTyped, RuntimeTyped
<1>3. CASE ReaderEof \/ ReaderLoses
  <2>1. py' = Failing /\ reader' = [reader EXCEPT !.pc = "failing", !.hands = py.pending]
        /\ UNCHANGED <<rt, stdin, stdout, future, th>>
    BY <1>3 DEF ReaderEof, ReaderLoses, runtimeVars
  <2>2. reader' \in ReaderType BY <1>a, <2>1 DEF ReaderType
  <2>3. Room' /\ Asked' BY <1>b, <1>t, <2>1, RoomUntouched
  <2> QED BY <1>b, <1>t, <2>1, <2>2, <2>3 DEF Sound, ClientTyped, RuntimeTyped
<1>4. CASE ReaderFails
  <2>1. future' \in [Calls -> FutureType] BY <1>4, <1>0, <1>a, <1>t, CompletedTyped DEF ReaderFails
  <2>2. reader' \in ReaderType BY <1>4, <1>a DEF ReaderFails, ReaderType
  <2>3. UNCHANGED <<rt, stdin, stdout, py, th>> BY <1>4 DEF ReaderFails, runtimeVars
  <2>4. Room' /\ Asked' BY <1>t, <2>3, RoomUntouched
  <2> QED BY <1>t, <2>1, <2>2, <2>3, <2>4 DEF Sound, ClientTyped, RuntimeTyped
<1> QED BY <1>1, <1>2, <1>3, <1>4 DEF Reader

(* A thread moves on by itself.                                                *)
LEMMA ThreadMoves ==
  ASSUME ClientTyped, Room, Asked, NEW t \in Threads, NEW c \in CallerType,
         th' = [th EXCEPT ![t] = c],
         py' \in TableType, py'.closing = py.closing, py'.next = py.next,
         th[t].stage = "user" => c.stage = "user" /\ c.pc \notin {"close", "reap", "reaped"},
         c.stage = "stop" => th[t].stage = "stop",
         c.stage = "reaped" => c.pc = "failing",
         c.pc \in {"reap", "reaped"} => c.stage = "close",
         c.pc # "close",
         c.pc \in {"write", "half", "wait"} => Asking(t) /\ c.id = th[t].id /\ c.op = th[t].op
  PROVE  /\ th' \in [Threads -> CallerType] /\ Room' /\ Asked'
         /\ th'[t] = c /\ \A u \in Threads \ {t} : th'[u] = th[u]
<1>1. th \in [Threads -> CallerType] BY DEF ClientTyped
<1>2. th' \in [Threads -> CallerType] /\ th'[t] = c /\ \A u \in Threads \ {t} : th'[u] = th[u]
  BY <1>1
<1>3. Room' BY <1>2, RoomKept
<1>4. Asked' BY <1>2 DEF Asked, Asking
<1> QED BY <1>2, <1>3, <1>4

(* What is written is a message.                                              *)
LEMMA FrameTyped ==
  ASSUME Sound, NEW t \in Threads, Asking(t), NEW whole \in BOOLEAN
  PROVE  Frame(t, whole) \in Message
<1>1. th[t].id # 0 /\ th[t].op \in Operations BY DEF Sound, Asked
<1>2. th[t].id \in Ids BY DEF Sound, ClientTyped, CallerType
<1>3. th[t].id \in Calls BY <1>1, <1>2, ControlAssumption DEF Ids, Calls
<1> QED BY <1>1, <1>3 DEF Frame, Message

(* What a thread does by itself, and what it chooses, by action.               *)
LEMMA CallSound == ASSUME Sound, NEW t \in Threads, Call(t) \/ Mutate(t) \/ CancelCall(t) PROVE Sound'
<1>t. ClientTyped /\ RuntimeTyped /\ Room /\ Asked BY DEF Sound
<1>1. PICK op \in Operations, bounded \in BOOLEAN : BeginCall(t, op, bounded, "user")
  BY DEF Call, Mutate, CancelCall, Operations, Jobs
<1>2. th[t].pc = "idle" /\ py.next \in UserCalls /\ UNCHANGED <<runtimeVars, future, reader>>
  BY DEF Call, Mutate, CancelCall
<1>3. py' \in TableType /\ th' \in [Threads -> CallerType] /\ Room' /\ Asked'
  BY <1>1, <1>2, <1>t, CallBegins
<1> QED BY <1>2, <1>3, <1>t DEF Sound, ClientTyped, RuntimeTyped, runtimeVars

LEMMA CloseCallsSound == ASSUME Sound, NEW t \in Threads, CloseCalls(t) PROVE Sound'
<1>t. ClientTyped /\ RuntimeTyped /\ Room /\ Asked BY DEF Sound
<1>1. th[t].pc = "close" /\ UNCHANGED <<runtimeVars, future, reader>> BY DEF CloseCalls
<1>2. th[t].stage \in {"stop", "close"} BY <1>1, <1>t DEF Room
<1>3. py' \in TableType /\ th' \in [Threads -> CallerType] /\ Room' /\ Asked'
  <2>1. CASE th' = Returns(t, FALSE) /\ UNCHANGED py
    <3>1. py' \in TableType BY <1>t, <2>1 DEF ClientTyped
    <3>2. {} \in SUBSET Calls OBVIOUS
    <3>3. th' \in [Threads -> CallerType] /\ Room' /\ Asked'
      BY <1>2, <1>t, <2>1, <3>2, CallReturns
    <3> QED BY <3>1, <3>3
  <2>2. CASE \E op \in Operations : BeginCall(t, op, TRUE, th[t].stage)
    BY <1>1, <1>2, <1>t, <2>2, CallBegins
  <2> QED BY <2>1, <2>2 DEF CloseCalls, Operations, Jobs
<1> QED BY <1>1, <1>3, <1>t DEF Sound, ClientTyped, RuntimeTyped, runtimeVars

(* A call that ends without an answer.                                        *)
LEMMA GivenUpSound ==
  ASSUME Sound, NEW t \in Threads,
         FrameFails(t) \/ WriteTimesOut(t) \/ WriteBreaks(t) \/ CallTimesOut(t)
  PROVE  Sound'
<1>t. ClientTyped /\ RuntimeTyped /\ Room /\ Asked BY DEF Sound
<1>1. /\ th[t].pc \in {"write", "half", "wait"}
      /\ py' = Without(th[t].id) /\ th' = Returns(t, FALSE)
      /\ UNCHANGED <<runtimeVars, future, reader>>
  BY DEF FrameFails, WriteTimesOut, WriteBreaks, CallTimesOut
<1>2. th[t].stage # "reaped" BY <1>1, <1>t DEF Room
<1>3. py' \in TableType /\ py'.closing = py.closing /\ py'.next = py.next
  BY <1>1, <1>t DEF Without, ClientTyped, TableType
<1>4. {} \in SUBSET Calls OBVIOUS
<1>5. th' \in [Threads -> CallerType] /\ Room' /\ Asked' BY <1>1, <1>2, <1>3, <1>4, <1>t, CallReturns
<1> QED BY <1>1, <1>3, <1>5, <1>t DEF Sound, ClientTyped, RuntimeTyped, runtimeVars

LEMMA AnsweredSound == ASSUME Sound, NEW t \in Threads, Answered(t) PROVE Sound'
<1>t. ClientTyped /\ RuntimeTyped /\ Room /\ Asked BY DEF Sound
<1> DEFINE ok == future[th[t].id].ok
<1>1. /\ th[t].pc = "wait" /\ py' = Noted(t, ok) /\ th' = Returns(t, ok)
      /\ future' = Dropped(th[t].id) /\ UNCHANGED <<runtimeVars, reader>>
  BY DEF Answered
<1>2. ok \in BOOLEAN
  <2>1. th[t].id \in Ids /\ th[t].id # 0 BY <1>1, <1>t DEF Asked, Asking, ClientTyped, CallerType
  <2>2. th[t].id \in Calls BY <2>1, ControlAssumption DEF Ids, Calls
  <2> QED BY <2>2, <1>t DEF ClientTyped, FutureType
<1> HIDE DEF ok
<1>3. th[t].stage # "reaped" BY <1>1, <1>t DEF Room
<1>4. py' \in TableType /\ py'.closing = py.closing /\ py'.next = py.next
  BY <1>1, <1>2, <1>t DEF Noted, Without, ClientTyped, TableType
<1>5. {} \in SUBSET Calls OBVIOUS
<1>6. th' \in [Threads -> CallerType] /\ Room' /\ Asked' BY <1>1, <1>2, <1>3, <1>4, <1>5, <1>t, CallReturns
<1>7. future' \in [Calls -> FutureType] BY <1>1, <1>t, DroppedTyped
<1> QED BY <1>1, <1>4, <1>6, <1>7, <1>t DEF Sound, ClientTyped, RuntimeTyped, runtimeVars

LEMMA PartFailsSound == ASSUME Sound, NEW t \in Threads, PartFails(t) PROVE Sound'
<1>t. ClientTyped /\ RuntimeTyped /\ Room /\ Asked BY DEF Sound
<1>1. /\ th[t].stage # "reaped" /\ future' = Completed(th[t].hands, 0, FALSE)
      /\ th' = [Returns(t, FALSE) EXCEPT ![t].hands = {}]
      /\ UNCHANGED <<runtimeVars, py, reader>>
  BY DEF PartFails
<1>2. py' \in TableType /\ th[t].hands \in SUBSET Calls BY <1>1, <1>t DEF ClientTyped, CallerType
<1>3. {} \in SUBSET Calls /\ 0 \in Ids BY ControlAssumption DEF Ids
<1>4. th' \in [Threads -> CallerType] /\ Room' /\ Asked' BY <1>1, <1>2, <1>3, <1>t, CallReturns
<1>5. future' \in [Calls -> FutureType] BY <1>1, <1>2, <1>3, <1>t, CompletedTyped
<1> QED BY <1>1, <1>2, <1>4, <1>5, <1>t DEF Sound, ClientTyped, RuntimeTyped, runtimeVars

LEMMA MovesSound ==
  ASSUME Sound, NEW t \in Threads, NEW c \in CallerType, th' = [th EXCEPT ![t] = c],
         py' \in TableType, py'.closing = py.closing, py'.next = py.next,
         future' \in [Calls -> FutureType], UNCHANGED reader, RuntimeTyped',
         th[t].stage = "user" => c.stage = "user" /\ c.pc \notin {"close", "reap", "reaped"},
         c.stage = "stop" => th[t].stage = "stop",
         c.stage = "reaped" => c.pc = "failing",
         c.pc \in {"reap", "reaped"} => c.stage = "close",
         c.pc # "close",
         c.pc \in {"write", "half", "wait"} => Asking(t) /\ c.id = th[t].id /\ c.op = th[t].op
  PROVE  Sound'
<1>1. th' \in [Threads -> CallerType] /\ Room' /\ Asked' BY ThreadMoves DEF Sound
<1> QED BY <1>1 DEF Sound, ClientTyped

(* A frame, a part of one, the rest of it.                                    *)
LEMMA WritesSound ==
  ASSUME Sound, NEW t \in Threads, Write(t) \/ WritePart(t) \/ WriteRest(t)
  PROVE  Sound'
<1>t. ClientTyped /\ RuntimeTyped /\ Room /\ Asked BY DEF Sound
<1>1. /\ th[t].pc \in {"write", "half"} /\ UNCHANGED <<rt, stdout, py, future, reader>>
      /\ \/ Written(t) \/ th' = [th EXCEPT ![t].pc = "half"]
  BY DEF Write, WritePart, WriteRest
<1>2. Asking(t) /\ th[t].stage # "reaped" BY <1>1, <1>t DEF Asking, Room
<1>3. stdin' \in Seq(Message)
  <2>1. CASE Write(t) \/ WritePart(t)
    <3>1. PICK whole \in BOOLEAN : stdin' = Append(stdin, Frame(t, whole))
      BY <2>1 DEF Write, WritePart
    <3>2. Frame(t, whole) \in Message BY <1>2, FrameTyped
    <3> QED BY <3>1, <3>2, <1>t DEF RuntimeTyped
  <2>2. CASE WriteRest(t)
    <3>1. stdin' = [stdin EXCEPT ![Len(stdin)].whole = TRUE] BY <2>2 DEF WriteRest
    <3>2. stdin \in Seq(Message) BY <1>t DEF RuntimeTyped
    <3> DEFINE n == Len(stdin)
    <3>3. n \in Nat /\ stdin \in [1..n -> Message] BY <3>2
    <3>4. \A m \in Message : [m EXCEPT !.whole = TRUE] \in Message BY DEF Message
    <3>5. stdin' = [k \in 1..n |-> IF k = n THEN [stdin[k] EXCEPT !.whole = TRUE] ELSE stdin[k]]
      BY <3>1, <3>3
    <3> HIDE DEF n
    <3>6. stdin' \in [1..n -> Message] BY <3>3, <3>4, <3>5
    <3> QED BY <3>3, <3>6
  <2> QED BY <2>1, <2>2
<1>4. RuntimeTyped' BY <1>1, <1>3, <1>t DEF RuntimeTyped
<1>5. th \in [Threads -> CallerType] /\ th[t] \in CallerType BY <1>t DEF ClientTyped
<1>6. py' \in TableType /\ py' = py /\ future' \in [Calls -> FutureType] BY <1>1, <1>t DEF ClientTyped
<1>7. CASE th[t].op = "mutate" /\ th' = [th EXCEPT ![t] = [NoCall EXCEPT !.call = th[t].id]]
  <2> DEFINE c == [NoCall EXCEPT !.call = th[t].id]
  <2>1. c \in CallerType /\ c.stage = "user" /\ c.pc = "idle"
    <3>1. NoCall \in CallerType /\ NoCall.stage = "user" /\ NoCall.pc = "idle"
      BY ControlAssumption DEF NoCall, CallerType, Ids
    <3>2. th[t].id \in Ids BY <1>5 DEF CallerType
    <3> QED BY <3>1, <3>2 DEF CallerType
  <2>2. th' = [th EXCEPT ![t] = c] BY <1>7
  <2> HIDE DEF c
  <2> QED BY <1>1, <1>4, <1>6, <2>1, <2>2, MovesSound
<1>8. ASSUME NEW q \in {"wait", "half"}, th' = [th EXCEPT ![t].pc = q] PROVE Sound'
  <2> DEFINE c == [th[t] EXCEPT !.pc = q]
  <2>1. c \in CallerType /\ c.stage = th[t].stage /\ c.pc = q /\ c.id = th[t].id /\ c.op = th[t].op
    BY <1>5 DEF CallerType
  <2>2. th' = [th EXCEPT ![t] = c] BY <1>8
  <2> HIDE DEF c
  <2> QED BY <1>1, <1>2, <1>4, <1>6, <2>1, <2>2, MovesSound
<1> QED BY <1>1, <1>7, <1>8 DEF Written

(* The waits for a handle, and the last steps of close().                     *)
LEMMA PausesSound ==
  ASSUME Sound, NEW t \in Threads,
         PartTimesOut(t) \/ Result(t) \/ ResultAnswered(t) \/ ResultTimesOut(t) \/ Reap(t)
           \/ Closed(t) \/ ClosedFails(t) \/ ReapFails(t)
  PROVE  Sound'
<1>t. ClientTyped /\ RuntimeTyped /\ Room /\ Asked BY DEF Sound
<1>0. 0 \in Ids BY ControlAssumption DEF Ids
<1>a. /\ th \in [Threads -> CallerType] /\ th[t] \in CallerType /\ py \in TableType
      /\ py.pending \in SUBSET Calls /\ th[t].hands \in SUBSET Calls
      /\ future \in [Calls -> FutureType]
  BY <1>t DEF ClientTyped, CallerType, TableType
<1>b. /\ Failing \in TableType /\ Failing.closing = py.closing /\ Failing.next = py.next
      /\ \A i : /\ Without(i) \in TableType /\ Without(i).closing = py.closing
                /\ Without(i).next = py.next
  BY <1>a DEF TableType, Failing, Without
<1>1. CASE PartTimesOut(t)
  <2> DEFINE c == [th[t] EXCEPT !.pc = "failing", !.hands = py.pending]
  <2>1. c \in CallerType /\ c.pc = "failing" /\ c.stage = th[t].stage BY <1>a DEF CallerType
  <2>2. th' = [th EXCEPT ![t] = c] BY <1>1, <1>a DEF PartTimesOut
  <2>3. py' = Failing /\ UNCHANGED <<rt, stdin, stdout, future, reader>> BY <1>1 DEF PartTimesOut, runtimeVars
  <2>4. RuntimeTyped' BY <1>t, <2>3 DEF RuntimeTyped
  <2> HIDE DEF c
  <2> QED BY <1>a, <1>b, <2>1, <2>2, <2>3, <2>4, MovesSound
<1>2. CASE Result(t)
  <2>1. PICK b \in BOOLEAN : th' = [th EXCEPT ![t].pc = "result", ![t].bounded = b]
    BY <1>2 DEF Result
  <2> DEFINE c == [th[t] EXCEPT !.pc = "result", !.bounded = b]
  <2>2. c \in CallerType /\ c.pc = "result" /\ c.stage = th[t].stage BY <1>a DEF CallerType
  <2>3. th' = [th EXCEPT ![t] = c] BY <2>1, <1>a
  <2>4. th[t].stage # "reaped" BY <1>2, <1>t DEF Result, Room
  <2>5. UNCHANGED <<rt, stdin, stdout, py, future, reader>> BY <1>2 DEF Result, runtimeVars
  <2>6. RuntimeTyped' BY <1>t, <2>5 DEF RuntimeTyped
  <2> HIDE DEF c
  <2> QED BY <1>a, <2>2, <2>3, <2>4, <2>5, <2>6, MovesSound
<1>3. CASE ResultAnswered(t)
  <2>1. py' = Without(th[t].call) /\ th' = [th EXCEPT ![t] = NoCall] /\ future' = Dropped(th[t].call)
        /\ UNCHANGED <<rt, stdin, stdout, reader>>
    BY <1>3 DEF ResultAnswered, runtimeVars
  <2>2. NoCall \in CallerType /\ NoCall.stage = "user" /\ NoCall.pc = "idle"
    BY <1>0 DEF NoCall, CallerType
  <2>3. future' \in [Calls -> FutureType] BY <1>t, <2>1, DroppedTyped
  <2>4. RuntimeTyped' BY <1>t, <2>1 DEF RuntimeTyped
  <2> QED BY <1>b, <2>1, <2>2, <2>3, <2>4, MovesSound
<1>4. CASE ResultTimesOut(t)
  <2> DEFINE c == [th[t] EXCEPT !.pc = "idle", !.forgot = TRUE]
  <2>1. c \in CallerType /\ c.pc = "idle" /\ c.stage = th[t].stage BY <1>a DEF CallerType
  <2>2. th' = [th EXCEPT ![t] = c] /\ py' = Without(th[t].call)
        /\ UNCHANGED <<rt, stdin, stdout, future, reader>>
    BY <1>4, <1>a DEF ResultTimesOut, runtimeVars
  <2>3. th[t].stage # "reaped" BY <1>4, <1>t DEF ResultTimesOut, Room
  <2>4. RuntimeTyped' BY <1>t, <2>2 DEF RuntimeTyped
  <2> HIDE DEF c
  <2> QED BY <1>a, <1>b, <2>1, <2>2, <2>3, <2>4, MovesSound
<1>5. CASE Reap(t)
  <2> DEFINE c == [th[t] EXCEPT !.pc = "reaped"]
  <2>1. c \in CallerType /\ c.pc = "reaped" /\ c.stage = th[t].stage BY <1>a DEF CallerType
  <2>2. th' = [th EXCEPT ![t] = c] /\ rt' = Gone /\ stdin' = <<>>
        /\ UNCHANGED <<stdout, py, future, reader>>
    BY <1>5, <1>a DEF Reap
  <2>4. Gone \in RuntimeType BY <1>t DEF RuntimeTyped, RuntimeType, Gone
  <2>5. RuntimeTyped'
    <3>1. <<>> \in Seq(Message) OBVIOUS
    <3> QED BY <1>t, <2>2, <2>4, <3>1 DEF RuntimeTyped
  <2>6. th[t].stage = "close" BY <1>5, <1>t DEF Reap, Room
  <2> HIDE DEF c
  <2> QED BY <1>a, <2>1, <2>2, <2>5, <2>6, MovesSound
<1>6. CASE Closed(t)
  <2> DEFINE c == [th[t] EXCEPT !.pc = "failing", !.stage = "reaped", !.hands = py.pending]
  <2>1. c \in CallerType /\ c.pc = "failing" /\ c.stage = "reaped" BY <1>a DEF CallerType
  <2>2. th' = [th EXCEPT ![t] = c] /\ py' = [Failing EXCEPT !.closed = TRUE]
        /\ UNCHANGED <<rt, stdin, stdout, future, reader>>
    BY <1>6, <1>a DEF Closed, runtimeVars
  <2>3. th[t].stage = "close" BY <1>6, <1>t DEF Closed, Room
  <2>4. RuntimeTyped' BY <1>t, <2>2 DEF RuntimeTyped
  <2>5. py' \in TableType /\ py'.closing = py.closing /\ py'.next = py.next
    BY <1>b, <2>2 DEF TableType
  <2> HIDE DEF c
  <2> QED BY <1>a, <2>1, <2>2, <2>3, <2>4, <2>5, MovesSound
<1>7. CASE ClosedFails(t)
  <2> DEFINE c == [th[t] EXCEPT !.pc = "idle", !.stage = "user", !.hands = {}]
  <2>1. c \in CallerType /\ c.pc = "idle" /\ c.stage = "user" BY <1>a DEF CallerType
  <2>2. th' = [th EXCEPT ![t] = c] /\ future' = Completed(th[t].hands, 0, FALSE)
        /\ UNCHANGED <<rt, stdin, stdout, py, reader>>
    BY <1>7, <1>a DEF ClosedFails, runtimeVars
  <2>3. RuntimeTyped' BY <1>t, <2>2 DEF RuntimeTyped
  <2>4. future' \in [Calls -> FutureType] BY <1>0, <1>a, <1>t, <2>2, CompletedTyped
  <2> HIDE DEF c
  <2> QED BY <1>a, <2>1, <2>2, <2>3, <2>4, MovesSound
<1>8. CASE ReapFails(t)
  <2> DEFINE c == [th[t] EXCEPT !.pc = "idle", !.stage = "user"]
  <2>1. c \in CallerType /\ c.pc = "idle" /\ c.stage = "user" BY <1>a DEF CallerType
  <2>2. th' = [th EXCEPT ![t] = c] /\ py' = [py EXCEPT !.unreaped = TRUE]
        /\ UNCHANGED <<rt, stdin, stdout, future, reader>>
    BY <1>8, <1>a DEF ReapFails, runtimeVars
  <2>3. RuntimeTyped' BY <1>t, <2>2 DEF RuntimeTyped
  <2>4. py' \in TableType /\ py'.closing = py.closing /\ py'.next = py.next
    BY <1>a, <2>2 DEF TableType
  <2> HIDE DEF c
  <2> QED BY <1>a, <2>1, <2>2, <2>3, <2>4, MovesSound
<1> QED BY <1>1, <1>2, <1>3, <1>4, <1>5, <1>6, <1>7, <1>8

LEMMA CloseBeginsSound == ASSUME Sound, NEW t \in Threads, CloseBegins(t) PROVE Sound'
<1>t. ClientTyped /\ RuntimeTyped /\ Room /\ Asked BY DEF Sound
<1>a. th \in [Threads -> CallerType] /\ th[t] \in CallerType /\ py \in TableType
  BY <1>t DEF ClientTyped
<1> DEFINE g == IF py.started THEN "stop" ELSE "close"
           c == [th[t] EXCEPT !.pc = "close", !.stage = g]
<1>1. g \in {"stop", "close"} OBVIOUS
<1> HIDE DEF g
<1>2. c \in CallerType /\ c.pc = "close" /\ c.stage = g BY <1>1, <1>a DEF CallerType
<1>3. /\ th[t].pc = "idle" /\ py.next < MaxCall /\ th' = [th EXCEPT ![t] = c]
      /\ \A u \in Threads : th[u].stage = "user"
      /\ py' = [py EXCEPT !.closing = TRUE, !.unreaped = FALSE]
      /\ UNCHANGED <<rt, stdin, stdout, future, reader>>
  BY <1>a DEF CloseBegins, runtimeVars, g
<1> HIDE DEF c
<1>4. py' \in TableType /\ py'.closing /\ py'.next = py.next BY <1>3, <1>a DEF TableType
<1>5. /\ th' \in [Threads -> CallerType] /\ th'[t] = c
      /\ \A u \in Threads \ {t} : th'[u] = th[u]
  BY <1>2, <1>3, <1>a
<1>6. \A u \in Threads : ~Closing(u) BY <1>3, <1>t DEF Room, Closing
<1>7. py.next < MaxCall /\ MaxCall \in Nat /\ py.next \in Int
  BY <1>3, <1>a, <1>t, ControlAssumption DEF Room, TableType
<1>8. \A u \in Threads \ {t} : /\ th'[u].stage = "user" /\ ~Closing(u)'
                              /\ th'[u].pc \notin {"close", "reap", "reaped"}
  BY <1>5, <1>6 DEF Closing
<1>9. Room' BY <1>1, <1>2, <1>4, <1>5, <1>7, <1>8 DEF Room
<1>10. Asked' BY <1>2, <1>5, <1>t DEF Asked, Asking
<1> QED BY <1>3, <1>4, <1>5, <1>9, <1>10, <1>t DEF Sound, ClientTyped, RuntimeTyped

(* Every step keeps the types and the numbers.                                *)
LEMMA SoundStep == Sound /\ [Next]_vars => Sound'
<1> SUFFICES ASSUME Sound, [Next]_vars PROVE Sound' OBVIOUS
<1>1. CASE RuntimeStep /\ UNCHANGED clientVars
  <2>1. RuntimeTyped' BY <1>1, RuntimeStepTyped DEF Sound
  <2> QED BY <1>1, <2>1, RoomUntouched DEF Sound, ClientTyped, clientVars
<1>2. CASE Reader BY <1>2, ReaderSound
<1>3. ASSUME NEW t \in Threads, Goes(t) PROVE Sound'
  BY <1>3, GivenUpSound, AnsweredSound, PartFailsSound, WritesSound, PausesSound, CloseCallsSound DEF Goes
<1>4. ASSUME NEW t \in Threads, Chooses(t) PROVE Sound'
  BY <1>4, GivenUpSound, CallSound, WritesSound, PausesSound, CloseBeginsSound DEF Chooses
<1>5. CASE UNCHANGED vars
  BY <1>5, RoomUntouched DEF vars, clientVars, runtimeVars, Sound, ClientTyped, RuntimeTyped
<1> QED BY <1>1, <1>2, <1>3, <1>4, <1>5 DEF Next

(* The type invariant of the client and of its runtime, and the numbers: the two *)
(* of close() are there for it, whatever the user has asked (close of client.py).*)
THEOREM ClientSound == Spec => []Sound
<1>1. Init => Sound BY SoundInit
<1>2. Sound /\ [Next]_vars => Sound' BY SoundStep
<1> QED BY <1>1, <1>2, PTL DEF Spec

-----------------------------------------------------------------------------
(* Who wants what. A number belongs to one thread, as its request or as its    *)
(* handle; who works on futures has taken them out of the table, and nobody    *)
(* takes more while he has some.                                               *)
Tickets ==
    /\ \A i \in py.pending : i < py.next
    /\ \A t \in Threads :
          /\ th[t].id < py.next /\ th[t].call < py.next
          /\ th[t].id = th[t].call => th[t].id = 0
          /\ \A u \in Threads \ {t} : {th[t].id, th[t].call} \cap {th[u].id, th[u].call} \subseteq {0}
Hands ==
    /\ reader.pc \notin {"popped", "failing"} => reader.hands = {}
    /\ reader.pc = "popped" => reader.hands = {reader.response.id}
    /\ reader.pc = "reading" => reader.response.sound
    /\ \A t \in Threads : th[t].pc # "failing" => th[t].hands = {}

Wants(t, i) == (Asking(t) /\ i = th[t].id) \/ (th[t].call = i /\ ~th[t].forgot)
Kept(i) == future[i].done \/ i \in py.pending \/ i \in reader.hands \/ i \in Lost
             \/ \E t \in Threads : i \in th[t].hands
Custody ==
    /\ py.failure => py.pending = {}
    /\ \A t \in Threads, i \in Calls : Wants(t, i) => Kept(i)

Served == Tickets /\ Hands /\ Custody /\ AnswersAreOwn

(* What the end of a call leaves of a thread.                                  *)
LEMMA ReturnsLeaves ==
  ASSUME ClientTyped, NEW t \in Threads, NEW ok \in BOOLEAN, NEW r, r = Returns(t, ok)
  PROVE  /\ \A u \in Threads \ {t} : r[u] = th[u]
         /\ r[t] \in CallerType /\ r \in [Threads -> CallerType]
         /\ r[t].id = 0 /\ r[t].call = th[t].call /\ r[t].forgot = th[t].forgot
         /\ r[t].hands = th[t].hands /\ r[t].pc \in {"idle", "reap", "close"}
<1>1. /\ Returns(t, ok) \in [Threads -> CallerType]
      /\ \A u \in Threads \ {t} : Returns(t, ok)[u] = th[u]
      /\ Returns(t, ok)[t] = [th[t] EXCEPT !.id = 0, !.op = "none", !.bounded = TRUE,
                                   !.pc = Returns(t, ok)[t].pc, !.stage = Returns(t, ok)[t].stage]
      /\ Returns(t, ok)[t].pc \in {"idle", "reap", "close"}
  BY ReturnsTyped
<1>2. th[t] \in CallerType BY DEF ClientTyped
<1>3. r[t] = [th[t] EXCEPT !.id = 0, !.op = "none", !.bounded = TRUE, !.pc = r[t].pc, !.stage = r[t].stage]
  BY <1>1
<1>4. r[t].id = 0 /\ r[t].call = th[t].call /\ r[t].forgot = th[t].forgot /\ r[t].hands = th[t].hands
  BY <1>2, <1>3 DEF CallerType
<1> QED BY <1>1, <1>4

(* Nothing new is asked for, and nothing that is wanted is lost.               *)
LEMMA TicketsKept ==
  ASSUME Sound, Sound', Tickets, NEW t \in Threads, py'.next = py.next,
         \A u \in Threads \ {t} : th'[u] = th[u],
         py'.pending \subseteq py.pending,
         \/ th'[t].id \in {0, th[t].id} /\ th'[t].call \in {0, th[t].call}
         \/ th'[t].id = 0 /\ th'[t].call = th[t].id
  PROVE  Tickets'
<1>1. py.next \in Int /\ py.next > 0 /\ py' \in TableType BY DEF Sound, ClientTyped, TableType
<1>2. \A u \in Threads : th[u].id \in Int /\ th[u].call \in Int
  BY ControlAssumption DEF Sound, ClientTyped, CallerType, Ids
<1> QED BY <1>1, <1>2 DEF Tickets

(* What is wanted stays kept, but for a number that is given back.            *)
LEMMA CustodyKept ==
  ASSUME Sound, Sound', Custody, NEW t \in Threads,
         \A u \in Threads \ {t} : th'[u] = th[u],
         py'.failure => py'.pending = {},
         \A i \in Calls : Wants(t, i)' => Wants(t, i),
         NEW gone, gone = 0 \/ \A u \in Threads : ~Wants(u, gone)',
         \A i \in Calls \ {gone} : Kept(i) => Kept(i)'
  PROVE  Custody'
<1>1. \A u \in Threads, i \in Calls : Wants(u, i)' => Wants(u, i) BY DEF Wants, Asking
<1>2. 0 \notin Calls BY ControlAssumption DEF Calls
<1>3. \A u \in Threads, i \in Calls : Wants(u, i)' => i # gone BY <1>2
<1> QED BY <1>1, <1>3 DEF Custody

(* The table, and the futures, after the operations on them.                   *)
LEMMA Table ==
  ASSUME Sound
  PROVE  /\ Failing.failure /\ Failing.pending = {} /\ Failing.next = py.next
         /\ \A i : /\ Without(i).pending = py.pending \ {i} /\ Without(i).failure = py.failure
                   /\ Without(i).next = py.next
         /\ \A t, ok : /\ Noted(t, ok).pending = py.pending \ {th[t].id}
                        /\ Noted(t, ok).failure = py.failure /\ Noted(t, ok).next = py.next
         /\ py.pending \subseteq Calls
  BY DEF Sound, ClientTyped, TableType, Failing, Without, Noted

(* The futures after a completion: by the own response, or by a failure.      *)
LEMMA Completions ==
  ASSUME Sound, AnswersAreOwn, NEW hands \in SUBSET Calls, NEW from \in Ids, NEW ok \in BOOLEAN,
         (from = 0 /\ ~ok) \/ hands \subseteq {from},
         future' = Completed(hands, from, ok)
  PROVE  /\ AnswersAreOwn'
         /\ \A i \in Calls : i \in hands \/ future[i].done => future'[i].done
<1>1. 0 \notin Calls BY ControlAssumption DEF Calls
<1>2. \A i \in Calls : future'[i] = IF i \in hands /\ ~future[i].done
                                  THEN [done |-> TRUE, from |-> from, ok |-> ok] ELSE future[i]
  BY DEF Completed
<1> QED BY <1>1, <1>2 DEF AnswersAreOwn

(* The futures after one of them is forgotten.                                *)
LEMMA Drops ==
  ASSUME Sound, AnswersAreOwn, NEW i, future' = Dropped(i)
  PROVE  /\ AnswersAreOwn'
         /\ \A j \in Calls \ {i} : future'[j] = future[j]
<1>1. \A j \in Calls : future'[j] = IF j = i THEN Undone ELSE future[j]
  BY DEF Dropped, Sound, ClientTyped
<1> QED BY <1>1 DEF AnswersAreOwn, Undone

(* The reader takes a future out of the table and completes it.               *)
LEMMA ReaderServes ==
  ASSUME Sound, Sound', Served, Reader
  PROVE  Served'
<1>0. 0 \in Ids BY ControlAssumption DEF Ids
<1>t. /\ reader \in ReaderType /\ reader.hands \in SUBSET Calls /\ reader.response.id \in Ids
      /\ reader.response.ok \in BOOLEAN
  BY DEF Sound, ClientTyped, ReaderType, Response, Ids
<1>s. Tickets /\ Hands /\ Custody /\ AnswersAreOwn BY DEF Served
<1>1. CASE ReaderTakes \/ ReaderEof
  <2>1. reader.pc = "reading" /\ UNCHANGED <<th, future>> BY <1>1 DEF ReaderTakes, ReaderEof
  <2>2. reader.hands = {} /\ Lost = {} BY <2>1, <1>s DEF Hands, Lost
  <2>3. \/ py' = Failing /\ reader' = [reader EXCEPT !.pc = "failing", !.hands = py.pending]
        \/ \E r : LET mine == {r.id} \cap py.pending IN
               /\ py' = Without(r.id)
               /\ reader' = IF mine = {} THEN reader
                            ELSE [pc |-> "popped", hands |-> mine, response |-> r]
    BY <1>1 DEF ReaderTakes, ReaderEof
  <2>4. CASE py' = Failing /\ reader' = [reader EXCEPT !.pc = "failing", !.hands = py.pending]
    <3>1. reader'.hands = py.pending /\ reader'.pc = "failing" BY <2>4, <1>t DEF ReaderType
    <3>2. py'.pending = {} /\ py'.next = py.next BY <2>4, Table
    <3>3. Tickets' BY <1>s, <2>1, <3>2 DEF Tickets
    <3>4. Hands' BY <1>s, <2>1, <3>1 DEF Hands
    <3>5. \A i : Kept(i) => Kept(i)' BY <2>1, <2>2, <3>1 DEF Kept
    <3>6. \A u, i : Wants(u, i)' => Wants(u, i) BY <2>1 DEF Wants, Asking
    <3>7. Custody' BY <1>s, <3>2, <3>5, <3>6 DEF Custody
    <3> QED BY <1>s, <2>1, <3>3, <3>4, <3>7 DEF Served, AnswersAreOwn
  <2>5. ASSUME NEW r, py' = Without(r.id),
               reader' = IF {r.id} \cap py.pending = {} THEN reader
                         ELSE [pc |-> "popped", hands |-> {r.id} \cap py.pending, response |-> r]
        PROVE  Served'
    <3>1. py'.pending = py.pending \ {r.id} /\ py'.next = py.next /\ py'.failure = py.failure
      BY <2>5, Table
    <3>2. Tickets' BY <1>s, <2>1, <3>1 DEF Tickets
    <3>3. \/ reader' = reader /\ r.id \notin py.pending
          \/ reader'.pc = "popped" /\ reader'.hands = {r.id} /\ reader'.response = r
      BY <2>5
    <3>4. Hands' BY <1>s, <2>1, <3>3 DEF Hands
    <3>5. \A i : Kept(i) => Kept(i)' BY <2>1, <2>2, <3>1, <3>3 DEF Kept
    <3>6. \A u, i : Wants(u, i)' => Wants(u, i) BY <2>1 DEF Wants, Asking
    <3>7. Custody' BY <1>s, <3>1, <3>5, <3>6 DEF Custody
    <3> QED BY <1>s, <2>1, <3>2, <3>4, <3>7 DEF Served, AnswersAreOwn
  <2> QED BY <2>3, <2>4, <2>5
<1>3. CASE ReaderLoses
  <2>1. /\ reader.pc = "popped" /\ ~reader.response.sound /\ UNCHANGED <<th, future>>
        /\ py' = Failing /\ reader' = [reader EXCEPT !.pc = "failing", !.hands = py.pending]
    BY <1>3 DEF ReaderLoses
  <2>2. /\ reader'.hands = py.pending /\ reader'.pc = "failing"
        /\ reader'.response = reader.response
    BY <2>1, <1>t DEF ReaderType
  <2>3. reader.hands = Lost /\ Lost' = Lost BY <1>s, <2>1, <2>2 DEF Hands, Lost
  <2>4. py'.pending = {} /\ py'.next = py.next BY <2>1, Table
  <2>5. Tickets' BY <1>s, <2>1, <2>4 DEF Tickets
  <2>6. Hands' BY <1>s, <2>1, <2>2 DEF Hands
  <2>7. ASSUME NEW i \in Calls, Kept(i) PROVE Kept(i)'
    <3>1. CASE i \in py.pending BY <2>2, <3>1 DEF Kept
    <3>2. CASE i \in reader.hands \cup Lost
      <4>1. i \in Lost' BY <2>3, <3>2
      <4> QED BY <4>1 DEF Kept
    <3>3. CASE future[i].done \/ \E t \in Threads : i \in th[t].hands BY <2>1, <3>3 DEF Kept
    <3> QED BY <2>7, <3>1, <3>2, <3>3 DEF Kept
  <2>8. \A u, i : Wants(u, i)' => Wants(u, i) BY <2>1 DEF Wants, Asking
  <2>9. Custody' BY <1>s, <2>4, <2>7, <2>8 DEF Custody
  <2> QED BY <1>s, <2>1, <2>5, <2>6, <2>9 DEF Served, AnswersAreOwn
<1>2. CASE ReaderAnswers \/ ReaderFails
  <2>1. UNCHANGED <<th, py>> BY <1>2 DEF ReaderAnswers, ReaderFails
  <2>2. reader'.pc \in {"reading", "ended"} /\ reader'.hands = {}
    BY <1>2, <1>t DEF ReaderAnswers, ReaderFails, ReaderType
  <2>9. /\ Lost' = Lost
        /\ reader'.pc = "reading" => reader'.response.sound
    <3>1. CASE ReaderAnswers
      <4>1. reader'.response = NoResponse /\ reader.response.sound
        BY <1>t, <3>1 DEF ReaderAnswers, ReaderType
      <4> QED BY <4>1 DEF Lost, NoResponse
    <3>2. CASE ReaderFails
      <4>1. reader'.response = reader.response /\ reader'.pc = "ended"
        BY <1>t, <3>2 DEF ReaderFails, ReaderType
      <4> QED BY <4>1 DEF Lost
    <3> QED BY <1>2, <3>1, <3>2
  <2>3. /\ AnswersAreOwn'
        /\ \A i \in Calls : i \in reader.hands \/ future[i].done => future'[i].done
    <3>1. CASE ReaderAnswers
      <4>1. reader.hands = {reader.response.id} BY <1>s, <3>1 DEF Hands, ReaderAnswers
      <4> QED BY <1>s, <1>t, <3>1, <4>1, Completions DEF ReaderAnswers
    <3>2. CASE ReaderFails BY <1>0, <1>s, <1>t, <3>2, Completions DEF ReaderFails
    <3> QED BY <1>2, <3>1, <3>2
  <2>4. Tickets' BY <1>s, <2>1 DEF Tickets
  <2>5. Hands' BY <1>s, <2>1, <2>2, <2>9 DEF Hands
  <2>6. \A i \in Calls : Kept(i) => Kept(i)' BY <2>1, <2>3, <2>9 DEF Kept
  <2>7. \A u, i : Wants(u, i)' => Wants(u, i) BY <2>1 DEF Wants, Asking
  <2>8. Custody' BY <1>s, <2>1, <2>6, <2>7 DEF Custody
  <2> QED BY <2>3, <2>4, <2>5, <2>8 DEF Served
<1> QED BY <1>1, <1>2, <1>3 DEF Reader

(* A call begins: its number is new, and in the table.                        *)
LEMMA BeginServes ==
  ASSUME Sound, Sound', Served, NEW t \in Threads, NEW op \in Operations,
         NEW bounded \in BOOLEAN, NEW stage \in {"user", "stop", "close"},
         BeginCall(t, op, bounded, stage), UNCHANGED <<future, reader>>,
         th[t].pc = "close" \/ (th[t].pc = "idle" /\ py.next \in UserCalls)
  PROVE  Served'
<1>s. Tickets /\ Hands /\ Custody /\ AnswersAreOwn BY DEF Served
<1>1. py.next \in Calls /\ py.next + 1 \in 1..(MaxCall + 1) BY NextInCalls DEF Sound
<1>2. Begun(t, op, bounded, stage) BY <1>1, BeginTyped DEF Sound
<1>3. \A u \in Threads \ {t} : th'[u] = th[u] BY <1>2 DEF Begun
<1>4. /\ th'[t].pc = "write" /\ th'[t].id = py.next /\ th'[t].call = th[t].call
      /\ th'[t].forgot = th[t].forgot /\ th'[t].hands = th[t].hands
  BY <1>2 DEF Begun, Sound, ClientTyped, CallerType
<1>5. /\ py'.next = py.next + 1 /\ py'.pending = py.pending \cup {py.next}
      /\ py'.failure = py.failure
  BY <1>2 DEF Begun, Sound, ClientTyped, TableType
<1>6. ~py.failure BY DEF BeginCall, Admits
<1>7. /\ py.next \in Int /\ py.next > 0
      /\ \A u \in Threads : th[u].id \in Int /\ th[u].call \in Int
      /\ \A i \in py.pending : i \in Int
  BY <1>1, ControlAssumption DEF Sound, ClientTyped, CallerType, TableType, Ids, Calls
<1>8. Tickets' BY <1>s, <1>3, <1>4, <1>5, <1>7 DEF Tickets
<1>9. Hands'
  <2>1. th[t].hands = {} BY <1>s DEF Hands
  <2> QED BY <1>s, <1>3, <1>4, <2>1 DEF Hands
<1>10. \A i \in Calls : Kept(i) => Kept(i)'
  <2>1. \A u \in Threads : th'[u].hands = th[u].hands BY <1>3, <1>4
  <2> QED BY <1>5, <2>1 DEF Kept, Lost
<1>11. \A u \in Threads, i \in Calls : Wants(u, i)' => Wants(u, i) \/ i = py.next
  BY <1>3, <1>4 DEF Wants, Asking
<1>12. \A u \in Threads, i \in Calls : Wants(u, i)' => Kept(i)'
  <2> SUFFICES ASSUME NEW u \in Threads, NEW i \in Calls, Wants(u, i)' PROVE Kept(i)' OBVIOUS
  <2>1. CASE Wants(u, i) BY <1>s, <1>10, <2>1 DEF Custody
  <2>2. CASE i = py.next BY <1>5, <2>2 DEF Kept
  <2> QED BY <1>11, <2>1, <2>2
<1>13. Custody' BY <1>s, <1>5, <1>6, <1>12 DEF Custody
<1>14. AnswersAreOwn' BY <1>s DEF AnswersAreOwn
<1> QED BY <1>8, <1>9, <1>13, <1>14 DEF Served

(* The calls of a user.                                                       *)
LEMMA CallServes ==
  ASSUME Sound, Sound', Served, NEW t \in Threads, Call(t) \/ Mutate(t) \/ CancelCall(t)
  PROVE  Served'
<1>1. PICK op \in Operations, bounded \in BOOLEAN : BeginCall(t, op, bounded, "user")
  BY DEF Call, Mutate, CancelCall, Operations, Jobs
<1>2. th[t].pc = "idle" /\ py.next \in UserCalls /\ UNCHANGED <<future, reader>>
  BY DEF Call, Mutate, CancelCall
<1> QED BY <1>1, <1>2, BeginServes

(* A step of one thread that asks for nothing new: at most one number, that of  *)
(* the thread's own, is given back, and what is neither done nor in the table   *)
(* any more is in the hands of the thread.                                      *)
LEMMA StepServes ==
  ASSUME Sound, Sound', Served, NEW t \in Threads, UNCHANGED reader,
         \A u \in Threads \ {t} : th'[u] = th[u],
         py'.next = py.next, py'.pending \subseteq py.pending, py'.failure => py'.pending = {},
         \/ th'[t].id \in {0, th[t].id} /\ th'[t].call \in {0, th[t].call}
         \/ th'[t].id = 0 /\ th'[t].call = th[t].id,
         \A i \in Calls : Wants(t, i)' => Wants(t, i),
         NEW gone \in Ids, gone = 0 \/ gone \in {th[t].id, th[t].call}, ~Wants(t, gone)' \/ gone = 0,
         th'[t].pc # "failing" => th'[t].hands = {},
         \A i \in Calls \ {gone} :
            future[i].done \/ i \in py.pending \/ i \in th[t].hands
               => future'[i].done \/ i \in py'.pending \/ i \in th'[t].hands,
         AnswersAreOwn'
  PROVE  Served'
<1>s. Tickets /\ Hands /\ Custody /\ AnswersAreOwn BY DEF Served
<1>1. Tickets' BY <1>s, TicketsKept
<1>2. Hands' BY <1>s DEF Hands
<1>3. ASSUME NEW i \in Calls \ {gone}, Kept(i) PROVE Kept(i)'
  <2>1. CASE future[i].done \/ i \in py.pending \/ i \in th[t].hands BY <2>1 DEF Kept
  <2>2. CASE i \in reader.hands \cup Lost BY <2>2 DEF Kept, Lost
  <2>3. CASE \E u \in Threads \ {t} : i \in th[u].hands BY <2>3 DEF Kept
  <2> QED BY <1>3, <2>1, <2>2, <2>3 DEF Kept
<1>4. gone = 0 \/ \A u \in Threads : ~Wants(u, gone)'
  <2> SUFFICES ASSUME gone # 0, NEW u \in Threads \ {t} PROVE ~Wants(u, gone)' OBVIOUS
  <2>1. {th[t].id, th[t].call} \cap {th[u].id, th[u].call} \subseteq {0} BY <1>s DEF Tickets
  <2>2. gone # th[u].id /\ gone # th[u].call BY <2>1
  <2>3. th'[u] = th[u] OBVIOUS
  <2> QED BY <2>2, <2>3 DEF Wants
<1>5. Custody' BY <1>s, <1>3, <1>4, CustodyKept
<1> QED BY <1>1, <1>2, <1>5 DEF Served

(* A call ends without an answer: its number is given back.                    *)
LEMMA GivenUpServes ==
  ASSUME Sound, Sound', Served, NEW t \in Threads,
         FrameFails(t) \/ WriteTimesOut(t) \/ WriteBreaks(t) \/ CallTimesOut(t)
  PROVE  Served'
<1>s. Tickets /\ Hands /\ Custody /\ AnswersAreOwn BY DEF Served
<1>1. /\ th[t].pc \in {"write", "half", "wait"}
      /\ py' = Without(th[t].id) /\ \E ok \in BOOLEAN : th' = Returns(t, ok)
      /\ UNCHANGED <<future, reader>>
  BY DEF FrameFails, WriteTimesOut, WriteBreaks, CallTimesOut
<1>2. PICK g \in Ids : g = th[t].id BY DEF Sound, ClientTyped, CallerType
<1>3. py'.next = py.next /\ py'.failure = py.failure /\ py'.pending = py.pending \ {g}
  BY <1>1, <1>2, Table
<1>4. /\ \A u \in Threads \ {t} : th'[u] = th[u]
      /\ th'[t].id = 0 /\ th'[t].call = th[t].call /\ th'[t].forgot = th[t].forgot
      /\ th'[t].hands = th[t].hands /\ th'[t].pc \in {"idle", "reap", "close"}
  BY <1>1, ReturnsLeaves DEF Sound
<1>5. th[t].hands = {} BY <1>1, <1>s DEF Hands
<1>6. \A i \in Calls : Wants(t, i)' => Wants(t, i) BY <1>4 DEF Wants, Asking
<1>7. g = 0 \/ ~Wants(t, g)' BY <1>2, <1>4, <1>s DEF Wants, Asking, Tickets
<1>8. AnswersAreOwn' BY <1>1, <1>s DEF AnswersAreOwn
<1>9. py'.failure => py'.pending = {} BY <1>3, <1>s DEF Custody
<1> QED BY <1>1, <1>2, <1>3, <1>4, <1>5, <1>6, <1>7, <1>8, <1>9, StepServes

(* A call, or the wait for a mutation, ends with what its future says.          *)
LEMMA AnsweredServes ==
  ASSUME Sound, Sound', Served, NEW t \in Threads, Answered(t) \/ ResultAnswered(t)
  PROVE  Served'
<1>s. Tickets /\ Hands /\ Custody /\ AnswersAreOwn BY DEF Served
<1>t. th \in [Threads -> CallerType] /\ th[t] \in CallerType BY DEF Sound, ClientTyped
<1>1. CASE Answered(t)
  <2>1. PICK g \in Ids : g = th[t].id BY <1>t DEF CallerType
  <2> DEFINE ok == future[g].ok
  <2>2. /\ th[t].pc = "wait" /\ py' = Noted(t, ok) /\ th' = Returns(t, ok)
        /\ future' = Dropped(g) /\ UNCHANGED reader
    BY <1>1, <2>1 DEF Answered
  <2>3. ok \in BOOLEAN
    <3>1. g # 0 BY <2>1, <2>2 DEF Sound, Asked, Asking
    <3>2. g \in Calls BY <3>1, ControlAssumption DEF Ids, Calls
    <3> QED BY <3>2 DEF Sound, ClientTyped, FutureType
  <2> HIDE DEF ok
  <2>4. py'.next = py.next /\ py'.failure = py.failure /\ py'.pending = py.pending \ {g}
    BY <2>1, <2>2, Table
  <2>5. AnswersAreOwn' /\ \A j \in Calls \ {g} : future'[j] = future[j] BY <1>s, <2>2, Drops
  <2>6. /\ \A u \in Threads \ {t} : th'[u] = th[u]
        /\ th'[t].id = 0 /\ th'[t].call = th[t].call /\ th'[t].forgot = th[t].forgot
        /\ th'[t].hands = th[t].hands /\ th'[t].pc \in {"idle", "reap", "close"}
    BY <2>2, <2>3, ReturnsLeaves DEF Sound
  <2>7. th[t].hands = {} BY <2>2, <1>s DEF Hands
  <2>8. \A i \in Calls : Wants(t, i)' => Wants(t, i) BY <2>6 DEF Wants, Asking
  <2>9. g = 0 \/ ~Wants(t, g)' BY <2>1, <2>6, <1>s DEF Wants, Asking, Tickets
  <2>10. py'.failure => py'.pending = {} BY <2>4, <1>s DEF Custody
  <2>11. \A i \in Calls \ {g} :
            future[i].done \/ i \in py.pending \/ i \in th[t].hands
               => future'[i].done \/ i \in py'.pending \/ i \in th'[t].hands
    BY <2>4, <2>5, <2>7
  <2> QED BY <2>1, <2>2, <2>4, <2>5, <2>6, <2>7, <2>8, <2>9, <2>10, <2>11, StepServes
<1>2. CASE ResultAnswered(t)
  <2>1. PICK g \in Ids : g = th[t].call BY <1>t DEF CallerType
  <2>2. /\ th[t].pc = "result" /\ py' = Without(g) /\ th' = [th EXCEPT ![t] = NoCall]
        /\ future' = Dropped(g) /\ UNCHANGED reader
    BY <1>2, <2>1 DEF ResultAnswered
  <2>4. py'.next = py.next /\ py'.failure = py.failure /\ py'.pending = py.pending \ {g}
    BY <2>1, <2>2, Table
  <2>5. AnswersAreOwn' /\ \A j \in Calls \ {g} : future'[j] = future[j] BY <1>s, <2>2, Drops
  <2>6. /\ \A u \in Threads \ {t} : th'[u] = th[u]
        /\ th'[t].id = 0 /\ th'[t].call = 0 /\ th'[t].hands = {} /\ th'[t].pc = "idle"
    BY <1>t, <2>2 DEF NoCall
  <2>7. th[t].hands = {} BY <2>2, <1>s DEF Hands
  <2>8. \A i \in Calls : ~Wants(t, i)' BY <2>6, ControlAssumption DEF Wants, Asking, Calls
  <2>9. g = 0 \/ ~Wants(t, g)' BY <2>6 DEF Wants, Asking
  <2>10. py'.failure => py'.pending = {} BY <2>4, <1>s DEF Custody
  <2>11. \A i \in Calls \ {g} :
            future[i].done \/ i \in py.pending \/ i \in th[t].hands
               => future'[i].done \/ i \in py'.pending \/ i \in th'[t].hands
    BY <2>4, <2>5, <2>7
  <2> QED BY <2>1, <2>2, <2>4, <2>5, <2>6, <2>7, <2>8, <2>9, <2>10, <2>11, StepServes
<1> QED BY <1>1, <1>2

(* The futures in the hands of a thread are failed.                           *)
LEMMA FailsServes ==
  ASSUME Sound, Sound', Served, NEW t \in Threads, PartFails(t) \/ ClosedFails(t)
  PROVE  Served'
<1>s. Tickets /\ Hands /\ Custody /\ AnswersAreOwn BY DEF Served
<1>t. th \in [Threads -> CallerType] /\ th[t] \in CallerType /\ th[t].hands \in SUBSET Calls
  BY DEF Sound, ClientTyped, CallerType
<1>1. future' = Completed(th[t].hands, 0, FALSE) /\ UNCHANGED <<py, reader>>
  BY DEF PartFails, ClosedFails
<1>2. 0 \in Ids BY ControlAssumption DEF Ids
<1>3. AnswersAreOwn' /\ \A i \in Calls : i \in th[t].hands \/ future[i].done => future'[i].done
  BY <1>s, <1>t, <1>1, <1>2, Completions
<1>4. /\ \A u \in Threads \ {t} : th'[u] = th[u]
      /\ th'[t].id \in {0, th[t].id} /\ th'[t].call = th[t].call /\ th'[t].forgot = th[t].forgot
      /\ th'[t].hands = {} /\ th'[t].pc \in {"idle", "reap", "close"}
  <2>1. CASE PartFails(t)
    <3> DEFINE r == Returns(t, FALSE)
    <3>1. \E ok \in BOOLEAN : r = Returns(t, ok) OBVIOUS
    <3>2. th' = [r EXCEPT ![t].hands = {}] BY <2>1 DEF PartFails
    <3> HIDE DEF r
    <3>3. /\ \A u \in Threads \ {t} : r[u] = th[u]
          /\ r[t] \in CallerType /\ r \in [Threads -> CallerType]
          /\ r[t].id = 0 /\ r[t].call = th[t].call /\ r[t].forgot = th[t].forgot
          /\ r[t].pc \in {"idle", "reap", "close"}
      BY <3>1, ReturnsLeaves DEF Sound
    <3> QED BY <3>2, <3>3 DEF CallerType
  <2>2. CASE ClosedFails(t)
    <3>1. th' = [th EXCEPT ![t].pc = "idle", ![t].stage = "user", ![t].hands = {}]
      BY <2>2 DEF ClosedFails
    <3> QED BY <1>t, <3>1 DEF CallerType
  <2> QED BY <2>1, <2>2
<1>5. \A i \in Calls : Wants(t, i)' => Wants(t, i) BY <1>4 DEF Wants, Asking
<1>6. py'.failure => py'.pending = {} BY <1>1, <1>s DEF Custody
<1> QED BY <1>1, <1>2, <1>3, <1>4, <1>5, <1>6, StepServes

(* A request is written: its thread waits for it, or keeps a handle.          *)
LEMMA WritesServe ==
  ASSUME Sound, Sound', Served, NEW t \in Threads, Write(t) \/ WritePart(t) \/ WriteRest(t)
  PROVE  Served'
<1>s. Tickets /\ Hands /\ Custody /\ AnswersAreOwn BY DEF Served
<1>t. th \in [Threads -> CallerType] /\ th[t] \in CallerType
  BY DEF Sound, ClientTyped
<1>1. /\ th[t].pc \in {"write", "half"} /\ UNCHANGED <<py, future, reader>>
      /\ \/ th[t].op = "mutate" /\ th' = [th EXCEPT ![t] = [NoCall EXCEPT !.call = th[t].id]]
         \/ \E q \in {"wait", "half"} : th' = [th EXCEPT ![t].pc = q]
  BY DEF Write, WritePart, WriteRest, Written
<1>2. 0 \in Ids BY ControlAssumption DEF Ids
<1>3. AnswersAreOwn' BY <1>1, <1>s DEF AnswersAreOwn
<1>4. py'.failure => py'.pending = {} BY <1>1, <1>s DEF Custody
<1>5. th[t].hands = {} BY <1>1, <1>s DEF Hands
<1>6. \A u \in Threads \ {t} : th'[u] = th[u] BY <1>t, <1>1
<1>7. CASE th' = [th EXCEPT ![t] = [NoCall EXCEPT !.call = th[t].id]]
  <2>1. /\ th'[t].id = 0 /\ th'[t].call = th[t].id
        /\ th'[t].hands = {} /\ th'[t].pc = "idle"
    BY <1>t, <1>7 DEF NoCall
  <2>2. \A i \in Calls : Wants(t, i)' => Wants(t, i) BY <1>1, <2>1 DEF Wants, Asking
  <2> QED BY <1>1, <1>2, <1>3, <1>4, <1>5, <1>6, <2>1, <2>2, StepServes
<1>8. CASE \E q \in {"wait", "half"} : th' = [th EXCEPT ![t].pc = q]
  <2>1. /\ th'[t].id = th[t].id /\ th'[t].call = th[t].call /\ th'[t].forgot = th[t].forgot
        /\ th'[t].hands = {} /\ th'[t].pc \in {"wait", "half"}
    BY <1>t, <1>5, <1>8 DEF CallerType
  <2>2. \A i \in Calls : Wants(t, i)' => Wants(t, i) BY <1>1, <2>1 DEF Wants, Asking
  <2> QED BY <1>1, <1>2, <1>3, <1>4, <1>5, <1>6, <2>1, <2>2, StepServes
<1> QED BY <1>1, <1>7, <1>8

(* The table is taken over as a whole, by a writer that gives up or by close().  *)
LEMMA TakesOverServes ==
  ASSUME Sound, Sound', Served, NEW t \in Threads, PartTimesOut(t) \/ Closed(t)
  PROVE  Served'
<1>s. Tickets /\ Hands /\ Custody /\ AnswersAreOwn BY DEF Served
<1>t. th \in [Threads -> CallerType] /\ th[t] \in CallerType /\ py \in TableType
  BY DEF Sound, ClientTyped
<1>1. /\ th[t].pc \in {"half", "reaped"} /\ UNCHANGED <<future, reader>>
      /\ py' = Failing \/ py' = [Failing EXCEPT !.closed = TRUE]
      /\ \E g \in {th[t].stage, "reaped"} :
            th' = [th EXCEPT ![t].pc = "failing", ![t].stage = g, ![t].hands = py.pending]
  <2>1. CASE PartTimesOut(t)
    <3>1. th' = [th EXCEPT ![t].pc = "failing", ![t].hands = py.pending] BY <2>1 DEF PartTimesOut
    <3>2. [th[t] EXCEPT !.pc = "failing", !.hands = py.pending]
            = [th[t] EXCEPT !.pc = "failing", !.stage = th[t].stage, !.hands = py.pending]
      BY <1>t DEF CallerType
    <3>3. th' = [th EXCEPT ![t].pc = "failing", ![t].stage = th[t].stage, ![t].hands = py.pending]
      BY <1>t, <3>1, <3>2
    <3> QED BY <2>1, <3>3 DEF PartTimesOut
  <2>2. CASE Closed(t) BY <2>2 DEF Closed
  <2> QED BY <2>1, <2>2
<1>2. py'.next = py.next /\ py'.pending = {} BY <1>t, <1>1 DEF Failing, TableType
<1>3. /\ \A u \in Threads \ {t} : th'[u] = th[u]
      /\ th'[t].id = th[t].id /\ th'[t].call = th[t].call /\ th'[t].forgot = th[t].forgot
      /\ th'[t].hands = py.pending /\ th'[t].pc = "failing"
  BY <1>t, <1>1 DEF CallerType
<1>4. th[t].hands = {} BY <1>1, <1>s DEF Hands
<1>5. \A i \in Calls : Wants(t, i)' => Wants(t, i) BY <1>3 DEF Wants, Asking
<1>6. AnswersAreOwn' BY <1>1, <1>s DEF AnswersAreOwn
<1>7. 0 \in Ids BY ControlAssumption DEF Ids
<1> QED BY <1>1, <1>2, <1>3, <1>4, <1>5, <1>6, <1>7, StepServes

(* The steps that touch neither the table nor the futures.                    *)
LEMMA PausesServe ==
  ASSUME Sound, Sound', Served, NEW t \in Threads,
         Result(t) \/ Reap(t) \/ CloseBegins(t) \/ ReapFails(t)
  PROVE  Served'
<1>s. Tickets /\ Hands /\ Custody /\ AnswersAreOwn BY DEF Served
<1>t. th \in [Threads -> CallerType] /\ th[t] \in CallerType /\ py \in TableType
  BY DEF Sound, ClientTyped
<1>1. th[t].pc \in {"idle", "reap"} /\ UNCHANGED <<future, reader>>
  BY DEF Result, Reap, CloseBegins, ReapFails
<1>2. py'.next = py.next /\ py'.pending = py.pending /\ py'.failure = py.failure
  BY <1>t DEF Result, Reap, CloseBegins, ReapFails, TableType
<1>3. \E b \in BOOLEAN, q \in {"result", "reaped", "close", "idle"}, g \in {"user", "stop", "close", "reaped"} :
         th' = [th EXCEPT ![t] = [th[t] EXCEPT !.pc = q, !.bounded = b, !.stage = g]]
  <2>1. CASE Result(t)
    <3>1. PICK b \in BOOLEAN : th' = [th EXCEPT ![t].pc = "result", ![t].bounded = b] BY <2>1 DEF Result
    <3>2. [th[t] EXCEPT !.pc = "result", !.bounded = b]
            = [th[t] EXCEPT !.pc = "result", !.bounded = b, !.stage = th[t].stage]
      BY <1>t DEF CallerType
    <3>3. th[t].stage \in {"user", "stop", "close", "reaped"} BY <1>t DEF CallerType
    <3>4. th' = [th EXCEPT ![t] = [th[t] EXCEPT !.pc = "result", !.bounded = b, !.stage = th[t].stage]]
      BY <1>t, <3>1, <3>2
    <3> QED BY <3>3, <3>4
  <2>2. CASE Reap(t)
    <3>1. th' = [th EXCEPT ![t].pc = "reaped"] BY <2>2 DEF Reap
    <3>2. [th[t] EXCEPT !.pc = "reaped"]
            = [th[t] EXCEPT !.pc = "reaped", !.bounded = th[t].bounded, !.stage = th[t].stage]
      BY <1>t DEF CallerType
    <3>3. th[t].stage \in {"user", "stop", "close", "reaped"} /\ th[t].bounded \in BOOLEAN
      BY <1>t DEF CallerType
    <3>4. th' = [th EXCEPT ![t] = [th[t] EXCEPT !.pc = "reaped", !.bounded = th[t].bounded,
                                                !.stage = th[t].stage]]
      BY <1>t, <3>1, <3>2
    <3> QED BY <3>3, <3>4
  <2>3. CASE CloseBegins(t)
    <3>1. PICK g \in {"stop", "close"} : th' = [th EXCEPT ![t].pc = "close", ![t].stage = g]
      BY <2>3 DEF CloseBegins
    <3>2. [th[t] EXCEPT !.pc = "close", !.stage = g]
            = [th[t] EXCEPT !.pc = "close", !.bounded = th[t].bounded, !.stage = g]
      BY <1>t DEF CallerType
    <3>3. th[t].bounded \in BOOLEAN BY <1>t DEF CallerType
    <3>4. th' = [th EXCEPT ![t] = [th[t] EXCEPT !.pc = "close", !.bounded = th[t].bounded, !.stage = g]]
      BY <1>t, <3>1, <3>2
    <3> QED BY <3>3, <3>4
  <2>4. CASE ReapFails(t)
    <3>1. th' = [th EXCEPT ![t].pc = "idle", ![t].stage = "user"] BY <2>4 DEF ReapFails
    <3>2. [th[t] EXCEPT !.pc = "idle", !.stage = "user"]
            = [th[t] EXCEPT !.pc = "idle", !.bounded = th[t].bounded, !.stage = "user"]
      BY <1>t DEF CallerType
    <3>3. th[t].bounded \in BOOLEAN BY <1>t DEF CallerType
    <3>4. th' = [th EXCEPT ![t] = [th[t] EXCEPT !.pc = "idle", !.bounded = th[t].bounded, !.stage = "user"]]
      BY <1>t, <3>1, <3>2
    <3> QED BY <3>3, <3>4
  <2> QED BY <2>1, <2>2, <2>3, <2>4
<1>4. /\ \A u \in Threads \ {t} : th'[u] = th[u]
      /\ th'[t].id = th[t].id /\ th'[t].call = th[t].call /\ th'[t].forgot = th[t].forgot
      /\ th'[t].hands = th[t].hands /\ th'[t].pc \in {"result", "reaped", "close", "idle"}
  BY <1>t, <1>3 DEF CallerType
<1>5. th[t].hands = {} BY <1>1, <1>s DEF Hands
<1>6. \A i \in Calls : Wants(t, i)' => Wants(t, i) BY <1>4 DEF Wants, Asking
<1>7. AnswersAreOwn' BY <1>1, <1>s DEF AnswersAreOwn
<1>8. 0 \in Ids BY ControlAssumption DEF Ids
<1>9. py'.failure => py'.pending = {} BY <1>2, <1>s DEF Custody
<1> QED BY <1>1, <1>2, <1>4, <1>5, <1>6, <1>7, <1>8, <1>9, StepServes

(* A handle is given up.                                                      *)
LEMMA ForgetServes ==
  ASSUME Sound, Sound', Served, NEW t \in Threads, ResultTimesOut(t)
  PROVE  Served'
<1>s. Tickets /\ Hands /\ Custody /\ AnswersAreOwn BY DEF Served
<1>t. th \in [Threads -> CallerType] /\ th[t] \in CallerType BY DEF Sound, ClientTyped
<1>1. PICK g \in Ids : g = th[t].call BY <1>t DEF CallerType
<1>2. /\ th[t].pc = "result" /\ py' = Without(g)
      /\ th' = [th EXCEPT ![t].pc = "idle", ![t].forgot = TRUE] /\ UNCHANGED <<future, reader>>
  BY <1>1 DEF ResultTimesOut
<1>3. py'.next = py.next /\ py'.failure = py.failure /\ py'.pending = py.pending \ {g}
  BY <1>2, Table
<1>4. /\ \A u \in Threads \ {t} : th'[u] = th[u]
      /\ th'[t].id = th[t].id /\ th'[t].call = th[t].call /\ th'[t].forgot
      /\ th'[t].hands = th[t].hands /\ th'[t].pc = "idle"
  BY <1>t, <1>2 DEF CallerType
<1>5. th[t].hands = {} BY <1>2, <1>s DEF Hands
<1>6. \A i : ~Wants(t, i)' BY <1>4 DEF Wants, Asking
<1>7. AnswersAreOwn' BY <1>2, <1>s DEF AnswersAreOwn
<1>8. py'.failure => py'.pending = {} BY <1>3, <1>s DEF Custody
<1>9. (\A i \in Calls : Wants(t, i)' => Wants(t, i)) /\ ~Wants(t, g)' BY <1>6
<1>10. \A i \in Calls \ {g} : future[i].done \/ i \in py.pending \/ i \in th[t].hands
          => future'[i].done \/ i \in py'.pending \/ i \in th'[t].hands
  BY <1>2, <1>3, <1>4
<1>11. /\ th'[t].id \in {0, th[t].id} /\ th'[t].call \in {0, th[t].call}
       /\ th'[t].pc # "failing" => th'[t].hands = {}
       /\ py'.pending \subseteq py.pending /\ g \in {th[t].id, th[t].call}
       /\ \A u \in Threads \ {t} : th'[u] = th[u]
  BY <1>1, <1>3, <1>4, <1>5
<1>12. UNCHANGED reader BY <1>2
<1> QED BY <1>3, <1>7, <1>8, <1>9, <1>10, <1>11, <1>12, StepServes

(* The two calls of close().                                                  *)
LEMMA CloseCallsServes ==
  ASSUME Sound, Sound', Served, NEW t \in Threads, CloseCalls(t)
  PROVE  Served'
<1>s. Tickets /\ Hands /\ Custody /\ AnswersAreOwn BY DEF Served
<1>1. th[t].pc = "close" /\ UNCHANGED <<future, reader>> BY DEF CloseCalls
<1>2. th[t].stage \in {"stop", "close"} BY <1>1 DEF Sound, Room
<1>3. CASE \E op \in Operations : BeginCall(t, op, TRUE, th[t].stage)
  <2>1. PICK op \in Operations, g \in {"user", "stop", "close"} : BeginCall(t, op, TRUE, g)
    BY <1>2, <1>3
  <2>2. \E b \in BOOLEAN : BeginCall(t, op, b, g) BY <2>1
  <2> QED BY <1>1, <2>2, BeginServes
<1>4. CASE th' = Returns(t, FALSE) /\ UNCHANGED py
  <2>0. \E ok \in BOOLEAN : th' = Returns(t, ok) BY <1>4
  <2>1. /\ \A u \in Threads \ {t} : th'[u] = th[u]
        /\ th'[t].id = 0 /\ th'[t].call = th[t].call /\ th'[t].forgot = th[t].forgot
        /\ th'[t].hands = th[t].hands /\ th'[t].pc \in {"idle", "reap", "close"}
    BY <2>0, ReturnsLeaves DEF Sound
  <2>2. th[t].hands = {} BY <1>1, <1>s DEF Hands
  <2>3. \A i \in Calls : Wants(t, i)' => Wants(t, i) BY <2>1 DEF Wants, Asking
  <2>4. AnswersAreOwn' BY <1>1, <1>s DEF AnswersAreOwn
  <2>5. py'.failure => py'.pending = {} BY <1>4, <1>s DEF Custody
  <2>6. 0 \in Ids BY ControlAssumption DEF Ids
  <2> QED BY <1>1, <1>4, <2>1, <2>2, <2>3, <2>4, <2>5, <2>6, StepServes
<1> QED BY <1>3, <1>4 DEF CloseCalls, Operations, Jobs

-----------------------------------------------------------------------------
(* At first nobody wants anything.                                            *)
LEMMA ServedInit == Init => Served
<1> SUFFICES ASSUME Init PROVE Served OBVIOUS
<1>1. Tickets BY DEF Init, Tickets, NoCall
<1>2. Hands BY DEF Init, Hands, NoCall, NoResponse
<1>3. Custody BY ControlAssumption DEF Init, Custody, NoCall, Wants, Asking, Calls
<1>4. AnswersAreOwn BY DEF Init, AnswersAreOwn, Undone
<1> QED BY <1>1, <1>2, <1>3, <1>4 DEF Served

(* Every step serves.                                                         *)
LEMMA ServedStep == Sound /\ Sound' /\ Served /\ [Next]_vars => Served'
<1> SUFFICES ASSUME Sound, Sound', Served, [Next]_vars PROVE Served' OBVIOUS
<1>1. CASE UNCHANGED clientVars
  <2>1. UNCHANGED <<py, future, th, reader>> BY <1>1 DEF clientVars
  <2> QED BY <2>1 DEF Served, Tickets, Hands, Custody, Wants, Kept, Lost, Asking, AnswersAreOwn
<1>2. CASE Reader BY <1>2, ReaderServes
<1>3. ASSUME NEW t \in Threads, Goes(t) \/ Chooses(t) PROVE Served'
  <2>1. CASE Call(t) \/ Mutate(t) \/ CancelCall(t) BY <2>1, CallServes
  <2>2. CASE FrameFails(t) \/ WriteTimesOut(t) \/ WriteBreaks(t) \/ CallTimesOut(t)
    BY <2>2, GivenUpServes
  <2>3. CASE Answered(t) \/ ResultAnswered(t) BY <2>3, AnsweredServes
  <2>4. CASE PartFails(t) \/ ClosedFails(t) BY <2>4, FailsServes
  <2>5. CASE Write(t) \/ WritePart(t) \/ WriteRest(t) BY <2>5, WritesServe
  <2>6. CASE PartTimesOut(t) \/ Closed(t) BY <2>6, TakesOverServes
  <2>7. CASE Result(t) \/ Reap(t) \/ CloseBegins(t) \/ ReapFails(t) BY <2>7, PausesServe
  <2>8. CASE ResultTimesOut(t) BY <2>8, ForgetServes
  <2>9. CASE CloseCalls(t) BY <2>9, CloseCallsServes
  <2> QED BY <1>3, <2>1, <2>2, <2>3, <2>4, <2>5, <2>6, <2>7, <2>8, <2>9 DEF Goes, Chooses
<1> QED BY <1>1, <1>2, <1>3 DEF Next, vars

(* Nobody is stranded: what a caller waits for and has not given up is done, in  *)
(* the table, or in the hands of the reader, of the writer that gave up or of    *)
(* close(), which complete it; at most one call is not, the one whose error the  *)
(* reader could not read after it had taken its future out of the table. Numbers *)
(* are never shared: that is what lets one caller give its own back without harm *)
(* to another (_begin_call, _forget, _fail_pending, _read_responses).            *)
THEOREM NobodyIsStranded == Spec => []NobodyStranded
<1>1. Sound /\ Served => NobodyStranded
  <2> SUFFICES ASSUME Sound, Served PROVE NobodyStranded OBVIOUS
  <2>1. Custody BY DEF Served
  <2>2. ASSUME NEW t \in Threads, NEW i \in Calls,
               \/ th[t].pc = "wait" /\ i = th[t].id
               \/ th[t].call = i /\ ~th[t].forgot
        PROVE  future[i].done \/ i \in py.pending \cup InHand \cup Lost
    <3>1. Kept(i) BY <2>1, <2>2 DEF Custody, Wants, Asking
    <3>2. \A u \in Threads : i \in th[u].hands => i \in InHand BY DEF InHand
    <3> QED BY <3>1, <3>2 DEF Kept, InHand
  <2> QED BY <2>1, <2>2 DEF NobodyStranded, Custody
<1> QED BY <1>1, SoundInit, SoundStep, ServedInit, ServedStep, PTL DEF Spec

(* A future is completed by the response to its own request, or by a failure,    *)
(* whatever was given up in between (_read_responses, MutationCall.result).      *)
THEOREM AnswersAreTheirOwn == Spec => []AnswersAreOwn
<1>1. Served => AnswersAreOwn BY DEF Served
<1> QED BY <1>1, SoundInit, SoundStep, ServedInit, ServedStep, PTL DEF Spec

-----------------------------------------------------------------------------
(* What a confirmed close says. The request of a close has a number of its own,  *)
(* and every frame, job and response with that number is of the close.           *)
Confirmed == ~rt.up /\ Running("mutate") = {} /\ rt.campaign \in {"none", "over"}
Closes(t) == Asking(t) /\ th[t].stage = "close"

\* Nothing has a number that was not given yet.
Before ==
    /\ \A k \in DOMAIN stdin : stdin[k].id < py.next
    /\ \A j \in rt.jobs : j.id < py.next
    /\ \A k \in DOMAIN stdout : stdout[k].id < py.next \/ ~stdout[k].ok
    /\ reader.response.id < py.next \/ ~reader.response.ok
    /\ \A i \in Calls : future[i].ok => i < py.next
OfClose(i) ==
    /\ \A k \in DOMAIN stdin : stdin[k].id = i => stdin[k].op = "close"
    /\ \A j \in rt.jobs : j.id = i => j.op = "close"
    /\ \A k \in DOMAIN stdout : stdout[k].id = i /\ stdout[k].ok => Confirmed
    /\ reader.response.id = i /\ reader.response.ok => Confirmed
    /\ future[i].ok => Confirmed
Truthful == \A t \in Threads, i \in Calls :
    Closes(t) /\ th[t].id = i => th[t].op = "close" /\ OfClose(i)
Over ==
    /\ py.clean => Confirmed
    /\ py.closed \/ (\E t \in Threads : th[t].pc = "reaped" \/ th[t].stage = "reaped") => ~rt.up

Honest == Before /\ Truthful /\ Over

(* What is left of a pipe was in it, and what is added comes last.            *)
LEMMA Tails ==
  ASSUME NEW S, NEW s \in Seq(S), s # <<>>
  PROVE  /\ 1 \in DOMAIN s /\ Head(s) = s[1]
         /\ \A k \in DOMAIN Tail(s) : k + 1 \in DOMAIN s /\ Tail(s)[k] = s[k + 1]
  OBVIOUS

LEMMA Appends ==
  ASSUME NEW S, NEW s \in Seq(S), NEW e \in S
  PROVE  \A k \in DOMAIN Append(s, e) : \/ k \in DOMAIN s /\ Append(s, e)[k] = s[k]
                                        \/ Append(s, e)[k] = e
  OBVIOUS

(* A step of the runtime. It is up, so that nothing has been confirmed; what it  *)
(* answers well is not the close, or the runtime is over and clean.              *)
LEMMA RuntimeTells ==
  ASSUME Sound, Sound', Honest, rt.up, UNCHANGED clientVars,
         NEW id \in Ids, NEW ok \in BOOLEAN, Respond(id, ok) \/ UNCHANGED stdout,
         id < py.next,
         ok => \A t \in Threads : Closes(t) => id # th[t].id \/ Confirmed',
         \A k \in DOMAIN stdin' : \E l \in DOMAIN stdin : stdin'[k] = stdin[l],
         \A j \in rt'.jobs : j \in rt.jobs \/ \E l \in DOMAIN stdin : j.id = stdin[l].id /\ j.op = stdin[l].op
  PROVE  Honest'
<1>s. Before /\ Truthful /\ Over BY DEF Honest
<1>c. UNCHANGED <<py, future, th, reader>> BY DEF clientVars
<1>n. ~Confirmed BY DEF Confirmed
<1>1. \A k \in DOMAIN stdout' : \/ k \in DOMAIN stdout /\ stdout'[k] = stdout[k]
                                \/ stdout'[k].id = id /\ stdout'[k].ok = ok
  <2>1. CASE Respond(id, ok)
    <3>1. PICK e : /\ e \in {[id |-> id, ok |-> ok, sound |-> b] : b \in BOOLEAN}
                   /\ stdout' = Append(stdout, e)
      BY <2>1 DEF Respond
    <3>2. stdout \in Seq(Response) /\ e \in Response
      BY <3>1 DEF Sound, RuntimeTyped, Response, Ids
    <3>3. e.id = id /\ e.ok = ok BY <3>1
    <3>4. \A k \in DOMAIN stdout' : (k \in DOMAIN stdout /\ stdout'[k] = stdout[k]) \/ stdout'[k] = e
      BY <3>1, <3>2, Appends
    <3> QED BY <3>3, <3>4
  <2> QED BY <2>1
<1>2. Before' BY <1>s, <1>c, <1>1 DEF Before
<1>3. \A t \in Threads : Closes(t)' = Closes(t) BY <1>c DEF Closes, Asking
<1>4. ASSUME NEW t \in Threads, NEW i \in Calls, Closes(t), th[t].id = i PROVE th'[t].op = "close" /\ OfClose(i)'
  <2>1. OfClose(i) /\ th[t].op = "close" BY <1>4, <1>s DEF Truthful
  <2>2. \A k \in DOMAIN stdout' : stdout'[k].id = i /\ stdout'[k].ok => Confirmed'
    BY <1>1, <1>4, <1>n, <2>1 DEF OfClose
  <2>3. ~reader.response.ok \/ reader.response.id # i BY <1>n, <2>1 DEF OfClose
  <2>4. ~future[i].ok BY <1>n, <2>1 DEF OfClose
  <2>5. \A k \in DOMAIN stdin' : stdin'[k].id = i => stdin'[k].op = "close" BY <2>1 DEF OfClose
  <2>6. \A j \in rt'.jobs : j.id = i => j.op = "close" BY <2>1 DEF OfClose
  <2> QED BY <1>c, <2>1, <2>2, <2>3, <2>4, <2>5, <2>6 DEF OfClose
<1>5. Truthful' BY <1>c, <1>3, <1>4 DEF Truthful
<1>6. Over' BY <1>s, <1>c, <1>n DEF Over
<1> QED BY <1>2, <1>5, <1>6 DEF Honest

(* Every step of the runtime is honest.                                       *)
LEMMA RuntimeHonest ==
  ASSUME Sound, Sound', Honest, RuntimeStep, UNCHANGED clientVars
  PROVE  Honest'
<1>s. Before /\ Truthful /\ Over BY DEF Honest
<1>t. stdin \in Seq(Message) /\ stdout \in Seq(Response) /\ rt \in RuntimeType
  BY DEF Sound, RuntimeTyped
<1>j. \A j \in rt.jobs : j.id \in Calls /\ j.id \in Ids /\ j.id < py.next
  BY <1>t, <1>s DEF Before, RuntimeType, Calls, Ids
<1>0. 0 \in Ids /\ 0 < py.next BY ControlAssumption DEF Ids, Sound, ClientTyped, TableType
<1>u. rt.up BY DEF RuntimeStep, Accept, WireError, CampaignEnds, RuntimeCrashes, JobDone, JobDies, CloseDone, CloseFails
<1>e. DOMAIN (<<>>) = {} OBVIOUS
<1>1. CASE Accept
  <2> DEFINE m == Head(stdin)
  <2>1. stdin # <<>> /\ stdin' = Tail(stdin) BY <1>1 DEF Accept
  <2>2. m = stdin[1] /\ 1 \in DOMAIN stdin /\ m \in Message BY <1>t, <2>1, Tails
  <2>3. m.id \in Calls /\ m.id \in Ids /\ m.id < py.next
    BY <2>2, <1>s DEF Before, Message, Calls, Ids
  <2>4. \A k \in DOMAIN stdin' : \E l \in DOMAIN stdin : stdin'[k] = stdin[l]
    BY <1>t, <2>1, Tails
  <2>5. PICK ok \in BOOLEAN :
           /\ Respond(m.id, ok) \/ UNCHANGED stdout
           /\ rt'.jobs = rt.jobs \/ rt'.jobs = rt.jobs \cup {Job(m)}
           /\ ok => m.op # "close"
    <3>1. CASE Refused(m) BY <1>1, <3>1 DEF Accept
    <3>2. CASE ~Refused(m)
      <4>1. Dispatch(m) BY <1>1, <3>2 DEF Accept
      <4>2. m.op \in Operations BY <2>2 DEF Message
      <4>3. CASE m.op \in {"start", "request_stop", "cancel"}
        <5>1. Respond(m.id, TRUE) BY <4>1, <4>3 DEF Dispatch
        <5>2. rt'.jobs = rt.jobs BY <1>t, <4>1, <4>3 DEF Dispatch, RuntimeType
        <5> QED BY <4>3, <5>1, <5>2
      <4>4. CASE m.op \in Jobs
        <5>1. UNCHANGED stdout BY <4>1, <4>4 DEF Dispatch, Jobs
        <5>2. rt'.jobs = rt.jobs \cup {Job(m)}
          BY <1>t, <4>1, <4>4 DEF Dispatch, Jobs, Begin, RuntimeType
        <5> QED BY <5>1, <5>2
      <4> QED BY <4>2, <4>3, <4>4 DEF Operations
    <3> QED BY <3>1, <3>2
  <2>6. \A j \in rt'.jobs : j \in rt.jobs \/ \E l \in DOMAIN stdin : j.id = stdin[l].id /\ j.op = stdin[l].op
    BY <2>2, <2>5 DEF Job
  <2>7. \A t \in Threads : Closes(t) => (ok => m.id # th[t].id)
    <3> SUFFICES ASSUME NEW t \in Threads, Closes(t), ok, m.id = th[t].id PROVE FALSE OBVIOUS
    <3>1. OfClose(m.id) BY <1>s, <2>3 DEF Truthful
    <3> QED BY <2>2, <2>5, <3>1 DEF OfClose
  <2> HIDE DEF m
  <2> QED BY <1>u, <2>3, <2>4, <2>5, <2>6, <2>7, RuntimeTells
<1>2. CASE WireError
  <2>1. Respond(0, FALSE) /\ stdin' = <<>> /\ rt'.jobs = rt.jobs
    BY <1>2, <1>t DEF WireError, RuntimeType
  <2>2. \A k \in DOMAIN stdin' : \E l \in DOMAIN stdin : stdin'[k] = stdin[l] BY <1>e, <2>1
  <2>3. \E ok \in BOOLEAN : ok = FALSE OBVIOUS
  <2> QED BY <1>u, <1>0, <2>1, <2>2, <2>3, RuntimeTells
<1>3. CASE CampaignEnds
  <2>1. UNCHANGED stdout /\ stdin' = stdin /\ rt'.jobs = rt.jobs
    BY <1>3, <1>t DEF CampaignEnds, RuntimeType
  <2>3. \E ok \in BOOLEAN : ok = FALSE OBVIOUS
  <2> QED BY <1>u, <1>0, <2>1, <2>3, RuntimeTells
<1>4. CASE RuntimeCrashes
  <2>1. /\ Respond(0, FALSE) \/ UNCHANGED stdout
        /\ stdin' = <<>> /\ rt'.jobs = rt.jobs
    BY <1>4, <1>t DEF RuntimeCrashes, Ended, Gone, RuntimeType
  <2>2. \A k \in DOMAIN stdin' : \E l \in DOMAIN stdin : stdin'[k] = stdin[l] BY <1>e, <2>1
  <2>3. \E ok \in BOOLEAN : ok = FALSE OBVIOUS
  <2> QED BY <1>u, <1>0, <2>1, <2>2, <2>3, RuntimeTells
<1>5. ASSUME NEW j \in rt.jobs, JobDone(j) \/ JobDies(j) PROVE Honest'
  <2>1. PICK ok \in BOOLEAN : Respond(j.id, ok) BY <1>5 DEF JobDone, JobDies
  <2>2. stdin' = stdin /\ rt'.jobs \subseteq rt.jobs /\ j.op # "close"
    BY <1>5, <1>t DEF JobDone, JobDies, RuntimeType
  <2>3. \A t \in Threads : Closes(t) => j.id # th[t].id
    <3> SUFFICES ASSUME NEW t \in Threads, Closes(t), j.id = th[t].id PROVE FALSE OBVIOUS
    <3>1. OfClose(j.id) BY <1>j, <1>s DEF Truthful
    <3> QED BY <2>2, <3>1 DEF OfClose
  <2>4. PICK i \in Ids : i = j.id /\ i < py.next BY <1>j
  <2> QED BY <1>u, <2>1, <2>2, <2>3, <2>4, RuntimeTells
<1>6. ASSUME NEW j \in rt.jobs, CloseDone(j) \/ CloseFails(j) PROVE Honest'
  <2>1. PICK ok \in BOOLEAN : Respond(j.id, ok) /\ (ok => CloseDone(j))
    BY <1>6 DEF CloseDone, CloseFails
  <2>2. stdin' = <<>> /\ rt' = Gone /\ rt'.jobs = rt.jobs /\ ~rt'.up /\ rt'.campaign = rt.campaign
    BY <1>6, <1>t DEF CloseDone, CloseFails, Ended, Gone, RuntimeType
  <2>3. ok => Confirmed' BY <2>1, <2>2 DEF CloseDone, Confirmed, Running
  <2>4. PICK i \in Ids : i = j.id /\ i < py.next BY <1>j
  <2>5. \A k \in DOMAIN stdin' : \E l \in DOMAIN stdin : stdin'[k] = stdin[l] BY <1>e, <2>2
  <2> QED BY <1>u, <2>1, <2>2, <2>3, <2>4, <2>5, RuntimeTells
<1> QED BY <1>1, <1>2, <1>3, <1>4, <1>5, <1>6 DEF RuntimeStep

(* The reader carries an answer from the pipe to its future.                     *)
LEMMA ReaderHonest ==
  ASSUME Sound, Sound', Served, Honest, Reader
  PROVE  Honest'
<1>s. Before /\ Truthful /\ Over BY DEF Honest
<1>t. /\ stdout \in Seq(Response) /\ reader \in ReaderType /\ py \in TableType
      /\ future \in [Calls -> FutureType]
  BY DEF Sound, RuntimeTyped, ClientTyped
<1>1. UNCHANGED <<rt, stdin, th>> BY DEF Reader, ReaderTakes, ReaderAnswers, ReaderLoses, ReaderEof, ReaderFails, runtimeVars
<1>2. py'.next = py.next /\ py'.clean = py.clean /\ py'.closed = py.closed
  BY <1>t DEF Reader, ReaderTakes, ReaderAnswers, ReaderLoses, ReaderEof, ReaderFails, TableType, Without, Failing
<1>3. \A k \in DOMAIN stdout' : \E l \in DOMAIN stdout : stdout'[k] = stdout[l]
  <2>1. CASE ReaderTakes BY <1>t, <2>1, Tails DEF ReaderTakes
  <2>2. CASE UNCHANGED stdout BY <2>2
  <2> QED BY <2>1, <2>2 DEF Reader, ReaderAnswers, ReaderLoses, ReaderEof, ReaderFails, runtimeVars
<1>4. \/ reader'.response = reader.response
      \/ reader'.response.ok = FALSE
      \/ \E l \in DOMAIN stdout : reader'.response = stdout[l]
  <2>1. CASE ReaderTakes
    <3>1. Head(stdout) = stdout[1] /\ 1 \in DOMAIN stdout BY <1>t, <2>1, Tails DEF ReaderTakes
    <3>2. \/ reader' = [reader EXCEPT !.pc = "failing", !.hands = py.pending]
          \/ reader' = reader
          \/ \E h : reader' = [pc |-> "popped", hands |-> h, response |-> Head(stdout)]
      BY <2>1 DEF ReaderTakes
    <3>3. CASE reader' = [reader EXCEPT !.pc = "failing", !.hands = py.pending]
      BY <1>t, <3>3 DEF ReaderType
    <3>4. CASE reader' = reader BY <3>4
    <3>5. CASE \E h : reader' = [pc |-> "popped", hands |-> h, response |-> Head(stdout)]
      BY <3>1, <3>5
    <3> QED BY <3>2, <3>3, <3>4, <3>5
  <2>2. CASE ReaderAnswers BY <1>t, <2>2 DEF ReaderAnswers, NoResponse, ReaderType
  <2>3. CASE ReaderEof \/ ReaderFails \/ ReaderLoses
    BY <1>t, <2>3 DEF ReaderEof, ReaderFails, ReaderLoses, ReaderType
  <2> QED BY <2>1, <2>2, <2>3 DEF Reader
<1>5. \A i \in Calls : \/ future'[i].ok => future[i].ok
                       \/ i = reader.response.id /\ reader.response.ok
  <2>1. CASE ReaderAnswers
    <3>1. reader.hands = {reader.response.id} BY <2>1 DEF Served, Hands, ReaderAnswers
    <3> QED BY <2>1, <3>1 DEF ReaderAnswers, Completed
  <2>2. CASE ReaderFails BY <2>2 DEF ReaderFails, Completed
  <2>3. CASE UNCHANGED future BY <2>3
  <2> QED BY <2>1, <2>2, <2>3 DEF Reader, ReaderTakes, ReaderLoses, ReaderEof
<1>6. Before' BY <1>s, <1>1, <1>2, <1>3, <1>4, <1>5 DEF Before
<1>7. Confirmed' = Confirmed BY <1>1 DEF Confirmed, Running
<1>8. \A t \in Threads : Closes(t)' = Closes(t) BY <1>1 DEF Closes, Asking
<1>9. ASSUME NEW i \in Calls, OfClose(i) PROVE OfClose(i)'
  <2>1. \A k \in DOMAIN stdout' : stdout'[k].id = i /\ stdout'[k].ok => Confirmed'
    BY <1>3, <1>7, <1>9 DEF OfClose
  <2>2. reader'.response.id = i /\ reader'.response.ok => Confirmed'
    BY <1>4, <1>7, <1>9 DEF OfClose
  <2>3. future'[i].ok => Confirmed' BY <1>5, <1>7, <1>9 DEF OfClose
  <2> QED BY <1>1, <1>9, <2>1, <2>2, <2>3 DEF OfClose
<1>10. Truthful' BY <1>s, <1>1, <1>8, <1>9 DEF Truthful
<1>11. Over' BY <1>s, <1>1, <1>2, <1>7 DEF Over
<1> QED BY <1>6, <1>10, <1>11 DEF Honest

(* A thread begins no call of close(); what it writes is what it asks for.       *)
LEMMA ThreadTells ==
  ASSUME Sound, Sound', Tickets, Honest, NEW t \in Threads,
         UNCHANGED <<stdout, reader>>, rt' = rt \/ rt' = Gone,
         \A u \in Threads \ {t} : th'[u] = th[u],
         py'.next = py.next, py'.clean => py.clean \/ Confirmed,
         Closes(t)' => Closes(t) /\ th'[t].id = th[t].id /\ th'[t].op = th[t].op,
         \A i \in Calls : future'[i].ok => future[i].ok,
         \A k \in DOMAIN stdin' :
            \/ \E l \in DOMAIN stdin : stdin'[k].id = stdin[l].id /\ stdin'[k].op = stdin[l].op
            \/ Asking(t) /\ stdin'[k].id = th[t].id /\ stdin'[k].op = th[t].op,
         py'.closed \/ th'[t].pc = "reaped" \/ th'[t].stage = "reaped" => ~rt'.up
  PROVE  Honest'
<1>s. Before /\ Truthful /\ Over BY DEF Honest
<1>1. /\ rt'.jobs = rt.jobs /\ rt'.campaign = rt.campaign /\ (~rt.up => ~rt'.up)
  BY DEF Gone, Sound, RuntimeTyped, RuntimeType
<1>2. Confirmed => Confirmed' BY <1>1 DEF Confirmed, Running
<1>3. Before'
  <2>1. th[t].id < py.next BY DEF Tickets
  <2>2. \A k \in DOMAIN stdin' : stdin'[k].id < py.next BY <1>s, <2>1 DEF Before
  <2> QED BY <1>s, <1>1, <2>2 DEF Before
<1>4. ASSUME NEW u \in Threads, NEW i \in Calls, Closes(u), th[u].id = i PROVE OfClose(i)'
  <2>1. OfClose(i) /\ th[u].op = "close" BY <1>4, <1>s DEF Truthful
  <2>2. Asking(t) /\ th[t].id = i => u = t
    <3> SUFFICES ASSUME th[t].id = i, u # t PROVE FALSE OBVIOUS
    <3>1. {th[t].id, th[t].call} \cap {th[u].id, th[u].call} \subseteq {0} BY DEF Tickets
    <3> QED BY <1>4, <3>1, ControlAssumption DEF Calls
  <2>3. \A k \in DOMAIN stdin' : stdin'[k].id = i => stdin'[k].op = "close"
    BY <2>1, <2>2 DEF OfClose
  <2> QED BY <1>1, <1>2, <2>1, <2>3 DEF OfClose
<1>5. ASSUME NEW u \in Threads, Closes(u)'
      PROVE  Closes(u) /\ th'[u].id = th[u].id /\ th'[u].op = th[u].op
  BY <1>5 DEF Closes, Asking
<1>6. Truthful' BY <1>s, <1>4, <1>5 DEF Truthful
<1>7. Over' BY <1>s, <1>1, <1>2 DEF Over
<1> QED BY <1>3, <1>6, <1>7 DEF Honest

(* A call begins. Its number is new to everyone.                                 *)
LEMMA BeginHonest ==
  ASSUME Sound, Sound', Honest, NEW t \in Threads, NEW op \in Operations,
         NEW bounded \in BOOLEAN, NEW stage \in {"user", "stop", "close"},
         BeginCall(t, op, bounded, stage), UNCHANGED <<runtimeVars, future, reader>>,
         th[t].pc = "close" \/ (th[t].pc = "idle" /\ py.next \in UserCalls),
         stage = "close" => op = "close"
  PROVE  Honest'
<1>s. Before /\ Truthful /\ Over BY DEF Honest
<1>1. py.next \in Calls /\ py.next + 1 \in 1..(MaxCall + 1) BY NextInCalls DEF Sound
<1>2. Begun(t, op, bounded, stage) BY <1>1, BeginTyped DEF Sound
<1>3. \A u \in Threads \ {t} : th'[u] = th[u] BY <1>2 DEF Begun
<1>4. th'[t].pc = "write" /\ th'[t].id = py.next /\ th'[t].op = op /\ th'[t].stage = stage
  BY <1>2 DEF Begun, Sound, ClientTyped, CallerType
<1>5. py'.next = py.next + 1 /\ py'.clean = py.clean /\ py'.closed = py.closed
  BY <1>2 DEF Begun, Sound, ClientTyped, TableType
<1>6. UNCHANGED <<rt, stdin, stdout>> BY DEF runtimeVars
<1>7. Confirmed' = Confirmed BY <1>6 DEF Confirmed, Running
<1>8. \A i \in Calls : OfClose(i)' = OfClose(i) BY <1>6, <1>7 DEF OfClose
<1>9. OfClose(py.next)
  <2>1. py.next \in Int BY <1>1 DEF Calls
  <2> QED BY <1>1, <1>s, <2>1 DEF OfClose, Before
<1>10. ASSUME NEW u \in Threads, NEW i \in Calls, Closes(u)', th'[u].id = i
       PROVE  th'[u].op = "close" /\ OfClose(i)'
  <2>1. CASE u = t
    <3>1. stage = "close" /\ i = py.next BY <1>4, <1>10, <2>1 DEF Closes
    <3> QED BY <1>4, <1>8, <1>9, <2>1, <3>1
  <2>2. CASE u # t
    <3>1. Closes(u) /\ th[u] = th'[u] BY <1>3, <1>10, <2>2 DEF Closes, Asking
    <3> QED BY <1>8, <1>10, <1>s, <3>1 DEF Truthful
  <2> QED BY <2>1, <2>2
<1>11. Truthful' BY <1>10 DEF Truthful
<1>12. Before'
  <2>1. py.next \in Int BY <1>1 DEF Calls
  <2>2. /\ \A k \in DOMAIN stdin : stdin[k].id \in Int
        /\ \A j \in rt.jobs : j.id \in Int
        /\ \A k \in DOMAIN stdout : stdout[k].id \in Int
        /\ reader.response.id \in Int
    <3>1. stdin \in Seq(Message) /\ stdout \in Seq(Response) /\ rt \in RuntimeType /\ reader \in ReaderType
      BY DEF Sound, RuntimeTyped, ClientTyped
    <3>2. \A k \in DOMAIN stdin : stdin[k] \in Message BY <3>1
    <3>3. \A k \in DOMAIN stdout : stdout[k] \in Response BY <3>1
    <3>4. \A j \in rt.jobs : j.id \in Int BY <3>1 DEF RuntimeType, Calls
    <3>5. reader.response \in Response BY <3>1 DEF ReaderType
    <3>6. (\A m \in Message : m.id \in Int) /\ \A r \in Response : r.id \in Int
      BY DEF Message, Response, Calls
    <3> QED BY <3>2, <3>3, <3>4, <3>5, <3>6
  <2> QED BY <1>5, <1>6, <1>s, <2>1, <2>2 DEF Before, Calls
<1>13. Over' BY <1>3, <1>4, <1>5, <1>6, <1>7, <1>s DEF Over
<1> QED BY <1>11, <1>12, <1>13 DEF Honest

(* The calls of a user are not the close.                                     *)
LEMMA CallHonest ==
  ASSUME Sound, Sound', Honest, NEW t \in Threads, Call(t) \/ Mutate(t) \/ CancelCall(t)
  PROVE  Honest'
<1>1. PICK op \in Operations, bounded \in BOOLEAN : BeginCall(t, op, bounded, "user")
  BY DEF Call, Mutate, CancelCall, Operations, Jobs
<1>2. th[t].pc = "idle" /\ py.next \in UserCalls /\ UNCHANGED <<runtimeVars, future, reader>>
  BY DEF Call, Mutate, CancelCall
<1> QED BY <1>1, <1>2, BeginHonest

(* A call that is over, whatever for. What is noted of a close is what its own   *)
(* future says.                                                                  *)
LEMMA ReturnsHonest ==
  ASSUME Sound, Sound', Tickets, Honest, NEW t \in Threads, NEW ok \in BOOLEAN, NEW r,
         r = Returns(t, ok), th' = r \/ th' = [r EXCEPT ![t].hands = {}],
         UNCHANGED <<runtimeVars, reader>>,
         py'.next = py.next, py'.closed = py.closed, py'.clean => py.clean \/ Confirmed,
         \A i \in Calls : future'[i].ok => future[i].ok
  PROVE  Honest'
<1>1. /\ r \in [Threads -> CallerType]
      /\ \A u \in Threads \ {t} : r[u] = th[u]
      /\ r[t].stage \in {"user", "close"} /\ r[t].pc \in {"idle", "reap", "close"}
  <2>0. ClientTyped BY DEF Sound
  <2>1. /\ Returns(t, ok) \in [Threads -> CallerType]
        /\ \A u \in Threads \ {t} : Returns(t, ok)[u] = th[u]
        /\ th[t].stage = "user" => Returns(t, ok)[t].stage = "user" /\ Returns(t, ok)[t].pc = "idle"
        /\ th[t].stage # "user" => /\ Returns(t, ok)[t].stage = "close"
                                   /\ Returns(t, ok)[t].pc \in {"idle", "reap", "close"}
    BY <2>0, ReturnsTyped
  <2> QED BY <2>1
<1>2. /\ \A u \in Threads \ {t} : th'[u] = th[u]
      /\ th'[t].stage \in {"user", "close"} /\ th'[t].pc \in {"idle", "reap", "close"}
  <2>1. CASE th' = r BY <1>1, <2>1
  <2>2. CASE th' = [r EXCEPT ![t].hands = {}] BY <1>1, <2>2 DEF CallerType
  <2> QED BY <2>1, <2>2
<1>3. UNCHANGED <<rt, stdin, stdout>> BY DEF runtimeVars
<1>4. ~Closes(t)' BY <1>2 DEF Closes, Asking
<1>5. py'.closed => ~rt'.up BY <1>3 DEF Honest, Over
<1> QED BY <1>2, <1>3, <1>4, <1>5, ThreadTells

(* The ends of a call.                                                        *)
LEMMA EndsHonest ==
  ASSUME Sound, Sound', Served, Honest, NEW t \in Threads,
         \/ FrameFails(t) \/ WriteTimesOut(t) \/ WriteBreaks(t) \/ CallTimesOut(t)
         \/ Answered(t) \/ PartFails(t)
  PROVE  Honest'
<1>0. Tickets BY DEF Served
<1>t. py \in TableType /\ future \in [Calls -> FutureType] BY DEF Sound, ClientTyped
<1>1. CASE FrameFails(t) \/ WriteTimesOut(t) \/ WriteBreaks(t) \/ CallTimesOut(t)
  <2>1. /\ py' = Without(th[t].id) /\ UNCHANGED <<runtimeVars, future, reader>>
        /\ \E ok \in BOOLEAN : th' = Returns(t, ok)
    BY <1>1 DEF FrameFails, WriteTimesOut, WriteBreaks, CallTimesOut
  <2>2. py'.next = py.next /\ py'.closed = py.closed /\ py'.clean = py.clean
    BY <1>t, <2>1 DEF Without, TableType
  <2>3. PICK ok : ok \in BOOLEAN /\ th' = Returns(t, ok) BY <2>1
  <2>4. PICK r : r = Returns(t, ok) /\ th' = r BY <2>3
  <2> QED BY <1>0, <2>1, <2>2, <2>3, <2>4, ReturnsHonest
<1>2. CASE Answered(t)
  <2>1. PICK g \in Ids : g = th[t].id BY DEF Sound, ClientTyped, CallerType
  <2> DEFINE ok == future[g].ok
  <2>2. /\ th[t].pc = "wait" /\ py' = Noted(t, ok) /\ th' = Returns(t, ok)
        /\ future' = Dropped(g) /\ UNCHANGED <<runtimeVars, reader>>
    BY <1>2, <2>1 DEF Answered
  <2>3. g \in Calls
    <3>1. g # 0 BY <2>1, <2>2 DEF Sound, Asked, Asking
    <3> QED BY <3>1, ControlAssumption DEF Ids, Calls
  <2>4. ok \in BOOLEAN BY <1>t, <2>3 DEF FutureType
  <2>5. ok /\ th[t].stage = "close" => Confirmed
    <3> SUFFICES ASSUME ok, th[t].stage = "close" PROVE Confirmed OBVIOUS
    <3>1. Closes(t) BY <2>2 DEF Closes, Asking
    <3>2. OfClose(g) BY <2>1, <2>3, <3>1 DEF Honest, Truthful
    <3> QED BY <3>2 DEF OfClose
  <2> HIDE DEF ok
  <2>6. py'.next = py.next /\ py'.closed = py.closed /\ (py'.clean => py.clean \/ Confirmed)
    BY <1>t, <2>2, <2>4, <2>5 DEF Noted, Without, TableType
  <2>7. \A i \in Calls : future'[i].ok => future[i].ok BY <1>t, <2>2 DEF Dropped, Undone
  <2>8. PICK r : r = Returns(t, ok) /\ th' = r BY <2>2
  <2> QED BY <1>0, <2>2, <2>4, <2>6, <2>7, <2>8, ReturnsHonest
<1>3. CASE PartFails(t)
  <2>1. /\ future' = Completed(th[t].hands, 0, FALSE) /\ UNCHANGED <<runtimeVars, py, reader>>
        /\ \E ok \in BOOLEAN : th' = [Returns(t, ok) EXCEPT ![t].hands = {}]
    BY <1>3 DEF PartFails
  <2>2. \A i \in Calls : future'[i].ok => future[i].ok BY <2>1 DEF Completed
  <2>3. PICK ok, r : ok \in BOOLEAN /\ r = Returns(t, ok) /\ th' = [r EXCEPT ![t].hands = {}] BY <2>1
  <2>4. py'.next = py.next /\ py'.closed = py.closed /\ py'.clean = py.clean BY <2>1
  <2> QED BY <1>0, <2>1, <2>2, <2>3, <2>4, ReturnsHonest
<1> QED BY <1>1, <1>2, <1>3

(* The two calls of close().                                                  *)
LEMMA CloseCallsHonest ==
  ASSUME Sound, Sound', Served, Honest, NEW t \in Threads, CloseCalls(t)
  PROVE  Honest'
<1>1. th[t].pc = "close" /\ UNCHANGED <<runtimeVars, future, reader>> BY DEF CloseCalls
<1>2. th[t].stage \in {"stop", "close"} BY <1>1 DEF Sound, Room
<1>3. CASE \E op \in {"request_stop", "close"} :
              BeginCall(t, op, TRUE, th[t].stage) /\ (th[t].stage = "close" => op = "close")
  <2>1. PICK op \in Operations, g \in {"user", "stop", "close"}, b \in BOOLEAN :
           BeginCall(t, op, b, g) /\ (g = "close" => op = "close")
    BY <1>2, <1>3 DEF Operations, Jobs
  <2> QED BY <1>1, <2>1, BeginHonest
<1>4. CASE th' = Returns(t, FALSE) /\ UNCHANGED py
  <2>1. PICK ok, r : ok \in BOOLEAN /\ r = Returns(t, ok) /\ th' = r BY <1>4
  <2> QED BY <1>1, <1>4, <2>1, ReturnsHonest DEF Served
<1> QED BY <1>2, <1>3, <1>4 DEF CloseCalls

(* A frame has the number and the operation of its thread.                    *)
LEMMA WritesHonest ==
  ASSUME Sound, Sound', Served, Honest, NEW t \in Threads, Write(t) \/ WritePart(t) \/ WriteRest(t)
  PROVE  Honest'
<1>t. /\ th \in [Threads -> CallerType] /\ th[t] \in CallerType
      /\ stdin \in Seq(Message)
  BY DEF Sound, ClientTyped, RuntimeTyped
<1>1. /\ th[t].pc \in {"write", "half"} /\ UNCHANGED <<rt, stdout, py, future, reader>>
      /\ \/ th' = [th EXCEPT ![t] = [NoCall EXCEPT !.call = th[t].id]]
         \/ \E q \in {"wait", "half"} : th' = [th EXCEPT ![t].pc = q]
  BY DEF Write, WritePart, WriteRest, Written
<1>2. Asking(t) BY <1>1 DEF Asking
<1>3. \A u \in Threads \ {t} : th'[u] = th[u] BY <1>t, <1>1
<1>4. th[t].stage # "reaped" BY <1>1 DEF Sound, Room
<1>5. /\ Closes(t)' => Closes(t) /\ th'[t].id = th[t].id /\ th'[t].op = th[t].op
      /\ th'[t].pc # "reaped" /\ th'[t].stage # "reaped"
  <2>1. CASE th' = [th EXCEPT ![t] = [NoCall EXCEPT !.call = th[t].id]]
    <3>1. th'[t].stage = "user" /\ th'[t].pc = "idle" BY <1>t, <2>1 DEF NoCall
    <3> QED BY <3>1 DEF Closes
  <2>2. CASE \E q \in {"wait", "half"} : th' = [th EXCEPT ![t].pc = q]
    <3>1. /\ th'[t].stage = th[t].stage /\ th'[t].pc \in {"wait", "half"}
          /\ th'[t].id = th[t].id /\ th'[t].op = th[t].op
      BY <1>t, <2>2 DEF CallerType
    <3> QED BY <1>2, <1>4, <3>1 DEF Closes
  <2> QED BY <1>1, <2>1, <2>2
<1>6. \A k \in DOMAIN stdin' :
        \/ \E l \in DOMAIN stdin : stdin'[k].id = stdin[l].id /\ stdin'[k].op = stdin[l].op
        \/ Asking(t) /\ stdin'[k].id = th[t].id /\ stdin'[k].op = th[t].op
  <2>1. CASE Write(t) \/ WritePart(t)
    <3>1. PICK whole, e : whole \in BOOLEAN /\ e = Frame(t, whole) /\ stdin' = Append(stdin, e)
      BY <2>1 DEF Write, WritePart
    <3>2. e \in Message BY <1>2, <3>1, FrameTyped
    <3>3. e.id = th[t].id /\ e.op = th[t].op BY <3>1 DEF Frame
    <3>4. \A k \in DOMAIN stdin' : (k \in DOMAIN stdin /\ stdin'[k] = stdin[k]) \/ stdin'[k] = e
      BY <1>t, <3>1, <3>2, Appends
    <3> QED BY <1>2, <3>3, <3>4
  <2>2. CASE WriteRest(t)
    <3>1. stdin' = [stdin EXCEPT ![Len(stdin)].whole = TRUE] BY <2>2 DEF WriteRest
    <3> DEFINE n == Len(stdin)
    <3>2. n \in Nat /\ stdin \in [1..n -> Message] BY <1>t
    <3>3. \A m \in Message : LET f == [m EXCEPT !.whole = TRUE] IN f.id = m.id /\ f.op = m.op
      BY DEF Message
    <3>4. stdin' = [k \in 1..n |-> IF k = n THEN [stdin[k] EXCEPT !.whole = TRUE] ELSE stdin[k]]
      BY <3>1, <3>2
    <3> HIDE DEF n
    <3>5. \A k \in DOMAIN stdin' : k \in DOMAIN stdin /\ stdin'[k].id = stdin[k].id
                                   /\ stdin'[k].op = stdin[k].op
      BY <3>2, <3>3, <3>4
    <3> QED BY <3>5
  <2> QED BY <2>1, <2>2
<1>7. py'.closed => ~rt'.up BY <1>1 DEF Honest, Over
<1> QED BY <1>1, <1>3, <1>5, <1>6, <1>7, ThreadTells DEF Served

(* The steps of a thread that is not in a call.                                  *)
LEMMA RestHonest ==
  ASSUME Sound, Sound', Served, Honest, NEW t \in Threads,
         PartTimesOut(t) \/ Result(t) \/ ResultAnswered(t) \/ ResultTimesOut(t) \/ Reap(t)
           \/ Closed(t) \/ ClosedFails(t) \/ CloseBegins(t) \/ ReapFails(t)
  PROVE  Honest'
<1>t. /\ th \in [Threads -> CallerType] /\ th[t] \in CallerType /\ py \in TableType
      /\ rt \in RuntimeType /\ future \in [Calls -> FutureType]
  BY DEF Sound, ClientTyped, RuntimeTyped
<1>s. Before /\ Truthful /\ Over BY DEF Honest
<1>1. UNCHANGED <<stdout, reader>> /\ (rt' = rt \/ rt' = Gone) /\ (stdin' = stdin \/ stdin' = <<>>)
  BY DEF PartTimesOut, Result, ResultAnswered, ResultTimesOut, Reap, Closed, ClosedFails,
         CloseBegins, ReapFails, runtimeVars
<1>2. \A u \in Threads \ {t} : th'[u] = th[u]
  BY <1>t DEF PartTimesOut, Result, ResultAnswered, ResultTimesOut, Reap, Closed, ClosedFails,
         CloseBegins, ReapFails
<1>3. th'[t].pc \notin {"write", "half", "wait"}
  <2>1. CASE PartTimesOut(t) BY <1>t, <2>1 DEF PartTimesOut, CallerType
  <2>2. CASE Result(t) BY <1>t, <2>2 DEF Result, CallerType
  <2>3. CASE ResultAnswered(t) BY <1>t, <2>3 DEF ResultAnswered, NoCall
  <2>4. CASE ResultTimesOut(t) BY <1>t, <2>4 DEF ResultTimesOut, CallerType
  <2>5. CASE Reap(t) BY <1>t, <2>5 DEF Reap, CallerType
  <2>6. CASE Closed(t) BY <1>t, <2>6 DEF Closed, CallerType
  <2>7. CASE ClosedFails(t) BY <1>t, <2>7 DEF ClosedFails, CallerType
  <2>8. CASE CloseBegins(t) BY <1>t, <2>8 DEF CloseBegins, CallerType
  <2>9. CASE ReapFails(t) BY <1>t, <2>9 DEF ReapFails, CallerType
  <2> QED BY <2>1, <2>2, <2>3, <2>4, <2>5, <2>6, <2>7, <2>8, <2>9
<1>4. py'.next = py.next /\ py'.clean = py.clean
  BY <1>t DEF PartTimesOut, Result, ResultAnswered, ResultTimesOut, Reap, Closed, ClosedFails,
         CloseBegins, ReapFails, Without, Failing, TableType
<1>5. \A i \in Calls : future'[i].ok => future[i].ok
  <2>1. CASE UNCHANGED future BY <2>1
  <2>2. CASE ResultAnswered(t) BY <1>t, <2>2 DEF ResultAnswered, Dropped, Undone
  <2>3. CASE ClosedFails(t) BY <2>3 DEF ClosedFails, Completed
  <2> QED BY <2>1, <2>2, <2>3
    DEF PartTimesOut, Result, ResultTimesOut, Reap, Closed, CloseBegins, ReapFails
<1>6. \A k \in DOMAIN stdin' : \E l \in DOMAIN stdin : stdin'[k] = stdin[l]
  <2>1. DOMAIN (<<>>) = {} OBVIOUS
  <2> QED BY <1>1, <2>1
<1>7. ~Closes(t)' BY <1>3 DEF Closes, Asking
<1>8. py'.closed \/ th'[t].pc = "reaped" \/ th'[t].stage = "reaped" => ~rt'.up
  <2>1. CASE Reap(t) BY <1>t, <2>1 DEF Reap, Gone, RuntimeType
  <2>2. CASE Closed(t)
    <3>1. ~rt.up /\ rt' = rt BY <1>s, <2>2 DEF Over, Closed, runtimeVars
    <3> QED BY <3>1
  <2>3. CASE PartTimesOut(t) \/ Result(t) \/ ResultAnswered(t) \/ ResultTimesOut(t)
             \/ ClosedFails(t) \/ CloseBegins(t) \/ ReapFails(t)
    <3>1. rt' = rt /\ py'.closed = py.closed
      BY <1>t, <2>3 DEF PartTimesOut, Result, ResultAnswered, ResultTimesOut, ClosedFails,
         CloseBegins, ReapFails, Without, Failing, TableType, runtimeVars
    <3>2. th'[t].pc # "reaped" /\ (th'[t].stage = "reaped" => th[t].stage = "reaped")
      <4>1. CASE PartTimesOut(t) BY <1>t, <4>1 DEF PartTimesOut, CallerType
      <4>2. CASE Result(t) BY <1>t, <4>2 DEF Result, CallerType
      <4>3. CASE ResultAnswered(t) BY <1>t, <4>3 DEF ResultAnswered, NoCall
      <4>4. CASE ResultTimesOut(t) BY <1>t, <4>4 DEF ResultTimesOut, CallerType
      <4>5. CASE ClosedFails(t) BY <1>t, <4>5 DEF ClosedFails, CallerType
      <4>6. CASE CloseBegins(t)
        <5>1. PICK g \in {"stop", "close"} : th' = [th EXCEPT ![t].pc = "close", ![t].stage = g]
          BY <4>6 DEF CloseBegins
        <5> QED BY <1>t, <5>1 DEF CallerType
      <4>7. CASE ReapFails(t) BY <1>t, <4>7 DEF ReapFails, CallerType
      <4> QED BY <2>3, <4>1, <4>2, <4>3, <4>4, <4>5, <4>6, <4>7
    <3> QED BY <1>s, <3>1, <3>2 DEF Over
  <2> QED BY <2>1, <2>2, <2>3
<1> QED BY <1>1, <1>2, <1>4, <1>5, <1>6, <1>7, <1>8, ThreadTells DEF Served

-----------------------------------------------------------------------------
(* At first nothing is confirmed.                                             *)
LEMMA HonestInit == Init => Honest
<1> SUFFICES ASSUME Init PROVE Honest OBVIOUS
<1>0. DOMAIN (<<>>) = {} OBVIOUS
<1>1. Before BY <1>0 DEF Init, RuntimeInit, Before, Undone, NoResponse
<1>2. Truthful BY DEF Init, Truthful, Closes, Asking, NoCall
<1>3. Over BY DEF Init, Over, NoCall
<1> QED BY <1>1, <1>2, <1>3 DEF Honest

(* Every step is honest.                                                      *)
LEMMA HonestStep == Sound /\ Sound' /\ Served /\ Honest /\ [Next]_vars => Honest'
<1> SUFFICES ASSUME Sound, Sound', Served, Honest, [Next]_vars PROVE Honest' OBVIOUS
<1>1. CASE RuntimeStep /\ UNCHANGED clientVars BY <1>1, RuntimeHonest
<1>2. CASE Reader BY <1>2, ReaderHonest
<1>3. ASSUME NEW t \in Threads, Goes(t) \/ Chooses(t) PROVE Honest'
  <2>1. CASE Call(t) \/ Mutate(t) \/ CancelCall(t) BY <2>1, CallHonest
  <2>2. CASE \/ FrameFails(t) \/ WriteTimesOut(t) \/ WriteBreaks(t) \/ CallTimesOut(t)
             \/ Answered(t) \/ PartFails(t)
    BY <2>2, EndsHonest
  <2>3. CASE Write(t) \/ WritePart(t) \/ WriteRest(t) BY <2>3, WritesHonest
  <2>4. CASE CloseCalls(t) BY <2>4, CloseCallsHonest
  <2>5. CASE PartTimesOut(t) \/ Result(t) \/ ResultAnswered(t) \/ ResultTimesOut(t) \/ Reap(t)
             \/ Closed(t) \/ ClosedFails(t) \/ CloseBegins(t) \/ ReapFails(t)
    BY <2>5, RestHonest
  <2> QED BY <1>3, <2>1, <2>2, <2>3, <2>4, <2>5 DEF Goes, Chooses
<1>4. CASE UNCHANGED vars
  <2>1. UNCHANGED <<rt, stdin, stdout, py, future, th, reader>> BY <1>4 DEF vars, runtimeVars, clientVars
  <2> QED BY <2>1 DEF Honest, Before, Truthful, OfClose, Closes, Asking, Over, Confirmed, Running
<1> QED BY <1>1, <1>2, <1>3, <1>4 DEF Next

(* A close that is over leaves no process, and one that was confirmed left no    *)
(* campaign and no mutation behind: the confirmation cannot be the answer to     *)
(* another request (close of client.py, cancel_jobs and await_jobs of            *)
(* efz_control.erl).                                                             *)
THEOREM CloseIsClean == Spec => []CleanClose
<1>1. Honest => CleanClose BY DEF Honest, Over, Confirmed, CleanClose
<1> QED BY <1>1, SoundInit, SoundStep, ServedInit, ServedStep, HonestInit, HonestStep, PTL DEF Spec

-----------------------------------------------------------------------------
(* Who holds the write lock.                                                     *)
Holds(t) == th[t].pc = "half" \/ (th[t].pc = "failing" /\ th[t].stage # "reaped")
Locked == lock \in Threads \cup {NoThread} /\ \A t \in Threads : (lock = t) <=> Holds(t)

(* The lock is taken and given back by its holder.                            *)
LEMMA LockStep == Sound /\ Locked /\ [Next]_vars => Locked'
<1> SUFFICES ASSUME Sound, Locked, [Next]_vars PROVE Locked' OBVIOUS
<1>t. /\ th \in [Threads -> CallerType] /\ \A t \in Threads : th[t] \in CallerType
      /\ NoThread \notin Threads
  BY ClientAssumption DEF Sound, ClientTyped
<1>1. CASE UNCHANGED <<lock, th>> BY <1>1 DEF Locked, Holds
<1>2. ASSUME NEW t \in Threads, Goes(t) \/ Chooses(t) PROVE Locked'
  <2>a. ASSUME NEW r, NEW ok \in BOOLEAN, r = Returns(t, ok),
               th' = r \/ th' = [r EXCEPT ![t].hands = {}]
        PROVE  ~Holds(t)' /\ \A u \in Threads \ {t} : th'[u] = th[u]
    <3>1. /\ r \in [Threads -> CallerType] /\ r[t].pc \in {"idle", "reap", "close"}
          /\ \A u \in Threads \ {t} : r[u] = th[u]
      BY <2>a, ReturnsLeaves DEF Sound
    <3>2. CASE th' = r BY <3>1, <3>2 DEF Holds
    <3>3. CASE th' = [r EXCEPT ![t].hands = {}] BY <3>1, <3>3 DEF Holds, CallerType
    <3> QED BY <2>a, <3>2, <3>3
  <2>b. ASSUME \A u \in Threads \ {t} : th'[u] = th[u],
               \/ lock' = lock /\ (Holds(t)' <=> Holds(t))
               \/ lock' = t /\ Holds(t)' /\ lock = NoThread
               \/ lock' = NoThread /\ ~Holds(t)' /\ (Holds(t) \/ lock = NoThread)
        PROVE  Locked'
    <3>1. \A u \in Threads \ {t} : Holds(u)' <=> Holds(u) BY <2>b DEF Holds
    <3>2. \A u \in Threads : (lock = u) <=> Holds(u) BY DEF Locked
    <3>3. CASE lock' = lock /\ (Holds(t)' <=> Holds(t)) BY <3>1, <3>2, <3>3 DEF Locked
    <3>4. CASE lock' = t /\ Holds(t)' /\ lock = NoThread BY <1>t, <3>1, <3>2, <3>4 DEF Locked
    <3>5. CASE lock' = NoThread /\ ~Holds(t)' /\ (Holds(t) \/ lock = NoThread)
      BY <1>t, <3>1, <3>2, <3>5 DEF Locked
    <3> QED BY <2>b, <3>3, <3>4, <3>5
  <2>1. CASE \/ FrameFails(t) \/ WriteTimesOut(t) \/ CallTimesOut(t) \/ Answered(t)
             \/ (CloseCalls(t) /\ th' = Returns(t, FALSE))
    <3>1. PICK ok, r : ok \in BOOLEAN /\ r = Returns(t, ok) /\ th' = r
      <4>1. CASE Answered(t)
        <5>1. th[t].id \in Ids /\ th[t].id # 0 BY <4>1 DEF Answered, Sound, Asked, Asking, ClientTyped, CallerType
        <5>2. th[t].id \in Calls BY <5>1, ControlAssumption DEF Ids, Calls
        <5>3. future[th[t].id].ok \in BOOLEAN BY <5>2 DEF Sound, ClientTyped, FutureType
        <5> QED BY <4>1, <5>3 DEF Answered
      <4> QED BY <2>1, <4>1 DEF FrameFails, WriteTimesOut, CallTimesOut
    <3>2. lock' = lock /\ ~Holds(t)
      BY <2>1 DEF FrameFails, WriteTimesOut, CallTimesOut, Answered, CloseCalls, Holds
    <3>3. ~Holds(t)' /\ \A u \in Threads \ {t} : th'[u] = th[u] BY <2>a, <3>1
    <3> QED BY <2>b, <3>2, <3>3
  <2>2. CASE WriteBreaks(t) \/ PartFails(t)
    <3>1. PICK ok, r : ok \in BOOLEAN /\ r = Returns(t, ok) /\ (th' = r \/ th' = [r EXCEPT ![t].hands = {}])
      BY <2>2 DEF WriteBreaks, PartFails
    <3>2. lock' = NoThread /\ (Holds(t) \/ lock = NoThread)
      BY <2>2 DEF WriteBreaks, PartFails, Holds
    <3>3. ~Holds(t)' /\ \A u \in Threads \ {t} : th'[u] = th[u] BY <2>a, <3>1
    <3> QED BY <2>b, <3>2, <3>3
  <2>3. CASE \E op \in Operations, b \in BOOLEAN : \E g : BeginCall(t, op, b, g) /\ ~Holds(t) /\ lock' = lock
    <3>1. (\A u \in Threads \ {t} : th'[u] = th[u]) /\ th'[t].pc = "write"
      BY <1>t, <2>3 DEF BeginCall, CallerType
    <3>2. ~Holds(t)' BY <3>1 DEF Holds
    <3> QED BY <2>3, <2>b, <3>1, <3>2
  <2>4. CASE Call(t) \/ Mutate(t) \/ CancelCall(t)
             \/ (CloseCalls(t) /\ \E op \in Operations : BeginCall(t, op, TRUE, th[t].stage))
    <3>1. ~Holds(t) /\ lock' = lock
      BY <2>4 DEF Call, Mutate, CancelCall, CloseCalls, Holds
    <3>2. \E op \in Operations, b \in BOOLEAN : \E g : BeginCall(t, op, b, g)
      BY <2>4 DEF Call, Mutate, CancelCall, Operations, Jobs
    <3> QED BY <2>3, <3>1, <3>2
  <2>5. CASE Write(t) \/ WriteRest(t)
    <3>1. Written(t) /\ lock' = NoThread /\ (Holds(t) \/ lock = NoThread)
      BY <2>5 DEF Write, WriteRest, Holds
    <3>2. (\A u \in Threads \ {t} : th'[u] = th[u]) /\ th'[t].pc \in {"idle", "wait"}
      BY <1>t, <3>1 DEF Written, NoCall, CallerType
    <3>3. ~Holds(t)' BY <3>2 DEF Holds
    <3> QED BY <2>b, <3>1, <3>2, <3>3
  <2>6. CASE WritePart(t)
    <3>1. (\A u \in Threads \ {t} : th'[u] = th[u]) /\ th'[t].pc = "half"
      BY <1>t, <2>6 DEF WritePart, CallerType
    <3>2. lock' = t /\ lock = NoThread /\ Holds(t)' BY <2>6, <3>1 DEF WritePart, Holds
    <3> QED BY <2>b, <3>1, <3>2
  <2>7. CASE PartTimesOut(t)
    <3>1. /\ \A u \in Threads \ {t} : th'[u] = th[u]
          /\ th'[t].pc = "failing" /\ th'[t].stage = th[t].stage
      BY <1>t, <2>7 DEF PartTimesOut, CallerType
    <3>2. th[t].stage # "reaped" BY <2>7 DEF PartTimesOut, Sound, Room
    <3>3. lock' = lock /\ Holds(t)' /\ Holds(t) BY <2>7, <3>1, <3>2 DEF PartTimesOut, Holds
    <3> QED BY <2>b, <3>1, <3>3
  <2>8. CASE Result(t) \/ ResultAnswered(t) \/ ResultTimesOut(t) \/ Reap(t)
             \/ Closed(t) \/ ClosedFails(t) \/ CloseBegins(t) \/ ReapFails(t)
    <3>1. \A u \in Threads \ {t} : th'[u] = th[u]
      BY <1>t, <2>8 DEF Result, ResultAnswered, ResultTimesOut, Reap, Closed, ClosedFails, CloseBegins, ReapFails
    <3>2. ~Holds(t)'
      <4>1. CASE Result(t) BY <1>t, <4>1 DEF Result, CallerType, Holds
      <4>2. CASE ResultAnswered(t) BY <1>t, <4>2 DEF ResultAnswered, NoCall, Holds
      <4>3. CASE ResultTimesOut(t) BY <1>t, <4>3 DEF ResultTimesOut, CallerType, Holds
      <4>4. CASE Reap(t) BY <1>t, <4>4 DEF Reap, CallerType, Holds
      <4>5. CASE Closed(t) BY <1>t, <4>5 DEF Closed, CallerType, Holds
      <4>6. CASE ClosedFails(t) BY <1>t, <4>6 DEF ClosedFails, CallerType, Holds
      <4>7. CASE CloseBegins(t) BY <1>t, <4>7 DEF CloseBegins, CallerType, Holds
      <4>8. CASE ReapFails(t) BY <1>t, <4>8 DEF ReapFails, CallerType, Holds
      <4> QED BY <2>8, <4>1, <4>2, <4>3, <4>4, <4>5, <4>6, <4>7, <4>8
    <3>3. lock' = lock /\ ~Holds(t)
      BY <2>8 DEF Result, ResultAnswered, ResultTimesOut, Reap, Closed, ClosedFails, CloseBegins, ReapFails, Holds
    <3> QED BY <2>b, <3>1, <3>2, <3>3
  <2>9. CloseCalls(t) => \/ th' = Returns(t, FALSE)
                         \/ \E op \in Operations : BeginCall(t, op, TRUE, th[t].stage)
    BY DEF CloseCalls, Operations, Jobs
  <2> QED BY <1>2, <2>1, <2>2, <2>4, <2>5, <2>6, <2>7, <2>8, <2>9 DEF Goes, Chooses
<1>3. UNCHANGED <<lock, th>> \/ \E t \in Threads : Goes(t) \/ Chooses(t)
  BY DEF Next, vars, clientVars, Reader, ReaderTakes, ReaderAnswers, ReaderLoses, ReaderEof, ReaderFails
<1> QED BY <1>1, <1>2, <1>3

(* Types, and the lock: it is held by who has written a part of a frame, and by  *)
(* who fails the pending calls for it (_write_message of client.py).             *)
THEOREM ClientTypes == Spec => []TypeOK
<1>1. Init => Locked BY ClientAssumption DEF Init, Locked, Holds, NoCall
<1>2. Sound /\ Served /\ Locked => TypeOK
  <2> SUFFICES ASSUME Sound, Served, Locked PROVE TypeOK OBVIOUS
  <2>1. py \in TableType /\ \A i \in py.pending : i < py.next
    BY DEF Sound, ClientTyped, Served, Tickets
  <2>2. py.pending \subseteq 1..(py.next - 1) BY <2>1, ControlAssumption DEF TableType, Calls
  <2> QED BY <2>1, <2>2 DEF Sound, RuntimeTyped, RuntimeType, TableType, Locked, Holds, TypeOK
<1> QED BY <1>1, <1>2, SoundInit, SoundStep, ServedInit, ServedStep, LockStep, PTL DEF Spec
=============================================================================
