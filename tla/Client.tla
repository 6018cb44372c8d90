-------------------------------- MODULE Client --------------------------------
(* The Python client (pyefz.client.Client): threads that share one runtime.    *)
(* A call registers a future under the lock, writes its frame under the write  *)
(* lock, and waits; one reader thread takes the responses apart. A failure     *)
(* ends every call that is pending. close() stops, closes and reaps.           *)
(*                                                                             *)
(* A step is what one thread does between two points where another may see it: *)
(* a region under a lock, one write, the completion of the futures in hand.    *)
EXTENDS Control

CONSTANTS Threads, NoThread

ASSUME ClientAssumption == NoThread \notin Threads /\ MaxCall > 2

VARIABLES
    py,         \* what the threads share under the lock
    future,     \* of each request: done or not, by which response, ok or not
    lock,       \* the thread that writes
    th,         \* the threads of the user
    reader      \* the thread that reads

clientVars == <<py, future, lock, th, reader>>
vars == <<runtimeVars, clientVars>>

\* The requests the user makes; two more are left for close().
UserCalls == 1..(MaxCall - 2)

NoCall == [pc |-> "idle", op |-> "none", id |-> 0, bounded |-> TRUE, stage |-> "user",
           call |-> 0, forgot |-> FALSE, hands |-> {}]

NoResponse == [id |-> 0, ok |-> FALSE, sound |-> TRUE]

Undone == [done |-> FALSE, from |-> 0, ok |-> FALSE]

\* __init__
Init ==
    /\ RuntimeInit
    /\ py = [next |-> 1, pending |-> {}, failure |-> FALSE, closing |-> FALSE,
             closed |-> FALSE, started |-> FALSE, clean |-> FALSE, unreaped |-> FALSE]
    /\ future = [i \in Calls |-> Undone]
    /\ lock = NoThread
    /\ th = [t \in Threads |-> NoCall]
    /\ reader = [pc |-> "reading", hands |-> {}, response |-> NoResponse]

-----------------------------------------------------------------------------
(* The table of pending calls *)

\* Mutant: a failure is noticed by the calls that are pending only.
AdmitsAfterFailure(op) ==
    /\ ~py.closed /\ (py.closing => op \in {"request_stop", "close"})
    /\ Cardinality(py.pending) < Slots

\* The checks of _begin_call
Admits(op) ==
    /\ ~py.closed /\ (py.closing => op \in {"request_stop", "close"})
    /\ ~py.failure
    /\ Cardinality(py.pending) < Slots

\* _begin_call, up to the write.
BeginCall(t, op, bounded, stage) ==
    /\ Admits(op)
    /\ py' = [py EXCEPT !.next = @ + 1, !.pending = @ \cup {py.next}]
    /\ th' = [th EXCEPT ![t].pc = "write", ![t].op = op, ![t].id = py.next,
                        ![t].bounded = bounded, ![t].stage = stage]

Without(i) == [py EXCEPT !.pending = @ \ {i}]

\* _fail_pending under the lock; the futures are completed outside of it.
Failing == [py EXCEPT !.failure = TRUE, !.pending = {}]

\* set_result or set_exception of the futures in hand
Completed(hands, from, ok) ==
    [i \in Calls |-> IF i \in hands /\ ~future[i].done
                     THEN [done |-> TRUE, from |-> from, ok |-> ok] ELSE future[i]]

\* A future whose answer was taken is garbage.
Dropped(i) == [future EXCEPT ![i] = Undone]

-----------------------------------------------------------------------------
(* The reader: _read_responses *)

\* Mutant: answers are expected in the order of the requests.
ReaderTakesInOrder ==
    /\ reader.pc = "reading" /\ stdout # <<>> /\ Head(stdout).id # 0
    /\ stdout' = Tail(stdout)
    /\ LET r == Head(stdout)
           mine == {i \in py.pending : \A j \in py.pending : i <= j} IN
       /\ py' = [py EXCEPT !.pending = @ \ mine]
       /\ reader' = IF mine = {} THEN reader
                    ELSE [pc |-> "popped", hands |-> mine, response |-> r]
    /\ UNCHANGED <<rt, stdin, faults, future, lock, th>>

\* read_frame, and the envelope: a frame that ends too early, a number that was
\* never asked for or none is a protocol error.
Malformed(r) == r.id \notin 1..(py.next - 1)

\* A response is taken from the pipe, and its future from the table. A call that
\* timed out is no longer pending: its late answer is dropped.
ReaderTakes ==
    /\ reader.pc = "reading" /\ stdout # <<>>
    /\ stdout' = Tail(stdout)
    /\ LET r == Head(stdout)
           mine == {r.id} \cap py.pending IN
       IF Malformed(r)
       THEN py' = Failing /\ reader' = [reader EXCEPT !.pc = "failing", !.hands = py.pending]
       ELSE /\ py' = Without(r.id)
            /\ reader' = IF mine = {} THEN reader
                         ELSE [pc |-> "popped", hands |-> mine, response |-> r]
    /\ UNCHANGED <<rt, stdin, faults, future, lock, th>>

\* The future in hand is completed.
ReaderAnswers ==
    /\ reader.pc = "popped" /\ reader.response.sound
    /\ future' = Completed(reader.hands, reader.response.id, reader.response.ok)
    /\ reader' = [reader EXCEPT !.pc = "reading", !.hands = {}, !.response = NoResponse]
    /\ UNCHANGED <<runtimeVars, py, lock, th>>

\* remote_error raises: all that is in the table fails, and the future in hand,
\* which is not there any more, is lost.
ReaderLoses ==
    /\ reader.pc = "popped" /\ ~reader.response.sound
    /\ py' = Failing
    /\ reader' = [reader EXCEPT !.pc = "failing", !.hands = py.pending]
    /\ UNCHANGED <<runtimeVars, future, lock, th>>

ReaderEof ==
    /\ reader.pc = "reading" /\ ~rt.up /\ stdout = <<>>
    /\ py' = Failing
    /\ reader' = [reader EXCEPT !.pc = "failing", !.hands = py.pending]
    /\ UNCHANGED <<runtimeVars, future, lock, th>>

ReaderFails ==
    /\ reader.pc = "failing"
    /\ future' = Completed(reader.hands, 0, FALSE)
    /\ reader' = [reader EXCEPT !.pc = "ended", !.hands = {}]
    /\ UNCHANGED <<runtimeVars, py, lock, th>>

Reader == ReaderTakes \/ ReaderAnswers \/ ReaderLoses \/ ReaderEof \/ ReaderFails

-----------------------------------------------------------------------------
(* A call: _begin_call, _write_message, _call *)

\* A call is over, with an answer or an error. A step of close() that fails goes
\* on with the end of the process; one that succeeds with the next step.
Returns(t, ok) ==
    LET next == CASE th[t].stage = "user" -> "idle"
                  [] th[t].stage # "user" /\ (~ok \/ th[t].stage = "close") -> "reap"
                  [] OTHER -> "close"
    IN  [th EXCEPT ![t].id = 0, ![t].op = "none", ![t].bounded = TRUE, ![t].pc = next,
                   ![t].stage = IF th[t].stage = "user" THEN "user" ELSE "close"]

\* What a call has been for, once it is answered.
Noted(t, ok) ==
    [Without(th[t].id) EXCEPT
        !.started = @ \/ (ok /\ th[t].op = "start"),
        !.clean = @ \/ (ok /\ th[t].stage = "close")]

\* start, request_stop, await_result by a thread of the user. A call that is not
\* admitted raises, and nothing is left of it.
Call(t) ==
    /\ th[t].pc = "idle" /\ py.next \in UserCalls
    /\ \E op \in {"start", "request_stop", "await_result"}, bounded \in BOOLEAN :
          /\ op # "await_result" => bounded
          /\ op = "start" => ~py.started
          /\ BeginCall(t, op, bounded, "user")
    /\ UNCHANGED <<runtimeVars, future, lock, reader>>

\* mutate_async, mutate_batch_async: a handle is what the thread keeps. Bound:
\* one handle for a thread.
Mutate(t) ==
    /\ th[t].pc = "idle" /\ py.next \in UserCalls /\ th[t].call = 0
    /\ \E bounded \in BOOLEAN : BeginCall(t, "mutate", bounded, "user")
    /\ UNCHANGED <<runtimeVars, future, lock, reader>>

\* MutationCall.cancel
CancelCall(t) ==
    /\ th[t].pc = "idle" /\ py.next \in UserCalls
    /\ th[t].call # 0 /\ ~future[th[t].call].done
    /\ BeginCall(t, "cancel", TRUE, "user")
    /\ UNCHANGED <<runtimeVars, future, lock, reader>>

Frame(t, whole) == [id |-> th[t].id, op |-> th[t].op, whole |-> whole]

\* What the user passed cannot be a frame (its size, its depth); by then the call
\* is registered.
FrameFails(t) ==
    /\ th[t].pc = "write" /\ th[t].op \in {"start", "mutate"}
    /\ py' = Without(th[t].id) /\ th' = Returns(t, FALSE)
    /\ UNCHANGED <<runtimeVars, future, lock, reader>>

\* The request is written. A mutation is left to its handle.
Written(t) ==
    th' = IF th[t].op = "mutate"
          THEN [th EXCEPT ![t] = [NoCall EXCEPT !.call = th[t].id]]
          ELSE [th EXCEPT ![t].pc = "wait"]

\* The whole frame, under the write lock.
Write(t) ==
    /\ th[t].pc = "write" /\ lock = NoThread /\ rt.up
    /\ stdin' = Append(stdin, Frame(t, TRUE))
    /\ Written(t)
    /\ UNCHANGED <<rt, stdout, faults, py, future, lock, reader>>

\* The pipe takes a part of the frame; the lock is kept.
WritePart(t) ==
    /\ "slow_pipe" \in faults
    /\ th[t].pc = "write" /\ lock = NoThread /\ rt.up
    /\ stdin' = Append(stdin, Frame(t, FALSE))
    /\ lock' = t /\ th' = [th EXCEPT ![t].pc = "half"]
    /\ UNCHANGED <<rt, stdout, faults, py, future, reader>>

WriteRest(t) ==
    /\ th[t].pc = "half" /\ rt.up
    /\ stdin' = [stdin EXCEPT ![Len(stdin)].whole = TRUE]
    /\ lock' = NoThread /\ Written(t)
    /\ UNCHANGED <<rt, stdout, faults, py, future, reader>>

\* Mutant: the lock is waited for without the deadline.
WriteTimesOutLate(t) ==
    /\ th[t].pc = "write" /\ th[t].bounded /\ lock = NoThread
    /\ py' = Without(th[t].id) /\ th' = Returns(t, FALSE)
    /\ UNCHANGED <<runtimeVars, future, lock, reader>>

\* The deadline, before a byte is written or while another thread writes.
WriteTimesOut(t) ==
    /\ th[t].pc = "write" /\ th[t].bounded
    /\ py' = Without(th[t].id) /\ th' = Returns(t, FALSE)
    /\ UNCHANGED <<runtimeVars, future, lock, reader>>

\* The deadline within a frame: nothing more can be written to this runtime, and
\* every pending call fails while the lock is held.
PartTimesOut(t) ==
    /\ th[t].pc = "half" /\ th[t].bounded
    /\ py' = Failing
    /\ th' = [th EXCEPT ![t].pc = "failing", ![t].hands = py.pending]
    /\ UNCHANGED <<runtimeVars, future, lock, reader>>

PartFails(t) ==
    /\ th[t].pc = "failing" /\ th[t].stage # "reaped"
    /\ future' = Completed(th[t].hands, 0, FALSE)
    /\ lock' = NoThread
    /\ th' = [Returns(t, FALSE) EXCEPT ![t].hands = {}]
    /\ UNCHANGED <<runtimeVars, py, reader>>

\* BrokenPipeError
WriteBreaks(t) ==
    /\ th[t].pc = "half" \/ (th[t].pc = "write" /\ lock = NoThread)
    /\ ~rt.up
    /\ lock' = NoThread
    /\ py' = Without(th[t].id) /\ th' = Returns(t, FALSE)
    /\ UNCHANGED <<runtimeVars, future, reader>>

\* future.result() of _call: the answer, an error, or the deadline. _forget.
Answered(t) ==
    /\ th[t].pc = "wait" /\ future[th[t].id].done
    /\ LET ok == future[th[t].id].ok IN py' = Noted(t, ok) /\ th' = Returns(t, ok)
    /\ future' = Dropped(th[t].id)
    /\ UNCHANGED <<runtimeVars, lock, reader>>

CallTimesOut(t) ==
    /\ th[t].pc = "wait" /\ th[t].bounded /\ ~future[th[t].id].done
    /\ py' = Without(th[t].id) /\ th' = Returns(t, FALSE)
    /\ UNCHANGED <<runtimeVars, future, lock, reader>>

\* MutationCall.result
Result(t) ==
    /\ th[t].pc = "idle" /\ th[t].call # 0
    /\ \E bounded \in BOOLEAN :
          th' = [th EXCEPT ![t].pc = "result", ![t].bounded = bounded]
    /\ UNCHANGED <<runtimeVars, py, future, lock, reader>>

ResultAnswered(t) ==
    /\ th[t].pc = "result" /\ future[th[t].call].done
    /\ py' = Without(th[t].call) /\ th' = [th EXCEPT ![t] = NoCall]
    /\ future' = Dropped(th[t].call)
    /\ UNCHANGED <<runtimeVars, lock, reader>>

\* Its deadline: the call is forgotten, the handle is still there.
ResultTimesOut(t) ==
    /\ th[t].pc = "result" /\ th[t].bounded /\ ~future[th[t].call].done
    /\ py' = Without(th[t].call)
    /\ th' = [th EXCEPT ![t].pc = "idle", ![t].forgot = TRUE]
    /\ UNCHANGED <<runtimeVars, future, lock, reader>>

-----------------------------------------------------------------------------
(* close(), under a lock of its own *)

\* A close() that could not reap the process may be called again. Bound: while
\* there are numbers for its two requests.
CloseBegins(t) ==
    /\ th[t].pc = "idle" /\ ~py.closed /\ py.next < MaxCall
    /\ \A u \in Threads : th[u].stage = "user"
    /\ py' = [py EXCEPT !.closing = TRUE, !.unreaped = FALSE]
    /\ th' = [th EXCEPT ![t].pc = "close", ![t].stage = IF py.started THEN "stop" ELSE "close"]
    /\ UNCHANGED <<runtimeVars, future, lock, reader>>

\* The request_stop and the close of close(); one that is refused ends the process.
CloseCalls(t) ==
    LET op == IF th[t].stage = "stop" THEN "request_stop" ELSE "close" IN
    /\ th[t].pc = "close"
    /\ IF Admits(op) THEN BeginCall(t, op, TRUE, th[t].stage)
       ELSE th' = Returns(t, FALSE) /\ UNCHANGED py
    /\ UNCHANGED <<runtimeVars, future, lock, reader>>

\* _reap: the process is waited for, then told to end, then killed.
Reap(t) ==
    /\ th[t].pc = "reap"
    /\ rt' = Gone /\ stdin' = <<>>
    /\ th' = [th EXCEPT ![t].pc = "reaped"]
    /\ UNCHANGED <<stdout, faults, py, future, lock, reader>>

\* The process outlives SIGKILL by two seconds: TimeoutExpired leaves close(), and
\* nothing of what comes after _reap is done.
ReapFails(t) ==
    /\ "unkillable" \in faults /\ th[t].pc = "reap" /\ rt.up
    /\ py' = [py EXCEPT !.unreaped = TRUE]
    /\ th' = [th EXCEPT ![t].pc = "idle", ![t].stage = "user"]
    /\ UNCHANGED <<runtimeVars, future, lock, reader>>

Closed(t) ==
    /\ th[t].pc = "reaped"
    /\ py' = [Failing EXCEPT !.closed = TRUE]
    /\ th' = [th EXCEPT ![t].pc = "failing", ![t].stage = "reaped", ![t].hands = py.pending]
    /\ UNCHANGED <<runtimeVars, future, lock, reader>>

ClosedFails(t) ==
    /\ th[t].pc = "failing" /\ th[t].stage = "reaped"
    /\ future' = Completed(th[t].hands, 0, FALSE)
    /\ th' = [th EXCEPT ![t].pc = "idle", ![t].stage = "user", ![t].hands = {}]
    /\ UNCHANGED <<runtimeVars, py, lock, reader>>

-----------------------------------------------------------------------------
\* What a thread does by itself once it is in a call, and what it may choose.
Goes(t) ==
    \/ Write(t) \/ WriteTimesOut(t) \/ PartFails(t) \/ WriteBreaks(t)
    \/ PartTimesOut(t) \/ Answered(t) \/ CallTimesOut(t) \/ ResultAnswered(t) \/ ResultTimesOut(t)
    \/ CloseCalls(t) \/ Reap(t) \/ Closed(t) \/ ClosedFails(t)

Chooses(t) ==
    \/ Call(t) \/ Mutate(t) \/ FrameFails(t) \/ CancelCall(t) \/ Result(t)
    \/ CloseBegins(t) \/ ReapFails(t) \/ WritePart(t) \/ WriteRest(t)

Next ==
    \/ RuntimeStep /\ UNCHANGED clientVars
    \/ Reader
    \/ \E t \in Threads : Goes(t) \/ Chooses(t)

Spec == Init /\ [][Next]_vars

\* The threads of the client and its reader are scheduled, and time passes. Of
\* the runtime nothing is assumed.
FairSpec == Spec /\ WF_vars(Reader) /\ \A t \in Threads : WF_vars(Goes(t))

-----------------------------------------------------------------------------
TypeOK ==
    /\ rt \in [up : BOOLEAN, campaign : {"none", "running", "stopping", "over"},
               jobs : SUBSET [id : Calls, op : Jobs],
               closing : BOOLEAN, busy : BOOLEAN]
    /\ stdin \in Seq(Message) /\ stdout \in Seq(Response)
    /\ py.next \in 1..(MaxCall + 1) /\ py.pending \subseteq 1..(py.next - 1)
    /\ lock \in Threads \cup {NoThread}
    /\ \A t \in Threads : (lock = t) = (th[t].pc = "half"
                               \/ (th[t].pc = "failing" /\ th[t].stage # "reaped"))

\* The futures that some thread has taken from the table and will complete.
InHand == reader.hands \cup UNION {th[t].hands : t \in Threads}

\* The future that was in hand when an error could not be read: the runtime is not
\* EFZ's, and whoever waits for it without a bound waits for ever.
Lost == IF reader.response.sound THEN {} ELSE {reader.response.id}

\* Nobody is stranded. A call is registered, written and waited for by one
\* thread while the reader, a writer that gives up in the middle of a frame or
\* close() may fail them all: whoever waits for an answer and has not given it
\* up has it, or it is in the table for the reader to find, or in the hands of
\* a thread that completes it. After the failure the table stays empty. The one
\* exception is a call whose error no client can read.
NobodyStranded ==
    /\ py.failure => py.pending = {}
    /\ \A t \in Threads :
          \A i \in Calls :
             (\/ th[t].pc = "wait" /\ i = th[t].id
              \/ th[t].call = i /\ ~th[t].forgot)
             => future[i].done \/ i \in py.pending \cup InHand \cup Lost

\* A future is completed by the response to its own request or by a failure,
\* though responses come in any order, after their caller has given up, and
\* after a request of the same thread that nobody waits for any more.
AnswersAreOwn ==
    \A i \in Calls : future[i].done => future[i].from \in {0, i} /\ (future[i].from = 0 => ~future[i].ok)

\* When close() is over the process is gone. When the runtime has confirmed the
\* close, the campaign had ended and no mutation was left without its answer
\* ("Mutation replies follow OS cleanup; acknowledge close after their jobs").
CleanClose ==
    /\ py.closed => ~rt.up
    /\ py.clean => ~rt.up /\ Running("mutate") = {} /\ rt.campaign \in {"none", "over"}

\* What a thread waits for without a bound and will not get: a mutation whose
\* result() its caller has given up before, or a call whose error was not read.
WaitsForNothing(t) ==
    \/ th[t].pc = "wait" /\ th[t].id \in Lost
    \/ th[t].pc = "result" /\ (th[t].forgot \/ th[t].call \in Lost)

\* close() ends: with an exception if the process outlives its signals, and else
\* with the process and every call that another thread has under way. The
\* exceptions are waits without a bound for what can never come.
CloseEnds ==
    py.closing ~>
        \/ py.unreaped
        \/ py.closed /\ \A t \in Threads : th[t].pc = "idle" \/ WaitsForNothing(t)
=============================================================================
