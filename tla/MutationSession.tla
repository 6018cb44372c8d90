--------------------------- MODULE MutationSession ---------------------------
(* The controller of a persistent mutation VM (efz_mutation_session.erl): one  *)
(* server process, the VM it drives over a socket, the launcher that owns the  *)
(* VM's process group, the process that owns the socket's directory, and the   *)
(* clients that submit, cancel and close.                                      *)
(*                                                                             *)
(* Every step of the server handles one message. Messages of one sender keep   *)
(* their order (frames, port lines, the directory's owner); between senders    *)
(* any order is possible, so the server takes any of them. A call or a cast    *)
(* and the death of a monitored process are taken when they are handled.       *)
(* Inputs, results and timings are data; times are steps that may happen once  *)
(* their timer is set.                                                         *)
EXTENDS Naturals, FiniteSets, Sequences

CONSTANTS
    Requests,       \* what clients submit, each once
    MaxRequests,    \* max_requests: a VM is replaced after so many
    Faults,         \* what may happen besides: the VM talks nonsense, its launcher
                    \* is killed, who opens gives up, the owner dies
    None

ASSUME SessionAssumption ==
    /\ IsFiniteSet(Requests) /\ None \notin Requests
    /\ MaxRequests \in Nat \ {0}
    /\ Faults \subseteq {"blunder", "launcher", "impatience", "owner"}
    /\ Requests \cap {"hello", "ready", "init", "stop", "stopped", "junk", "closed"} = {}

VARIABLES
    s,          \* the server's state, with the timers and messages to itself
    v,          \* the VM, its connection and its launcher
    d,          \* the owner of the socket directory
    asked,      \* requests submitted
    answers,    \* what their clients were told, in order
    wire,       \* of each request: "no" frame yet, "sent", or sending it "failed"
    owner,      \* the owning process lives
    orphan,     \* its death was known before the first VM was started
    opener,     \* of open/2: waits, has its answer, or gave up
    closer      \* of close/3: idle, waits, or was told "ok" or "error"

clients == <<asked, answers, wire, owner, orphan, opener, closer>>
vars == <<s, v, d, clients>>

Startup == {"starting", "accepting", "hello", "handshake"}
Phases == Startup \cup {"ready", "busy", "recycling", "stopping", "cleaning", "down"}
Kinds == {"none", "close", "recycle", "failure"}
Causes == {"cancelled", "timeout", "owner_down", "session_closed", "failed"}
Answer == Causes \cup {"value", "refused", "ok", "stopped", "unconfirmed"}
Frames == Requests \cup {"hello", "ready", "junk", "stopped", "closed"}

NoDir == [owner |-> "none", mail |-> <<>>]
NoVm == [state |-> "none", step |-> "boot", conn |-> "none", frames |-> <<>>,
         inbox |-> <<>>, launcher |-> "none", mail |-> <<>>, deaf |-> FALSE]

Idle ==
    [phase |-> "starting", kind |-> "none", terminal |-> "none",
     active |-> None, pending |-> None, starts |-> 0, served |-> 0,
     closing |-> FALSE, initial |-> TRUE, notified |-> FALSE,
     report |-> "none", exited |-> FALSE, forced |-> FALSE,
     port |-> FALSE, socket |-> FALSE, eager |-> FALSE, dirOwner |-> FALSE,
     kill |-> FALSE, ask |-> FALSE, confirmed |-> FALSE,
     notes |-> {}, deadlines |-> {}, dirTimers |-> {},
     startup |-> FALSE, cleanup |-> "off"]

Init ==
    /\ s = [Idle EXCEPT !.notes = {"start_vm"}]
    /\ v = NoVm /\ d = NoDir
    /\ asked = {} /\ answers = [r \in Requests |-> <<>>] /\ wire = [r \in Requests |-> "no"]
    /\ owner = TRUE /\ orphan = FALSE
    /\ opener = "waiting" /\ closer = "idle"

-----------------------------------------------------------------------------
(* Failure and cleanup, as functions of the server's state.                *)

\* Mutant: without the deadline for the removal of the directory.
BeginFailureUntimed(cause, t) ==
    LET told == [t EXCEPT !.terminal = IF @ = "none" THEN cause ELSE @] IN
    CASE t.phase = "down" -> t
      [] t.phase = "cleaning" -> told
      [] t.phase = "stopping" -> [told EXCEPT !.kind = "failure", !.closing = TRUE]
      [] OTHER ->
           LET stopped == [told EXCEPT !.phase = "stopping", !.kind = "failure",
                                       !.closing = TRUE, !.startup = FALSE] IN
           IF t.port THEN [stopped EXCEPT !.kill = TRUE, !.cleanup = "soft"]
           ELSE [stopped EXCEPT !.phase = "cleaning", !.exited = TRUE, !.report = "no",
                                !.ask = t.dirOwner, !.cleanup = "off"]

\* begin_failure/2: the first cause is kept; the VM is told to die.
BeginFailure(cause, t) ==
    LET told == [t EXCEPT !.terminal = IF @ = "none" THEN cause ELSE @] IN
    CASE t.phase = "down" -> t
      [] t.phase = "cleaning" -> told
      [] t.phase = "stopping" -> [told EXCEPT !.kind = "failure", !.closing = TRUE]
      [] OTHER ->
           LET stopped == [told EXCEPT !.phase = "stopping", !.kind = "failure",
                                       !.closing = TRUE, !.startup = FALSE] IN
           IF t.port
           THEN [stopped EXCEPT !.kill = TRUE, !.cleanup = "soft"]
           ELSE [stopped EXCEPT !.phase = "cleaning", !.exited = TRUE, !.report = "no",
                                !.ask = t.dirOwner, !.cleanup = "off",
                                !.dirTimers = @ \cup {t.starts}]

\* cleanup_unconfirmed/1, and the end of an instance whose port has ended.
CleanDirectory(t) ==
    [t EXCEPT !.phase = "cleaning", !.cleanup = "off", !.ask = TRUE,
              !.dirTimers = @ \cup {t.starts}]

CleanupUnconfirmed(t) == CleanDirectory([t EXCEPT !.exited = TRUE, !.report = "no"])

MaybeFinish(t) ==
    CASE t.phase \in {"stopping", "recycling"} /\ t.exited /\ t.report # "none" -> CleanDirectory(t)
      [] t.phase \in {"stopping", "recycling"} /\ t.exited /\ t.report = "none" -> CleanupUnconfirmed(t)
      [] t.phase \in {"stopping", "recycling"} /\ ~t.exited -> t
      [] OTHER -> BeginFailure("failed", t)

\* begin_force_stop/1
ForceStop(t) ==
    LET u == BeginFailure("failed", [t EXCEPT !.kill = TRUE])
    IN  [u EXCEPT !.cleanup = IF @ = "off" THEN "soft" ELSE @]

\* startup_failed/2; who opens the session is told before the cleanup.
StartupFailed(t) ==
    BeginFailure("failed", [t EXCEPT !.initial = FALSE, !.notified = TRUE,
                                     !.closing = TRUE, !.kind = "failure"])
ToldOfStartup(t, told) == IF t.initial /\ opener = "waiting" THEN told ELSE opener

\* reply_request/3
Reply(rs, result) ==
    answers' = [r \in Requests |-> IF r \in rs THEN Append(answers[r], result) ELSE answers[r]]
Replied(t, r) == [t EXCEPT !.deadlines = @ \ {r}]

Waiting(t) == {t.active, t.pending} \ {None}

\* Mutant: the end of the launcher is taken for the end of its VM.
ConfirmedByExit(t) == t.exited /\ ~t.forced

Confirmed(t) == t.report = "yes" /\ t.exited /\ ~t.forced

Outcome(t) ==
    CASE t.kind = "recycle" /\ Confirmed(t) -> "cancelled"
      [] t.kind = "close" /\ Confirmed(t) -> "ok"
      [] t.kind \notin {"recycle", "close"} /\ Confirmed(t) ->
            IF t.terminal = "none" THEN "stopped" ELSE t.terminal
      [] ~Confirmed(t) -> "unconfirmed"

Hangup(w) ==
    [w EXCEPT !.conn = IF @ = "none" THEN "none" ELSE "closed",
              !.frames = IF w.conn \in {"pending", "up"} THEN Append(@, "closed") ELSE @,
              !.inbox = <<>>]

\* gen_tcp:close/1 in the server: nothing more is heard.
Shut(w) == [w EXCEPT !.conn = IF @ = "none" THEN "none" ELSE "closed", !.frames = <<>>]

\* start_vm/1: a new instance; its directory's owner is spawned.
StartVm(t) ==
    /\ s' = [t EXCEPT !.phase = "starting", !.starts = @ + 1, !.exited = FALSE,
                      !.report = "none", !.socket = FALSE, !.port = FALSE, !.kill = FALSE,
                      !.ask = FALSE, !.dirOwner = TRUE, !.startup = TRUE,
                      !.notes = @ \ {"start_vm"}]
    /\ d' = [owner |-> "making", mail |-> <<>>]

\* cleanup_finish/1 and finish_session/2
CleanupFinish(t) ==
    \/ /\ t.kind = "recycle" /\ Confirmed(t) /\ ~t.closing
       /\ StartVm([t EXCEPT !.kind = "none"])
       /\ UNCHANGED <<v, clients>>
    \/ /\ ~(t.kind = "recycle" /\ Confirmed(t) /\ ~t.closing)
       /\ Reply(Waiting(t), Outcome(t))
       /\ s' = [Idle EXCEPT !.phase = "down", !.confirmed = Confirmed(t)]
       /\ v' = [Shut(v) EXCEPT !.inbox = <<>>, !.mail = <<>>, !.deaf = TRUE]
       /\ d' = NoDir
       /\ closer' = IF closer = "waiting" THEN (IF Confirmed(t) THEN "ok" ELSE "error") ELSE closer
       /\ opener' = IF ~t.notified /\ opener = "waiting" THEN "error" ELSE opener
       /\ UNCHANGED <<asked, wire, owner, orphan>>

-----------------------------------------------------------------------------
(* The connection, as the server and the VM change it.                     *)

\* send_frame/2: the frame goes out; or the peer is gone, or does not read and
\* the timeout of the send closes the connection.
Sent(frame) == v.conn = "up" /\ v' = [v EXCEPT !.inbox = Append(@, frame)]
SendFails == v' = [v EXCEPT !.conn = "closed",
                            !.frames = IF v.conn = "up" THEN <<"closed">> ELSE @]

-----------------------------------------------------------------------------
(* Clients: submit/6, cancel/3, a client's death, close/3, open/2, the owner. *)

Deferring(t) ==
    \/ t.phase = "recycling"
    \/ t.phase \in {"stopping", "cleaning"} /\ t.kind = "recycle"
    \/ t.phase \in Startup /\ t.starts > 1

\* accept_submission/5, new_request/5, dispatch_request/2
Submit(r) ==
    /\ r \notin asked /\ opener = "ok" /\ s.phase # "down"
    /\ asked' = asked \cup {r}
    /\ \/ /\ s.phase = "ready"
          /\ Sent(r)
          /\ s' = [s EXCEPT !.phase = "busy", !.active = r, !.deadlines = @ \cup {r}]
          /\ wire' = [wire EXCEPT ![r] = "sent"]
          /\ UNCHANGED answers
       \/ /\ s.phase = "ready"
          /\ SendFails
          /\ s' = [s EXCEPT !.active = r, !.deadlines = @ \cup {r}]
          /\ wire' = [wire EXCEPT ![r] = "failed"]
          /\ Reply({r}, "refused")
       \/ /\ Deferring(s) /\ s.pending = None
          /\ s' = [s EXCEPT !.pending = r, !.deadlines = @ \cup {r}]
          /\ UNCHANGED <<v, answers, wire>>
       \/ /\ s.phase # "ready" /\ ~(Deferring(s) /\ s.pending = None)
          /\ Reply({r}, "refused")
          /\ UNCHANGED <<s, v, wire>>
    /\ UNCHANGED <<d, owner, orphan, opener, closer>>

\* Mutant: a cancelled request goes on waiting.
CancelKeeps(r) ==
    /\ s.phase # "down"
    /\ \/ s.active = r /\ s' = BeginFailure("cancelled", s) /\ UNCHANGED answers
       \/ s.active # r /\ s.pending = r /\ Reply({r}, "cancelled") /\ s' = Replied(s, r)
    /\ UNCHANGED <<v, d, asked, wire, owner, orphan, opener, closer>>

\* Mutant: the client is told before its VM is gone.
CancelAtOnce(r) ==
    /\ s.phase # "down" /\ r \in Waiting(s)
    /\ Reply({r}, "cancelled")
    /\ s' = IF s.active = r THEN BeginFailure("cancelled", [s EXCEPT !.active = None])
            ELSE [Replied(s, r) EXCEPT !.pending = None]
    /\ UNCHANGED <<v, d, asked, wire, owner, orphan, opener, closer>>

\* Of a request that is neither active nor pending, there is nothing to do.
Cancel(r) ==
    /\ s.phase # "down"
    /\ \/ /\ s.active = r
          /\ s' = BeginFailure("cancelled", s)
          /\ UNCHANGED answers
       \/ /\ s.active # r /\ s.pending = r
          /\ Reply({r}, "cancelled")
          /\ s' = [Replied(s, r) EXCEPT !.pending = None]
    /\ UNCHANGED <<v, d, asked, wire, owner, orphan, opener, closer>>

\* The death of a client is looked at while its request is active only.
ClientDown(r) ==
    /\ s.phase # "down" /\ s.active = r
    /\ s' = BeginFailure("cancelled", s)
    /\ UNCHANGED <<v, d, clients>>

\* Mutant: a close drops the request that waits for the next VM.
CloseDrops ==
    /\ owner /\ opener = "ok" /\ closer = "idle" /\ s.phase # "down"
    /\ closer' = "waiting"
    /\ s' = CASE s.phase = "recycling" \/ (s.phase = "stopping" /\ s.kind = "recycle") ->
                   [s EXCEPT !.closing = TRUE, !.pending = None, !.deadlines = @ \ {s.pending}]
              [] s.phase = "stopping" /\ s.kind # "recycle" -> s
              [] s.phase = "ready" ->
                   [s EXCEPT !.phase = "stopping", !.kind = "close", !.notes = @ \cup {"graceful_stop"}]
              [] OTHER -> BeginFailure("session_closed", [s EXCEPT !.closing = TRUE])
    /\ UNCHANGED <<v, d, asked, answers, wire, owner, orphan, opener>>

\* close_request/2, close_recycling/2
Close ==
    /\ owner /\ opener = "ok" /\ closer = "idle" /\ s.phase # "down"
    /\ closer' = "waiting"
    /\ \/ /\ s.phase = "recycling" \/ (s.phase = "stopping" /\ s.kind = "recycle")
          /\ s' = [s EXCEPT !.closing = TRUE, !.pending = None, !.deadlines = @ \ {s.pending}]
          /\ Reply({s.pending} \ {None}, "cancelled")
       \/ /\ s.phase = "stopping" /\ s.kind # "recycle"
          /\ UNCHANGED <<s, answers>>
       \/ /\ s.phase = "ready"
          /\ s' = [s EXCEPT !.phase = "stopping", !.kind = "close", !.notes = @ \cup {"graceful_stop"}]
          /\ UNCHANGED answers
       \/ /\ s.phase = "busy"
          /\ s' = BeginFailure("cancelled", [s EXCEPT !.closing = TRUE])
          /\ UNCHANGED answers
       \/ /\ s.phase \in Startup \cup {"cleaning"}
          /\ s' = BeginFailure("session_closed", [s EXCEPT !.closing = TRUE])
          /\ UNCHANGED answers
    /\ UNCHANGED <<v, d, asked, wire, owner, orphan, opener>>

\* open_session/3 gives up waiting, and its cast arrives.
GiveUp ==
    /\ "impatience" \in Faults
    /\ opener = "waiting" /\ opener' = "gave_up"
    /\ UNCHANGED <<s, v, d, asked, answers, wire, owner, orphan, closer>>
AbortOpen ==
    /\ opener = "gave_up" /\ s.phase # "down" /\ "start_vm" \notin s.notes
    /\ opener' = "aborted"
    /\ s' = BeginFailure("failed", [s EXCEPT !.notified = TRUE, !.closing = TRUE])
    /\ UNCHANGED <<v, d, asked, answers, wire, owner, orphan, closer>>

OwnerDown ==
    /\ "owner" \in Faults
    /\ owner /\ s.phase # "down"
    /\ owner' = FALSE
    /\ orphan' = ("start_vm" \in s.notes)
    /\ s' = BeginFailure("owner_down", [s EXCEPT !.closing = TRUE])
    /\ UNCHANGED <<v, d, asked, answers, wire, opener, closer>>

-----------------------------------------------------------------------------
(* Timers.                                                                 *)

RequestDeadline(r) ==
    /\ r \in s.deadlines /\ s.phase # "down"
    /\ \/ /\ s.active = r
          /\ s' = BeginFailure("timeout", Replied(s, r))
          /\ UNCHANGED answers
       \/ /\ s.active # r /\ s.pending = r
          /\ Reply({r}, "timeout")
          /\ s' = [Replied(s, r) EXCEPT !.pending = None]
       \/ /\ r \notin {s.active, s.pending}
          /\ s' = Replied(s, r)
          /\ UNCHANGED answers
    /\ UNCHANGED <<v, d, asked, wire, owner, orphan, opener, closer>>

StartupDeadline ==
    /\ s.startup /\ s.phase \in Startup
    /\ s' = StartupFailed([s EXCEPT !.startup = FALSE])
    /\ opener' = ToldOfStartup(s, "error")
    /\ UNCHANGED <<v, d, asked, answers, wire, owner, orphan, closer>>

\* Mutant: the port is closed and nothing is waited for.
CleanupDeadlineLast ==
    /\ s.cleanup = "soft" /\ s.phase = "stopping"
    /\ s' = [s EXCEPT !.cleanup = "off", !.kill = TRUE]
    /\ v' = [Shut(v) EXCEPT !.mail = <<>>, !.deaf = TRUE]
    /\ UNCHANGED <<d, clients>>

\* cleanup_deadline/1: the port is closed, which the launcher sees as the end of
\* its input; what it says from here on is not heard. What the server has in its
\* mailbox already, a frame or some lines, it will still take.
CleanupDeadline ==
    /\ s.cleanup = "soft" /\ s.phase = "stopping"
    /\ s' = [s EXCEPT !.cleanup = "hard", !.kill = TRUE]
    /\ \E left \in {n \in 0 .. 1 : n = 1 => s.eager /\ v.frames # <<>> /\ Head(v.frames) # "closed"},
          lines \in 0 .. Len(v.mail) :
           v' = [Shut(v) EXCEPT !.frames = SubSeq(v.frames, 1, left),
                                !.mail = SubSeq(v.mail, 1, lines), !.deaf = TRUE]
    /\ UNCHANGED <<d, clients>>

HardDeadline ==
    /\ s.cleanup = "hard" /\ s.phase = "stopping"
    /\ s' = CleanupUnconfirmed(s)
    /\ UNCHANGED <<v, d, clients>>

\* Never cancelled, and not tagged with its instance.
DirectoryDeadline(i) ==
    /\ i \in s.dirTimers /\ s.phase # "down" /\ "start_vm" \notin s.notes
    /\ LET t == [s EXCEPT !.dirTimers = @ \ {i}] IN
       \/ /\ s.phase = "cleaning"
          /\ CleanupFinish([t EXCEPT !.forced = TRUE])
       \/ /\ s.phase # "cleaning"
          /\ s' = t
          /\ UNCHANGED <<v, d, clients>>

-----------------------------------------------------------------------------
(* Messages of the server to itself and of the directory's owner.          *)

OnStartVm ==
    /\ "start_vm" \in s.notes
    /\ StartVm(s)
    /\ UNCHANGED <<v, clients>>

\* recycle_vm, begin_recycle/1, and graceful_stop, graceful_stop/1. In another
\* phase than its own such a message is dropped.
SendStop(kind, t) ==
    /\ s' = [t EXCEPT !.kind = kind, !.phase = "stopping", !.cleanup = "soft"]
    /\ Sent("stop") \/ SendFails

OnRecycleVm ==
    /\ "recycle_vm" \in s.notes
    /\ LET t == [s EXCEPT !.notes = @ \ {"recycle_vm"}] IN
       \/ /\ s.phase = "recycling" /\ s.socket
          /\ SendStop("recycle", [t EXCEPT !.terminal = "none"])
       \/ /\ s.phase # "recycling"
          /\ s' = t
          /\ UNCHANGED v
    /\ UNCHANGED <<d, clients>>

OnGracefulStop ==
    /\ "graceful_stop" \in s.notes /\ s.phase # "down"
    /\ LET t == [s EXCEPT !.notes = @ \ {"graceful_stop"}] IN
       \/ /\ s.phase = "stopping" /\ s.socket
          /\ SendStop(s.kind, t)
       \/ /\ s.phase = "stopping" /\ ~s.socket
          /\ s' = BeginFailure("failed", t)
          /\ UNCHANGED v
       \/ /\ s.phase # "stopping"
          /\ s' = t
          /\ UNCHANGED v
    /\ UNCHANGED <<d, clients>>

\* create_vm/4: whatever the phase. The socket's listener exists from here on.
OnDirectory ==
    /\ d.mail # <<>> /\ Head(d.mail) = "directory" /\ s.phase # "down"
    /\ d' = [d EXCEPT !.mail = Tail(@)]
    /\ \/ /\ s' = [s EXCEPT !.phase = "accepting", !.port = TRUE, !.served = 0]
          /\ v' = [NoVm EXCEPT !.state = "up", !.launcher = "up"]
       \/ /\ s' = [BeginFailure("failed", s) EXCEPT !.ask = TRUE]
          /\ UNCHANGED v
    /\ UNCHANGED clients

OnDirectoryError ==
    /\ d.mail # <<>> /\ Head(d.mail) = "error" /\ s.phase # "down"
    /\ d' = [d EXCEPT !.mail = Tail(@)]
    /\ s' = StartupFailed(s)
    /\ opener' = ToldOfStartup(s, "error")
    /\ UNCHANGED <<v, asked, answers, wire, owner, orphan, closer>>

\* cleanup_complete/1: whatever the phase.
OnCleaned ==
    /\ d.mail # <<>> /\ Head(d.mail) = "cleaned" /\ s.phase # "down"
    /\ CleanupFinish(s)

-----------------------------------------------------------------------------
(* The connection.                                                         *)

\* accept_poll/1
Accept ==
    /\ s.phase = "accepting"
    /\ \/ /\ v.conn = "pending"
          /\ s' = [s EXCEPT !.phase = "hello", !.socket = TRUE, !.eager = TRUE]
          /\ v' = [v EXCEPT !.conn = "up"]
          /\ UNCHANGED opener
       \/ /\ s' = StartupFailed(s) /\ opener' = ToldOfStartup(s, "error")
          /\ UNCHANGED v
    /\ UNCHANGED <<d, asked, answers, wire, owner, orphan, closer>>

\* A frame, or the end of the connection, is heard once it was asked for.
Heard == s.socket /\ s.eager /\ v.frames # <<>> /\ s.phase # "down"
Frame == Head(v.frames)
Deaf(t) == [t EXCEPT !.eager = FALSE]
Read(w) == [w EXCEPT !.frames = Tail(@)]

OnHello ==
    /\ Heard /\ s.phase = "hello" /\ Frame # "closed"
    /\ \/ /\ Frame = "hello"
          /\ v.conn = "up"
          /\ v' = [Read(v) EXCEPT !.inbox = Append(@, "init")]
          /\ s' = [s EXCEPT !.phase = "handshake"]
          /\ UNCHANGED opener
       \/ /\ Frame = "hello" => v.conn = "closed"
          /\ s' = StartupFailed(Deaf(s)) /\ opener' = ToldOfStartup(s, "error")
          /\ v' = Read(v)
    /\ UNCHANGED <<d, asked, answers, wire, owner, orphan, closer>>

\* startup_ready/3, dispatch_pending/1: the first VM answers open/2; a later one
\* takes the request that waited, if it is not too late. (That a close waits for
\* a later VM to be ready cannot be: a close ends a startup, and after a close no
\* VM is started.)
Recycled(t) ==
    LET p == s.pending IN
    \/ /\ p = None
       /\ s' = [t EXCEPT !.phase = "ready"]
       /\ v' = Read(v)
       /\ UNCHANGED <<answers, wire>>
    \/ /\ p # None
       /\ Reply({p}, "timeout")
       /\ s' = [Replied(t, p) EXCEPT !.phase = "ready", !.pending = None]
       /\ v' = Read(v)
       /\ UNCHANGED wire
    \/ /\ p # None /\ v.conn = "up"
       /\ s' = [t EXCEPT !.phase = "busy", !.active = p, !.pending = None]
       /\ v' = [Read(v) EXCEPT !.inbox = Append(@, p)]
       /\ wire' = [wire EXCEPT ![p] = "sent"]
       /\ UNCHANGED answers
    \/ /\ p # None
       /\ Reply({p}, "refused") /\ wire' = [wire EXCEPT ![p] = "failed"]
       /\ s' = BeginFailure("failed", [t EXCEPT !.phase = "ready", !.active = p, !.pending = None])
       /\ v' = [v EXCEPT !.conn = "closed", !.frames = <<"closed">>]

StartupReady ==
    LET t == [s EXCEPT !.startup = FALSE, !.eager = TRUE] IN
    /\ Heard /\ s.phase = "handshake" /\ Frame = "ready"
    /\ \/ /\ s.initial
          /\ s' = [t EXCEPT !.phase = "ready", !.initial = FALSE, !.notified = TRUE]
          /\ v' = Read(v)
          /\ opener' = ToldOfStartup(s, "ok")
          /\ UNCHANGED <<answers, wire>>
       \/ /\ ~s.initial
          /\ Recycled(t)
          /\ UNCHANGED opener
    /\ UNCHANGED <<d, asked, owner, orphan, closer>>

\* Any other answer to initialize, one that reports an error included.
StartupRefused ==
    /\ Heard /\ s.phase = "handshake" /\ Frame \notin {"ready", "closed"}
    /\ s' = StartupFailed(Deaf(s)) /\ opener' = ToldOfStartup(s, "error")
    /\ v' = Read(v)
    /\ UNCHANGED <<d, asked, answers, wire, owner, orphan, closer>>

\* request_frame/3: the reply to the active request, in time or late.
OnReply ==
    /\ Heard /\ s.phase = "busy" /\ Frame = s.active
    /\ v' = Read(v)
    /\ \/ LET t == [Replied(s, s.active) EXCEPT !.active = None, !.served = @ + 1] IN
          /\ Reply({s.active}, "value")
          /\ \/ /\ s.served + 1 < MaxRequests
                /\ s' = [t EXCEPT !.phase = "ready"]
             \/ /\ s.served + 1 >= MaxRequests
                /\ s' = [t EXCEPT !.phase = "recycling", !.notes = @ \cup {"recycle_vm"}]
       \/ /\ s' = BeginFailure("timeout", Deaf(s))
          /\ UNCHANGED answers
    /\ UNCHANGED <<d, asked, wire, owner, orphan, opener, closer>>

\* Frames while stopping: the acknowledgement, or anything else.
OnStopFrame ==
    /\ Heard /\ s.phase = "stopping" /\ Frame # "closed"
    /\ \/ /\ Frame = "stopped"
          /\ s' = MaybeFinish([Deaf(s) EXCEPT !.socket = FALSE])
          /\ v' = Shut(v)
       \/ /\ Frame # "stopped"
          /\ s' = MaybeFinish(ForceStop(Deaf(s)))
          /\ v' = Read(v)
    /\ UNCHANGED <<d, clients>>

OnBadFrame ==
    /\ Heard /\ s.phase \notin {"hello", "handshake", "stopping"} /\ Frame # "closed"
    /\ ~(s.phase = "busy" /\ Frame = s.active)
    /\ s' = BeginFailure("failed", Deaf(s))
    /\ v' = Read(v)
    /\ UNCHANGED <<d, clients>>

\* tcp_closed, or tcp_error.
OnClosed ==
    /\ Heard /\ Frame = "closed"
    /\ LET t == [Deaf(s) EXCEPT !.socket = FALSE] IN
       \/ /\ s.phase = "stopping" /\ s' = MaybeFinish(t)
       \/ s' = BeginFailure("failed", t)
    /\ v' = Read(v)
    /\ UNCHANGED <<d, clients>>

\* port_line/2 and the port's exit.
OnPort ==
    /\ s.port /\ v.mail # <<>> /\ s.phase # "down"
    /\ v' = [v EXCEPT !.mail = Tail(@)]
    /\ s' = CASE Head(v.mail) \in {"yes", "no"} -> MaybeFinish([s EXCEPT !.report = Head(v.mail)])
              [] Head(v.mail) = "junk" -> BeginFailure("failed", s)
              [] Head(v.mail) = "exit" -> MaybeFinish([s EXCEPT !.exited = TRUE])
    /\ UNCHANGED <<d, clients>>

-----------------------------------------------------------------------------
(* Outside the server: the directory's owner (session_directory_owner/2), the *)
(* VM (efz_provider_port.erl) and its launcher (efz_vm_launcher.c).           *)

MakeDirectory ==
    /\ d.owner = "making"
    /\ \/ d' = [d EXCEPT !.owner = "waiting", !.mail = Append(@, "directory")]
       \/ d' = [d EXCEPT !.owner = "gone", !.mail = Append(@, "error")]
    /\ UNCHANGED <<s, v, clients>>

RemoveDirectory ==
    /\ d.owner = "waiting" /\ s.ask
    /\ d' = [owner |-> "gone", mail |-> Append(d.mail, "cleaned")]
    /\ UNCHANGED <<s, v, clients>>

Running == v.state = "up" /\ s.phase # "down"

VmConnect ==
    /\ Running /\ v.step = "boot" /\ ~v.deaf /\ d.owner = "waiting"
    /\ v' = [v EXCEPT !.step = "talking", !.conn = "pending", !.frames = <<"hello">>]
    /\ UNCHANGED <<s, d, clients>>

VmAnswers ==
    /\ Running /\ v.step = "talking" /\ v.conn = "up" /\ v.inbox # <<>>
    /\ LET m == Head(v.inbox)
           w == [v EXCEPT !.inbox = Tail(@)]
       IN  v' = CASE m = "init" -> [w EXCEPT !.frames = Append(@, "ready")]
                  [] m = "stop" -> [w EXCEPT !.frames = Append(@, "stopped"), !.step = "closing"]
                  [] OTHER -> [w EXCEPT !.frames = Append(@, m)]
    /\ UNCHANGED <<s, d, clients>>

\* A frame that is none of the protocol, or reports an error: then no more.
VmBlunders ==
    /\ "blunder" \in Faults
    /\ Running /\ v.step = "talking" /\ v.conn = "up"
    /\ v' = [v EXCEPT !.frames = Append(@, "junk"), !.step = "closing"]
    /\ UNCHANGED <<s, d, clients>>

VmCloses ==
    /\ Running /\ v.step = "closing"
    /\ v' = [Hangup(v) EXCEPT !.step = "halting"]
    /\ UNCHANGED <<s, d, clients>>

VmExits ==
    /\ Running
    /\ v' = [Hangup(v) EXCEPT !.state = "dead", !.step = "halting"]
    /\ UNCHANGED <<s, d, clients>>

\* What the process between port and launcher passes on: the first stop byte, or
\* the end of its input.
Forwarded == s.kill \/ s.phase = "down"

\* The launcher is told by a byte or by the end of its input, or sees the VM end.
\* What it could not reap in two seconds it reports as unconfirmed.
Told == Forwarded
Mailed(w, lines) == [w EXCEPT !.mail = IF w.deaf \/ ~s.port THEN @ ELSE @ \o lines]

LauncherReaps ==
    /\ v.launcher = "up" /\ (Told \/ v.state = "dead")
    /\ \E report \in {"yes", "no"} :
           v' = Mailed([Hangup(v) EXCEPT !.state = IF report = "yes" THEN "dead" ELSE "strays",
                                         !.step = "halting", !.launcher = "gone"],
                       <<report, "exit">>)
    /\ UNCHANGED <<s, d, clients>>

\* It may be killed: the VM dies with it, and perhaps not what the VM started.
\* It may write what is not of the protocol.
LauncherDies ==
    /\ "launcher" \in Faults
    /\ v.launcher = "up" /\ s.phase # "down"
    /\ \E state \in {"dead", "strays"}, lines \in {<<"exit">>, <<"junk", "exit">>} :
           v' = Mailed([Hangup(v) EXCEPT !.state = state, !.step = "halting", !.launcher = "gone"], lines)
    /\ UNCHANGED <<s, d, clients>>

-----------------------------------------------------------------------------
Client ==
    \/ \E r \in Requests : Submit(r) \/ Cancel(r) \/ ClientDown(r)
    \/ Close \/ GiveUp \/ AbortOpen \/ OwnerDown

Timer ==
    \/ \E r \in Requests : RequestDeadline(r)
    \/ \E i \in s.dirTimers : DirectoryDeadline(i)
    \/ StartupDeadline \/ CleanupDeadline \/ HardDeadline

Server ==
    \/ OnStartVm \/ OnRecycleVm \/ OnGracefulStop
    \/ OnDirectory \/ OnDirectoryError \/ OnCleaned
    \/ Accept \/ OnHello \/ StartupReady \/ StartupRefused \/ OnReply
    \/ OnStopFrame \/ OnBadFrame \/ OnClosed \/ OnPort

Outside ==
    \/ MakeDirectory \/ RemoveDirectory
    \/ VmConnect \/ VmAnswers \/ VmBlunders \/ VmCloses \/ VmExits
    \/ LauncherReaps \/ LauncherDies

Next == Client \/ Timer \/ Server \/ Outside

\* Fairness. The server takes what reaches it, timers fire, the directory's owner runs, a
\* cast arrives. A VM that has closed its connection ends, and the launcher reaps
\* it; nothing else is expected of either.
Fairness ==
    /\ WF_vars(OnStartVm) /\ WF_vars(OnRecycleVm) /\ WF_vars(OnGracefulStop)
    /\ WF_vars(OnDirectory) /\ WF_vars(OnDirectoryError) /\ WF_vars(OnCleaned)
    /\ WF_vars(OnStopFrame) /\ WF_vars(OnBadFrame) /\ WF_vars(OnClosed) /\ WF_vars(OnPort)
    /\ WF_vars(AbortOpen)
    /\ \A r \in Requests : WF_vars(RequestDeadline(r))
    /\ WF_vars(\E i \in s.dirTimers : DirectoryDeadline(i))
    /\ WF_vars(StartupDeadline) /\ WF_vars(CleanupDeadline) /\ WF_vars(HardDeadline)
    /\ WF_vars(MakeDirectory) /\ WF_vars(RemoveDirectory)
    /\ WF_vars(v.conn = "closed" /\ VmExits) /\ WF_vars(VmCloses) /\ WF_vars(LauncherReaps)

Spec == Init /\ [][Next]_vars
FairSpec == Spec /\ Fairness

-----------------------------------------------------------------------------
TypeOK ==
    /\ s \in [phase : Phases, kind : Kinds, terminal : Causes \cup {"none"},
              active : Requests \cup {None}, pending : Requests \cup {None},
              starts : Nat, served : Nat, closing : BOOLEAN, initial : BOOLEAN,
              notified : BOOLEAN, report : {"none", "yes", "no"}, exited : BOOLEAN,
              forced : BOOLEAN, port : BOOLEAN, socket : BOOLEAN, eager : BOOLEAN,
              dirOwner : BOOLEAN, kill : BOOLEAN, ask : BOOLEAN, confirmed : BOOLEAN,
              notes : SUBSET {"start_vm", "recycle_vm", "graceful_stop"},
              deadlines : SUBSET Requests, dirTimers : SUBSET Nat, startup : BOOLEAN,
              cleanup : {"off", "soft", "hard"}]
    /\ v \in [state : {"none", "up", "dead", "strays"},
              step : {"boot", "talking", "closing", "halting"},
              conn : {"none", "pending", "up", "closed"}, frames : Seq(Frames),
              inbox : Seq(Requests \cup {"init", "stop"}), launcher : {"none", "up", "gone"},
              mail : Seq({"yes", "no", "junk", "exit"}), deaf : BOOLEAN]
    /\ d \in [owner : {"none", "making", "waiting", "gone"},
              mail : Seq({"directory", "error", "cleaned"})]
    /\ asked \subseteq Requests
    /\ answers \in [Requests -> Seq(Answer)]
    /\ wire \in [Requests -> {"no", "sent", "failed"}]
    /\ owner \in BOOLEAN /\ orphan \in BOOLEAN
    /\ opener \in {"waiting", "ok", "error", "gave_up", "aborted"}
    /\ closer \in {"idle", "waiting", "ok", "error"}

Reaped == v.state \in {"none", "dead"}

\* A client is told of its request once: a cancellation, a deadline, a reply, the
\* end of the session and a recycling do not answer it twice. The one exception is
\* a request whose frame could not be sent: it is refused, kept as the active one,
\* and answered again when the session ends (dispatch_request/2, finish_session/2).
AnsweredOnce == \A r \in Requests : Len(answers[r]) > 1 => wire[r] = "failed"

\* Until a request is answered the server holds it, as the active one or as the
\* one that waits for the next VM; once answered it does not. Nothing is dropped
\* between the VMs (close_recycling/2, dispatch_pending/1, finish_session/2).
NothingLost == \A r \in asked : answers[r] = <<>> <=> r \in Waiting(s) /\ wire[r] # "failed"

\* What close/3 and the event to the owner confirm is true: the VM and all of its
\* process group are gone, whatever was forced, killed or lost on the way. The
\* same is true whenever another VM is being started (cleanup_finish/1).
ConfirmedIsReaped ==
    \/ closer = "ok"
    \/ s.phase = "down" /\ s.confirmed
    \/ s.phase = "starting"
    => Reaped

\* A client whose request reached the VM hears that it was cancelled, timed out or
\* failed only when no VM works on it any more (finish_session/2).
ReapedBeforeTold ==
    \A r \in Requests :
        wire[r] = "sent" /\ answers[r] # <<>> /\ Head(answers[r]) \in Causes => Reaped

\* Nobody waits for ever. Every request is answered, whatever becomes of the VM,
\* also the one that waits over a recycling (request deadlines, cleanup deadlines);
\* and close/3 is, in whatever phase it meets the session (close_request/2).
EverybodyIsAnswered ==
    /\ \A r \in Requests : r \in asked ~> answers[r] # <<>>
    /\ closer = "waiting" ~> closer # "waiting"

\* A session that has to end ends (begin_failure/2 and the deadlines it sets). Not
\* one whose owner's death was handled before the first VM was started: start_vm/1
\* then goes on, and that session has nobody to end it.
FailureEnds == s.closing /\ ~orphan ~> s.phase = "down"
=============================================================================
