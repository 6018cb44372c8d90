----------------------------- MODULE SessionProofs -----------------------------
(* Proofs about MutationSession, for any requests, faults and number of        *)
(* requests per VM.                                                            *)
EXTENDS MutationSession, TLAPS

Asks == Requests \cup {None}
ServerType ==
    [phase : Phases, kind : Kinds, terminal : Causes \cup {"none"},
     active : Asks, pending : Asks, starts : Nat, served : Nat, closing : BOOLEAN,
     initial : BOOLEAN, notified : BOOLEAN, report : {"none", "yes", "no"},
     exited : BOOLEAN, forced : BOOLEAN, port : BOOLEAN, socket : BOOLEAN,
     eager : BOOLEAN, dirOwner : BOOLEAN, kill : BOOLEAN, ask : BOOLEAN,
     confirmed : BOOLEAN, notes : SUBSET {"start_vm", "recycle_vm", "graceful_stop"},
     deadlines : SUBSET Requests, dirTimers : SUBSET Nat, startup : BOOLEAN,
     cleanup : {"off", "soft", "hard"}]
VmType ==
    [state : {"none", "up", "dead", "strays"},
     step : {"boot", "talking", "closing", "halting"},
     conn : {"none", "pending", "up", "closed"}, frames : Seq(Frames),
     inbox : Seq(Requests \cup {"init", "stop"}), launcher : {"none", "up", "gone"},
     mail : Seq({"yes", "no", "junk", "exit"}), deaf : BOOLEAN]
DirType == [owner : {"none", "making", "waiting", "gone"},
            mail : Seq({"directory", "error", "cleaned"})]
ClientsTyped ==
    /\ asked \subseteq Requests
    /\ answers \in [Requests -> Seq(Answer)]
    /\ wire \in [Requests -> {"no", "sent", "failed"}]
    /\ owner \in BOOLEAN /\ orphan \in BOOLEAN
    /\ opener \in {"waiting", "ok", "error", "gave_up", "aborted"}
    /\ closer \in {"idle", "waiting", "ok", "error"}
Typed == s \in ServerType /\ v \in VmType /\ d \in DirType /\ ClientsTyped

(* Between the start of an instance and the news of its directory there is no  *)
(* port, and the VM before it is gone.                                         *)
Fresh ==
    \/ "start_vm" \in s.notes
    \/ d.owner = "making"
    \/ d.mail # <<>> /\ Head(d.mail) # "cleaned"
DirSound ==
    /\ d.owner = "making" => d.mail = <<>>
    /\ \A k \in DOMAIN d.mail : k > 1 => d.mail[k] = "cleaned"
    /\ "start_vm" \in s.notes => d = NoDir
FreshSound == /\ Fresh => /\ s.phase \in {"starting", "cleaning"}
                          /\ ~s.port /\ s.kind # "recycle" /\ s.report # "yes"
              /\ s.phase = "starting" => Fresh
FreshVm == Fresh => Reaped /\ v.launcher # "up"

(* A report is true, and whatever is confirmed rests on one.                   *)
Reported == s.report = "yes" \/ s.confirmed \/ \E k \in DOMAIN v.mail : v.mail[k] = "yes"
ReportSound == Reported => v.state = "dead" /\ v.launcher = "gone"
EndSound == /\ s.kind = "recycle" => s.phase \in {"stopping", "cleaning"}
            /\ s.confirmed => s.phase = "down"
            /\ closer = "ok" => s.phase = "down" /\ s.confirmed
Instance == DirSound /\ FreshSound /\ FreshVm /\ ReportSound /\ EndSound

(* What the server owes each request. A VM works on the active one, unless its  *)
(* frame could not be sent.                                                    *)
Free == s.active = None \/ wire[s.active] = "failed"
Owed(r) == r \in {s.active, s.pending} /\ wire[r] # "failed"
Account(r) ==
    /\ r \notin asked => answers[r] = <<>> /\ wire[r] = "no" /\ r \notin {s.active, s.pending}
    /\ r \in asked => (answers[r] = <<>> <=> Owed(r))
    /\ Len(answers[r]) > 1 => wire[r] = "failed"
    /\ r = s.pending => wire[r] = "no" /\ r # s.active
    /\ wire[r] = "sent" /\ answers[r] # <<>> /\ Head(answers[r]) \in Causes =>
          s.phase = "down" /\ s.confirmed
Working == ~Free => /\ s.phase \in {"busy", "stopping", "cleaning"}
                    /\ s.kind # "recycle" /\ ~Fresh
Ledger == Working /\ \A r \in Requests : Account(r)

IInv == Typed /\ Instance /\ Ledger

-----------------------------------------------------------------------------
(* The server's state by itself. Most steps are mild: they neither start a VM  *)
(* nor end the session. Most of those are quiet: nobody is owed more or less.  *)
ReportComes == s.port /\ \E k \in DOMAIN v.mail : v.mail[k] = "yes"

Mild(t, u) ==
    /\ u \in ServerType
    /\ u.port = t.port /\ u.confirmed = t.confirmed
    /\ "start_vm" \in u.notes <=> "start_vm" \in t.notes
    /\ u.report = "yes" => t.report = "yes" \/ ReportComes
    /\ u.phase = "down" <=> t.phase = "down"
    /\ u.phase = "starting" => t.phase = "starting"
    /\ t.phase \in {"starting", "cleaning"} /\ ~t.port => u.phase \in {"starting", "cleaning"}
    /\ t.phase \in {"stopping", "cleaning"} => u.phase \in {"stopping", "cleaning"}
    /\ u.kind = "recycle" =>
          t.kind = "recycle" \/ (t.phase = "recycling" /\ u.phase \in {"stopping", "cleaning"})

Quiet(t, u) ==
    /\ Mild(t, u)
    /\ u.active = t.active /\ u.pending = t.pending
    /\ u.phase = "recycling" => t.phase = "recycling"
    /\ t.phase = "busy" => u.phase \in {"busy", "stopping", "cleaning"}

(* Quiet steps follow each other.                                              *)
LEMMA QuietTransitive ==
  ASSUME NEW t, NEW u, NEW w, Quiet(t, u), Quiet(u, w)
  PROVE  Quiet(t, w)
  BY DEF Quiet, Mild

(* begin_failure/2 is quiet.                                                   *)
LEMMA FailureQuiet ==
  ASSUME NEW t \in ServerType, NEW cause \in Causes
  PROVE  Quiet(t, BeginFailure(cause, t))
<1> DEFINE k == IF t.terminal = "none" THEN cause ELSE t.terminal
           told == [t EXCEPT !.terminal = k]
<1>1. k \in Causes \cup {"none"} BY DEF ServerType
<1> HIDE DEF k
<1>2. told \in ServerType BY <1>1 DEF ServerType
<1>3. CASE t.phase = "down"
  BY <1>3 DEF Quiet, Mild, BeginFailure
<1>4. CASE t.phase = "cleaning"
  BY <1>1, <1>2, <1>4 DEF Quiet, Mild, BeginFailure, ServerType, k
<1>5. CASE t.phase = "stopping"
  <2> DEFINE u == [told EXCEPT !.kind = "failure", !.closing = TRUE]
  <2>1. BeginFailure(cause, t) = u BY <1>5 DEF BeginFailure, k
  <2>2. /\ u \in ServerType /\ u.phase = t.phase /\ u.kind = "failure"
        /\ u.active = t.active /\ u.pending = t.pending /\ u.port = t.port
        /\ u.confirmed = t.confirmed /\ u.notes = t.notes /\ u.report = t.report
    BY <1>1 DEF ServerType, Kinds
  <2> HIDE DEF u
  <2> QED BY <1>5, <2>1, <2>2 DEF Quiet, Mild
<1> DEFINE w == [told EXCEPT !.phase = "stopping", !.kind = "failure", !.closing = TRUE,
                             !.startup = FALSE]
<1>6. /\ w \in ServerType /\ w.phase = "stopping" /\ w.kind = "failure"
      /\ w.active = t.active /\ w.pending = t.pending /\ w.port = t.port
      /\ w.confirmed = t.confirmed /\ w.notes = t.notes /\ w.report = t.report
      /\ w.starts = t.starts /\ w.dirTimers = t.dirTimers /\ w.dirOwner = t.dirOwner
  BY <1>1 DEF ServerType, Phases, Kinds
<1> HIDE DEF w
<1>7. CASE t.phase \notin {"down", "cleaning", "stopping"} /\ t.port
  <2>1. BeginFailure(cause, t) = [w EXCEPT !.kill = TRUE, !.cleanup = "soft"]
    BY <1>7 DEF BeginFailure, w, k
  <2> DEFINE u == [w EXCEPT !.kill = TRUE, !.cleanup = "soft"]
  <2>2. /\ u \in ServerType /\ u.phase = w.phase /\ u.kind = w.kind
        /\ u.active = w.active /\ u.pending = w.pending /\ u.port = w.port
        /\ u.confirmed = w.confirmed /\ u.notes = w.notes /\ u.report = w.report
    BY <1>6 DEF ServerType
  <2> HIDE DEF u
  <2>3. u = BeginFailure(cause, t) BY <2>1 DEF u
  <2> QED BY <1>6, <1>7, <2>2, <2>3 DEF Quiet, Mild
<1>8. CASE t.phase \notin {"down", "cleaning", "stopping"} /\ ~t.port
  <2> DEFINE timers == w.dirTimers \cup {w.starts}
  <2>1. BeginFailure(cause, t) = [w EXCEPT !.phase = "cleaning", !.exited = TRUE, !.report = "no",
                                           !.ask = w.dirOwner, !.cleanup = "off",
                                           !.dirTimers = timers]
    BY <1>8, <1>6 DEF BeginFailure, w, k
  <2>2. timers \in SUBSET Nat /\ w.dirOwner \in BOOLEAN BY <1>6 DEF ServerType
  <2> DEFINE u == [w EXCEPT !.phase = "cleaning", !.exited = TRUE, !.report = "no",
                            !.ask = w.dirOwner, !.cleanup = "off", !.dirTimers = timers]
  <2>3. u = BeginFailure(cause, t) BY <2>1
  <2> HIDE DEF timers
  <2>4. /\ u \in ServerType /\ u.phase = "cleaning" /\ u.kind = w.kind
        /\ u.active = w.active /\ u.pending = w.pending /\ u.port = w.port
        /\ u.confirmed = w.confirmed /\ u.notes = w.notes /\ u.report = "no"
    BY <1>6, <2>2 DEF ServerType, Phases
  <2> HIDE DEF u
  <2> QED BY <1>6, <1>8, <2>3, <2>4 DEF Quiet, Mild
<1> QED BY <1>3, <1>4, <1>5, <1>7, <1>8

(* So is what changes none of the fields that the invariant speaks of.        *)
Plain(t, u) ==
    /\ u \in ServerType /\ u.phase = t.phase /\ u.active = t.active /\ u.pending = t.pending
    /\ u.port = t.port /\ u.confirmed = t.confirmed
    /\ "start_vm" \in u.notes <=> "start_vm" \in t.notes
    /\ u.report = "yes" => t.report = "yes" \/ ReportComes
    /\ u.kind = "recycle" => t.kind = "recycle"

(* It is quiet.                                                               *)
LEMMA PlainQuiet ==
  ASSUME NEW t, NEW u, Plain(t, u)
  PROVE  Quiet(t, u)
  BY DEF Plain, Quiet, Mild

(* maybe_finish_instance/1 and cleanup_unconfirmed/1.                         *)
LEMMA DirectoryQuiet ==
  ASSUME NEW t \in ServerType, t.phase \in {"stopping", "recycling"}
  PROVE  Quiet(t, CleanDirectory(t)) /\ Quiet(t, CleanupUnconfirmed(t))
<1>1. \A w \in ServerType : w.phase \in {"stopping", "recycling"} => Quiet(w, CleanDirectory(w))
  <2> SUFFICES ASSUME NEW w \in ServerType, w.phase \in {"stopping", "recycling"}
               PROVE  Quiet(w, CleanDirectory(w))
    OBVIOUS
  <2> DEFINE timers == w.dirTimers \cup {w.starts}
             u == [w EXCEPT !.phase = "cleaning", !.cleanup = "off", !.ask = TRUE,
                            !.dirTimers = timers]
  <2>1. u = CleanDirectory(w) BY DEF CleanDirectory
  <2>2. timers \in SUBSET Nat BY DEF ServerType
  <2> HIDE DEF timers
  <2>3. /\ u \in ServerType /\ u.phase = "cleaning" /\ u.kind = w.kind
        /\ u.active = w.active /\ u.pending = w.pending /\ u.port = w.port
        /\ u.confirmed = w.confirmed /\ u.notes = w.notes /\ u.report = w.report
    BY <2>2 DEF ServerType, Phases
  <2> HIDE DEF u
  <2> QED BY <2>1, <2>3 DEF Quiet, Mild
<1> DEFINE x == [t EXCEPT !.exited = TRUE, !.report = "no"]
<1>2. Plain(t, x) BY DEF Plain, ServerType
<1>3. CleanupUnconfirmed(t) = CleanDirectory(x) BY DEF CleanupUnconfirmed
<1> HIDE DEF x
<1>4. x \in ServerType /\ x.phase \in {"stopping", "recycling"} BY <1>2 DEF Plain
<1> QED BY <1>1, <1>2, <1>3, <1>4, PlainQuiet, QuietTransitive

(* Whether the instance ends, goes on, or failed in between.                  *)
LEMMA FinishQuiet ==
  ASSUME NEW t \in ServerType
  PROVE  Quiet(t, MaybeFinish(t))
<1>1. "failed" \in Causes BY DEF Causes
<1>2. Plain(t, t) BY DEF Plain
<1>3. \/ MaybeFinish(t) = t
      \/ MaybeFinish(t) = BeginFailure("failed", t)
      \/ /\ t.phase \in {"stopping", "recycling"}
         /\ MaybeFinish(t) \in {CleanDirectory(t), CleanupUnconfirmed(t)}
  BY DEF MaybeFinish
<1> QED BY <1>1, <1>2, <1>3, PlainQuiet, DirectoryQuiet, FailureQuiet

(* begin_force_stop/1 and startup_failed/2.                                   *)
LEMMA ForceQuiet ==
  ASSUME NEW t \in ServerType
  PROVE  Quiet(t, ForceStop(t))
<1> DEFINE x == [t EXCEPT !.kill = TRUE]
           u == BeginFailure("failed", x)
           c == IF u.cleanup = "off" THEN "soft" ELSE u.cleanup
           w == [u EXCEPT !.cleanup = c]
<1>1. Plain(t, x) /\ x \in ServerType BY DEF Plain, ServerType
<1>2. "failed" \in Causes BY DEF Causes
<1>3. Quiet(x, u) BY <1>1, <1>2, FailureQuiet
<1>4. ForceStop(t) = w BY DEF ForceStop
<1> HIDE DEF x, u
<1>5. u \in ServerType BY <1>3 DEF Quiet, Mild
<1>6. c \in {"off", "soft", "hard"} BY <1>5 DEF ServerType
<1> HIDE DEF c
<1>7. Plain(u, w) BY <1>5, <1>6 DEF Plain, ServerType
<1> HIDE DEF w
<1> QED BY <1>1, <1>3, <1>4, <1>7, PlainQuiet, QuietTransitive

(* A startup that fails is marked and then fails like the rest.               *)
LEMMA StartupQuiet ==
  ASSUME NEW t \in ServerType
  PROVE  Quiet(t, StartupFailed(t))
<1> DEFINE x == [t EXCEPT !.initial = FALSE, !.notified = TRUE, !.closing = TRUE,
                          !.kind = "failure"]
<1>1. /\ x \in ServerType /\ x.phase = t.phase /\ x.active = t.active
      /\ x.pending = t.pending /\ x.port = t.port /\ x.confirmed = t.confirmed
      /\ x.notes = t.notes /\ x.report = t.report /\ x.kind = "failure"
  BY DEF ServerType, Kinds
<1>2. "failed" \in Causes BY DEF Causes
<1>3. StartupFailed(t) = BeginFailure("failed", x) BY DEF StartupFailed
<1> HIDE DEF x
<1>4. Plain(t, x) BY <1>1 DEF Plain
<1> QED BY <1>1, <1>2, <1>3, <1>4, PlainQuiet, FailureQuiet, QuietTransitive

(* A request whose deadline is over, a frame that was heard.                  *)
LEMMA RepliedPlain ==
  ASSUME NEW t \in ServerType
  PROVE  /\ Plain(t, Deaf(t))
         /\ Plain(t, [Deaf(t) EXCEPT !.socket = FALSE])
         /\ \A r : Plain(t, Replied(t, r))
<1>1. Plain(t, Deaf(t)) BY DEF Plain, ServerType, Deaf
<1>2. Plain(t, [Deaf(t) EXCEPT !.socket = FALSE]) BY DEF Plain, ServerType, Deaf
<1>3. ASSUME NEW r PROVE Plain(t, Replied(t, r)) BY DEF Plain, ServerType, Replied
<1> QED BY <1>1, <1>2, <1>3

-----------------------------------------------------------------------------
(* What the steps do to the VM and to the answers.                             *)
VmQuiet(w, x) ==
    /\ x \in VmType /\ x.state = w.state /\ x.launcher = w.launcher
    /\ (\E k \in DOMAIN x.mail : x.mail[k] = "yes") => \E k \in DOMAIN w.mail : w.mail[k] = "yes"

(* Sequences that grow and shrink at their ends.                              *)
LEMMA Appended ==
  ASSUME NEW S, NEW q \in Seq(S), NEW e \in S
  PROVE  /\ Append(q, e) \in Seq(S) /\ Append(q, e) # <<>> /\ Len(Append(q, e)) = Len(q) + 1
         /\ Head(Append(q, e)) = IF q = <<>> THEN e ELSE Head(q)
         /\ \A k \in DOMAIN Append(q, e) : Append(q, e)[k] = e \/ (k \in DOMAIN q /\ Append(q, e)[k] = q[k])
<1> DEFINE n == Len(q)
<1>1. n \in Nat /\ q \in [1..n -> S] OBVIOUS
<1>2. /\ Append(q, e) \in Seq(S) /\ Len(Append(q, e)) = n + 1
      /\ \A k \in 1..(n + 1) : Append(q, e)[k] = IF k = n + 1 THEN e ELSE q[k]
  OBVIOUS
<1>3. DOMAIN Append(q, e) = 1..(n + 1) BY <1>1, <1>2
<1>4. q = <<>> <=> n = 0 OBVIOUS
<1>5. Append(q, e) # <<>> BY <1>1, <1>2
<1>6. Head(q) = q[1] /\ Head(Append(q, e)) = Append(q, e)[1] OBVIOUS
<1> HIDE DEF n
<1>7. Head(Append(q, e)) = IF q = <<>> THEN e ELSE Head(q) BY <1>1, <1>2, <1>4, <1>6
<1> QED BY <1>1, <1>2, <1>3, <1>5, <1>7 DEF n

(* What is taken from the front leaves the others in their order.             *)
LEMMA Shortened ==
  ASSUME NEW S, NEW q \in Seq(S), q # <<>>
  PROVE  /\ Tail(q) \in Seq(S) /\ Head(q) \in S
         /\ \A k \in DOMAIN Tail(q) : k + 1 \in DOMAIN q /\ Tail(q)[k] = q[k + 1]
  OBVIOUS

(* The operators on the connection leave VM and launcher alone.               *)
LEMMA ConnectionQuiet ==
  ASSUME NEW w \in VmType
  PROVE  /\ VmQuiet(w, w) /\ VmQuiet(w, Shut(w)) /\ VmQuiet(w, Hangup(w))
         /\ w.frames # <<>> => VmQuiet(w, Read(w)) /\ Head(w.frames) \in Frames
<1>0. <<>> \in Seq(Frames) /\ <<>> \in Seq(Requests \cup {"init", "stop"}) OBVIOUS
<1>1. VmQuiet(w, Shut(w))
  <2> DEFINE c == IF w.conn = "none" THEN "none" ELSE "closed"
  <2>1. Shut(w) = [w EXCEPT !.conn = c, !.frames = <<>>] BY DEF Shut, VmType
  <2>2. c \in {"none", "closed"} OBVIOUS
  <2> HIDE DEF c
  <2> QED BY <1>0, <2>1, <2>2 DEF VmQuiet, VmType
<1>2. VmQuiet(w, Hangup(w))
  <2> DEFINE c == IF w.conn = "none" THEN "none" ELSE "closed"
             f == IF w.conn \in {"pending", "up"} THEN Append(w.frames, "closed") ELSE w.frames
  <2>1. Hangup(w) = [w EXCEPT !.conn = c, !.frames = f, !.inbox = <<>>] BY DEF Hangup, VmType
  <2>2. "closed" \in Frames /\ w.frames \in Seq(Frames) BY DEF Frames, VmType
  <2>3. f \in Seq(Frames) BY <2>2, Appended
  <2>4. c \in {"none", "closed"} OBVIOUS
  <2> HIDE DEF c, f
  <2> QED BY <1>0, <2>1, <2>3, <2>4 DEF VmQuiet, VmType
<1>3. ASSUME w.frames # <<>> PROVE VmQuiet(w, Read(w)) /\ Head(w.frames) \in Frames
  <2>1. w.frames \in Seq(Frames) BY DEF VmType
  <2>2. Tail(w.frames) \in Seq(Frames) /\ Head(w.frames) \in Frames BY <1>3, <2>1, Shortened
  <2> QED BY <2>2 DEF VmQuiet, VmType, Read
<1> QED BY <1>1, <1>2, <1>3 DEF VmQuiet

(* send_frame/2.                                                              *)
LEMMA SentQuiet ==
  ASSUME NEW w \in VmType
  PROVE  /\ \A m \in Requests \cup {"init", "stop"} :
               VmQuiet(w, [w EXCEPT !.inbox = Append(w.inbox, m)])
         /\ VmQuiet(w, [w EXCEPT !.conn = "closed", !.frames = <<"closed">>])
         /\ VmQuiet(w, [w EXCEPT !.conn = "closed", !.frames = <<>>])
         /\ VmQuiet(w, [w EXCEPT !.conn = "up"])
         /\ VmQuiet(w, [w EXCEPT !.conn = "closed"])
<1>1. ASSUME NEW m \in Requests \cup {"init", "stop"}
      PROVE  VmQuiet(w, [w EXCEPT !.inbox = Append(w.inbox, m)])
  <2>1. Append(w.inbox, m) \in Seq(Requests \cup {"init", "stop"}) BY Appended DEF VmType
  <2> QED BY <2>1 DEF VmQuiet, VmType
<1>2. "closed" \in Frames BY DEF Frames
<1>3. <<"closed">> \in Seq(Frames) /\ <<>> \in Seq(Frames) BY <1>2
<1>4. VmQuiet(w, [w EXCEPT !.conn = "closed", !.frames = <<"closed">>]) BY <1>3 DEF VmQuiet, VmType
<1>5. VmQuiet(w, [w EXCEPT !.conn = "closed", !.frames = <<>>]) BY <1>3 DEF VmQuiet, VmType
<1>6. VmQuiet(w, [w EXCEPT !.conn = "up"]) BY DEF VmQuiet, VmType
<1>7. VmQuiet(w, [w EXCEPT !.conn = "closed"]) BY DEF VmQuiet, VmType
<1> QED BY <1>1, <1>4, <1>5, <1>6, <1>7

(* A frame that goes out, and one that does not.                              *)
LEMMA SendsQuiet ==
  ASSUME v \in VmType
  PROVE  /\ \A m \in Requests \cup {"init", "stop"} : Sent(m) => VmQuiet(v, v')
         /\ SendFails => VmQuiet(v, v')
<1>1. \A m \in Requests \cup {"init", "stop"} : Sent(m) => VmQuiet(v, v')
  BY SentQuiet DEF Sent
<1>2. ASSUME SendFails PROVE VmQuiet(v, v')
  <2>1. CASE v.conn = "up"
    <3>1. v' = [v EXCEPT !.conn = "closed", !.frames = <<"closed">>] BY <1>2, <2>1 DEF SendFails
    <3> QED BY <3>1, SentQuiet
  <2>2. CASE v.conn # "up"
    <3>1. v' = [v EXCEPT !.conn = "closed"] BY <1>2, <2>2 DEF SendFails, VmType
    <3> QED BY <3>1, SentQuiet
  <2> QED BY <2>1, <2>2
<1> QED BY <1>1, <1>2

(* Such changes follow each other.                                            *)
LEMMA QuietVmTransitive ==
  ASSUME NEW w, NEW x, NEW y, VmQuiet(w, x), VmQuiet(x, y)
  PROVE  VmQuiet(w, y)
  BY DEF VmQuiet

(* reply_request/3.                                                           *)
LEMMA ReplyAnswers ==
  ASSUME ClientsTyped, NEW rs, NEW result \in Answer, Reply(rs, result)
  PROVE  /\ answers' \in [Requests -> Seq(Answer)]
         /\ \A r \in Requests \ rs : answers'[r] = answers[r]
         /\ \A r \in Requests \cap rs :
               /\ answers'[r] # <<>> /\ Len(answers'[r]) = Len(answers[r]) + 1
               /\ answers[r] = <<>> => Len(answers'[r]) = 1 /\ Head(answers'[r]) = result
               /\ answers[r] # <<>> => Head(answers'[r]) = Head(answers[r])
<1>1. answers \in [Requests -> Seq(Answer)] BY DEF ClientsTyped
<1>2. \A r \in Requests : Append(answers[r], result) \in Seq(Answer) BY <1>1, Appended
<1>3. answers' \in [Requests -> Seq(Answer)] BY <1>1, <1>2 DEF Reply
<1>4. \A r \in Requests \ rs : answers'[r] = answers[r] BY DEF Reply
<1>5. ASSUME NEW r \in Requests \cap rs
      PROVE  /\ answers'[r] # <<>> /\ Len(answers'[r]) = Len(answers[r]) + 1
             /\ answers[r] = <<>> => Len(answers'[r]) = 1 /\ Head(answers'[r]) = result
             /\ answers[r] # <<>> => Head(answers'[r]) = Head(answers[r])
  <2>1. PICK q \in Seq(Answer) : q = answers[r] BY <1>1
  <2>2. answers'[r] = Append(q, result) BY <2>1 DEF Reply
  <2>3. q = <<>> => Len(q) = 0 OBVIOUS
  <2> QED BY <2>1, <2>2, <2>3, Appended
<1> QED BY <1>3, <1>4, <1>5

-----------------------------------------------------------------------------
(* The instance. Whatever is mild keeps it, as long as the news of the         *)
(* directory is not overtaken.                                                *)
LEMMA InstanceKept ==
  ASSUME Typed, Instance, Mild(s, s'), VmQuiet(v, v'), DirSound', Fresh' => Fresh,
         s'.phase = "starting" => Fresh', closer' = "ok" => closer = "ok"
  PROVE  Instance'
<1>1. FreshSound'
  BY DEF FreshSound, Mild, Instance, EndSound, ReportComes
<1>2. FreshVm'
  BY DEF FreshVm, Instance, Reaped, VmQuiet
<1>3. ReportSound'
  BY DEF ReportSound, Reported, Instance, VmQuiet, Mild, ReportComes
<1>4. EndSound'
  BY DEF EndSound, Instance, Mild
<1> QED BY <1>1, <1>2, <1>3, <1>4 DEF Instance

(* The same when the directory is left alone.                                 *)
LEMMA FreshKept ==
  ASSUME Instance, Mild(s, s'), UNCHANGED d
  PROVE  DirSound' /\ (Fresh' <=> Fresh) /\ (s'.phase = "starting" => Fresh')
  BY DEF Instance, DirSound, FreshSound, Fresh, Mild

(* A mild step of the server that leaves directory and clients alone, but for  *)
(* what those who open, own and close the session know.                        *)
Known ==
    /\ owner' \in BOOLEAN /\ orphan' \in BOOLEAN
    /\ opener' \in {"waiting", "ok", "error", "gave_up", "aborted"}
    /\ closer' \in {"idle", "waiting", "ok", "error"}
    /\ closer' = "ok" => closer = "ok"

(* Nobody is owed more or less.                                               *)
LEMMA LedgerKept ==
  ASSUME Typed, Instance, Ledger, Quiet(s, s'), Fresh' => Fresh,
         UNCHANGED <<asked, answers, wire>>
  PROVE  Ledger'
<1>1. Working'
  BY DEF Ledger, Working, Free, Quiet, Mild, Instance, FreshSound, EndSound
<1>2. \A r \in Requests : Account(r)'
  BY DEF Ledger, Account, Owed, Quiet, Mild
<1> QED BY <1>1, <1>2 DEF Ledger

(* A quiet step that leaves directory and answers alone keeps it all.         *)
LEMMA QuietStep ==
  ASSUME IInv, Quiet(s, s'), VmQuiet(v, v'), Known, UNCHANGED <<d, asked, answers, wire>>
  PROVE  IInv'
<1>1. Typed /\ Instance /\ Ledger /\ Mild(s, s') BY DEF IInv, Quiet
<1>2. Typed' BY <1>1 DEF Typed, ClientsTyped, Known, Mild, VmQuiet
<1>3. Instance' BY <1>1, FreshKept, InstanceKept DEF Known
<1>4. Ledger' BY <1>1, FreshKept, LedgerKept
<1> QED BY <1>2, <1>3, <1>4 DEF IInv

(* The request that waits for the next VM is answered and no longer waits.    *)
LEMMA PendingAnswered ==
  ASSUME IInv, s.pending # None, NEW result \in Answer, Reply({s.pending}, result),
         NEW u, Quiet(s, u), s' = [u EXCEPT !.pending = None], VmQuiet(v, v'), Known,
         UNCHANGED <<d, asked, wire>>
  PROVE  IInv'
<1>1. Typed /\ Instance /\ Ledger BY DEF IInv
<1>2. /\ s' \in ServerType /\ s'.pending = None /\ s'.active = u.active /\ s'.phase = u.phase
      /\ s'.kind = u.kind /\ s'.port = u.port /\ s'.confirmed = u.confirmed /\ s'.notes = u.notes
      /\ s'.report = u.report
  BY DEF Quiet, Mild, ServerType, Asks
<1>3. Mild(s, s') BY <1>2 DEF Mild, Quiet
<1>5. Instance' BY <1>1, <1>3, FreshKept, InstanceKept DEF Known
<1>6. ClientsTyped /\ s.pending \in Requests
  BY <1>1 DEF Typed, ServerType, Asks
<1>7. /\ answers' \in [Requests -> Seq(Answer)]
      /\ \A r \in Requests \ {s.pending} : answers'[r] = answers[r]
      /\ answers'[s.pending] # <<>>
      /\ answers[s.pending] = <<>> => Len(answers'[s.pending]) = 1
  BY <1>6, ReplyAnswers
<1>8. Typed' BY <1>1, <1>2, <1>7 DEF Typed, ClientsTyped, Known, VmQuiet
<1>9. Working'
  BY <1>1, <1>2, <1>3, FreshKept DEF Ledger, Working, Free, Quiet, Mild, Instance, FreshSound, EndSound
<1>10. \A r \in Requests : Account(r)'
  <2> SUFFICES ASSUME NEW r \in Requests PROVE Account(r)' OBVIOUS
  <2>1. CASE r # s.pending
    <3>1. Account(r) /\ r # None /\ answers'[r] = answers[r]
      BY <1>1, <1>7, <2>1, SessionAssumption DEF Ledger
    <3>2. /\ s'.active = s.active /\ s'.pending = None /\ (s'.phase = "down" <=> s.phase = "down")
          /\ s'.confirmed = s.confirmed /\ wire' = wire /\ asked' = asked
      BY <1>2 DEF Quiet, Mild
    <3> QED BY <2>1, <3>1, <3>2 DEF Account, Owed
  <2>2. CASE r = s.pending
    <3>1. wire'[r] = "no" /\ r # s.active /\ r \in asked /\ answers[r] = <<>>
      BY <1>1, <1>6, <2>2 DEF Ledger, Account, Owed
    <3>2. s'.active = s.active /\ s'.pending = None /\ wire' = wire /\ asked' = asked
      BY <1>2 DEF Quiet
    <3>3. r # None /\ answers'[r] # <<>> /\ Len(answers'[r]) = 1
      BY <1>7, <2>2, <3>1, SessionAssumption
    <3> QED BY <3>1, <3>2, <3>3 DEF Account, Owed
  <2> QED BY <2>1, <2>2
<1> QED BY <1>5, <1>8, <1>9, <1>10 DEF IInv, Ledger

(* The quiet steps of the server: fields the invariant does not speak of, a    *)
(* failure, and the end of a startup.                                         *)
LEMMA PlainStep ==
  ASSUME IInv, Plain(s, s'), VmQuiet(v, v'), Known, UNCHANGED <<d, asked, answers, wire>>
  PROVE  IInv'
  BY PlainQuiet, QuietStep

(* begin_failure/2, after some fields that do not matter.                     *)
LEMMA FailureStep ==
  ASSUME IInv, NEW u, Plain(s, u), NEW cause \in Causes, s' = BeginFailure(cause, u),
         VmQuiet(v, v'), Known, UNCHANGED <<d, asked, answers, wire>>
  PROVE  IInv'
<1>1. u \in ServerType BY DEF Plain
<1>2. Quiet(s, s') BY <1>1, PlainQuiet, FailureQuiet, QuietTransitive
<1> QED BY <1>2, QuietStep

(* startup_failed/2, and who opens the session is told.                       *)
LEMMA StartupStep ==
  ASSUME IInv, NEW u, Plain(s, u), s' = StartupFailed(u), VmQuiet(v, v'),
         opener' = ToldOfStartup(s, "error"),
         UNCHANGED <<d, asked, answers, wire, owner, orphan, closer>>
  PROVE  IInv'
<1>1. u \in ServerType BY DEF Plain
<1>2. Quiet(s, s') BY <1>1, PlainQuiet, StartupQuiet, QuietTransitive
<1>3. Known BY DEF Known, IInv, Typed, ClientsTyped, ToldOfStartup
<1> QED BY <1>2, <1>3, QuietStep

(* Who opens, owns and closes knows nothing new.                              *)
LEMMA StillKnown ==
  ASSUME IInv, UNCHANGED <<owner, orphan, opener, closer>>
  PROVE  Known
  BY DEF IInv, Typed, ClientsTyped, Known

(* What most steps start from.                                                *)
LEMMA Ground ==
  ASSUME IInv
  PROVE  /\ s \in ServerType /\ Plain(s, s) /\ v \in VmType /\ VmQuiet(v, v)
         /\ d \in DirType /\ ClientsTyped
         /\ Plain(s, [s EXCEPT !.closing = TRUE])
         /\ Causes \subseteq Answer
         /\ {"failed", "cancelled", "timeout", "owner_down", "session_closed"} \subseteq Causes
         /\ {"refused", "value", "ok", "stopped", "unconfirmed"} \subseteq Answer
<1>1. Plain(s, [s EXCEPT !.closing = TRUE]) BY DEF IInv, Typed, Plain, ServerType
<1> QED BY <1>1, ConnectionQuiet DEF IInv, Typed, Plain, Causes, Answer

-----------------------------------------------------------------------------
(* The clients.                                                                *)
LEMMA CancelKept ==
  ASSUME IInv, NEW r \in Requests, Cancel(r) \/ ClientDown(r) \/ RequestDeadline(r)
  PROVE  IInv'
<1>1. Known BY StillKnown DEF Cancel, ClientDown, RequestDeadline, clients
<1>2. s \in ServerType /\ Plain(s, Replied(s, r)) BY Ground, RepliedPlain
<1>3. UNCHANGED <<v, d, asked, wire>> BY DEF Cancel, ClientDown, RequestDeadline, clients
<1>4. VmQuiet(v, v') BY <1>3, Ground
<1>5. r # None BY SessionAssumption
<1>6. CASE /\ UNCHANGED answers
           /\ \/ s' = BeginFailure("cancelled", s)
              \/ s' = BeginFailure("timeout", Replied(s, r))
              \/ s' = Replied(s, r)
  <2>1. CASE s' = BeginFailure("cancelled", s) BY <1>1, <1>3, <1>4, <1>6, <2>1, Ground, FailureStep
  <2>2. CASE s' = BeginFailure("timeout", Replied(s, r))
    BY <1>1, <1>2, <1>3, <1>4, <1>6, <2>2, Ground, FailureStep
  <2>3. CASE s' = Replied(s, r) BY <1>1, <1>2, <1>3, <1>4, <1>6, <2>3, PlainStep
  <2> QED BY <1>6, <2>1, <2>2, <2>3
<1>7. CASE /\ s.pending = r /\ s' = [Replied(s, r) EXCEPT !.pending = None]
           /\ Reply({r}, "cancelled") \/ Reply({r}, "timeout")
  <2>1. PICK result \in Answer : Reply({r}, result) BY <1>7, Ground
  <2> QED BY <1>1, <1>2, <1>3, <1>4, <1>5, <1>7, <2>1, PlainQuiet, PendingAnswered
<1> QED BY <1>6, <1>7 DEF Cancel, ClientDown, RequestDeadline, clients

(* close/3, in each phase.                                                    *)
LEMMA CloseKept ==
  ASSUME IInv, Close
  PROVE  IInv'
<1>1. Known BY DEF Close, Known, IInv, Typed, ClientsTyped
<1>2. UNCHANGED <<v, d, asked, wire>> BY DEF Close
<1>3. VmQuiet(v, v') /\ s \in ServerType BY <1>2, Ground
<1> DEFINE x == [s EXCEPT !.closing = TRUE]
<1>4. Plain(s, x) BY Ground
<1>5. CASE UNCHANGED <<s, answers>>
  BY <1>1, <1>2, <1>3, <1>5, Ground, PlainStep
<1>6. CASE /\ s.phase = "ready" /\ UNCHANGED answers
           /\ s' = [s EXCEPT !.phase = "stopping", !.kind = "close",
                             !.notes = s.notes \cup {"graceful_stop"}]
  <2> DEFINE n == s.notes \cup {"graceful_stop"}
  <2>1. n \in SUBSET {"start_vm", "recycle_vm", "graceful_stop"} BY <1>3 DEF ServerType
  <2>2. "start_vm" \in n <=> "start_vm" \in s.notes OBVIOUS
  <2> HIDE DEF n
  <2>3. /\ s' \in ServerType /\ s'.phase = "stopping" /\ s'.kind = "close" /\ s'.notes = n
        /\ s'.active = s.active /\ s'.pending = s.pending /\ s'.port = s.port
        /\ s'.confirmed = s.confirmed /\ s'.report = s.report
    BY <1>3, <1>6, <2>1 DEF ServerType, Phases, Kinds, n
  <2>4. Quiet(s, s') BY <1>6, <2>2, <2>3 DEF Quiet, Mild
  <2> QED BY <1>1, <1>2, <1>3, <1>6, <2>4, QuietStep
<1>7. CASE UNCHANGED answers /\ \E cause \in {"cancelled", "session_closed"} : s' = BeginFailure(cause, x)
  <2>1. PICK cause \in Causes : s' = BeginFailure(cause, x) BY <1>7, Ground
  <2> HIDE DEF x
  <2> QED BY <1>1, <1>2, <1>3, <1>4, <1>7, <2>1, FailureStep
<1>8. CASE /\ Reply({s.pending} \ {None}, "cancelled")
           /\ s' = [s EXCEPT !.closing = TRUE, !.pending = None, !.deadlines = s.deadlines \ {s.pending}]
  <2> DEFINE y == [x EXCEPT !.deadlines = s.deadlines \ {s.pending}]
  <2>1. s' = [y EXCEPT !.pending = None] BY <1>3, <1>8 DEF ServerType
  <2>2. Plain(s, y) /\ y \in ServerType BY <1>3 DEF Plain, ServerType
  <2>3. CASE s.pending = None
    <3>1. s' = y BY <1>3, <1>8, <2>1, <2>3 DEF ServerType
    <3>2. answers' = answers
      BY <1>8, <2>3, Ground DEF Reply, ClientsTyped
    <3> QED BY <1>1, <1>2, <1>3, <2>2, <3>1, <3>2, PlainStep
  <2>4. CASE s.pending # None
    <3>1. Reply({s.pending}, "cancelled") /\ "cancelled" \in Answer
      BY <1>8, <2>4, Ground DEF Reply
    <3> HIDE DEF y
    <3> QED BY <1>1, <1>2, <1>3, <2>1, <2>2, <2>4, <3>1, PlainQuiet, PendingAnswered
  <2> QED BY <2>3, <2>4
<1> QED BY <1>5, <1>6, <1>7, <1>8 DEF Close

(* open/2 that gives up, and the death of the owner.                          *)
LEMMA OpenersKept ==
  ASSUME IInv, GiveUp \/ AbortOpen \/ OwnerDown
  PROVE  IInv'
<1>1. Known
  <2>1. ClientsTyped BY Ground
  <2>2. CASE GiveUp \/ AbortOpen BY <2>1, <2>2 DEF GiveUp, AbortOpen, Known, ClientsTyped
  <2>3. CASE OwnerDown
    <3>1. orphan' \in BOOLEAN BY <2>3 DEF OwnerDown
    <3>2. owner' \in BOOLEAN /\ UNCHANGED <<opener, closer>> BY <2>3 DEF OwnerDown
    <3> QED BY <2>1, <3>1, <3>2 DEF Known, ClientsTyped
  <2> QED BY <2>2, <2>3
<1>2. UNCHANGED <<v, d, asked, answers, wire>> BY DEF GiveUp, AbortOpen, OwnerDown
<1>3. VmQuiet(v, v') /\ s \in ServerType BY <1>2, Ground
<1>4. CASE GiveUp BY <1>1, <1>2, <1>3, <1>4, Ground, PlainStep DEF GiveUp
<1>5. CASE AbortOpen
  <2>1. Plain(s, [s EXCEPT !.notified = TRUE, !.closing = TRUE]) BY <1>3 DEF Plain, ServerType
  <2> QED BY <1>1, <1>2, <1>3, <1>5, <2>1, Ground, FailureStep DEF AbortOpen
<1>6. CASE OwnerDown
  BY <1>1, <1>2, <1>3, <1>6, Ground, FailureStep DEF OwnerDown
<1> QED BY <1>4, <1>5, <1>6

(* submit/6 in its four ways.                                                  *)
LEMMA SubmitKept ==
  ASSUME IInv, NEW r \in Requests, Submit(r)
  PROVE  IInv'
<1>1. Known BY StillKnown DEF Submit
<1>2. /\ Typed /\ Instance /\ Ledger /\ s \in ServerType /\ v \in VmType /\ ClientsTyped
      /\ Plain(s, s) /\ VmQuiet(v, v) /\ "refused" \in Answer /\ "refused" \notin Causes
  BY Ground DEF IInv, Causes
<1>3. r \notin asked /\ asked' = asked \cup {r} /\ UNCHANGED d BY DEF Submit
<1>4. /\ answers[r] = <<>> /\ wire[r] = "no" /\ r \notin {s.active, s.pending}
      /\ r # None /\ asked' \subseteq Requests
  BY <1>2, <1>3, SessionAssumption DEF Ledger, Account, ClientsTyped
<1>5. /\ wire \in [Requests -> {"no", "sent", "failed"}] /\ answers \in [Requests -> Seq(Answer)]
  BY <1>2 DEF ClientsTyped
<1>6. s.phase = "ready" => Free /\ ~Fresh /\ s.kind # "recycle"
  BY <1>2 DEF Ledger, Working, Instance, FreshSound, EndSound
<1>a. \A q \in Requests : Account(q) BY <1>2 DEF Ledger
<1>b. /\ s' \in ServerType /\ wire' \in [Requests -> {"no", "sent", "failed"}]
      /\ answers' \in [Requests -> Seq(Answer)] /\ v' \in VmType
      => Typed'
  BY <1>1, <1>2, <1>3, <1>4 DEF Typed, ClientsTyped, Known
<1>c. Mild(s, s') /\ VmQuiet(v, v') => Instance' /\ v' \in VmType /\ (Fresh' <=> Fresh)
  BY <1>1, <1>2, <1>3, FreshKept, InstanceKept DEF Known, VmQuiet
<1>7. CASE /\ s.phase = "ready" /\ Sent(r)
           /\ s' = [s EXCEPT !.phase = "busy", !.active = r, !.deadlines = s.deadlines \cup {r}]
           /\ wire' = [wire EXCEPT ![r] = "sent"] /\ UNCHANGED answers
  <2>1. VmQuiet(v, v') BY <1>2, <1>7, SendsQuiet
  <2>2. /\ s' \in ServerType /\ s'.phase = "busy" /\ s'.active = r /\ s'.pending = s.pending
        /\ s'.kind = s.kind /\ s'.port = s.port /\ s'.confirmed = s.confirmed
        /\ s'.notes = s.notes /\ s'.report = s.report
    BY <1>2, <1>7 DEF ServerType, Phases, Asks
  <2>3. Mild(s, s') BY <1>6, <1>7, <2>2 DEF Mild
  <2>4. wire' \in [Requests -> {"no", "sent", "failed"}] /\ wire'[r] = "sent"
        /\ \A q \in Requests \ {r} : wire'[q] = wire[q]
    BY <1>5, <1>7
  <2>5. Working' BY <1>6, <1>7, <1>c, <2>1, <2>2, <2>3 DEF Working
  <2>6. \A q \in Requests : Account(q)'
    <3> SUFFICES ASSUME NEW q \in Requests PROVE Account(q)' OBVIOUS
    <3>1. answers' = answers BY <1>7
    <3>2. CASE q = r BY <1>3, <1>4, <2>2, <2>4, <3>1, <3>2 DEF Account, Owed
    <3>3. CASE q # r
      <4>1. Account(q) /\ wire'[q] = wire[q] BY <1>a, <2>4, <3>3
      <4>2. q = s.active => wire[q] = "failed" BY <1>6, <1>7, SessionAssumption DEF Free
      <4> QED BY <1>3, <1>7, <2>2, <3>1, <3>3, <4>1, <4>2 DEF Account, Owed
    <3> QED BY <3>2, <3>3
  <2> QED BY <1>5, <1>7, <1>b, <1>c, <2>1, <2>2, <2>3, <2>4, <2>5, <2>6 DEF IInv, Ledger
<1>8. CASE /\ s.phase = "ready" /\ SendFails
           /\ s' = [s EXCEPT !.active = r, !.deadlines = s.deadlines \cup {r}]
           /\ wire' = [wire EXCEPT ![r] = "failed"] /\ Reply({r}, "refused")
  <2>1. VmQuiet(v, v') BY <1>2, <1>8, SendsQuiet
  <2>2. /\ s' \in ServerType /\ s'.phase = "ready" /\ s'.active = r /\ s'.pending = s.pending
        /\ s'.kind = s.kind /\ s'.port = s.port /\ s'.confirmed = s.confirmed
        /\ s'.notes = s.notes /\ s'.report = s.report
    BY <1>2, <1>8 DEF ServerType, Asks
  <2>3. Mild(s, s') BY <1>6, <1>8, <2>2 DEF Mild
  <2>4. wire' \in [Requests -> {"no", "sent", "failed"}] /\ wire'[r] = "failed"
        /\ \A q \in Requests \ {r} : wire'[q] = wire[q]
    BY <1>5, <1>8
  <2>5. Working' BY <2>2, <2>4 DEF Working, Free
  <2>6. /\ answers' \in [Requests -> Seq(Answer)] /\ answers'[r] # <<>>
        /\ \A q \in Requests \ {r} : answers'[q] = answers[q]
    BY <1>2, <1>8, ReplyAnswers
  <2>7. \A q \in Requests : Account(q)'
    <3> SUFFICES ASSUME NEW q \in Requests PROVE Account(q)' OBVIOUS
    <3>2. CASE q = r BY <1>3, <1>4, <2>2, <2>4, <2>6, <3>2 DEF Account, Owed
    <3>3. CASE q # r
      <4>1. Account(q) /\ wire'[q] = wire[q] /\ answers'[q] = answers[q] BY <1>a, <2>4, <2>6, <3>3
      <4>2. q = s.active => wire[q] = "failed" BY <1>6, <1>8, SessionAssumption DEF Free
      <4> QED BY <1>3, <1>8, <2>2, <3>3, <4>1, <4>2 DEF Account, Owed
    <3> QED BY <3>2, <3>3
  <2> QED BY <1>b, <1>c, <2>1, <2>2, <2>3, <2>4, <2>5, <2>6, <2>7 DEF IInv, Ledger
<1>9. CASE /\ s.pending = None /\ UNCHANGED <<v, answers, wire>>
           /\ s' = [s EXCEPT !.pending = r, !.deadlines = s.deadlines \cup {r}]
  <2>1. VmQuiet(v, v') BY <1>2, <1>9
  <2>2. /\ s' \in ServerType /\ s'.phase = s.phase /\ s'.active = s.active /\ s'.pending = r
        /\ s'.kind = s.kind /\ s'.port = s.port /\ s'.confirmed = s.confirmed
        /\ s'.notes = s.notes /\ s'.report = s.report
    BY <1>2, <1>9 DEF ServerType, Asks
  <2>3. Mild(s, s') BY <2>2 DEF Mild
  <2>4. Instance' /\ v' \in VmType /\ (Fresh' <=> Fresh) BY <1>c, <2>1, <2>3
  <2>5. Working' BY <1>2, <1>9, <2>2, <2>4 DEF Working, Free, Ledger
  <2>6. \A q \in Requests : Account(q)'
    <3> SUFFICES ASSUME NEW q \in Requests PROVE Account(q)' OBVIOUS
    <3>1. answers' = answers /\ wire' = wire BY <1>9
    <3>2. CASE q = r BY <1>3, <1>4, <2>2, <3>1, <3>2 DEF Account, Owed
    <3>3. CASE q # r
      <4>1. Account(q) /\ q # s.pending BY <1>a, <1>9, SessionAssumption
      <4> QED BY <1>3, <2>2, <3>1, <3>3, <4>1 DEF Account, Owed
    <3> QED BY <3>2, <3>3
  <2> QED BY <1>5, <1>9, <1>b, <2>2, <2>4, <2>5, <2>6 DEF IInv, Ledger
<1>10. CASE Reply({r}, "refused") /\ UNCHANGED <<s, v, wire>>
  <2>1. Mild(s, s') /\ VmQuiet(v, v') BY <1>2, <1>10, PlainQuiet DEF Quiet
  <2>2. Instance' /\ v' \in VmType /\ (Fresh' <=> Fresh) BY <1>c, <2>1
  <2>3. Working' BY <1>2, <1>10, <2>2 DEF Working, Free, Ledger
  <2>4. /\ answers' \in [Requests -> Seq(Answer)] /\ answers'[r] # <<>>
        /\ Len(answers'[r]) = 1 /\ Head(answers'[r]) = "refused"
        /\ \A q \in Requests \ {r} : answers'[q] = answers[q]
    BY <1>2, <1>4, <1>10, ReplyAnswers
  <2>5. \A q \in Requests : Account(q)'
    <3> SUFFICES ASSUME NEW q \in Requests PROVE Account(q)' OBVIOUS
    <3>1. wire' = wire /\ s' = s BY <1>10
    <3>2. CASE q = r
      <4>1. q \in asked' /\ q # s'.active /\ q # s'.pending /\ wire'[q] = "no"
        BY <1>3, <1>4, <3>1, <3>2
      <4>2. answers'[q] # <<>> /\ Len(answers'[q]) = 1 BY <2>4, <3>2
      <4>3. ~(Len(answers'[q]) > 1) BY <4>2
      <4> QED BY <4>1, <4>2, <4>3 DEF Account, Owed
    <3>3. CASE q # r
      <4>1. Account(q) /\ answers'[q] = answers[q] BY <1>a, <2>4, <3>3
      <4> QED BY <1>3, <3>1, <3>3, <4>1 DEF Account, Owed
    <3> QED BY <3>2, <3>3
  <2> QED BY <1>2, <1>5, <1>10, <1>b, <2>2, <2>3, <2>4, <2>5 DEF IInv, Ledger
<1> QED BY <1>7, <1>8, <1>9, <1>10 DEF Submit

-----------------------------------------------------------------------------
(* The two ends of a cleanup. Another VM is started: nobody is being served,    *)
(* and the VM before it is gone.                                              *)
LEMMA StartKept ==
  ASSUME IInv, NEW t \in ServerType, t.active = s.active, t.pending = s.pending,
         t.confirmed = s.confirmed, t.kind # "recycle", Free, s.phase # "down",
         Reaped, v.launcher # "up", StartVm(t), UNCHANGED <<v, clients>>
  PROVE  IInv'
<1>1. Typed /\ Instance /\ Ledger BY DEF IInv
<1> DEFINE n == t.notes \ {"start_vm"}
           i == t.starts + 1
<1>2. /\ n \in SUBSET {"start_vm", "recycle_vm", "graceful_stop"} /\ "start_vm" \notin n
      /\ i \in Nat
  BY DEF ServerType
<1> DEFINE w == [t EXCEPT !.phase = "starting", !.starts = i, !.exited = FALSE,
                          !.report = "none", !.socket = FALSE]
           x == [w EXCEPT !.port = FALSE, !.kill = FALSE, !.ask = FALSE, !.dirOwner = TRUE]
<1>3. s' = [x EXCEPT !.startup = TRUE, !.notes = n]
  BY DEF StartVm
<1> HIDE DEF n, i
<1>w. /\ w \in ServerType /\ w.phase = "starting" /\ w.report = "none"
      /\ w.active = t.active /\ w.pending = t.pending
      /\ w.confirmed = t.confirmed /\ w.kind = t.kind
  BY <1>2 DEF ServerType, Phases, Startup
<1> HIDE DEF w
<1>x. /\ x \in ServerType /\ x.phase = w.phase /\ x.report = w.report /\ x.port = FALSE
      /\ x.active = w.active /\ x.pending = w.pending
      /\ x.confirmed = w.confirmed /\ x.kind = w.kind
  BY <1>w DEF ServerType
<1> HIDE DEF x
<1>4. /\ s' \in ServerType /\ s'.phase = "starting" /\ s'.report = "none" /\ s'.port = FALSE
      /\ s'.notes = n /\ s'.active = s.active /\ s'.pending = s.pending
      /\ s'.confirmed = s.confirmed /\ s'.kind = t.kind
  <2>1. s' \in ServerType /\ s'.notes = n /\ s'.port = x.port
    BY <1>2, <1>3, <1>x DEF ServerType
  <2>2. /\ s'.phase = x.phase /\ s'.report = x.report /\ s'.active = x.active
        /\ s'.pending = x.pending /\ s'.confirmed = x.confirmed /\ s'.kind = x.kind
    BY <1>3, <1>x DEF ServerType
  <2> QED BY <1>w, <1>x, <2>1, <2>2
<1>5. d' = [owner |-> "making", mail |-> <<>>] BY DEF StartVm
<1>6. d' \in DirType /\ d'.owner = "making" /\ d'.mail = <<>> BY <1>5 DEF DirType
<1>7. Fresh' /\ DirSound' BY <1>2, <1>4, <1>6 DEF Fresh, DirSound
<1>8. ~s.confirmed /\ closer # "ok" BY <1>1 DEF Instance, EndSound
<1>9. FreshSound' /\ EndSound' BY <1>4, <1>7, <1>8 DEF FreshSound, EndSound, clients
<1>10. FreshVm' BY DEF FreshVm, Reaped
<1>11. ReportSound' BY <1>1, <1>4, <1>8 DEF ReportSound, Reported, Instance
<1>12. Working' BY <1>4 DEF Working, Free, clients
<1>13. \A r \in Requests : Account(r)'
  BY <1>1, <1>4 DEF Ledger, Account, Owed, clients
<1>14. Typed' BY <1>1, <1>4, <1>6 DEF Typed, ClientsTyped, clients
<1> QED BY <1>7, <1>9, <1>10, <1>11, <1>12, <1>13, <1>14 DEF IInv, Instance, Ledger

(* Or the session ends, and whoever waits is told.                             *)
LEMMA OutcomeTrue ==
  ASSUME NEW t \in ServerType
  PROVE  /\ Outcome(t) \in Answer /\ Confirmed(t) \in BOOLEAN
         /\ Outcome(t) \in Causes => Confirmed(t)
<1>1. Confirmed(t) \in BOOLEAN BY DEF Confirmed
<1>2. CASE ~Confirmed(t)
  <2>1. Outcome(t) = "unconfirmed" BY <1>2 DEF Outcome
  <2> QED BY <1>1, <1>2, <2>1 DEF Answer, Causes
<1>3. CASE Confirmed(t)
  <2>1. CASE t.kind = "recycle"
    <3>1. Outcome(t) = "cancelled" BY <1>3, <2>1 DEF Outcome
    <3> QED BY <1>1, <1>3, <3>1 DEF Answer, Causes
  <2>2. CASE t.kind = "close"
    <3>1. Outcome(t) = "ok" BY <1>3, <2>2 DEF Outcome
    <3> QED BY <1>1, <1>3, <3>1 DEF Answer
  <2>3. CASE t.kind \notin {"recycle", "close"}
    <3>1. Outcome(t) = IF t.terminal = "none" THEN "stopped" ELSE t.terminal
      BY <1>3, <2>3 DEF Outcome
    <3>2. t.terminal \in Causes \cup {"none"} BY DEF ServerType
    <3> QED BY <1>1, <1>3, <3>1, <3>2 DEF Answer
  <2> QED BY <2>1, <2>2, <2>3
<1> QED BY <1>2, <1>3

(* The end: whoever waits is told what became of the VM.                      *)
LEMMA EndKept ==
  ASSUME IInv, NEW t, Plain(s, t), s.phase # "down", CleanupFinish(t),
         ~(t.kind = "recycle" /\ Confirmed(t) /\ ~t.closing)
  PROVE  IInv'
<1>1. Typed /\ Instance /\ Ledger /\ ClientsTyped /\ t \in ServerType BY DEF IInv, Typed, Plain
<1>2. /\ Reply(Waiting(t), Outcome(t)) /\ d' = NoDir /\ UNCHANGED <<asked, wire, owner, orphan>>
      /\ s' = [Idle EXCEPT !.phase = "down", !.confirmed = Confirmed(t)]
      /\ v' = [Shut(v) EXCEPT !.inbox = <<>>, !.mail = <<>>, !.deaf = TRUE]
      /\ closer' = IF closer = "waiting" THEN (IF Confirmed(t) THEN "ok" ELSE "error") ELSE closer
      /\ opener' = IF ~t.notified /\ opener = "waiting" THEN "error" ELSE opener
  BY DEF CleanupFinish
<1>3. /\ Outcome(t) \in Answer /\ Confirmed(t) \in BOOLEAN
      /\ Outcome(t) \in Causes => Confirmed(t)
  BY <1>1, OutcomeTrue
<1> DEFINE c == Confirmed(t)
<1>4. c => v.state = "dead" /\ v.launcher = "gone"
  BY <1>1 DEF Confirmed, Plain, Instance, ReportSound, Reported, ReportComes
<1>5. Waiting(t) = {s.active, s.pending} \ {None} BY DEF Waiting, Plain
<1>6. s' = [Idle EXCEPT !.phase = "down", !.confirmed = c] BY <1>2
<1>7. c \in BOOLEAN BY <1>3
<1> HIDE DEF c
<1>8. /\ s' \in ServerType /\ s'.phase = "down" /\ s'.confirmed = c /\ s'.notes = {}
      /\ s'.active = None /\ s'.pending = None /\ s'.report = "none" /\ s'.kind = "none"
  BY <1>6, <1>7 DEF ServerType, Idle, Phases, Kinds, Asks
<1>9. VmQuiet(v, Shut(v)) BY <1>1, ConnectionQuiet DEF Typed
<1>10. v' \in VmType /\ v'.state = v.state /\ v'.launcher = v.launcher /\ v'.mail = <<>>
  <2>1. Shut(v) \in VmType /\ Shut(v).state = v.state /\ Shut(v).launcher = v.launcher
    BY <1>9 DEF VmQuiet
  <2>2. <<>> \in Seq(Requests \cup {"init", "stop"}) /\ <<>> \in Seq({"yes", "no", "junk", "exit"})
    OBVIOUS
  <2> QED BY <1>2, <2>1, <2>2 DEF VmType
<1>11. d' \in DirType /\ d'.owner = "none" /\ d'.mail = <<>> BY <1>2 DEF NoDir, DirType
<1>12. DirSound' /\ ~Fresh' BY <1>8, <1>11 DEF DirSound, Fresh
<1>13. closer' = "ok" => c BY <1>1, <1>2 DEF Instance, EndSound, c
<1>14. Instance'
  <2>1. FreshSound' /\ FreshVm' BY <1>8, <1>12 DEF FreshSound, FreshVm
  <2>2. ReportSound' BY <1>4, <1>8, <1>10 DEF ReportSound, Reported, c
  <2>3. EndSound' BY <1>8, <1>13 DEF EndSound
  <2> QED BY <1>12, <2>1, <2>2, <2>3 DEF Instance
<1>15. Working' BY <1>8 DEF Working, Free
<1>16. /\ answers' \in [Requests -> Seq(Answer)]
       /\ \A r \in Requests \ Waiting(t) : answers'[r] = answers[r]
       /\ \A r \in Requests \cap Waiting(t) :
             /\ answers'[r] # <<>>
             /\ answers[r] = <<>> => Len(answers'[r]) = 1 /\ Head(answers'[r]) = Outcome(t)
  BY <1>1, <1>2, <1>3, ReplyAnswers
<1>17. \A r \in Requests : Account(r)'
  <2> SUFFICES ASSUME NEW r \in Requests PROVE Account(r)' OBVIOUS
  <2>1. /\ Account(r) /\ r # None /\ wire' = wire /\ asked' = asked
        /\ r # s'.active /\ r # s'.pending
    BY <1>1, <1>2, <1>8, SessionAssumption DEF Ledger
  <2>2. CASE r \in Waiting(t)
    <3>1. answers'[r] # <<>> /\ r \in {s.active, s.pending} /\ r \in asked
      BY <1>5, <1>16, <2>1, <2>2 DEF Account
    <3>2. CASE wire[r] = "failed" BY <2>1, <3>1, <3>2 DEF Account, Owed
    <3>3. CASE wire[r] # "failed"
      <4>1. answers[r] = <<>> BY <2>1, <3>1, <3>3 DEF Account, Owed
      <4>2. Len(answers'[r]) = 1 /\ Head(answers'[r]) = Outcome(t) BY <1>16, <2>2, <4>1
      <4>3. ~(Len(answers'[r]) > 1) BY <4>2
      <4>4. Head(answers'[r]) \in Causes => s'.phase = "down" /\ s'.confirmed
        BY <1>3, <1>8, <4>2 DEF c
      <4> QED BY <2>1, <3>1, <4>3, <4>4 DEF Account, Owed
    <3> QED BY <3>2, <3>3
  <2>3. CASE r \notin Waiting(t)
    <3>1. answers'[r] = answers[r] /\ r # s.active /\ r # s.pending BY <1>5, <1>16, <2>1, <2>3
    <3> QED BY <2>1, <3>1 DEF Account, Owed
  <2> QED BY <2>2, <2>3
<1>18. Typed'
  <2>1. closer' \in {"idle", "waiting", "ok", "error"} BY <1>1, <1>2 DEF ClientsTyped
  <2>2. opener' \in {"waiting", "ok", "error", "gave_up", "aborted"} BY <1>1, <1>2 DEF ClientsTyped
  <2> QED BY <1>1, <1>2, <1>8, <1>10, <1>11, <1>16, <2>1, <2>2 DEF Typed, ClientsTyped
<1> QED BY <1>14, <1>15, <1>17, <1>18 DEF IInv, Ledger

(* cleanup_finish/1, from OnCleaned and from the deadline of the directory.    *)
LEMMA CleanupKept ==
  ASSUME IInv, NEW t, Plain(s, t), s.phase # "down", CleanupFinish(t)
  PROVE  IInv'
<1>1. CASE ~(t.kind = "recycle" /\ Confirmed(t) /\ ~t.closing) BY <1>1, EndKept
<1>2. CASE t.kind = "recycle" /\ Confirmed(t) /\ ~t.closing
  <2> DEFINE w == [t EXCEPT !.kind = "none"]
  <2>1. StartVm(w) /\ UNCHANGED <<v, clients>> BY <1>2 DEF CleanupFinish
  <2>2. t \in ServerType BY DEF Plain
  <2>3. /\ w \in ServerType /\ w.active = t.active /\ w.pending = t.pending
        /\ w.confirmed = t.confirmed /\ w.kind = "none"
    BY <2>2 DEF ServerType, Kinds
  <2> HIDE DEF w
  <2>4. Free BY <1>2 DEF Plain, IInv, Ledger, Working
  <2>5. Reaped /\ v.launcher # "up"
    BY <1>2 DEF Plain, Confirmed, IInv, Instance, ReportSound, Reported, Reaped, ReportComes
  <2> QED BY <2>1, <2>3, <2>4, <2>5, StartKept DEF Plain
<1> QED BY <1>1, <1>2

-----------------------------------------------------------------------------
(* The directory, its owner and their deadlines.                              *)
LEMMA DirectoryDeadlineKept ==
  ASSUME IInv, NEW i, DirectoryDeadline(i)
  PROVE  IInv'
<1> DEFINE t == [s EXCEPT !.dirTimers = s.dirTimers \ {i}]
           w == [t EXCEPT !.forced = TRUE]
<1>1. s \in ServerType /\ VmQuiet(v, v) BY Ground
<1>2. Plain(s, t) /\ Plain(s, w) BY <1>1 DEF Plain, ServerType
<1>3. s.phase # "down" /\ (CleanupFinish(w) \/ (s' = t /\ UNCHANGED <<v, d, clients>>))
  BY DEF DirectoryDeadline
<1> HIDE DEF t, w
<1>4. CASE CleanupFinish(w) BY <1>2, <1>3, <1>4, CleanupKept
<1>5. CASE s' = t /\ UNCHANGED <<v, d, clients>>
  BY <1>1, <1>2, <1>5, StillKnown, PlainStep DEF clients
<1> QED BY <1>3, <1>4, <1>5

(* The first VM.                                                              *)
LEMMA StartVmKept ==
  ASSUME IInv, OnStartVm
  PROVE  IInv'
<1>1. Fresh /\ StartVm(s) /\ UNCHANGED <<v, clients>> BY DEF OnStartVm, Fresh
<1>2. Free /\ s.phase # "down" /\ Reaped /\ v.launcher # "up" /\ s.kind # "recycle"
  BY <1>1 DEF IInv, Ledger, Working, Instance, FreshSound, FreshVm
<1> QED BY <1>1, <1>2, Ground, StartKept

(* The directory is gone: the next VM, or the end.                            *)
LEMMA CleanedKept ==
  ASSUME IInv, OnCleaned
  PROVE  IInv'
  BY Ground, CleanupKept DEF OnCleaned

(* The news of a directory is the only one of its owner, until it was asked.   *)
LEMMA NewsTaken ==
  ASSUME IInv, d.mail # <<>>, Head(d.mail) # "cleaned", d' = [d EXCEPT !.mail = Tail(d.mail)],
         "start_vm" \in s'.notes <=> "start_vm" \in s.notes
  PROVE  Fresh /\ d' \in DirType /\ DirSound' /\ ~Fresh'
<1>1. d \in DirType /\ DirSound BY Ground DEF IInv, Instance
<1>2. PICK q \in Seq({"directory", "error", "cleaned"}) : q = d.mail BY <1>1 DEF DirType
<1>3. q # <<>> /\ Tail(q) \in Seq({"directory", "error", "cleaned"})
      /\ \A k \in DOMAIN Tail(q) : k + 1 \in DOMAIN q /\ Tail(q)[k] = q[k + 1]
  BY <1>2, Shortened
<1>4. \A k \in DOMAIN Tail(q) : k \in Nat /\ k > 0 BY <1>3
<1>5. \A k \in DOMAIN Tail(q) : Tail(q)[k] = "cleaned"
  BY <1>1, <1>2, <1>3, <1>4 DEF DirSound
<1>6. d' \in DirType /\ d'.mail = Tail(q) /\ d'.owner = d.owner
  BY <1>1, <1>2, <1>3 DEF DirType
<1>7. d.owner # "making" /\ "start_vm" \notin s.notes BY <1>1 DEF DirSound, NoDir
<1>8. Tail(q) # <<>> => Head(Tail(q)) = "cleaned"
  <2>1. Tail(q) # <<>> => 1 \in DOMAIN Tail(q) /\ Head(Tail(q)) = Tail(q)[1] BY <1>3
  <2> QED BY <1>5, <2>1
<1>9. DirSound' BY <1>5, <1>6, <1>7 DEF DirSound
<1>10. ~Fresh' BY <1>6, <1>7, <1>8 DEF Fresh
<1> QED BY <1>6, <1>9, <1>10 DEF Fresh

(* A startup that ends with the news of its directory.                        *)
LEMMA NewsStep ==
  ASSUME IInv, d.mail # <<>>, Head(d.mail) # "cleaned", d' = [d EXCEPT !.mail = Tail(d.mail)],
         Quiet(s, s'), s'.phase # "starting", Known, UNCHANGED <<v, asked, answers, wire>>
  PROVE  IInv'
<1>1. Typed /\ Instance /\ Ledger /\ Mild(s, s') /\ VmQuiet(v, v') BY Ground DEF IInv, Quiet
<1>2. d' \in DirType /\ DirSound' /\ ~Fresh' BY <1>1, NewsTaken DEF Mild
<1>3. Instance' BY <1>1, <1>2, InstanceKept DEF Known
<1>4. Ledger' BY <1>1, <1>2, LedgerKept
<1>5. Typed' BY <1>1, <1>2 DEF Typed, ClientsTyped, Known, Mild
<1> QED BY <1>3, <1>4, <1>5 DEF IInv

(* After a failure no instance is in its first phase.                         *)
LEMMA FailureLeaves ==
  ASSUME NEW t \in ServerType, NEW cause \in Causes
  PROVE  BeginFailure(cause, t).phase # "starting"
<1>1. CASE t.phase \in {"down", "cleaning", "stopping"}
  BY <1>1 DEF BeginFailure, ServerType
<1>2. CASE t.phase \notin {"down", "cleaning", "stopping"} /\ t.port
  BY <1>2 DEF BeginFailure, ServerType
<1>3. CASE t.phase \notin {"down", "cleaning", "stopping"} /\ ~t.port
  BY <1>3 DEF BeginFailure, ServerType
<1> QED BY <1>1, <1>2, <1>3

(* create_vm/4.                                                               *)
LEMMA DirectoryKept ==
  ASSUME IInv, OnDirectory
  PROVE  IInv'
<1>1. /\ d.mail # <<>> /\ Head(d.mail) = "directory" /\ d' = [d EXCEPT !.mail = Tail(d.mail)]
      /\ UNCHANGED clients
  BY DEF OnDirectory
<1>2. Typed /\ Instance /\ Ledger /\ s \in ServerType /\ Known BY <1>1, Ground, StillKnown DEF IInv, clients
<1>3. CASE /\ s' = [s EXCEPT !.phase = "accepting", !.port = TRUE, !.served = 0]
           /\ v' = [NoVm EXCEPT !.state = "up", !.launcher = "up"]
  <2>1. /\ s' \in ServerType /\ s'.phase = "accepting" /\ s'.kind = s.kind /\ s'.report = s.report
        /\ s'.notes = s.notes /\ s'.active = s.active /\ s'.pending = s.pending
        /\ s'.confirmed = s.confirmed
    BY <1>2, <1>3 DEF ServerType, Phases, Startup
  <2>2. Fresh /\ d' \in DirType /\ DirSound' /\ ~Fresh' BY <1>1, <2>1, NewsTaken
  <2>3. v' \in VmType /\ v'.mail = <<>>
    <3>1. /\ <<>> \in Seq(Frames) /\ <<>> \in Seq(Requests \cup {"init", "stop"})
          /\ <<>> \in Seq({"yes", "no", "junk", "exit"})
      OBVIOUS
    <3> QED BY <1>3, <3>1 DEF NoVm, VmType
  <2>4. s.phase # "down" /\ s.kind # "recycle" /\ s.report # "yes"
    BY <1>2, <2>2 DEF Instance, FreshSound
  <2>5. ~s.confirmed /\ closer # "ok" /\ closer' = closer
    BY <1>1, <1>2, <2>4 DEF Instance, EndSound, clients
  <2>6. Instance'
    <3>1. FreshSound' /\ FreshVm' BY <2>1, <2>2 DEF FreshSound, FreshVm
    <3>2. ReportSound' BY <2>1, <2>3, <2>4, <2>5 DEF ReportSound, Reported
    <3>3. EndSound' BY <2>1, <2>4, <2>5 DEF EndSound
    <3> QED BY <2>2, <3>1, <3>2, <3>3 DEF Instance
  <2>7. Free BY <1>2, <2>2 DEF Ledger, Working
  <2>8. Working' BY <1>1, <2>1, <2>7 DEF Working, Free, clients
  <2>9. \A r \in Requests : Account(r)'
    BY <1>1, <1>2, <2>1, <2>4 DEF Ledger, Account, Owed, clients
  <2>10. Typed' BY <1>1, <1>2, <2>1, <2>2, <2>3 DEF Typed, ClientsTyped, clients
  <2> QED BY <2>6, <2>8, <2>9, <2>10 DEF IInv, Ledger
<1>4. CASE s' = [BeginFailure("failed", s) EXCEPT !.ask = TRUE] /\ UNCHANGED v
  <2> DEFINE u == BeginFailure("failed", s)
  <2>1. Quiet(s, u) /\ u.phase # "starting" BY <1>2, Ground, FailureQuiet, FailureLeaves
  <2> HIDE DEF u
  <2>2. u \in ServerType BY <2>1 DEF Quiet, Mild
  <2>3. s' = [u EXCEPT !.ask = TRUE] BY <1>4 DEF u
  <2>4. Plain(u, s') /\ s'.phase # "starting" BY <2>1, <2>2, <2>3 DEF Plain, ServerType
  <2>5. Quiet(s, s') BY <2>1, <2>4, PlainQuiet, QuietTransitive
  <2> QED BY <1>1, <1>2, <1>4, <2>4, <2>5, NewsStep DEF clients
<1> QED BY <1>3, <1>4 DEF OnDirectory

(* There is no directory.                                                     *)
LEMMA DirectoryErrorKept ==
  ASSUME IInv, OnDirectoryError
  PROVE  IInv'
<1>1. /\ d.mail # <<>> /\ Head(d.mail) = "error" /\ d' = [d EXCEPT !.mail = Tail(d.mail)]
      /\ s' = StartupFailed(s) /\ opener' = ToldOfStartup(s, "error")
      /\ UNCHANGED <<v, asked, answers, wire, owner, orphan, closer>>
  BY DEF OnDirectoryError
<1>2. Known BY <1>1, Ground DEF Known, ClientsTyped, ToldOfStartup
<1>3. Quiet(s, s') BY <1>1, Ground, StartupQuiet
<1>4. s'.phase # "starting"
  <2> DEFINE x == [s EXCEPT !.initial = FALSE, !.notified = TRUE, !.closing = TRUE, !.kind = "failure"]
  <2>1. x \in ServerType BY Ground DEF ServerType, Kinds
  <2>2. s' = BeginFailure("failed", x) BY <1>1 DEF StartupFailed
  <2> HIDE DEF x
  <2> QED BY <2>1, <2>2, Ground, FailureLeaves
<1> QED BY <1>1, <1>2, <1>3, <1>4, NewsStep

(* The owner of the directory itself.                                         *)
LEMMA OwnerKept ==
  ASSUME IInv, MakeDirectory \/ RemoveDirectory
  PROVE  IInv'
<1>1. /\ Typed /\ Instance /\ Ledger /\ d \in DirType /\ DirSound
      /\ Plain(s, s) /\ VmQuiet(v, v)
  BY Ground DEF IInv, Instance
<1>2. UNCHANGED <<s, v, clients>> BY DEF MakeDirectory, RemoveDirectory
<1>3. Quiet(s, s') /\ Mild(s, s') /\ VmQuiet(v, v') /\ Known
  BY <1>1, <1>2, PlainQuiet, StillKnown DEF Quiet, clients
<1>4. PICK q \in Seq({"directory", "error", "cleaned"}) : q = d.mail BY <1>1 DEF DirType
<1>5. /\ d' \in DirType /\ DirSound' /\ (Fresh' <=> Fresh)
  <2>1. CASE MakeDirectory
    <3>1. d.owner = "making" /\ q = <<>> BY <1>1, <1>4, <2>1 DEF MakeDirectory, DirSound
    <3>2. PICK e \in {"directory", "error"} : d'.mail = Append(q, e) /\ d'.owner \in {"waiting", "gone"}
      BY <1>1, <1>4, <2>1 DEF MakeDirectory, DirType
    <3>3. Append(q, e) = <<e>> BY <3>1
    <3>4. d' \in [owner : {"waiting", "gone"}, mail : {<<e>>}]
      BY <1>1, <1>4, <2>1, <3>2, <3>3 DEF MakeDirectory, DirType
    <3>5. <<e>> \in Seq({"directory", "error", "cleaned"}) /\ <<e>> # <<>> /\ Head(<<e>>) = e
          /\ DOMAIN <<e>> = 1..1
      OBVIOUS
    <3>6. d' \in DirType BY <3>4, <3>5 DEF DirType
    <3>7. "start_vm" \notin s.notes BY <1>1, <3>1 DEF DirSound, NoDir
    <3>8. DirSound' BY <1>2, <3>4, <3>5, <3>7 DEF DirSound
    <3>9. Fresh /\ Fresh' BY <3>1, <3>4, <3>5 DEF Fresh
    <3> QED BY <3>6, <3>8, <3>9
  <2>2. CASE RemoveDirectory
    <3>1. d.owner = "waiting" /\ d' = [owner |-> "gone", mail |-> Append(q, "cleaned")]
      BY <1>4, <2>2 DEF RemoveDirectory
    <3>2. /\ Append(q, "cleaned") \in Seq({"directory", "error", "cleaned"})
          /\ Append(q, "cleaned") # <<>>
          /\ Head(Append(q, "cleaned")) = IF q = <<>> THEN "cleaned" ELSE Head(q)
          /\ \A k \in DOMAIN Append(q, "cleaned") :
                \/ Append(q, "cleaned")[k] = "cleaned"
                \/ k \in DOMAIN q /\ Append(q, "cleaned")[k] = q[k]
      BY Appended
    <3>3. "start_vm" \notin s.notes BY <1>1, <3>1 DEF DirSound, NoDir
    <3>4. d' \in DirType BY <3>1, <3>2 DEF DirType
    <3>5. DirSound' BY <1>1, <1>2, <1>4, <3>1, <3>2, <3>3 DEF DirSound
    <3>6. Fresh' <=> Fresh BY <1>2, <1>4, <3>1, <3>2, <3>3 DEF Fresh
    <3> QED BY <3>4, <3>5, <3>6
  <2> QED BY <2>1, <2>2
<1>6. s'.phase = "starting" => Fresh' BY <1>1, <1>2, <1>5 DEF Instance, FreshSound
<1>7. Instance' BY <1>1, <1>3, <1>5, <1>6, InstanceKept DEF Known
<1>8. Ledger' BY <1>1, <1>2, <1>3, <1>5, LedgerKept DEF clients
<1>9. Typed' BY <1>1, <1>2, <1>5 DEF Typed, ClientsTyped, clients
<1> QED BY <1>7, <1>8, <1>9 DEF IInv

-----------------------------------------------------------------------------
(* The other deadlines.                                                       *)
LEMMA Beginnings ==
  ASSUME NEW S, NEW q \in Seq(S), NEW n \in 0 .. Len(q)
  PROVE  /\ SubSeq(q, 1, n) \in Seq(S)
         /\ \A k \in DOMAIN SubSeq(q, 1, n) : k \in DOMAIN q /\ SubSeq(q, 1, n)[k] = q[k]
  OBVIOUS

(* startup_deadline, cleanup_deadline and hard_cleanup_deadline.              *)
LEMMA DeadlinesKept ==
  ASSUME IInv, StartupDeadline \/ CleanupDeadline \/ HardDeadline
  PROVE  IInv'
<1>1. s \in ServerType /\ VmQuiet(v, v) /\ v \in VmType BY Ground
<1>2. CASE StartupDeadline
  <2>1. Plain(s, [s EXCEPT !.startup = FALSE]) BY <1>1 DEF Plain, ServerType
  <2> QED BY <1>1, <1>2, <2>1, StartupStep DEF StartupDeadline
<1>3. CASE CleanupDeadline
  <2>1. Plain(s, s') BY <1>1, <1>3 DEF CleanupDeadline, Plain, ServerType
  <2>2. PICK left \in 0 .. 1, lines \in 0 .. Len(v.mail) :
           /\ left = 1 => v.frames # <<>>
           /\ v' = [Shut(v) EXCEPT !.frames = SubSeq(v.frames, 1, left),
                                   !.mail = SubSeq(v.mail, 1, lines), !.deaf = TRUE]
    BY <1>3 DEF CleanupDeadline
  <2>3. VmQuiet(v, Shut(v)) BY <1>1, ConnectionQuiet
  <2>4. v.frames \in Seq(Frames) /\ v.mail \in Seq({"yes", "no", "junk", "exit"}) BY <1>1 DEF VmType
  <2> DEFINE f == SubSeq(v.frames, 1, left)
             m == SubSeq(v.mail, 1, lines)
  <2>5. f \in Seq(Frames)
    <3>1. v.frames # <<>> => Len(v.frames) \in Nat /\ Len(v.frames) > 0 BY <2>4
    <3>2. left \in 0 .. Len(v.frames) BY <2>2, <2>4, <3>1
    <3> QED BY <2>4, <3>2, Beginnings
  <2>6. /\ m \in Seq({"yes", "no", "junk", "exit"})
        /\ \A k \in DOMAIN m : k \in DOMAIN v.mail /\ m[k] = v.mail[k]
    BY <2>4, Beginnings
  <2>7. v' = [Shut(v) EXCEPT !.frames = f, !.mail = m, !.deaf = TRUE] BY <2>2
  <2> HIDE DEF f, m
  <2>8. VmQuiet(v, v') BY <2>3, <2>5, <2>6, <2>7 DEF VmQuiet, VmType
  <2> QED BY <1>3, <2>1, <2>8, StillKnown, PlainStep DEF CleanupDeadline, clients
<1>4. CASE HardDeadline
  <2>1. Quiet(s, s') BY <1>1, <1>4, DirectoryQuiet DEF HardDeadline
  <2> QED BY <1>1, <1>4, <2>1, StillKnown, QuietStep DEF HardDeadline, clients
<1> QED BY <1>2, <1>3, <1>4

-----------------------------------------------------------------------------
(* The messages of the server to itself.                                       *)
LEMMA StopSent ==
  ASSUME IInv, NEW t, Plain(s, t), NEW kind \in Kinds, SendStop(kind, t), UNCHANGED <<d, clients>>,
         \/ kind = "recycle" /\ s.phase = "recycling"
         \/ kind = s.kind /\ s.phase = "stopping"
  PROVE  IInv'
<1>1. t \in ServerType BY DEF Plain
<1>2. s' = [t EXCEPT !.kind = kind, !.phase = "stopping", !.cleanup = "soft"] BY DEF SendStop
<1>3. /\ s' \in ServerType /\ s'.kind = kind /\ s'.phase = "stopping" /\ s'.active = t.active
      /\ s'.pending = t.pending /\ s'.port = t.port /\ s'.confirmed = t.confirmed
      /\ s'.notes = t.notes /\ s'.report = t.report
  BY <1>1, <1>2 DEF ServerType, Phases
<1>4. Quiet(s, s') BY <1>3 DEF Plain, Quiet, Mild
<1>5. VmQuiet(v, v') BY Ground, SendsQuiet DEF SendStop
<1> QED BY <1>4, <1>5, StillKnown, QuietStep DEF clients

(* recycle_vm and graceful_stop.                                              *)
LEMMA NotesKept ==
  ASSUME IInv, OnRecycleVm \/ OnGracefulStop
  PROVE  IInv'
<1>1. s \in ServerType /\ VmQuiet(v, v) BY Ground
<1>2. Known /\ UNCHANGED <<d, clients>> BY StillKnown DEF OnRecycleVm, OnGracefulStop, clients
<1>3. ASSUME NEW n \in {"recycle_vm", "graceful_stop"}
      PROVE  Plain(s, [s EXCEPT !.notes = s.notes \ {n}])
  <2> DEFINE m == s.notes \ {n}
  <2>1. m \in SUBSET {"start_vm", "recycle_vm", "graceful_stop"} BY <1>1 DEF ServerType
  <2>2. "start_vm" \in m <=> "start_vm" \in s.notes OBVIOUS
  <2> HIDE DEF m
  <2>3. Plain(s, [s EXCEPT !.notes = m]) BY <1>1, <2>1, <2>2 DEF Plain, ServerType
  <2> QED BY <2>3 DEF m
<1>4. CASE OnRecycleVm
  <2> DEFINE t == [s EXCEPT !.notes = s.notes \ {"recycle_vm"}]
             w == [t EXCEPT !.terminal = "none"]
  <2>1. \/ s.phase = "recycling" /\ SendStop("recycle", w)
        \/ s' = t /\ UNCHANGED v
    BY <1>4 DEF OnRecycleVm
  <2>2. Plain(s, t) /\ t \in ServerType BY <1>3 DEF Plain
  <2> HIDE DEF t
  <2>3. Plain(s, w) BY <2>2 DEF Plain, ServerType
  <2> HIDE DEF w
  <2>4. CASE s.phase = "recycling" /\ SendStop("recycle", w)
    BY <1>2, <2>3, <2>4, StopSent DEF Kinds
  <2>5. CASE s' = t /\ UNCHANGED v
    BY <1>1, <1>2, <2>2, <2>5, PlainStep DEF clients
  <2> QED BY <2>1, <2>4, <2>5
<1>5. CASE OnGracefulStop
  <2> DEFINE t == [s EXCEPT !.notes = s.notes \ {"graceful_stop"}]
  <2>1. \/ s.phase = "stopping" /\ SendStop(s.kind, t)
        \/ s' = BeginFailure("failed", t) /\ UNCHANGED v
        \/ s' = t /\ UNCHANGED v
    BY <1>5 DEF OnGracefulStop
  <2>2. Plain(s, t) BY <1>3
  <2> HIDE DEF t
  <2>3. s.kind \in Kinds BY <1>1 DEF ServerType
  <2>4. CASE s.phase = "stopping" /\ SendStop(s.kind, t) BY <1>2, <2>2, <2>3, <2>4, StopSent
  <2>5. CASE s' = BeginFailure("failed", t) /\ UNCHANGED v
    BY <1>1, <1>2, <2>2, <2>5, Ground, FailureStep DEF clients
  <2>6. CASE s' = t /\ UNCHANGED v
    BY <1>1, <1>2, <2>2, <2>6, PlainStep DEF clients
  <2> QED BY <2>1, <2>4, <2>5, <2>6
<1> QED BY <1>4, <1>5

-----------------------------------------------------------------------------
(* The connection: what is heard before a request.                            *)
LEMMA ReadQuiet ==
  ASSUME IInv, v.frames # <<>>
  PROVE  /\ VmQuiet(v, Read(v)) /\ Head(v.frames) \in Frames
         /\ \A m \in Requests \cup {"init", "stop"} :
               VmQuiet(v, [Read(v) EXCEPT !.inbox = Append(Read(v).inbox, m)])
<1>1. v \in VmType BY Ground
<1>2. VmQuiet(v, Read(v)) /\ Head(v.frames) \in Frames BY <1>1, ConnectionQuiet
<1>3. PICK w : w = Read(v) OBVIOUS
<1>4. w \in VmType BY <1>2, <1>3 DEF VmQuiet
<1>5. \A m \in Requests \cup {"init", "stop"} : VmQuiet(w, [w EXCEPT !.inbox = Append(w.inbox, m)])
  BY <1>4, SentQuiet
<1> QED BY <1>2, <1>3, <1>5, QuietVmTransitive

(* The VM connects and greets, or does what is not expected.                  *)
LEMMA GreetingKept ==
  ASSUME IInv, Accept \/ OnHello \/ StartupRefused
  PROVE  IInv'
<1>1. s \in ServerType /\ v \in VmType /\ VmQuiet(v, v) /\ Plain(s, s) BY Ground
<1>2. Plain(s, Deaf(s)) BY <1>1, RepliedPlain
<1>3. UNCHANGED <<d, asked, answers, wire, owner, orphan, closer>>
  BY DEF Accept, OnHello, StartupRefused
<1>4. ASSUME NEW p \in {"accepting", "hello"}, s.phase = p, NEW q \in {"hello", "handshake"},
             NEW b \in BOOLEAN, NEW c \in BOOLEAN,
             s' = [s EXCEPT !.phase = q, !.socket = b, !.eager = c],
             VmQuiet(v, v'), UNCHANGED opener
      PROVE  IInv'
  <2>1. /\ s' \in ServerType /\ s'.phase = q /\ s'.active = s.active /\ s'.kind = s.kind
        /\ s'.pending = s.pending /\ s'.port = s.port /\ s'.confirmed = s.confirmed
        /\ s'.notes = s.notes /\ s'.report = s.report
    BY <1>1, <1>4 DEF ServerType, Phases, Startup
  <2>2. Quiet(s, s') BY <1>4, <2>1 DEF Quiet, Mild
  <2> QED BY <1>3, <1>4, <2>2, StillKnown, QuietStep
<1>5. CASE Accept
  <2>1. CASE /\ s.phase = "accepting" /\ UNCHANGED opener /\ v' = [v EXCEPT !.conn = "up"]
             /\ s' = [s EXCEPT !.phase = "hello", !.socket = TRUE, !.eager = TRUE]
    BY <1>1, <1>4, <2>1, SentQuiet
  <2>2. CASE s' = StartupFailed(s) /\ opener' = ToldOfStartup(s, "error") /\ UNCHANGED v
    BY <1>1, <1>3, <2>2, StartupStep
  <2> QED BY <1>5, <2>1, <2>2 DEF Accept
<1>6. CASE OnHello
  <2>1. s.phase = "hello" /\ v.frames # <<>> BY <1>6 DEF OnHello, Heard
  <2>2. CASE /\ v' = [Read(v) EXCEPT !.inbox = Append(Read(v).inbox, "init")]
             /\ s' = [s EXCEPT !.phase = "handshake"] /\ UNCHANGED opener
    <3>1. VmQuiet(v, v') BY <2>1, <2>2, ReadQuiet
    <3>2. s' = [s EXCEPT !.phase = "handshake", !.socket = s.socket, !.eager = s.eager]
      BY <1>1, <2>2 DEF ServerType
    <3>3. s.socket \in BOOLEAN /\ s.eager \in BOOLEAN BY <1>1 DEF ServerType
    <3> QED BY <1>4, <2>1, <2>2, <3>1, <3>2, <3>3
  <2>3. CASE /\ s' = StartupFailed(Deaf(s)) /\ opener' = ToldOfStartup(s, "error")
             /\ v' = Read(v)
    BY <1>2, <1>3, <2>1, <2>3, ReadQuiet, StartupStep
  <2> QED BY <1>6, <2>2, <2>3 DEF OnHello
<1>7. CASE StartupRefused
  BY <1>2, <1>3, <1>7, ReadQuiet, StartupStep DEF StartupRefused, Heard
<1> QED BY <1>5, <1>6, <1>7

(* The next request to go out: the one that waited.                           *)
LEMMA DispatchKept ==
  ASSUME IInv, NEW t, Quiet(s, t), s.phase = "handshake", s.pending # None,
         UNCHANGED <<d, asked, owner, orphan, opener, closer>>,
         \/ /\ v' = [Read(v) EXCEPT !.inbox = Append(Read(v).inbox, s.pending)]
            /\ s' = [t EXCEPT !.phase = "busy", !.active = s.pending, !.pending = None]
            /\ wire' = [wire EXCEPT ![s.pending] = "sent"]
            /\ UNCHANGED answers /\ v.frames # <<>>
         \/ /\ Reply({s.pending}, "refused") /\ wire' = [wire EXCEPT ![s.pending] = "failed"]
            /\ s' = BeginFailure("failed", [t EXCEPT !.phase = "ready", !.active = s.pending,
                                                     !.pending = None])
            /\ v' = [v EXCEPT !.conn = "closed", !.frames = <<"closed">>]
  PROVE  IInv'
<1> PICK p : p = s.pending OBVIOUS
<1>1. /\ Typed /\ Instance /\ Ledger /\ s \in ServerType /\ v \in VmType /\ ClientsTyped
      /\ t \in ServerType /\ Known /\ "refused" \in Answer
  BY Ground, StillKnown DEF IInv, Quiet, Mild
<1>2. p \in Requests BY <1>1 DEF ServerType, Asks
<1>3. Free /\ ~Fresh /\ s.kind # "recycle"
  BY <1>1 DEF Ledger, Working, Instance, FreshSound, EndSound
<1>4. /\ p \in asked /\ answers[p] = <<>> /\ wire[p] = "no" /\ p # s.active /\ p # None
  BY <1>1, <1>2 DEF Ledger, Account, Owed
<1>5. /\ wire \in [Requests -> {"no", "sent", "failed"}] /\ answers \in [Requests -> Seq(Answer)]
  BY <1>1 DEF ClientsTyped
<1>6. \A r \in Requests : Account(r) /\ (r = s.active => wire[r] = "failed")
  BY <1>1, <1>3, SessionAssumption DEF Ledger, Free
<1>7. VmQuiet(v, v')
  <2>1. CASE v' = [Read(v) EXCEPT !.inbox = Append(Read(v).inbox, s.pending)] /\ v.frames # <<>>
    <3>1. s.pending \in Requests \cup {"init", "stop"} BY <1>2
    <3> QED BY <2>1, <3>1, ReadQuiet
  <2>2. CASE v' = [v EXCEPT !.conn = "closed", !.frames = <<"closed">>]
    BY <1>1, <2>2, SentQuiet
  <2> QED BY <2>1, <2>2
<1>8. ASSUME Mild(s, s'), s'.active = p, s'.pending = None, NEW w \in {"sent", "failed"},
             wire' = [wire EXCEPT ![p] = w],
             w = "sent" => s'.phase = "busy" /\ s'.kind # "recycle" /\ UNCHANGED answers,
             w = "failed" => Reply({p}, "refused")
      PROVE  IInv'
  <2>1. Instance' /\ (Fresh' <=> Fresh) BY <1>1, <1>7, <1>8, FreshKept, InstanceKept DEF Known
  <2>2. wire' \in [Requests -> {"no", "sent", "failed"}] /\ wire'[p] = w
        /\ \A r \in Requests \ {p} : wire'[r] = wire[r]
    BY <1>2, <1>5, <1>8
  <2>3. /\ answers' \in [Requests -> Seq(Answer)]
        /\ \A r \in Requests \ {p} : answers'[r] = answers[r]
        /\ w = "sent" => answers'[p] = <<>>
        /\ w = "failed" => answers'[p] # <<>>
    <3>1. CASE w = "sent" BY <1>4, <1>5, <1>8, <3>1
    <3>2. CASE w = "failed" BY <1>1, <1>2, <1>8, <3>2, ReplyAnswers
    <3> QED BY <3>1, <3>2
  <2>4. Working' BY <1>3, <1>8, <2>1, <2>2 DEF Working, Free
  <2>5. \A r \in Requests : Account(r)'
    <3> SUFFICES ASSUME NEW r \in Requests PROVE Account(r)' OBVIOUS
    <3>1. asked' = asked /\ r # None BY SessionAssumption
    <3>2. CASE r = p
      <4>1. CASE w = "sent"
        <5>1. answers'[r] = <<>> /\ ~(Len(answers'[r]) > 1) BY <2>3, <3>2, <4>1
        <5> QED BY <1>4, <1>8, <2>2, <3>1, <3>2, <4>1, <5>1 DEF Account, Owed
      <4>2. CASE w = "failed"
        BY <1>4, <1>8, <2>2, <2>3, <3>1, <3>2, <4>2 DEF Account, Owed
      <4> QED BY <4>1, <4>2
    <3>3. CASE r # p
      <4>1. /\ Account(r) /\ r # s.pending /\ (r = s.active => wire[r] = "failed")
            /\ answers'[r] = answers[r] /\ wire'[r] = wire[r]
        BY <1>6, <2>2, <2>3, <3>3
      <4>2. s'.phase = "down" <=> s.phase = "down" BY <1>8 DEF Mild
      <4>3. s'.confirmed = s.confirmed BY <1>8 DEF Mild
      <4> QED BY <1>8, <3>1, <3>3, <4>1, <4>2, <4>3 DEF Account, Owed
    <3> QED BY <3>2, <3>3
  <2>6. Typed' BY <1>1, <1>7, <1>8, <2>2, <2>3 DEF Typed, ClientsTyped, Known, Mild, VmQuiet
  <2> QED BY <2>1, <2>4, <2>5, <2>6 DEF IInv, Ledger
<1> DEFINE x == [t EXCEPT !.phase = "busy", !.active = p, !.pending = None]
           y == [t EXCEPT !.phase = "ready", !.active = p, !.pending = None]
<1>9. /\ x \in ServerType /\ x.phase = "busy" /\ x.active = p /\ x.pending = None
      /\ x.port = t.port /\ x.confirmed = t.confirmed /\ x.notes = t.notes
      /\ x.report = t.report /\ x.kind = t.kind
  BY <1>1, <1>2 DEF ServerType, Phases, Asks
<1>10. /\ y \in ServerType /\ y.phase = "ready" /\ y.active = p /\ y.pending = None
       /\ y.port = t.port /\ y.confirmed = t.confirmed /\ y.notes = t.notes
       /\ y.report = t.report /\ y.kind = t.kind
  BY <1>1, <1>2 DEF ServerType, Phases, Asks
<1> HIDE DEF x, y
<1>11. CASE s' = x /\ wire' = [wire EXCEPT ![p] = "sent"] /\ UNCHANGED answers
  <2>1. Mild(s, s') /\ s'.kind # "recycle" BY <1>3, <1>9, <1>11 DEF Mild, Quiet
  <2> QED BY <1>8, <1>9, <1>11, <2>1
<1>12. CASE /\ s' = BeginFailure("failed", y) /\ wire' = [wire EXCEPT ![p] = "failed"]
            /\ Reply({p}, "refused")
  <2>1. Quiet(y, s') BY <1>10, <1>12, Ground, FailureQuiet
  <2>2. Mild(s, s') BY <1>3, <1>10, <2>1 DEF Mild, Quiet
  <2>3. s'.active = p /\ s'.pending = None BY <1>10, <2>1 DEF Quiet
  <2> QED BY <1>8, <1>12, <2>2, <2>3
<1> QED BY <1>11, <1>12 DEF x, y

(* startup_ready/3: the session is open, or its next VM is there.             *)
LEMMA ReadyKept ==
  ASSUME IInv, StartupReady
  PROVE  IInv'
<1> DEFINE t == [s EXCEPT !.startup = FALSE, !.eager = TRUE]
<1>1. /\ s \in ServerType /\ v.frames # <<>> /\ s.phase = "handshake"
      /\ UNCHANGED <<d, asked, owner, orphan, closer>>
  BY Ground DEF StartupReady, Heard
<1>2. Plain(s, t) BY <1>1 DEF Plain, ServerType
<1>3. Quiet(s, t) /\ t \in ServerType /\ t.phase = "handshake" BY <1>1, <1>2, PlainQuiet DEF Plain
<1>4. \/ /\ s' = [t EXCEPT !.phase = "ready", !.initial = FALSE, !.notified = TRUE]
         /\ v' = Read(v) /\ opener' = ToldOfStartup(s, "ok") /\ UNCHANGED <<answers, wire>>
      \/ Recycled(t) /\ UNCHANGED opener
  BY DEF StartupReady
<1> HIDE DEF t
<1>5. ASSUME NEW w \in ServerType, w.phase = "ready", w.active = t.active, w.pending = t.pending,
             w.port = t.port, w.confirmed = t.confirmed, w.notes = t.notes,
             w.report = t.report, w.kind = t.kind
      PROVE  Quiet(s, w)
  <2>1. Quiet(t, w) BY <1>3, <1>5 DEF Quiet, Mild
  <2> QED BY <1>3, <2>1, QuietTransitive
<1>6. CASE /\ s' = [t EXCEPT !.phase = "ready", !.initial = FALSE, !.notified = TRUE]
           /\ v' = Read(v) /\ opener' = ToldOfStartup(s, "ok") /\ UNCHANGED <<answers, wire>>
  <2> DEFINE w == [t EXCEPT !.phase = "ready", !.initial = FALSE, !.notified = TRUE]
  <2>1. /\ w \in ServerType /\ w.phase = "ready" /\ w.active = t.active /\ w.pending = t.pending
        /\ w.port = t.port /\ w.confirmed = t.confirmed /\ w.notes = t.notes
        /\ w.report = t.report /\ w.kind = t.kind
    BY <1>3 DEF ServerType, Phases
  <2>2. s' = w BY <1>6
  <2> HIDE DEF w
  <2>3. Quiet(s, s') BY <1>5, <2>1, <2>2
  <2>4. Known BY <1>1, <1>6, Ground DEF Known, ClientsTyped, ToldOfStartup
  <2> QED BY <1>1, <1>6, <2>3, <2>4, ReadQuiet, QuietStep
<1>7. CASE Recycled(t) /\ UNCHANGED opener
  <2>1. Known BY <1>1, <1>7, StillKnown
  <2>2. VmQuiet(v, Read(v)) BY <1>1, ReadQuiet
  <2>3. CASE s' = [t EXCEPT !.phase = "ready"] /\ v' = Read(v) /\ UNCHANGED <<answers, wire>>
    <3> DEFINE w == [t EXCEPT !.phase = "ready"]
    <3>1. /\ w \in ServerType /\ w.phase = "ready" /\ w.active = t.active /\ w.pending = t.pending
          /\ w.port = t.port /\ w.confirmed = t.confirmed /\ w.notes = t.notes
          /\ w.report = t.report /\ w.kind = t.kind
      BY <1>3 DEF ServerType, Phases
    <3>2. s' = w BY <2>3
    <3> HIDE DEF w
    <3> QED BY <1>1, <1>5, <2>1, <2>2, <2>3, <3>1, <3>2, QuietStep
  <2>4. CASE /\ s.pending # None /\ Reply({s.pending}, "timeout") /\ v' = Read(v) /\ UNCHANGED wire
             /\ s' = [Replied(t, s.pending) EXCEPT !.phase = "ready", !.pending = None]
    <3> DEFINE x == Replied(t, s.pending)
               w == [x EXCEPT !.phase = "ready"]
    <3>1. Plain(t, x) BY <1>3, RepliedPlain
    <3>2. x \in ServerType BY <3>1 DEF Plain
    <3>3. s' = [w EXCEPT !.pending = None] BY <2>4, <3>2 DEF ServerType
    <3> HIDE DEF x
    <3>4. /\ w \in ServerType /\ w.phase = "ready" /\ w.active = x.active /\ w.pending = x.pending
          /\ w.port = x.port /\ w.confirmed = x.confirmed /\ w.notes = x.notes
          /\ w.report = x.report /\ w.kind = x.kind
      BY <3>2 DEF ServerType, Phases
    <3> HIDE DEF w
    <3>5. Quiet(s, x) /\ x.phase = "handshake" BY <1>3, <3>1, PlainQuiet, QuietTransitive DEF Plain
    <3>6. Quiet(x, w) BY <3>4, <3>5 DEF Quiet, Mild
    <3>7. Quiet(s, w) BY <3>5, <3>6, QuietTransitive
    <3>8. "timeout" \in Answer BY Ground
    <3> QED BY <1>1, <2>1, <2>2, <2>4, <3>3, <3>7, <3>8, PendingAnswered
  <2>5. CASE /\ s.pending # None
             /\ \/ /\ v' = [Read(v) EXCEPT !.inbox = Append(Read(v).inbox, s.pending)]
                   /\ s' = [t EXCEPT !.phase = "busy", !.active = s.pending, !.pending = None]
                   /\ wire' = [wire EXCEPT ![s.pending] = "sent"]
                   /\ UNCHANGED answers
                \/ /\ Reply({s.pending}, "refused") /\ wire' = [wire EXCEPT ![s.pending] = "failed"]
                   /\ s' = BeginFailure("failed", [t EXCEPT !.phase = "ready", !.active = s.pending,
                                                            !.pending = None])
                   /\ v' = [v EXCEPT !.conn = "closed", !.frames = <<"closed">>]
    BY <1>1, <1>3, <1>7, <2>5, DispatchKept
  <2> QED BY <1>7, <2>3, <2>4, <2>5 DEF Recycled
<1> QED BY <1>4, <1>6, <1>7

-----------------------------------------------------------------------------
(* What is heard afterwards: the reply, the acknowledgement of a stop, nonsense, *)
(* the end of the connection, and the port.                                     *)
LEMMA ReplyKept ==
  ASSUME IInv, OnReply
  PROVE  IInv'
<1> PICK a : a = s.active OBVIOUS
<1>1. /\ Typed /\ Instance /\ Ledger /\ s \in ServerType /\ ClientsTyped /\ "value" \in Answer
      /\ "value" \notin Causes
  BY Ground DEF IInv, Causes
<1>2. /\ s.phase = "busy" /\ v' = Read(v) /\ VmQuiet(v, v')
      /\ UNCHANGED <<d, asked, wire, owner, orphan, opener, closer>>
  BY ReadQuiet DEF OnReply, Heard
<1>3. Known BY <1>2, StillKnown
<1>4. CASE s' = BeginFailure("timeout", Deaf(s)) /\ UNCHANGED answers
  BY <1>1, <1>2, <1>3, <1>4, Ground, RepliedPlain, FailureStep
<1> DEFINE x == Replied(s, a)
           t == [x EXCEPT !.active = None, !.served = x.served + 1]
           n == t.notes \cup {"recycle_vm"}
           u == [t EXCEPT !.phase = "ready"]
           w == [t EXCEPT !.phase = "recycling", !.notes = n]
<1>5. CASE Reply({a}, "value") /\ s' \in {u, w}
  <2>1. Plain(s, x) /\ x \in ServerType BY <1>1, RepliedPlain DEF Plain
  <2> DEFINE served == x.served + 1
  <2>a. t = [x EXCEPT !.active = None, !.served = served] OBVIOUS
  <2>b. served \in Nat BY <2>1 DEF ServerType
  <2> HIDE DEF x, t, served
  <2>2. /\ t \in ServerType /\ t.phase = x.phase /\ t.active = None /\ t.pending = x.pending
        /\ t.port = x.port /\ t.confirmed = x.confirmed /\ t.notes = x.notes
        /\ t.report = x.report /\ t.kind = x.kind
    BY <2>1, <2>a, <2>b DEF ServerType, Asks
  <2>3. n \in SUBSET {"start_vm", "recycle_vm", "graceful_stop"} BY <2>2 DEF ServerType
  <2>4. "start_vm" \in n <=> "start_vm" \in t.notes OBVIOUS
  <2> HIDE DEF n
  <2>5. /\ s' \in ServerType /\ s'.phase \in {"ready", "recycling"} /\ s'.active = None
        /\ s'.pending = t.pending /\ s'.port = t.port /\ s'.confirmed = t.confirmed
        /\ s'.notes \in {t.notes, n} /\ s'.report = t.report /\ s'.kind = t.kind
    <3>1. CASE s' = u BY <2>2, <3>1 DEF ServerType, Phases
    <3>2. CASE s' = w BY <2>2, <2>3, <3>2 DEF ServerType, Phases
    <3> QED BY <1>5, <3>1, <3>2
  <2>6. Mild(s, s') BY <1>2, <2>1, <2>2, <2>4, <2>5 DEF Mild, Plain
  <2>7. Instance' BY <1>1, <1>2, <1>3, <2>6, FreshKept, InstanceKept DEF Known
  <2>8. Working' BY <2>5 DEF Working, Free
  <2>9. /\ answers' \in [Requests -> Seq(Answer)]
        /\ \A r \in Requests \ {a} : answers'[r] = answers[r]
        /\ a \in Requests => answers'[a] # <<>>
        /\ a \in Requests /\ answers[a] = <<>> =>
              Len(answers'[a]) = 1 /\ Head(answers'[a]) = "value"
    BY <1>1, <1>5, ReplyAnswers
  <2>10. \A r \in Requests : Account(r)'
    <3> SUFFICES ASSUME NEW r \in Requests PROVE Account(r)' OBVIOUS
    <3>1. /\ Account(r) /\ r # None /\ asked' = asked /\ wire' = wire
          /\ s'.active = None /\ s'.pending = s.pending
      BY <1>1, <1>2, <2>1, <2>2, <2>5, SessionAssumption DEF Ledger, Plain
    <3>2. (s'.phase = "down" <=> s.phase = "down") /\ s'.confirmed = s.confirmed BY <2>6 DEF Mild
    <3>3. CASE r = a
      <4>1. answers'[r] # <<>> /\ r \in asked /\ r # s.pending BY <2>9, <3>1, <3>3 DEF Account
      <4>2. CASE wire[r] = "failed" BY <3>1, <4>1, <4>2 DEF Account, Owed
      <4>3. CASE wire[r] # "failed"
        <5>1. answers[r] = <<>> BY <3>1, <3>3, <4>1, <4>3 DEF Account, Owed
        <5>2. Len(answers'[r]) = 1 /\ Head(answers'[r]) = "value" BY <2>9, <3>3, <5>1
        <5>3. ~(Len(answers'[r]) > 1) /\ Head(answers'[r]) \notin Causes BY <1>1, <5>2
        <5> QED BY <3>1, <4>1, <5>3 DEF Account, Owed
      <4> QED BY <4>2, <4>3
    <3>4. CASE r # a
      <4>1. answers'[r] = answers[r] BY <2>9, <3>4
      <4> QED BY <3>1, <3>2, <3>4, <4>1 DEF Account, Owed
    <3> QED BY <3>3, <3>4
  <2>11. Typed' BY <1>1, <1>2, <1>3, <2>5, <2>9 DEF Typed, ClientsTyped, Known, VmQuiet
  <2> QED BY <2>7, <2>8, <2>10, <2>11 DEF IInv, Ledger
<1>6. \/ s' = BeginFailure("timeout", Deaf(s)) /\ UNCHANGED answers
      \/ Reply({a}, "value") /\ s' \in {u, w}
  <2>1. x.served = s.served BY <1>1 DEF Replied, ServerType
  <2> QED BY <1>1, <2>1 DEF OnReply
<1> QED BY <1>4, <1>5, <1>6

(* Frames while stopping, frames out of place, the end of the connection.     *)
LEMMA FramesKept ==
  ASSUME IInv, OnStopFrame \/ OnBadFrame \/ OnClosed
  PROVE  IInv'
<1> DEFINE g == Deaf(s)
           h == [g EXCEPT !.socket = FALSE]
<1>1. s \in ServerType /\ Plain(s, g) /\ Plain(s, h) BY Ground, RepliedPlain
<1>2. VmQuiet(v, Read(v)) /\ VmQuiet(v, Shut(v))
  BY Ground, ConnectionQuiet DEF OnStopFrame, OnBadFrame, OnClosed, Heard
<1>3. UNCHANGED <<d, clients>> /\ v' \in {Read(v), Shut(v)}
  BY DEF OnStopFrame, OnBadFrame, OnClosed
<1>4. Known /\ VmQuiet(v, v') BY <1>2, <1>3, StillKnown DEF clients
<1>5. \/ s' = MaybeFinish(h) \/ s' = MaybeFinish(ForceStop(g))
      \/ s' = BeginFailure("failed", g) \/ s' = BeginFailure("failed", h)
  BY DEF OnStopFrame, OnBadFrame, OnClosed
<1> HIDE DEF g, h
<1>6. g \in ServerType /\ h \in ServerType BY <1>1 DEF Plain
<1>7. CASE s' = MaybeFinish(h)
  BY <1>1, <1>3, <1>4, <1>6, <1>7, FinishQuiet, PlainQuiet, QuietTransitive, QuietStep DEF clients
<1>8. CASE s' = MaybeFinish(ForceStop(g))
  <2>1. Quiet(g, ForceStop(g)) BY <1>6, ForceQuiet
  <2>2. ForceStop(g) \in ServerType BY <2>1 DEF Quiet, Mild
  <2>3. Quiet(ForceStop(g), s') BY <1>8, <2>2, FinishQuiet
  <2> QED BY <1>1, <1>3, <1>4, <2>1, <2>3, PlainQuiet, QuietTransitive, QuietStep DEF clients
<1>9. CASE s' = BeginFailure("failed", g) \/ s' = BeginFailure("failed", h)
  BY <1>1, <1>3, <1>4, <1>9, Ground, FailureStep DEF clients
<1> QED BY <1>5, <1>7, <1>8, <1>9

(* What the launcher writes, and its end.                                     *)
LEMMA PortKept ==
  ASSUME IInv, OnPort
  PROVE  IInv'
<1> PICK e : e = Head(v.mail) OBVIOUS
<1>1. s \in ServerType /\ v \in VmType /\ Plain(s, s) BY Ground
<1>2. s.port /\ v.mail # <<>> /\ v' = [v EXCEPT !.mail = Tail(v.mail)] /\ UNCHANGED <<d, clients>>
  BY DEF OnPort
<1>3. PICK q \in Seq({"yes", "no", "junk", "exit"}) : q = v.mail BY <1>1 DEF VmType
<1>4. /\ Tail(q) \in Seq({"yes", "no", "junk", "exit"}) /\ e \in {"yes", "no", "junk", "exit"}
      /\ \A k \in DOMAIN Tail(q) : k + 1 \in DOMAIN q /\ Tail(q)[k] = q[k + 1]
  BY <1>2, <1>3, Shortened
<1>5. VmQuiet(v, v')
  <2>1. /\ v' \in VmType /\ v'.mail = Tail(q) /\ v'.state = v.state
        /\ v'.launcher = v.launcher
    BY <1>1, <1>2, <1>3, <1>4 DEF VmType
  <2> QED BY <1>3, <1>4, <2>1 DEF VmQuiet
<1>6. e = "yes" => ReportComes
  <2>1. 1 \in DOMAIN q /\ Head(q) = q[1] BY <1>2, <1>3
  <2> QED BY <1>2, <1>3, <2>1 DEF ReportComes
<1>7. Known BY <1>2, StillKnown DEF clients
<1> DEFINE x == [s EXCEPT !.report = e]
           y == [s EXCEPT !.exited = TRUE]
<1>8. s' = CASE e \in {"yes", "no"} -> MaybeFinish(x)
             [] e = "junk" -> BeginFailure("failed", s)
             [] e = "exit" -> MaybeFinish(y)
  BY DEF OnPort
<1>9. e \in {"yes", "no"} => Plain(s, x) BY <1>1, <1>6 DEF Plain, ServerType
<1>10. Plain(s, y) BY <1>1 DEF Plain, ServerType
<1> HIDE DEF x, y
<1>11. \/ e \in {"yes", "no"} /\ s' = MaybeFinish(x)
       \/ s' = BeginFailure("failed", s)
       \/ s' = MaybeFinish(y)
  BY <1>4, <1>8
<1>12. ASSUME NEW u, Plain(s, u), s' = MaybeFinish(u) PROVE IInv'
  <2>1. u \in ServerType BY <1>12 DEF Plain
  <2>2. Quiet(s, s') BY <1>12, <2>1, FinishQuiet, PlainQuiet, QuietTransitive
  <2> QED BY <1>2, <1>5, <1>7, <2>2, QuietStep DEF clients
<1>13. CASE s' = BeginFailure("failed", s)
  BY <1>1, <1>2, <1>5, <1>7, <1>13, Ground, FailureStep DEF clients
<1> QED BY <1>9, <1>10, <1>11, <1>12, <1>13

-----------------------------------------------------------------------------
(* The VM and its launcher.                                                    *)
LEMMA VmStep ==
  ASSUME IInv, v' \in VmType, UNCHANGED <<s, d, clients>>, FreshVm', ReportSound'
  PROVE  IInv'
<1>1. Typed' BY DEF IInv, Typed, ClientsTyped, clients
<1>2. DirSound' /\ FreshSound' /\ EndSound'
  BY DEF IInv, Instance, DirSound, FreshSound, Fresh, EndSound, clients
<1>3. Working' BY DEF IInv, Ledger, Working, Free, Fresh, clients
<1>4. \A r \in Requests : Account(r)' BY DEF IInv, Ledger, Account, Owed, clients
<1> QED BY <1>1, <1>2, <1>3, <1>4 DEF IInv, Instance, Ledger

(* What the VM does with its connection.                                      *)
LEMMA TalkKept ==
  ASSUME IInv, VmConnect \/ VmAnswers \/ VmBlunders \/ VmCloses
  PROVE  IInv'
<1>1. v \in VmType /\ Plain(s, s) BY Ground
<1>2. UNCHANGED <<s, d, clients>> BY DEF VmConnect, VmAnswers, VmBlunders, VmCloses
<1>3. VmQuiet(v, v')
  <2>1. CASE VmConnect
    <3>1. <<"hello">> \in Seq(Frames) BY DEF Frames
    <3> QED BY <1>1, <2>1, <3>1 DEF VmConnect, VmQuiet, VmType
  <2>2. CASE VmAnswers
    <3> PICK m : m = Head(v.inbox) OBVIOUS
    <3> DEFINE w == [v EXCEPT !.inbox = Tail(v.inbox)]
    <3>1. v.inbox \in Seq(Requests \cup {"init", "stop"}) /\ v.inbox # <<>>
      BY <1>1, <2>2 DEF VmAnswers, VmType
    <3>2. Tail(v.inbox) \in Seq(Requests \cup {"init", "stop"}) /\ m \in Requests \cup {"init", "stop"}
      BY <3>1, Shortened
    <3>3. w \in VmType /\ VmQuiet(v, w) BY <1>1, <3>2 DEF VmQuiet, VmType
    <3>4. v' = CASE m = "init" -> [w EXCEPT !.frames = Append(w.frames, "ready")]
                 [] m = "stop" -> [w EXCEPT !.frames = Append(w.frames, "stopped"), !.step = "closing"]
                 [] OTHER -> [w EXCEPT !.frames = Append(w.frames, m)]
      BY <2>2 DEF VmAnswers
    <3> HIDE DEF w
    <3>5. PICK e \in Frames : \/ v' = [w EXCEPT !.frames = Append(w.frames, e)]
                              \/ v' = [w EXCEPT !.frames = Append(w.frames, e), !.step = "closing"]
      <4>1. CASE m = "init" BY <3>4, <4>1 DEF Frames
      <4>2. CASE m = "stop" BY <3>4, <4>2 DEF Frames
      <4>3. CASE m \notin {"init", "stop"} BY <3>2, <3>4, <4>3 DEF Frames
      <4> QED BY <4>1, <4>2, <4>3
    <3>6. Append(w.frames, e) \in Seq(Frames) BY <3>3, Appended DEF VmType
    <3>7. VmQuiet(w, v') BY <3>3, <3>5, <3>6 DEF VmQuiet, VmType
    <3> QED BY <3>3, <3>7, QuietVmTransitive
  <2>3. CASE VmBlunders
    <3>1. "junk" \in Frames BY DEF Frames
    <3>2. Append(v.frames, "junk") \in Seq(Frames) BY <1>1, <3>1, Appended DEF VmType
    <3> QED BY <1>1, <2>3, <3>2 DEF VmBlunders, VmQuiet, VmType
  <2>4. CASE VmCloses
    <3>1. VmQuiet(v, Hangup(v)) BY <1>1, ConnectionQuiet
    <3> PICK w : w = Hangup(v) OBVIOUS
    <3>2. v' = [w EXCEPT !.step = "halting"] BY <2>4 DEF VmCloses
    <3> QED BY <3>1, <3>2 DEF VmQuiet, VmType
  <2> QED BY <2>1, <2>2, <2>3, <2>4
<1> QED BY <1>1, <1>2, <1>3, StillKnown, PlainStep DEF clients

(* What the launcher writes arrives in its order, if anybody hears it.        *)
LEMMA MailedTyped ==
  ASSUME NEW w \in VmType, NEW lines \in Seq({"yes", "no", "junk", "exit"})
  PROVE  /\ Mailed(w, lines) \in VmType
         /\ Mailed(w, lines).state = w.state /\ Mailed(w, lines).launcher = w.launcher
         /\ (\E k \in DOMAIN Mailed(w, lines).mail : Mailed(w, lines).mail[k] = "yes") =>
               \/ \E k \in DOMAIN w.mail : w.mail[k] = "yes"
               \/ \E k \in DOMAIN lines : lines[k] = "yes"
<1> DEFINE m == IF w.deaf \/ ~s.port THEN w.mail ELSE w.mail \o lines
<1>1. w.mail \in Seq({"yes", "no", "junk", "exit"}) BY DEF VmType
<1>2. /\ w.mail \o lines \in Seq({"yes", "no", "junk", "exit"})
      /\ \A k \in DOMAIN (w.mail \o lines) :
            \/ k \in DOMAIN w.mail /\ (w.mail \o lines)[k] = w.mail[k]
            \/ k - Len(w.mail) \in DOMAIN lines /\ (w.mail \o lines)[k] = lines[k - Len(w.mail)]
  BY <1>1
<1>3. /\ m \in Seq({"yes", "no", "junk", "exit"})
      /\ (\E k \in DOMAIN m : m[k] = "yes") =>
            (\E k \in DOMAIN w.mail : w.mail[k] = "yes") \/ \E k \in DOMAIN lines : lines[k] = "yes"
  BY <1>1, <1>2
<1>4. Mailed(w, lines) = [w EXCEPT !.mail = m] BY DEF Mailed
<1> HIDE DEF m
<1> QED BY <1>3, <1>4 DEF VmType

(* The end of the VM, and that of the launcher.                               *)
LEMMA DeathKept ==
  ASSUME IInv, VmExits \/ LauncherReaps \/ LauncherDies
  PROVE  IInv'
<1>1. /\ v \in VmType /\ s.phase \in Phases /\ Instance BY Ground DEF IInv, ServerType
<1>2. UNCHANGED <<s, d, clients>> BY DEF VmExits, LauncherReaps, LauncherDies
<1>3. VmQuiet(v, Hangup(v)) BY <1>1, ConnectionQuiet
<1> PICK h : h = Hangup(v) OBVIOUS
<1>4. h \in VmType /\ h.launcher = v.launcher /\ h.state = v.state
      /\ ((\E k \in DOMAIN h.mail : h.mail[k] = "yes") => \E k \in DOMAIN v.mail : v.mail[k] = "yes")
  BY <1>3 DEF VmQuiet
<1>5. Fresh' <=> Fresh BY <1>2 DEF Fresh
<1>6. CASE VmExits
  <2>1. v.state = "up" /\ v' = [h EXCEPT !.state = "dead", !.step = "halting"]
    BY <1>6 DEF VmExits, Running
  <2>2. ~Fresh /\ ~Reported
    BY <1>1, <2>1 DEF Instance, FreshVm, ReportSound, Reaped
  <2>3. v' \in VmType /\ v'.mail = h.mail BY <1>4, <2>1 DEF VmType
  <2>4. FreshVm' BY <1>5, <2>2 DEF FreshVm
  <2>5. ReportSound' BY <1>2, <1>4, <2>2, <2>3 DEF ReportSound, Reported
  <2> QED BY <1>2, <2>3, <2>4, <2>5, VmStep
<1>7. CASE LauncherReaps \/ LauncherDies
  <2>1. v.launcher = "up" BY <1>7 DEF LauncherReaps, LauncherDies
  <2>2. ~Fresh /\ ~Reported BY <1>1, <2>1 DEF Instance, FreshVm, ReportSound
  <2>3. PICK state \in {"dead", "strays"}, lines \in Seq({"yes", "no", "junk", "exit"}) :
           /\ v' = Mailed([h EXCEPT !.state = state, !.step = "halting", !.launcher = "gone"], lines)
           /\ (\E k \in DOMAIN lines : lines[k] = "yes") => state = "dead"
    <3>1. CASE LauncherReaps
      <4>1. PICK report \in {"yes", "no"} :
               v' = Mailed([h EXCEPT !.state = IF report = "yes" THEN "dead" ELSE "strays",
                                     !.step = "halting", !.launcher = "gone"], <<report, "exit">>)
        BY <3>1 DEF LauncherReaps
      <4>2. CASE report = "yes"
        <5>1. <<"yes", "exit">> \in Seq({"yes", "no", "junk", "exit"}) OBVIOUS
        <5> QED BY <4>1, <4>2, <5>1
      <4>3. CASE report = "no"
        <5>1. /\ <<"no", "exit">> \in Seq({"yes", "no", "junk", "exit"})
              /\ \A k \in DOMAIN <<"no", "exit">> : <<"no", "exit">>[k] # "yes"
          OBVIOUS
        <5> QED BY <4>1, <4>3, <5>1
      <4> QED BY <4>1, <4>2, <4>3
    <3>2. CASE LauncherDies
      <4>1. /\ <<"exit">> \in Seq({"yes", "no", "junk", "exit"})
            /\ <<"junk", "exit">> \in Seq({"yes", "no", "junk", "exit"})
            /\ \A k \in DOMAIN <<"exit">> : <<"exit">>[k] # "yes"
            /\ \A k \in DOMAIN <<"junk", "exit">> : <<"junk", "exit">>[k] # "yes"
        OBVIOUS
      <4> QED BY <3>2, <4>1 DEF LauncherDies
    <3> QED BY <1>7, <3>1, <3>2
  <2> DEFINE w == [h EXCEPT !.state = state, !.step = "halting", !.launcher = "gone"]
  <2>4. w \in VmType /\ w.state = state /\ w.launcher = "gone" /\ w.mail = h.mail
    BY <1>4 DEF VmType
  <2>5. v' = Mailed(w, lines) BY <2>3
  <2> HIDE DEF w
  <2>6. /\ v' \in VmType /\ v'.state = state /\ v'.launcher = "gone"
        /\ (\E k \in DOMAIN v'.mail : v'.mail[k] = "yes") =>
              (\E k \in DOMAIN h.mail : h.mail[k] = "yes") \/ \E k \in DOMAIN lines : lines[k] = "yes"
    BY <2>4, <2>5, MailedTyped
  <2>7. FreshVm' BY <1>5, <2>2 DEF FreshVm
  <2>8. ReportSound' BY <1>2, <1>4, <2>2, <2>3, <2>6 DEF ReportSound, Reported
  <2> QED BY <1>2, <2>6, <2>7, <2>8, VmStep
<1> QED BY <1>6, <1>7

-----------------------------------------------------------------------------
(* At the beginning there is no VM and nobody has asked.                      *)
LEMMA SessionBegins == Init => IInv
<1> SUFFICES ASSUME Init PROVE IInv OBVIOUS
<1>1. /\ s \in ServerType /\ s.phase = "starting" /\ s.notes = {"start_vm"} /\ s.active = None
      /\ s.pending = None /\ s.port = FALSE /\ s.kind = "none" /\ s.report = "none"
      /\ s.confirmed = FALSE
  BY DEF Init, Idle, ServerType, Phases, Startup, Kinds, Asks
<1>2. /\ <<>> \in Seq(Frames) /\ <<>> \in Seq(Requests \cup {"init", "stop"})
      /\ <<>> \in Seq({"yes", "no", "junk", "exit"}) /\ <<>> \in Seq(Answer)
      /\ <<>> \in Seq({"directory", "error", "cleaned"})
  OBVIOUS
<1>3. v \in VmType /\ v.state = "none" /\ v.launcher = "none" /\ v.mail = <<>>
  BY <1>2 DEF Init, NoVm, VmType
<1>4. d \in DirType /\ d = NoDir /\ d.mail = <<>> /\ d.owner = "none"
  BY <1>2 DEF Init, NoDir, DirType
<1>5. ClientsTyped BY <1>2 DEF Init, ClientsTyped
<1>6. Fresh BY <1>1 DEF Fresh
<1>7. DirSound BY <1>4 DEF DirSound
<1>8. FreshSound /\ FreshVm /\ EndSound
  BY <1>1, <1>3, <1>6 DEF Init, FreshSound, FreshVm, EndSound, Reaped
<1>9. ReportSound BY <1>1, <1>3 DEF ReportSound, Reported
<1>10. Working BY <1>1 DEF Working, Free
<1>11. \A r \in Requests : Account(r)
  <2> SUFFICES ASSUME NEW r \in Requests PROVE Account(r) OBVIOUS
  <2>1. answers[r] = <<>> /\ wire[r] = "no" /\ r \notin asked /\ r # s.active /\ r # s.pending
    BY <1>1, SessionAssumption DEF Init
  <2>2. ~(Len(answers[r]) > 1) BY <2>1
  <2> QED BY <2>1, <2>2 DEF Account, Owed
<1> QED BY <1>1, <1>3, <1>4, <1>5, <1>7, <1>8, <1>9, <1>10, <1>11 DEF IInv, Typed, Instance, Ledger

(* No step and no stutter breaks the invariant.                               *)
LEMMA SessionSteps == IInv /\ [Next]_vars => IInv'
<1> SUFFICES ASSUME IInv, [Next]_vars PROVE IInv' OBVIOUS
<1>1. CASE Client
  BY <1>1, SubmitKept, CancelKept, CloseKept, OpenersKept DEF Client
<1>2. CASE Timer
  <2>1. ASSUME NEW r \in Requests, RequestDeadline(r) PROVE IInv' BY <2>1, CancelKept
  <2>2. ASSUME NEW i, DirectoryDeadline(i) PROVE IInv' BY <2>2, DirectoryDeadlineKept
  <2> QED BY <1>2, <2>1, <2>2, DeadlinesKept DEF Timer
<1>3. CASE Server
  BY <1>3, StartVmKept, NotesKept, DirectoryKept, DirectoryErrorKept, CleanedKept, GreetingKept,
     ReadyKept, ReplyKept, FramesKept, PortKept DEF Server
<1>4. CASE Outside
  BY <1>4, OwnerKept, TalkKept, DeathKept DEF Outside
<1>5. CASE UNCHANGED vars
  <2>1. UNCHANGED <<s, v, d, clients>> BY <1>5 DEF vars
  <2> QED BY <2>1, Ground, StillKnown, PlainStep DEF clients
<1> QED BY <1>1, <1>2, <1>3, <1>4, <1>5 DEF Next

(* The controller of a mutation VM keeps its invariant, whatever arrives in     *)
(* whatever order: begin_failure/2, maybe_finish_instance/1, cleanup_finish/1.  *)
THEOREM SessionSound == Spec => []IInv
  BY SessionBegins, SessionSteps, PTL DEF Spec

(* The state has the shape the modules say (handle_info/2 and its helpers).     *)
THEOREM SessionTypes == Spec => []TypeOK
<1>1. IInv => TypeOK
  BY DEF IInv, Typed, ServerType, VmType, DirType, ClientsTyped, Asks, TypeOK
<1> QED BY <1>1, SessionSound, PTL

(* A client is told of its request once, but for a frame that could not be      *)
(* sent (reply_request/3, finish_session/2, dispatch_request/2).                *)
THEOREM ToldOnce == Spec => []AnsweredOnce
<1>1. IInv => AnsweredOnce BY DEF IInv, Ledger, Account, AnsweredOnce
<1> QED BY <1>1, SessionSound, PTL

(* No request is lost between VMs, in a close or in a failure                   *)
(* (close_recycling/2, dispatch_pending/1, finish_session/2).                   *)
THEOREM NoRequestLost == Spec => []NothingLost
<1>1. IInv => NothingLost
  <2> SUFFICES ASSUME IInv, NEW r \in asked
               PROVE  answers[r] = <<>> <=> r \in Waiting(s) /\ wire[r] # "failed"
    BY DEF NothingLost
  <2>1. r \in Requests BY DEF IInv, Typed, ClientsTyped
  <2>2. Account(r) /\ r # None BY <2>1, SessionAssumption DEF IInv, Ledger
  <2> QED BY <2>2 DEF Account, Owed, Waiting
<1> QED BY <1>1, SessionSound, PTL

(* A confirmed cleanup is one, and no VM is started beside its predecessor      *)
(* (cleanup_finish/1).                                                          *)
THEOREM ConfirmationIsTrue == Spec => []ConfirmedIsReaped
<1>1. IInv => ConfirmedIsReaped
  BY DEF IInv, Instance, FreshSound, FreshVm, ReportSound, Reported, EndSound, ConfirmedIsReaped, Reaped
<1> QED BY <1>1, SessionSound, PTL

(* Who is told that a request was cancelled, timed out or failed is told so     *)
(* after the VM that had it is gone (finish_session/2).                         *)
THEOREM ToldAfterReaping == Spec => []ReapedBeforeTold
<1>1. IInv => ReapedBeforeTold
  BY DEF IInv, Instance, ReportSound, Reported, Ledger, Account, ReapedBeforeTold, Reaped
<1> QED BY <1>1, SessionSound, PTL
=============================================================================
