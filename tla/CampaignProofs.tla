---------------------------- MODULE CampaignProofs ----------------------------
(* Proofs about Campaign, for any clients, calls, seeds, bounds and modes.     *)
EXTENDS Campaign, SequenceTheorems, FiniteSetTheorems, TLAPS

(* A mailbox holds a message of S; holds at most one; no message of S is       *)
(* before one of T; m is followed by a message of S; nothing is behind m.      *)
In(q, S) == \E i \in DOMAIN q : q[i] \in S
Single(q, S) == \A i, j \in DOMAIN q : q[i] \in S /\ q[j] \in S => i = j
Behind(q, S, T) == \A i, j \in DOMAIN q : q[i] \in S /\ q[j] \in T => j < i
Followed(q, m, S) == \A i \in DOMAIN q : q[i] = m => \E j \in DOMAIN q : i < j /\ q[j] \in S
AtEnd(q, m) == \A i \in DOMAIN q : q[i] = m => i = Len(q)

Iterates == {"iterate"}
Stops == {"stop"}
Answers == Results \cup {"gone"}
Starters == Iterates \cup Results
Busy == worker \in {"executing", "checking", "verifying"}

(* The worker has one thing to do. A request to the provider is one from its   *)
(* beginning to the taking of its answer.                                      *)
TurnInv ==
    /\ Alive /\ ~finished =>
          /\ In(inbox, Iterates) <=> worker = "ready" /\ ~pending
          /\ Single(inbox, Iterates) /\ Single(inbox, Answers)
    /\ Alive => (In(inbox, Answers) <=> pending /\ provider = None)
    /\ provider # None => pending
    /\ finished => ~pending
    /\ Busy => ~finished /\ ~pending
    /\ worker = "verifying" => extra > 0
    /\ pending => Continuous \/ iteration < MaxIterations
    /\ worker \in {"dead", "killed"} => inbox = <<>>

(* One stop is sent; where it has begun an execution, none can begin before    *)
(* the stop is taken, nor afterwards.                                          *)
StopInv ==
    /\ ~stopRequested => ~In(wire, Stops) /\ ~In(inbox, Stops) /\ ~stopping /\ late = 0
    /\ Single(wire, Stops) /\ Single(inbox, Stops)
    /\ ~(In(wire, Stops) /\ In(inbox, Stops))
    /\ late <= 1
    /\ late = 1 => ~In(wire, Stops) /\ Behind(inbox, Starters, Stops)
    /\ late = 1 /\ ~In(inbox, Stops) /\ Alive => finished \/ (stopping /\ pending)
    /\ stopping /\ Alive => ~In(wire, Stops) /\ ~In(inbox, Stops) /\ (pending \/ finished)

(* The worker reports once, and says nothing after its death.                  *)
Dones == {Done(s) : s \in Statuses}
Downs == {Down}
ReportInv ==
    /\ In(up, Dones) => finished /\ report = None
    /\ Single(up, Dones)
    /\ AtEnd(up, Down) /\ (In(up, Downs) => worker = "dead")
    /\ In(up, {Done("stopped_by_user")}) => stopRequested
    /\ report = "stopped_by_user" => stopRequested
    /\ report = "worker_down" => worker \in {"dead", "killed"} /\ up = <<>>
    /\ report \notin {None, "worker_down"} => finished

(* The last context that was told, heard or not, is c.                         *)
Ctxs == {Ctx(c) : c \in Contexts}
Latest(q, heard, c) ==
    \/ heard = c /\ ~In(q, Ctxs)
    \/ \E i \in DOMAIN q : q[i] = Ctx(c) /\ \A j \in DOMAIN q : i < j => q[j] \notin Ctxs
ContextInv ==
    /\ coordinator \in {"ready", "calling"} =>
          /\ worker = "executing" => Latest(up, context, "target")
          /\ worker = "verifying" => Latest(up, context, "verification")
          /\ worker = "ready" /\ pending => Latest(up, context, "provider")
          /\ diedAs # None => Latest(up, context, diedAs)
    /\ report = "worker_down" /\ diedAs # None => context = diedAs
    /\ Alive => diedAs = None
    /\ coordinator \notin {"ready", "calling"} => ~Alive

(* A call is on its way in, noted or answered, once; a caller who gave up has  *)
(* said so, behind the call.                                                   *)
CallInv(c, k) ==
    LET asked == In(calls[c], {Await(k)})
        cancelled == In(calls[c], {CancelAwait(k)})
        noted == <<c, k>> \in waiters
        answered == k \in replies[c]
        current == Waiting(c) /\ client[c].token = k
    IN  /\ asked \/ noted \/ answered \/ cancelled => k <= client[c].token
        /\ ~(asked /\ noted) /\ ~(asked /\ answered) /\ ~(noted /\ answered)
        /\ Single(calls[c], {Await(k)})
        /\ current => ~cancelled /\ (asked \/ noted \/ answered)
        /\ ~current => Followed(calls[c], Await(k), {CancelAwait(k), ClientDown})
        /\ noted => current \/ cancelled \/ In(calls[c], {ClientDown})
CallerInv(c) ==
    /\ In(calls[c], {ClientDown}) => client[c].pc = "dead"
    /\ Waiting(c) => client[c].token > 0
    /\ \A k \in Tokens : CallInv(c, k)
WaitersInv ==
    /\ \A c \in Clients : CallerInv(c)
    /\ report # None => waiters = {}

FullInv == TypeOK /\ TurnInv /\ StopInv /\ ReportInv /\ ContextInv /\ WaitersInv

------------------------------------------------------------------------------
(* Mailboxes.                                                                  *)

(* A message at the end.                                                       *)
LEMMA AppendFacts ==
  ASSUME NEW M, NEW q \in Seq(M), NEW m \in M
  PROVE  /\ Append(q, m) \in Seq(M)
         /\ \A S : In(Append(q, m), S) <=> In(q, S) \/ m \in S
         /\ \A S : Single(Append(q, m), S) <=> Single(q, S) /\ (m \in S => ~In(q, S))
         /\ \A S, T : Behind(Append(q, m), S, T) <=>
                        Behind(q, S, T) /\ (m \in T => ~In(q, S) /\ m \notin S)
<1> DEFINE a == Append(q, m)
<1>1. a \in Seq(M) /\ Len(a) = Len(q) + 1 /\ DOMAIN a = 1..(Len(q) + 1) /\ DOMAIN q = 1..Len(q)
      /\ Len(q) \in Nat
  OBVIOUS
<1>2. \A i \in DOMAIN q : a[i] = q[i]
  OBVIOUS
<1>3. a[Len(q) + 1] = m
  OBVIOUS
<1>4. \A i \in DOMAIN a : i \in DOMAIN q \/ i = Len(q) + 1
  BY <1>1
<1>5. DOMAIN q \subseteq DOMAIN a /\ Len(q) + 1 \in DOMAIN a /\ Len(q) + 1 \notin DOMAIN q
  BY <1>1
<1>6. \A i \in DOMAIN q : i < Len(q) + 1 /\ ~(Len(q) + 1 < i)
  BY <1>1
<1>7. ~(Len(q) + 1 < Len(q) + 1)
  BY <1>1
<1> HIDE DEF a
<1>8. \A S : In(a, S) <=> In(q, S) \/ m \in S
  BY <1>2, <1>3, <1>4, <1>5 DEF In
<1>9. \A S : Single(a, S) <=> Single(q, S) /\ (m \in S => ~In(q, S))
  BY <1>2, <1>3, <1>4, <1>5 DEF In, Single
<1>10. \A S, T : Behind(a, S, T) <=> Behind(q, S, T) /\ (m \in T => ~In(q, S) /\ m \notin S)
  BY <1>2, <1>3, <1>4, <1>5, <1>6, <1>7 DEF In, Behind
<1> QED BY <1>1, <1>8, <1>9, <1>10 DEF a

(* The first message taken.                                                    *)
LEMMA TailFacts ==
  ASSUME NEW M, NEW q \in Seq(M), q # <<>>
  PROVE  /\ Tail(q) \in Seq(M) /\ Head(q) \in M
         /\ \A S : In(q, S) <=> Head(q) \in S \/ In(Tail(q), S)
         /\ \A S : Single(q, S) <=> Single(Tail(q), S) /\ (Head(q) \in S => ~In(Tail(q), S))
         /\ \A S, T : Behind(q, S, T) =>
                        Behind(Tail(q), S, T) /\ (Head(q) \in S => ~In(Tail(q), T) /\ Head(q) \notin T)
<1> DEFINE t == Tail(q)
<1>1. /\ t \in Seq(M) /\ Len(t) = Len(q) - 1 /\ DOMAIN t = 1..(Len(q) - 1) /\ DOMAIN q = 1..Len(q)
      /\ Len(q) \in Nat /\ Len(q) > 0 /\ Head(q) = q[1] /\ Head(q) \in M
  OBVIOUS
<1>2. \A i \in DOMAIN t : i + 1 \in DOMAIN q /\ t[i] = q[i + 1] /\ 1 < i + 1
  OBVIOUS
<1>3. \A i \in DOMAIN q : i # 1 => i - 1 \in DOMAIN t /\ t[i - 1] = q[i] /\ 1 < i
  BY <1>1, <1>2
<1>4. 1 \in DOMAIN q /\ ~(1 < 1) /\ \A i \in DOMAIN q : ~(i < 1)
  BY <1>1
<1>5. \A i, j \in DOMAIN t : i + 1 = j + 1 => i = j
  BY <1>1
<1>6. \A i, j \in DOMAIN q : i - 1 = j - 1 => i = j
  BY <1>1
<1>7. \A i, j \in DOMAIN t : j + 1 < i + 1 => j < i
  BY <1>1
<1> HIDE DEF t
<1>8. \A S : In(q, S) <=> Head(q) \in S \/ In(t, S)
  BY <1>1, <1>2, <1>3, <1>4 DEF In
<1>9. ASSUME NEW S
      PROVE  Single(q, S) <=> Single(t, S) /\ (Head(q) \in S => ~In(t, S))
  <2>1. ASSUME Single(q, S)
        PROVE  Single(t, S)
    BY <2>1, <1>2, <1>5 DEF Single
  <2>2. ASSUME Single(q, S), Head(q) \in S
        PROVE  ~In(t, S)
    <3> SUFFICES ASSUME NEW i \in DOMAIN t, t[i] \in S PROVE FALSE
      BY DEF In
    <3>1. i + 1 \in DOMAIN q /\ q[i + 1] \in S
      BY <1>2
    <3>2. i + 1 = 1
      BY <3>1, <2>2, <1>1, <1>4 DEF Single
    <3> QED BY <3>2, <1>1
  <2>3. ASSUME Single(t, S), Head(q) \in S => ~In(t, S)
        PROVE  Single(q, S)
    <3> SUFFICES ASSUME NEW i \in DOMAIN q, NEW j \in DOMAIN q, q[i] \in S, q[j] \in S
                 PROVE  i = j
      BY DEF Single
    <3>1. CASE i = 1 \/ j = 1
      BY <3>1, <2>3, <1>1, <1>3 DEF In
    <3>2. CASE i # 1 /\ j # 1
      BY <3>2, <2>3, <1>3, <1>6 DEF Single
    <3> QED BY <3>1, <3>2
  <2> QED BY <2>1, <2>2, <2>3
<1>10. ASSUME NEW S, NEW T, Behind(q, S, T)
       PROVE  Behind(t, S, T) /\ (Head(q) \in S => ~In(t, T) /\ Head(q) \notin T)
  <2>1. Behind(t, S, T)
    <3> SUFFICES ASSUME NEW i \in DOMAIN t, NEW j \in DOMAIN t, t[i] \in S, t[j] \in T
                 PROVE  j < i
      BY DEF Behind
    <3>1. i + 1 \in DOMAIN q /\ j + 1 \in DOMAIN q /\ q[i + 1] \in S /\ q[j + 1] \in T
      BY <1>2
    <3>2. j + 1 < i + 1
      BY <3>1, <1>10 DEF Behind
    <3> QED BY <3>2, <1>7
  <2>2. ASSUME Head(q) \in S
        PROVE  ~In(t, T) /\ Head(q) \notin T
    BY <2>2, <1>1, <1>2, <1>4, <1>10 DEF In, Behind
  <2> QED BY <2>1, <2>2
<1> QED BY <1>1, <1>8, <1>9, <1>10 DEF t

(* The empty mailbox.                                                          *)
LEMMA EmptyFacts ==
  /\ \A S : ~In(<<>>, S) /\ Single(<<>>, S)
  /\ \A S, T : Behind(<<>>, S, T)
BY DEF In, Single, Behind

(* A message e is taken from where it is, be there only one.                   *)
LEMMA PlaceOfOne ==
  ASSUME NEW M, NEW q \in Seq(M), NEW e, Single(q, {e}), In(q, {e})
  PROVE  \E n \in 1..Len(q) : q[n] = e /\ RemoveFirst(q, e) = RemoveAt(q, n)
<1> DEFINE I == {i \in 1..Len(q) : q[i] = e}
<1>1. PICK k \in 1..Len(q) : q[k] = e
  BY DEF In
<1>2. \A i \in 1..Len(q) : q[i] = e => i = k
  BY <1>1 DEF Single
<1>3. I = {k}
  BY <1>1, <1>2
<1>4. Min(I) = k
  BY <1>3 DEF Min
<1>5. SelectInSeq(q, LAMBDA v : v = e) = k
  BY <1>3, <1>4 DEF SelectInSeq
<1>6. RemoveFirst(q, e) = RemoveAt(q, k)
  BY <1>1, <1>5 DEF RemoveFirst
<1> QED BY <1>1, <1>6

(* What is left, and what comes behind it.                                     *)
LEMMA RemoveFacts ==
  ASSUME NEW M, NEW q \in Seq(M), NEW e, Single(q, {e}), In(q, {e})
  PROVE  /\ RemoveFirst(q, e) \in Seq(M)
         /\ ~In(RemoveFirst(q, e), {e})
         /\ \A S : e \notin S => (In(RemoveFirst(q, e), S) <=> In(q, S))
<1>1. PICK n \in 1..Len(q) : q[n] = e /\ RemoveFirst(q, e) = RemoveAt(q, n)
  BY PlaceOfOne
<1> DEFINE r == RemoveAt(q, n)
<1>2. /\ r \in Seq(M) /\ Len(q) \in Nat /\ n \in Nat
      /\ DOMAIN r = 1..(Len(q) - 1) /\ DOMAIN q = 1..Len(q)
      /\ \A i \in 1..(Len(q) - 1) : r[i] = IF i < n THEN q[i] ELSE q[i + 1]
  <2> DEFINE x == SubSeq(q, 1, n - 1)
             y == SubSeq(q, n + 1, Len(q))
  <2>1. Len(q) \in Nat /\ n \in Nat /\ n >= 1 /\ n <= Len(q) /\ DOMAIN q = 1..Len(q)
    OBVIOUS
  <2>2. /\ x \in Seq(M) /\ Len(x) = n - 1
        /\ \A i \in 1..(n - 1) : x[i] = q[i]
    BY <2>1
  <2>3. /\ y \in Seq(M) /\ Len(y) = Len(q) - n
        /\ \A i \in 1..(Len(q) - n) : y[i] = q[n + i]
    <3> DEFINE m == n + 1
               l == Len(q)
    <3>1. m \in 1..(l + 1) /\ l \in (m - 1)..l /\ l - m + 1 = l - n
      BY <2>1
    <3>2. \A i \in 1..(l - n) : m + i - 1 = n + i
      BY <2>1
    <3>3. y = SubSeq(q, m, l)
      OBVIOUS
    <3> HIDE DEF m, l, y
    <3>4. /\ SubSeq(q, m, l) \in Seq(M) /\ Len(SubSeq(q, m, l)) = l - m + 1
          /\ \A i \in 1..(l - m + 1) : SubSeq(q, m, l)[i] = q[m + i - 1]
      BY <3>1, SubSeqProperties DEF l
    <3> QED BY <3>1, <3>2, <3>3, <3>4 DEF l
  <2>4. r = x \o y
    BY DEF RemoveAt
  <2> HIDE DEF x, y, r
  <2>5. r \in Seq(M) /\ Len(r) = Len(x) + Len(y)
    <3>1. x \in Seq(M) /\ y \in Seq(M)
      BY <2>2, <2>3
    <3> QED BY <3>1, <2>4, ConcatProperties
  <2>6. DOMAIN r = 1..(Len(q) - 1)
    BY <2>1, <2>2, <2>3, <2>5
  <2>7. ASSUME NEW i \in 1..(Len(q) - 1)
        PROVE  r[i] = IF i < n THEN q[i] ELSE q[i + 1]
    <3>1. r[i] = IF i <= Len(x) THEN x[i] ELSE y[i - Len(x)]
      BY <2>1, <2>2, <2>3, <2>4
    <3>2. CASE i < n
      BY <3>1, <3>2, <2>1, <2>2
    <3>3. CASE ~(i < n)
      <4>1. i - (n - 1) \in 1..(Len(q) - n) /\ n + (i - (n - 1)) = i + 1 /\ ~(i <= n - 1)
        BY <3>3, <2>1
      <4>2. y[i - (n - 1)] = q[n + (i - (n - 1))]
        BY <4>1, <2>3
      <4> QED BY <3>1, <3>3, <4>1, <4>2, <2>2
    <3> QED BY <3>2, <3>3
  <2> QED BY <2>1, <2>5, <2>6, <2>7
<1> HIDE DEF r
<1>3. \A i \in DOMAIN r : \E j \in DOMAIN q : j # n /\ r[i] = q[j]
  <2> TAKE i \in DOMAIN r
  <2>1. CASE i < n
    BY <2>1, <1>2
  <2>2. CASE ~(i < n)
    <3>1. i + 1 \in DOMAIN q /\ i + 1 # n /\ r[i] = q[i + 1]
      BY <2>2, <1>2
    <3> QED BY <3>1
  <2> QED BY <2>1, <2>2
<1>4. \A j \in DOMAIN q : j # n => \E i \in DOMAIN r : r[i] = q[j]
  <2> TAKE j \in DOMAIN q
  <2>1. CASE j < n
    BY <2>1, <1>2
  <2>2. CASE j > n
    <3>1. j - 1 \in DOMAIN r /\ ~(j - 1 < n) /\ (j - 1) + 1 = j
      BY <2>2, <1>2
    <3> QED BY <3>1, <1>2
  <2> QED BY <2>1, <2>2, <1>2
<1>5. ~In(r, {e})
  BY <1>1, <1>2, <1>3 DEF In, Single
<1>6. \A S : e \notin S => (In(r, S) <=> In(q, S))
  BY <1>1, <1>3, <1>4 DEF In
<1> QED BY <1>1, <1>2, <1>5, <1>6 DEF r

(* Two messages at the end.                                                    *)
LEMMA TwoMore ==
  ASSUME NEW M, NEW q \in Seq(M), NEW a \in M, NEW b \in M
  PROVE  q \o <<a, b>> = Append(Append(q, a), b)
OBVIOUS

(* What follows a message, and what comes last.                                *)
LEMMA AppendOrder ==
  ASSUME NEW M, NEW q \in Seq(M), NEW x \in M
  PROVE  /\ \A m, S : m # x /\ (Followed(q, m, S) \/ x \in S) => Followed(Append(q, x), m, S)
         /\ \A m : ~In(q, {m}) => AtEnd(Append(q, x), m)
<1> DEFINE a == Append(q, x)
<1>1. /\ Len(a) = Len(q) + 1 /\ DOMAIN a = 1..(Len(q) + 1) /\ DOMAIN q = 1..Len(q)
      /\ Len(q) \in Nat /\ \A i \in 1..Len(q) : a[i] = q[i]
      /\ a[Len(q) + 1] = x
  OBVIOUS
<1>2. \A i \in DOMAIN a : (i \in DOMAIN q /\ i < Len(q) + 1) \/ i = Len(q) + 1
  BY <1>1
<1>3. DOMAIN q \subseteq DOMAIN a /\ Len(q) + 1 \in DOMAIN a
  BY <1>1
<1> HIDE DEF a
<1>4. ASSUME NEW m, NEW S, m # x, Followed(q, m, S) \/ x \in S
      PROVE  Followed(a, m, S)
  <2> SUFFICES ASSUME NEW i \in DOMAIN a, a[i] = m
               PROVE  \E j \in DOMAIN a : i < j /\ a[j] \in S
    BY DEF Followed
  <2>1. i \in DOMAIN q /\ i < Len(q) + 1 /\ q[i] = m
    BY <1>1, <1>2, <1>4
  <2>2. CASE x \in S
    BY <2>1, <2>2, <1>1, <1>3
  <2>3. CASE Followed(q, m, S)
    BY <2>1, <2>3, <1>1, <1>3 DEF Followed
  <2> QED BY <1>4, <2>2, <2>3
<1>5. ASSUME NEW m, ~In(q, {m})
      PROVE  AtEnd(a, m)
  BY <1>1, <1>2, <1>5 DEF In, AtEnd
<1> QED BY <1>4, <1>5 DEF a

(* The same when the first is taken.                                           *)
LEMMA TailOrder ==
  ASSUME NEW M, NEW q \in Seq(M), q # <<>>
  PROVE  /\ \A m, S : Followed(q, m, S) =>
               Followed(Tail(q), m, S) /\ (Head(q) = m => In(Tail(q), S))
         /\ \A m : AtEnd(q, m) => AtEnd(Tail(q), m) /\ (Head(q) = m => Tail(q) = <<>>)
<1> DEFINE t == Tail(q)
<1>1. /\ Len(t) = Len(q) - 1 /\ DOMAIN t = 1..(Len(q) - 1) /\ DOMAIN q = 1..Len(q)
      /\ Len(q) \in Nat /\ Len(q) > 0 /\ Head(q) = q[1] /\ t \in Seq(M)
  OBVIOUS
<1>2. \A i \in DOMAIN t : i + 1 \in DOMAIN q /\ t[i] = q[i + 1]
  OBVIOUS
<1>3. \A i \in DOMAIN q : i # 1 => i - 1 \in DOMAIN t /\ t[i - 1] = q[i]
  BY <1>1, <1>2
<1>4. 1 \in DOMAIN q /\ \A i \in DOMAIN q : 1 < i => i # 1
  BY <1>1
<1>5. \A i \in DOMAIN t : \A j \in DOMAIN q : i + 1 < j => i < j - 1 /\ j # 1
  BY <1>1
<1>6. Len(t) = 0 => t = <<>>
  BY <1>1, EmptySeq
<1> HIDE DEF t
<1>7. ASSUME NEW m, NEW S, Followed(q, m, S)
      PROVE  Followed(t, m, S) /\ (Head(q) = m => In(t, S))
  <2>1. Followed(t, m, S)
    <3> SUFFICES ASSUME NEW i \in DOMAIN t, t[i] = m
                 PROVE  \E j \in DOMAIN t : i < j /\ t[j] \in S
      BY DEF Followed
    <3>1. PICK j \in DOMAIN q : i + 1 < j /\ q[j] \in S
      BY <1>2, <1>7 DEF Followed
    <3> QED BY <3>1, <1>3, <1>5
  <2>2. ASSUME Head(q) = m
        PROVE  In(t, S)
    <3>1. PICK j \in DOMAIN q : 1 < j /\ q[j] \in S
      BY <2>2, <1>1, <1>4, <1>7 DEF Followed
    <3> QED BY <3>1, <1>3, <1>4 DEF In
  <2> QED BY <2>1, <2>2
<1>8. ASSUME NEW m, AtEnd(q, m)
      PROVE  AtEnd(t, m) /\ (Head(q) = m => t = <<>>)
  <2>1. AtEnd(t, m)
    <3> SUFFICES ASSUME NEW i \in DOMAIN t, t[i] = m
                 PROVE  i = Len(t)
      BY DEF AtEnd
    <3>1. i + 1 = Len(q)
      BY <1>2, <1>8 DEF AtEnd
    <3> QED BY <3>1, <1>1
  <2>2. ASSUME Head(q) = m
        PROVE  t = <<>>
    <3>1. 1 = Len(q)
      BY <2>2, <1>1, <1>4, <1>8 DEF AtEnd
    <3> QED BY <3>1, <1>1, <1>6
  <2> QED BY <2>1, <2>2
<1> QED BY <1>7, <1>8 DEF t

(* The same for nothing.                                                       *)
LEMMA EmptyOrder ==
  /\ \A m, S : Followed(<<>>, m, S)
  /\ \A m : AtEnd(<<>>, m)
BY DEF Followed, AtEnd

(* The model's Contains.                                                       *)
LEMMA ContainsIn ==
  ASSUME NEW M, NEW q \in Seq(M), NEW m
  PROVE  Contains(q, m) <=> In(q, {m})
BY DEF Contains, In

------------------------------------------------------------------------------
(* What the worker tells.                                                      *)

(* Contexts and the other messages.                                            *)
LEMMA ToldKinds ==
  /\ \A m \in Told : m.kind = "context" <=> m \in Ctxs
  /\ \A m \in Ctxs : m \in Told /\ m.value \in Contexts /\ m = Ctx(m.value)
  /\ \A c, d : Ctx(c) = Ctx(d) => c = d
  /\ Dones \cap Ctxs = {} /\ Downs \cap Ctxs = {} /\ Dones \cap Downs = {}
  /\ Sample \notin Ctxs \cup Dones \cup Downs
<1>1. \A c : Ctx(c).kind = "context" /\ Ctx(c).value = c
  BY DEF Ctx
<1>2. \A s : Done(s).kind = "campaign_done"
  BY DEF Done
<1>3. Sample.kind = "monitor_sample" /\ Down.kind = "DOWN"
  BY DEF Sample, Down
<1> QED BY <1>1, <1>2, <1>3 DEF Told, Ctxs, Dones, Downs

(* The mailbox without its last message.                                       *)
LEMMA FrontFacts ==
  ASSUME NEW M, NEW q \in Seq(M), q # <<>>
  PROVE  Front(q) \in Seq(M) /\ Last(q) \in M /\ q = Append(Front(q), Last(q))
<1>1. Len(q) \in Nat /\ Len(q) > 0 /\ DOMAIN q = 1..Len(q) /\ \A i \in 1..Len(q) : q[i] \in M
  OBVIOUS
<1> DEFINE f == Front(q)
<1>2. f \in Seq(M) /\ Len(f) = Len(q) - 1 /\ \A i \in 1..(Len(q) - 1) : f[i] = q[i]
  BY <1>1, SubSeqProperties DEF Front
<1>3. Last(q) \in M /\ Last(q) = q[Len(q)]
  BY <1>1 DEF Last
<1> HIDE DEF f
<1>4. q = Append(f, Last(q))
  <2> DEFINE a == Append(f, Last(q))
  <2>1. /\ a \in Seq(M) /\ Len(a) = Len(f) + 1
        /\ \A i \in 1..Len(f) : a[i] = f[i]
        /\ a[Len(f) + 1] = Last(q)
    BY <1>2, <1>3, AppendProperties
  <2>2. Len(a) = Len(q) /\ \A i \in 1..Len(q) : a[i] = q[i]
    BY <1>1, <1>2, <1>3, <2>1
  <2> HIDE DEF a
  <2>3. a = q
    BY <2>1, <2>2, SeqEqual
  <2> QED BY <2>3 DEF a
<1> QED BY <1>2, <1>3, <1>4 DEF f

(* A context told.                                                             *)
LEMMA TellFacts ==
  ASSUME NEW q \in Seq(Told), NEW c \in Contexts
  PROVE  /\ Tell(q, c) \in Seq(Told)
         /\ \A S : S \cap Ctxs = {} =>
               (In(Tell(q, c), S) <=> In(q, S)) /\ (Single(Tell(q, c), S) <=> Single(q, S))
         /\ \A h : Latest(Tell(q, c), h, c)
<1> DEFINE f == IF q # <<>> /\ Last(q).kind = "context" THEN Front(q) ELSE q
<1>1. Ctx(c) \in Told /\ Ctx(c) \in Ctxs
  BY DEF Told, Ctxs
<1>2. /\ f \in Seq(Told)
      /\ \A S : S \cap Ctxs = {} => (In(f, S) <=> In(q, S)) /\ (Single(f, S) <=> Single(q, S))
  <2>1. CASE q # <<>> /\ Last(q).kind = "context"
    <3>1. f \in Seq(Told) /\ Last(q) \in Told /\ q = Append(f, Last(q)) /\ Last(q) \in Ctxs
      BY <2>1, FrontFacts, ToldKinds
    <3> HIDE DEF f
    <3>2. /\ \A S : In(q, S) <=> In(f, S) \/ Last(q) \in S
          /\ \A S : Single(q, S) <=> Single(f, S) /\ (Last(q) \in S => ~In(f, S))
      <4> DEFINE l == Last(q)
      <4>1. f \in Seq(Told) /\ l \in Told /\ q = Append(f, l)
        BY <3>1
      <4> HIDE DEF l
      <4>2. /\ \A S : In(Append(f, l), S) <=> In(f, S) \/ l \in S
            /\ \A S : Single(Append(f, l), S) <=> Single(f, S) /\ (l \in S => ~In(f, S))
        BY <4>1, AppendFacts
      <4> QED BY <4>1, <4>2 DEF l
    <3>3. \A S : S \cap Ctxs = {} => Last(q) \notin S
      BY <3>1
    <3> QED BY <3>1, <3>2, <3>3
  <2>2. CASE ~(q # <<>> /\ Last(q).kind = "context")
    BY <2>2
  <2> QED BY <2>1, <2>2
<1>3. Tell(q, c) = Append(f, Ctx(c))
  BY DEF Tell
<1> HIDE DEF f
<1>4. /\ Tell(q, c) \in Seq(Told)
      /\ \A S : S \cap Ctxs = {} =>
            (In(Tell(q, c), S) <=> In(q, S)) /\ (Single(Tell(q, c), S) <=> Single(q, S))
  BY <1>1, <1>2, <1>3, AppendFacts
<1>5. ASSUME NEW h PROVE Latest(Tell(q, c), h, c)
  <2> DEFINE t == Append(f, Ctx(c))
  <2>1. /\ Len(f) + 1 \in DOMAIN t /\ t[Len(f) + 1] = Ctx(c)
        /\ \A j \in DOMAIN t : ~(Len(f) + 1 < j)
    BY <1>1, <1>2
  <2> HIDE DEF t
  <2> QED BY <2>1, <1>3 DEF Latest, t
<1> QED BY <1>4, <1>5

(* Other messages leave the latest context what it is.                         *)
LEMMA LatestAppend ==
  ASSUME NEW q \in Seq(Told), NEW m \in Told, m \notin Ctxs, NEW h, NEW c, Latest(q, h, c)
  PROVE  Latest(Append(q, m), h, c)
<1> DEFINE a == Append(q, m)
<1>1. /\ DOMAIN a = 1..(Len(q) + 1) /\ DOMAIN q = 1..Len(q) /\ Len(q) \in Nat
      /\ \A i \in 1..Len(q) : a[i] = q[i]
      /\ a[Len(q) + 1] = m
  OBVIOUS
<1>2. \A i \in DOMAIN a : i \in DOMAIN q \/ i = Len(q) + 1
  BY <1>1
<1>3. DOMAIN q \subseteq DOMAIN a
  BY <1>1
<1>4. In(a, Ctxs) <=> In(q, Ctxs)
  BY AppendFacts
<1> HIDE DEF a
<1> QED BY <1>1, <1>2, <1>3, <1>4 DEF Latest, a

(* A message that is heard.                                                    *)
LEMMA LatestTail ==
  ASSUME NEW q \in Seq(Told), q # <<>>, NEW h, NEW c, Latest(q, h, c)
  PROVE  /\ Head(q) \in Ctxs => Latest(Tail(q), Head(q).value, c)
         /\ Head(q) \notin Ctxs => Latest(Tail(q), h, c)
<1> DEFINE t == Tail(q)
<1>1. /\ DOMAIN t = 1..(Len(q) - 1) /\ DOMAIN q = 1..Len(q) /\ Len(q) \in Nat /\ Len(q) > 0
      /\ Head(q) = q[1]
  OBVIOUS
<1>2. \A i \in DOMAIN t : i + 1 \in DOMAIN q /\ t[i] = q[i + 1] /\ 1 < i + 1
  OBVIOUS
<1>3. \A i \in DOMAIN q : i # 1 => i - 1 \in DOMAIN t /\ t[i - 1] = q[i]
  BY <1>1, <1>2
<1>4. 1 \in DOMAIN q /\ \A i \in DOMAIN q : i # 1 => \A j \in DOMAIN t : i - 1 < j => i < j + 1
  BY <1>1
<1>5. In(q, Ctxs) <=> Head(q) \in Ctxs \/ In(t, Ctxs)
  BY TailFacts
<1> HIDE DEF t
<1>6. CASE h = c /\ ~In(q, Ctxs)
  BY <1>5, <1>6 DEF Latest, t
<1>7. CASE \E i \in DOMAIN q : q[i] = Ctx(c) /\ \A j \in DOMAIN q : i < j => q[j] \notin Ctxs
  <2>1. PICK i \in DOMAIN q : q[i] = Ctx(c) /\ \A j \in DOMAIN q : i < j => q[j] \notin Ctxs
    BY <1>7
  <2>2. CASE i = 1
    <3>1. ~In(t, Ctxs)
      BY <2>1, <2>2, <1>2 DEF In
    <3>2. Head(q) = Ctx(c) /\ Head(q).value = c
      BY <2>1, <2>2, <1>1 DEF Ctx
    <3>3. Head(q) \in Ctxs
      <4>1. Head(q) \in Told
        OBVIOUS
      <4> QED BY <4>1, <3>2, ToldKinds DEF Ctx
    <3> QED BY <3>1, <3>2, <3>3 DEF Latest, t
  <2>3. CASE i # 1
    <3>1. i - 1 \in DOMAIN t /\ t[i - 1] = Ctx(c) /\ \A j \in DOMAIN t : i - 1 < j => t[j] \notin Ctxs
      BY <2>1, <2>3, <1>2, <1>3, <1>4
    <3> QED BY <3>1 DEF Latest, t
  <2> QED BY <2>2, <2>3
<1> QED BY <1>6, <1>7 DEF Latest

(* Nothing on its way.                                                         *)
LEMMA LatestEmpty ==
  ASSUME NEW h, NEW c
  PROVE  Latest(<<>>, h, c) <=> h = c
BY DEF Latest, In

------------------------------------------------------------------------------
(* Types.                                                                      *)

(* What may be put into the mailboxes.                                         *)
LEMMA Messages ==
  /\ \A c \in Contexts : Ctx(c) \in Told
  /\ \A s \in Statuses \ {"worker_down"} : Done(s) \in Told
  /\ Sample \in Told /\ Down \in Told
  /\ \A k \in Tokens : Await(k) \in Asked /\ CancelAwait(k) \in Asked
  /\ ClientDown \in Asked
  /\ Results \cup {"gone", "iterate", "stop", "sample", "snapshot"} = WorkerMessages
  /\ Results \subseteq WorkerMessages
BY DEF Told, Asked, WorkerMessages

(* The worker's last words.                                                    *)
LEMMA FinishFacts ==
  ASSUME NEW channel \in Seq(Told), NEW status \in Statuses \ {"worker_down"}, Finish(status, channel)
  PROVE  /\ up' \in Seq(Told) /\ finished' = TRUE /\ worker' = "ready"
         /\ ~In(channel, Dones) => Single(up', Dones)
         /\ In(up', Downs) <=> In(channel, Downs)
         /\ \A s : In(up', {Done(s)}) <=> In(channel, {Done(s)}) \/ s = status
<1> DEFINE q == IF Polled THEN Append(channel, Sample) ELSE channel
<1>1. Sample \in Told /\ Done(status) \in Told
  BY Messages
<1>2. Sample \notin Dones /\ Sample \notin Downs /\ \A s : Sample # Done(s)
  BY DEF Sample, Dones, Done, Down, Downs
<1>3. Done(status) \in Dones /\ Done(status) \notin Downs /\ \A s : Done(s) = Done(status) <=> s = status
  BY DEF Dones, Done, Down, Downs
<1>4. /\ q \in Seq(Told)
      /\ (In(q, Dones) <=> In(channel, Dones)) /\ (In(q, Downs) <=> In(channel, Downs))
      /\ Single(channel, Dones) => Single(q, Dones)
      /\ \A s : In(q, {Done(s)}) <=> In(channel, {Done(s)})
  <2>1. CASE Polled
    BY <2>1, <1>1, <1>2, AppendFacts
  <2>2. CASE ~Polled
    BY <2>2
  <2> QED BY <2>1, <2>2
<1>5. up' = Append(q, Done(status)) /\ finished' = TRUE /\ worker' = "ready"
  BY DEF Finish
<1>6. ~In(channel, Dones) => Single(channel, Dones)
  BY DEF In, Single
<1> HIDE DEF q
<1>7. /\ up' \in Seq(Told)
      /\ Single(up', Dones) <=> Single(q, Dones) /\ (Done(status) \in Dones => ~In(q, Dones))
      /\ In(up', Downs) <=> In(q, Downs) \/ Done(status) \in Downs
      /\ \A s : In(up', {Done(s)}) <=> In(q, {Done(s)}) \/ Done(status) \in {Done(s)}
  BY <1>1, <1>4, <1>5, AppendFacts
<1> QED BY <1>3, <1>4, <1>5, <1>6, <1>7

(* The next message of the mailbox is taken.                                   *)
LEMMA TakenTyped ==
  ASSUME TypeOK, NEW m, Takes(m)
  PROVE  /\ worker = "ready" /\ Tail(inbox) \in Seq(WorkerMessages) /\ m \in WorkerMessages
         /\ Append(Tail(inbox), "iterate") \in Seq(WorkerMessages)
<1>1. inbox \in Seq(WorkerMessages) /\ inbox # <<>> /\ Head(inbox) = m /\ worker = "ready"
  BY DEF TypeOK, Takes
<1>2. Tail(inbox) \in Seq(WorkerMessages) /\ Head(inbox) \in WorkerMessages
  BY <1>1, TailFacts
<1>3. "iterate" \in WorkerMessages
  BY DEF WorkerMessages
<1>4. Append(Tail(inbox), "iterate") \in Seq(WorkerMessages)
  BY <1>2, <1>3, AppendFacts
<1> QED BY <1>1, <1>2, <1>4

WorkerTypes ==
    /\ worker \in {"ready", "executing", "checking", "verifying", "dead", "killed"}
    /\ inbox \in Seq(WorkerMessages) /\ up \in Seq(Told)
    /\ seedsLeft \in 0..Seeds /\ phase \in {"calibration", "mutation"}
    /\ iteration \in 0..MaxIterations /\ (Continuous => iteration = 0)
    /\ idle \in 0..MaxIdle /\ extra \in 0..MaxExtra
    /\ pending \in BOOLEAN /\ stopping \in BOOLEAN /\ finished \in BOOLEAN
    /\ provider \in {None, "working", "cancelling"}
    /\ diedAs \in Contexts /\ late \in 0..2
OtherTypes ==
    /\ wire \in Seq({"stop", "sample", "snapshot"})
    /\ stopRequested \in BOOLEAN /\ samplePending \in BOOLEAN
    /\ coordinator \in {"ready", "calling", "crashed", "stopped"}
    /\ report \in {None} \cup Statuses /\ context \in Contexts
    /\ waiters \subseteq Waiters /\ replies \in [Clients -> SUBSET Tokens]
    /\ client \in [Clients -> [pc : {"idle", "waiting", "dead"}, token : 0..MaxAwaits]]
    /\ calls \in [Clients -> Seq(Asked)] /\ mode \in Modes

(* The two halves of the types.                                                *)
LEMMA TypeHalves == TypeOK <=> WorkerTypes /\ OtherTypes
BY DEF TypeOK, WorkerTypes, OtherTypes

(* An execution begins, or is left out.                                        *)
LEMMA ExecuteTyped ==
  ASSUME TypeOK, NEW rest \in Seq(WorkerMessages), NEW channel \in Seq(Told), Execute(rest, channel)
  PROVE  /\ worker' \in {worker, "executing"} /\ inbox' \in Seq(WorkerMessages) /\ up' \in Seq(Told)
         /\ finished' = finished /\ late' \in 0..2
<1>1. Append(rest, "iterate") \in Seq(WorkerMessages)
  BY AppendFacts DEF WorkerMessages
<1>2. Tell(channel, "target") \in Seq(Told)
  BY TellFacts DEF Contexts
<1>3. late \in 0..2
  BY DEF TypeOK
<1>4. CASE worker' = "executing" /\ up' = Tell(channel, "target") /\ inbox' = rest /\ Late /\ UNCHANGED finished
  BY <1>2, <1>3, <1>4 DEF Late
<1>5. CASE inbox' = Append(rest, "iterate") /\ up' = channel /\ UNCHANGED <<worker, finished, late>>
  BY <1>1, <1>3, <1>5
<1> QED BY <1>4, <1>5 DEF Execute

(* What keeps the types of the worker's numbers.                               *)
LEMMA Numbers ==
  ASSUME TypeOK
  PROVE  /\ seedsLeft \in Nat /\ iteration \in Nat /\ idle \in Nat /\ extra \in Nat
         /\ Seeds \in Nat /\ MaxIterations \in Nat /\ MaxIdle \in Nat /\ MaxExtra \in Nat
         /\ seedsLeft <= Seeds /\ iteration <= MaxIterations /\ idle <= MaxIdle /\ extra <= MaxExtra
BY CampaignAssumption DEF TypeOK

(* The stop that verify/5 found is sent again, before the next turn.           *)
LEMMA PutBack ==
  ASSUME NEW r \in Seq(WorkerMessages)
  PROVE  /\ r \o <<"stop", "iterate">> = Append(Append(r, "stop"), "iterate")
         /\ Append(r, "stop") \in Seq(WorkerMessages)
         /\ r \o <<"stop", "iterate">> \in Seq(WorkerMessages)
<1>1. "stop" \in WorkerMessages /\ "iterate" \in WorkerMessages
  BY DEF WorkerMessages
<1>2. r \o <<"stop", "iterate">> = Append(Append(r, "stop"), "iterate")
  BY <1>1, TwoMore
<1>3. Append(r, "stop") \in Seq(WorkerMessages)
  BY <1>1, AppendFacts
<1>4. Append(Append(r, "stop"), "iterate") \in Seq(WorkerMessages)
  <2> DEFINE a == Append(r, "stop")
  <2>1. a \in Seq(WorkerMessages)
    BY <1>3
  <2> HIDE DEF a
  <2>2. Append(a, "iterate") \in Seq(WorkerMessages)
    BY <1>1, <2>1, AppendFacts
  <2> QED BY <2>2 DEF a
<1> QED BY <1>2, <1>3, <1>4

(* The worker's steps.                                                         *)
LEMMA WorkerTyped ==
  ASSUME TypeOK, TurnInv, StopInv, WorkerStep
  PROVE  TypeOK'
<1> USE TypeHalves, Numbers, TakenTyped
<1>1. /\ WorkerTypes /\ OtherTypes /\ inbox \in Seq(WorkerMessages) /\ up \in Seq(Told) /\ mode' = mode
      /\ (Continuous' <=> Continuous)
  BY DEF WorkerTypes, WorkerStep, Continuous
<1>2. OtherTypes'
  BY <1>1 DEF OtherTypes, WorkerStep, coordVars, clientVars
<1> SUFFICES WorkerTypes'
  BY <1>2 DEF TypeOK, WorkerTypes, OtherTypes
<1>3. \A c \in Contexts : Tell(up, c) \in Seq(Told)
  BY <1>1, TellFacts
<1>4. {None, "target", "provider", "verification"} \subseteq Contexts
  BY DEF Contexts
<1>5. /\ Tell(up, None) \in Seq(Told) /\ Tell(up, "target") \in Seq(Told)
      /\ Tell(up, "provider") \in Seq(Told) /\ Tell(up, "verification") \in Seq(Told)
  BY <1>3, <1>4
<1>6. ASSUME NEW s, NEW channel \in Seq(Told), s \in Statuses \ {"worker_down"}, Finish(s, channel)
      PROVE  up' \in Seq(Told) /\ finished' = TRUE /\ worker' = "ready"
  BY <1>6, FinishFacts
<1>7. \A c \in Contexts : Infrastructure(c) => up' \in Seq(Told) /\ finished' = TRUE /\ worker' = "ready"
  BY <1>3, <1>6 DEF Infrastructure, Statuses
<1>8. Counted /\ (Continuous \/ iteration < MaxIterations) =>
        iteration' \in 0..MaxIterations /\ (Continuous => iteration' = 0)
  BY <1>1 DEF Counted, WorkerTypes
<1>10. CASE IterateForNothing
  BY <1>1, <1>10 DEF IterateForNothing, WorkerTypes, turn, history
<1>11. CASE Calibrate
  <2>1. Takes("iterate") /\ seedsLeft' \in 0..Seeds
    BY <1>11 DEF Calibrate, Turn
  <2>2. /\ worker' \in {worker, "executing"} /\ inbox' \in Seq(WorkerMessages) /\ up' \in Seq(Told)
        /\ finished' = finished /\ late' \in 0..2
    BY <1>1, <1>11, <2>1, ExecuteTyped DEF Calibrate
  <2> QED BY <1>1, <1>11, <2>1, <2>2 DEF Calibrate, WorkerTypes
<1>12. CASE BeginMutation
  BY <1>1, <1>12 DEF BeginMutation, WorkerTypes, turn, history, Turn
<1>13. CASE Expire
  <2>1. Takes("iterate") /\ inbox' = Tail(inbox)
    BY <1>13 DEF Expire, Mutating, Turn
  <2>2. up' \in Seq(Told) /\ finished' = TRUE /\ worker' = "ready"
    BY <1>1, <1>6, <1>13 DEF Expire, Statuses
  <2> QED BY <1>1, <1>13, <2>1, <2>2 DEF Expire, WorkerTypes, turn, history
<1>14. CASE Candidate
  <2>1. Takes("iterate") /\ iteration' \in 0..MaxIterations /\ (Continuous => iteration' = 0)
    BY <1>1, <1>8, <1>14 DEF Candidate, MayMutate, Mutating, Turn
  <2>2. /\ worker' \in {worker, "executing"} /\ inbox' \in Seq(WorkerMessages) /\ up' \in Seq(Told)
        /\ finished' = finished /\ late' \in 0..2
    BY <1>1, <1>14, <2>1, ExecuteTyped DEF Candidate
  <2>3. idle' \in 0..MaxIdle
    BY <1>14 DEF Candidate
  <2> QED BY <1>1, <1>14, <2>1, <2>2, <2>3 DEF Candidate, WorkerTypes
<1>15. CASE AskProvider
  BY <1>1, <1>15, <1>5 DEF AskProvider, WorkerTypes, turn, history, MayMutate, Mutating, Turn
<1>16. CASE Skip
  <2>1. Takes("iterate") /\ idle' \in 0..MaxIdle /\ up' \in Seq(Told)
    BY <1>1, <1>5, <1>16 DEF Skip, MayMutate, Mutating, Turn
  <2> QED BY <1>1, <1>16, <2>1 DEF Skip, WorkerTypes, history
<1>17. CASE Exhausted
  <2>1. Takes("iterate") /\ inbox' = Tail(inbox)
    BY <1>17 DEF Exhausted, MayMutate, Mutating, Turn
  <2>2. up' \in Seq(Told) /\ finished' = TRUE /\ worker' = "ready"
    BY <1>1, <1>4, <1>6, <1>7, <1>17 DEF Exhausted, Statuses
  <2> QED BY <1>1, <1>17, <2>1, <2>2 DEF Exhausted, WorkerTypes, turn, history
<1>18. CASE Executed
  BY <1>1, <1>18, <1>4, <1>7 DEF Executed, WorkerTypes, turn, history
<1>19. CASE Verify
  <2>1. CASE Accepted
    <3>1. Append(inbox, "iterate") \in Seq(WorkerMessages)
      BY <1>1, AppendFacts DEF WorkerMessages
    <3> QED BY <1>1, <1>5, <1>19, <2>1, <3>1 DEF Verify, Accepted, WorkerTypes
  <2>2. CASE extra # 0 /\ ~StopWaits /\ VerifyNext
    <3>1. late' = late
      BY <2>2 DEF VerifyNext, Late
    <3> QED BY <1>1, <1>5, <1>19, <2>2, <3>1 DEF Verify, VerifyNext, WorkerTypes
  <2>3. CASE StopWaits /\ inbox' = RemoveFirst(inbox, "stop") \o <<"stop", "iterate">>
             /\ worker' = "ready" /\ extra' = 0 /\ up' = Tell(up, None) /\ UNCHANGED late
    <3>1. inbox' \in Seq(WorkerMessages)
      <4>1. In(inbox, Stops) /\ Single(inbox, Stops)
        BY <1>1, <2>3, ContainsIn DEF StopWaits, Stops, StopInv
      <4>2. RemoveFirst(inbox, "stop") \in Seq(WorkerMessages)
        BY <1>1, <4>1, RemoveFacts DEF Stops
      <4> QED BY <2>3, <4>2, PutBack
    <3> QED BY <1>1, <1>5, <1>19, <2>3, <3>1 DEF Verify, WorkerTypes
  <2> QED BY <1>19, <2>1, <2>2, <2>3 DEF Verify
<1>20. CASE Verified
  <2>1. extra > 0
    BY <1>20 DEF Verified, TurnInv
  <2>2. extra' \in 0..MaxExtra
    BY <1>20, <2>1 DEF Verified
  <2>3. worker' \in {"ready", "checking"} /\ up' \in Seq(Told) /\ finished' \in BOOLEAN
    BY <1>1, <1>4, <1>7, <1>20 DEF Verified, WorkerTypes
  <2> QED BY <1>1, <1>20, <2>2, <2>3 DEF Verified, WorkerTypes, history
<1>21. CASE ProviderReplied
  <2>1. PICK result \in Results : ReplyTaken(result)
    BY <1>21 DEF ProviderReplied
  <2>2. Takes(result) /\ (Continuous \/ iteration < MaxIterations)
    BY <2>1 DEF ReplyTaken, TurnInv
  <2>3. CASE stopping
    <3>1. up' \in Seq(Told) /\ finished' = TRUE /\ worker' = "ready"
      BY <1>4, <1>5, <1>6, <1>7, <2>1, <2>3 DEF ReplyTaken, Statuses
    <3> QED BY <1>1, <2>1, <2>2, <2>3, <3>1 DEF ReplyTaken, WorkerTypes
  <2>4. CASE ~stopping /\ Counted /\ idle' = 0 /\ Execute(Tail(inbox), Tell(up, "provider"))
    <3>1. iteration' \in 0..MaxIterations /\ (Continuous => iteration' = 0)
      BY <1>8, <2>2, <2>4
    <3>2. /\ worker' \in {worker, "executing"} /\ inbox' \in Seq(WorkerMessages) /\ up' \in Seq(Told)
          /\ finished' = finished /\ late' \in 0..2
      BY <1>5, <2>2, <2>4, ExecuteTyped
    <3>3. idle' \in 0..MaxIdle
      BY <2>4
    <3> QED BY <1>1, <2>1, <3>1, <3>2, <3>3 DEF ReplyTaken, WorkerTypes
  <2>5. CASE ~stopping /\ inbox' = Append(Tail(inbox), "iterate")
             /\ idle' = (IF idle < MaxIdle THEN idle + 1 ELSE idle)
             /\ up' = Tell(up, None) /\ UNCHANGED <<worker, finished, iteration, late>>
    <3>1. idle' \in 0..MaxIdle
      BY <2>5
    <3> QED BY <1>1, <1>5, <2>1, <2>2, <2>5, <3>1 DEF ReplyTaken, WorkerTypes
  <2>6. CASE ~stopping /\ inbox' = Tail(inbox) /\ Infrastructure("provider") /\ UNCHANGED <<iteration, idle, late>>
    BY <1>1, <1>4, <1>7, <2>1, <2>2, <2>6 DEF ReplyTaken, WorkerTypes
  <2> QED BY <2>1, <2>3, <2>4, <2>5, <2>6 DEF ReplyTaken
<1>22. CASE ProviderGone
  BY <1>1, <1>22, <1>4, <1>7 DEF ProviderGone, WorkerTypes, turn, history
<1>23. CASE StopTaken
  <2>1. finished' \in BOOLEAN /\ worker' = "ready" /\ up' \in Seq(Told)
    BY <1>1, <1>6, <1>23 DEF StopTaken, Takes, WorkerTypes, Statuses
  <2> QED BY <1>1, <1>23, <2>1 DEF StopTaken, WorkerTypes, turn, history
<1>24. CASE SampleTaken
  <2>1. Append(up, Sample) \in Seq(Told)
    BY <1>1, Messages, AppendFacts
  <2> QED BY <1>1, <1>24, <2>1 DEF SampleTaken, WorkerTypes, turn, history
<1> QED BY <1>10, <1>11, <1>12, <1>13, <1>14, <1>15, <1>16, <1>17, <1>18,
           <1>19, <1>20, <1>21, <1>22, <1>23, <1>24 DEF WorkerStep

(* The provider, the worker's end and the delivery of a message.               *)
LEMMA SurroundingsTyped ==
  ASSUME TypeOK, Surroundings \/ Crash \/ Deliver
  PROVE  TypeOK'
<1>1. /\ WorkerTypes /\ OtherTypes /\ inbox \in Seq(WorkerMessages) /\ up \in Seq(Told) /\ mode' = mode
      /\ (Continuous' <=> Continuous) /\ wire \in Seq({"stop", "sample", "snapshot"})
  BY TypeHalves DEF WorkerTypes, OtherTypes, Surroundings, Crash, Deliver, Continuous
<1>2. \A m \in WorkerMessages : Append(inbox, m) \in Seq(WorkerMessages)
  BY <1>1, AppendFacts
<1>3. Append(up, Down) \in Seq(Told)
  BY <1>1, Messages, AppendFacts
<1>4. Results \cup {"gone"} \subseteq WorkerMessages
  BY DEF WorkerMessages
<1>5. ASSUME Surroundings
      PROVE  TypeOK'
  <2>1. OtherTypes'
    BY <1>1, <1>5 DEF OtherTypes, Surroundings, coordVars, clientVars
  <2>2. inbox' \in Seq(WorkerMessages) /\ provider' = None /\ mode' = mode
        /\ UNCHANGED <<worker, turn, pending, stopping, finished, up, history>>
    BY <1>1, <1>2, <1>4, <1>5 DEF Surroundings, ProviderAnswers, ProviderFails, ProviderOrphaned
  <2>3. WorkerTypes'
    BY <1>1, <2>2 DEF WorkerTypes, turn, history
  <2> QED BY <2>1, <2>3 DEF TypeOK, WorkerTypes, OtherTypes
<1>6. ASSUME Crash
      PROVE  TypeOK'
  <2>1. OtherTypes'
    BY <1>1, <1>6 DEF OtherTypes, Crash, coordVars, clientVars
  <2>2. diedAs' \in Contexts
    BY <1>6 DEF Crash, WorkerCrashes, Contexts
  <2>3. WorkerTypes'
    BY <1>1, <1>3, <1>6, <2>2 DEF Crash, WorkerCrashes, WorkerTypes, turn, history
  <2> QED BY <2>1, <2>3 DEF TypeOK, WorkerTypes, OtherTypes
<1>7. ASSUME Deliver
      PROVE  TypeOK'
  <2>1. wire' \in Seq({"stop", "sample", "snapshot"}) /\ Head(wire) \in WorkerMessages
    BY <1>1, <1>7, TailFacts DEF Deliver, WorkerMessages
  <2>2. inbox' \in Seq(WorkerMessages)
    BY <1>1, <1>2, <1>7, <2>1 DEF Deliver
  <2>3. WorkerTypes'
    BY <1>1, <1>7, <2>2 DEF Deliver, WorkerTypes, turn, history
  <2>4. OtherTypes'
    BY <1>1, <1>7, <2>1 DEF Deliver, OtherTypes, coordVars, clientVars
  <2> QED BY <2>3, <2>4 DEF TypeOK, WorkerTypes, OtherTypes
<1> QED BY <1>5, <1>6, <1>7

Asks == RequestStop \/ Poll \/ Benchmark
Ends(how) == how \in {"crashed", "stopped"} /\ End(how) /\ coordinator \in {"ready", "calling"}

(* A coordinator that ends does so from its loop.                              *)
LEMMA EndsSo == BenchmarkFails \/ Stop => \E how : Ends(how)
BY DEF BenchmarkFails, Stop, Ends, Ready

(* The coordinator.                                                            *)
LEMMA CoordinatorTyped ==
  ASSUME TypeOK, Asks \/ SnapshotTaken \/ (\E how : Ends(how)) \/ HearWorker
  PROVE  TypeOK'
<1>1. /\ WorkerTypes /\ OtherTypes /\ inbox \in Seq(WorkerMessages) /\ up \in Seq(Told)
      /\ wire \in Seq({"stop", "sample", "snapshot"})
  BY TypeHalves DEF WorkerTypes, OtherTypes
<1>2. ASSUME NEW q \in {"stop", "sample", "snapshot"}
      PROVE  Append(wire, q) \in Seq({"stop", "sample", "snapshot"})
  BY <1>1, AppendFacts
<1>3. ASSUME Asks
      PROVE  TypeOK'
  <2>1. WorkerTypes'
    BY <1>1, <1>3 DEF WorkerTypes, Asks, RequestStop, Poll, Benchmark, unchangedWorker, workerVars,
                      turn, history, Continuous
  <2>2. /\ wire' \in Seq({"stop", "sample", "snapshot"}) /\ coordinator' \in {coordinator, "calling"}
        /\ stopRequested' \in {stopRequested, TRUE} /\ samplePending' \in {samplePending, TRUE}
        /\ UNCHANGED <<report, context, waiters, replies, clientVars, mode>>
    BY <1>2, <1>3 DEF Asks, RequestStop, Poll, Benchmark
  <2>3. OtherTypes'
    BY <1>1, <2>2 DEF OtherTypes, clientVars
  <2> QED BY <2>1, <2>3 DEF TypeOK, WorkerTypes, OtherTypes
<1>4. ASSUME SnapshotTaken
      PROVE  TypeOK'
  <2>1. Tail(inbox) \in Seq(WorkerMessages)
    BY <1>4, TakenTyped DEF SnapshotTaken
  <2>2. WorkerTypes'
    BY <1>1, <1>4, <2>1 DEF SnapshotTaken, WorkerTypes, turn, history, Continuous
  <2>3. OtherTypes'
    BY <1>1, <1>4 DEF SnapshotTaken, OtherTypes, clientVars
  <2> QED BY <2>2, <2>3 DEF TypeOK, WorkerTypes, OtherTypes
<1>5. ASSUME NEW how, Ends(how)
      PROVE  TypeOK'
  <2>1. /\ <<>> \in Seq(WorkerMessages) /\ <<>> \in Seq(Told) /\ <<>> \in Seq(Asked)
        /\ <<>> \in Seq({"stop", "sample", "snapshot"})
    OBVIOUS
  <2>2. worker' \in {worker, "killed"}
    BY <1>5 DEF Ends, End
  <2>3. WorkerTypes'
    BY <1>1, <1>5, <2>1, <2>2 DEF Ends, End, WorkerTypes, turn, history, Continuous
  <2>4. client' \in [Clients -> [pc : {"idle", "waiting", "dead"}, token : 0..MaxAwaits]]
    <3>1. \A c \in Clients : [client[c] EXCEPT !.pc = "idle"] \in
                              [pc : {"idle", "waiting", "dead"}, token : 0..MaxAwaits]
      BY <1>1 DEF OtherTypes
    <3>2. \A c \in Clients : client[c] \in [pc : {"idle", "waiting", "dead"}, token : 0..MaxAwaits]
      BY <1>1 DEF OtherTypes
    <3> QED BY <1>5, <3>1, <3>2 DEF Ends, End
  <2>5. calls' \in [Clients -> Seq(Asked)] /\ replies' \in [Clients -> SUBSET Tokens]
    BY <1>5, <2>1 DEF Ends, End
  <2>6. OtherTypes'
    BY <1>1, <1>5, <2>1, <2>4, <2>5 DEF Ends, End, OtherTypes
  <2> QED BY <2>3, <2>6 DEF TypeOK, WorkerTypes, OtherTypes
<1>6. ASSUME HearWorker
      PROVE  TypeOK'
  <2>1. Tail(up) \in Seq(Told) /\ Head(up) \in Told
    BY <1>1, <1>6, TailFacts DEF HearWorker
  <2>2. WorkerTypes'
    BY <1>1, <1>6, <2>1 DEF HearWorker, unchangedWorker, workerVars, WorkerTypes, turn, history, Continuous
  <2>3. ReplyWaiters \in [Clients -> SUBSET Tokens]
    BY <1>1 DEF ReplyWaiters, OtherTypes
  <2>4. /\ Head(up).kind = "context" => Head(up).value \in Contexts
        /\ Head(up).kind \notin {"context", "monitor_sample", "DOWN"} => Head(up).value \in Statuses
    BY <2>1 DEF Told, Ctx, Done, Sample, Down
  <2>5. /\ report' \in {None} \cup Statuses /\ context' \in Contexts /\ samplePending' \in BOOLEAN
        /\ waiters' \in {waiters, {}} /\ replies' \in [Clients -> SUBSET Tokens]
    BY <1>1, <1>6, <2>3, <2>4 DEF HearWorker, Hear, OtherTypes, Statuses
  <2>6. OtherTypes'
    BY <1>1, <1>6, <2>5 DEF HearWorker, OtherTypes, clientVars
  <2> QED BY <2>2, <2>6 DEF TypeOK, WorkerTypes, OtherTypes
<1> QED BY <1>3, <1>4, <1>5, <1>6

ClientStep(c) == HearClient(c) \/ Call(c) \/ Answered(c) \/ GiveUp(c) \/ Die(c)

(* The clients.                                                                *)
LEMMA ClientTyped ==
  ASSUME TypeOK, WaitersInv, NEW c \in Clients, ClientStep(c)
  PROVE  TypeOK'
<1>1. /\ WorkerTypes /\ OtherTypes /\ calls[c] \in Seq(Asked)
      /\ client[c] \in [pc : {"idle", "waiting", "dead"}, token : 0..MaxAwaits]
      /\ MaxAwaits \in Nat /\ replies[c] \subseteq Tokens
  BY TypeHalves, CampaignAssumption DEF WorkerTypes, OtherTypes
<1>2. \A m \in Asked : Append(calls[c], m) \in Seq(Asked)
  BY <1>1, AppendFacts
<1>3. WorkerTypes'
  BY <1>1 DEF WorkerTypes, ClientStep, HearClient, Call, Answered, GiveUp, Die, onlyClients, unchangedWorker,
              workerVars, turn, history, Continuous
<1> SUFFICES OtherTypes'
  BY <1>3 DEF TypeOK, WorkerTypes, OtherTypes
<1>4. CASE HearClient(c)
  <2>1. Tail(calls[c]) \in Seq(Asked) /\ Head(calls[c]) \in Asked
    BY <1>1, <1>4, TailFacts DEF HearClient
  <2>2. calls' \in [Clients -> Seq(Asked)]
    BY <1>1, <1>4, <2>1 DEF HearClient, OtherTypes
  <2>3. Head(calls[c]).kind # "DOWN" => Head(calls[c]).token \in Tokens
    BY <2>1 DEF Asked, Await, CancelAwait, ClientDown
  <2>4. waiters' \subseteq Waiters /\ replies' \in [Clients -> SUBSET Tokens]
    <3> DEFINE m == Head(calls[c])
    <3>1. waiters \subseteq Clients \X Tokens /\ replies \in [Clients -> SUBSET Tokens]
      BY <1>1 DEF OtherTypes, Waiters
    <3>2. CASE m.kind = "await" /\ Note(c, m.token)
      <4>1. <<c, m.token>> \in Clients \X Tokens /\ replies[c] \cup {m.token} \in SUBSET Tokens
        BY <1>1, <2>3, <3>2
      <4> HIDE DEF m
      <4> QED BY <3>1, <3>2, <4>1 DEF Note, Waiters
    <3>3. CASE m.kind = "cancel_await" /\ Cancel(c, m.token)
      BY <3>1, <3>3 DEF Cancel, Waiters
    <3>4. CASE m.kind = "DOWN" /\ Unnote(c)
      BY <3>1, <3>4 DEF Unnote, Waiters
    <3> QED BY <1>4, <3>2, <3>3, <3>4 DEF HearClient
  <2> QED BY <1>1, <1>4, <2>2, <2>4 DEF HearClient, OtherTypes
<1>5. CASE Call(c)
  <2>1. client[c].token + 1 \in Tokens
    BY <1>1, <1>5 DEF Call, Tokens
  <2>2. calls' \in [Clients -> Seq(Asked)]
    BY <1>1, <1>2, <1>5, <2>1, Messages DEF Call, Send, OtherTypes
  <2>3. client' \in [Clients -> [pc : {"idle", "waiting", "dead"}, token : 0..MaxAwaits]]
    BY <1>1, <1>5, <2>1 DEF Call, OtherTypes, Tokens
  <2> QED BY <1>1, <1>5, <2>2, <2>3 DEF Call, onlyClients, OtherTypes
<1>6. CASE Answered(c)
  <2>1. replies' \in [Clients -> SUBSET Tokens]
    BY <1>1, <1>6 DEF Answered, OtherTypes
  <2>2. client' \in [Clients -> [pc : {"idle", "waiting", "dead"}, token : 0..MaxAwaits]]
    BY <1>1, <1>6 DEF Answered, OtherTypes
  <2> QED BY <1>1, <1>6, <2>1, <2>2 DEF Answered, onlyClients, OtherTypes
<1>7. CASE GiveUp(c) \/ Die(c)
  <2>1. calls' \in [Clients -> Seq(Asked)]
    <3>1. GiveUp(c) => CancelAwait(client[c].token) \in Asked
      <4>1. GiveUp(c) => client[c].token \in Tokens
        BY <1>1 DEF GiveUp, WaitersInv, CallerInv, Tokens
      <4> QED BY <4>1, Messages
    <3>2. ClientDown \in Asked /\ calls \in [Clients -> Seq(Asked)]
      BY <1>1, Messages DEF OtherTypes
    <3>3. \E m \in Asked : calls' = [calls EXCEPT ![c] = Append(@, m)]
      BY <1>7, <3>1, <3>2 DEF GiveUp, Die, Send
    <3> QED BY <1>2, <3>2, <3>3
  <2>2. client' \in [Clients -> [pc : {"idle", "waiting", "dead"}, token : 0..MaxAwaits]]
    <3>1. client \in [Clients -> [pc : {"idle", "waiting", "dead"}, token : 0..MaxAwaits]]
      BY <1>1 DEF OtherTypes
    <3>2. \E x \in {"idle", "dead"} : client' = [client EXCEPT ![c].pc = x]
      BY <1>7 DEF GiveUp, Die
    <3> QED BY <3>1, <3>2
  <2> QED BY <1>1, <1>7, <2>1, <2>2 DEF GiveUp, Die, onlyClients, OtherTypes
<1> QED BY <1>4, <1>5, <1>6, <1>7 DEF ClientStep

------------------------------------------------------------------------------
(* The turn.                                                                   *)

(* Which messages are of which kind.                                           *)
LEMMA Kinds ==
  /\ "iterate" \in Iterates \cap Starters /\ "iterate" \notin Answers \cup Stops
  /\ "stop" \in Stops /\ "stop" \notin Iterates \cup Answers \cup Starters
  /\ \A m \in Results : m \in Answers \cap Starters /\ m \notin Iterates \cup Stops /\ m \in WorkerMessages
  /\ "gone" \in Answers /\ "gone" \notin Iterates \cup Stops \cup Starters /\ "gone" \in WorkerMessages
  /\ \A m \in {"sample", "snapshot"} : m \notin Iterates \cup Answers \cup Stops \cup Starters
  /\ {"iterate", "stop", "sample", "snapshot"} \subseteq WorkerMessages
  /\ \A q : In(q, Starters) => In(q, Iterates) \/ In(q, Answers)
BY DEF Iterates, Answers, Stops, Starters, Results, WorkerMessages, In

(* What is left in the mailbox when m is taken.                                *)
LEMMA TakenFacts ==
  ASSUME TypeOK, NEW m, Takes(m)
  PROVE  /\ worker = "ready" /\ Tail(inbox) \in Seq(WorkerMessages) /\ m \in WorkerMessages
         /\ \A S : In(inbox, S) <=> m \in S \/ In(Tail(inbox), S)
         /\ \A S : Single(inbox, S) <=> Single(Tail(inbox), S) /\ (m \in S => ~In(Tail(inbox), S))
         /\ \A S, T : Behind(inbox, S, T) =>
               Behind(Tail(inbox), S, T) /\ (m \in S => ~In(Tail(inbox), T) /\ m \notin T)
<1>1. inbox \in Seq(WorkerMessages) /\ inbox # <<>> /\ Head(inbox) = m /\ worker = "ready"
  BY DEF TypeOK, Takes
<1> QED BY <1>1, TailFacts

(* A turn of the worker's own.                                                 *)
LEMMA OwnTurn ==
  ASSUME TypeOK, TurnInv, Turn
  PROVE  /\ worker = "ready" /\ Alive /\ ~pending /\ ~finished /\ provider = None
         /\ Tail(inbox) \in Seq(WorkerMessages)
         /\ ~In(Tail(inbox), Iterates) /\ ~In(Tail(inbox), Answers)
<1>1. Takes("iterate") /\ ~finished /\ ~pending
  BY DEF Turn
<1>2. worker = "ready" /\ Alive
  BY <1>1 DEF Takes, Alive
<1> QED BY <1>1, <1>2, TakenFacts, Kinds DEF TurnInv

(* The provider's answer is taken.                                             *)
LEMMA AnswerTaken ==
  ASSUME TypeOK, TurnInv, NEW m \in Answers, Takes(m)
  PROVE  /\ worker = "ready" /\ Alive /\ pending /\ ~finished /\ provider = None
         /\ Tail(inbox) \in Seq(WorkerMessages)
         /\ ~In(Tail(inbox), Iterates) /\ ~In(Tail(inbox), Answers)
<1>1. worker = "ready" /\ Alive
  BY DEF Takes, Alive
<1>2. m \in WorkerMessages /\ pending /\ provider = None
  BY <1>1, TakenFacts DEF TurnInv
<1>3. ~finished
  BY <1>2 DEF TurnInv
<1>4. ~In(inbox, Iterates) /\ Single(inbox, Answers)
  BY <1>1, <1>2, <1>3 DEF TurnInv
<1> QED BY <1>1, <1>2, <1>3, <1>4, TakenFacts

(* The next turn is the worker's own.                                          *)
LEMMA TurnAgain ==
  ASSUME NEW q \in Seq(WorkerMessages), ~In(q, Iterates), ~In(q, Answers),
         inbox' = Append(q, "iterate"), worker' = "ready", ~finished', ~pending', provider' = None
  PROVE  TurnInv'
<1>1. In(inbox', Iterates) /\ ~In(inbox', Answers) /\ Single(inbox', Iterates) /\ Single(inbox', Answers)
  <2>1. Single(q, Iterates) /\ Single(q, Answers)
    BY DEF In, Single
  <2> QED BY <2>1, AppendFacts, Kinds
<1> QED BY <1>1 DEF TurnInv, Alive, Busy

(* What keeps the worker going is an execution.                                *)
LEMMA TurnRuns ==
  ASSUME ~In(inbox', Iterates), ~In(inbox', Answers), worker' \in {"executing", "checking", "verifying"},
         worker' = "verifying" => extra' > 0, ~finished', ~pending', provider' = None
  PROVE  TurnInv'
<1>1. Single(inbox', Iterates) /\ Single(inbox', Answers)
  BY DEF In, Single
<1> QED BY <1>1 DEF TurnInv, Alive, Busy

(* Nothing does: the campaign is over.                                         *)
LEMMA TurnOver ==
  ASSUME ~In(inbox', Answers), worker' = "ready", finished' = TRUE, ~pending', provider' = None
  PROVE  TurnInv'
BY DEF TurnInv, Alive, Busy

(* An execution begins, or its input is quarantined and another turn comes.    *)
LEMMA ExecuteTurn ==
  ASSUME NEW q \in Seq(WorkerMessages), ~In(q, Iterates), ~In(q, Answers), NEW channel,
         Execute(q, channel), worker = "ready", ~finished, ~pending', provider' = None
  PROVE  TurnInv'
<1>1. CASE worker' = "executing" /\ inbox' = q /\ UNCHANGED finished
  BY <1>1, TurnRuns
<1>2. CASE inbox' = Append(q, "iterate") /\ UNCHANGED <<worker, finished>>
  BY <1>2, TurnAgain
<1> QED BY <1>1, <1>2 DEF Execute

(* The worker reports an end.                                                  *)
LEMMA FinishTurn ==
  ASSUME NEW s, NEW channel, Finish(s, channel), ~In(inbox', Answers), ~pending', provider' = None
  PROVE  TurnInv'
BY TurnOver DEF Finish

(* The worker's steps.                                                         *)
LEMMA WorkerTurn ==
  ASSUME TypeOK, TurnInv, StopInv, WorkerStep
  PROVE  TurnInv'
<1> USE Kinds
<1>1. inbox \in Seq(WorkerMessages)
  BY DEF TypeOK
<1>2. Busy => /\ Alive /\ ~pending /\ ~finished /\ provider = None
              /\ ~In(inbox, Iterates) /\ ~In(inbox, Answers)
  BY DEF TurnInv, Busy, Alive
<1>3. CASE IterateForNothing
  <2>1. Takes("iterate") /\ worker = "ready" /\ Alive /\ In(inbox, Iterates)
    BY <1>3, TakenFacts DEF IterateForNothing, Takes, Alive
  <2>2. finished /\ ~pending /\ provider = None
    BY <1>3, <2>1 DEF IterateForNothing, TurnInv
  <2>3. ~In(inbox, Answers)
    BY <2>1, <2>2 DEF TurnInv
  <2>4. ~In(Tail(inbox), Answers)
    BY <2>1, <2>3, TakenFacts
  <2> QED BY <1>3, <2>1, <2>2, <2>4, TurnOver DEF IterateForNothing
<1>4. CASE Calibrate
  BY <1>4, OwnTurn, ExecuteTurn DEF Calibrate
<1>5. CASE BeginMutation
  <2>1. Turn
    BY <1>5 DEF BeginMutation
  <2> QED BY <1>5, <2>1, OwnTurn, TurnAgain DEF BeginMutation
<1>6. CASE Expire
  <2>1. Turn /\ \E s : Finish(s, up)
    BY <1>6 DEF Expire, Mutating, MayMutate
  <2> QED BY <1>6, <2>1, OwnTurn, FinishTurn DEF Expire
<1>7. CASE Candidate
  <2>1. Turn
    BY <1>7 DEF Candidate, MayMutate, Mutating
  <2> QED BY <1>7, <2>1, OwnTurn, ExecuteTurn DEF Candidate
<1>8. CASE AskProvider
  <2>1. Turn /\ (Continuous \/ iteration < MaxIterations)
    BY <1>8, Numbers DEF AskProvider, MayMutate, Mutating
  <2>2. /\ ~In(inbox', Iterates) /\ ~In(inbox', Answers) /\ worker' = "ready" /\ ~finished'
        /\ pending' /\ provider' = "working" /\ (Continuous' \/ iteration' < MaxIterations)
    BY <1>8, <2>1, OwnTurn DEF AskProvider, turn, WorkerStep, Continuous
  <2>3. Single(inbox', Iterates) /\ Single(inbox', Answers)
    BY <2>2 DEF In, Single
  <2> QED BY <2>2, <2>3 DEF TurnInv, Alive, Busy, None
<1>9. CASE Skip
  <2>1. Turn
    BY <1>9 DEF Skip, MayMutate, Mutating
  <2> QED BY <1>9, <2>1, OwnTurn, TurnAgain DEF Skip
<1>10. CASE Exhausted
  <2>1. Turn /\ \E s, q : Finish(s, q)
    BY <1>10 DEF Exhausted, MayMutate, Mutating, Infrastructure
  <2> QED BY <1>10, <2>1, OwnTurn, FinishTurn DEF Exhausted
<1>11. CASE Executed
  <2>1. Busy
    BY <1>11 DEF Executed, Busy
  <2>2. CASE Infrastructure("target")
    BY <1>2, <1>11, <2>1, <2>2, FinishTurn DEF Executed, Infrastructure
  <2>3. CASE worker' = "checking" /\ UNCHANGED finished
    BY <1>2, <1>11, <2>1, <2>3, TurnRuns DEF Executed
  <2> QED BY <1>11, <2>2, <2>3 DEF Executed
<1>12. CASE Verify
  <2>1. Busy
    BY <1>12 DEF Verify, Busy
  <2>2. CASE Accepted
    BY <1>1, <1>2, <1>12, <2>1, <2>2, TurnAgain DEF Verify, Accepted
  <2>3. CASE extra # 0 /\ VerifyNext
    <3>1. extra' > 0
      BY <2>3, Numbers DEF VerifyNext
    <3> QED BY <1>2, <1>12, <2>1, <2>3, <3>1, TurnRuns DEF Verify, VerifyNext
  <2>4. CASE StopWaits /\ inbox' = RemoveFirst(inbox, "stop") \o <<"stop", "iterate">> /\ worker' = "ready"
    <3> DEFINE r == RemoveFirst(inbox, "stop")
    <3>1. In(inbox, Stops) /\ Single(inbox, Stops)
      BY <1>1, <2>4, ContainsIn DEF StopWaits, Stops, StopInv
    <3>2. r \in Seq(WorkerMessages) /\ ~In(r, Iterates) /\ ~In(r, Answers)
      BY <1>1, <1>2, <2>1, <3>1, RemoveFacts DEF Stops
    <3> HIDE DEF r
    <3>3. inbox' = Append(Append(r, "stop"), "iterate")
      BY <2>4, <3>2, PutBack DEF r
    <3>4. /\ Append(r, "stop") \in Seq(WorkerMessages)
          /\ ~In(Append(r, "stop"), Iterates) /\ ~In(Append(r, "stop"), Answers)
      BY <3>2, AppendFacts
    <3> QED BY <1>2, <1>12, <2>1, <2>4, <3>3, <3>4, TurnAgain DEF Verify
  <2> QED BY <1>12, <2>2, <2>3, <2>4 DEF Verify
<1>13. CASE Verified
  <2>1. Busy
    BY <1>13 DEF Verified, Busy
  <2>2. CASE Infrastructure("verification")
    BY <1>2, <1>13, <2>1, <2>2, FinishTurn DEF Verified, Infrastructure
  <2>3. CASE worker' = "checking" /\ UNCHANGED finished
    BY <1>2, <1>13, <2>1, <2>3, TurnRuns DEF Verified
  <2> QED BY <1>13, <2>2, <2>3 DEF Verified
<1>14. CASE ProviderReplied
  <2>1. PICK result \in Results : ReplyTaken(result)
    BY <1>14 DEF ProviderReplied
  <2>2. result \in Answers /\ Takes(result) /\ ~pending' /\ provider' = provider
    BY <2>1 DEF ReplyTaken
  <2>3. /\ worker = "ready" /\ ~finished /\ provider = None /\ Tail(inbox) \in Seq(WorkerMessages)
        /\ ~In(Tail(inbox), Iterates) /\ ~In(Tail(inbox), Answers)
    BY <2>2, AnswerTaken
  <2>4. CASE inbox' = Tail(inbox) /\ \E s, q : Finish(s, q)
    BY <2>2, <2>3, <2>4, FinishTurn
  <2>5. CASE \E q : Execute(Tail(inbox), q)
    BY <2>2, <2>3, <2>5, ExecuteTurn
  <2>6. CASE inbox' = Append(Tail(inbox), "iterate") /\ UNCHANGED <<worker, finished>>
    BY <2>2, <2>3, <2>6, TurnAgain
  <2> QED BY <2>1, <2>4, <2>5, <2>6 DEF ReplyTaken, Infrastructure
<1>15. CASE ProviderGone
  <2>1. "gone" \in Answers /\ Takes("gone") /\ \E q : Finish("infrastructure", q)
    BY <1>15 DEF ProviderGone, Infrastructure
  <2> QED BY <1>15, <2>1, AnswerTaken, FinishTurn DEF ProviderGone
<1>16. CASE StopTaken
  <2>1. /\ Takes("stop") /\ worker = "ready" /\ Alive /\ inbox' = Tail(inbox) /\ worker' = "ready"
        /\ UNCHANGED <<turn, pending>> /\ (Continuous' <=> Continuous)
    BY <1>16 DEF StopTaken, Takes, Alive, Finish, WorkerStep, Continuous
  <2>2. /\ In(inbox', Iterates) <=> In(inbox, Iterates)
        /\ In(inbox', Answers) <=> In(inbox, Answers)
        /\ Single(inbox', Iterates) <=> Single(inbox, Iterates)
        /\ Single(inbox', Answers) <=> Single(inbox, Answers)
    BY <2>1, TakenFacts
  <2>3. CASE UNCHANGED finished
    <3>1. (provider' = None) <=> (provider = None)
      BY <1>16 DEF StopTaken, Finish, None
    <3>2. provider' # None => provider # None
      BY <3>1
    <3> QED BY <2>1, <2>2, <2>3, <3>1 DEF TurnInv, Alive, Busy, turn
  <2>4. CASE ~finished /\ ~pending /\ Finish("stopped_by_user", up) /\ UNCHANGED provider
    <3>1. provider = None /\ ~In(inbox, Answers)
      BY <2>1, <2>4 DEF TurnInv
    <3> QED BY <2>1, <2>2, <2>4, <3>1, FinishTurn
  <2> QED BY <1>16, <2>3, <2>4 DEF StopTaken
<1>17. CASE SampleTaken
  <2>1. /\ Takes("sample") /\ worker = "ready" /\ Alive /\ inbox' = Tail(inbox)
        /\ UNCHANGED <<worker, turn, pending, finished, provider>> /\ (Continuous' <=> Continuous)
    BY <1>17 DEF SampleTaken, Takes, Alive, WorkerStep, Continuous
  <2>2. /\ In(inbox', Iterates) <=> In(inbox, Iterates)
        /\ In(inbox', Answers) <=> In(inbox, Answers)
        /\ Single(inbox', Iterates) <=> Single(inbox, Iterates)
        /\ Single(inbox', Answers) <=> Single(inbox, Answers)
    BY <2>1, TakenFacts
  <2> QED BY <2>1, <2>2 DEF TurnInv, Alive, Busy, turn
<1> QED BY <1>3, <1>4, <1>5, <1>6, <1>7, <1>8, <1>9, <1>10, <1>11, <1>12, <1>13, <1>14, <1>15, <1>16,
           <1>17 DEF WorkerStep

(* The provider, the worker's end and the delivery of a message.               *)
LEMMA SurroundingsTurn ==
  ASSUME TypeOK, TurnInv, Surroundings \/ Crash \/ Deliver
  PROVE  TurnInv'
<1> USE Kinds
<1>1. inbox \in Seq(WorkerMessages) /\ wire \in Seq({"stop", "sample", "snapshot"})
      /\ mode' = mode /\ (Continuous' <=> Continuous)
  BY DEF TypeOK, Surroundings, Crash, Deliver, Continuous
<1>2. CASE Surroundings
  <2>1. CASE ProviderOrphaned
    <3>1. ~Alive /\ UNCHANGED <<worker, inbox, turn, pending, finished>> /\ provider' = None
      BY <2>1 DEF ProviderOrphaned
    <3> QED BY <1>1, <3>1 DEF TurnInv, Alive, Busy, turn
  <2>2. CASE ProviderAnswers \/ ProviderFails
    <3>1. PICK m \in Answers : m \in WorkerMessages /\ inbox' = Append(inbox, m)
      BY <2>2 DEF ProviderAnswers, ProviderFails
    <3>2. /\ provider # None /\ Alive /\ provider' = None
          /\ UNCHANGED <<worker, turn, pending, finished>>
      BY <2>2 DEF ProviderAnswers, ProviderFails
    <3>3. pending /\ ~finished /\ ~In(inbox, Answers)
      BY <3>2 DEF TurnInv
    <3>4. m \notin Iterates
      BY DEF Iterates, Answers, Results
    <3>5. /\ In(inbox', Iterates) <=> In(inbox, Iterates)
          /\ Single(inbox', Iterates) <=> Single(inbox, Iterates)
          /\ In(inbox', Answers)
          /\ Single(inbox', Answers) <=> Single(inbox, Answers)
      BY <1>1, <3>1, <3>3, <3>4, AppendFacts
    <3> QED BY <1>1, <3>2, <3>3, <3>5 DEF TurnInv, Alive, Busy, turn
  <2> QED BY <1>2, <2>1, <2>2 DEF Surroundings
<1>3. CASE Crash
  BY <1>1, <1>3 DEF Crash, WorkerCrashes, TurnInv, Alive, Busy, turn
<1>4. CASE Deliver
  <2>1. Head(wire) \in {"stop", "sample", "snapshot"} /\ Head(wire) \in WorkerMessages
    BY <1>1, <1>4, TailFacts DEF Deliver
  <2>2. UNCHANGED <<worker, turn, pending, finished, provider>>
    BY <1>4 DEF Deliver
  <2>3. CASE ~Alive
    BY <1>1, <1>4, <2>2, <2>3 DEF Deliver, TurnInv, Alive, Busy, turn
  <2>4. CASE Alive
    <3>1. inbox' = Append(inbox, Head(wire))
      BY <1>4, <2>4 DEF Deliver
    <3>2. /\ In(inbox', Iterates) <=> In(inbox, Iterates)
          /\ In(inbox', Answers) <=> In(inbox, Answers)
          /\ Single(inbox', Iterates) <=> Single(inbox, Iterates)
          /\ Single(inbox', Answers) <=> Single(inbox, Answers)
      BY <1>1, <2>1, <3>1, AppendFacts
    <3> QED BY <1>1, <2>2, <2>4, <3>2 DEF TurnInv, Alive, Busy, turn
  <2> QED BY <2>3, <2>4
<1> QED BY <1>2, <1>3, <1>4

(* The coordinator and the clients leave the turn alone, or end it.            *)
LEMMA OthersTurn ==
  ASSUME TypeOK, TurnInv,
         Asks \/ SnapshotTaken \/ (\E how : Ends(how)) \/ HearWorker \/ (\E c \in Clients : ClientStep(c))
  PROVE  TurnInv'
<1>1. mode' = mode /\ (Continuous' <=> Continuous)
  BY DEF Asks, RequestStop, Poll, Benchmark, SnapshotTaken, Ends, End, HearWorker, ClientStep, HearClient,
         Call, Answered, GiveUp, Die, onlyClients, Continuous
<1>2. CASE Asks \/ HearWorker \/ (\E c \in Clients : ClientStep(c))
  <2>1. UNCHANGED workerVars
    BY <1>2 DEF Asks, RequestStop, Poll, Benchmark, HearWorker, ClientStep, HearClient,
                Call, Answered, GiveUp, Die, onlyClients, unchangedWorker
  <2> QED BY <1>1, <2>1 DEF workerVars, turn, TurnInv, Alive, Busy
<1>3. CASE SnapshotTaken
  <2>1. /\ Takes("snapshot") /\ worker = "ready" /\ Alive /\ inbox' = Tail(inbox)
        /\ UNCHANGED <<worker, turn, pending, finished, provider>>
    BY <1>3 DEF SnapshotTaken, Takes, Alive
  <2>2. /\ In(inbox', Iterates) <=> In(inbox, Iterates)
        /\ In(inbox', Answers) <=> In(inbox, Answers)
        /\ Single(inbox', Iterates) <=> Single(inbox, Iterates)
        /\ Single(inbox', Answers) <=> Single(inbox, Answers)
    BY <2>1, TakenFacts, Kinds
  <2> QED BY <1>1, <2>1, <2>2 DEF TurnInv, Alive, Busy, turn
<1>4. CASE \E how : Ends(how)
  <2>1. /\ worker' \in {"dead", "killed"} /\ inbox' = <<>>
        /\ UNCHANGED <<turn, pending, finished, provider>>
    BY <1>4 DEF Ends, End, Alive
  <2> QED BY <1>1, <2>1 DEF TurnInv, Alive, Busy, turn
<1> QED BY <1>2, <1>3, <1>4

------------------------------------------------------------------------------
(* The stop.                                                                   *)

(* What takes no stop and begins nothing.                                      *)
LEMMA StopKept ==
  ASSUME TypeOK, StopInv,
         In(inbox', Stops) <=> In(inbox, Stops), Single(inbox, Stops) => Single(inbox', Stops),
         Behind(inbox, Starters, Stops) => Behind(inbox', Starters, Stops),
         In(wire', Stops) <=> In(wire, Stops), Single(wire, Stops) => Single(wire', Stops),
         UNCHANGED <<late, stopping, stopRequested>>, Alive' => Alive,
         Alive /\ finished => finished', Alive /\ stopping /\ pending => pending' \/ finished'
  PROVE  StopInv'
BY DEF StopInv

(* The same, where the mailbox is what a worker leaves there.                  *)
LEMMA TakenKept ==
  ASSUME TypeOK, StopInv, NEW m, Takes(m), m \notin Stops,
         inbox' \in {Tail(inbox), Append(Tail(inbox), "iterate")},
         UNCHANGED <<wire, late, stopping, stopRequested>>, Alive',
         finished => finished', stopping /\ pending => pending' \/ finished'
  PROVE  StopInv'
<1>1. /\ In(Tail(inbox), Stops) <=> In(inbox, Stops)
      /\ Single(inbox, Stops) => Single(Tail(inbox), Stops)
      /\ Behind(inbox, Starters, Stops) => Behind(Tail(inbox), Starters, Stops)
      /\ Tail(inbox) \in Seq(WorkerMessages)
  BY TakenFacts
<1>2. /\ In(inbox', Stops) <=> In(inbox, Stops)
      /\ Single(inbox, Stops) => Single(inbox', Stops)
      /\ Behind(inbox, Starters, Stops) => Behind(inbox', Starters, Stops)
  <2>1. CASE inbox' = Tail(inbox)
    BY <1>1, <2>1
  <2>2. CASE inbox' = Append(Tail(inbox), "iterate")
    <3> DEFINE t == Tail(inbox)
    <3>1. t \in Seq(WorkerMessages) /\ "iterate" \in WorkerMessages /\ "iterate" \notin Stops
      BY <1>1, Kinds
    <3> HIDE DEF t
    <3>2. /\ In(Append(t, "iterate"), Stops) <=> In(t, Stops)
          /\ Single(Append(t, "iterate"), Stops) <=> Single(t, Stops)
          /\ Behind(t, Starters, Stops) => Behind(Append(t, "iterate"), Starters, Stops)
      BY <3>1, AppendFacts
    <3> QED BY <1>1, <2>2, <3>2 DEF t
  <2> QED BY <2>1, <2>2
<1>3. Alive
  BY DEF Takes, Alive
<1> QED BY <1>2, <1>3, StopKept

(* An execution begins: not again where one began over the stop.               *)
LEMMA ExecuteStop ==
  ASSUME TypeOK, TurnInv, StopInv, NEW m \in Starters, Takes(m), NEW channel,
         Execute(Tail(inbox), channel), ~finished, ~stopping, ~In(Tail(inbox), Iterates), ~In(Tail(inbox), Answers),
         UNCHANGED <<wire, stopping, stopRequested>>
  PROVE  StopInv'
<1>1. Alive /\ m \notin Stops /\ worker = "ready"
  BY Kinds DEF Takes, Alive, Starters, Iterates
<1>2. CASE inbox' = Append(Tail(inbox), "iterate") /\ UNCHANGED <<worker, finished, late>>
  BY <1>1, <1>2, TakenKept DEF Alive
<1>3. CASE worker' = "executing" /\ inbox' = Tail(inbox) /\ Late /\ UNCHANGED finished
  <2>1. late = 0
    <3>1. CASE In(inbox, Stops)
      <4>1. In(Tail(inbox), Stops)
        BY <1>1, <3>1, TakenFacts
      <4>2. ~Behind(inbox, Starters, Stops)
        BY <4>1, TakenFacts
      <4> QED BY <4>2 DEF StopInv, TypeOK
    <3>2. CASE ~In(inbox, Stops)
      BY <1>1, <3>2 DEF StopInv, TypeOK
    <3> QED BY <3>1, <3>2
  <2>2. /\ StopWaits <=> In(inbox, Stops)
        /\ In(inbox', Stops) <=> In(inbox, Stops)
        /\ Single(inbox, Stops) => Single(inbox', Stops)
    <3>1. inbox \in Seq(WorkerMessages)
      BY DEF TypeOK
    <3> QED BY <1>1, <1>3, <3>1, TakenFacts, ContainsIn DEF StopWaits, Stops
  <2>3. Behind(inbox', Starters, Stops)
    BY <1>3, Kinds DEF Behind, In
  <2>4. /\ ~In(inbox, Stops) => late' = 0
        /\ In(inbox, Stops) => late' = 1
    BY <1>3, <2>1, <2>2 DEF Late
  <2> QED BY <2>1, <2>2, <2>3, <2>4 DEF StopInv
<1> QED BY <1>2, <1>3 DEF Execute

(* The worker's steps.                                                         *)
LEMMA WorkerStop ==
  ASSUME TypeOK, TurnInv, StopInv, WorkerStep
  PROVE  StopInv'
<1> USE Kinds
<1>1. inbox \in Seq(WorkerMessages) /\ UNCHANGED <<wire, stopRequested>>
  BY DEF TypeOK, WorkerStep, coordVars
<1>2. Busy => /\ Alive /\ ~pending /\ ~finished /\ ~In(inbox, Iterates) /\ ~In(inbox, Answers)
  BY DEF TurnInv, Busy, Alive
<1>3. ASSUME NEW s, NEW channel, Finish(s, channel)
      PROVE  finished' = TRUE /\ Alive'
  BY <1>3 DEF Finish, Alive
<1>4. CASE IterateForNothing \/ BeginMutation \/ Skip
  <2>1. /\ Takes("iterate") /\ inbox' \in {Tail(inbox), Append(Tail(inbox), "iterate")}
        /\ UNCHANGED <<worker, late, stopping, finished, pending>>
    BY <1>4 DEF IterateForNothing, BeginMutation, Skip, MayMutate, Mutating, Turn, history
  <2>2. Alive'
    BY <2>1 DEF Takes, Alive
  <2> QED BY <1>1, <2>1, <2>2, TakenKept
<1>5. CASE Calibrate \/ Candidate
  <2>1. Turn /\ UNCHANGED stopping /\ \E q : Execute(Tail(inbox), q)
    BY <1>5 DEF Calibrate, Candidate, MayMutate, Mutating
  <2>2. ~stopping
    BY <2>1, OwnTurn DEF StopInv
  <2> QED BY <1>1, <2>1, <2>2, OwnTurn, ExecuteStop DEF Turn
<1>6. CASE Expire \/ Exhausted
  <2>1. Takes("iterate") /\ inbox' = Tail(inbox) /\ UNCHANGED <<late, stopping>> /\ \E s, q : Finish(s, q)
    BY <1>6 DEF Expire, Exhausted, MayMutate, Mutating, Turn, Infrastructure, history
  <2> QED BY <1>1, <1>3, <2>1, TakenKept
<1>7. CASE AskProvider
  <2>1. /\ Takes("iterate") /\ inbox' = Tail(inbox) /\ UNCHANGED <<worker, late, stopping, finished>> /\ pending'
    BY <1>7 DEF AskProvider, MayMutate, Mutating, Turn, history
  <2>2. Alive'
    BY <2>1 DEF Takes, Alive
  <2> QED BY <1>1, <2>1, <2>2, TakenKept
<1>8. CASE Executed \/ Verified
  <2>1. Busy /\ UNCHANGED <<inbox, late, stopping, pending>>
    BY <1>8 DEF Executed, Verified, Busy, history
  <2> QED BY <1>1, <1>2, <2>1, StopKept
<1>9. CASE Verify
  <2>1. Busy /\ UNCHANGED <<stopping, pending, finished>>
    BY <1>9 DEF Verify, Busy
  <2>2. CASE Accepted
    <3>1. inbox' = Append(inbox, "iterate") /\ UNCHANGED late
      BY <2>2 DEF Accepted
    <3>2. /\ In(inbox', Stops) <=> In(inbox, Stops)
          /\ Single(inbox, Stops) => Single(inbox', Stops)
          /\ Behind(inbox, Starters, Stops) => Behind(inbox', Starters, Stops)
      BY <1>1, <3>1, AppendFacts
    <3> QED BY <1>1, <1>2, <2>1, <3>1, <3>2, StopKept
  <2>3. CASE ~StopWaits /\ VerifyNext
    <3>1. UNCHANGED <<inbox, late>>
      BY <2>3 DEF VerifyNext, Late
    <3> QED BY <1>1, <1>2, <2>1, <3>1, StopKept
  <2>4. CASE StopWaits /\ inbox' = RemoveFirst(inbox, "stop") \o <<"stop", "iterate">> /\ UNCHANGED late
    <3> DEFINE r == RemoveFirst(inbox, "stop")
    <3>1. In(inbox, Stops) /\ Single(inbox, Stops)
      BY <1>1, <2>4, ContainsIn DEF StopWaits, Stops, StopInv
    <3>2. r \in Seq(WorkerMessages) /\ ~In(r, Iterates) /\ ~In(r, Answers) /\ ~In(r, Stops)
      BY <1>1, <1>2, <2>1, <3>1, RemoveFacts DEF Stops
    <3> HIDE DEF r
    <3>3. inbox' = Append(Append(r, "stop"), "iterate")
      BY <2>4, <3>2, PutBack DEF r
    <3>4. Single(r, Stops) /\ Behind(r, Starters, Stops) /\ ~In(r, Starters)
      BY <3>2 DEF Single, Behind, In
    <3>5. /\ Append(r, "stop") \in Seq(WorkerMessages) /\ In(Append(r, "stop"), Stops)
          /\ Single(Append(r, "stop"), Stops) /\ Behind(Append(r, "stop"), Starters, Stops)
      BY <3>2, <3>4, AppendFacts
    <3>6. In(inbox', Stops) /\ Single(inbox', Stops) /\ Behind(inbox', Starters, Stops)
      <4> DEFINE a == Append(r, "stop")
      <4>1. /\ a \in Seq(WorkerMessages) /\ In(a, Stops) /\ Single(a, Stops) /\ Behind(a, Starters, Stops)
            /\ "iterate" \in WorkerMessages /\ "iterate" \notin Stops
        BY <3>5
      <4> HIDE DEF a
      <4>2. In(Append(a, "iterate"), Stops) /\ Single(Append(a, "iterate"), Stops)
            /\ Behind(Append(a, "iterate"), Starters, Stops)
        BY <4>1, AppendFacts
      <4> QED BY <3>3, <4>2 DEF a
    <3> QED BY <1>1, <1>2, <2>1, <2>4, <3>1, <3>6, StopKept
  <2> QED BY <1>9, <2>2, <2>3, <2>4 DEF Verify
<1>10. CASE ProviderReplied
  <2>1. PICK result \in Results : ReplyTaken(result)
    BY <1>10 DEF ProviderReplied
  <2>2. result \in Answers /\ result \in Starters /\ result \notin Stops /\ Takes(result) /\ UNCHANGED stopping
    BY <2>1 DEF ReplyTaken
  <2>3. CASE inbox' = Tail(inbox) /\ UNCHANGED late /\ \E s, q : Finish(s, q)
    BY <1>1, <1>3, <2>2, <2>3, TakenKept
  <2>4. CASE ~stopping /\ \E q : Execute(Tail(inbox), q)
    BY <1>1, <2>2, <2>4, AnswerTaken, ExecuteStop
  <2>5. CASE ~stopping /\ inbox' = Append(Tail(inbox), "iterate") /\ UNCHANGED <<worker, finished, late>>
    <3>1. Alive'
      BY <2>2, <2>5 DEF Takes, Alive
    <3> QED BY <1>1, <2>2, <2>5, <3>1, TakenKept
  <2> QED BY <2>1, <2>3, <2>4, <2>5 DEF ReplyTaken, Infrastructure
<1>11. CASE ProviderGone
  <2>1. Takes("gone") /\ inbox' = Tail(inbox) /\ UNCHANGED <<late, stopping>> /\ \E s, q : Finish(s, q)
    BY <1>11 DEF ProviderGone, Infrastructure, history
  <2> QED BY <1>1, <1>3, <2>1, TakenKept
<1>12. CASE StopTaken
  <2>1. Takes("stop") /\ inbox' = Tail(inbox) /\ UNCHANGED <<late, pending>> /\ Alive
    BY <1>12 DEF StopTaken, history, Takes, Alive
  <2>2. /\ In(inbox, Stops) /\ ~In(inbox', Stops) /\ Single(inbox', Stops)
        /\ Behind(inbox, Starters, Stops) => Behind(inbox', Starters, Stops)
    BY <2>1, TakenFacts DEF StopInv
  <2>3. ~In(wire, Stops) /\ stopRequested
    BY <2>2 DEF StopInv
  <2>4. finished' \/ (stopping' /\ pending')
    BY <1>12, <2>1, <2>2, <2>3 DEF StopTaken, StopInv, Finish
  <2> QED BY <1>1, <2>1, <2>2, <2>3, <2>4 DEF StopInv
<1>13. CASE SampleTaken
  <2>1. /\ Takes("sample") /\ inbox' = Tail(inbox) /\ UNCHANGED <<worker, late, stopping, finished, pending>>
    BY <1>13 DEF SampleTaken, history
  <2>2. Alive'
    BY <2>1 DEF Takes, Alive
  <2> QED BY <1>1, <2>1, <2>2, TakenKept
<1> QED BY <1>4, <1>5, <1>6, <1>7, <1>8, <1>9, <1>10, <1>11, <1>12, <1>13 DEF WorkerStep

(* The provider, the worker's end and the delivery of a message.               *)
LEMMA SurroundingsStop ==
  ASSUME TypeOK, StopInv, Surroundings \/ Crash \/ Deliver
  PROVE  StopInv'
<1> USE Kinds
<1>1. inbox \in Seq(WorkerMessages) /\ wire \in Seq({"stop", "sample", "snapshot"})
  BY DEF TypeOK
<1>2. CASE Surroundings
  <2>1. UNCHANGED <<worker, late, stopping, finished, pending, wire, stopRequested>> /\ (Alive' <=> Alive)
    BY <1>2 DEF Surroundings, ProviderAnswers, ProviderFails, ProviderOrphaned, history, coordVars, Alive
  <2>2. CASE inbox' = inbox
    BY <2>1, <2>2, StopKept
  <2>3. CASE \E m \in Answers : m \in WorkerMessages /\ inbox' = Append(inbox, m)
    <3>1. PICK m \in Answers : m \in WorkerMessages /\ inbox' = Append(inbox, m)
      BY <2>3
    <3>2. m \notin Stops
      BY DEF Answers, Results, Stops
    <3>3. /\ In(inbox', Stops) <=> In(inbox, Stops)
          /\ Single(inbox, Stops) => Single(inbox', Stops)
          /\ Behind(inbox, Starters, Stops) => Behind(inbox', Starters, Stops)
      BY <1>1, <3>1, <3>2, AppendFacts
    <3> QED BY <2>1, <3>3, StopKept
  <2> QED BY <1>2, <2>2, <2>3 DEF Surroundings, ProviderAnswers, ProviderFails, ProviderOrphaned
<1>3. CASE Crash
  <2>1. ~Alive' /\ inbox' = <<>> /\ UNCHANGED <<late, stopping, wire, stopRequested>>
    BY <1>3 DEF Crash, WorkerCrashes, coordVars, Alive
  <2> QED BY <2>1, EmptyFacts DEF StopInv
<1>4. CASE Deliver
  <2>1. /\ UNCHANGED <<worker, late, stopping, finished, pending, stopRequested>> /\ (Alive' <=> Alive)
        /\ wire # <<>> /\ wire' = Tail(wire)
    BY <1>4 DEF Deliver, history, coordVars, Alive
  <2>2. /\ In(wire, Stops) <=> Head(wire) \in Stops \/ In(wire', Stops)
        /\ Single(wire, Stops) <=> Single(wire', Stops) /\ (Head(wire) \in Stops => ~In(wire', Stops))
        /\ Head(wire) \in {"stop", "sample", "snapshot"}
    BY <1>1, <2>1, TailFacts
  <2>3. CASE ~Alive
    <3>1. inbox' = inbox
      BY <1>4, <2>3 DEF Deliver
    <3> QED BY <2>1, <2>2, <2>3, <3>1 DEF StopInv
  <2>4. CASE Alive
    <3>1. inbox' = Append(inbox, Head(wire)) /\ Head(wire) \in WorkerMessages
      BY <1>4, <2>2, <2>4 DEF Deliver
    <3>2. /\ In(inbox', Stops) <=> In(inbox, Stops) \/ Head(wire) \in Stops
          /\ Single(inbox', Stops) <=> Single(inbox, Stops) /\ (Head(wire) \in Stops => ~In(inbox, Stops))
          /\ Head(wire) \notin Stops /\ Behind(inbox, Starters, Stops) => Behind(inbox', Starters, Stops)
      BY <1>1, <3>1, AppendFacts
    <3>3. CASE Head(wire) \in Stops
      <4>1. In(wire, Stops) /\ ~In(inbox, Stops) /\ late = 0 /\ ~stopping /\ stopRequested
        BY <2>2, <2>4, <3>3 DEF StopInv, TypeOK
      <4> QED BY <2>1, <2>2, <3>2, <3>3, <4>1 DEF StopInv
    <3>4. CASE Head(wire) \notin Stops
      BY <2>1, <2>2, <3>2, <3>4, StopKept DEF StopInv
    <3> QED BY <3>3, <3>4
  <2> QED BY <2>3, <2>4
<1> QED BY <1>2, <1>3, <1>4

(* The coordinator and the clients.                                            *)
LEMMA OthersStop ==
  ASSUME TypeOK, StopInv,
         Asks \/ SnapshotTaken \/ (\E how : Ends(how)) \/ HearWorker \/ (\E c \in Clients : ClientStep(c))
  PROVE  StopInv'
<1> USE Kinds
<1>1. inbox \in Seq(WorkerMessages) /\ wire \in Seq({"stop", "sample", "snapshot"})
  BY DEF TypeOK
<1>2. CASE RequestStop
  <2>1. /\ ~stopRequested /\ stopRequested' /\ wire' = Append(wire, "stop")
        /\ UNCHANGED <<worker, inbox, pending, stopping, finished, late>>
    BY <1>2 DEF RequestStop, unchangedWorker, workerVars, history
  <2>2. ~In(wire, Stops) /\ ~In(inbox, Stops) /\ ~stopping /\ late = 0
    BY <2>1 DEF StopInv
  <2>3. Single(wire', Stops)
    BY <1>1, <2>1, <2>2, AppendFacts DEF StopInv
  <2> QED BY <2>1, <2>2, <2>3 DEF StopInv
<1>3. CASE Poll \/ Benchmark
  <2>1. PICK m \in {"sample", "snapshot"} : wire' = Append(wire, m)
    BY <1>3 DEF Poll, Benchmark
  <2>2. UNCHANGED <<worker, inbox, pending, stopping, finished, late, stopRequested>> /\ (Alive' <=> Alive)
    BY <1>3 DEF Poll, Benchmark, unchangedWorker, workerVars, history, Alive
  <2>3. /\ In(wire', Stops) <=> In(wire, Stops)
        /\ Single(wire, Stops) => Single(wire', Stops)
    BY <1>1, <2>1, AppendFacts
  <2> QED BY <2>2, <2>3, StopKept
<1>4. CASE HearWorker \/ (\E c \in Clients : ClientStep(c))
  <2>1. UNCHANGED <<worker, inbox, pending, stopping, finished, late, stopRequested, wire>> /\ (Alive' <=> Alive)
    BY <1>4 DEF HearWorker, ClientStep, HearClient, Call, Answered, GiveUp, Die, onlyClients, unchangedWorker,
                workerVars, history, Alive
  <2> QED BY <2>1, StopKept
<1>5. CASE SnapshotTaken
  <2>1. /\ Takes("snapshot") /\ inbox' = Tail(inbox)
        /\ UNCHANGED <<worker, pending, stopping, finished, late, stopRequested, wire>>
    BY <1>5 DEF SnapshotTaken, history
  <2>2. Alive'
    BY <2>1 DEF Takes, Alive
  <2> QED BY <2>1, <2>2, TakenKept
<1>6. CASE \E how : Ends(how)
  <2>1. ~Alive' /\ inbox' = <<>> /\ wire' = <<>> /\ UNCHANGED <<stopping, late, stopRequested>>
    BY <1>6 DEF Ends, End, Alive, history
  <2> QED BY <2>1, EmptyFacts DEF StopInv
<1> QED BY <1>2, <1>3, <1>4, <1>5, <1>6 DEF Asks

------------------------------------------------------------------------------
(* The report.                                                                 *)

(* q has no more to say of an end than the worker has said so far; the worker  *)
(* says only such things; the worker reports, and as stopped only if asked to. *)
Same(q) ==
    /\ q \in Seq(Told)
    /\ In(q, Dones) <=> In(up, Dones)
    /\ Single(up, Dones) => Single(q, Dones)
    /\ In(q, Downs) <=> In(up, Downs)
    /\ In(q, {Done("stopped_by_user")}) <=> In(up, {Done("stopped_by_user")})
Quiet == UNCHANGED finished /\ Same(up')
Reports ==
    /\ ~finished /\ finished' = TRUE /\ worker' = "ready"
    /\ ~In(up, Dones) => Single(up', Dones)
    /\ In(up', Downs) <=> In(up, Downs)
    /\ In(up', {Done("stopped_by_user")}) => stopRequested \/ In(up, {Done("stopped_by_user")})

(* Contexts and samples say nothing of an end.                                 *)
LEMMA SameTold ==
  ASSUME TypeOK
  PROVE  /\ Same(up) /\ Same(Append(up, Sample))
         /\ \A c \in Contexts : Same(Tell(up, c))
         /\ \A c, d \in Contexts : Same(Tell(Tell(up, c), d))
<1>1. up \in Seq(Told) /\ Sample \in Told
  BY Messages DEF TypeOK
<1>2. /\ Dones \cap Ctxs = {} /\ Downs \cap Ctxs = {} /\ {Done("stopped_by_user")} \cap Ctxs = {}
      /\ Sample \notin Dones \cup Downs \cup {Done("stopped_by_user")}
  <2>1. Done("stopped_by_user") \in Dones
    BY DEF Dones, Statuses
  <2> QED BY <2>1, ToldKinds
<1>3. Same(up)
  BY <1>1 DEF Same
<1>4. Same(Append(up, Sample))
  BY <1>1, <1>2, AppendFacts DEF Same
<1>5. ASSUME NEW q, Same(q), NEW c \in Contexts
      PROVE  Same(Tell(q, c))
  <2>1. q \in Seq(Told)
    BY <1>5 DEF Same
  <2>2. /\ Tell(q, c) \in Seq(Told)
        /\ \A S : S \cap Ctxs = {} =>
             (In(Tell(q, c), S) <=> In(q, S)) /\ (Single(Tell(q, c), S) <=> Single(q, S))
    BY <2>1, TellFacts
  <2> QED BY <1>2, <1>5, <2>2 DEF Same
<1> QED BY <1>3, <1>4, <1>5

(* An end is reported.                                                         *)
LEMMA FinishReports ==
  ASSUME NEW q, Same(q), NEW status \in Statuses \ {"worker_down"}, Finish(status, q),
         ~finished, status = "stopped_by_user" => stopRequested
  PROVE  Reports
<1>1. q \in Seq(Told)
  BY DEF Same
<1>2. /\ finished' = TRUE /\ worker' = "ready" /\ (~In(q, Dones) => Single(up', Dones))
      /\ In(up', Downs) <=> In(q, Downs)
      /\ In(up', {Done("stopped_by_user")}) <=> In(q, {Done("stopped_by_user")}) \/ "stopped_by_user" = status
  BY <1>1, FinishFacts
<1> QED BY <1>2 DEF Same, Reports

(* What a step of the worker says.                                             *)
LEMMA WorkerSays ==
  ASSUME TypeOK, TurnInv, StopInv, WorkerStep
  PROVE  Alive /\ Alive' /\ (Quiet \/ Reports)
<1>1. {None, "target", "provider", "verification"} \subseteq Contexts
  BY DEF Contexts
<1>2. {"completed", "no_new_coverage", "exhausted", "stopped_by_user", "infrastructure"} \subseteq
        Statuses \ {"worker_down"}
  BY DEF Statuses
<1>3. Busy => Alive /\ ~finished
  BY DEF TurnInv, Busy, Alive
<1>4. \A m : Takes(m) => Alive /\ worker = "ready"
  BY DEF Takes, Alive
<1>5. ASSUME NEW c \in {None, "target", "provider", "verification"}, Infrastructure(c), ~finished
      PROVE  Reports
  <2>1. Same(Tell(up, c)) /\ Finish("infrastructure", Tell(up, c))
    BY <1>1, <1>5, SameTold DEF Infrastructure
  <2> QED BY <1>2, <1>5, <2>1, FinishReports
<1>6. ASSUME NEW q, Same(q), Same(Tell(q, "target")), NEW rest, Execute(rest, q)
      PROVE  Quiet
  BY <1>6 DEF Execute, Quiet
<1>7. Reports => Alive'
  BY DEF Reports, Alive
<1>8. /\ Same(up) /\ Same(Append(up, Sample)) /\ Same(Tell(up, None)) /\ Same(Tell(up, "verification"))
      /\ Same(Tell(up, "target")) /\ Same(Tell(up, "provider")) /\ Same(Tell(Tell(up, "provider"), "target"))
  BY <1>1, SameTold
<1>9. CASE IterateForNothing \/ BeginMutation
  <2>1. Takes("iterate") /\ UNCHANGED <<worker, finished, up>>
    BY <1>9 DEF IterateForNothing, BeginMutation, Turn
  <2> QED BY <1>4, <1>8, <2>1 DEF Quiet, Alive
<1>10. CASE Skip
  <2>1. Takes("iterate") /\ UNCHANGED <<worker, finished>> /\ up' \in {up, Tell(up, None)}
    BY <1>10 DEF Skip, MayMutate, Mutating, Turn
  <2> QED BY <1>4, <1>8, <2>1 DEF Quiet, Alive
<1>11. CASE AskProvider
  <2>1. Takes("iterate") /\ UNCHANGED <<worker, finished>> /\ up' = Tell(up, "provider")
    BY <1>11 DEF AskProvider, MayMutate, Mutating, Turn
  <2> QED BY <1>4, <1>8, <2>1 DEF Quiet, Alive
<1>12. CASE Calibrate \/ Candidate
  <2>1. Turn /\ Execute(Tail(inbox), up)
    BY <1>12 DEF Calibrate, Candidate, MayMutate, Mutating
  <2>2. Alive /\ Alive'
    BY <1>4, <2>1 DEF Turn, Execute, Alive
  <2> QED BY <1>6, <1>8, <2>1, <2>2
<1>13. CASE Expire
  <2>1. Turn /\ \E s \in {"completed", "no_new_coverage"} : Finish(s, up)
    BY <1>13 DEF Expire, MayMutate, Mutating
  <2> QED BY <1>2, <1>4, <1>7, <1>8, <2>1, FinishReports DEF Turn
<1>14. CASE Exhausted
  <2>1. Turn /\ (Finish("exhausted", up) \/ Infrastructure(None))
    BY <1>14 DEF Exhausted, MayMutate, Mutating
  <2>2. CASE Finish("exhausted", up)
    BY <1>2, <1>4, <1>7, <1>8, <2>1, <2>2, FinishReports DEF Turn
  <2>3. CASE Infrastructure(None)
    BY <1>4, <1>5, <1>7, <2>1, <2>3 DEF Turn
  <2> QED BY <2>1, <2>2, <2>3
<1>15. CASE Executed \/ Verified
  <2>1. Busy
    BY <1>15 DEF Executed, Verified, Busy
  <2>2. CASE Infrastructure("target") \/ Infrastructure("verification")
    BY <1>3, <1>5, <1>7, <2>1, <2>2
  <2>3. CASE worker' = "checking" /\ UNCHANGED <<up, finished>>
    BY <1>3, <1>8, <2>1, <2>3 DEF Quiet, Alive
  <2> QED BY <1>15, <2>2, <2>3 DEF Executed, Verified
<1>16. CASE Verify
  <2>1. Busy /\ worker' \in {"ready", "verifying"} /\ up' \in {Tell(up, None), Tell(up, "verification")}
        /\ UNCHANGED finished
    BY <1>16 DEF Verify, Accepted, VerifyNext, Busy
  <2> QED BY <1>3, <1>8, <2>1 DEF Quiet, Alive
<1>17. CASE ProviderReplied
  <2>1. PICK result \in Results : ReplyTaken(result)
    BY <1>17 DEF ProviderReplied
  <2>2. Takes(result) /\ ~finished
    BY <2>1, AnswerTaken DEF ReplyTaken, Answers
  <2>3. CASE stopping /\ Finish("stopped_by_user", Tell(up, "provider"))
    <3>1. stopRequested
      BY <2>3 DEF StopInv
    <3> QED BY <1>2, <1>4, <1>7, <1>8, <2>2, <2>3, <3>1, FinishReports
  <2>4. CASE Infrastructure("provider")
    BY <1>4, <1>5, <1>7, <2>2, <2>4
  <2>5. CASE Execute(Tail(inbox), Tell(up, "provider"))
    <3>1. Alive'
      BY <1>4, <2>2, <2>5 DEF Execute, Alive
    <3> QED BY <1>4, <1>6, <1>8, <2>2, <2>5, <3>1
  <2>6. CASE up' = Tell(up, None) /\ UNCHANGED <<worker, finished>>
    BY <1>4, <1>8, <2>2, <2>6 DEF Quiet, Alive
  <2> QED BY <2>1, <2>3, <2>4, <2>5, <2>6 DEF ReplyTaken
<1>18. CASE ProviderGone
  <2>1. Takes("gone") /\ pending /\ Infrastructure("provider")
    BY <1>18 DEF ProviderGone
  <2>2. ~finished
    BY <2>1 DEF TurnInv
  <2> QED BY <1>4, <1>5, <1>7, <2>1, <2>2
<1>19. CASE StopTaken
  <2>1. Takes("stop")
    BY <1>19 DEF StopTaken
  <2>2. CASE UNCHANGED <<worker, finished, up>>
    BY <1>4, <1>8, <2>1, <2>2 DEF Quiet, Alive
  <2>3. CASE ~finished /\ Finish("stopped_by_user", up)
    <3>1. In(inbox, Stops)
      BY <2>1, TakenFacts, Kinds
    <3>2. stopRequested
      BY <3>1 DEF StopInv
    <3> QED BY <1>2, <1>4, <1>7, <1>8, <2>1, <2>3, <3>2, FinishReports
  <2> QED BY <1>19, <2>2, <2>3 DEF StopTaken
<1>20. CASE SampleTaken
  <2>1. Takes("sample") /\ UNCHANGED <<worker, finished>> /\ up' = Append(up, Sample)
    BY <1>20 DEF SampleTaken
  <2> QED BY <1>4, <1>8, <2>1 DEF Quiet, Alive
<1> QED BY <1>9, <1>10, <1>11, <1>12, <1>13, <1>14, <1>15, <1>16, <1>17, <1>18, <1>19, <1>20 DEF WorkerStep

(* The worker's steps.                                                         *)
LEMMA WorkerReport ==
  ASSUME TypeOK, TurnInv, StopInv, ReportInv, WorkerStep
  PROVE  ReportInv'
<1>1. Alive /\ Alive' /\ (Quiet \/ Reports) /\ UNCHANGED <<report, stopRequested>>
  BY WorkerSays DEF WorkerStep, coordVars
<1>2. report # "worker_down" /\ ~In(up, Downs)
  BY <1>1 DEF ReportInv, Alive
<1>3. ~In(up', Downs)
  BY <1>1, <1>2 DEF Quiet, Reports, Same
<1>4. AtEnd(up', Down)
  BY <1>3 DEF In, AtEnd, Downs
<1>5. CASE Quiet
  BY <1>1, <1>2, <1>3, <1>4, <1>5 DEF ReportInv, Quiet, Same
<1>6. CASE Reports
  <2>1. report = None /\ ~In(up, Dones)
    BY <1>2, <1>6 DEF ReportInv, Reports
  <2> QED BY <1>1, <1>2, <1>3, <1>4, <1>6, <2>1 DEF ReportInv, Reports, None
<1> QED BY <1>1, <1>5, <1>6

(* The provider, the worker's end and the delivery of a message.               *)
LEMMA SurroundingsReport ==
  ASSUME TypeOK, ReportInv, Surroundings \/ Crash \/ Deliver
  PROVE  ReportInv'
<1>1. CASE Surroundings \/ Deliver
  <2>1. UNCHANGED <<worker, finished, up, report, stopRequested>>
    BY <1>1 DEF Surroundings, Deliver, ProviderAnswers, ProviderFails, ProviderOrphaned, coordVars
  <2> QED BY <2>1 DEF ReportInv
<1>2. CASE Crash
  <2>1. /\ Alive /\ worker' = "dead" /\ up' = Append(up, Down)
        /\ UNCHANGED <<finished, report, stopRequested>>
    BY <1>2 DEF Crash, WorkerCrashes, coordVars
  <2>2. ~In(up, {Down}) /\ report # "worker_down" /\ up \in Seq(Told)
    BY <2>1 DEF TypeOK, ReportInv, Alive, Downs
  <2>3. Down \in Told /\ Down \notin Dones /\ Down \notin {Done("stopped_by_user")}
    BY Messages DEF Dones, Done, Down
  <2>4. /\ In(up', Dones) <=> In(up, Dones)
        /\ Single(up', Dones) <=> Single(up, Dones)
        /\ In(up', {Done("stopped_by_user")}) <=> In(up, {Done("stopped_by_user")})
        /\ AtEnd(up', Down)
    BY <2>1, <2>2, <2>3, AppendFacts, AppendOrder
  <2> QED BY <2>1, <2>2, <2>4 DEF ReportInv
<1> QED BY <1>1, <1>2

(* The coordinator hears the worker: what is on the way is one less.           *)
LEMMA HeardFacts ==
  ASSUME TypeOK, ReportInv, HearWorker
  PROVE  /\ up # <<>> /\ up' = Tail(up) /\ up' \in Seq(Told) /\ Head(up) \in Told
         /\ \A S : In(up, S) <=> Head(up) \in S \/ In(up', S)
         /\ Single(up', Dones) /\ (Head(up) \in Dones => ~In(up', Dones))
         /\ AtEnd(up', Down) /\ (Head(up) = Down => up' = <<>>)
         /\ UNCHANGED <<worker, finished, stopRequested, pending, diedAs, coordinator>>
         /\ coordinator = "ready"
<1>1. up # <<>> /\ up' = Tail(up) /\ up \in Seq(Told)
  BY DEF TypeOK, HearWorker
<1>2. UNCHANGED <<worker, finished, stopRequested, pending, diedAs, coordinator>> /\ coordinator = "ready"
  BY DEF HearWorker, unchangedWorker, workerVars, history, Ready
<1>3. /\ Tail(up) \in Seq(Told) /\ Head(up) \in Told
      /\ \A S : In(up, S) <=> Head(up) \in S \/ In(Tail(up), S)
      /\ \A S : Single(up, S) <=> Single(Tail(up), S) /\ (Head(up) \in S => ~In(Tail(up), S))
  BY <1>1, TailFacts
<1>4. \A m : AtEnd(up, m) => AtEnd(Tail(up), m) /\ (Head(up) = m => Tail(up) = <<>>)
  BY <1>1, TailOrder
<1> QED BY <1>1, <1>2, <1>3, <1>4 DEF ReportInv

(* What it hears, by kind.                                                     *)
LEMMA HeardKinds ==
  ASSUME TypeOK, HearWorker
  PROVE  \/ /\ Head(up) \in Ctxs /\ context' = Head(up).value
            /\ UNCHANGED <<report, waiters, replies>>
         \/ Head(up) = Sample /\ UNCHANGED <<report, waiters, replies, context>>
         \/ Head(up) = Down /\ report # None /\ UNCHANGED <<report, waiters, replies, context>>
         \/ /\ Head(up) = Down /\ report = None /\ report' = "worker_down"
            /\ replies' = ReplyWaiters /\ waiters' = {} /\ UNCHANGED context
         \/ /\ \E s \in Statuses \ {"worker_down"} : Head(up) = Done(s) /\ report' = s
            /\ replies' = ReplyWaiters /\ waiters' = {} /\ UNCHANGED context
<1>1. up \in Seq(Told) /\ up # <<>> /\ Hear(Head(up))
  BY DEF TypeOK, HearWorker
<1> DEFINE m == Head(up)
<1>2. m \in Told /\ Hear(m)
  BY <1>1, TailFacts
<1> HIDE DEF m
<1>3. CASE \E c \in Contexts : m = Ctx(c)
  BY <1>2, <1>3 DEF Hear, Ctxs, Ctx, m
<1>4. CASE \E s \in Statuses \ {"worker_down"} : m = Done(s)
  <2>1. PICK s \in Statuses \ {"worker_down"} : m = Done(s)
    BY <1>4
  <2>2. m.kind = "campaign_done" /\ m.value = s
    BY <2>1 DEF Done
  <2>3. report' = s /\ replies' = ReplyWaiters /\ waiters' = {} /\ UNCHANGED context
    BY <1>2, <2>2 DEF Hear
  <2> QED BY <2>1, <2>3 DEF m
<1>5. CASE m = Sample
  BY <1>2, <1>5 DEF Hear, Sample, m
<1>6. CASE m = Down
  BY <1>2, <1>6 DEF Hear, Down, m
<1> QED BY <1>2, <1>3, <1>4, <1>5, <1>6 DEF Told

(* The coordinator and the clients.                                            *)
LEMMA OthersReport ==
  ASSUME TypeOK, ReportInv,
         Asks \/ SnapshotTaken \/ (\E how : Ends(how)) \/ HearWorker \/ (\E c \in Clients : ClientStep(c))
  PROVE  ReportInv'
<1>1. CASE Asks \/ SnapshotTaken \/ (\E c \in Clients : ClientStep(c))
  <2>1. UNCHANGED <<worker, finished, up, report>> /\ (stopRequested => stopRequested')
    <3>1. CASE Asks \/ SnapshotTaken
      BY <3>1 DEF Asks, RequestStop, Poll, Benchmark, SnapshotTaken, unchangedWorker, workerVars
    <3>2. CASE \E c \in Clients : ClientStep(c)
      BY <3>2 DEF ClientStep, HearClient, Call, Answered, GiveUp, Die, onlyClients, unchangedWorker, workerVars
    <3> QED BY <1>1, <3>1, <3>2
  <2> QED BY <2>1 DEF ReportInv
<1>2. CASE \E how : Ends(how)
  <2>1. up' = <<>> /\ worker' \in {"dead", "killed"} /\ UNCHANGED <<finished, report, stopRequested>>
    BY <1>2 DEF Ends, End, Alive
  <2> QED BY <2>1, EmptyFacts, EmptyOrder DEF ReportInv
<1>3. CASE HearWorker
  <2>1. /\ up # <<>> /\ up' = Tail(up) /\ \A S : In(up, S) <=> Head(up) \in S \/ In(up', S)
        /\ Single(up', Dones) /\ (Head(up) \in Dones => ~In(up', Dones))
        /\ AtEnd(up', Down) /\ (Head(up) = Down => up' = <<>>)
        /\ UNCHANGED <<worker, finished, stopRequested>>
    BY <1>3, HeardFacts
  <2>2. report # "worker_down"
    BY <2>1 DEF ReportInv
  <2>3. CASE UNCHANGED report
    BY <2>1, <2>2, <2>3 DEF ReportInv
  <2>4. CASE Head(up) = Down /\ report = None /\ report' = "worker_down"
    <3>1. In(up, Downs) /\ up' = <<>>
      BY <2>1, <2>4 DEF Downs
    <3>2. worker' = "dead"
      BY <2>1, <3>1 DEF ReportInv
    <3> QED BY <2>4, <3>1, <3>2, EmptyFacts, EmptyOrder DEF ReportInv
  <2>5. CASE \E s \in Statuses \ {"worker_down"} : Head(up) = Done(s) /\ report' = s
    <3>1. PICK s \in Statuses \ {"worker_down"} : Head(up) = Done(s) /\ report' = s
      BY <2>5
    <3>2. Head(up) \in Dones
      BY <3>1 DEF Dones
    <3>3. finished /\ ~In(up', Dones)
      BY <2>1, <3>2 DEF ReportInv
    <3>4. s = "stopped_by_user" => stopRequested
      BY <2>1, <3>1 DEF ReportInv
    <3>5. Done("stopped_by_user") \in Dones
      BY DEF Dones, Statuses
    <3>6. ~In(up', {Done("stopped_by_user")})
      BY <3>3, <3>5 DEF In
    <3> QED BY <2>1, <3>1, <3>3, <3>4, <3>6 DEF ReportInv
  <2> QED BY <1>3, <2>3, <2>4, <2>5, HeardKinds
<1> QED BY <1>1, <1>2, <1>3

------------------------------------------------------------------------------
(* The context.                                                                *)

(* What the worker has begun, it has told.                                     *)
LEMMA WorkerTells ==
  ASSUME TypeOK, TurnInv, ContextInv, WorkerStep
  PROVE  /\ worker' = "executing" => Latest(up', context, "target")
         /\ worker' = "verifying" => Latest(up', context, "verification")
         /\ worker' = "ready" /\ pending' => Latest(up', context, "provider")
<1>1. up \in Seq(Told) /\ {None, "target", "provider", "verification"} \subseteq Contexts
  BY DEF TypeOK, Contexts
<1>2. ASSUME NEW q \in Seq(Told), NEW c \in {None, "target", "provider", "verification"}
      PROVE  Tell(q, c) \in Seq(Told) /\ Latest(Tell(q, c), context, c)
  BY <1>1, TellFacts
<1>3. Busy => ~pending
  BY DEF TurnInv, Busy
<1>4. \A m : Takes(m) => worker = "ready" /\ coordinator \in {"ready", "calling"}
  BY DEF Takes, ContextInv, Alive
<1>5. \A s, q : Finish(s, q) => worker' = "ready"
  BY DEF Finish
<1>6. ASSUME NEW q \in Seq(Told), NEW rest, Execute(rest, q), worker = "ready"
      PROVE  worker' = "ready" \/ (worker' = "executing" /\ Latest(up', context, "target"))
  BY <1>2, <1>6 DEF Execute
<1>7. CASE ~pending' /\ worker' = "ready"
  BY <1>7
<1>8. CASE worker' = "checking"
  BY <1>8
<1>9. CASE UNCHANGED <<worker, pending, up>> /\ worker = "ready" /\ \E m : Takes(m)
  BY <1>4, <1>9 DEF ContextInv
<1>10. CASE IterateForNothing
  BY <1>4, <1>9, <1>10 DEF IterateForNothing
<1>11. CASE BeginMutation \/ Skip \/ Expire \/ Exhausted
  BY <1>4, <1>5, <1>7, <1>11 DEF BeginMutation, Skip, Expire, Exhausted, MayMutate, Mutating, Turn, Infrastructure
<1>12. CASE Calibrate \/ Candidate
  <2>1. Turn /\ UNCHANGED pending /\ Execute(Tail(inbox), up)
    BY <1>12 DEF Calibrate, Candidate, MayMutate, Mutating
  <2> QED BY <1>1, <1>4, <1>6, <1>7, <2>1 DEF Turn
<1>13. CASE AskProvider
  <2>1. Takes("iterate") /\ UNCHANGED worker /\ up' = Tell(up, "provider")
    BY <1>13 DEF AskProvider, MayMutate, Mutating, Turn
  <2> QED BY <1>1, <1>2, <1>4, <2>1
<1>14. CASE Executed \/ Verified
  BY <1>3, <1>5, <1>7, <1>8, <1>14 DEF Executed, Verified, Busy, Infrastructure
<1>15. CASE Verify
  <2>1. CASE worker' = "ready"
    BY <1>3, <1>7, <1>15, <2>1 DEF Verify, Busy
  <2>2. CASE VerifyNext
    BY <1>1, <1>2, <2>2 DEF VerifyNext
  <2> QED BY <1>15, <2>1, <2>2 DEF Verify, Accepted
<1>16. CASE ProviderReplied
  <2>1. PICK result \in Results : ReplyTaken(result)
    BY <1>16 DEF ProviderReplied
  <2>2. worker = "ready" /\ ~pending' /\ Tell(up, "provider") \in Seq(Told)
    BY <1>1, <1>2, <1>4, <2>1 DEF ReplyTaken
  <2>3. CASE worker' = "ready"
    BY <1>7, <2>2, <2>3
  <2>4. CASE Execute(Tail(inbox), Tell(up, "provider"))
    BY <1>6, <1>7, <2>2, <2>4
  <2> QED BY <1>5, <2>1, <2>2, <2>3, <2>4 DEF ReplyTaken, Infrastructure
<1>17. CASE ProviderGone
  BY <1>5, <1>7, <1>17 DEF ProviderGone, Infrastructure
<1>18. CASE StopTaken
  <2>1. Takes("stop") /\ UNCHANGED pending
    BY <1>18 DEF StopTaken
  <2> QED BY <1>4, <1>5, <1>7, <1>9, <1>18, <2>1 DEF StopTaken
<1>19. CASE SampleTaken
  <2>1. Takes("sample") /\ UNCHANGED <<worker, pending>> /\ up' = Append(up, Sample)
    BY <1>19 DEF SampleTaken
  <2>2. pending => Latest(up, context, "provider")
    BY <1>4, <2>1 DEF ContextInv
  <2>3. Sample \in Told /\ Sample \notin Ctxs
    BY Messages, ToldKinds
  <2> QED BY <1>1, <1>4, <2>1, <2>2, <2>3, LatestAppend
<1> QED BY <1>10, <1>11, <1>12, <1>13, <1>14, <1>15, <1>16, <1>17, <1>18, <1>19 DEF WorkerStep

(* The worker's steps.                                                         *)
LEMMA WorkerContext ==
  ASSUME TypeOK, TurnInv, StopInv, ReportInv, ContextInv, WorkerStep
  PROVE  ContextInv'
<1>1. Alive /\ Alive' /\ UNCHANGED <<report, coordinator, context>>
  BY WorkerSays DEF WorkerStep, coordVars
<1>2. UNCHANGED diedAs
  BY DEF WorkerStep, IterateForNothing, Calibrate, BeginMutation, Expire, Candidate, AskProvider, Skip,
         Exhausted, Executed, Verify, Verified, ProviderReplied, ReplyTaken, ProviderGone, StopTaken,
         SampleTaken, history
<1>3. diedAs = None /\ coordinator \in {"ready", "calling"}
  BY <1>1 DEF ContextInv
<1> QED BY <1>1, <1>2, <1>3, WorkerTells DEF ContextInv

(* The provider, the worker's end and the delivery of a message.               *)
LEMMA SurroundingsContext ==
  ASSUME TypeOK, TurnInv, ReportInv, ContextInv, Surroundings \/ Crash \/ Deliver
  PROVE  ContextInv'
<1>1. CASE Surroundings \/ Deliver
  <2>1. UNCHANGED <<worker, pending, up, report, coordinator, context, diedAs>>
    BY <1>1 DEF Surroundings, Deliver, ProviderAnswers, ProviderFails, ProviderOrphaned, coordVars, history
  <2> QED BY <2>1 DEF ContextInv, Alive
<1>2. CASE Crash
  <2>1. /\ Alive /\ worker' = "dead" /\ up' = Append(up, Down)
        /\ UNCHANGED <<pending, report, coordinator, context>>
        /\ diedAs' = CASE worker = "executing" -> "target"
                       [] worker = "verifying" -> "verification"
                       [] worker = "ready" /\ pending -> "provider"
                       [] OTHER -> None
    BY <1>2 DEF Crash, WorkerCrashes, coordVars
  <2>2. coordinator \in {"ready", "calling"} /\ report # "worker_down"
    BY <2>1 DEF ContextInv, ReportInv, Alive
  <2>3. diedAs' # None => Latest(up, context, diedAs')
    BY <2>1, <2>2 DEF ContextInv
  <2>4. up \in Seq(Told) /\ Down \in Told /\ Down \notin Ctxs
    BY Messages, ToldKinds DEF TypeOK, Downs
  <2>5. diedAs' # None => Latest(up', context, diedAs')
    BY <2>1, <2>3, <2>4, LatestAppend
  <2> QED BY <2>1, <2>2, <2>5 DEF ContextInv, Alive
<1> QED BY <1>1, <1>2

(* The coordinator and the clients.                                            *)
LEMMA OthersContext ==
  ASSUME TypeOK, ReportInv, ContextInv,
         Asks \/ SnapshotTaken \/ (\E how : Ends(how)) \/ HearWorker \/ (\E c \in Clients : ClientStep(c))
  PROVE  ContextInv'
<1>1. CASE Asks \/ (\E c \in Clients : ClientStep(c))
  <2>1. /\ UNCHANGED <<worker, pending, up, report, context, diedAs>>
        /\ coordinator' = coordinator \/ (coordinator = "ready" /\ coordinator' = "calling")
    BY <1>1 DEF Asks, RequestStop, Poll, Benchmark, Ready, ClientStep, HearClient, Call, Answered,
                GiveUp, Die, onlyClients, unchangedWorker, workerVars, history
  <2> QED BY <2>1 DEF ContextInv, Alive
<1>2. CASE SnapshotTaken
  <2>1. /\ UNCHANGED <<worker, pending, up, report, context, diedAs>>
        /\ coordinator' = coordinator \/ (coordinator = "calling" /\ coordinator' = "ready")
    BY <1>2 DEF SnapshotTaken, history
  <2> QED BY <2>1 DEF ContextInv, Alive
<1>3. CASE \E how : Ends(how)
  <2>1. coordinator' \in {"crashed", "stopped"} /\ worker' \in {"dead", "killed"}
        /\ UNCHANGED <<report, context, diedAs>>
    BY <1>3 DEF Ends, End, Alive, history
  <2> QED BY <2>1 DEF ContextInv, Alive
<1>4. CASE HearWorker
  <2>1. /\ up # <<>> /\ up' = Tail(up) /\ up \in Seq(Told) /\ (Head(up) = Down => up' = <<>>)
        /\ UNCHANGED <<worker, pending, diedAs, coordinator>> /\ coordinator = "ready"
    BY <1>4, HeardFacts DEF TypeOK
  <2>2. Downs \cap Ctxs = {} /\ Dones \cap Ctxs = {} /\ Sample \notin Ctxs
    BY ToldKinds
  <2>3. \/ Head(up) \in Ctxs /\ context' = Head(up).value
        \/ Head(up) \notin Ctxs /\ context' = context
    BY <1>4, <2>2, HeardKinds DEF Downs, Dones
  <2>4. ASSUME NEW c, Latest(up, context, c)
        PROVE  Latest(up', context', c)
    BY <2>1, <2>3, <2>4, LatestTail
  <2>5. report # "worker_down"
    BY <2>1 DEF ReportInv
  <2>6. ASSUME report' = "worker_down", diedAs # None
        PROVE  context' = diedAs
    <3>1. up' = <<>>
      BY <1>4, <2>1, <2>5, <2>6, HeardKinds
    <3>2. Latest(up, context, diedAs)
      BY <2>1, <2>6 DEF ContextInv
    <3>3. Latest(up', context', diedAs)
      BY <2>4, <3>2
    <3> QED BY <3>1, <3>3, LatestEmpty
  <2> QED BY <2>1, <2>4, <2>6 DEF ContextInv, Alive
<1> QED BY <1>1, <1>2, <1>3, <1>4

------------------------------------------------------------------------------
(* The callers of await/1.                                                     *)

(* What a client asks for, told apart.                                         *)
LEMMA AskedKinds ==
  /\ \A j, k : (Await(j) = Await(k) <=> j = k) /\ (CancelAwait(j) = CancelAwait(k) <=> j = k)
  /\ \A j, k : Await(j) # CancelAwait(k) /\ Await(j) # ClientDown /\ CancelAwait(j) # ClientDown
  /\ \A m \in Asked : m.kind = "await" => m.token \in Tokens /\ m = Await(m.token)
  /\ \A m \in Asked : m.kind = "cancel_await" => m.token \in Tokens /\ m = CancelAwait(m.token)
  /\ \A m \in Asked : m.kind = "DOWN" => m = ClientDown
BY DEF Asked, Await, CancelAwait, ClientDown

(* The clients' types, one by one.                                             *)
LEMMA ClientTypes ==
  ASSUME TypeOK, NEW c \in Clients
  PROVE  /\ calls[c] \in Seq(Asked) /\ replies[c] \subseteq Tokens
         /\ client[c].pc \in {"idle", "waiting", "dead"} /\ client[c].token \in 0..MaxAwaits
         /\ MaxAwaits \in Nat /\ client[c] = [pc |-> client[c].pc, token |-> client[c].token]
         /\ client[c] \in [pc : {"idle", "waiting", "dead"}, token : 0..MaxAwaits]
         /\ DOMAIN client = Clients /\ DOMAIN calls = Clients /\ DOMAIN replies = Clients
BY CampaignAssumption DEF TypeOK

(* A caller nothing happens to.                                                *)
LEMMA CallerKept ==
  ASSUME NEW c \in Clients, CallerInv(c), calls'[c] = calls[c], client'[c] = client[c], replies'[c] = replies[c],
         \A k \in Tokens : <<c, k>> \in waiters' <=> <<c, k>> \in waiters
  PROVE  CallerInv(c)'
BY DEF CallerInv, CallInv, Waiting

(* The worker, what surrounds it, and the coordinator's questions.             *)
LEMMA WorkersWaiters ==
  ASSUME TypeOK, WaitersInv, WorkerStep \/ Surroundings \/ Crash \/ Deliver \/ Asks \/ SnapshotTaken
  PROVE  WaitersInv'
<1>1. UNCHANGED <<waiters, replies, client, calls, report>>
  BY DEF WorkerStep, Surroundings, Crash, Deliver, Asks, RequestStop, Poll, Benchmark, SnapshotTaken,
         coordVars, clientVars
<1> QED BY <1>1, CallerKept DEF WaitersInv

(* The coordinator's end releases every caller.                                *)
LEMMA EndWaiters ==
  ASSUME TypeOK, WaitersInv, \E how : Ends(how)
  PROVE  WaitersInv'
<1>1. waiters' = {}
  BY DEF Ends, End
<1>2. ASSUME NEW c \in Clients
      PROVE  CallerInv(c)'
  <2>1. calls'[c] = <<>> /\ replies'[c] = {} /\ client'[c].pc # "waiting"
    <3>1. client[c] = [pc |-> client[c].pc, token |-> client[c].token]
      BY ClientTypes
    <3>2. client'[c] = IF client[c].pc = "waiting" THEN [client[c] EXCEPT !.pc = "idle"] ELSE client[c]
      BY DEF Ends, End
    <3>3. client'[c].pc # "waiting"
      BY <3>1, <3>2
    <3> QED BY <3>3 DEF Ends, End
  <2> QED BY <1>1, <2>1, EmptyFacts, EmptyOrder DEF CallerInv, CallInv, Waiting
<1> QED BY <1>1, <1>2 DEF WaitersInv

(* The report answers whoever is noted.                                        *)
LEMMA ReportWaiters ==
  ASSUME TypeOK, WaitersInv, HearWorker
  PROVE  WaitersInv'
<1>1. UNCHANGED <<client, calls>>
  BY DEF HearWorker, clientVars
<1>2. CASE UNCHANGED <<waiters, replies, report>>
  BY <1>1, <1>2, CallerKept DEF WaitersInv
<1>3. CASE replies' = ReplyWaiters /\ waiters' = {}
  <2>1. ASSUME NEW c \in Clients, NEW k \in Tokens
        PROVE  CallInv(c, k)'
    <3>1. (k \in replies'[c]) <=> (k \in replies[c] \/ <<c, k>> \in waiters)
      BY <1>3 DEF ReplyWaiters
    <3>2. CallInv(c, k)
      BY DEF WaitersInv, CallerInv
    <3> QED BY <1>1, <1>3, <3>1, <3>2 DEF CallInv, Waiting
  <2>2. ASSUME NEW c \in Clients
        PROVE  CallerInv(c)'
    BY <1>1, <2>1 DEF WaitersInv, CallerInv, Waiting
  <2> QED BY <1>3, <2>2 DEF WaitersInv
<1> QED BY <1>2, <1>3, HeardKinds

(* A caller's message is heard.                                                *)
LEMMA HeardCaller ==
  ASSUME TypeOK, WaitersInv, NEW c \in Clients, HearClient(c)
  PROVE  CallerInv(c)'
<1>1. calls[c] \in Seq(Asked) /\ calls[c] # <<>> /\ calls'[c] = Tail(calls[c]) /\ UNCHANGED <<client, report>>
  BY ClientTypes DEF HearClient
<1> DEFINE q == calls[c]
           m == Head(q)
<1>2. /\ m \in Asked
      /\ \A S : In(q, S) <=> m \in S \/ In(Tail(q), S)
      /\ \A S : Single(q, S) <=> Single(Tail(q), S) /\ (m \in S => ~In(Tail(q), S))
      /\ \A x, S : Followed(q, x, S) => Followed(Tail(q), x, S) /\ (m = x => In(Tail(q), S))
  <2>1. q \in Seq(Asked) /\ q # <<>>
    BY <1>1
  <2> HIDE DEF q
  <2> QED BY <2>1, TailFacts, TailOrder
<1>3. /\ \/ m.kind = "await" /\ Note(c, m.token)
         \/ m.kind = "cancel_await" /\ Cancel(c, m.token)
         \/ m.kind = "DOWN" /\ Unnote(c)
      /\ CallerInv(c) /\ DOMAIN replies = Clients
  BY ClientTypes DEF HearClient, WaitersInv
<1> HIDE DEF m
<1>4. ASSUME NEW j \in Tokens, m = Await(j), Note(c, j), NEW k \in Tokens
      PROVE  CallInv(c, k)'
  <2>1. CallInv(c, k) /\ (report # None => waiters = {})
    BY <1>3 DEF CallerInv, WaitersInv
  <2>2. /\ m \in {Await(k)} <=> j = k
        /\ m \notin {CancelAwait(k)} /\ m \notin {ClientDown} /\ (m = Await(k) <=> j = k)
    BY <1>4, AskedKinds
  <2>3. /\ In(q, {Await(k)}) <=> j = k \/ In(Tail(q), {Await(k)})
        /\ j = k => ~In(Tail(q), {Await(k)}) \/ ~Single(q, {Await(k)})
        /\ Single(q, {Await(k)}) => Single(Tail(q), {Await(k)})
        /\ In(Tail(q), {CancelAwait(k)}) <=> In(q, {CancelAwait(k)})
        /\ In(Tail(q), {ClientDown}) <=> In(q, {ClientDown})
        /\ Followed(q, Await(k), {CancelAwait(k), ClientDown}) =>
             Followed(Tail(q), Await(k), {CancelAwait(k), ClientDown})
        /\ Followed(q, Await(k), {CancelAwait(k), ClientDown}) /\ j = k =>
             In(Tail(q), {CancelAwait(k)}) \/ In(Tail(q), {ClientDown})
    <3>1. \A t : In(t, {CancelAwait(k), ClientDown}) => In(t, {CancelAwait(k)}) \/ In(t, {ClientDown})
      BY DEF In
    <3> QED BY <1>2, <2>2, <3>1
  <2>4. (Waiting(c)' <=> Waiting(c)) /\ client'[c].token = client[c].token /\ calls'[c] = Tail(q)
    BY <1>1 DEF Waiting
  <2>5. CASE report = None
    <3>1. /\ <<c, k>> \in waiters' <=> <<c, k>> \in waiters \/ j = k
          /\ replies' = replies
      BY <1>4, <2>5 DEF Note
    <3> QED BY <2>1, <2>3, <2>4, <3>1 DEF CallInv
  <2>6. CASE report # None
    <3>1. /\ <<c, k>> \notin waiters' /\ <<c, k>> \notin waiters
          /\ k \in replies'[c] <=> k \in replies[c] \/ j = k
      BY <1>3, <1>4, <2>1, <2>6 DEF Note
    <3> QED BY <2>1, <2>3, <2>4, <3>1 DEF CallInv
  <2> QED BY <2>5, <2>6
<1>5. ASSUME NEW j \in Tokens, m = CancelAwait(j), Cancel(c, j), NEW k \in Tokens
      PROVE  CallInv(c, k)'
  <2>1. CallInv(c, k)
    BY <1>3 DEF CallerInv
  <2>2. /\ m \in {CancelAwait(k)} <=> j = k
        /\ m \notin {Await(k)} /\ m \notin {ClientDown} /\ m # Await(k)
    BY <1>5, AskedKinds
  <2>3. /\ In(q, {CancelAwait(k)}) <=> j = k \/ In(Tail(q), {CancelAwait(k)})
        /\ In(Tail(q), {Await(k)}) <=> In(q, {Await(k)})
        /\ Single(q, {Await(k)}) => Single(Tail(q), {Await(k)})
        /\ In(Tail(q), {ClientDown}) <=> In(q, {ClientDown})
        /\ Followed(q, Await(k), {CancelAwait(k), ClientDown}) =>
             Followed(Tail(q), Await(k), {CancelAwait(k), ClientDown})
    BY <1>2, <2>2
  <2>4. (Waiting(c)' <=> Waiting(c)) /\ client'[c].token = client[c].token /\ calls'[c] = Tail(q)
    BY <1>1 DEF Waiting
  <2>5. /\ <<c, k>> \in waiters' <=> <<c, k>> \in waiters /\ j # k
        /\ replies' = replies
    BY <1>5 DEF Cancel
  <2> QED BY <2>1, <2>3, <2>4, <2>5 DEF CallInv
<1>6. ASSUME m = ClientDown, Unnote(c), NEW k \in Tokens
      PROVE  CallInv(c, k)'
  <2>1. CallInv(c, k)
    BY <1>3 DEF CallerInv
  <2>2. m \notin {CancelAwait(k)} /\ m \notin {Await(k)} /\ m # Await(k)
    BY <1>6, AskedKinds
  <2>3. /\ In(q, {ClientDown})
        /\ In(Tail(q), {CancelAwait(k)}) <=> In(q, {CancelAwait(k)})
        /\ In(Tail(q), {Await(k)}) <=> In(q, {Await(k)})
        /\ Single(q, {Await(k)}) => Single(Tail(q), {Await(k)})
        /\ Followed(q, Await(k), {CancelAwait(k), ClientDown}) =>
             Followed(Tail(q), Await(k), {CancelAwait(k), ClientDown})
    BY <1>2, <1>6, <2>2
  <2>4. /\ (Waiting(c)' <=> Waiting(c)) /\ client'[c].token = client[c].token /\ calls'[c] = Tail(q)
        /\ ~Waiting(c)
    BY <1>1, <1>3, <2>3 DEF Waiting, CallerInv
  <2>5. <<c, k>> \notin waiters' /\ replies' = replies
    BY <1>6 DEF Unnote
  <2> QED BY <2>1, <2>3, <2>4, <2>5 DEF CallInv
<1>7. \A k \in Tokens : CallInv(c, k)'
  BY <1>2, <1>3, <1>4, <1>5, <1>6, AskedKinds
<1>8. In(Tail(q), {ClientDown}) => In(q, {ClientDown})
  BY <1>2
<1> QED BY <1>1, <1>3, <1>7, <1>8 DEF CallerInv, Waiting

(* A caller calls, is answered, gives up or dies.                              *)
LEMMA CallerActs ==
  ASSUME TypeOK, WaitersInv, NEW c \in Clients, Call(c) \/ Answered(c) \/ GiveUp(c) \/ Die(c)
  PROVE  CallerInv(c)'
<1>1. /\ calls[c] \in Seq(Asked) /\ DOMAIN calls = Clients /\ DOMAIN client = Clients /\ DOMAIN replies = Clients
      /\ client[c] = [pc |-> client[c].pc, token |-> client[c].token] /\ client[c].token \in Nat
      /\ client[c].token \in 0..MaxAwaits /\ MaxAwaits \in Nat
  BY ClientTypes
<1>2. CallerInv(c) /\ UNCHANGED waiters
  BY DEF WaitersInv, Call, Answered, GiveUp, Die, onlyClients
<1>3. \A k \in Tokens : k \in Nat
  BY DEF Tokens
<1>4. ASSUME NEW x \in Asked, Send(c, x)
      PROVE  /\ \A S : In(calls'[c], S) <=> In(calls[c], S) \/ x \in S
             /\ \A S : Single(calls'[c], S) <=> Single(calls[c], S) /\ (x \in S => ~In(calls[c], S))
             /\ \A m, S : m # x /\ (Followed(calls[c], m, S) \/ x \in S) => Followed(calls'[c], m, S)
  <2>1. calls'[c] = Append(calls[c], x)
    BY <1>1, <1>4 DEF Send
  <2> DEFINE q == calls[c]
  <2>2. q \in Seq(Asked)
    BY <1>1
  <2> HIDE DEF q
  <2>3. /\ \A S : In(Append(q, x), S) <=> In(q, S) \/ x \in S
        /\ \A S : Single(Append(q, x), S) <=> Single(q, S) /\ (x \in S => ~In(q, S))
        /\ \A m, S : m # x /\ (Followed(q, m, S) \/ x \in S) => Followed(Append(q, x), m, S)
    BY <1>4, <2>2, AppendFacts, AppendOrder
  <2> QED BY <2>1, <2>3 DEF q
<1>5. CASE Call(c)
  <2> DEFINE t == client[c].token + 1
  <2>1. /\ t \in Tokens /\ Send(c, Await(t)) /\ Await(t) \in Asked /\ replies' = replies
        /\ ~Waiting(c) /\ client[c].pc # "dead"
    BY <1>1, <1>5, Messages DEF Call, Tokens, Waiting
  <2>2. Waiting(c)' /\ client'[c].token = t
    BY <1>1, <1>5 DEF Call, Waiting
  <2>3. ASSUME NEW k \in Tokens
        PROVE  CallInv(c, k)'
    <3>1. CallInv(c, k)
      BY <1>2 DEF CallerInv
    <3>2. /\ Await(t) \in {Await(k)} <=> t = k
          /\ Await(t) \notin {CancelAwait(k)} /\ Await(t) \notin {ClientDown}
          /\ t # k => Await(k) # Await(t)
      BY AskedKinds
    <3>3. /\ In(calls'[c], {Await(k)}) <=> In(calls[c], {Await(k)}) \/ t = k
          /\ In(calls'[c], {CancelAwait(k)}) <=> In(calls[c], {CancelAwait(k)})
          /\ In(calls'[c], {ClientDown}) <=> In(calls[c], {ClientDown})
          /\ Single(calls'[c], {Await(k)}) <=> Single(calls[c], {Await(k)}) /\ (t = k => ~In(calls[c], {Await(k)}))
          /\ t # k /\ Followed(calls[c], Await(k), {CancelAwait(k), ClientDown}) =>
               Followed(calls'[c], Await(k), {CancelAwait(k), ClientDown})
      BY <1>4, <2>1, <3>2
    <3>4. (k <= client[c].token => k <= t) /\ (t = k => ~(k <= client[c].token)) /\ t <= t
      BY <1>1, <1>3
    <3>5. ~(<<c, k>> \in waiters /\ t = k)
      BY <2>1, <3>1, <3>4 DEF CallInv
    <3> HIDE DEF t
    <3>6. CASE t = k
      BY <1>2, <2>1, <2>2, <3>1, <3>3, <3>4, <3>5, <3>6 DEF CallInv
    <3>7. CASE t # k
      BY <1>2, <2>1, <2>2, <3>1, <3>3, <3>4, <3>7 DEF CallInv
    <3> QED BY <3>6, <3>7
  <2>4. ~In(calls'[c], {ClientDown})
    <3>1. ~In(calls[c], {ClientDown})
      BY <1>2, <2>1 DEF CallerInv
    <3>2. Await(t) \notin {ClientDown}
      BY AskedKinds
    <3> QED BY <1>4, <2>1, <3>1, <3>2
  <2>5. t > 0
    BY <1>1
  <2> QED BY <2>2, <2>3, <2>4, <2>5 DEF CallerInv
<1>6. CASE Answered(c)
  <2>1. replies'[c] = {} /\ calls' = calls
    BY <1>1, <1>6 DEF Answered
  <2>2. /\ client'[c].token = client[c].token
        /\ Waiting(c)' <=> Waiting(c) /\ client[c].token \notin replies[c]
        /\ client[c].pc = "dead" => client'[c].pc = "dead"
    BY <1>1, <1>6 DEF Answered, Waiting
  <2>3. ASSUME NEW k \in Tokens
        PROVE  CallInv(c, k)'
    <3>1. CallInv(c, k)
      BY <1>2 DEF CallerInv
    <3>2. ~In(calls[c], {Await(k)}) => Followed(calls[c], Await(k), {CancelAwait(k), ClientDown})
      BY DEF In, Followed
    <3> QED BY <1>2, <2>1, <2>2, <3>1, <3>2 DEF CallInv
  <2> QED BY <1>2, <2>1, <2>2, <2>3 DEF CallerInv
<1>7. CASE GiveUp(c)
  <2> DEFINE t == client[c].token
  <2>1. Waiting(c) /\ t \in Tokens /\ Send(c, CancelAwait(t)) /\ CancelAwait(t) \in Asked /\ replies' = replies
    <3>1. Waiting(c) /\ t > 0
      BY <1>2, <1>7 DEF GiveUp, CallerInv
    <3>2. t \in Tokens
      BY <1>1, <3>1 DEF Tokens
    <3> QED BY <1>7, <3>1, <3>2, Messages DEF GiveUp
  <2>2. ~Waiting(c)' /\ client'[c].token = t
    BY <1>1, <1>7 DEF GiveUp, Waiting
  <2>3. ASSUME NEW k \in Tokens
        PROVE  CallInv(c, k)'
    <3>1. CallInv(c, k)
      BY <1>2 DEF CallerInv
    <3>2. /\ CancelAwait(t) \in {CancelAwait(k)} <=> t = k
          /\ CancelAwait(t) \notin {Await(k)} /\ CancelAwait(t) \notin {ClientDown} /\ Await(k) # CancelAwait(t)
          /\ t = k => CancelAwait(t) \in {CancelAwait(k), ClientDown}
      BY AskedKinds
    <3>3. /\ In(calls'[c], {Await(k)}) <=> In(calls[c], {Await(k)})
          /\ In(calls'[c], {CancelAwait(k)}) <=> In(calls[c], {CancelAwait(k)}) \/ t = k
          /\ In(calls'[c], {ClientDown}) <=> In(calls[c], {ClientDown})
          /\ Single(calls'[c], {Await(k)}) <=> Single(calls[c], {Await(k)})
          /\ t = k \/ Followed(calls[c], Await(k), {CancelAwait(k), ClientDown}) =>
               Followed(calls'[c], Await(k), {CancelAwait(k), ClientDown})
      BY <1>4, <2>1, <3>2
    <3>4. t <= t
      BY <1>1
    <3> QED BY <1>2, <2>1, <2>2, <3>1, <3>3, <3>4 DEF CallInv
  <2>4. ~In(calls'[c], {ClientDown})
    <3>1. ~In(calls[c], {ClientDown})
      BY <1>2, <2>1 DEF CallerInv, Waiting
    <3>2. CancelAwait(t) \notin {ClientDown}
      BY AskedKinds
    <3> QED BY <1>4, <2>1, <3>1, <3>2
  <2> QED BY <2>2, <2>3, <2>4 DEF CallerInv
<1>8. CASE Die(c)
  <2>1. Send(c, ClientDown) /\ ClientDown \in Asked /\ replies' = replies
    BY <1>8, Messages DEF Die
  <2>2. client'[c].pc = "dead" /\ client'[c].token = client[c].token /\ ~Waiting(c)'
    BY <1>1, <1>8 DEF Die, Waiting
  <2>3. ASSUME NEW k \in Tokens
        PROVE  CallInv(c, k)'
    <3>1. CallInv(c, k)
      BY <1>2 DEF CallerInv
    <3>2. /\ ClientDown \notin {CancelAwait(k)} /\ ClientDown \notin {Await(k)} /\ Await(k) # ClientDown
          /\ ClientDown \in {CancelAwait(k), ClientDown}
      BY AskedKinds
    <3>3. /\ In(calls'[c], {Await(k)}) <=> In(calls[c], {Await(k)})
          /\ In(calls'[c], {CancelAwait(k)}) <=> In(calls[c], {CancelAwait(k)})
          /\ In(calls'[c], {ClientDown})
          /\ Single(calls'[c], {Await(k)}) <=> Single(calls[c], {Await(k)})
          /\ Followed(calls'[c], Await(k), {CancelAwait(k), ClientDown})
      BY <1>4, <2>1, <3>2
    <3> QED BY <1>2, <2>1, <2>2, <3>1, <3>3 DEF CallInv
  <2> QED BY <2>2, <2>3 DEF CallerInv
<1> QED BY <1>5, <1>6, <1>7, <1>8

(* One client's step leaves the others' calls alone.                           *)
LEMMA ClientWaiters ==
  ASSUME TypeOK, WaitersInv, NEW c \in Clients, ClientStep(c)
  PROVE  WaitersInv'
<1>1. CallerInv(c)'
  BY HeardCaller, CallerActs DEF ClientStep
<1>2. ASSUME NEW d \in Clients, d # c
      PROVE  CallerInv(d)'
  <2>1. DOMAIN calls = Clients /\ DOMAIN client = Clients /\ DOMAIN replies = Clients
    BY ClientTypes
  <2>2. calls'[d] = calls[d] /\ client'[d] = client[d] /\ replies'[d] = replies[d]
    BY <1>2, <2>1 DEF ClientStep, HearClient, Note, Cancel, Unnote, Call, Answered, GiveUp, Die, Send
  <2>3. \A k \in Tokens : <<d, k>> \in waiters' <=> <<d, k>> \in waiters
    BY <1>2 DEF ClientStep, HearClient, Note, Cancel, Unnote, Call, Answered, GiveUp, Die, onlyClients
  <2> QED BY <2>2, <2>3, CallerKept DEF WaitersInv
<1>3. report' = report /\ (report # None => waiters' \subseteq waiters)
  BY DEF ClientStep, HearClient, Note, Cancel, Unnote, Call, Answered, GiveUp, Die, onlyClients
<1> QED BY <1>1, <1>2, <1>3 DEF WaitersInv

------------------------------------------------------------------------------
(* The campaign.                                                               *)

(* The first state.                                                            *)
LEMMA InitFull == Init => FullInv
<1> SUFFICES ASSUME Init PROVE FullInv
  OBVIOUS
<1> USE DEF Init
<1>1. <<"iterate">> \in Seq(WorkerMessages)
  BY DEF WorkerMessages
<1>2. TypeOK
  <2>1. /\ wire \in Seq({"stop", "sample", "snapshot"}) /\ up \in Seq(Told) /\ mode \in Modes
        /\ report \in {None} \cup Statuses /\ context \in Contexts /\ diedAs \in Contexts
    BY DEF Contexts
  <2>2. /\ seedsLeft \in 0..Seeds /\ phase \in {"calibration", "mutation"}
        /\ iteration \in 0..MaxIterations /\ (Continuous => iteration = 0)
        /\ idle \in 0..MaxIdle /\ extra \in 0..MaxExtra /\ late \in 0..2
    BY CampaignAssumption
  <2>3. /\ client \in [Clients -> [pc : {"idle", "waiting", "dead"}, token : 0..MaxAwaits]]
        /\ calls \in [Clients -> Seq(Asked)] /\ replies \in [Clients -> SUBSET Tokens]
        /\ waiters \subseteq Waiters
    BY CampaignAssumption
  <2> QED BY <1>1, <2>1, <2>2, <2>3 DEF TypeOK
<1>3. TurnInv
  <2>1. DOMAIN inbox = {1} /\ inbox[1] = "iterate"
    OBVIOUS
  <2>2. In(inbox, Iterates) /\ Single(inbox, Iterates) /\ ~In(inbox, Answers) /\ Single(inbox, Answers)
    BY <2>1, Kinds DEF In, Single
  <2> QED BY <2>2 DEF TurnInv, Busy, Alive
<1>4. StopInv
  <2>1. DOMAIN inbox = {1} /\ inbox[1] = "iterate"
    OBVIOUS
  <2>2. ~In(inbox, Stops) /\ Single(inbox, Stops)
    BY <2>1, Kinds DEF In, Single
  <2> QED BY <2>2, EmptyFacts DEF StopInv
<1>5. ReportInv
  BY EmptyFacts, EmptyOrder DEF ReportInv, None
<1>6. ContextInv
  BY DEF ContextInv, Alive, None
<1>7. WaitersInv
  <2>1. ASSUME NEW c \in Clients
        PROVE  CallerInv(c)
    <3>1. calls[c] = <<>> /\ replies[c] = {} /\ waiters = {} /\ client[c].pc = "idle" /\ ~Waiting(c)
      BY DEF Waiting
    <3> QED BY <3>1, EmptyFacts, EmptyOrder DEF CallerInv, CallInv
  <2> QED BY <2>1 DEF WaitersInv
<1> QED BY <1>2, <1>3, <1>4, <1>5, <1>6, <1>7 DEF FullInv

(* Every step.                                                                 *)
LEMMA NextFull == FullInv /\ [Next]_vars => FullInv'
<1> SUFFICES ASSUME FullInv, [Next]_vars PROVE FullInv'
  OBVIOUS
<1>1. TypeOK /\ TurnInv /\ StopInv /\ ReportInv /\ ContextInv /\ WaitersInv
  BY DEF FullInv
<1>2. CASE WorkerStep
  BY <1>1, <1>2, WorkerTyped, WorkerTurn, WorkerStop, WorkerReport, WorkerContext, WorkersWaiters DEF FullInv
<1>3. CASE Surroundings \/ Crash \/ Deliver
  BY <1>1, <1>3, SurroundingsTyped, SurroundingsTurn, SurroundingsStop, SurroundingsReport, SurroundingsContext,
     WorkersWaiters DEF FullInv
<1>4. ASSUME Asks \/ SnapshotTaken \/ (\E how : Ends(how)) \/ HearWorker \/ (\E c \in Clients : ClientStep(c))
      PROVE  FullInv'
  <2>1. TypeOK' /\ WaitersInv'
    BY <1>1, <1>4, CoordinatorTyped, ClientTyped, WorkersWaiters, EndWaiters, ReportWaiters, ClientWaiters
  <2> QED BY <1>1, <1>4, <2>1, OthersTurn, OthersStop, OthersReport, OthersContext DEF FullInv
<1>5. CASE UNCHANGED vars
  <2>1. TypeOK'
    BY <1>1, <1>5 DEF TypeOK, vars, workerVars, turn, coordVars, clientVars, history, Continuous
  <2>2. TurnInv' /\ StopInv' /\ ReportInv' /\ ContextInv'
    BY <1>1, <1>5 DEF vars, workerVars, turn, coordVars, clientVars, history, Continuous, Alive, Busy,
                      TurnInv, StopInv, ReportInv, ContextInv
  <2>3. WaitersInv'
    BY <1>1, <1>5, CallerKept DEF vars, workerVars, turn, coordVars, clientVars, WaitersInv
  <2> QED BY <2>1, <2>2, <2>3 DEF FullInv
<1> QED BY <1>2, <1>3, <1>4, <1>5, EndsSo DEF Next, Asks, ClientStep

(* Every state a campaign reaches, with crashes, stops, callers and a provider *)
(* in any order, is one of the invariant's.                                    *)
THEOREM CampaignHolds == Spec => []FullInv
BY InitFull, NextFull, PTL DEF Spec

(* The types.                                                                  *)
THEOREM CampaignTyped == Spec => []TypeOK
<1>1. FullInv => TypeOK
  BY DEF FullInv
<1> QED BY <1>1, CampaignHolds, PTL

(* How many messages of a kind are in a mailbox that has at most one.          *)
LEMMA CountOfOne ==
  ASSUME NEW q, NEW S, Single(q, S)
  PROVE  Cardinality({i \in DOMAIN q : q[i] \in S}) = IF In(q, S) THEN 1 ELSE 0
<1>1. CASE In(q, S)
  <2>1. PICK i \in DOMAIN q : q[i] \in S
    BY <1>1 DEF In
  <2>2. {j \in DOMAIN q : q[j] \in S} = {i}
    BY <2>1 DEF Single
  <2> QED BY <1>1, <2>2, FS_Singleton
<1>2. CASE ~In(q, S)
  <2>1. {i \in DOMAIN q : q[i] \in S} = {}
    BY <1>2 DEF In
  <2> QED BY <1>2, <2>1, FS_EmptySet
<1> QED BY <1>1, <1>2

(* A running campaign has exactly one thing that keeps it going: a turn in the *)
(* mailbox, an execution, or a request whose answer is still to come; it       *)
(* neither stalls nor runs twice.                                              *)
THEOREM OneTurnAtATime == Spec => []OneTurn
<1>1. ASSUME FullInv, Alive, ~finished
      PROVE  /\ Turns + (IF worker # "ready" THEN 1 ELSE 0) + (IF pending THEN 1 ELSE 0) = 1
             /\ pending => AnswersWaiting + (IF provider # None THEN 1 ELSE 0) = 1
  <2>1. TypeOK /\ TurnInv
    BY <1>1 DEF FullInv
  <2>2. Turns = IF In(inbox, Iterates) THEN 1 ELSE 0
    <3>1. {i \in DOMAIN inbox : inbox[i] = "iterate"} = {i \in DOMAIN inbox : inbox[i] \in Iterates}
      BY DEF Iterates
    <3> QED BY <1>1, <2>1, <3>1, CountOfOne DEF Turns, TurnInv
  <2>3. AnswersWaiting = IF In(inbox, Answers) THEN 1 ELSE 0
    BY <1>1, <2>1, CountOfOne DEF AnswersWaiting, Answers, TurnInv
  <2>4. worker # "ready" => ~pending
    BY <1>1, <2>1 DEF TypeOK, TurnInv, Alive, Busy
  <2>5. /\ In(inbox, Iterates) <=> worker = "ready" /\ ~pending
        /\ In(inbox, Answers) <=> pending /\ provider = None
    BY <1>1, <2>1 DEF TurnInv
  <2> QED BY <2>2, <2>3, <2>4, <2>5
<1>2. FullInv => OneTurn
  BY <1>1 DEF OneTurn
<1> QED BY <1>2, CampaignHolds, PTL

(* Once a stop is in the worker's mailbox at most one execution begins.        *)
THEOREM StopPrompt == Spec => []StopIsPrompt
<1>1. FullInv => StopIsPrompt
  BY DEF FullInv, StopInv, StopIsPrompt
<1> QED BY <1>1, CampaignHolds, PTL

(* What the report says is what happened: a campaign stopped by its user was   *)
(* asked to stop and left no provider behind; a crash names what was going on. *)
THEOREM StatusHonest == Spec => []StatusIsHonest
<1>1. FullInv => StatusIsHonest
  <2> SUFFICES ASSUME FullInv PROVE StatusIsHonest
    OBVIOUS
  <2>1. report = "stopped_by_user" => stopRequested /\ finished
    BY DEF FullInv, ReportInv, None
  <2>2. finished => provider = None
    BY DEF FullInv, TurnInv
  <2>3. report = "worker_down" /\ diedAs # None => context = diedAs
    BY DEF FullInv, ContextInv
  <2> QED BY <2>1, <2>2, <2>3 DEF StatusIsHonest
<1> QED BY <1>1, CampaignHolds, PTL

(* Every caller of await/1 is on its way in, noted or answered, and nobody     *)
(* without an interest stays noted.                                            *)
THEOREM WaitersAreExact == Spec => []WaitersExact
<1>1. FullInv => WaitersExact
  <2> SUFFICES ASSUME FullInv PROVE WaitersExact
    OBVIOUS
  <2>1. TypeOK /\ WaitersInv
    BY DEF FullInv
  <2>2. \A c \in Clients : calls[c] \in Seq(Asked)
    BY <2>1, ClientTypes
  <2>3. \A c \in Clients : \A m : Sent(c, m) <=> In(calls[c], {m})
    BY <2>2, ContainsIn DEF Sent
  <2>4. ASSUME NEW c \in Clients, Waiting(c)
        PROVE  LET k == client[c].token IN
               Sent(c, Await(k)) \/ <<c, k>> \in waiters \/ k \in replies[c]
    <3> DEFINE k == client[c].token
    <3>1. CallerInv(c) /\ k > 0
      BY <2>1, <2>4 DEF WaitersInv, CallerInv
    <3>2. k \in Tokens
      <4>1. client[c].token \in 0..MaxAwaits /\ MaxAwaits \in Nat
        BY <2>1, ClientTypes
      <4> QED BY <3>1, <4>1 DEF Tokens
    <3>3. CallInv(c, k)
      BY <3>1, <3>2 DEF CallerInv
    <3>4. In(calls[c], {Await(k)}) \/ <<c, k>> \in waiters \/ k \in replies[c]
      BY <2>4, <3>3 DEF CallInv
    <3> QED BY <2>3, <3>4
  <2>5. ASSUME NEW w \in waiters
        PROVE  \/ Waiting(w[1]) /\ client[w[1]].token = w[2]
               \/ Sent(w[1], CancelAwait(w[2])) \/ Sent(w[1], ClientDown)
    <3>1. PICK c \in Clients, k \in Tokens : w = <<c, k>>
      BY <2>1 DEF TypeOK, Waiters
    <3>2. CallInv(c, k)
      BY <2>1 DEF WaitersInv, CallerInv
    <3>3. \/ Waiting(c) /\ client[c].token = k
          \/ In(calls[c], {CancelAwait(k)}) \/ In(calls[c], {ClientDown})
      BY <3>1, <3>2 DEF CallInv
    <3> QED BY <2>3, <3>1, <3>3
  <2> QED BY <2>1, <2>4, <2>5 DEF WaitersExact, WaitersInv
<1> QED BY <1>1, CampaignHolds, PTL

(* The first report is the report: a late DOWN, stop or second end changes     *)
(* nothing.                                                                    *)
THEOREM ReportFinal == Spec => ReportIsFinal
<1>1. FullInv /\ [Next]_vars => [report # None => report' = report]_report
  <2> SUFFICES ASSUME FullInv, [Next]_vars, report # None PROVE report' = report
    OBVIOUS
  <2>1. CASE HearWorker
    <3>1. TypeOK /\ ReportInv /\ \A S : In(up, S) <=> Head(up) \in S \/ In(up', S)
      BY <2>1, HeardFacts DEF FullInv
    <3>2. ~In(up, Dones)
      BY <3>1 DEF ReportInv
    <3>3. Head(up) \notin Dones
      BY <3>1, <3>2
    <3> QED BY <2>1, <3>1, <3>3, HeardKinds DEF Dones
  <2>2. CASE WorkerStep \/ Surroundings \/ Crash \/ Deliver \/ UNCHANGED vars
    BY <2>2 DEF WorkerStep, Surroundings, Crash, Deliver, vars, coordVars
  <2>3. CASE Asks \/ SnapshotTaken \/ (\E how : Ends(how)) \/ (\E c \in Clients : ClientStep(c))
    BY <2>3 DEF Asks, RequestStop, Poll, Benchmark, SnapshotTaken, Ends, End, ClientStep, HearClient, Call,
                Answered, GiveUp, Die, onlyClients
  <2> QED BY <2>1, <2>2, <2>3, EndsSo DEF Next, Asks, ClientStep
<1> QED BY <1>1, CampaignHolds, PTL DEF Spec, ReportIsFinal

(* A campaign whose report is in runs nothing any more, and but for the death  *)
(* of its worker has left no provider process behind.                          *)
THEOREM ReportedRunsNothing ==
  Spec => [](report # None => ~Busy /\ (report # "worker_down" => provider = None))
<1>1. FullInv => (report # None => ~Busy /\ (report # "worker_down" => provider = None))
  <2> SUFFICES ASSUME FullInv, report # None
               PROVE  ~Busy /\ (report # "worker_down" => provider = None)
    OBVIOUS
  <2>1. CASE report = "worker_down"
    BY <2>1 DEF FullInv, ReportInv, Busy
  <2>2. CASE report # "worker_down"
    BY <2>2 DEF FullInv, ReportInv, TurnInv
  <2> QED BY <2>1, <2>2
<1> QED BY <1>1, CampaignHolds, PTL

(* A call of await/1 is noted or answered once: it is in one place only, and   *)
(* one that was noted or answered is not on its way in again.                  *)
THEOREM CallsAreSingle ==
  Spec => [](\A c \in Clients : \A k \in Tokens :
               /\ Single(calls[c], {Await(k)})
               /\ Sent(c, Await(k)) => <<c, k>> \notin waiters /\ k \notin replies[c]
               /\ <<c, k>> \in waiters => k \notin replies[c])
<1>1. ASSUME FullInv, NEW c \in Clients, NEW k \in Tokens
      PROVE  /\ Single(calls[c], {Await(k)})
             /\ Sent(c, Await(k)) => <<c, k>> \notin waiters /\ k \notin replies[c]
             /\ <<c, k>> \in waiters => k \notin replies[c]
  <2>1. CallInv(c, k) /\ calls[c] \in Seq(Asked)
    BY <1>1, ClientTypes DEF FullInv, WaitersInv, CallerInv
  <2>2. Sent(c, Await(k)) <=> In(calls[c], {Await(k)})
    BY <2>1, ContainsIn DEF Sent
  <2> QED BY <2>1, <2>2 DEF CallInv
<1>2. FullInv => \A c \in Clients : \A k \in Tokens :
                   /\ Single(calls[c], {Await(k)})
                   /\ Sent(c, Await(k)) => <<c, k>> \notin waiters /\ k \notin replies[c]
                   /\ <<c, k>> \in waiters => k \notin replies[c]
  BY <1>1
<1> QED BY <1>2, CampaignHolds, PTL
=============================================================================
