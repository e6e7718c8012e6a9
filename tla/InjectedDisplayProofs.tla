------------------------ MODULE InjectedDisplayProofs ------------------------
(***************************************************************************)
(* What InjectedDisplay guarantees for any number of tap clients, any      *)
(* capacity of the queue and any length of a stream.                       *)
(***************************************************************************)
EXTENDS InjectedDisplay, FunctionTheorems, FiniteSetTheorems, SequenceTheorems, TLAPS

---------------------------------------------------------------------------
(* The inductive invariant.                                                *)

Messages == [kind : {"services", "open", "opened", "setup", "config", "focus", "ask", "start",
                     "ack", "first", "data", "last", "stop", "other"},
             focus : {"none", "native", "projected"}, session : Nat, n : Nat]

Types ==
    /\ toHu \in Seq(Messages) /\ toMd \in Seq(Messages) /\ hand \in Seq(Messages)
    /\ session \in Nat /\ acks \in Nat
    /\ {"channel", "focus", "started", "part", "starts", "sent", "acked", "asks"} \subseteq DOMAIN phone
    /\ phone.starts \in Nat /\ phone.sent \in Nat

\* A message that the proxy may acknowledge.
Counts(m) == m.kind \in {"data", "last"}

\* Those of the youngest stream in a queue of the phone, by their places.
Unread(q) == {i \in DOMAIN q : Counts(q[i]) /\ \A j \in DOMAIN q : j > i => q[j].kind # "start"}
NoStart(q) == \A i \in DOMAIN q : q[i].kind # "start"

\* The proxy is at a session before those the phone has announced to it.
SessionInv ==
    /\ session <= phone.starts
    /\ \A i \in DOMAIN toHu : toHu[i].kind = "start" =>
            session < toHu[i].session /\ toHu[i].session <= phone.starts
    /\ \A i, j \in DOMAIN toHu : toHu[i].kind = "start" /\ toHu[j].kind = "start" /\ i < j
            => toHu[i].session < toHu[j].session

\* What it has counted and what it will count the phone has sent.
CountInv ==
    /\ Cardinality(Unread(toHu)) <= phone.sent
    /\ NoStart(toHu) => acks + Cardinality(Unread(toHu)) <= phone.sent

\* An acknowledgement of the youngest stream is owed.
Owed(m) == m.kind = "ack" =>
               /\ m.session <= phone.starts
               /\ m.session = phone.starts => m.n <= phone.sent
AckInv == /\ \A i \in DOMAIN toMd : Owed(toMd[i])
          /\ \A i \in DOMAIN hand : Owed(hand[i])

IInv == Types /\ SessionInv /\ CountInv /\ AckInv

---------------------------------------------------------------------------
(* Queues.                                                                 *)

USE CapacityAssumption

LEMMA UnreadFinite ==
  ASSUME NEW q \in Seq(Messages)
  PROVE IsFiniteSet(Unread(q)) /\ Cardinality(Unread(q)) \in Nat
  <1>1. IsFiniteSet(1..Len(q))
    BY FS_Interval
  <1>2. Unread(q) \subseteq 1..Len(q)
    BY DEF Unread
  <1>3. IsFiniteSet(Unread(q))
    BY <1>1, <1>2, FS_Subset
  <1>. QED
    BY <1>3, FS_CardinalityType

\* What the phone says.
LEMMA Said ==
  ASSUME NEW q \in Seq(Messages), NEW m \in Messages
  PROVE /\ Append(q, m) \in Seq(Messages)
        /\ m.kind = "start" => Cardinality(Unread(Append(q, m))) = 0
        /\ Counts(m) => Cardinality(Unread(Append(q, m))) = Cardinality(Unread(q)) + 1
        /\ m.kind # "start" /\ ~Counts(m) => Cardinality(Unread(Append(q, m))) = Cardinality(Unread(q))
        /\ NoStart(Append(q, m)) <=> NoStart(q) /\ m.kind # "start"
  <1>. DEFINE r == Append(q, m)
  <1>1. /\ r \in Seq(Messages) /\ Len(r) = Len(q) + 1 /\ Len(q) \in Nat
        /\ \A i \in 1..Len(q) : r[i] = q[i]
        /\ r[Len(q) + 1] = m
    BY AppendProperties
  <1>2. DOMAIN q = 1..Len(q) /\ DOMAIN r = 1..Len(q) + 1
    BY <1>1
  <1>. HIDE DEF r
  <1>3. NoStart(r) <=> NoStart(q) /\ m.kind # "start"
    BY <1>1, <1>2 DEF NoStart
  <1>4. ASSUME m.kind = "start" PROVE Unread(r) = {}
    BY <1>1, <1>2, <1>4 DEF Unread, Counts
  <1>5. ASSUME Counts(m) PROVE Unread(r) = Unread(q) \cup {Len(q) + 1}
    BY <1>1, <1>2, <1>5 DEF Unread, Counts
  <1>6. ASSUME m.kind # "start", ~Counts(m) PROVE Unread(r) = Unread(q)
    BY <1>1, <1>2, <1>6 DEF Unread
  <1>7. Len(q) + 1 \notin Unread(q)
    BY <1>1, <1>2 DEF Unread
  <1>8. Cardinality({}) = 0 /\ Cardinality(Unread(q) \cup {Len(q) + 1}) = Cardinality(Unread(q)) + 1
    BY <1>7, UnreadFinite, FS_EmptySet, FS_AddElement
  <1>. QED
    BY <1>1, <1>3, <1>4, <1>5, <1>6, <1>8 DEF r

\* What the proxy takes.
LEMMA Taken ==
  ASSUME NEW q \in Seq(Messages), q # <<>>
  PROVE /\ Head(q) \in Messages /\ Head(q) = q[1] /\ Tail(q) \in Seq(Messages)
        /\ Counts(Head(q)) /\ NoStart(q) => Cardinality(Unread(Tail(q))) = Cardinality(Unread(q)) - 1
        /\ Cardinality(Unread(Tail(q))) <= Cardinality(Unread(q))
        /\ NoStart(q) => NoStart(Tail(q))
        /\ NoStart(Tail(q)) => NoStart(q) \/ Head(q).kind = "start"
        /\ Len(q) \in Nat /\ DOMAIN q = 1..Len(q) /\ DOMAIN Tail(q) = 1..Len(q) - 1
        /\ \A i \in DOMAIN Tail(q) : i + 1 \in DOMAIN q /\ Tail(q)[i] = q[i + 1]
  <1>. DEFINE t == Tail(q)
  <1>1. /\ t \in Seq(Messages) /\ Len(t) = Len(q) - 1 /\ Len(q) \in Nat /\ Len(q) > 0
        /\ \A i \in 1..Len(t) : t[i] = q[i + 1]
    BY HeadTailProperties, EmptySeq
  <1>2. DOMAIN q = 1..Len(q) /\ DOMAIN t = 1..Len(q) - 1 /\ Head(q) = q[1] /\ Head(q) \in Messages
    BY <1>1
  <1>3. \A i \in DOMAIN t : i + 1 \in DOMAIN q /\ t[i] = q[i + 1]
    BY <1>1, <1>2
  <1>4. \A j \in DOMAIN q : j = 1 \/ (j - 1 \in DOMAIN t /\ t[j - 1] = q[j])
    BY <1>1, <1>2, <1>3
  <1>. HIDE DEF t
  <1>5. (NoStart(q) => NoStart(t)) /\ (NoStart(t) => NoStart(q) \/ Head(q).kind = "start")
    BY <1>2, <1>3, <1>4 DEF NoStart
  <1>6. Cardinality(Unread(t)) = Cardinality(Unread(q) \ {1})
    <2>. DEFINE f == [i \in Unread(t) |-> i + 1]
    <2>1. ASSUME NEW i \in Unread(t) PROVE i + 1 \in Unread(q) \ {1}
      <3>1. i \in DOMAIN t /\ Counts(t[i]) /\ \A j \in DOMAIN t : j > i => t[j].kind # "start"
        BY DEF Unread
      <3>2. i + 1 \in DOMAIN q /\ Counts(q[i + 1]) /\ i + 1 # 1
        BY <1>2, <1>3, <3>1
      <3>3. ASSUME NEW j \in DOMAIN q, j > i + 1 PROVE q[j].kind # "start"
        BY <1>1, <1>2, <1>4, <3>1, <3>3
      <3>. QED
        BY <3>2, <3>3 DEF Unread
    <2>2. ASSUME NEW j \in Unread(q) \ {1} PROVE j - 1 \in Unread(t) /\ j = (j - 1) + 1
      <3>1. j \in DOMAIN q /\ Counts(q[j]) /\ \A k \in DOMAIN q : k > j => q[k].kind # "start"
        BY DEF Unread
      <3>2. j - 1 \in DOMAIN t /\ Counts(t[j - 1])
        BY <1>4, <3>1
      <3>3. ASSUME NEW k \in DOMAIN t, k > j - 1 PROVE t[k].kind # "start"
        BY <1>1, <1>2, <1>3, <3>1, <3>3
      <3>. QED
        BY <1>1, <1>2, <3>1, <3>2, <3>3 DEF Unread
    <2>3. f \in [Unread(t) -> Unread(q) \ {1}]
      BY <2>1
    <2>4. \A a, b \in Unread(t) : f[a] = f[b] => a = b
      BY <1>1, <1>2 DEF Unread
    <2>5. \A j \in Unread(q) \ {1} : \E i \in Unread(t) : f[i] = j
      BY <2>2
    <2>6. f \in Bijection(Unread(t), Unread(q) \ {1})
      BY <2>3, <2>4, <2>5, Fun_IsBij
    <2>7. ExistsBijection(Unread(t), Unread(q) \ {1})
      BY <2>6 DEF ExistsBijection
    <2>8. IsFiniteSet(Unread(t))
      BY <1>1, UnreadFinite
    <2>. QED
      BY <2>7, <2>8, FS_Bijection
  <1>7. /\ IsFiniteSet(Unread(q)) /\ Cardinality(Unread(q)) \in Nat
        /\ Cardinality(Unread(q) \ {1}) =
              IF 1 \in Unread(q) THEN Cardinality(Unread(q)) - 1 ELSE Cardinality(Unread(q))
    BY UnreadFinite, FS_RemoveElement
  <1>8. Counts(Head(q)) /\ NoStart(q) => 1 \in Unread(q)
    BY <1>1, <1>2 DEF Unread, NoStart
  <1>9. /\ Counts(Head(q)) /\ NoStart(q) => Cardinality(Unread(t)) = Cardinality(Unread(q)) - 1
        /\ Cardinality(Unread(t)) <= Cardinality(Unread(q))
    BY <1>6, <1>7, <1>8
  <1>. QED
    BY <1>1, <1>2, <1>3, <1>5, <1>9 DEF t

\* The poll only adds notifications of focus.
LEMMA Polled ==
  ASSUME NEW q \in Seq(Messages)
  PROVE /\ q \o TrySend(q) \in Seq(Messages)
        /\ \A i \in DOMAIN (q \o TrySend(q)) :
              \/ i \in DOMAIN q /\ (q \o TrySend(q))[i] = q[i]
              \/ (q \o TrySend(q))[i].kind = "focus"
  <1>. DEFINE a == Announced
             s == TrySend(q)
             n == Min({Len(a), QueueCapacity - Len(q)})
  <1>1. a \in Seq({"native", "projected"}) /\ Len(a) \in Nat
    <2>1. a = <<>> \/ a = <<"native">> \/ a = <<"projected">> \/ a = <<"native", "projected">>
      BY DEF Announced
    <2>. HIDE DEF a
    <2>2. CASE a = <<>>
      BY <2>2, EmptySeq
    <2>3. CASE a = <<"native">>
      BY <2>3
    <2>4. CASE a = <<"projected">>
      BY <2>4
    <2>5. CASE a = <<"native", "projected">>
      BY <2>5
    <2>. QED
      BY <2>1, <2>2, <2>3, <2>4, <2>5
  <1>2. n \in Int /\ n <= Len(a)
    BY <1>1 DEF Min
  <1>3. \A i \in 1..n : Focus(a[i]) \in Messages /\ Focus(a[i]).kind = "focus"
    <2>1. \A i \in 1..n : a[i] \in {"native", "projected"}
      BY <1>1, <1>2
    <2>. QED
      BY <2>1 DEF Focus, Msg, Messages
  <1>4. s = [i \in 1..n |-> Focus(a[i])]
    BY DEF TrySend
  <1>. HIDE DEF a, n, s
  <1>5. \E k \in Nat : 1..n = 1..k
    <2>1. CASE n >= 0
      BY <1>2, <2>1
    <2>2. CASE n < 0
      <3>1. 1..n = 1..0
        BY <1>2, <2>2
      <3>. QED
        BY <3>1
    <2>. QED
      BY <1>2, <2>1, <2>2
  <1>6. s \in Seq(Messages) /\ \A i \in DOMAIN s : s[i].kind = "focus"
    <2>1. PICK k \in Nat : 1..n = 1..k
      BY <1>5
    <2>2. s \in [1..k -> Messages]
      BY <1>3, <1>4, <2>1
    <2>3. s \in Seq(Messages)
      BY <2>2
    <2>4. DOMAIN s = 1..n /\ \A i \in 1..n : s[i] = Focus(a[i])
      BY <1>4
    <2>. QED
      BY <1>3, <2>3, <2>4
  <1>7. /\ q \o s \in Seq(Messages)
        /\ Len(q \o s) = Len(q) + Len(s)
        /\ \A i \in 1..Len(q) + Len(s) : (q \o s)[i] = IF i <= Len(q) THEN q[i] ELSE s[i - Len(q)]
    BY <1>6, ConcatProperties
  <1>8. ASSUME NEW i \in DOMAIN (q \o s)
        PROVE (i \in DOMAIN q /\ (q \o s)[i] = q[i]) \/ (q \o s)[i].kind = "focus"
    <2>1. i \in 1..Len(q) + Len(s) /\ Len(q) \in Nat /\ Len(s) \in Nat /\ DOMAIN q = 1..Len(q)
          /\ DOMAIN s = 1..Len(s)
      BY <1>6, <1>7
    <2>. QED
      BY <1>6, <1>7, <2>1
  <1>. QED
    BY <1>7, <1>8 DEF s

---------------------------------------------------------------------------
(* The steps.                                                              *)

LEMMA MessageTypes ==
  /\ \A k \in {"services", "open", "opened", "setup", "config", "first", "data", "last", "stop", "other"} :
        Msg(k) \in Messages /\ Msg(k).kind = k
  /\ \A f \in {"none", "native", "projected"} : /\ Focus(f) \in Messages /\ Focus(f).kind = "focus"
                                                /\ Ask(f) \in Messages /\ Ask(f).kind = "ask"
  /\ \A s \in Nat : Start(s) \in Messages /\ Start(s).kind = "start" /\ Start(s).session = s
  /\ \A s, n \in Nat : /\ Ack(s, n) \in Messages /\ Ack(s, n).session = s /\ Ack(s, n).n = n
                       /\ Ack(s, n).kind = "ack"
  BY DEF Msg, Focus, Ask, Start, Ack, Messages

\* What a poll leaves in the queue is owed if what was there is.
LEMMA PollOwed ==
  ASSUME NEW q \in Seq(Messages), Poll(q), phone' = phone, \A i \in DOMAIN q : Owed(q[i])
  PROVE toMd' \in Seq(Messages) /\ \A i \in DOMAIN toMd' : Owed(toMd[i])'
  <1>1. toMd' = q \o TrySend(q)
    BY DEF Poll
  <1>2. /\ toMd' \in Seq(Messages)
        /\ \A i \in DOMAIN toMd' : (i \in DOMAIN q /\ toMd'[i] = q[i]) \/ toMd'[i].kind = "focus"
    BY <1>1, Polled
  <1>. QED
    BY <1>2 DEF Owed

\* The proxy takes a message of the phone and goes on to its session.
LEMMA TakenSession ==
  ASSUME Types, SessionInv, toHu # <<>>, toHu' = Tail(toHu), phone' = phone,
         \/ session' \in {session, 0}
         \/ Head(toHu).kind = "start" /\ session' = Head(toHu).session
  PROVE SessionInv'
  <1>1. /\ Head(toHu) = toHu[1] /\ Len(toHu) \in Nat /\ DOMAIN toHu = 1..Len(toHu)
        /\ DOMAIN toHu' = 1..Len(toHu) - 1
        /\ \A i \in DOMAIN toHu' : i + 1 \in DOMAIN toHu /\ toHu'[i] = toHu[i + 1]
    BY Taken DEF Types
  <1>2. 1 \in DOMAIN toHu
    BY <1>1, EmptySeq DEF Types
  <1>3. \A i \in DOMAIN toHu : toHu[i].session \in Nat
    <2>1. \A i \in DOMAIN toHu : toHu[i] \in Messages
      BY DEF Types
    <2>. QED
      BY <2>1 DEF Messages
  <1>4. \A i, j \in DOMAIN toHu' : toHu'[i].kind = "start" /\ toHu'[j].kind = "start" /\ i < j
            => toHu'[i].session < toHu'[j].session
    BY <1>1 DEF SessionInv
  <1>5. session' <= phone.starts
    BY <1>1, <1>2 DEF SessionInv, Types
  <1>6. ASSUME NEW i \in DOMAIN toHu', toHu'[i].kind = "start"
        PROVE session' < toHu'[i].session /\ toHu'[i].session <= phone.starts
    <2>1. /\ i + 1 \in DOMAIN toHu /\ toHu'[i] = toHu[i + 1] /\ 1 < i + 1
          /\ session < toHu'[i].session /\ toHu'[i].session <= phone.starts
      BY <1>1, <1>6 DEF SessionInv
    <2>2. CASE session' \in {session, 0}
      BY <1>3, <2>1, <2>2 DEF Types
    <2>3. CASE Head(toHu).kind = "start" /\ session' = Head(toHu).session
      BY <1>1, <1>2, <1>6, <2>1, <2>3 DEF SessionInv
    <2>. QED
      BY <2>1, <2>2, <2>3
  <1>. QED
    BY <1>4, <1>5, <1>6 DEF SessionInv

\* The phone says something that begins no stream.
LEMMA SaidInv ==
  ASSUME Types, SessionInv, CountInv, NEW m \in Messages, m.kind # "start",
         toHu' = Append(toHu, m), session' = session, acks' = acks, phone'.starts = phone.starts,
         phone'.sent = IF Counts(m) THEN phone.sent + 1 ELSE phone.sent
  PROVE toHu' \in Seq(Messages) /\ SessionInv' /\ CountInv'
  <1>1. /\ toHu' \in Seq(Messages) /\ Len(toHu') = Len(toHu) + 1 /\ Len(toHu) \in Nat
        /\ DOMAIN toHu = 1..Len(toHu) /\ DOMAIN toHu' = 1..Len(toHu) + 1
        /\ \A i \in 1..Len(toHu) : toHu'[i] = toHu[i]
        /\ toHu'[Len(toHu) + 1] = m
    BY AppendProperties DEF Types
  <1>2. \A i \in DOMAIN toHu' : toHu'[i].kind = "start" => i \in DOMAIN toHu /\ toHu'[i] = toHu[i]
    BY <1>1
  <1>3. SessionInv'
    BY <1>2 DEF SessionInv
  <1>4. CountInv'
    <2>1. /\ Counts(m) => Cardinality(Unread(toHu')) = Cardinality(Unread(toHu)) + 1
          /\ ~Counts(m) => Cardinality(Unread(toHu')) = Cardinality(Unread(toHu))
          /\ NoStart(toHu') => NoStart(toHu)
      BY Said DEF Types
    <2>2. Cardinality(Unread(toHu)) \in Nat /\ acks \in Nat /\ phone.sent \in Nat
      BY UnreadFinite DEF Types
    <2>. QED
      BY <2>1, <2>2 DEF CountInv
  <1>. QED
    BY <1>1, <1>3, <1>4

\* Acknowledgements stay owed while the phone sends more.
LEMMA StaysOwed ==
  ASSUME Types, NEW m \in Messages, Owed(m),
         phone'.starts = phone.starts, phone'.sent \in {phone.sent, phone.sent + 1}
  PROVE Owed(m)'
  <1>1. m.n \in Nat
    BY DEF Messages
  <1>. QED
    BY <1>1 DEF Owed, Types

LEMMA StaysAckInv ==
  ASSUME Types, AckInv, hand' = hand, toMd' = toMd \/ (toMd # <<>> /\ toMd' = Tail(toMd)),
         phone'.starts = phone.starts, phone'.sent \in {phone.sent, phone.sent + 1}
  PROVE toMd' \in Seq(Messages) /\ AckInv'
  <1>1. /\ toMd' \in Seq(Messages)
        /\ \A i \in DOMAIN toMd' : \E j \in DOMAIN toMd : toMd'[i] = toMd[j]
    <2>1. CASE toMd' = toMd
      BY <2>1 DEF Types
    <2>2. CASE toMd # <<>> /\ toMd' = Tail(toMd)
      BY <2>2, Taken DEF Types
    <2>. QED
      BY <2>1, <2>2
  <1>2. \A i \in DOMAIN toMd : toMd[i] \in Messages /\ Owed(toMd[i])
    BY DEF Types, AckInv
  <1>3. \A i \in DOMAIN hand : hand[i] \in Messages /\ Owed(hand[i])
    BY DEF Types, AckInv
  <1>4. ASSUME NEW i \in DOMAIN toMd' PROVE Owed(toMd[i])'
    BY <1>1, <1>2, StaysOwed
  <1>5. ASSUME NEW i \in DOMAIN hand PROVE Owed(hand[i])'
    BY <1>3, StaysOwed
  <1>. QED
    BY <1>1, <1>4, <1>5 DEF AckInv

\* A message of the phone is taken that is not counted.
LEMMA ReadInv ==
  ASSUME IInv, NEW k, Receive(k), Types',
         \/ session' = session /\ acks' = acks /\ k # "start"
         \/ session' = 0 /\ acks' = 0
         \/ session' = Head(toHu).session /\ acks' = 0 /\ k = "start",
         \A i \in DOMAIN hand' : hand'[i].kind # "ack"
  PROVE IInv'
  <1>1. /\ toHu # <<>> /\ toHu' = Tail(toHu) /\ Head(toHu).kind = k /\ phone' = phone
        /\ hand = <<>> /\ Poll(toMd)
    BY DEF Receive, ProxyFree
  <1>2. Types /\ SessionInv /\ CountInv /\ AckInv
    BY DEF IInv
  <1>3. SessionInv'
    BY <1>1, <1>2, TakenSession
  <1>4. CountInv'
    <2>1. /\ Cardinality(Unread(toHu')) <= Cardinality(Unread(toHu))
          /\ NoStart(toHu') => NoStart(toHu) \/ Head(toHu).kind = "start"
          /\ Cardinality(Unread(toHu)) \in Nat /\ Cardinality(Unread(toHu')) \in Nat
      BY <1>1, <1>2, Taken, UnreadFinite DEF Types
    <2>2. phone.sent \in Nat /\ acks \in Nat
      BY <1>2 DEF Types
    <2>. QED
      BY <1>1, <1>2, <2>1, <2>2 DEF CountInv
  <1>5. AckInv'
    <2>1. \A i \in DOMAIN toMd' : Owed(toMd[i])'
      BY <1>1, <1>2, PollOwed DEF Types, AckInv
    <2>2. \A i \in DOMAIN hand' : Owed(hand[i])'
      BY DEF Owed
    <2>. QED
      BY <2>1, <2>2 DEF AckInv
  <1>. QED
    BY <1>3, <1>4, <1>5 DEF IInv

\* A message is acknowledged with the number after the last.
LEMMA DataInv ==
  ASSUME IInv, NEW k \in {"data", "last"}, Receive(k), Types', session' = session,
         \/ acks' = acks + 1 /\ hand' = <<Ack(session, acks + 1)>>
         \/ acks' = acks /\ hand' = hand
  PROVE IInv'
  <1>1. /\ toHu # <<>> /\ toHu' = Tail(toHu) /\ Head(toHu).kind = k /\ phone' = phone
        /\ hand = <<>> /\ Poll(toMd)
    BY DEF Receive, ProxyFree
  <1>2. Types /\ SessionInv /\ CountInv /\ AckInv
    BY DEF IInv
  <1>3. SessionInv'
    BY <1>1, <1>2, TakenSession
  <1>4. /\ NoStart(toHu) => Cardinality(Unread(toHu')) = Cardinality(Unread(toHu)) - 1
        /\ Cardinality(Unread(toHu')) <= Cardinality(Unread(toHu))
        /\ NoStart(toHu') => NoStart(toHu)
        /\ Cardinality(Unread(toHu)) \in Nat /\ Cardinality(Unread(toHu')) \in Nat
    BY <1>1, <1>2, Taken, UnreadFinite DEF Types, Counts
  <1>5. phone.sent \in Nat /\ acks \in Nat /\ session \in Nat /\ phone.starts \in Nat
    BY <1>2 DEF Types
  <1>6. CountInv'
    BY <1>1, <1>2, <1>4, <1>5 DEF CountInv
  <1>7. ASSUME session = phone.starts PROVE acks + 1 <= phone.sent
    <2>1. NoStart(toHu)
      <3>1. \A i \in DOMAIN toHu : toHu[i].session \in Nat
        <4>1. \A i \in DOMAIN toHu : toHu[i] \in Messages
          BY <1>2 DEF Types
        <4>. QED
          BY <4>1 DEF Messages
      <3>. QED
        BY <1>2, <1>5, <1>7, <3>1 DEF NoStart, SessionInv
    <2>. QED
      BY <1>2, <1>4, <1>5, <2>1 DEF CountInv
  <1>8. AckInv'
    <2>1. \A i \in DOMAIN toMd' : Owed(toMd[i])'
      BY <1>1, <1>2, PollOwed DEF Types, AckInv
    <2>2. ASSUME NEW i \in DOMAIN hand' PROVE Owed(hand[i])'
      <3>1. CASE hand' = hand
        BY <1>1, <3>1, <2>2
      <3>2. CASE hand' = <<Ack(session, acks + 1)>>
        <4>1. hand'[i] = Ack(session, acks + 1)
          BY <3>2, <2>2
        <4>2. hand'[i].session = session /\ hand'[i].n = acks + 1
          BY <1>5, <4>1, MessageTypes
        <4>. QED
          BY <1>1, <1>2, <1>7, <4>2 DEF Owed, SessionInv
      <3>. QED
        BY <3>1, <3>2
    <2>. QED
      BY <2>1, <2>2 DEF AckInv
  <1>. QED
    BY <1>3, <1>6, <1>8 DEF IInv

LEMMA ReceiveTypes ==
  ASSUME Types, NEW k, Receive(k), session' \in Nat, acks' \in Nat,
         hand' = hand \/ \E m \in Messages : hand' = <<m>>
  PROVE Types'
  <1>1. /\ toHu # <<>> /\ toHu' = Tail(toHu) /\ phone' = phone /\ toMd' = toMd \o TrySend(toMd)
    BY DEF Receive, Poll
  <1>2. toHu' \in Seq(Messages) /\ toMd' \in Seq(Messages)
    BY <1>1, Taken, Polled DEF Types
  <1>3. hand' \in Seq(Messages)
    <2>1. CASE hand' = hand
      BY <2>1 DEF Types
    <2>2. CASE \E m \in Messages : hand' = <<m>>
      BY <2>2
    <2>. QED
      BY <2>1, <2>2
  <1>. QED
    BY <1>1, <1>2, <1>3 DEF Types

LEMMA ProxyInv == ASSUME IInv, Proxy PROVE IInv'
  <1>0. Types /\ session \in Nat /\ acks \in Nat
    BY DEF IInv, Types
  <1>a. ASSUME NEW k, Receive(k)
        PROVE /\ toHu # <<>> /\ Head(toHu) \in Messages /\ Head(toHu).kind = k /\ hand = <<>>
              /\ Head(toHu).session \in Nat
    <2>1. toHu # <<>> /\ Head(toHu).kind = k /\ hand = <<>>
      BY <1>a DEF Receive, ProxyFree
    <2>2. Head(toHu) \in Messages
      BY <1>0, <2>1, Taken DEF Types
    <2>. QED
      BY <2>1, <2>2 DEF Messages
  <1>b. ASSUME NEW m \in Messages, m.kind # "ack", hand' = <<m>> PROVE \A i \in DOMAIN hand' : hand'[i].kind # "ack"
    BY <1>b
  <1>1. CASE OpenRequest
    <2>1. /\ Receive("open") /\ hand' = <<Msg("opened")>> /\ session' = session /\ acks' = acks
          /\ Msg("opened") \in Messages /\ Msg("opened").kind = "opened"
      BY <1>1, MessageTypes DEF OpenRequest, mediaVars
    <2>2. Types'
      BY <1>0, <2>1, ReceiveTypes
    <2>3. \A i \in DOMAIN hand' : hand'[i].kind # "ack"
      BY <1>b, <2>1
    <2>. QED
      BY <2>1, <2>2, <2>3, ReadInv
  <1>2. CASE SetupMessage
    <2>1. /\ Receive("setup") /\ hand' = <<Msg("config")>> /\ session' = 0 /\ acks' = 0
          /\ Msg("config") \in Messages /\ Msg("config").kind = "config"
      BY <1>2, MessageTypes DEF SetupMessage
    <2>2. Types'
      BY <1>0, <2>1, ReceiveTypes
    <2>3. \A i \in DOMAIN hand' : hand'[i].kind # "ack"
      BY <1>b, <2>1
    <2>. QED
      BY <2>1, <2>2, <2>3, ReadInv
  <1>3. CASE StartMessage
    <2>1. Receive("start") /\ hand' = hand /\ session' = Head(toHu).session /\ acks' = 0
      BY <1>3 DEF StartMessage
    <2>2. Types'
      BY <1>0, <1>a, <2>1, ReceiveTypes
    <2>3. \A i \in DOMAIN hand' : hand'[i].kind # "ack"
      BY <1>a, <2>1
    <2>. QED
      BY <2>1, <2>2, <2>3, ReadInv
  <1>4. CASE FirstPart
    <2>1. Receive("first") /\ hand' = hand /\ session' = session /\ acks' = acks
      BY <1>4 DEF FirstPart
    <2>2. Types'
      BY <1>0, <2>1, ReceiveTypes
    <2>3. \A i \in DOMAIN hand' : hand'[i].kind # "ack"
      BY <1>a, <2>1
    <2>. QED
      BY <2>1, <2>2, <2>3, ReadInv
  <1>5. CASE DataMessage
    <2>1. PICK k \in {"data", "last"} : Receive(k)
      BY <1>5 DEF DataMessage
    <2>2. /\ session' = session
          /\ \/ acks' = acks + 1 /\ hand' = <<Ack(session, acks + 1)>>
             \/ acks' = acks /\ hand' = hand
      BY <1>5 DEF DataMessage
    <2>3. Ack(session, acks + 1) \in Messages
      BY <1>0, MessageTypes
    <2>4. Types'
      BY <1>0, <2>1, <2>2, <2>3, ReceiveTypes
    <2>. QED
      BY <2>1, <2>2, <2>4, DataInv
  <1>6. CASE StopMessage
    <2>1. Receive("stop") /\ hand' = hand /\ session' = 0 /\ acks' = 0
      BY <1>6 DEF StopMessage
    <2>2. Types'
      BY <1>0, <2>1, ReceiveTypes
    <2>3. \A i \in DOMAIN hand' : hand'[i].kind # "ack"
      BY <1>a, <2>1
    <2>. QED
      BY <2>1, <2>2, <2>3, ReadInv
  <1>7. CASE FocusRequest
    <2>1. Receive("ask") /\ session' = session /\ acks' = acks
      BY <1>7 DEF FocusRequest
    <2>2. PICK m \in Messages : m.kind # "ack" /\ hand' = <<m>>
      <3>1. hand' = <<Focus(Head(toHu).focus)>>
        BY <1>7 DEF FocusRequest
      <3>2. Head(toHu).focus \in {"none", "native", "projected"}
        BY <1>a, <2>1 DEF Messages
      <3>3. Focus(Head(toHu).focus) \in Messages /\ Focus(Head(toHu).focus).kind = "focus"
        BY <3>2, MessageTypes
      <3>. QED
        BY <3>1, <3>3
    <2>3. Types'
      BY <1>0, <2>1, <2>2, ReceiveTypes
    <2>4. \A i \in DOMAIN hand' : hand'[i].kind # "ack"
      BY <1>b, <2>2
    <2>. QED
      BY <2>1, <2>3, <2>4, ReadInv
  <1>8. CASE SendReply
    <2>. DEFINE q == Append(toMd, hand[1])
    <2>1. /\ hand # <<>> /\ hand' = <<>> /\ toHu' = toHu /\ phone' = phone
          /\ session' = session /\ acks' = acks
          /\ Poll(q) \/ toMd' = q
      BY <1>8 DEF SendReply, mediaVars
    <2>2. hand[1] \in Messages /\ Owed(hand[1])
      BY <2>1, EmptySeq DEF IInv, Types, AckInv
    <2>3. /\ q \in Seq(Messages) /\ Len(q) = Len(toMd) + 1
          /\ \A i \in 1..Len(toMd) : q[i] = toMd[i]
          /\ q[Len(toMd) + 1] = hand[1]
      BY <1>0, <2>2, AppendProperties DEF Types
    <2>4. \A i \in DOMAIN q : Owed(q[i])
      <3>1. \A i \in DOMAIN q : q[i] = hand[1] \/ \E j \in DOMAIN toMd : q[i] = toMd[j]
        <4>1. DOMAIN q = 1..Len(toMd) + 1 /\ DOMAIN toMd = 1..Len(toMd) /\ Len(toMd) \in Nat
          BY <1>0, <2>3 DEF Types
        <4>. HIDE DEF q
        <4>. QED
          BY <2>3, <4>1
      <3>. QED
        BY <2>2, <3>1 DEF IInv, AckInv
    <2>. HIDE DEF q
    <2>5. toMd' \in Seq(Messages) /\ \A i \in DOMAIN toMd' : Owed(toMd[i])'
      <3>1. CASE Poll(q)
        BY <2>1, <2>3, <2>4, <3>1, PollOwed
      <3>2. CASE toMd' = q
        BY <2>1, <2>3, <2>4, <3>2 DEF Owed
      <3>. QED
        BY <2>1, <3>1, <3>2
    <2>6. Types'
      BY <1>0, <2>1, <2>5, EmptySeq DEF Types
    <2>7. SessionInv' /\ CountInv'
      BY <2>1 DEF IInv, SessionInv, CountInv
    <2>8. AckInv'
      BY <2>1, <2>5 DEF AckInv
    <2>. QED
      BY <2>6, <2>7, <2>8 DEF IInv
  <1>. QED
    BY <1>1, <1>2, <1>3, <1>4, <1>5, <1>6, <1>7, <1>8 DEF Proxy

\* The proxy's poll, and packets of others.
LEMMA OtherInv == ASSUME IInv, FocusPoll \/ Discover \/ Other PROVE IInv'
  <1>0. Types /\ SessionInv /\ CountInv /\ AckInv
    BY DEF IInv
  <1>1. /\ toHu' = toHu /\ phone' = phone /\ session' = session /\ acks' = acks
    BY DEF FocusPoll, Discover, Other, mediaVars
  <1>2. toMd' \in Seq(Messages) /\ \A i \in DOMAIN toMd' : Owed(toMd[i])'
    <2>1. CASE Poll(toMd)
      BY <1>0, <1>1, <2>1, PollOwed DEF Types, AckInv
    <2>2. CASE toMd' = toMd
      BY <1>0, <1>1, <2>2 DEF Types, AckInv, Owed
    <2>. QED
      BY <2>1, <2>2 DEF FocusPoll, Discover, Other
  <1>3. hand' = hand \/ \E m \in Messages : m.kind # "ack" /\ hand' = <<m>>
    BY MessageTypes DEF FocusPoll, Discover, Other
  <1>4. hand' \in Seq(Messages) /\ \A i \in DOMAIN hand' : Owed(hand[i])'
    <2>1. CASE hand' = hand
      BY <1>0, <1>1, <2>1 DEF Types, AckInv, Owed
    <2>2. CASE \E m \in Messages : m.kind # "ack" /\ hand' = <<m>>
      <3>1. PICK m \in Messages : m.kind # "ack" /\ hand' = <<m>>
        BY <2>2
      <3>2. hand' \in Seq(Messages) /\ \A i \in DOMAIN hand' : hand'[i].kind # "ack"
        BY <3>1
      <3>. QED
        BY <3>2 DEF Owed
    <2>. QED
      BY <1>3, <2>1, <2>2
  <1>5. Types'
    BY <1>0, <1>1, <1>2, <1>4 DEF Types
  <1>6. SessionInv' /\ CountInv' /\ AckInv'
    BY <1>0, <1>1, <1>2, <1>4 DEF SessionInv, CountInv, AckInv
  <1>. QED
    BY <1>5, <1>6 DEF IInv

\* The phone.
LEMMA PhoneInv == ASSUME IInv, Phone \/ PhoneAsks PROVE IInv'
  <1>0. Types /\ SessionInv /\ CountInv /\ AckInv
    BY DEF IInv
  <1>1. session' = session /\ acks' = acks /\ hand' = hand
    BY DEF Phone, PhoneAsks, PhoneReceives, PhoneStarts, PhoneStops, PhoneStreams, PhoneOnly, mediaVars
  <1>2. ASSUME toMd' = toMd \/ (toMd # <<>> /\ toMd' = Tail(toMd)), DOMAIN phone' = DOMAIN phone,
               phone'.starts = phone.starts, phone'.sent = phone.sent, toHu' = toHu
        PROVE IInv'
    <2>1. toMd' \in Seq(Messages) /\ AckInv'
      BY <1>0, <1>1, <1>2, StaysAckInv
    <2>2. Types'
      BY <1>0, <1>1, <1>2, <2>1 DEF Types
    <2>3. SessionInv' /\ CountInv'
      BY <1>0, <1>1, <1>2 DEF SessionInv, CountInv
    <2>. QED
      BY <2>1, <2>2, <2>3 DEF IInv
  <1>3. ASSUME toMd' = toMd \/ (toMd # <<>> /\ toMd' = Tail(toMd)), DOMAIN phone' = DOMAIN phone,
               NEW m \in Messages, m.kind # "start", Says(m), phone'.starts = phone.starts,
               phone'.sent = IF Counts(m) THEN phone.sent + 1 ELSE phone.sent
        PROVE IInv'
    <2>1. phone'.sent \in {phone.sent, phone.sent + 1} /\ phone'.sent \in Nat
      BY <1>0, <1>3 DEF Types
    <2>2. toMd' \in Seq(Messages) /\ AckInv'
      BY <1>0, <1>1, <1>3, <2>1, StaysAckInv
    <2>3. toHu' \in Seq(Messages) /\ SessionInv' /\ CountInv'
      BY <1>0, <1>1, <1>3, SaidInv DEF Says
    <2>4. Types'
      BY <1>0, <1>1, <1>3, <2>1, <2>2, <2>3 DEF Types
    <2>. QED
      BY <2>2, <2>3, <2>4 DEF IInv
  <1>4. CASE PhoneReceives
    <2>1. toMd # <<>> /\ toMd' = Tail(toMd)
      BY <1>4 DEF PhoneReceives
    <2>2. /\ DOMAIN phone' = DOMAIN phone /\ phone'.starts = phone.starts /\ phone'.sent = phone.sent
          /\ toHu' = toHu \/ Says(Msg("open")) \/ Says(Msg("setup"))
      <3>. DEFINE m == Head(toMd)
      <3>1. CASE phone' = phone /\ (toHu' = toHu \/ Says(Msg("open")) \/ Says(Msg("setup")))
        BY <3>1
      <3>2. CASE toHu' = toHu /\ \/ phone' = [phone EXCEPT !.channel = "ready"]
                                 \/ phone' = [phone EXCEPT !.focus = m.focus]
                                 \/ phone' = [phone EXCEPT !.acked = m.n]
        BY <1>0, <3>2 DEF Types
      <3>3. \/ phone' = phone /\ (toHu' = toHu \/ Says(Msg("open")) \/ Says(Msg("setup")))
            \/ toHu' = toHu /\ \/ phone' = [phone EXCEPT !.channel = "ready"]
                               \/ phone' = [phone EXCEPT !.focus = m.focus]
                               \/ phone' = [phone EXCEPT !.acked = m.n]
        BY <1>4 DEF PhoneReceives
      <3>. QED
        BY <3>1, <3>2, <3>3
    <2>3. /\ Msg("open") \in Messages /\ Msg("open").kind = "open"
          /\ Msg("setup") \in Messages /\ Msg("setup").kind = "setup"
      BY MessageTypes
    <2>4. ~Counts(Msg("open")) /\ ~Counts(Msg("setup"))
      BY <2>3 DEF Counts
    <2>. QED
      BY <1>2, <1>3, <2>1, <2>2, <2>3, <2>4
  <1>5. CASE PhoneStarts
    <2>. DEFINE s == phone.starts + 1
                m == Start(s)
    <2>1. /\ toMd' = toMd /\ toHu' = Append(toHu, m)
          /\ phone' = [phone EXCEPT !.started = TRUE, !.starts = s, !.sent = 0, !.acked = 0]
      BY <1>5 DEF PhoneStarts, Says
    <2>2. DOMAIN phone' = DOMAIN phone /\ phone'.starts = s /\ phone'.sent = 0 /\ s \in Nat
          /\ phone.starts \in Nat
      BY <1>0, <2>1 DEF Types
    <2>3. m \in Messages /\ m.kind = "start" /\ m.session = s
      BY <2>2, MessageTypes
    <2>. HIDE DEF m
    <2>4. /\ toHu' \in Seq(Messages) /\ Len(toHu') = Len(toHu) + 1 /\ Len(toHu) \in Nat
          /\ \A i \in 1..Len(toHu) : toHu'[i] = toHu[i]
          /\ toHu'[Len(toHu) + 1] = m
      BY <1>0, <2>1, <2>3, AppendProperties DEF Types
    <2>5. DOMAIN toHu = 1..Len(toHu) /\ DOMAIN toHu' = 1..Len(toHu) + 1
      BY <1>0, <2>4 DEF Types
    <2>6. Types'
      BY <1>0, <1>1, <2>1, <2>2, <2>4 DEF Types
    <2>7. SessionInv'
      <3>1. \A i \in DOMAIN toHu : toHu[i].session \in Nat
        <4>1. \A i \in DOMAIN toHu : toHu[i] \in Messages
          BY <1>0 DEF Types
        <4>. QED
          BY <4>1 DEF Messages
      <3>2. session \in Nat /\ session < s
        BY <1>0, <2>2 DEF Types, SessionInv
      <3>3. ASSUME NEW i \in DOMAIN toHu', toHu'[i].kind = "start"
            PROVE session < toHu'[i].session /\ toHu'[i].session <= s
                  /\ (i # Len(toHu) + 1 => toHu'[i].session < s)
        <4>1. CASE i = Len(toHu) + 1
          BY <2>2, <2>3, <2>4, <3>2, <4>1
        <4>2. CASE i # Len(toHu) + 1
          <5>1. i \in DOMAIN toHu /\ toHu'[i] = toHu[i]
            BY <2>4, <2>5, <4>2
          <5>. QED
            BY <1>0, <2>2, <3>1, <3>3, <5>1 DEF SessionInv
        <4>. QED
          BY <4>1, <4>2
      <3>4. ASSUME NEW i \in DOMAIN toHu', NEW j \in DOMAIN toHu',
                   toHu'[i].kind = "start", toHu'[j].kind = "start", i < j
            PROVE toHu'[i].session < toHu'[j].session
        <4>1. i \in DOMAIN toHu /\ toHu'[i] = toHu[i]
          BY <2>4, <2>5, <3>4
        <4>2. CASE j = Len(toHu) + 1
          BY <2>3, <2>4, <3>3, <3>4, <4>1, <4>2
        <4>3. CASE j # Len(toHu) + 1
          <5>1. j \in DOMAIN toHu /\ toHu'[j] = toHu[j]
            BY <2>4, <2>5, <4>3
          <5>. QED
            BY <1>0, <3>4, <4>1, <5>1 DEF SessionInv
        <4>. QED
          BY <4>2, <4>3
      <3>. QED
        BY <1>1, <2>2, <3>2, <3>3, <3>4 DEF SessionInv
    <2>8. CountInv'
      <3>1. Cardinality(Unread(toHu')) = 0 /\ ~NoStart(toHu')
        BY <1>0, <2>1, <2>3, Said DEF Types
      <3>. QED
        BY <2>2, <3>1 DEF CountInv
    <2>9. AckInv'
      <3>1. ASSUME NEW x \in Messages, Owed(x) PROVE Owed(x)'
        <4>1. x.session \in Nat
          BY DEF Messages
        <4>. QED
          BY <2>2, <3>1, <4>1 DEF Owed
      <3>2. ASSUME NEW i \in DOMAIN toMd PROVE Owed(toMd[i])'
        <4>1. toMd[i] \in Messages /\ Owed(toMd[i])
          BY <1>0 DEF Types, AckInv
        <4>. QED
          BY <2>1, <3>1, <4>1
      <3>3. ASSUME NEW i \in DOMAIN hand PROVE Owed(hand[i])'
        <4>1. hand[i] \in Messages /\ Owed(hand[i])
          BY <1>0 DEF Types, AckInv
        <4>. QED
          BY <1>1, <3>1, <4>1
      <3>. QED
        BY <1>1, <2>1, <3>2, <3>3 DEF AckInv
    <2>. QED
      BY <2>6, <2>7, <2>8, <2>9 DEF IInv
  <1>6. CASE PhoneStops
    <2>1. toMd' = toMd /\ Says(Msg("stop")) /\ phone' = [phone EXCEPT !.started = FALSE]
      BY <1>6 DEF PhoneStops
    <2>2. DOMAIN phone' = DOMAIN phone /\ phone'.starts = phone.starts /\ phone'.sent = phone.sent
      BY <1>0, <2>1 DEF Types
    <2>3. Msg("stop") \in Messages /\ Msg("stop").kind = "stop"
      BY MessageTypes
    <2>. QED
      BY <1>3, <2>1, <2>2, <2>3 DEF Counts
  <1>7. CASE PhoneStreams
    <2>0. toMd' = toMd
      BY <1>7 DEF PhoneStreams
    <2>1. CASE Says(Msg("first")) /\ phone' = [phone EXCEPT !.part = TRUE]
      <3>1. DOMAIN phone' = DOMAIN phone /\ phone'.starts = phone.starts /\ phone'.sent = phone.sent
        BY <1>0, <2>1 DEF Types
      <3>2. Msg("first") \in Messages /\ Msg("first").kind = "first"
        BY MessageTypes
      <3>. QED
        BY <1>3, <2>0, <2>1, <3>1, <3>2 DEF Counts
    <2>2. ASSUME NEW k \in {"data", "last"}, Says(Msg(k)), Completed PROVE IInv'
      <3>1. DOMAIN phone' = DOMAIN phone /\ phone'.starts = phone.starts /\ phone'.sent = phone.sent + 1
        BY <1>0, <2>2 DEF Types, Completed
      <3>2. Msg(k) \in Messages /\ Msg(k).kind = k
        BY MessageTypes
      <3>. QED
        BY <1>3, <2>0, <2>2, <3>1, <3>2 DEF Counts
    <2>. QED
      BY <1>7, <2>1, <2>2 DEF PhoneStreams
  <1>8. CASE PhoneAsks
    <2>1. toMd' = toMd /\ Says(Ask("projected")) /\ phone' = [phone EXCEPT !.asks = @ + 1]
      BY <1>8 DEF PhoneAsks
    <2>2. DOMAIN phone' = DOMAIN phone /\ phone'.starts = phone.starts /\ phone'.sent = phone.sent
      BY <1>0, <2>1 DEF Types
    <2>3. Ask("projected") \in Messages /\ Ask("projected").kind = "ask"
      BY MessageTypes
    <2>. QED
      BY <1>3, <2>1, <2>2, <2>3 DEF Counts
  <1>. QED
    BY <1>4, <1>5, <1>6, <1>7, <1>8 DEF Phone

---------------------------------------------------------------------------
(* The theorem.                                                            *)

LEMMA InitInv == Init => IInv
  <1>. SUFFICES ASSUME Init PROVE IInv
    OBVIOUS
  <1>1. toHu = <<>> /\ toMd = <<>> /\ hand = <<>> /\ session = 0 /\ acks = 0
        /\ phone.starts = 0 /\ phone.sent = 0
        /\ DOMAIN phone = {"channel", "focus", "started", "part", "starts", "sent", "acked", "asks"}
    BY DEF Init
  <1>2. <<>> \in Seq(Messages) /\ \A i \in DOMAIN <<>> : FALSE
    BY EmptySeq
  <1>3. Unread(toHu) = {} /\ Cardinality({}) = 0
    BY <1>1, <1>2, FS_EmptySet DEF Unread
  <1>4. Types
    BY <1>1, <1>2 DEF Types
  <1>5. SessionInv /\ AckInv
    <2>1. DOMAIN toHu = {} /\ DOMAIN toMd = {} /\ DOMAIN hand = {}
      BY <1>1
    <2>. QED
      BY <1>1, <2>1 DEF SessionInv, AckInv
  <1>6. CountInv
    <2>1. Cardinality(Unread(toHu)) = 0
      BY <1>3
    <2>. QED
      BY <1>1, <2>1 DEF CountInv
  <1>. QED
    BY <1>4, <1>5, <1>6 DEF IInv

LEMMA NextInv == IInv /\ [Next]_vars => IInv'
  <1>. SUFFICES ASSUME IInv, [Next]_vars PROVE IInv'
    OBVIOUS
  <1>1. CASE UNCHANGED <<toHu, toMd, hand, session, acks, phone>>
    BY <1>1 DEF IInv, Types, SessionInv, CountInv, AckInv, Owed
  <1>2. ASSUME NEW c \in Clients, Connect(c) \/ Disconnect(c) PROVE IInv'
    BY <1>1, <1>2 DEF Connect, Disconnect, mediaVars
  <1>3. CASE UNCHANGED vars
    BY <1>1, <1>3 DEF vars, mediaVars
  <1>. QED
    BY <1>2, <1>3, ProxyInv, OtherInv, PhoneInv DEF Next

\* For any number of clients, any queue and any stream, restarted as often as it may
\* be, the phone is acknowledged no more than it has sent
\* (emulate_injected_media_packet).
THEOREM NoAckTooMany == Spec => []AcksAreOwed
  <1>1. IInv => AcksAreOwed
    BY DEF IInv, AckInv, Owed, AcksAreOwed
  <1>. QED
    BY <1>1, InitInv, NextInv, PTL DEF Spec
=============================================================================
