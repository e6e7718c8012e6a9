---------------------------- MODULE TrafficProofs ----------------------------
(***************************************************************************)
(* What is guaranteed of the traffic of a session: of its packets          *)
(* (Pipeline), for any capacity of the queues and any number of packets,   *)
(* and of call audio (CallBridge), for any number of calls and sessions,   *)
(* any channels, configuration and capacity of the rings. Pipeline names   *)
(* its specification PipelineSpec, so that both can be extended.           *)
(***************************************************************************)
EXTENDS Pipeline, CallBridge, FiniteSetTheorems, SequenceTheorems, TLAPS

---------------------------------------------------------------------------
(* Pipeline: the inductive invariant.                                      *)

\* The operations of a proxy.
Ops == {"read", "take", "send", "tls", "transmit", "forward"}

\* What may follow an operation of a plan.
Then == [read |-> {"send", "tls"}, take |-> {"transmit"}, send |-> {"take", "tls"},
         tls |-> {"transmit"}, transmit |-> {"read"}, forward |-> {}]

\* A plan ends with what it holds sent, transmitted, or used up.
WellPlanned(s) ==
    /\ s \in Seq(Ops)
    /\ \A i \in 1..Len(s) - 1 : s[i + 1] \in Then[s[i]]
    /\ s # <<>> => s[Len(s)] \notin {"read", "take"}

\* Whose packets there are.
Packets == [src : Side \cup {"none", "proxy", "inject"}, n : Nat]

FlowShape ==
    /\ mitm \in BOOLEAN
    /\ sent \in [Side -> Nat] /\ read \in [Side -> Nat]
    /\ rq \in [Side -> Seq(Packets)] /\ xq \in [Side -> Seq(Packets)]
    /\ out \in [Side -> Seq(Packets)] /\ hand \in [Side -> Packets]
    /\ DOMAIN plan = Side

\* Without mitm a proxy only relays.
PlanInv ==
    \A p \in Side :
        /\ WellPlanned(plan[p])
        /\ ~mitm => \A i \in DOMAIN plan[p] : plan[p][i] \in {"send", "forward"}

\* What a proxy holds when it is about to do op.
MayHold(p, op) ==
    IF op \in {"read", "take", "none"} THEN {"none"}
    ELSE IF op = "send" THEN {p, "proxy"}
    ELSE IF op = "tls" THEN {p, "none"}
    ELSE {Other(p), "proxy", "inject"}
NextOp(p) == IF plan[p] = <<>> THEN "none" ELSE Head(plan[p])
HandInv == \A p \in Side : hand[p].src \in MayHold(p, NextOp(p))

\* A reader's queue has packets of its end, the other those for the end.
QueueInv ==
    \A p \in Side :
        /\ \A i \in DOMAIN rq[p] : rq[p][i].src = p
        /\ \A i \in DOMAIN xq[p] : xq[p][i].src \in {Other(p), "proxy", "inject"}

\* Those in S come before those in T.
Below(S, T) == \A m \in S, n \in T : m < n

Sorted(p, s) ==
    \A i, j \in DOMAIN s : i < j /\ s[i].src = p /\ s[j].src = p => s[i].n < s[j].n

\* The parts of the way of the packets of p: at the other proxy, in its queue,
\* at the own proxy, in the queue of the reader.
Ahead(p)   == Num(p, hand[Other(p)])
Passed(p)  == Nums(p, xq[Other(p)])
Held(p)    == Num(p, hand[p])
Waiting(p) == Nums(p, rq[p])
Parts(p)   == Ahead(p) \cup Passed(p) \cup Held(p) \cup Waiting(p)

Ordered(A, B, C, D) == /\ Below(A, B) /\ Below(A, C) /\ Below(A, D)
                       /\ Below(B, C) /\ Below(B, D) /\ Below(C, D)

\* Each packet of p that was read is before those that follow it on the way.
InOrder(p) ==
    /\ read[p] <= sent[p]
    /\ Sorted(p, xq[Other(p)]) /\ Sorted(p, rq[p])
    /\ Ordered(Ahead(p), Passed(p), Held(p), Waiting(p))
    /\ Parts(p) \subseteq 1..read[p]
OrderInv == \A p \in Side : InOrder(p)

ProxyInv == FlowShape /\ PlanInv /\ HandInv /\ QueueInv

\* A step of a lossy or lossless wire for the packets of q, or none.
WireStep(q) ==
    /\ mitm' = mitm
    /\ \/ sent'[q] = sent[q] /\ Flight(q)' = Flight(q) /\ Arrived(q)' = Arrived(q)
       \/ /\ sent'[q] = sent[q] + 1 /\ Flight(q)' = Flight(q) \cup {sent'[q]}
          /\ Arrived(q)' = Arrived(q)
       \/ \E d \in Arrived(q)' :
             /\ d.n \in Flight(q) /\ \A k \in Flight(q) : d.n <= k
             /\ \A e \in Arrived(q) : e.at < d.at
             /\ Arrived(q)' = Arrived(q) \cup {d} /\ Flight(q)' = Flight(q) \ {d.n}
             /\ sent'[q] = sent[q]
       \/ /\ mitm /\ \E n \in Flight(q) : Flight(q)' = Flight(q) \ {n}
          /\ sent'[q] = sent[q] /\ Arrived(q)' = Arrived(q)

---------------------------------------------------------------------------
(* Pipeline: packets in sequences.                                         *)

\* The first packet of a sorted sequence is before the others.
LEMMA NumsHead ==
  ASSUME NEW p, NEW s \in Seq(Packets), s # <<>>
  PROVE  /\ Nums(p, s) = Num(p, Head(s)) \cup Nums(p, Tail(s))
         /\ Sorted(p, s) => Sorted(p, Tail(s)) /\ Below(Num(p, Head(s)), Nums(p, Tail(s)))
<1>1. /\ Tail(s) \in Seq(Packets) /\ Len(Tail(s)) = Len(s) - 1 /\ Len(s) \in Nat \ {0}
      /\ \A i \in DOMAIN Tail(s) : Tail(s)[i] = s[i + 1] /\ i + 1 \in DOMAIN s
      /\ Head(s) = s[1] /\ 1 \in DOMAIN s
  OBVIOUS
<1>2. ASSUME NEW i \in DOMAIN s, i # 1 PROVE i - 1 \in DOMAIN Tail(s) /\ Tail(s)[i - 1] = s[i]
  BY <1>1, <1>2
<1>3. Nums(p, s) \subseteq Num(p, Head(s)) \cup Nums(p, Tail(s))
  BY <1>1, <1>2 DEF Nums
<1>4. Num(p, Head(s)) \cup Nums(p, Tail(s)) \subseteq Nums(p, s)
  BY <1>1 DEF Nums
<1>5. ASSUME Sorted(p, s) PROVE Sorted(p, Tail(s))
  BY <1>1, <1>5 DEF Sorted
<1>6. ASSUME Sorted(p, s) PROVE Below(Num(p, Head(s)), Nums(p, Tail(s)))
  <2>. SUFFICES ASSUME NEW m \in Num(p, Head(s)), NEW i \in DOMAIN Tail(s),
                       NEW n \in Num(p, Tail(s)[i])
                PROVE  m < n
    BY DEF Below, Nums
  <2>1. 1 < i + 1
    BY <1>1
  <2>. QED
    BY <1>1, <1>6, <2>1 DEF Sorted, Num
<1>. QED
  BY <1>3, <1>4, <1>5, <1>6

\* A packet may be appended behind all others.
LEMMA NumsAppend ==
  ASSUME NEW p, NEW s \in Seq(Packets), NEW x \in Packets
  PROVE  /\ Nums(p, Append(s, x)) = Nums(p, s) \cup Num(p, x)
         /\ Sorted(p, s) /\ Below(Nums(p, s), Num(p, x)) => Sorted(p, Append(s, x))
<1>1. /\ Append(s, x) \in Seq(Packets) /\ Len(Append(s, x)) = Len(s) + 1
      /\ \A i \in DOMAIN s : i \in DOMAIN Append(s, x) /\ Append(s, x)[i] = s[i]
      /\ Append(s, x)[Len(s) + 1] = x /\ Len(s) + 1 \in DOMAIN Append(s, x)
      /\ DOMAIN Append(s, x) = DOMAIN s \cup {Len(s) + 1}
  OBVIOUS
<1>2. Nums(p, Append(s, x)) = Nums(p, s) \cup Num(p, x)
  <2>1. Nums(p, Append(s, x)) \subseteq Nums(p, s) \cup Num(p, x)
    BY <1>1 DEF Nums
  <2>2. Nums(p, s) \cup Num(p, x) \subseteq Nums(p, Append(s, x))
    BY <1>1 DEF Nums
  <2>. QED
    BY <2>1, <2>2
<1>3. ASSUME Sorted(p, s), Below(Nums(p, s), Num(p, x)) PROVE Sorted(p, Append(s, x))
  <2>. SUFFICES ASSUME NEW i \in DOMAIN Append(s, x), NEW j \in DOMAIN Append(s, x), i < j,
                       Append(s, x)[i].src = p, Append(s, x)[j].src = p
                PROVE  Append(s, x)[i].n < Append(s, x)[j].n
    BY DEF Sorted
  <2>1. i \in DOMAIN s
    BY <1>1
  <2>2. CASE j \in DOMAIN s
    BY <1>1, <1>3, <2>1, <2>2 DEF Sorted
  <2>3. CASE j = Len(s) + 1
    <3>1. s[i].n \in Nums(p, s) /\ x.n \in Num(p, x)
      BY <1>1, <2>1, <2>3 DEF Nums, Num
    <3>. QED
      BY <1>1, <1>3, <2>1, <2>3, <3>1 DEF Below
  <2>. QED
    BY <1>1, <2>2, <2>3
<1>. QED
  BY <1>2, <1>3

\* What is appended comes later than all before.
LEMMA PlacesAppend ==
  ASSUME NEW p, NEW s \in Seq(Packets), NEW x \in Packets
  PROVE  /\ x.src # p => Places(p, Append(s, x)) = Places(p, s)
         /\ x.src = p => Places(p, Append(s, x))
                           = Places(p, s) \cup {[n |-> x.n, at |-> Len(s) + 1]}
         /\ \A e \in Places(p, s) : e.at \in Nat /\ e.at < Len(s) + 1
<1>1. /\ Append(s, x) \in Seq(Packets) /\ Len(Append(s, x)) = Len(s) + 1
      /\ \A i \in DOMAIN s : Append(s, x)[i] = s[i]
      /\ Append(s, x)[Len(s) + 1] = x
      /\ DOMAIN Append(s, x) = DOMAIN s \cup {Len(s) + 1}
      /\ DOMAIN s = 1..Len(s) /\ Len(s) \in Nat
  OBVIOUS
<1>2. {j \in DOMAIN Append(s, x) : Append(s, x)[j].src = p}
        = {j \in DOMAIN s : s[j].src = p} \cup (IF x.src = p THEN {Len(s) + 1} ELSE {})
  BY <1>1
<1>3. ASSUME x.src # p PROVE Places(p, Append(s, x)) = Places(p, s)
  BY <1>1, <1>2, <1>3 DEF Places
<1>4. ASSUME x.src = p PROVE Places(p, Append(s, x))
                               = Places(p, s) \cup {[n |-> x.n, at |-> Len(s) + 1]}
  BY <1>1, <1>2, <1>4 DEF Places
<1>5. \A e \in Places(p, s) : e.at \in Nat /\ e.at < Len(s) + 1
  BY <1>1 DEF Places
<1>. QED
  BY <1>3, <1>4, <1>5

---------------------------------------------------------------------------
(* Pipeline: the plans of the proxies.                                     *)

\* The handshake reads or takes before it sends or transmits.
LEMMA HandshakeWellPlanned ==
  ASSUME NEW p \in Side PROVE WellPlanned(Handshake(p))
<1>1. CASE p = "hu"
  BY <1>1 DEF Handshake, WellPlanned, Ops, Then
<1>2. CASE p = "md"
  BY <1>2 DEF Handshake, WellPlanned, Ops, Then
<1>. QED
  BY <1>1, <1>2 DEF Side

\* So do the plans of the main loop.
LEMMA ShortPlans ==
  /\ WellPlanned(<<>>)
  /\ \A op \in {"send", "forward"} :
        WellPlanned(<<op>>) /\ <<op>> # <<>> /\ Head(<<op>>) = op /\ <<op>>[1] = op
          /\ DOMAIN <<op>> = {1}
  BY DEF WellPlanned, Ops

\* What is left of a plan is one.
LEMMA PlanTail ==
  ASSUME NEW s, WellPlanned(s), s # <<>>
  PROVE  /\ WellPlanned(Tail(s)) /\ Head(s) \in Ops
         /\ Tail(s) # <<>> => Head(Tail(s)) \in Then[Head(s)]
         /\ Tail(s) = <<>> => Head(s) \notin {"read", "take"}
         /\ Tail(s) = <<>> <=> ~(Len(s) > 1)
         /\ \A i \in DOMAIN Tail(s) : i + 1 \in DOMAIN s /\ Tail(s)[i] = s[i + 1]
         /\ 1 \in DOMAIN s /\ s[1] = Head(s)
<1>1. /\ s \in Seq(Ops) /\ Tail(s) \in Seq(Ops) /\ Len(Tail(s)) = Len(s) - 1
      /\ Len(s) \in Nat \ {0}
      /\ \A i \in DOMAIN Tail(s) : Tail(s)[i] = s[i + 1] /\ i + 1 \in DOMAIN s
      /\ Head(s) = s[1] /\ 1 \in DOMAIN s /\ Head(s) \in Ops
  BY DEF WellPlanned
<1>2. /\ \A i \in 1..Len(s) - 1 : s[i + 1] \in Then[s[i]]
      /\ s[Len(s)] \notin {"read", "take"}
  BY DEF WellPlanned
<1>3. Tail(s) # <<>> => Head(Tail(s)) = s[2] /\ Len(s) > 1
  BY <1>1
<1>4. Tail(s) # <<>> => Head(Tail(s)) \in Then[Head(s)]
  BY <1>1, <1>2, <1>3
<1>5. Tail(s) = <<>> <=> Len(s) = 1
  BY <1>1, EmptySeq
<1>6. WellPlanned(Tail(s))
  <2>1. \A i \in 1..Len(Tail(s)) - 1 : Tail(s)[i + 1] \in Then[Tail(s)[i]]
    <3>. TAKE i \in 1..Len(Tail(s)) - 1
    <3>1. i \in DOMAIN Tail(s) /\ i + 1 \in DOMAIN Tail(s) /\ i + 1 \in 1..Len(s) - 1
      BY <1>1
    <3>. QED
      BY <1>1, <1>2, <3>1
  <2>2. Tail(s) # <<>> => Tail(s)[Len(Tail(s))] = s[Len(s)]
    BY <1>1
  <2>. QED
    BY <1>1, <1>2, <2>1, <2>2 DEF WellPlanned
<1>. QED
  BY <1>1, <1>2, <1>4, <1>5, <1>6

---------------------------------------------------------------------------
(* Pipeline: hands and queues.                                             *)

\* At first all hands are empty.
LEMMA FitInit == PipelineInit => ProxyInv
<1>. SUFFICES ASSUME PipelineInit PROVE ProxyInv
  OBVIOUS
<1>1. FlowShape
  <2>1. mitm \in BOOLEAN
    BY ModesAssumption DEF ModesAssumption, PipelineInit
  <2>2. None \in Packets
    BY DEF None, Packet, Packets
  <2>. QED
    BY <2>1, <2>2 DEF PipelineInit, FlowShape
<1>2. PlanInv
  BY HandshakeWellPlanned, ShortPlans DEF PipelineInit, PlanInv
<1>3. HandInv
  <2>. SUFFICES ASSUME NEW p \in Side PROVE hand[p].src \in MayHold(p, NextOp(p))
    BY DEF HandInv
  <2>1. hand[p].src = "none"
    BY DEF PipelineInit, None, Packet
  <2>2. NextOp(p) \in {"none", "read", "take"}
    BY DEF PipelineInit, NextOp, Handshake
  <2>. QED
    BY <2>1, <2>2 DEF MayHold
<1>4. QueueInv
  BY DEF PipelineInit, QueueInv
<1>. QED
  BY <1>1, <1>2, <1>3, <1>4 DEF ProxyInv

\* What a proxy does next follows what it did.
LEMMA Proceeding ==
  ASSUME FlowShape, PlanInv, NEW p \in Side, plan[p] # <<>>, Proceed(p), UNCHANGED mitm
  PROVE  /\ PlanInv' /\ DOMAIN plan' = Side
         /\ \A r \in Side : r # p => NextOp(r)' = NextOp(r)
         /\ NextOp(p) = Head(plan[p]) /\ NextOp(p) \in Ops
         /\ NextOp(p)' # "none" => NextOp(p)' \in Then[NextOp(p)]
         /\ NextOp(p)' = "none" => NextOp(p) \notin {"read", "take"}
         /\ NextOp(p)' = "none" <=> ~(Len(plan[p]) > 1)
         /\ ~mitm => NextOp(p) \in {"send", "forward"}
<1>1. /\ plan' = [plan EXCEPT ![p] = Tail(@)] /\ DOMAIN plan = Side
      /\ \A r \in Side : WellPlanned(plan[r])
      /\ ~mitm => \A r \in Side : \A i \in DOMAIN plan[r] : plan[r][i] \in {"send", "forward"}
  BY DEF Proceed, FlowShape, PlanInv
<1>2. /\ plan'[p] = Tail(plan[p]) /\ \A r \in Side : r # p => plan'[r] = plan[r]
      /\ DOMAIN plan' = Side
  BY <1>1
<1>3. /\ WellPlanned(Tail(plan[p])) /\ Head(plan[p]) \in Ops
      /\ Tail(plan[p]) # <<>> => Head(Tail(plan[p])) \in Then[Head(plan[p])]
      /\ Tail(plan[p]) = <<>> => Head(plan[p]) \notin {"read", "take"}
      /\ Tail(plan[p]) = <<>> <=> ~(Len(plan[p]) > 1)
      /\ \A i \in DOMAIN Tail(plan[p]) :
            i + 1 \in DOMAIN plan[p] /\ Tail(plan[p])[i] = plan[p][i + 1]
      /\ 1 \in DOMAIN plan[p] /\ plan[p][1] = Head(plan[p])
  BY <1>1, PlanTail
<1>4. PlanInv'
  BY <1>1, <1>2, <1>3, Zenon DEF PlanInv
<1>5. NextOp(p) = Head(plan[p]) /\ NextOp(p)' = IF Tail(plan[p]) = <<>> THEN "none"
                                               ELSE Head(Tail(plan[p]))
  BY <1>2 DEF NextOp
<1>6. Tail(plan[p]) # <<>> => Head(Tail(plan[p])) # "none"
  BY <1>3 DEF Ops, Then
<1>7. \A r \in Side : r # p => NextOp(r)' = NextOp(r)
  BY <1>2 DEF NextOp
<1>. QED
  BY <1>1, <1>2, <1>3, <1>4, <1>5, <1>6, <1>7

\* The main loop makes a plan for one packet.
LEMMA Beginning ==
  ASSUME FlowShape, PlanInv, NEW p \in Side, NEW op \in {"send", "forward"}, plan[p] = <<>>,
         plan' = [plan EXCEPT ![p] = <<op>>], UNCHANGED mitm
  PROVE  /\ PlanInv' /\ DOMAIN plan' = Side
         /\ \A r \in Side : r # p => NextOp(r)' = NextOp(r)
         /\ NextOp(p) = "none" /\ NextOp(p)' = op
<1>1. /\ DOMAIN plan = Side /\ \A r \in Side : WellPlanned(plan[r])
      /\ ~mitm => \A r \in Side : \A i \in DOMAIN plan[r] : plan[r][i] \in {"send", "forward"}
  BY DEF FlowShape, PlanInv
<1>2. /\ plan'[p] = <<op>> /\ \A r \in Side : r # p => plan'[r] = plan[r]
      /\ DOMAIN plan' = Side
  BY <1>1
<1>3. /\ WellPlanned(<<op>>) /\ <<op>> # <<>> /\ Head(<<op>>) = op
      /\ <<op>>[1] = op /\ DOMAIN <<op>> = {1}
  BY ShortPlans
<1>4. \A i \in DOMAIN <<op>> : <<op>>[i] \in {"send", "forward"}
  BY <1>3
<1>5. PlanInv'
  BY <1>1, <1>2, <1>3, <1>4, Zenon DEF PlanInv
<1>6. NextOp(p) = "none" /\ NextOp(p)' = op
  BY <1>2, <1>3 DEF NextOp
<1>7. \A r \in Side : r # p => NextOp(r)' = NextOp(r)
  BY <1>2 DEF NextOp
<1>. QED
  BY <1>2, <1>5, <1>6, <1>7

\* Taking a packet from a queue keeps what its packets share, ...
LEMMA Popped ==
  ASSUME NEW s \in Seq(Packets), s # <<>>, NEW Q
  PROVE  /\ Head(s) \in Packets /\ Tail(s) \in Seq(Packets)
         /\ (\A i \in DOMAIN s : s[i].src \in Q)
              => Head(s).src \in Q /\ \A i \in DOMAIN Tail(s) : Tail(s)[i].src \in Q
<1>1. /\ Head(s) \in Packets /\ Tail(s) \in Seq(Packets) /\ Head(s) = s[1] /\ 1 \in DOMAIN s
      /\ \A i \in DOMAIN Tail(s) : Tail(s)[i] = s[i + 1] /\ i + 1 \in DOMAIN s
  OBVIOUS
<1>. QED
  BY <1>1

\* ... and so does putting one that shares it.
LEMMA Pushed ==
  ASSUME NEW s \in Seq(Packets), NEW x \in Packets, NEW Q
  PROVE  /\ Append(s, x) \in Seq(Packets)
         /\ (\A i \in DOMAIN s : s[i].src \in Q) /\ x.src \in Q
              => \A i \in DOMAIN Append(s, x) : Append(s, x)[i].src \in Q
<1>1. /\ Append(s, x) \in Seq(Packets)
      /\ \A i \in DOMAIN s : Append(s, x)[i] = s[i]
      /\ Append(s, x)[Len(s) + 1] = x /\ DOMAIN Append(s, x) = DOMAIN s \cup {Len(s) + 1}
  OBVIOUS
<1>. QED
  BY <1>1

\* A proxy's steps keep hands and queues.
LEMMA ProxyFits ==
  ASSUME ProxyInv, NEW p \in Side, Proxy(p)
  PROVE  ProxyInv'
<1>. DEFINE o == Other(p)
<1>1. /\ o \in Side /\ o # p /\ Other(o) = p /\ p \notin {"none", "proxy", "inject"}
      /\ \A r \in Side : r = p \/ r = o
      /\ o \notin {"none", "proxy", "inject"}
  BY DEF Other, Side
<1>2. FlowShape /\ PlanInv /\ HandInv /\ QueueInv
  BY DEF ProxyInv
<1>3. /\ rq[p] \in Seq(Packets) /\ xq[p] \in Seq(Packets) /\ xq[o] \in Seq(Packets)
      /\ out[p] \in Seq(Packets) /\ hand[p] \in Packets
  BY <1>1, <1>2 DEF FlowShape
<1>4. /\ \A i \in DOMAIN rq[p] : rq[p][i].src \in {p}
      /\ \A i \in DOMAIN xq[p] : xq[p][i].src \in {o, "proxy", "inject"}
      /\ \A i \in DOMAIN xq[o] : xq[o][i].src \in {p, "proxy", "inject"}
      /\ hand[p].src \in MayHold(p, NextOp(p)) /\ hand[o].src \in MayHold(o, NextOp(o))
  BY <1>1, <1>2 DEF QueueInv, HandInv
<1>5. None \in Packets /\ None.src = "none" /\ Reply \in Packets /\ Reply.src = "proxy"
  BY DEF None, Reply, Packet, Packets
<1>6. ASSUME PopReader(p)
      PROVE  /\ rq' \in [Side -> Seq(Packets)] /\ Head(rq[p]) \in Packets /\ Head(rq[p]).src = p
             /\ \A r \in Side : \A i \in DOMAIN rq'[r] : rq'[r][i].src = r
  <2>1. /\ rq[p] # <<>> /\ rq \in [Side -> Seq(Packets)]
        /\ rq' = [rq EXCEPT ![p] = Tail(rq[p])]
    BY <1>2, <1>6 DEF PopReader, FlowShape
  <2>2. /\ Head(rq[p]) \in Packets /\ Tail(rq[p]) \in Seq(Packets) /\ Head(rq[p]).src \in {p}
        /\ \A i \in DOMAIN Tail(rq[p]) : Tail(rq[p])[i].src \in {p}
    BY <1>3, <1>4, <2>1, Popped
  <2>3. rq'[p] = Tail(rq[p]) /\ rq'[o] = rq[o]
    BY <1>1, <2>1
  <2>. QED
    BY <1>1, <1>2, <2>1, <2>2, <2>3 DEF QueueInv
<1>7. ASSUME PopOther(p)
      PROVE  /\ xq' \in [Side -> Seq(Packets)] /\ Head(xq[p]) \in Packets
             /\ Head(xq[p]).src \in {o, "proxy", "inject"}
             /\ \A r \in Side : \A i \in DOMAIN xq'[r] :
                   xq'[r][i].src \in {Other(r), "proxy", "inject"}
  <2>1. /\ xq[p] # <<>> /\ xq \in [Side -> Seq(Packets)]
        /\ xq' = [xq EXCEPT ![p] = Tail(xq[p])]
    BY <1>2, <1>7 DEF PopOther, FlowShape
  <2>2. /\ Head(xq[p]) \in Packets /\ Tail(xq[p]) \in Seq(Packets)
        /\ Head(xq[p]).src \in {o, "proxy", "inject"}
        /\ \A i \in DOMAIN Tail(xq[p]) : Tail(xq[p])[i].src \in {o, "proxy", "inject"}
    BY <1>3, <1>4, <2>1, Popped
  <2>3. xq'[p] = Tail(xq[p]) /\ xq'[o] = xq[o]
    BY <1>1, <2>1
  <2>. QED
    BY <1>1, <1>2, <2>1, <2>2, <2>3 DEF QueueInv
<1>8. ASSUME NEW x \in Packets, Hold(p, x), x.src \in MayHold(p, NextOp(p)'),
             \A r \in Side : r # p => NextOp(r)' = NextOp(r)
      PROVE  hand' \in [Side -> Packets] /\ HandInv'
  <2>1. hand'[p] = x /\ hand'[o] = hand[o] /\ hand' \in [Side -> Packets]
    BY <1>1, <1>2, <1>8 DEF Hold, FlowShape
  <2>2. hand'[o].src \in MayHold(o, NextOp(o)')
    BY <1>1, <1>4, <1>8, <2>1
  <2>. QED
    BY <1>1, <1>8, <2>1, <2>2 DEF HandInv, MayHold
<1>9. CASE Read(p)
  <2>1. /\ plan[p] # <<>> /\ Head(plan[p]) = "read" /\ PopReader(p) /\ Hold(p, Head(rq[p]))
        /\ Proceed(p) /\ UNCHANGED <<mitm, sent, read, xq, out>>
    BY <1>9 DEF Read, Doing
  <2>2. /\ PlanInv' /\ DOMAIN plan' = Side /\ NextOp(p)' \in {"send", "tls"}
        /\ \A r \in Side : r # p => NextOp(r)' = NextOp(r)
    BY <1>2, <2>1, Proceeding DEF Then
  <2>3. hand' \in [Side -> Packets] /\ HandInv'
    BY <1>6, <1>8, <2>1, <2>2 DEF MayHold
  <2>. QED
    BY <1>2, <1>6, <2>1, <2>2, <2>3 DEF ProxyInv, FlowShape, QueueInv
<1>10. CASE Take(p)
  <2>1. /\ plan[p] # <<>> /\ Head(plan[p]) = "take" /\ PopOther(p) /\ Hold(p, Head(xq[p]))
        /\ Proceed(p) /\ UNCHANGED <<mitm, sent, read, rq, out>>
    BY <1>10 DEF Take, Doing
  <2>2. /\ PlanInv' /\ DOMAIN plan' = Side /\ NextOp(p)' = "transmit"
        /\ \A r \in Side : r # p => NextOp(r)' = NextOp(r)
    BY <1>2, <2>1, Proceeding DEF Then
  <2>3. hand' \in [Side -> Packets] /\ HandInv'
    BY <1>7, <1>8, <2>1, <2>2 DEF MayHold
  <2>. QED
    BY <1>2, <1>7, <2>1, <2>2, <2>3 DEF ProxyInv, FlowShape, QueueInv
<1>11. CASE Tls(p)
  <2>1. /\ plan[p] # <<>> /\ Head(plan[p]) = "tls" /\ Proceed(p)
        /\ Hold(p, IF Len(plan[p]) > 1 THEN Reply ELSE None)
        /\ UNCHANGED <<mitm, sent, read, rq, xq, out>>
    BY <1>11 DEF Tls, Doing, queueVars
  <2>2. /\ PlanInv' /\ DOMAIN plan' = Side
        /\ NextOp(p)' = (IF Len(plan[p]) > 1 THEN "transmit" ELSE "none")
        /\ \A r \in Side : r # p => NextOp(r)' = NextOp(r)
    BY <1>2, <2>1, Proceeding DEF Then
  <2>3. hand' \in [Side -> Packets] /\ HandInv'
    BY <1>5, <1>8, <2>1, <2>2 DEF MayHold
  <2>. QED
    BY <1>2, <2>1, <2>2, <2>3 DEF ProxyInv, FlowShape, QueueInv
<1>12. CASE Send(p)
  <2>1. /\ plan[p] # <<>> /\ Head(plan[p]) = "send" /\ Proceed(p) /\ Hold(p, None)
        /\ xq' = [xq EXCEPT ![o] = Append(xq[o], hand[p])]
        /\ UNCHANGED <<mitm, sent, read, rq, out>>
    BY <1>12 DEF Send, Doing
  <2>2. /\ PlanInv' /\ DOMAIN plan' = Side /\ NextOp(p)' \in {"none", "take", "tls"}
        /\ \A r \in Side : r # p => NextOp(r)' = NextOp(r) /\ NextOp(p) = "send"
    BY <1>2, <2>1, Proceeding DEF Then
  <2>3. hand' \in [Side -> Packets] /\ HandInv'
    BY <1>5, <1>8, <2>1, <2>2 DEF MayHold
  <2>4. NextOp(p) = "send"
    BY <2>1 DEF NextOp
  <2>5. hand[p].src \in {p, "proxy", "inject"}
    BY <1>4, <2>4 DEF MayHold
  <2>6. /\ Append(xq[o], hand[p]) \in Seq(Packets)
        /\ \A i \in DOMAIN Append(xq[o], hand[p]) :
              Append(xq[o], hand[p])[i].src \in {p, "proxy", "inject"}
    BY <1>3, <1>4, <2>5, Pushed
  <2>7. xq'[o] = Append(xq[o], hand[p]) /\ xq'[p] = xq[p] /\ xq' \in [Side -> Seq(Packets)]
    BY <1>1, <1>2, <2>1, <2>6 DEF FlowShape
  <2>8. QueueInv'
    BY <1>1, <1>2, <2>1, <2>6, <2>7 DEF QueueInv
  <2>. QED
    BY <1>2, <2>1, <2>2, <2>3, <2>7, <2>8 DEF ProxyInv, FlowShape
<1>13. CASE Transmit(p)
  <2>1. /\ plan[p] # <<>> /\ Head(plan[p]) \in {"transmit", "forward"} /\ Proceed(p)
        /\ Hold(p, None) /\ out' = [out EXCEPT ![p] = Append(out[p], hand[p])]
        /\ UNCHANGED <<mitm, sent, read, rq, xq>>
    BY <1>13 DEF Transmit, Doing, queueVars
  <2>2. /\ PlanInv' /\ DOMAIN plan' = Side /\ NextOp(p)' \in {"none", "read"}
        /\ \A r \in Side : r # p => NextOp(r)' = NextOp(r)
    BY <1>2, <2>1, Proceeding DEF Then
  <2>3. hand' \in [Side -> Packets] /\ HandInv'
    BY <1>5, <1>8, <2>1, <2>2 DEF MayHold
  <2>4. out' \in [Side -> Seq(Packets)]
    BY <1>2, <1>3, <2>1 DEF FlowShape
  <2>. QED
    BY <1>2, <2>1, <2>2, <2>3, <2>4 DEF ProxyInv, FlowShape, QueueInv
<1>14. ASSUME plan[p] = <<>>, UNCHANGED <<hand, plan, mitm>>
       PROVE  PlanInv' /\ HandInv' /\ DOMAIN plan' = Side /\ hand' \in [Side -> Packets]
  BY <1>2, <1>14 DEF PlanInv, HandInv, NextOp, FlowShape
<1>15. ASSUME plan[p] = <<>>, NEW op \in {"send", "forward"}, NEW x \in Packets,
              Begin(p, op, x), x.src \in MayHold(p, op), UNCHANGED mitm
       PROVE  PlanInv' /\ HandInv' /\ DOMAIN plan' = Side /\ hand' \in [Side -> Packets]
  <2>1. Hold(p, x) /\ plan' = [plan EXCEPT ![p] = <<op>>]
    BY <1>15 DEF Begin
  <2>2. /\ PlanInv' /\ DOMAIN plan' = Side /\ NextOp(p)' = op
        /\ \A r \in Side : r # p => NextOp(r)' = NextOp(r)
    BY <1>2, <1>15, <2>1, Beginning
  <2>. QED
    BY <1>8, <1>15, <2>1, <2>2
<1>16. CASE FromOther(p)
  <2>1. plan[p] = <<>> /\ PopOther(p) /\ UNCHANGED <<mitm, sent, read, rq, out>>
    BY <1>16 DEF FromOther
  <2>2. PlanInv' /\ HandInv' /\ DOMAIN plan' = Side /\ hand' \in [Side -> Packets]
    <3>1. CASE Begin(p, "forward", Head(xq[p]))
      <4>1. Head(xq[p]).src \in MayHold(p, "forward")
        BY <1>7, <2>1 DEF MayHold
      <4>. QED
        BY <1>7, <1>15, <2>1, <3>1, <4>1
    <3>2. CASE UNCHANGED <<hand, plan>>
      BY <1>14, <2>1, <3>2
    <3>3. CASE Begin(p, "send", Reply)
      <4>1. Reply.src \in MayHold(p, "send")
        BY <1>5 DEF MayHold
      <4>. QED
        BY <1>5, <1>15, <2>1, <3>3, <4>1
    <3>. QED
      BY <1>16, <3>1, <3>2, <3>3 DEF FromOther
  <2>. QED
    BY <1>2, <1>7, <2>1, <2>2 DEF ProxyInv, FlowShape, QueueInv
<1>17. CASE FromReader(p)
  <2>1. plan[p] = <<>> /\ PopReader(p) /\ UNCHANGED <<mitm, sent, read, xq, out>>
    BY <1>17 DEF FromReader
  <2>2. PlanInv' /\ HandInv' /\ DOMAIN plan' = Side /\ hand' \in [Side -> Packets]
    <3>1. CASE Begin(p, "send", Head(rq[p]))
      <4>1. Head(rq[p]).src \in MayHold(p, "send")
        BY <1>6, <2>1 DEF MayHold
      <4>. QED
        BY <1>6, <1>15, <2>1, <3>1, <4>1
    <3>2. CASE UNCHANGED <<hand, plan>>
      BY <1>14, <2>1, <3>2
    <3>. QED
      BY <1>17, <3>1, <3>2 DEF FromReader
  <2>. QED
    BY <1>2, <1>6, <2>1, <2>2 DEF ProxyInv, FlowShape, QueueInv
<1>. QED
  BY <1>9, <1>10, <1>11, <1>12, <1>13, <1>16, <1>17 DEF Proxy

\* Every step keeps the proxies' hands and queues.
LEMMA StepFits ==
  ASSUME ProxyInv, [PipelineNext]_pipelineVars
  PROVE  ProxyInv'
<1>1. CASE UNCHANGED pipelineVars
  BY <1>1 DEF pipelineVars, queueVars, proxyVars, ProxyInv, FlowShape, PlanInv, HandInv, NextOp,
              QueueInv
<1>2. ASSUME NEW p \in Side, Proxy(p) PROVE ProxyInv'
  BY <1>2, ProxyFits
<1>3. ASSUME NEW p \in Side, EndSends(p) PROVE ProxyInv'
  BY <1>3 DEF EndSends, queueVars, proxyVars, ProxyInv, FlowShape, PlanInv, HandInv, NextOp,
              QueueInv
<1>4. ASSUME NEW p \in Side, ReadPacket(p) PROVE ProxyInv'
  <2>1. /\ read \in [Side -> Nat] /\ rq \in [Side -> Seq(Packets)]
        /\ read' = [read EXCEPT ![p] = read[p] + 1]
        /\ rq' = [rq EXCEPT ![p] = Append(rq[p], Packet(p, read'[p]))]
        /\ UNCHANGED <<mitm, sent, xq, proxyVars>>
    BY <1>4 DEF ReadPacket, ProxyInv, FlowShape
  <2>2. Packet(p, read'[p]) \in Packets /\ Packet(p, read'[p]).src \in {p}
    BY <2>1 DEF Packet, Packets
  <2>3. \A i \in DOMAIN rq[p] : rq[p][i].src \in {p}
    BY DEF ProxyInv, QueueInv
  <2>4. /\ Append(rq[p], Packet(p, read'[p])) \in Seq(Packets)
        /\ \A i \in DOMAIN Append(rq[p], Packet(p, read'[p])) :
              Append(rq[p], Packet(p, read'[p]))[i].src \in {p}
    BY <2>1, <2>2, <2>3, Pushed
  <2>5. /\ rq' \in [Side -> Seq(Packets)] /\ read' \in [Side -> Nat]
        /\ rq'[p] = Append(rq[p], Packet(p, read'[p]))
        /\ \A r \in Side : r # p => rq'[r] = rq[r]
    BY <2>1, <2>4 DEF Parts
  <2>6. \A r \in Side : \A i \in DOMAIN rq'[r] : rq'[r][i].src = r
    <3>. TAKE r \in Side
    <3>1. CASE r = p
      BY <2>4, <2>5, <3>1
    <3>2. CASE r # p
      BY <2>5, <3>2 DEF ProxyInv, QueueInv
    <3>. QED
      BY <3>1, <3>2
  <2>. QED
    BY <2>1, <2>5, <2>6 DEF proxyVars, ProxyInv, FlowShape, PlanInv, HandInv, NextOp, QueueInv
<1>5. CASE Inject
  <2>1. /\ xq \in [Side -> Seq(Packets)]
        /\ xq' = [xq EXCEPT !["md"] = Append(xq["md"], Packet("inject", 0))]
        /\ UNCHANGED <<mitm, sent, read, rq, proxyVars>>
    BY <1>5 DEF Inject, ProxyInv, FlowShape
  <2>2. Packet("inject", 0) \in Packets /\ Packet("inject", 0).src \in {"hu", "proxy", "inject"}
    BY DEF Packet, Packets
  <2>3. \A i \in DOMAIN xq["md"] : xq["md"][i].src \in {"hu", "proxy", "inject"}
    BY DEF ProxyInv, QueueInv, Side, Other
  <2>4. /\ Append(xq["md"], Packet("inject", 0)) \in Seq(Packets)
        /\ \A i \in DOMAIN Append(xq["md"], Packet("inject", 0)) :
              Append(xq["md"], Packet("inject", 0))[i].src \in {"hu", "proxy", "inject"}
    BY <2>1, <2>2, <2>3, Pushed DEF Side
  <2>5. /\ xq' \in [Side -> Seq(Packets)] /\ xq'["hu"] = xq["hu"]
        /\ xq'["md"] = Append(xq["md"], Packet("inject", 0))
    BY <2>1, <2>4 DEF Side
  <2>6. \A r \in Side : \A i \in DOMAIN xq'[r] : xq'[r][i].src \in {Other(r), "proxy", "inject"}
    BY <2>4, <2>5 DEF ProxyInv, QueueInv, Side, Other
  <2>. QED
    BY <2>1, <2>5, <2>6 DEF proxyVars, ProxyInv, FlowShape, PlanInv, HandInv, NextOp, QueueInv
<1>6. CASE StallCheck \/ TaskFails
  BY <1>6 DEF StallCheck, TaskFails, queueVars, proxyVars, ProxyInv, FlowShape, PlanInv, HandInv,
              NextOp, QueueInv
<1>. QED
  BY <1>1, <1>2, <1>3, <1>4, <1>5, <1>6 DEF PipelineNext

---------------------------------------------------------------------------
(* Pipeline: the order of the packets.                                     *)

\* What is on the way was read, or not.
LEMMA FlightParts ==
  ASSUME NEW q
  PROVE  Flight(q) = Parts(q) \cup (read[q] + 1)..sent[q]
  BY DEF Parts, Flight, Ahead, Passed, Held, Waiting

\* The parts of the way, after a step too.
LEMMA PartsAfter ==
  ASSUME NEW q \in Side
  PROVE  LET o == Other(q) IN
         /\ Ahead(q) = Num(q, hand[o]) /\ Ahead(q)' = Num(q, hand'[o])
         /\ Passed(q) = Nums(q, xq[o]) /\ Passed(q)' = Nums(q, xq'[o])
         /\ Held(q) = Num(q, hand[q]) /\ Held(q)' = Num(q, hand'[q])
         /\ Waiting(q) = Nums(q, rq[q]) /\ Waiting(q)' = Nums(q, rq'[q])
         /\ Arrived(q) = Places(q, out[o]) /\ Arrived(q)' = Places(q, out'[o])
         /\ Sorted(q, xq[o])' = Sorted(q, xq'[o]) /\ Sorted(q, rq[q])' = Sorted(q, rq'[q])
  BY Zenon DEF Ahead, Passed, Held, Waiting, Arrived, Sorted

\* The packets of q are passed on.
LEMMA PassedOn ==
  ASSUME NEW q \in Side, InOrder(q), UNCHANGED mitm,
         read'[q] = read[q], sent'[q] = sent[q], Arrived(q)' = Arrived(q),
         Sorted(q, xq[Other(q)])', Sorted(q, rq[q])',
         Ordered(Ahead(q)', Passed(q)', Held(q)', Waiting(q)'),
         Parts(q)' = Parts(q)
  PROVE  InOrder(q)' /\ WireStep(q)
<1>1. Flight(q)' = Parts(q)' \cup (read'[q] + 1)..sent'[q]
  BY FlightParts DEF Flight, Parts, Ahead, Passed, Held, Waiting
<1>2. Flight(q)' = Flight(q)
  BY <1>1, FlightParts
<1>3. InOrder(q)'
  BY DEF InOrder
<1>. QED
  BY <1>2, <1>3 DEF WireStep

\* Nothing happens to the packets of q.
LEMMA Untouched ==
  ASSUME NEW q \in Side, InOrder(q), UNCHANGED mitm,
         read'[q] = read[q], sent'[q] = sent[q], Arrived(q)' = Arrived(q),
         Sorted(q, xq[Other(q)])', Sorted(q, rq[q])',
         Ahead(q)' = Ahead(q), Passed(q)' = Passed(q), Held(q)' = Held(q), Waiting(q)' = Waiting(q)
  PROVE  InOrder(q)' /\ WireStep(q)
<1>1. Ordered(Ahead(q)', Passed(q)', Held(q)', Waiting(q)')
  BY DEF InOrder
<1>2. Parts(q)' = Parts(q)
  BY DEF Parts
<1>. QED
  BY <1>1, <1>2, PassedOn

\* One packet of q is swallowed.
LEMMA SwallowedOne ==
  ASSUME ProxyInv, NEW q \in Side, InOrder(q), UNCHANGED mitm, mitm,
         read'[q] = read[q], sent'[q] = sent[q], Arrived(q)' = Arrived(q),
         Sorted(q, xq[Other(q)])', Sorted(q, rq[q])',
         Ordered(Ahead(q)', Passed(q)', Held(q)', Waiting(q)'),
         NEW x \in Parts(q),
         Parts(q)' = Parts(q) \ {x}
  PROVE  InOrder(q)' /\ WireStep(q)
<1>1. Flight(q)' = Parts(q)' \cup (read'[q] + 1)..sent'[q]
  BY FlightParts DEF Flight, Parts, Ahead, Passed, Held, Waiting
<1>2. x \notin (read[q] + 1)..sent[q]
  <2>1. read[q] \in Nat /\ sent[q] \in Nat /\ x \in 1..read[q]
    BY DEF ProxyInv, FlowShape, InOrder
  <2>. QED
    BY <2>1
<1>3. Flight(q)' = Flight(q) \ {x} /\ x \in Flight(q)
  BY <1>1, <1>2, FlightParts
<1>4. InOrder(q)'
  BY DEF InOrder
<1>. QED
  BY <1>3, <1>4 DEF WireStep

\* The proxy of the end q keeps the packets of q in order.
LEMMA OwnProxyKeepsOrder ==
  ASSUME ProxyInv, OrderInv, NEW q \in Side, Proxy(q)
  PROVE  InOrder(q)' /\ WireStep(q)
<1>. DEFINE o == Other(q)
<1>1. o \in Side /\ o # q /\ q \notin {"none", "proxy", "inject"}
  BY DEF Other, Side
<1>2. /\ rq[q] \in Seq(Packets) /\ xq[o] \in Seq(Packets) /\ hand[q] \in Packets
      /\ DOMAIN hand = Side /\ DOMAIN rq = Side /\ DOMAIN xq = Side /\ DOMAIN out = Side
      /\ mitm \in BOOLEAN
  BY <1>1 DEF ProxyInv, FlowShape
<1>3. /\ InOrder(q) /\ Sorted(q, xq[o]) /\ Sorted(q, rq[q])
      /\ Ordered(Ahead(q), Passed(q), Held(q), Waiting(q))
  BY DEF OrderInv, InOrder
<1>4. /\ Ahead(q) = Num(q, hand[o]) /\ Ahead(q)' = Num(q, hand'[o])
      /\ Passed(q) = Nums(q, xq[o]) /\ Passed(q)' = Nums(q, xq'[o])
      /\ Held(q) = Num(q, hand[q]) /\ Held(q)' = Num(q, hand'[q])
      /\ Waiting(q) = Nums(q, rq[q]) /\ Waiting(q)' = Nums(q, rq'[q])
      /\ Arrived(q) = Places(q, out[o]) /\ Arrived(q)' = Places(q, out'[o])
      /\ Sorted(q, xq[o])' = Sorted(q, xq'[o]) /\ Sorted(q, rq[q])' = Sorted(q, rq'[q])
  BY PartsAfter
<1>5. hand[q].src \in MayHold(q, NextOp(q))
  BY DEF ProxyInv, HandInv
<1>6. Num(q, None) = {} /\ Num(q, Reply) = {}
  BY <1>1 DEF None, Reply, Packet, Num
<1>7. ASSUME NEW x, Hold(q, x) PROVE hand'[q] = x /\ hand'[o] = hand[o]
  BY <1>1, <1>2, <1>7 DEF Hold
<1>8. ASSUME PopReader(q)
      PROVE  /\ rq'[q] = Tail(rq[q]) /\ Head(rq[q]).src = q
             /\ Waiting(q) = {Head(rq[q]).n} \cup Waiting(q)' /\ Sorted(q, rq'[q])
             /\ Below({Head(rq[q]).n}, Waiting(q)')
             /\ Num(q, Head(rq[q])) = {Head(rq[q]).n}
  <2>1. rq[q] # <<>> /\ rq'[q] = Tail(rq[q]) /\ Head(rq[q]) = rq[q][1] /\ 1 \in DOMAIN rq[q]
    BY <1>2, <1>8 DEF PopReader
  <2>2. Head(rq[q]).src = q
    BY <2>1 DEF ProxyInv, QueueInv
  <2>3. Num(q, Head(rq[q])) = {Head(rq[q]).n}
    BY <2>2 DEF Num
  <2>4. /\ Nums(q, rq[q]) = Num(q, Head(rq[q])) \cup Nums(q, Tail(rq[q]))
        /\ Sorted(q, Tail(rq[q])) /\ Below(Num(q, Head(rq[q])), Nums(q, Tail(rq[q])))
    BY <1>2, <1>3, <2>1, NumsHead
  <2>. QED
    BY <1>4, <2>1, <2>2, <2>3, <2>4
<1>9. ASSUME PopOther(q) PROVE xq'[o] = xq[o]
  BY <1>1, <1>2, <1>9 DEF PopOther
<1>10. NextOp(q) \in {"none", "read", "take"} => Held(q) = {}
  BY <1>1, <1>4, <1>5 DEF MayHold, Num
\* The head of the reader's queue is taken into the hand, or dropped.
<1>11. ASSUME PopReader(q), Hold(q, Head(rq[q])), NextOp(q) \in {"none", "read"},
              UNCHANGED <<mitm, sent, read, xq, out>>
       PROVE  InOrder(q)' /\ WireStep(q)
  <2>1. /\ Ahead(q)' = Ahead(q) /\ Passed(q)' = Passed(q) /\ Held(q)' = {Head(rq[q]).n}
        /\ Held(q) = {} /\ Waiting(q) = {Head(rq[q]).n} \cup Waiting(q)'
        /\ Arrived(q)' = Arrived(q)
    BY <1>4, <1>7, <1>8, <1>10, <1>11
  <2>2. Ordered(Ahead(q)', Passed(q)', Held(q)', Waiting(q)')
    BY <1>3, <1>8, <1>11, <2>1 DEF Ordered, Below
  <2>3. Parts(q)' = Parts(q)
    BY <2>1 DEF Parts
  <2>4. Sorted(q, xq[Other(q)])' /\ Sorted(q, rq[q])'
    BY <1>3, <1>4, <1>8, <1>11
  <2>. QED
    BY <1>3, <1>11, <2>1, <2>2, <2>3, <2>4, PassedOn
<1>12. ASSUME PopReader(q), mitm, UNCHANGED <<mitm, hand, sent, read, xq, out>>
       PROVE  InOrder(q)' /\ WireStep(q)
  <2>1. /\ Ahead(q)' = Ahead(q) /\ Passed(q)' = Passed(q) /\ Held(q)' = Held(q)
        /\ Waiting(q) = {Head(rq[q]).n} \cup Waiting(q)' /\ Arrived(q)' = Arrived(q)
    BY <1>4, <1>8, <1>12
  <2>2. /\ Below(Ahead(q), Waiting(q)) /\ Below(Passed(q), Waiting(q)) /\ Below(Held(q), Waiting(q))
        /\ Ordered(Ahead(q)', Passed(q)', Held(q)', Waiting(q)')
    BY <1>3, <2>1 DEF Ordered, Below
  <2>3. Head(rq[q]).n \in Nat /\ Head(rq[q]).n \in Waiting(q)
    BY <1>3, <2>1 DEF InOrder, Parts
  <2>4. Head(rq[q]).n \notin Ahead(q) \cup Passed(q) \cup Held(q) \cup Waiting(q)'
    BY <1>8, <1>12, <2>2, <2>3 DEF Below
  <2>5. Parts(q)' = Parts(q) \ {Head(rq[q]).n}
    BY <2>1, <2>4 DEF Parts
  <2>6. Sorted(q, xq[Other(q)])' /\ Sorted(q, rq[q])'
    BY <1>3, <1>4, <1>8, <1>12
  <2>7. Head(rq[q]).n \in Parts(q)
    BY <2>3 DEF Parts
  <2>. QED
    BY <1>3, <1>12, <2>1, <2>2, <2>5, <2>6, <2>7, SwallowedOne
\* The hand holds nothing of q's before and after.
<1>13. ASSUME Held(q) = {}, Held(q)' = {}, hand'[o] = hand[o], xq'[o] = xq[o], out'[o] = out[o],
              UNCHANGED <<mitm, sent, read, rq>>
       PROVE  InOrder(q)' /\ WireStep(q)
  BY <1>3, <1>4, <1>13, Untouched
<1>14. CASE Read(q)
  BY <1>11, <1>14 DEF Read, Doing, NextOp
<1>15. CASE FromReader(q)
  <2>1. CASE Begin(q, "send", Head(rq[q]))
    BY <1>11, <1>15, <2>1 DEF FromReader, Begin, NextOp
  <2>2. CASE mitm /\ UNCHANGED <<hand, plan>>
    BY <1>12, <1>15, <2>2 DEF FromReader
  <2>. QED
    BY <1>15, <2>1, <2>2 DEF FromReader
<1>16. CASE Tls(q)
  <2>1. /\ NextOp(q) = "tls" /\ \E x \in {None, Reply} : Hold(q, x)
        /\ UNCHANGED <<mitm, sent, read, rq, xq, out>> /\ Proceed(q) /\ plan[q] # <<>>
    BY <1>16 DEF Tls, Doing, NextOp, queueVars
  <2>2. Held(q)' = {} /\ hand'[o] = hand[o]
    BY <1>4, <1>6, <1>7, <2>1
  <2>3. mitm
    BY <2>1, Proceeding DEF ProxyInv
  <2>4. CASE Held(q) = {}
    BY <1>13, <2>1, <2>2, <2>4
  <2>5. CASE Held(q) # {}
    <3>1. Held(q) = {hand[q].n} /\ hand[q].n \in Nat
      BY <1>2, <1>4, <2>5 DEF Num, Packets
    <3>2. /\ Ahead(q)' = Ahead(q) /\ Passed(q)' = Passed(q) /\ Waiting(q)' = Waiting(q)
          /\ Arrived(q)' = Arrived(q)
      BY <1>4, <2>1, <2>2
    <3>3. hand[q].n \notin Ahead(q) \cup Passed(q) \cup Waiting(q)
      BY <1>3, <3>1 DEF Ordered, Below
    <3>4. Ordered(Ahead(q)', Passed(q)', Held(q)', Waiting(q)')
      BY <1>3, <2>2, <3>1, <3>2 DEF Ordered, Below
    <3>6. Parts(q)' = Parts(q) \ {hand[q].n} /\ hand[q].n \in Parts(q)
      BY <2>2, <3>1, <3>2, <3>3 DEF Parts
    <3>5. Sorted(q, xq[Other(q)])' /\ Sorted(q, rq[q])'
      BY <1>3, <1>4, <2>1
    <3>. QED
      BY <1>3, <2>1, <2>3, <3>2, <3>4, <3>5, <3>6, SwallowedOne
  <2>. QED
    BY <2>4, <2>5
<1>17. CASE Send(q)
  <2>1. /\ xq'[o] = Append(xq[o], hand[q]) /\ Hold(q, None)
        /\ UNCHANGED <<mitm, sent, read, rq, out>>
    BY <1>1, <1>2, <1>17 DEF Send
  <2>2. Held(q)' = {} /\ hand'[o] = hand[o]
    BY <1>4, <1>6, <1>7, <2>1
  <2>3. Below(Passed(q), Held(q))
    BY <1>3 DEF Ordered
  <2>4. Passed(q)' = Passed(q) \cup Held(q) /\ Sorted(q, xq'[o])
    BY <1>2, <1>3, <1>4, <2>1, <2>3, NumsAppend
  <2>5. /\ Ahead(q)' = Ahead(q) /\ Waiting(q)' = Waiting(q) /\ Arrived(q)' = Arrived(q)
    BY <1>4, <2>1, <2>2
  <2>6. /\ Ordered(Ahead(q)', Passed(q)', Held(q)', Waiting(q)')
        /\ Parts(q)' = Parts(q)
    BY <1>3, <2>2, <2>4, <2>5 DEF Ordered, Below, Parts
  <2>7. Sorted(q, xq[Other(q)])' /\ Sorted(q, rq[q])'
    BY <1>3, <1>4, <2>1, <2>4
  <2>. QED
    BY <1>3, <2>1, <2>5, <2>6, <2>7, PassedOn
<1>18. CASE Transmit(q)
  <2>1. /\ NextOp(q) \in {"transmit", "forward"} /\ Hold(q, None) /\ out'[o] = out[o]
        /\ UNCHANGED <<mitm, sent, read, rq, xq>>
    BY <1>1, <1>2, <1>18 DEF Transmit, Doing, NextOp, queueVars
  <2>2. Held(q) = {} /\ Held(q)' = {} /\ hand'[o] = hand[o]
    BY <1>1, <1>4, <1>5, <1>6, <1>7, <2>1 DEF MayHold, Num
  <2>. QED
    BY <1>13, <2>1, <2>2
<1>19. ASSUME PopOther(q), NextOp(q) \in {"none", "take"}, UNCHANGED <<mitm, sent, read, rq, out>>,
              NEW x, Hold(q, x), x = Reply \/ x = Head(xq[q])
       PROVE  InOrder(q)' /\ WireStep(q)
  <2>1. xq[q] # <<>> /\ xq[q] \in Seq(Packets)
    BY <1>19 DEF PopOther, ProxyInv, FlowShape
  <2>2. Head(xq[q]).src # q
    BY <1>1, <2>1 DEF ProxyInv, QueueInv
  <2>3. Held(q) = {} /\ Held(q)' = {} /\ hand'[o] = hand[o] /\ xq'[o] = xq[o]
    BY <1>4, <1>6, <1>7, <1>9, <1>10, <1>19, <2>2 DEF Num
  <2>. QED
    BY <1>13, <1>19, <2>3
<1>20. CASE Take(q)
  BY <1>19, <1>20 DEF Take, Doing, NextOp
<1>21. CASE FromOther(q)
  <2>1. /\ PopOther(q) /\ NextOp(q) = "none" /\ UNCHANGED <<mitm, sent, read, rq, out>>
    BY <1>21 DEF FromOther, NextOp
  <2>2. CASE UNCHANGED <<hand, plan>>
    <3>1. Held(q) = {} /\ Held(q)' = {} /\ hand'[o] = hand[o] /\ xq'[o] = xq[o]
      BY <1>4, <1>9, <1>10, <2>1, <2>2
    <3>. QED
      BY <1>13, <2>1, <3>1
  <2>. QED
    BY <1>19, <1>21, <2>1, <2>2 DEF FromOther, Begin
<1>. QED
  BY <1>14, <1>15, <1>16, <1>17, <1>18, <1>20, <1>21 DEF Proxy

\* So does the proxy of the end they go to.
LEMMA OtherProxyKeepsOrder ==
  ASSUME ProxyInv, OrderInv, NEW q \in Side, Proxy(Other(q))
  PROVE  InOrder(q)' /\ WireStep(q)
<1>. DEFINE o == Other(q)
<1>1. o \in Side /\ o # q /\ Other(o) = q /\ q \notin {"none", "proxy", "inject"}
  BY DEF Other, Side
<1>2. /\ xq[o] \in Seq(Packets) /\ hand[o] \in Packets /\ out[o] \in Seq(Packets)
      /\ DOMAIN hand = Side /\ DOMAIN rq = Side /\ DOMAIN xq = Side /\ DOMAIN out = Side
      /\ mitm \in BOOLEAN /\ read[q] \in Nat /\ sent[q] \in Nat
  BY <1>1 DEF ProxyInv, FlowShape
<1>3. /\ InOrder(q) /\ Sorted(q, xq[o]) /\ Sorted(q, rq[q])
      /\ Ordered(Ahead(q), Passed(q), Held(q), Waiting(q))
  BY DEF OrderInv, InOrder
<1>4. /\ Ahead(q) = Num(q, hand[o]) /\ Ahead(q)' = Num(q, hand'[o])
      /\ Passed(q) = Nums(q, xq[o]) /\ Passed(q)' = Nums(q, xq'[o])
      /\ Held(q) = Num(q, hand[q]) /\ Held(q)' = Num(q, hand'[q])
      /\ Waiting(q) = Nums(q, rq[q]) /\ Waiting(q)' = Nums(q, rq'[q])
      /\ Arrived(q) = Places(q, out[o]) /\ Arrived(q)' = Places(q, out'[o])
      /\ Sorted(q, xq[o])' = Sorted(q, xq'[o]) /\ Sorted(q, rq[q])' = Sorted(q, rq'[q])
  BY PartsAfter
<1>5. hand[o].src \in MayHold(o, NextOp(o))
  BY <1>1 DEF ProxyInv, HandInv
<1>6. Num(q, None) = {} /\ Num(q, Reply) = {}
  BY <1>1 DEF None, Reply, Packet, Num
<1>7. ASSUME NEW x, Hold(o, x) PROVE hand'[o] = x /\ hand'[q] = hand[q]
  BY <1>1, <1>2, <1>7 DEF Hold
<1>8. NextOp(o) \in {"none", "read", "take", "send", "tls"} => Ahead(q) = {}
  BY <1>1, <1>4, <1>5 DEF MayHold, Num
<1>9. ASSUME PopReader(o) PROVE rq'[q] = rq[q] /\ Head(rq[o]).src # q
  <2>1. rq[o] # <<>> /\ rq[o] \in Seq(Packets) /\ rq' = [rq EXCEPT ![o] = Tail(rq[o])]
    BY <1>1, <1>9 DEF PopReader, ProxyInv, FlowShape
  <2>2. Head(rq[o]) = rq[o][1] /\ 1 \in DOMAIN rq[o]
    BY <2>1
  <2>. QED
    BY <1>1, <1>2, <2>1, <2>2 DEF ProxyInv, QueueInv
<1>10. ASSUME PopOther(o)
       PROVE  /\ Passed(q) = Num(q, Head(xq[o])) \cup Passed(q)' /\ Sorted(q, xq'[o])
              /\ Below(Num(q, Head(xq[o])), Passed(q)')
  <2>1. xq[o] # <<>> /\ xq'[o] = Tail(xq[o])
    BY <1>1, <1>2, <1>10 DEF PopOther
  <2>2. /\ Nums(q, xq[o]) = Num(q, Head(xq[o])) \cup Nums(q, Tail(xq[o]))
        /\ Sorted(q, Tail(xq[o])) /\ Below(Num(q, Head(xq[o])), Nums(q, Tail(xq[o])))
    BY <1>2, <1>3, <2>1, NumsHead
  <2>. QED
    BY <1>4, <2>1, <2>2
\* The hand of the other proxy holds nothing of q's before and after.
<1>11. ASSUME Ahead(q) = {}, Ahead(q)' = {}, hand'[q] = hand[q], xq'[o] = xq[o], rq'[q] = rq[q],
              UNCHANGED <<mitm, sent, read>>, Arrived(q)' = Arrived(q)
       PROVE  InOrder(q)' /\ WireStep(q)
  BY <1>3, <1>4, <1>11, Untouched
\* The head of the queue is taken into the hand, or not.
<1>12. ASSUME PopOther(o), Hold(o, Head(xq[o])), NextOp(o) \in {"none", "take"},
              UNCHANGED <<mitm, sent, read, rq, out>>
       PROVE  InOrder(q)' /\ WireStep(q)
  <2>1. /\ Ahead(q) = {} /\ Ahead(q)' = Num(q, Head(xq[o])) /\ Held(q)' = Held(q)
        /\ Waiting(q)' = Waiting(q) /\ Passed(q) = Num(q, Head(xq[o])) \cup Passed(q)'
        /\ Arrived(q)' = Arrived(q)
    BY <1>4, <1>7, <1>8, <1>10, <1>12
  <2>2. Ordered(Ahead(q)', Passed(q)', Held(q)', Waiting(q)')
    BY <1>3, <1>10, <1>12, <2>1 DEF Ordered, Below
  <2>3. Parts(q)' = Parts(q)
    BY <2>1 DEF Parts
  <2>4. Sorted(q, xq[Other(q)])' /\ Sorted(q, rq[q])'
    BY <1>3, <1>4, <1>10, <1>12
  <2>. QED
    BY <1>3, <1>12, <2>1, <2>2, <2>3, <2>4, PassedOn
<1>13. ASSUME PopOther(o), mitm, NextOp(o) = "none", Ahead(q)' = {}, hand'[q] = hand[q],
              UNCHANGED <<mitm, sent, read, rq, out>>
       PROVE  InOrder(q)' /\ WireStep(q)
  <2>1. /\ Ahead(q) = {} /\ Held(q)' = Held(q) /\ Waiting(q)' = Waiting(q)
        /\ Passed(q) = Num(q, Head(xq[o])) \cup Passed(q)' /\ Arrived(q)' = Arrived(q)
    BY <1>4, <1>8, <1>10, <1>13
  <2>2. Ordered(Ahead(q)', Passed(q)', Held(q)', Waiting(q)')
    BY <1>3, <1>13, <2>1 DEF Ordered, Below
  <2>3. Sorted(q, xq[Other(q)])' /\ Sorted(q, rq[q])'
    BY <1>3, <1>4, <1>10, <1>13
  <2>4. CASE Num(q, Head(xq[o])) = {}
    <3>1. Parts(q)' = Parts(q)
      BY <1>13, <2>1, <2>4 DEF Parts
    <3>. QED
      BY <1>3, <1>13, <2>1, <2>2, <2>3, <3>1, PassedOn
  <2>5. CASE Num(q, Head(xq[o])) # {}
    <3>1. PICK x : Num(q, Head(xq[o])) = {x}
      BY <2>5 DEF Num
    <3>2. x \in Passed(q) /\ x \in Parts(q) /\ x \in Nat
      BY <1>3, <2>1, <3>1 DEF InOrder, Parts
    <3>3. x \notin Passed(q)' \cup Held(q) \cup Waiting(q)
      BY <1>3, <1>10, <1>13, <3>1, <3>2 DEF Ordered, Below
    <3>4. Parts(q)' = Parts(q) \ {x}
      BY <1>13, <2>1, <3>1, <3>3 DEF Parts
    <3>. QED
      BY <1>3, <1>13, <2>1, <2>2, <2>3, <3>2, <3>4, SwallowedOne
  <2>. QED
    BY <2>4, <2>5
<1>14. CASE Read(o)
  <2>1. /\ PopReader(o) /\ NextOp(o) = "read" /\ Hold(o, Head(rq[o]))
        /\ UNCHANGED <<mitm, sent, read, xq, out>>
    BY <1>14 DEF Read, Doing, NextOp
  <2>2. Ahead(q)' = {}
    BY <1>4, <1>7, <1>9, <2>1 DEF Num
  <2>. QED
    BY <1>4, <1>7, <1>8, <1>9, <1>11, <2>1, <2>2
<1>15. CASE FromReader(o)
  <2>1. PopReader(o) /\ NextOp(o) = "none" /\ UNCHANGED <<mitm, sent, read, xq, out>>
    BY <1>15 DEF FromReader, NextOp
  <2>2. Ahead(q) = {} /\ Ahead(q)' = {} /\ hand'[q] = hand[q]
    <3>1. CASE Hold(o, Head(rq[o]))
      BY <1>4, <1>7, <1>8, <1>9, <2>1, <3>1 DEF Num
    <3>2. CASE UNCHANGED hand
      BY <1>4, <1>8, <2>1, <3>2
    <3>. QED
      BY <1>15, <3>1, <3>2 DEF FromReader, Begin
  <2>. QED
    BY <1>4, <1>9, <1>11, <2>1, <2>2
<1>16. CASE Tls(o)
  <2>1. /\ NextOp(o) = "tls" /\ \E x \in {None, Reply} : Hold(o, x)
        /\ UNCHANGED <<mitm, sent, read, rq, xq, out>>
    BY <1>16 DEF Tls, Doing, NextOp, queueVars
  <2>2. Ahead(q) = {} /\ Ahead(q)' = {} /\ hand'[q] = hand[q]
    BY <1>4, <1>6, <1>7, <1>8, <2>1
  <2>. QED
    BY <1>4, <1>11, <2>1, <2>2
<1>17. CASE Send(o)
  <2>1. /\ NextOp(o) = "send" /\ xq'[o] = xq[o] /\ Hold(o, None)
        /\ UNCHANGED <<mitm, sent, read, rq, out>>
    BY <1>1, <1>2, <1>17 DEF Send, Doing, NextOp
  <2>2. Ahead(q) = {} /\ Ahead(q)' = {} /\ hand'[q] = hand[q]
    BY <1>4, <1>6, <1>7, <1>8, <2>1
  <2>. QED
    BY <1>4, <1>11, <2>1, <2>2
<1>18. CASE Take(o)
  BY <1>12, <1>18 DEF Take, Doing, NextOp
<1>19. CASE FromOther(o)
  <2>1. PopOther(o) /\ NextOp(o) = "none" /\ UNCHANGED <<mitm, sent, read, rq, out>>
    BY <1>19 DEF FromOther, NextOp
  <2>2. CASE Begin(o, "forward", Head(xq[o]))
    BY <1>12, <2>1, <2>2 DEF Begin
  <2>3. CASE mitm /\ UNCHANGED <<hand, plan>>
    BY <1>4, <1>8, <1>13, <2>1, <2>3
  <2>4. CASE mitm /\ Begin(o, "send", Reply)
    BY <1>4, <1>6, <1>7, <1>13, <2>1, <2>4 DEF Begin
  <2>. QED
    BY <1>19, <2>2, <2>3, <2>4 DEF FromOther
<1>20. CASE Transmit(o)
  <2>1. /\ Hold(o, None) /\ out'[o] = Append(out[o], hand[o])
        /\ UNCHANGED <<mitm, sent, read, rq, xq>>
    BY <1>1, <1>2, <1>20 DEF Transmit, queueVars
  <2>2. Ahead(q)' = {} /\ hand'[q] = hand[q]
    BY <1>4, <1>6, <1>7, <2>1
  <2>3. CASE hand[o].src # q
    <3>1. Ahead(q) = {} /\ Arrived(q)' = Arrived(q)
      BY <1>2, <1>4, <2>1, <2>3, PlacesAppend DEF Num
    <3>. QED
      BY <1>4, <1>11, <2>1, <2>2, <3>1
  <2>4. CASE hand[o].src = q
    <3>. DEFINE d == [n |-> hand[o].n, at |-> Len(out[o]) + 1]
    <3>1. /\ Arrived(q)' = Arrived(q) \cup {d} /\ \A e \in Arrived(q) : e.at < d.at
          /\ d.n = hand[o].n
      BY <1>2, <1>4, <2>1, <2>4, PlacesAppend
    <3>. HIDE DEF d
    <3>2. Ahead(q) = {d.n} /\ d.n \in 1..read[q]
      BY <1>3, <1>4, <2>4, <3>1 DEF Num, InOrder, Parts
    <3>3. /\ Passed(q)' = Passed(q) /\ Held(q)' = Held(q) /\ Waiting(q)' = Waiting(q)
          /\ xq'[o] = xq[o] /\ rq'[q] = rq[q] /\ read'[q] = read[q] /\ sent'[q] = sent[q]
      BY <1>4, <2>1, <2>2
    <3>4. \A k \in Passed(q) \cup Held(q) \cup Waiting(q) : d.n < k
      BY <1>3, <3>2 DEF Ordered, Below
    <3>5. Flight(q) = {d.n} \cup Passed(q) \cup Held(q) \cup Waiting(q) \cup (read[q] + 1)..sent[q]
      BY <3>2, FlightParts DEF Parts
    <3>6. Flight(q)' = Passed(q) \cup Held(q) \cup Waiting(q) \cup (read[q] + 1)..sent[q]
      BY <2>2, <3>3 DEF Flight, Ahead, Passed, Held, Waiting
    <3>7. \A k \in (read[q] + 1)..sent[q] : d.n < k
      BY <1>2, <3>2
    <3>8. d.n \in Nat /\ Parts(q) \subseteq Nat
      BY <1>3, <3>2 DEF InOrder
    <3>9. d.n \in Flight(q) /\ \A k \in Flight(q) : d.n <= k
      BY <1>2, <3>4, <3>5, <3>7, <3>8 DEF Parts
    <3>10. Flight(q)' = Flight(q) \ {d.n}
      <4>1. d.n \notin Passed(q) \cup Held(q) \cup Waiting(q) \cup (read[q] + 1)..sent[q]
        BY <3>4, <3>7, <3>8
      <4>. QED
        BY <3>5, <3>6, <4>1
    <3>11. InOrder(q)'
      <4>1. Ordered(Ahead(q)', Passed(q)', Held(q)', Waiting(q)')
        BY <1>3, <2>2, <3>3 DEF Ordered, Below
      <4>2. Parts(q)' \subseteq 1..read[q]
        BY <1>3, <2>2, <3>3 DEF Parts, InOrder
      <4>3. Sorted(q, xq[Other(q)])' /\ Sorted(q, rq[q])'
        BY <1>3, <1>4, <3>3
      <4>. QED
        BY <1>3, <3>3, <4>1, <4>2, <4>3 DEF InOrder
    <3>. QED
      BY <2>1, <3>1, <3>3, <3>9, <3>10, <3>11 DEF WireStep
  <2>. QED
    BY <2>3, <2>4
<1>. QED
  BY <1>14, <1>15, <1>16, <1>17, <1>18, <1>19, <1>20 DEF Proxy

\* Every step of a session is one of the wire for the packets of q.
LEMMA FlowStep ==
  ASSUME ProxyInv, OrderInv, [PipelineNext]_pipelineVars, NEW q \in Side
  PROVE  InOrder(q)' /\ WireStep(q)
<1>. DEFINE o == Other(q)
<1>1. o \in Side /\ o # q /\ q \notin {"none", "proxy", "inject"} /\ \A p \in Side : p = q \/ p = o
  BY DEF Other, Side
<1>2. /\ xq[o] \in Seq(Packets) /\ rq[q] \in Seq(Packets)
      /\ DOMAIN rq = Side /\ DOMAIN xq = Side /\ DOMAIN sent = Side /\ DOMAIN read = Side
      /\ read[q] \in Nat /\ sent[q] \in Nat
  BY <1>1 DEF ProxyInv, FlowShape
<1>3. /\ InOrder(q) /\ Sorted(q, xq[o]) /\ Sorted(q, rq[q])
      /\ Ordered(Ahead(q), Passed(q), Held(q), Waiting(q))
      /\ Parts(q) \subseteq 1..read[q] /\ read[q] <= sent[q]
  BY DEF OrderInv, InOrder
<1>4. /\ Ahead(q) = Num(q, hand[o]) /\ Ahead(q)' = Num(q, hand'[o])
      /\ Passed(q) = Nums(q, xq[o]) /\ Passed(q)' = Nums(q, xq'[o])
      /\ Held(q) = Num(q, hand[q]) /\ Held(q)' = Num(q, hand'[q])
      /\ Waiting(q) = Nums(q, rq[q]) /\ Waiting(q)' = Nums(q, rq'[q])
      /\ Arrived(q) = Places(q, out[o]) /\ Arrived(q)' = Places(q, out'[o])
      /\ Sorted(q, xq[o])' = Sorted(q, xq'[o]) /\ Sorted(q, rq[q])' = Sorted(q, rq'[q])
  BY PartsAfter
<1>5. ASSUME UNCHANGED <<mitm, hand, out>>, xq'[o] = xq[o], rq'[q] = rq[q], read'[q] = read[q],
             sent'[q] = sent[q]
      PROVE  InOrder(q)' /\ WireStep(q)
  BY <1>3, <1>4, <1>5, Untouched
<1>6. CASE UNCHANGED pipelineVars
  BY <1>5, <1>6 DEF pipelineVars, queueVars, proxyVars
<1>7. ASSUME NEW p \in Side, Proxy(p) PROVE InOrder(q)' /\ WireStep(q)
  BY <1>1, <1>7, OwnProxyKeepsOrder, OtherProxyKeepsOrder
<1>8. CASE StallCheck \/ TaskFails
  BY <1>5, <1>8 DEF StallCheck, TaskFails, queueVars, proxyVars
<1>9. CASE EndSends(o)
  BY <1>1, <1>2, <1>5, <1>9 DEF EndSends, queueVars, proxyVars
<1>10. CASE ReadPacket(o)
  BY <1>1, <1>2, <1>5, <1>10 DEF ReadPacket, queueVars, proxyVars
<1>11. CASE EndSends(q)
  <2>1. /\ sent'[q] = sent[q] + 1
        /\ UNCHANGED <<mitm, read, rq, xq, hand, out>>
    BY <1>2, <1>11 DEF EndSends, queueVars, proxyVars
  <2>2. /\ Ahead(q)' = Ahead(q) /\ Passed(q)' = Passed(q) /\ Held(q)' = Held(q)
        /\ Waiting(q)' = Waiting(q) /\ Arrived(q)' = Arrived(q) /\ Parts(q)' = Parts(q)
    BY <1>4, <2>1 DEF Parts
  <2>3. InOrder(q)'
    BY <1>2, <1>3, <2>1, <2>2 DEF InOrder
  <2>4. (read[q] + 1)..(sent[q] + 1) = (read[q] + 1)..sent[q] \cup {sent[q] + 1}
    BY <1>2, <1>3
  <2>5. Flight(q)' = Parts(q)' \cup (read'[q] + 1)..sent'[q]
    BY DEF Flight, Parts, Ahead, Passed, Held, Waiting
  <2>6. Flight(q)' = Flight(q) \cup {sent'[q]}
    BY <2>1, <2>2, <2>4, <2>5, FlightParts
  <2>. QED
    BY <2>1, <2>2, <2>3, <2>6 DEF WireStep
<1>12. CASE ReadPacket(q)
  <2>. DEFINE x == Packet(q, read'[q])
  <2>1. /\ read[q] < sent[q] /\ read'[q] = read[q] + 1 /\ rq'[q] = Append(rq[q], x)
        /\ UNCHANGED <<mitm, sent, xq, hand, out>>
    BY <1>2, <1>12 DEF ReadPacket, proxyVars
  <2>2. x \in Packets /\ Num(q, x) = {read[q] + 1}
    BY <1>2, <2>1 DEF Packet, Packets, Num
  <2>. HIDE DEF x
  <2>3. Below(Nums(q, rq[q]), Num(q, x))
    BY <1>2, <1>3, <1>4, <2>2 DEF Below, Parts
  <2>4. Waiting(q)' = Waiting(q) \cup {read[q] + 1} /\ Sorted(q, rq'[q])
    <3>1. /\ Nums(q, Append(rq[q], x)) = Nums(q, rq[q]) \cup Num(q, x)
          /\ Sorted(q, Append(rq[q], x))
      BY <1>2, <1>3, <2>2, <2>3, NumsAppend
    <3>. QED
      BY <1>4, <2>1, <2>2, <3>1
  <2>5. /\ Ahead(q)' = Ahead(q) /\ Passed(q)' = Passed(q) /\ Held(q)' = Held(q)
        /\ Arrived(q)' = Arrived(q) /\ Parts(q)' = Parts(q) \cup {read[q] + 1}
    BY <1>4, <2>1, <2>4 DEF Parts
  <2>6. InOrder(q)'
    <3>1. \A k \in Parts(q) : k < read[q] + 1
      BY <1>2, <1>3
    <3>2. Ordered(Ahead(q)', Passed(q)', Held(q)', Waiting(q)')
      BY <1>3, <2>4, <2>5, <3>1 DEF Ordered, Below, Parts
    <3>3. Parts(q)' \subseteq 1..read'[q] /\ read'[q] <= sent'[q]
      BY <1>2, <1>3, <2>1, <2>5
    <3>4. Sorted(q, xq[Other(q)])' /\ Sorted(q, rq[q])'
      BY <1>3, <1>4, <2>1, <2>4
    <3>. QED
      BY <3>2, <3>3, <3>4 DEF InOrder
  <2>7. (read[q] + 1)..sent[q] = (read[q] + 2)..sent[q] \cup {read[q] + 1}
    BY <1>2, <2>1
  <2>8. Flight(q)' = Parts(q)' \cup (read'[q] + 1)..sent'[q]
    BY DEF Flight, Parts, Ahead, Passed, Held, Waiting
  <2>9. read'[q] + 1 = read[q] + 2
    BY <1>2, <2>1
  <2>10. Flight(q)' = Flight(q)
    BY <2>1, <2>5, <2>7, <2>8, <2>9, FlightParts
  <2>. QED
    BY <2>1, <2>5, <2>6, <2>10 DEF WireStep
<1>13. CASE Inject
  <2>1. /\ xq' = [xq EXCEPT !["md"] = Append(xq["md"], Packet("inject", 0))]
        /\ UNCHANGED <<mitm, sent, read, rq, hand, out>>
    BY <1>13 DEF Inject, proxyVars
  <2>2. CASE o # "md"
    BY <1>1, <1>2, <1>5, <2>1, <2>2
  <2>3. CASE o = "md"
    <3>1. xq'[o] = Append(xq[o], Packet("inject", 0))
      BY <1>1, <1>2, <2>1, <2>3
    <3>2. Packet("inject", 0) \in Packets /\ Num(q, Packet("inject", 0)) = {}
      BY <1>1 DEF Packet, Packets, Num
    <3>3. Below(Nums(q, xq[o]), {})
      BY DEF Below
    <3>4. Nums(q, xq'[o]) = Nums(q, xq[o]) /\ Sorted(q, xq'[o])
      <4>. DEFINE x == Packet("inject", 0)
      <4>1. x \in Packets /\ Num(q, x) = {} /\ Below(Nums(q, xq[o]), Num(q, x))
        BY <3>2, <3>3
      <4>. HIDE DEF x
      <4>2. /\ Nums(q, Append(xq[o], x)) = Nums(q, xq[o]) \cup Num(q, x)
            /\ Sorted(q, Append(xq[o], x))
        BY <1>2, <1>3, <4>1, NumsAppend
      <4>. QED
        BY <3>1, <4>1, <4>2 DEF x
    <3>. QED
      BY <1>3, <1>4, <2>1, <3>4, Untouched
  <2>. QED
    BY <2>2, <2>3
<1>. QED
  BY <1>1, <1>6, <1>7, <1>8, <1>9, <1>10, <1>11, <1>12, <1>13 DEF PipelineNext

\* At first nothing is on the way.
LEMMA FlowInit ==
  ASSUME PipelineInit, NEW q \in Side
  PROVE  InOrder(q) /\ sent[q] = 0 /\ Flight(q) = {} /\ Arrived(q) = {} /\ mitm \in BOOLEAN
<1>1. Other(q) \in Side /\ q # "none"
  BY DEF Other, Side
<1>2. /\ Ahead(q) = {} /\ Passed(q) = {} /\ Held(q) = {} /\ Waiting(q) = {} /\ Arrived(q) = {}
      /\ sent[q] = 0 /\ read[q] = 0
      /\ Sorted(q, xq[Other(q)]) /\ Sorted(q, rq[q])
  BY <1>1 DEF PipelineInit, Ahead, Passed, Held, Waiting, Arrived, Num, Nums, Places, Sorted,
              None, Packet
<1>3. Flight(q) = {}
  BY <1>2, FlightParts DEF Parts
<1>4. InOrder(q)
  BY <1>2 DEF InOrder, Ordered, Below, Parts
<1>. QED
  BY <1>2, <1>3, <1>4, ModesAssumption DEF ModesAssumption, PipelineInit

\* In both directions the packets of one end reach the other in order and at
\* most once, and all of them without mitm (mitm.rs, io_uring.rs).
THEOREM PacketsKeepOrder == PipelineSpec => Carries
<1>1. PipelineInit => ProxyInv /\ OrderInv /\ CarWire!Init /\ PhoneWire!Init
  BY FitInit, FlowInit DEF OrderInv, Side, CarWire!Init, PhoneWire!Init
<1>2. ProxyInv /\ OrderInv /\ [PipelineNext]_pipelineVars => ProxyInv' /\ OrderInv'
  BY StepFits, FlowStep DEF OrderInv
<1>3. ASSUME ProxyInv, OrderInv, [PipelineNext]_pipelineVars
      PROVE  [CarWire!Next]_(CarWire!wireVars)
  <2>1. WireStep("hu")
    BY <1>3, FlowStep DEF Side
  <2>. QED
    BY <2>1 DEF WireStep, CarWire!Next, CarWire!Send, CarWire!Deliver, CarWire!Swallow,
                CarWire!wireVars
<1>4. ASSUME ProxyInv, OrderInv, [PipelineNext]_pipelineVars
      PROVE  [PhoneWire!Next]_(PhoneWire!wireVars)
  <2>1. WireStep("md")
    BY <1>4, FlowStep DEF Side
  <2>. QED
    BY <2>1 DEF WireStep, PhoneWire!Next, PhoneWire!Send, PhoneWire!Deliver, PhoneWire!Swallow,
                PhoneWire!wireVars
<1>. QED
  BY <1>1, <1>2, <1>3, <1>4, PTL DEF PipelineSpec, Carries, CarWire!Spec, PhoneWire!Spec

\* Only the monitor, or a failure, ends a mutual block: until then both proxies
\* stay where they are and neither counter moves, so that the monitor's second
\* check finds it (proxy, transfer_monitor).
THEOREM BlockLasts ==
  PipelineSpec => [][MutualBlock => MutualBlock' /\ UNCHANGED <<bytes, plan, xq>>]_pipelineVars
<1>1. ASSUME PipelineNext, MutualBlock PROVE UNCHANGED <<bytes, plan, xq>>
  <2>1. /\ \A p \in Side : Len(xq[p]) = QueueCapacity
        /\ \A p \in Side : plan[p] # <<>> /\ Head(plan[p]) = "send"
    BY <1>1 DEF MutualBlock, Doing, Side, Other
  <2>2. \A p \in Side : ~(Len(xq[p]) < QueueCapacity) /\ Other(p) \in Side
    BY <2>1, QueueAssumption DEF QueueAssumption, Side, Other
  <2>3. ASSUME NEW p \in Side PROVE ~Proxy(p)
    BY <2>1, <2>2 DEF Proxy, Read, Take, Tls, Send, Transmit, FromOther, FromReader, Doing
  <2>4. ~Inject
    BY <2>2 DEF Inject, Side
  <2>. QED
    BY <1>1, <2>3, <2>4 DEF PipelineNext, EndSends, ReadPacket, StallCheck, TaskFails,
                            queueVars, proxyVars
<1>2. ASSUME MutualBlock, UNCHANGED <<bytes, plan, xq>> PROVE MutualBlock'
  BY <1>2 DEF MutualBlock, Doing
<1>3. [PipelineNext]_pipelineVars
        => [MutualBlock => MutualBlock' /\ UNCHANGED <<bytes, plan, xq>>]_pipelineVars
  BY <1>1, <1>2
<1>. QED
  BY <1>3, PTL DEF PipelineSpec

---------------------------------------------------------------------------
(* CallBridge: the inductive invariant.                                    *)

Frames == [call : Nat \ {0}, loud : BOOLEAN]

\* The records have the fields the steps write.
Shape ==
    /\ DOMAIN sco = {"pc", "call", "connected"} /\ DOMAIN aa = {"pc", "session", "live"}
    /\ DOMAIN look = {"mic", "on", "channel", "call", "epoch"} /\ DOMAIN hu = {"playing", "mic"}
    /\ DOMAIN media = {"epoch", "started", "pending", "late", "flowing"}

\* The ring to the car holds audio of numbered calls.
ScoInv ==
    /\ sco.call \in Nat /\ (sco.pc # "idle" => sco.call # 0)
    /\ ring \in Seq(Frames)

\* What the microphone said in one of the calls S, wherever it waits.
Heard(S) == /\ uplink \in Seq(S) /\ samples.taken \in Seq(S)
            /\ samples.pending \in Seq(S) /\ samples.packet \in Seq(S)

\* Once the uplink is emptied for a call, it is the call's own or was on its way.
\* The proxy moves something, and pushes something.
MicInv ==
    /\ DOMAIN samples = {"taken", "pending", "packet"}
    /\ Heard(Nat)
    /\ sco.pc \in {"emptied", "reading"} => Heard({sco.call} \cup crossing)
    /\ aa.pc \in {"moving", "pushing"} => samples.taken # <<>>
    /\ aa.pc = "pushing" => samples.packet # <<>>

\* The call that is started is never younger than the one whose frame is carried.
CallInv ==
    /\ look.call \in 0..sco.call /\ media.started \in 0..sco.call
    /\ pc \in {"pop", "again", "start"} => media.started <= look.call
    /\ pc \in {"again", "start"} => frame.call = look.call
    /\ pc \in {"again", "start", "switch", "pend", "begin"} => look.call # 0
    /\ pc = "data" => media.started # 0 /\ (media.flowing => frame.call = media.started)

\* The epochs follow the arming of the sessions.
EpochInv ==
    /\ epoch \in Nat /\ config.epoch \in 0..epoch /\ look.epoch \in 0..epoch
    /\ media.epoch = look.epoch
    /\ aa.session \in Nat
    /\ mine \in {0, epoch}
    /\ aa.pc \in {"idle", "linked", "channel", "epoch"} => mine = 0
    /\ aa.pc = "linked" => aa.live # 0
    /\ aa.pc \notin {"idle", "linked"} => aa.live # 0 /\ tx = aa.live
    /\ aa.pc = "config" => config.epoch # mine
    /\ mine # 0 /\ config.epoch = mine => config.channel = target

\* Past the ready test the bridge carries audio the car is ready for ...
ReadyInv ==
    pc \in {"connected", "stop", "reset", "cadence", "call", "pop", "again", "start", "switch",
            "pend", "begin", "data"} /\ mine # 0 /\ look.epoch = mine
        => config = [channel |-> target, epoch |-> mine]

\* ... and the car plays the call the bridge has started, unless it is about to forget it.
PlayInv ==
    cfg.start /\ mine # 0 /\ media.epoch = mine /\ media.started # 0 /\ pc \notin {"reset", "pend"}
        => hu.playing = media.started

IInv == Shape /\ ScoInv /\ MicInv /\ CallInv /\ EpochInv /\ ReadyInv /\ PlayInv

---------------------------------------------------------------------------
(* The rings.                                                              *)

LEMMA EmptyType == \A S : <<>> \in Seq(S)
  OBVIOUS

\* A sequence is one of its own elements.
LEMMA RangeType ==
  ASSUME NEW q \in Seq(Nat), NEW S, Range(q) \subseteq S
  PROVE  q \in Seq(S)
<1>1. \A i \in 1..Len(q) : q[i] \in S
  BY DEF Range
<1>. QED
  BY <1>1

LEMMA PushType ==
  ASSUME NEW S, NEW q \in Seq(S), NEW e \in S, NEW n \in Nat \ {0}
  PROVE  Push(q, e, n) \in Seq(S)
<1>1. CASE Len(q) >= n
  <2>1. Tail(q) \in Seq(S)
    BY <1>1
  <2>. QED
    BY <1>1, <2>1 DEF Push
<1>2. CASE ~(Len(q) >= n)
  BY <1>2 DEF Push
<1>. QED
  BY <1>1, <1>2

\* The first of a set of positions is one of them.
LEMMA MinIn == ASSUME NEW S \in SUBSET Nat, S # {} PROVE Min(S) \in S
<1>. DEFINE R == OpToRel(<, Nat)
<1>1. IsWellFoundedOn(R, Nat)
  BY NatLessThanWellFounded
<1>2. PICK i \in S : \A j \in S : <<j, i>> \notin R
  <2>. HIDE DEF R
  <2>. QED
    BY <1>1, WFMin
<1>3. \A j \in S : i <= j
  <2>. SUFFICES ASSUME NEW j \in S, j < i PROVE FALSE
    OBVIOUS
  <2>1. <<j, i>> \in Nat \X Nat /\ <<j, i>>[1] < <<j, i>>[2]
    OBVIOUS
  <2>2. <<j, i>> \in R
    BY <2>1, Zenon DEF OpToRel
  <2>. QED
    BY <1>2, <2>2
<1>. QED
  BY <1>3 DEF Min

---------------------------------------------------------------------------
LEMMA InitIInv == Init => IInv
<1>. SUFFICES ASSUME Init PROVE IInv
  OBVIOUS
<1>1. Shape
  BY DEF Init, Shape, NoMedia, Silent
<1>2. ScoInv /\ MicInv
  BY EmptyType DEF Init, ScoInv, MicInv, Heard, NoSamples
<1>3. CallInv /\ EpochInv
  BY DEF Init, CallInv, EpochInv, NoMedia
<1>4. ReadyInv /\ PlayInv
  BY DEF Init, ReadyInv, PlayInv
<1>. QED
  BY <1>1, <1>2, <1>3, <1>4 DEF IInv

\* The SCO thread.
LEMMA ScoIInv ==
  ASSUME IInv, ScoStep \/ ScoAccept \/ ScoHangup
               \/ \E complete, loud \in BOOLEAN : ScoAudio(complete, loud)
  PROVE  IInv'
<1>. USE DEF IInv, armed, thread
<1>1. UNCHANGED <<cfg, armed, mic, thread, hu>>
  BY DEF ScoStep, ScoAccept, ScoHangup, ScoAudio
<1>2. ScoInv' /\ DOMAIN sco' = DOMAIN sco /\ sco.call <= sco'.call
  <2>1. CASE Accept
    BY <2>1 DEF Accept, ScoInv, Shape
  <2>2. CASE AcceptClear
    BY <2>2 DEF AcceptClear, ScoInv, Shape
  <2>3. CASE AcceptConnect
    BY <2>3 DEF AcceptConnect, ScoInv, Shape
  <2>4. CASE AcceptClearUplink \/ AcceptClearPending
    BY <2>4 DEF AcceptClearUplink, AcceptClearPending, ScoInv, Shape
  <2>5. CASE Hangup
    BY <2>5 DEF Hangup, ScoInv, Shape
  <2>6. CASE HangupClear \/ HangupClearPending
    <3>1. /\ sco'.call = sco.call /\ DOMAIN sco' = DOMAIN sco /\ sco.pc # "idle"
          /\ ring' = ring \/ ring' = <<>>
      BY <2>6 DEF HangupClear, HangupClearPending, Shape
    <3>2. <<>> \in Seq(Frames)
      BY EmptyType
    <3>3. ring' \in Seq(Frames)
      BY <3>1, <3>2 DEF ScoInv
    <3>. QED
      BY <3>1, <3>3 DEF ScoInv, Shape
  <2>7. ASSUME NEW complete \in BOOLEAN, NEW loud \in BOOLEAN, ScoPacket(complete, loud)
        PROVE  ScoInv' /\ sco' = sco
    <3>1. ring' \in Seq(Frames)
      <4>1. [call |-> sco.call, loud |-> loud] \in Frames
        BY <2>7 DEF ScoPacket, ScoInv, Frames
      <4>. QED
        BY <2>7, <4>1, PushType, CapacityAssumption DEF ScoPacket, ScoInv
    <3>. QED
      BY <2>7, <3>1 DEF ScoPacket, ScoInv
  <2>. QED
    BY <2>1, <2>2, <2>3, <2>4, <2>5, <2>6, <2>7 DEF ScoStep, ScoAccept, ScoHangup, ScoAudio, ScoInv
<1>6. MicInv'
  <2>1. CASE Accept \/ AcceptClear \/ AcceptConnect
    BY <1>1, <2>1 DEF Accept, AcceptClear, AcceptConnect, mouth, MicInv, Heard, Shape
  <2>2. CASE AcceptClearUplink
    <3>1. /\ Range(samples.taken) \subseteq {sco.call} \cup crossing'
          /\ Range(samples.pending) \subseteq {sco.call} \cup crossing'
          /\ Range(samples.packet) \subseteq {sco.call} \cup crossing'
      BY <2>2 DEF AcceptClearUplink
    <3>2. /\ samples.taken \in Seq({sco.call} \cup crossing')
          /\ samples.pending \in Seq({sco.call} \cup crossing')
          /\ samples.packet \in Seq({sco.call} \cup crossing')
      BY <3>1, RangeType DEF MicInv, Heard
    <3>3. sco'.call = sco.call /\ samples' = samples /\ uplink' = <<>>
      BY <2>2 DEF AcceptClearUplink, Shape
    <3>. QED
      BY <1>1, <3>2, <3>3, EmptyType DEF MicInv, Heard
  <2>3. CASE AcceptClearPending \/ HangupClearPending
    <3>1. /\ samples'.taken = samples.taken /\ samples'.packet = samples.packet
          /\ samples'.pending = <<>> /\ DOMAIN samples' = DOMAIN samples
          /\ sco'.call = sco.call /\ UNCHANGED <<uplink, crossing>>
          /\ sco'.pc \in {"emptied", "reading"} => sco.pc \in {"emptied", "reading"}
      BY <2>3 DEF AcceptClearPending, HangupClearPending, ClearPending, MicInv, Shape
    <3>. QED
      BY <1>1, <3>1, EmptyType DEF MicInv, Heard
  <2>4. CASE Hangup
    BY <1>1, <2>4 DEF Hangup, MicInv, Heard, Shape
  <2>5. CASE HangupClear
    BY <1>1, <2>5, EmptyType DEF HangupClear, MicInv, Heard, Shape
  <2>6. ASSUME NEW complete \in BOOLEAN, NEW loud \in BOOLEAN, ScoPacket(complete, loud)
        PROVE  MicInv'
    <3>1. \A S : uplink \in Seq(S) => uplink' \in Seq(S)
      BY <2>6 DEF ScoPacket
    <3>. QED
      BY <1>1, <2>6, <3>1 DEF ScoPacket, MicInv, Heard
  <2>. QED
    BY <2>1, <2>2, <2>3, <2>4, <2>5, <2>6 DEF ScoStep, ScoAccept, ScoHangup, ScoAudio
<1>3. Shape' /\ EpochInv'
  BY <1>1, <1>2 DEF Shape, EpochInv
<1>4. CallInv'
  BY <1>1, <1>2 DEF CallInv, ScoInv
<1>5. ReadyInv' /\ PlayInv'
  BY <1>1 DEF ReadyInv, PlayInv
<1>. QED
  BY <1>2, <1>3, <1>4, <1>5, <1>6

\* Sessions and what they arm.
LEMMA SessionIInv ==
  ASSUME IInv, BeginSession \/ EndSession \/ Arm \/ MediaConfig
  PROVE  IInv'
<1>. USE DEF IInv, calls, thread
<1>1. UNCHANGED <<cfg, look, media, frame, sco, ring>>
  BY DEF BeginSession, EndSession, Arm, ArmTx, ArmChannel, ArmEpoch, ArmConfig, ArmMic, ArmMicCall,
         ArmMicOpen, MediaConfig
<1>2. pc' = pc \/ (pc = "unborn" /\ pc' = "top")
  BY DEF BeginSession, EndSession, Arm, ArmTx, ArmChannel, ArmEpoch, ArmConfig, ArmMic, ArmMicCall,
         ArmMicOpen, MediaConfig
<1>3. ScoInv' /\ MicInv'
  <2>1. CASE ArmMicOpen
    <3>1. /\ samples'.taken = samples.taken /\ samples'.packet = samples.packet
          /\ samples'.pending = <<>> /\ DOMAIN samples' = DOMAIN samples
          /\ crossing' = crossing /\ uplink' = <<>>
          /\ aa'.pc \notin {"moving", "pushing"}
      BY <2>1 DEF ArmMicOpen, ClearPending, MicInv, Shape
    <3>. QED
      BY <1>1, <3>1, EmptyType DEF ScoInv, MicInv, Heard
  <2>2. CASE BeginSession \/ EndSession \/ MediaConfig
             \/ ArmTx \/ ArmChannel \/ ArmEpoch \/ ArmConfig \/ ArmMic \/ ArmMicCall
    <3>1. UNCHANGED mouth
      BY <2>2 DEF BeginSession, EndSession, MediaConfig, ArmTx, ArmChannel, ArmEpoch, ArmConfig,
                  ArmMic, ArmMicCall
    <3>2. aa' = aa \/ aa'.pc \notin {"moving", "pushing"}
      <4>1. CASE BeginSession
        BY <4>1 DEF BeginSession
      <4>4. CASE EndSession
        BY <4>4 DEF EndSession, Shape
      <4>5. CASE MediaConfig
        BY <4>5 DEF MediaConfig
      <4>2. CASE ArmTx \/ ArmChannel \/ ArmEpoch
        BY <4>2 DEF ArmTx, ArmChannel, ArmEpoch, Shape
      <4>3. CASE ArmConfig \/ ArmMic \/ ArmMicCall
        BY <4>3 DEF ArmConfig, ArmMic, ArmMicCall, Shape
      <4>. QED
        BY <2>2, <4>1, <4>2, <4>3, <4>4, <4>5
    <3>. QED
      BY <1>1, <3>1, <3>2 DEF mouth, ScoInv, MicInv, Heard
  <2>. QED
    BY <2>1, <2>2 DEF Arm
<1>4. CallInv'
  BY <1>1, <1>2 DEF CallInv
<1>5. Shape'
  BY <1>1 DEF BeginSession, EndSession, Arm, ArmTx, ArmChannel, ArmEpoch, ArmConfig, ArmMic,
         ArmMicCall, ArmMicOpen, MediaConfig, Shape, Silent, armed
<1>. USE DEF Shape
<1>6. EpochInv' /\ ReadyInv' /\ PlayInv'
  <2>1. CASE BeginSession
    BY <1>1, <1>2, <2>1 DEF BeginSession, EpochInv, ReadyInv, PlayInv
  <2>2. CASE EndSession
    BY <1>1, <1>2, <2>2 DEF EndSession, EpochInv, ReadyInv, PlayInv
  <2>3. CASE ArmTx
    BY <1>1, <1>2, <2>3 DEF ArmTx, EpochInv, ReadyInv, PlayInv
  <2>4. CASE ArmChannel
    BY <1>1, <1>2, <2>4 DEF ArmChannel, EpochInv, ReadyInv, PlayInv
  <2>5. CASE ArmEpoch
    BY <1>1, <1>2, <2>5 DEF ArmEpoch, EpochInv, ReadyInv, PlayInv
  <2>6. CASE ArmConfig
    BY <1>1, <1>2, <2>6 DEF ArmConfig, EpochInv, ReadyInv, PlayInv
  <2>7. CASE ArmMic \/ ArmMicCall \/ ArmMicOpen
    BY <1>1, <1>2, <2>7 DEF ArmMic, ArmMicCall, ArmMicOpen, EpochInv, ReadyInv, PlayInv
  <2>8. CASE MediaConfig
    BY <1>1, <1>2, <2>8 DEF MediaConfig, EpochInv, ReadyInv, PlayInv
  <2>. QED
    BY <2>1, <2>2, <2>3, <2>4, <2>5, <2>6, <2>7, <2>8 DEF Arm
<1>. QED
  BY <1>3, <1>4, <1>5, <1>6

\* What the car's microphone sends.
LEMMA MouthIInv ==
  ASSUME IInv, MicData \/ MicDrain \/ MicPush \/ MicMoved
  PROVE  IInv'
<1>. USE DEF IInv
<1>1. /\ UNCHANGED <<cfg, sco, ring, crossing, tx, target, epoch, config, mine, mic, thread, hu>>
      /\ aa.pc \in {"armed", "moving", "pushing"} /\ aa'.pc \in {"armed", "moving", "pushing"}
      /\ aa'.session = aa.session /\ aa'.live = aa.live /\ DOMAIN aa' = DOMAIN aa
  BY DEF MicData, MicDrain, MicPush, MicMoved, Shape
<1>2. Shape' /\ ScoInv' /\ CallInv' /\ EpochInv' /\ ReadyInv' /\ PlayInv'
  BY <1>1 DEF thread, Shape, ScoInv, CallInv, EpochInv, ReadyInv, PlayInv
<1>3. ASSUME NEW S, Heard(S), sco.call \in S PROVE Heard(S)'
  <2>1. CASE MicData
    <3>1. <<sco.call>> \in Seq(S)
      BY <1>3
    <3>. QED
      BY <1>3, <2>1, <3>1 DEF MicData, MicInv, Heard
  <2>2. CASE MicDrain
    <3>1. Mixed \in Seq(S) /\ <<>> \in Seq(S)
      BY <1>3, EmptyType DEF Mixed, Heard
    <3>. QED
      BY <1>3, <2>2, <3>1 DEF MicDrain, MicInv, Heard
  <2>3. CASE MicPush
    <3>1. samples.packet[1] \in S
      BY <1>3, <2>3 DEF MicPush, MicInv, Heard
    <3>2. uplink' \in Seq(S) /\ <<>> \in Seq(S)
      BY <1>3, <2>3, <3>1, PushType, EmptyType, CapacityAssumption
         DEF MicPush, Heard, CapacityAssumption
    <3>. QED
      BY <1>3, <2>3, <3>2 DEF MicPush, MicInv, Heard
  <2>4. CASE MicMoved
    <3>1. Mixed \in Seq(S) /\ <<>> \in Seq(S)
      BY <1>3, EmptyType DEF Mixed, Heard
    <3>. QED
      BY <1>3, <2>4, <3>1 DEF MicMoved, MicInv, Heard
  <2>. QED
    BY <2>1, <2>2, <2>3, <2>4
<1>4. DOMAIN samples' = {"taken", "pending", "packet"}
  BY DEF MicData, MicDrain, MicPush, MicMoved, MicInv
<1>5. /\ aa'.pc \in {"moving", "pushing"} => samples'.taken # <<>>
      /\ aa'.pc = "pushing" => samples'.packet # <<>>
  <2>1. CASE MicData
    <3>1. aa'.pc = "moving" /\ samples'.taken = <<sco.call>>
      BY <2>1 DEF MicData, MicInv, Shape
    <3>. QED
      BY <3>1
  <2>2. CASE MicDrain
    <3>1. samples'.taken = samples.taken /\ samples'.packet = Mixed /\ samples.taken # <<>>
      BY <2>2 DEF MicDrain, MicInv
    <3>2. Mixed # <<>>
      BY <3>1 DEF Mixed
    <3>. QED
      BY <3>1, <3>2
  <2>3. CASE MicPush
    <3>1. aa'.pc = "moving" /\ samples'.taken = samples.taken /\ samples.taken # <<>>
      BY <2>3 DEF MicPush, MicInv, Shape
    <3>. QED
      BY <3>1
  <2>4. CASE MicMoved
    BY <2>4 DEF MicMoved, Shape
  <2>. QED
    BY <2>1, <2>2, <2>3, <2>4
<1>6. Heard(Nat)' /\ ((sco.pc \in {"emptied", "reading"}) => Heard({sco.call} \cup crossing)')
  <2>1. Heard(Nat)'
    BY <1>3 DEF MicInv, ScoInv
  <2>2. ASSUME sco.pc \in {"emptied", "reading"} PROVE Heard({sco.call} \cup crossing)'
    <3>. DEFINE S == {sco.call} \cup crossing
    <3>1. Heard(S) /\ sco.call \in S
      BY <2>2 DEF MicInv
    <3>. HIDE DEF S
    <3>2. uplink' \in Seq(S) /\ samples'.taken \in Seq(S)
          /\ samples'.pending \in Seq(S) /\ samples'.packet \in Seq(S)
      BY <1>3, <3>1 DEF Heard
    <3>. QED
      BY <1>1, <3>2 DEF Heard, S
  <2>. QED
    BY <2>1, <2>2
<1>. QED
  BY <1>1, <1>2, <1>4, <1>5, <1>6 DEF MicInv

\* The bridge thread.
LEMMA BridgeIInv == ASSUME IInv, BridgeStep \/ StartTimeout PROVE IInv'
<1>. USE DEF IInv, Shape, Shared, armed
<1>1. UNCHANGED Shared
  BY DEF BridgeStep, LoadMic, DecideMic, OpenMic, MicOpened, MicIsOpen, ForgetMic, CloseMic,
         MicClosed, DropPending, LoadChannel, LoadEpoch, Ready, Connected, SendStop, Reset, Cadence, LoadCall,
         Pop, LoadAgain, LoadStart, SwitchStop, Pend, SendStart, SendData, StartTimeout
<1>2. ASSUME UNCHANGED <<look, media>>
      PROVE  EpochInv'
  BY <1>1, <1>2 DEF EpochInv
<1>3. ASSUME ring' = ring \/ ring' \in Seq(Frames), UNCHANGED mouth
      PROVE  ScoInv' /\ MicInv'
  BY <1>1, <1>3, EmptyType DEF mouth, ScoInv, MicInv, Heard
\* The microphone.
<1>4. CASE LoadMic
  BY <1>1, <1>3, <1>4 DEF LoadMic, EpochInv, CallInv, ReadyInv, PlayInv
<1>5. CASE DecideMic
  BY <1>1, <1>3, <1>5 DEF DecideMic, ScoInv, EpochInv, CallInv, ReadyInv, PlayInv
<1>6. CASE OpenMic \/ CloseMic
  BY <1>1, <1>2, <1>3, <1>6 DEF OpenMic, CloseMic, CallInv, ReadyInv, PlayInv
<1>7. CASE MicOpened \/ MicIsOpen \/ ForgetMic \/ MicClosed \/ DropPending
  <2>1. CASE MicOpened \/ ForgetMic
    BY <1>1, <1>2, <1>3, <2>1 DEF MicOpened, ForgetMic, CallInv, ReadyInv, PlayInv
  <2>2. CASE MicIsOpen \/ MicClosed
    <3>1. uplink' = <<>> /\ UNCHANGED <<ring, samples, crossing>>
      BY <2>2 DEF MicIsOpen, MicClosed
    <3>2. ScoInv' /\ MicInv'
      BY <1>1, <3>1, EmptyType DEF ScoInv, MicInv, Heard
    <3>. QED
      BY <1>1, <1>2, <2>2, <3>2 DEF MicIsOpen, MicClosed, CallInv, ReadyInv, PlayInv
  <2>3. CASE DropPending
    <3>1. /\ samples'.taken = samples.taken /\ samples'.packet = samples.packet
          /\ samples'.pending = <<>> /\ DOMAIN samples' = DOMAIN samples
          /\ UNCHANGED <<ring, uplink, crossing>>
      BY <2>3 DEF DropPending, ClearPending, MicInv
    <3>2. ScoInv' /\ MicInv'
      BY <1>1, <3>1, EmptyType DEF ScoInv, MicInv, Heard
    <3>. QED
      BY <1>1, <1>2, <2>3, <3>2 DEF DropPending, CallInv, ReadyInv, PlayInv
  <2>. QED
    BY <1>7, <2>1, <2>2, <2>3
\* Whether the car is ready.
<1>8. CASE LoadChannel
  BY <1>1, <1>3, <1>8, EmptyType DEF LoadChannel, EpochInv, CallInv, ReadyInv, PlayInv
<1>9. CASE LoadEpoch
  BY <1>1, <1>3, <1>9 DEF LoadEpoch, NoMedia, EpochInv, CallInv, ScoInv, ReadyInv, PlayInv
<1>10. CASE Ready
  <2>1. ring' = ring \/ ring' \in Seq(Frames)
    <3>1. ring # <<>> => Tail(ring) \in Seq(Frames)
      BY DEF ScoInv
    <3>. QED
      BY <1>10, <3>1 DEF Ready
  <2>2. ReadyInv'
    BY <1>1, <1>10 DEF Ready, ReadyInv, EpochInv
  <2>. QED
    BY <1>1, <1>2, <1>3, <1>10, <2>1, <2>2 DEF Ready, CallInv, PlayInv
<1>11. CASE Connected \/ Cadence
  BY <1>1, <1>2, <1>3, <1>11 DEF Connected, Cadence, CallInv, ReadyInv, PlayInv
<1>12. CASE SendStop \/ SwitchStop
  BY <1>1, <1>2, <1>3, <1>12 DEF SendStop, SwitchStop, CallInv, ReadyInv, PlayInv
<1>13. CASE Reset
  BY <1>1, <1>3, <1>13 DEF Reset, NoMedia, EpochInv, CallInv, ScoInv, ReadyInv, PlayInv
\* Frames of call audio.
<1>14. CASE LoadCall
  BY <1>1, <1>3, <1>14 DEF LoadCall, ScoInv, EpochInv, CallInv, ReadyInv, PlayInv
<1>15. CASE Pop
  <2>. DEFINE of == {i \in DOMAIN ring : ring[i].call = look.call}
  <2>1. CASE of = {}
    BY <1>1, <1>2, <1>3, <1>15, <2>1 DEF Pop, CallInv, ReadyInv, PlayInv
  <2>2. CASE of # {}
    <3>1. of \subseteq Nat /\ DOMAIN ring = 1..Len(ring) /\ Len(ring) \in Nat
      BY DEF ScoInv
    <3>2. Min(of) \in of
      BY <2>2, <3>1, MinIn
    <3>. HIDE DEF of
    <3>3. frame' = ring[Min(of)] /\ pc' = "again" /\ UNCHANGED <<look, media, hu, mouth>>
          /\ ring' = SubSeq(ring, Min(of) + 1, Len(ring))
      BY <1>15, <2>2 DEF Pop, of
    <3>4. frame'.call = look.call /\ look.call # 0 /\ Min(of) \in 1..Len(ring)
      <4>1. Min(of) \in 1..Len(ring) /\ ring[Min(of)].call = look.call
        BY <3>1, <3>2 DEF of
      <4>2. ring[Min(of)] \in Frames
        BY <3>1, <4>1 DEF ScoInv
      <4>. QED
        BY <3>3, <4>1, <4>2 DEF Frames
    <3>5. ring' \in Seq(Frames)
      <4>1. \A i \in Min(of) + 1 .. Len(ring) : ring[i] \in Frames
        BY <3>1, <3>4 DEF ScoInv
      <4>. QED
        BY <3>1, <3>3, <3>4, <4>1, SubSeqProperties
    <3>6. pc = "pop"
      BY <1>15 DEF Pop
    <3>. QED
      BY <1>1, <1>2, <1>3, <3>3, <3>4, <3>5, <3>6 DEF CallInv, ReadyInv, PlayInv
  <2>. QED
    BY <2>1, <2>2
<1>16. CASE LoadAgain
  BY <1>1, <1>2, <1>3, <1>16 DEF LoadAgain, CallInv, ReadyInv, PlayInv
<1>17. CASE LoadStart
  <2>1. CallInv'
    BY <1>1, <1>17 DEF LoadStart, ScoInv, CallInv
  <2>. QED
    BY <1>1, <1>3, <1>17, <2>1 DEF LoadStart, EpochInv, ReadyInv, PlayInv
<1>18. CASE Pend
  BY <1>1, <1>3, <1>18 DEF Pend, EpochInv, CallInv, ScoInv, ReadyInv, PlayInv
<1>19. CASE SendStart
  <2>1. PlayInv'
    BY <1>1, <1>19 DEF SendStart, Sends, EpochInv, PlayInv
  <2>. QED
    BY <1>1, <1>3, <1>19, <2>1 DEF SendStart, EpochInv, CallInv, ReadyInv
<1>20. CASE SendData
  BY <1>1, <1>3, <1>20 DEF SendData, EpochInv, CallInv, ReadyInv, PlayInv
<1>21. CASE StartTimeout
  BY <1>1, <1>3, <1>21 DEF StartTimeout, EpochInv, CallInv, ReadyInv, PlayInv
<1>. QED
  BY <1>4, <1>5, <1>6, <1>7, <1>8, <1>9, <1>10, <1>11, <1>12, <1>13, <1>14, <1>15, <1>16, <1>17,
     <1>18, <1>19, <1>20, <1>21 DEF BridgeStep

LEMMA NextIInv == IInv /\ [Next]_vars => IInv'
<1>. SUFFICES ASSUME IInv, [Next]_vars PROVE IInv'
  OBVIOUS
<1>1. CASE UNCHANGED vars
  BY <1>1 DEF vars, calls, mouth, armed, thread, IInv, Shape, ScoInv, MicInv, Heard, CallInv, EpochInv, ReadyInv, PlayInv
<1>. QED
  BY <1>1, ScoIInv, SessionIInv, MouthIInv, BridgeIInv DEF Next

\* What the car is told in a session's own epoch comes in order (DataInOrder).
THEOREM DataComesInOrder == Spec => []DataInOrder
<1>1. IInv => DataInOrder
  BY DEF IInv, CallInv, EpochInv, ReadyInv, PlayInv, DataInOrder, Sends, Own
<1>. QED
  BY <1>1, InitIInv, NextIInv, PTL DEF Spec

\* Neither side hears a call that is over, but for what of it was still on its way
\* when the uplink was emptied (AudioOfCall).
THEOREM AudioStaysInItsCall == Spec => []AudioOfCall
<1>1. IInv => AudioOfCall
  <2>. SUFFICES ASSUME IInv PROVE AudioOfCall
    OBVIOUS
  <2>1. sco.pc = "reading"
            => \A i \in DOMAIN uplink : uplink[i] = sco.call \/ uplink[i] \in crossing
    BY DEF IInv, MicInv, Heard
  <2>. QED
    BY <2>1 DEF IInv, CallInv, AudioOfCall
<1>. QED
  BY <1>1, InitIInv, NextIInv, PTL DEF Spec
=============================================================================
