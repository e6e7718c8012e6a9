------------------------------ MODULE Pipeline ------------------------------
(***************************************************************************)
(* The packets of one session (io_uring.rs, proxy in mitm.rs). Two readers *)
(* and two proxies, one of each for the car ("hu") and for the phone       *)
(* ("md"), are joined by four bounded queues:                              *)
(*                                                                         *)
(*     car -> reader -> rq.hu -> proxy hu -> xq.md -> proxy md -> phone    *)
(*     car <- proxy hu <- xq.hu <- proxy md <- rq.md <- reader <- phone    *)
(*                                                                         *)
(* A proxy is one task: while it waits for room in the other's queue it    *)
(* takes nothing from its own. With mitm the proxies first relay the       *)
(* version exchange and do a TLS handshake with their own end; then, and   *)
(* from the beginning without mitm, they take packets from both queues in  *)
(* any order. Requests from outside put packets directly into xq.md.       *)
(***************************************************************************)
EXTENDS Naturals, Sequences

CONSTANTS
    QueueCapacity,          \* MITM_QUEUE_CAPACITY
    Modes,                  \* the values of mitm
    MaxPackets, MaxInjected \* bounds

ASSUME QueueAssumption == QueueCapacity \in Nat \ {0}
ASSUME ModesAssumption == Modes \subseteq BOOLEAN
ASSUME PacketsAssumption == MaxPackets \in Nat /\ MaxInjected \in Nat

VARIABLES
    mitm,     \* the proxies look into the packets
    sent,     \* number of packets each end has sent
    read,     \* number the readers have taken from the ends
    rq,       \* queues from the readers to the proxies
    xq,       \* queues from one proxy to the other
    plan,     \* what each proxy has begun and not yet done
    hand,     \* the packet it does it with
    out,      \* what each end has received
    bytes,    \* the counter of each proxy
    last,     \* the counters at the monitor's last check
    injected, \* number of packets from outside
    over      \* a task of the session has failed

queueVars   == <<rq, xq>>
proxyVars   == <<plan, hand, out, bytes>>
pipelineVars == <<mitm, sent, read, queueVars, proxyVars, last, injected, over>>

Side == {"hu", "md"}
Other(p) == IF p = "hu" THEN "md" ELSE "hu"

\* src: the end that sent the packet, or the one that made it on the way.
Packet(s, k) == [src |-> s, n |-> k]
None  == Packet("none", 0)
Reply == Packet("proxy", 0)

\* Mutant: the car's proxy waits for the answer before it passes on the request.
HandshakeSwapped(p) ==
    IF p = "hu"
    THEN <<"read", "take", "send", "transmit",
           "read", "tls", "transmit", "read", "tls", "transmit">>
    ELSE <<"take", "transmit", "read", "send",
           "tls", "transmit", "read", "tls", "transmit", "read", "tls">>

\* The handshake, operation by operation: read takes from the own end's
\* reader, take from the other proxy, send gives to it.
Handshake(p) ==
    IF p = "hu"
    THEN <<"read", "send", "take", "transmit",
           "read", "tls", "transmit", "read", "tls", "transmit">>
    ELSE <<"take", "transmit", "read", "send",
           "tls", "transmit", "read", "tls", "transmit", "read", "tls">>

---------------------------------------------------------------------------
PipelineInit ==
    /\ mitm \in Modes
    /\ sent = [p \in Side |-> 0] /\ read = [p \in Side |-> 0]
    /\ rq = [p \in Side |-> <<>>] /\ xq = [p \in Side |-> <<>>]
    /\ plan = [p \in Side |-> IF mitm THEN Handshake(p) ELSE <<>>]
    /\ hand = [p \in Side |-> None] /\ out = [p \in Side |-> <<>>]
    /\ bytes = [p \in Side |-> 0] /\ last = [p \in Side |-> 0]
    /\ injected = 0 /\ over = FALSE

---------------------------------------------------------------------------
(* The two ends.                                                           *)

Answers(p) == Len(SelectSeq(out[p], LAMBDA x : x.src \in {Other(p), "proxy"}))

\* Version, two TLS messages, then whatever it likes: the car begins, and each
\* end waits for the answer to a message of the handshake.
MaySend(p) ==
    IF p = "hu" THEN Answers("hu") >= sent["hu"] \/ sent["hu"] >= 3
                ELSE Answers("md") > sent["md"] \/ sent["md"] >= 3

EndSends(p) ==
    /\ sent[p] < MaxPackets /\ MaySend(p)
    /\ sent' = [sent EXCEPT ![p] = @ + 1]
    /\ UNCHANGED <<mitm, read, queueVars, proxyVars, last, injected, over>>

---------------------------------------------------------------------------
(* The readers.                                                            *)

ReadPacket(p) ==
    /\ read[p] < sent[p] /\ Len(rq[p]) < QueueCapacity
    /\ read' = [read EXCEPT ![p] = @ + 1]
    /\ rq' = [rq EXCEPT ![p] = Append(@, Packet(p, read'[p]))]
    /\ UNCHANGED <<mitm, sent, xq, proxyVars, last, injected, over>>

---------------------------------------------------------------------------
(* The proxies.                                                            *)

Doing(p, op) == plan[p] # <<>> /\ Head(plan[p]) = op
Proceed(p) == plan' = [plan EXCEPT ![p] = Tail(@)]
Hold(p, x) == hand' = [hand EXCEPT ![p] = x]

PopReader(p) == rq[p] # <<>> /\ rq' = [rq EXCEPT ![p] = Tail(@)]
PopOther(p)  == xq[p] # <<>> /\ xq' = [xq EXCEPT ![p] = Tail(@)]

\* Waiting for a packet in the handshake.
Read(p) ==
    /\ Doing(p, "read") /\ PopReader(p) /\ Hold(p, Head(rq[p])) /\ Proceed(p)
    /\ UNCHANGED <<mitm, sent, read, xq, out, bytes, last, injected, over>>
Take(p) ==
    /\ Doing(p, "take") /\ PopOther(p) /\ Hold(p, Head(xq[p])) /\ Proceed(p)
    /\ UNCHANGED <<mitm, sent, read, rq, out, bytes, last, injected, over>>

\* A step of the TLS handshake yields the message for the own end.
Tls(p) ==
    /\ Doing(p, "tls") /\ Proceed(p)
    /\ Hold(p, IF Len(plan[p]) > 1 THEN Reply ELSE None)
    /\ UNCHANGED <<mitm, sent, read, queueVars, out, bytes, last, injected, over>>

\* tx.send(pkt).await
Send(p) ==
    /\ Doing(p, "send") /\ Len(xq[Other(p)]) < QueueCapacity
    /\ xq' = [xq EXCEPT ![Other(p)] = Append(@, hand[p])]
    /\ Hold(p, None) /\ Proceed(p)
    /\ UNCHANGED <<mitm, sent, read, rq, out, bytes, last, injected, over>>

\* Mutant: the packet is transmitted, but not taken for done.
TransmitAgain(p) ==
    /\ Doing(p, "forward") /\ Len(out[p]) < 3 * MaxPackets
    /\ out' = [out EXCEPT ![p] = Append(@, hand[p])]
    /\ bytes' = [bytes EXCEPT ![p] = @ + 1]
    /\ \/ Hold(p, None) /\ Proceed(p)
       \/ UNCHANGED <<hand, plan>>
    /\ UNCHANGED <<mitm, sent, read, queueVars, last, injected, over>>

\* Only the packets of the main loop are counted.
Transmit(p) ==
    /\ Doing(p, "transmit") \/ Doing(p, "forward")
    /\ out' = [out EXCEPT ![p] = Append(@, hand[p])]
    /\ bytes' = IF Doing(p, "forward") THEN [bytes EXCEPT ![p] = @ + 1] ELSE bytes
    /\ Hold(p, None) /\ Proceed(p)
    /\ UNCHANGED <<mitm, sent, read, queueVars, last, injected, over>>

\* The branches of the main loop's select. What pkt_modify_hook makes of a
\* packet (Forward, Drop, SendBack) is left open, but that replies are not replied to;
\* without mitm all is forwarded.
Begin(p, op, x) == Hold(p, x) /\ plan' = [plan EXCEPT ![p] = <<op>>]

FromOther(p) ==
    /\ plan[p] = <<>> /\ PopOther(p)
    /\ \/ Begin(p, "forward", Head(xq[p]))
       \/ mitm /\ UNCHANGED <<hand, plan>>
       \/ mitm /\ Head(xq[p]).src \in Side /\ Begin(p, "send", Reply)
    /\ UNCHANGED <<mitm, sent, read, rq, out, bytes, last, injected, over>>

FromReader(p) ==
    /\ plan[p] = <<>> /\ PopReader(p)
    /\ \/ Begin(p, "send", Head(rq[p]))
       \/ mitm /\ UNCHANGED <<hand, plan>>
    /\ UNCHANGED <<mitm, sent, read, xq, out, bytes, last, injected, over>>

---------------------------------------------------------------------------
(* Outside the proxies.                                                    *)

\* A request of the web server, of BLE or of the signal handler.
Inject ==
    /\ injected < MaxInjected /\ injected' = injected + 1
    /\ mitm /\ Len(xq["md"]) < QueueCapacity
    /\ xq' = [xq EXCEPT !["md"] = Append(@, Packet("inject", 0))]
    /\ UNCHANGED <<mitm, sent, read, rq, proxyVars, last, over>>

\* Mutant: the counters of the last check are not saved.
StallCheckForgets ==
    /\ over' = (\E p \in Side : bytes[p] = last[p])
    /\ UNCHANGED <<mitm, sent, read, queueVars, proxyVars, last, injected>>

\* transfer_monitor, every read_timeout: both directions must have moved.
StallCheck ==
    /\ IF \A p \in Side : bytes[p] > last[p]
       THEN last' = bytes /\ UNCHANGED over
       ELSE over' = TRUE /\ UNCHANGED last
    /\ UNCHANGED <<mitm, sent, read, queueVars, proxyVars, injected>>

\* A read, a write or a step of the TLS handshake fails, an action is requested
\* or a cable is plugged in: the first task to fail ends all.
TaskFails ==
    /\ over' = TRUE
    /\ UNCHANGED <<mitm, sent, read, queueVars, proxyVars, last, injected>>

---------------------------------------------------------------------------
Proxy(p) == \/ Read(p) \/ Take(p) \/ Tls(p) \/ Send(p) \/ Transmit(p)
            \/ FromOther(p) \/ FromReader(p)

PipelineNext ==
    /\ ~over
    /\ \/ Inject \/ StallCheck \/ TaskFails
       \/ \E p \in Side : EndSends(p) \/ ReadPacket(p) \/ Proxy(p)

PipelineSpec == PipelineInit /\ [][PipelineNext]_pipelineVars

\* Ends, readers and proxies do not sleep; the select takes either branch.
PipelineFairSpec ==
    /\ PipelineSpec
    /\ \A p \in Side : /\ WF_pipelineVars(~over /\ EndSends(p))
                       /\ WF_pipelineVars(~over /\ ReadPacket(p))
                       /\ WF_pipelineVars(~over /\ Proxy(p))

---------------------------------------------------------------------------
(* Properties.                                                             *)

\* The numbers of the packets of end p that x is, or that are in s.
Num(p, x) == IF x.src = p THEN {x.n} ELSE {}
Nums(p, s) == UNION {Num(p, s[i]) : i \in DOMAIN s}

\* Those on the way to the other end, the oldest first: with its proxy, queued
\* to that, with the own proxy, queued to that, and not yet read.
Flight(p) ==
    LET o == Other(p) IN
    Num(p, hand[o]) \cup Nums(p, xq[o]) \cup Num(p, hand[p]) \cup Nums(p, rq[p])
        \cup (read[p] + 1)..sent[p]

\* Those of end p in s, and where they are.
Places(p, s) == {[n |-> s[i].n, at |-> i] : i \in {j \in DOMAIN s : s[j].src = p}}
Arrived(p) == Places(p, out[Other(p)])

CarWire   == INSTANCE Wire WITH sent <- sent["hu"], flight <- Flight("hu"),
                                arrived <- Arrived("hu"), lossy <- mitm
PhoneWire == INSTANCE Wire WITH sent <- sent["md"], flight <- Flight("md"),
                                arrived <- Arrived("md"), lossy <- mitm

\* In both directions a session is a wire: readers, proxies and queues keep the
\* order and deliver nothing twice, and lose nothing without mitm.
Carries == CarWire!Spec /\ PhoneWire!Spec

\* Each proxy waits for room in the queue only the other can empty.
MutualBlock ==
    \A p \in Side : Doing(p, "send") /\ Len(xq[Other(p)]) = QueueCapacity

\* Unless a request got ahead of the version exchange or the session is over,
\* no packet stays on the way but in a mutual block.
PacketsMove ==
    \A p \in Side : Flight(p) # {} ~> Flight(p) = {} \/ MutualBlock \/ injected > 0 \/ over

\* The monitor, as it is scheduled at all, ends a session whose proxies block
\* each other (transfer_monitor).
BlockEnds == WF_pipelineVars(~over /\ StallCheck) => (MutualBlock ~> over)
=============================================================================
