--------------------------- MODULE CompanionProofs ---------------------------
(***************************************************************************)
(* What Companion guarantees for any number of topics, browsers, calls and *)
(* sessions and any capacity of the queues.                                *)
(***************************************************************************)
EXTENDS Companion, TLAPS

---------------------------------------------------------------------------
(* The inductive invariant.                                                *)

CallRecord == [sess : Nat, route : {"get", "inject"}, sent : Nat,
               pc : {"none", "calling", "sync", "sending", "done"}]
States == {"off", "recv", "hooks", "publish", "send"}

CallType ==
    /\ session \in Nat /\ hu \in {"idle", "hooks", "sync"}
    /\ calls \in [Calls -> CallRecord]
    /\ results \in [Calls -> Nat]
    /\ pc \in [Receivers -> States]

\* The queue holds packets of this session only.
PipeInv ==
    /\ \E S : pipe \in Seq(S)
    /\ \A i \in DOMAIN pipe : pipe[i].sess = session

\* The phone knows the number of a call, or is about to be told.
Announced(c) == c \in known \/ \E i \in DOMAIN pipe : pipe[i].kind = "called" /\ pipe[i].arg = c

\* A result in the queue is behind the number of its call.
OrderInv ==
    \A i \in DOMAIN pipe : pipe[i].kind = "result" =>
        \/ pipe[i].arg \in known
        \/ \E j \in DOMAIN pipe : j < i /\ pipe[j].kind = "called" /\ pipe[j].arg = pipe[i].arg

QueueInv == PipeInv /\ OrderInv

\* A task of this session that may still send has been announced.
TaskInv ==
    \A c \in Calls :
        /\ calls[c].sess <= session
        /\ up /\ calls[c].sess = session /\ calls[c].pc \in {"calling", "sending"} => Announced(c)

\* The proxy that waits for a synchronous call waits for one, in a session.
SyncInv ==
    /\ hu = "sync" => up
    /\ \A c \in Calls : calls[c].pc = "sync" => hu = "sync"
    /\ \A c, d \in Calls : calls[c].pc = "sync" /\ calls[d].pc = "sync" => c = d

EndInv == ~up => pipe = <<>> /\ pc["bridge"] = "off"

IInv == CallType /\ QueueInv /\ TaskInv /\ SyncInv /\ EndInv /\ ResultsAreKnown

---------------------------------------------------------------------------
(* The queue.                                                              *)

\* A packet that enters keeps the order, if a result is announced.
LEMMA Appended ==
  ASSUME QueueInv, NEW x, x.sess = session, pipe' = Append(pipe, x), session' = session,
         known' = known, x.kind = "result" => Announced(x.arg)
  PROVE  /\ QueueInv'
         /\ \A c : Announced(c) => Announced(c)'
         /\ x.kind = "called" => Announced(x.arg)'
<1>1. PICK S : pipe \in Seq(S)
  BY DEF QueueInv, PipeInv
<1>2. pipe \in Seq(S \cup {x})
  BY <1>1
<1>3. /\ pipe' \in Seq(S \cup {x}) /\ DOMAIN pipe = 1..Len(pipe) /\ Len(pipe) \in Nat
      /\ DOMAIN pipe' = 1..Len(pipe) + 1
      /\ pipe'[Len(pipe) + 1] = x /\ \A i \in DOMAIN pipe : pipe'[i] = pipe[i]
  BY <1>2
<1>4. PipeInv'
  BY <1>3 DEF QueueInv, PipeInv
<1>5. \A c : Announced(c) => Announced(c)'
  BY <1>3 DEF Announced
<1>6. x.kind = "called" => Announced(x.arg)'
  BY <1>3 DEF Announced
<1>7. OrderInv'
  <2>. SUFFICES ASSUME NEW i \in DOMAIN pipe', pipe'[i].kind = "result"
                PROVE  \/ pipe'[i].arg \in known
                       \/ \E j \in DOMAIN pipe' : /\ j < i /\ pipe'[j].kind = "called"
                                                  /\ pipe'[j].arg = pipe'[i].arg
    BY DEF OrderInv
  <2>1. CASE i \in DOMAIN pipe
    BY <1>3, <2>1 DEF QueueInv, OrderInv
  <2>2. CASE i = Len(pipe) + 1
    BY <1>3, <2>2 DEF Announced
  <2>. QED
    BY <1>3, <2>1, <2>2
<1>. QED
  BY <1>4, <1>5, <1>6, <1>7 DEF QueueInv

\* So does one that leaves, if what it tells is known from then on.
LEMMA Taken ==
  ASSUME QueueInv, pipe # <<>>, pipe' = Tail(pipe), session' = session, known \subseteq known',
         Head(pipe).kind = "called" => Head(pipe).arg \in known'
  PROVE  /\ QueueInv' /\ \A c : Announced(c) => Announced(c)'
         /\ Head(pipe).kind = "result" => Head(pipe).arg \in known
<1>1. PICK S : pipe \in Seq(S)
  BY DEF QueueInv, PipeInv
<1>2. /\ pipe' \in Seq(S) /\ DOMAIN pipe = 1..Len(pipe) /\ Len(pipe) \in Nat /\ Len(pipe) > 0
      /\ DOMAIN pipe' = 1..Len(pipe) - 1 /\ Head(pipe) = pipe[1]
      /\ \A i \in DOMAIN pipe' : pipe'[i] = pipe[i + 1]
  BY <1>1
<1>3. PipeInv'
  BY <1>2 DEF QueueInv, PipeInv
<1>4. ASSUME NEW i \in DOMAIN pipe, pipe[i].kind = "called"
      PROVE  pipe[i].arg \in known' \/ (i - 1 \in DOMAIN pipe' /\ pipe'[i - 1] = pipe[i])
  <2>1. CASE i = 1
    BY <1>2, <1>4, <2>1
  <2>2. CASE i # 1
    <3>1. i - 1 \in 1..Len(pipe) - 1 /\ (i - 1) + 1 = i
      BY <1>2, <2>2
    <3>. QED
      BY <1>2, <3>1
  <2>. QED
    BY <2>1, <2>2
<1>5. \A c : Announced(c) => Announced(c)'
  BY <1>4 DEF Announced
<1>6. OrderInv'
  <2>. SUFFICES ASSUME NEW i \in DOMAIN pipe', pipe'[i].kind = "result", pipe'[i].arg \notin known'
                PROVE  \E j \in DOMAIN pipe' : /\ j < i /\ pipe'[j].kind = "called"
                                               /\ pipe'[j].arg = pipe'[i].arg
    BY DEF OrderInv
  <2>1. i + 1 \in DOMAIN pipe /\ pipe[i + 1] = pipe'[i]
    BY <1>2
  <2>2. PICK j \in DOMAIN pipe : /\ j < i + 1 /\ pipe[j].kind = "called"
                                 /\ pipe[j].arg = pipe[i + 1].arg
    BY <2>1 DEF QueueInv, OrderInv
  <2>3. j - 1 \in DOMAIN pipe' /\ pipe'[j - 1] = pipe[j]
    BY <1>4, <2>1, <2>2
  <2>. QED
    BY <1>2, <2>1, <2>2, <2>3
<1>7. Head(pipe).kind = "result" => Head(pipe).arg \in known
  BY <1>2 DEF QueueInv, OrderInv
<1>. QED
  BY <1>3, <1>5, <1>6, <1>7 DEF QueueInv

---------------------------------------------------------------------------
LEMMA InitIInv == Init => IInv
<1>. SUFFICES ASSUME Init PROVE IInv
  OBVIOUS
<1>1. pipe = <<>> /\ session = 0 /\ ~up /\ pc["bridge"] = "off" /\ hu = "idle"
  BY DEF Init, Receivers
<1>2. \A c \in Calls : calls[c] = NoCall /\ results[c] = 0
  BY DEF Init
<1>3. CallType
  BY DEF Init, CallType, CallRecord, States, NoCall
<1>4. QueueInv
  <2>1. pipe \in Seq({}) /\ DOMAIN pipe = {}
    BY <1>1
  <2>. QED
    BY <2>1 DEF QueueInv, PipeInv, OrderInv
<1>. QED
  BY <1>1, <1>2, <1>3, <1>4 DEF IInv, TaskInv, SyncInv, EndInv, ResultsAreKnown, NoCall

\* One receiver at most changes its state, and not the bridge between sessions.
ReceiverStep ==
    \/ pc' = pc
    \/ \E r \in Receivers, state \in States :
          pc' = [pc EXCEPT ![r] = state] /\ (r = "bridge" => up)

\* A step of a call that has begun leaves its session alone and ends no wait.
LEMMA CallMoves ==
  ASSUME IInv, NEW c \in Calls, NEW call, NEW n \in Nat, NEW q \in {"sending", "done"},
         call = [calls[c] EXCEPT !.pc = q, !.sent = n] \/ call = [calls[c] EXCEPT !.pc = q],
         q = "done" \/ calls[c].pc \in {"calling", "sending"},
         calls' = [calls EXCEPT ![c] = call], UNCHANGED <<session, hu, pc, results>>
  PROVE  /\ CallType'
         /\ \A d \in Calls :
              /\ calls'[d].sess = calls[d].sess
              /\ (calls'[d].pc = "sync" => calls[d].pc = "sync")
              /\ (calls'[d].pc \in {"calling", "sending"} => calls[d].pc \in {"calling", "sending"})
<1>1. PICK old \in CallRecord : old = calls[c]
  BY DEF IInv, CallType, CallRecord, States
<1>2. call \in CallRecord /\ call.sess = old.sess /\ call.pc = q
  <2>1. CASE call = [old EXCEPT !.pc = q, !.sent = n]
    BY <2>1 DEF CallRecord
  <2>2. CASE call = [old EXCEPT !.pc = q]
    BY <2>2 DEF CallRecord
  <2>. QED
    BY <1>1, <2>1, <2>2
<1>3. CallType' /\ calls'[c] = call /\ \A d \in Calls \ {c} : calls'[d] = calls[d]
  BY <1>2 DEF IInv, CallType, CallRecord, States
<1>. QED
  BY <1>1, <1>2, <1>3

\* What a step must do to the queue and the calls to keep the invariant.
LEMMA QuietStep ==
  ASSUME IInv, QueueInv', \A c \in Calls : Announced(c) => Announced(c)',
         UNCHANGED <<session, up, calls, results>>, known \subseteq known',
         hu' = hu \/ (hu # "sync" /\ hu' \in {"idle", "hooks"}),
         ~up => pipe' = pipe, ReceiverStep
  PROVE  IInv'
<1>1. /\ pc' \in [Receivers -> States]
      /\ ~up => pc'["bridge"] = pc["bridge"]
  BY DEF ReceiverStep, IInv, CallType, CallRecord, States, Receivers
<1>. QED
  BY <1>1 DEF IInv, CallType, CallRecord, States, TaskInv, SyncInv, EndInv, ResultsAreKnown

LEMMA NextIInv == IInv /\ [Next]_vars => IInv'
<1>. SUFFICES ASSUME IInv, [Next]_vars PROVE IInv'
  OBVIOUS
<1>. USE DEF linkVars, busVars, phoneVars, clientVars
<1>0. ASSUME UNCHANGED <<pipe, session, known>>
      PROVE  QueueInv' /\ \A c \in Calls : Announced(c) => Announced(c)'
  BY <1>0 DEF IInv, QueueInv, PipeInv, OrderInv, Announced
<1>1. CASE OpenChannel
  <2>1. /\ pipe' = Append(pipe, [who |-> Hu, kind |-> "reply", arg |-> 0, sess |-> session])
        /\ up /\ UNCHANGED <<session, known, up, calls, results>>
        /\ hu # "sync" /\ hu' \in {"idle", "hooks"} /\ ReceiverStep
    BY <1>1 DEF OpenChannel, Request, ReceiverStep, Receivers, Input, EnsureBridge,
           Running, Enqueue, Reply, IInv, CallType, CallRecord, States
  <2>2. QueueInv' /\ \A c \in Calls : Announced(c) => Announced(c)'
    BY <2>1, Appended DEF IInv
  <2>. QED
    BY <2>1, <2>2, QuietStep
<1>2. CASE Ask
  <2>1. /\ pipe' = Append(pipe, [who |-> Hu, kind |-> "reply", arg |-> 0, sess |-> session])
        /\ up /\ UNCHANGED <<session, known, up, calls, results>>
        /\ hu # "sync" /\ hu' \in {"idle", "hooks"} /\ ReceiverStep
    BY <1>2 DEF Ask, ReceiverStep, Receivers, Request, Input, Running, Enqueue, Reply,
           IInv, CallType, CallRecord, States
  <2>2. QueueInv' /\ \A c \in Calls : Announced(c) => Announced(c)'
    BY <2>1, Appended DEF IInv
  <2>. QED
    BY <2>1, <2>2, QuietStep
<1>3. ASSUME NEW t \in Topics, Subscribe(t) PROVE IInv'
  <2>1. /\ pipe' = Append(pipe, [who |-> Hu, kind |-> "subscribed", arg |-> t, sess |-> session])
        /\ up /\ UNCHANGED <<session, known, up, calls, results>>
        /\ hu # "sync" /\ hu' \in {"idle", "hooks"}
    BY <1>3 DEF Subscribe, Request, Input, Running, Enqueue, Reply, IInv, CallType,
           CallRecord, States
  <2>3. ReceiverStep
    BY <1>3 DEF Subscribe, ReceiverStep, States, EnsureBridge, Request, Input, Running,
           Receivers
  <2>2. QueueInv' /\ \A c \in Calls : Announced(c) => Announced(c)'
    BY <2>1, Appended DEF IInv
  <2>. QED
    BY <2>1, <2>2, <2>3, QuietStep
<1>4. ASSUME NEW t \in Topics, Unsubscribe(t) PROVE IInv'
  <2>1. /\ pipe' = Append(pipe, [who |-> Hu, kind |-> "unsubscribed", arg |-> t, sess |-> session])
        /\ up /\ UNCHANGED <<session, known, up, calls, results>>
        /\ hu # "sync" /\ hu' \in {"idle", "hooks"}
    BY <1>4 DEF Unsubscribe, Request, Input, Running, Enqueue, Reply, IInv, CallType,
           CallRecord, States
  <2>3. ReceiverStep
    BY <1>4 DEF Unsubscribe, ReceiverStep, States, Receivers
  <2>2. QueueInv' /\ \A c \in Calls : Announced(c) => Announced(c)'
    BY <2>1, Appended DEF IInv
  <2>. QED
    BY <2>1, <2>2, <2>3, QuietStep
<1>5. CASE PublishScriptEvent
  <2>1. /\ pipe' = Append(pipe, [who |-> Hu, kind |-> "reply", arg |-> 0, sess |-> session])
        /\ up /\ UNCHANGED <<session, known, up, calls, results>>
        /\ hu # "sync" /\ hu' \in {"idle", "hooks"} /\ ReceiverStep
    BY <1>5 DEF PublishScriptEvent, ReceiverStep, Receivers, Running, Enqueue, Reply,
           IInv, CallType, CallRecord, States
  <2>2. QueueInv' /\ \A c \in Calls : Announced(c) => Announced(c)'
    BY <2>1, Appended DEF IInv
  <2>. QED
    BY <2>1, <2>2, QuietStep
<1>6. CASE BridgeSend
  <2>1. /\ pipe' = Append(pipe, [who |-> Bridge, kind |-> "event", arg |-> cur["bridge"],
                                sess |-> session])
        /\ up /\ UNCHANGED <<session, known, up, calls, results>>
        /\ hu # "sync" /\ hu' \in {"idle", "hooks"} /\ ReceiverStep
    BY <1>6 DEF BridgeSend, ReceiverStep, Receivers, Running, Enqueue, Reply, IInv,
           CallType, CallRecord, States
  <2>2. QueueInv' /\ \A c \in Calls : Announced(c) => Announced(c)'
    BY <2>1, Appended DEF IInv
  <2>. QED
    BY <2>1, <2>2, QuietStep
<1>7. ASSUME NEW t \in Topics, ScriptEvent(t) PROVE IInv'
  BY <1>7, <1>0, QuietStep DEF ReceiverStep, States, ScriptEvent, Request, Input, Running
<1>8. CASE BeginSession
  <2>1. ~up /\ session' = session + 1 /\ up' /\ UNCHANGED <<pipe, hu, pc, calls, known, results>>
    BY <1>8 DEF BeginSession
  <2>2. pipe = <<>>
    BY <2>1 DEF IInv, EndInv
  <2>3. QueueInv'
    BY <2>1, <2>2 DEF QueueInv, PipeInv, OrderInv
  <2>. QED
    BY <2>1, <2>3 DEF IInv, CallType, CallRecord, States, TaskInv, SyncInv, EndInv,
           ResultsAreKnown
<1>9. CASE EndSession
  <2>1. /\ pipe' = <<>> /\ ~up' /\ hu # "sync" /\ hu' = "idle"
        /\ pc' = [pc EXCEPT !["bridge"] = "off"]
        /\ results' = [c \in Calls |-> 0] /\ UNCHANGED <<session, calls>>
    BY <1>9 DEF EndSession, Running, Reset
  <2>2. QueueInv'
    BY <2>1 DEF QueueInv, PipeInv, OrderInv
  <2>3. EndInv' /\ pc' \in [Receivers -> States]
    BY <2>1 DEF EndInv, IInv, CallType, CallRecord, States, Receivers
  <2>. QED
    BY <2>1, <2>2, <2>3 DEF IInv, CallType, CallRecord, States, TaskInv, SyncInv,
           ResultsAreKnown
<1>10. ASSUME NEW route \in Routes, RestCall(route) PROVE IInv'
  <2>1. PICK c \in Calls :
          /\ pipe' = Append(pipe, [who |-> Hu, kind |-> "called", arg |-> c, sess |-> session])
          /\ calls[c] = NoCall
          /\ calls' = [calls EXCEPT ![c] = [sess |-> session, route |-> route, pc |-> "calling",
                                            sent |-> 0]]
    BY <1>10 DEF RestCall, NewCall, Reply, Enqueue
  <2>2. up /\ hu = "idle" /\ UNCHANGED <<session, up, hu, pc, known, results>>
    BY <1>10 DEF RestCall, NewCall, Request, Input, Running
  <2>3. QueueInv' /\ (\A d \in Calls : Announced(d) => Announced(d)') /\ Announced(c)'
    BY <2>1, <2>2, Appended DEF IInv
  <2>4. CallType'
    BY <2>1, <2>2, RoutesAssumption DEF IInv, CallType, CallRecord, States
  <2>5. TaskInv'
    BY <2>1, <2>2, <2>3 DEF IInv, CallType, CallRecord, States, TaskInv
  <2>. QED
    BY <2>1, <2>2, <2>3, <2>4, <2>5 DEF IInv, CallType, CallRecord, States, SyncInv,
           EndInv, ResultsAreKnown
<1>11. ASSUME NEW route \in SyncRoutes, RestCallSync(route) PROVE IInv'
  <2>1. PICK c \in Calls : calls' = [calls EXCEPT ![c] = [sess |-> session, route |-> route,
                                                          pc |-> "sync", sent |-> 0]]
    BY <1>11 DEF RestCallSync, NewCall
  <2>2. /\ up /\ hu = "idle" /\ hu' = "sync" /\ UNCHANGED <<session, up, pc, pipe, known, results>>
    BY <1>11 DEF RestCallSync, NewCall, Request, Input, Running
  <2>3. QueueInv' /\ \A d \in Calls : Announced(d) => Announced(d)'
    BY <2>2, <1>0
  <2>4. CallType'
    BY <2>1, <2>2, RoutesAssumption DEF IInv, CallType, CallRecord, States
  <2>. QED
    BY <2>1, <2>2, <2>3, <2>4 DEF IInv, CallType, CallRecord, States, TaskInv, SyncInv,
           EndInv, ResultsAreKnown
<1>12. ASSUME NEW c \in Calls, HandleInject(c) PROVE IInv'
  <2>1. /\ calls' = [calls EXCEPT ![c] = [calls[c] EXCEPT !.sent = 1]]
        /\ UNCHANGED <<session, up, hu, pc, known, results>>
    BY <1>12 DEF HandleInject
  <2>2. QueueInv' /\ \A d \in Calls : Announced(d) => Announced(d)'
    <3>1. CASE up
      <4>1. pipe' = Append(pipe, [who |-> Web(c), kind |-> "injected", arg |-> 0, sess |-> session])
        BY <1>12, <3>1 DEF HandleInject, Enqueue
      <4>. QED
        BY <2>1, <4>1, Appended DEF IInv
    <3>2. CASE ~up
      BY <1>12, <1>0, <3>2 DEF HandleInject
    <3>. QED
      BY <3>1, <3>2
  <2>3. ~up => pipe' = pipe
    BY <1>12 DEF HandleInject
  <2>4. CallType' /\ \A d \in Calls : calls'[d].sess = calls[d].sess /\ calls'[d].pc = calls[d].pc
    BY <2>1 DEF IInv, CallType, CallRecord, States
  <2>. QED
    BY <2>1, <2>2, <2>3, <2>4 DEF IInv, TaskInv, SyncInv, EndInv, ResultsAreKnown
<1>13. ASSUME NEW c \in Calls, CallReturns(c) \/ SendFails(c) PROVE IInv'
  <2>1. UNCHANGED <<pipe, session, up, hu, pc, known, results>>
    BY <1>13 DEF CallReturns, SendFails
  <2>2. CallType' /\ \A d \in Calls :
          /\ calls'[d].sess = calls[d].sess
          /\ (calls'[d].pc = "sync" => calls[d].pc = "sync")
          /\ (calls'[d].pc \in {"calling", "sending"} => calls[d].pc \in {"calling", "sending"})
    <3>1. CASE CallReturns(c)
      <4>1. PICK call : call = [calls[c] EXCEPT !.pc = "sending", !.sent = 0]
        OBVIOUS
      <4>2. calls[c].pc = "calling" /\ calls' = [calls EXCEPT ![c] = call]
        BY <3>1, <4>1 DEF CallReturns, IInv, CallType, CallRecord, States
      <4>. QED
        BY <2>1, <4>1, <4>2, CallMoves
    <3>2. CASE SendFails(c)
      <4>1. PICK call : call = [calls[c] EXCEPT !.pc = "done"]
        OBVIOUS
      <4>2. calls' = [calls EXCEPT ![c] = call]
        BY <3>2, <4>1 DEF SendFails
      <4>. QED
        BY <2>1, <4>1, <4>2, CallMoves
    <3>. QED
      BY <1>13, <3>1, <3>2
  <2>. QED
    BY <2>1, <2>2, <1>0 DEF IInv, TaskInv, SyncInv, EndInv, ResultsAreKnown
<1>14. ASSUME NEW c \in Calls, SyncReturns(c) PROVE IInv'
  <2>1. /\ pipe' = Append(pipe, [who |-> Hu, kind |-> "reply", arg |-> 0, sess |-> session])
        /\ calls[c].pc = "sync" /\ calls' = [calls EXCEPT ![c] = [calls[c] EXCEPT !.pc = "done"]]
        /\ hu' = "idle" /\ UNCHANGED <<session, up, pc, known, results>>
    BY <1>14 DEF SyncReturns, Reply, Enqueue
  <2>2. QueueInv' /\ \A d \in Calls : Announced(d) => Announced(d)'
    BY <2>1, Appended DEF IInv
  <2>3. up /\ \A d \in Calls \ {c} : calls[d].pc # "sync"
    BY <2>1 DEF IInv, SyncInv
  <2>. QED
    BY <2>1, <2>2, <2>3 DEF IInv, CallType, CallRecord, States, TaskInv, SyncInv,
           EndInv, ResultsAreKnown
<1>15. ASSUME NEW c \in Calls, SendChunk(c) PROVE IInv'
  <2>1. /\ pipe' = Append(pipe, [who |-> Task(c), kind |-> "result", arg |-> c, sess |-> session])
        /\ up /\ calls[c].pc = "sending" /\ calls[c].sess = session
        /\ UNCHANGED <<session, up, hu, pc, known, results>>
    BY <1>15 DEF SendChunk, Running, Enqueue
  <2>2. Announced(c)
    BY <2>1 DEF IInv, TaskInv
  <2>3. QueueInv' /\ \A d \in Calls : Announced(d) => Announced(d)'
    BY <2>1, <2>2, Appended DEF IInv
  <2>4. CallType' /\ \A d \in Calls :
          /\ calls'[d].sess = calls[d].sess
          /\ (calls'[d].pc = "sync" => calls[d].pc = "sync")
          /\ (calls'[d].pc \in {"calling", "sending"} => calls[d].pc \in {"calling", "sending"})
    <3>1. PICK q \in {"sending", "done"} :
            calls' = [calls EXCEPT ![c] = [calls[c] EXCEPT !.pc = q, !.sent = calls[c].sent + 1]]
      BY <1>15, <2>1 DEF SendChunk, IInv, CallType, CallRecord, States
    <3>2. PICK call : call = [calls[c] EXCEPT !.pc = q, !.sent = calls[c].sent + 1]
      OBVIOUS
    <3>3. calls' = [calls EXCEPT ![c] = call] /\ calls[c].sent + 1 \in Nat
      BY <3>1, <3>2 DEF IInv, CallType, CallRecord, States
    <3>. QED
      BY <2>1, <3>2, <3>3, CallMoves
  <2>. QED
    BY <2>1, <2>3, <2>4 DEF IInv, TaskInv, SyncInv, EndInv, ResultsAreKnown
<1>16. ASSUME NEW r \in Receivers, Recv(r) \/ Replaced(r) PROVE IInv'
  <2>1. ReceiverStep
    BY <1>16 DEF ReceiverStep, States, Recv, Replaced, Publish, Lives, Running
  <2>. QED
    BY <1>16, <1>0, <2>1, QuietStep DEF Recv, Replaced, Publish
<1>17. ASSUME NEW s \in Sockets, Forward(s) \/ SocketPublish(s) PROVE IInv'
  <2>1. ReceiverStep
    BY <1>17, SocketsAssumption DEF ReceiverStep, States, Receivers, Forward, SocketPublish
  <2>. QED
    BY <1>17, <1>0, <2>1, QuietStep DEF Forward, SocketPublish, Publish, Hear
<1>18. CASE BridgeSent
  <2>1. ReceiverStep
    BY <1>18 DEF ReceiverStep, States, Receivers, BridgeSent, Running
  <2>. QED
    BY <1>18, <1>0, <2>1, QuietStep DEF BridgeSent
<1>19. ASSUME NEW s \in Sockets, Connect(s) \/ Disconnect(s) PROVE IInv'
  <2>1. ReceiverStep
    <3>1. s \in Receivers /\ s # "bridge"
      BY SocketsAssumption DEF Receivers
    <3>2. \E state \in {"off", "recv"} : pc' = [pc EXCEPT ![s] = state]
      BY <1>19 DEF Connect, Disconnect, Reset
    <3>. QED
      BY <3>1, <3>2 DEF ReceiverStep, States
  <2>. QED
    BY <1>19, <1>0, <2>1, QuietStep DEF Connect, Disconnect, Reset, Input
<1>20. ASSUME NEW s \in Sockets, NEW t \in Topics,
         SocketSubscribe(s, t) \/ SocketUnsubscribe(s, t) \/ SocketEvent(s, t)
      PROVE  IInv'
  <2>1. ReceiverStep
    BY <1>20, SocketsAssumption DEF ReceiverStep, States, Receivers, SocketSubscribe,
           SocketUnsubscribe,
           SocketEvent
  <2>. QED
    BY <1>20, <1>0, <2>1, QuietStep DEF SocketSubscribe, SocketUnsubscribe,
           SocketEvent, Input
<1>21. ASSUME NEW t \in Topics, PublishRaw(t) PROVE IInv'
  BY <1>21, <1>0, QuietStep DEF ReceiverStep, States, PublishRaw, Publish, Input
<1>22. CASE TakeReply \/ TakeSubscribed \/ TakeUnsubscribed \/ TakeEvent \/ TakeCalled
  <2>1. /\ pipe # <<>> /\ pipe' = Tail(pipe) /\ up
        /\ UNCHANGED <<session, up, hu, pc, calls, results>>
        /\ known \subseteq known' /\ (Head(pipe).kind = "called" => Head(pipe).arg \in known')
    BY <1>22 DEF TakeReply, TakeSubscribed, TakeUnsubscribed, TakeEvent, TakeCalled, Take,
           Running, Arg, Hear
  <2>2. QueueInv' /\ \A c \in Calls : Announced(c) => Announced(c)'
    BY <2>1, Taken DEF IInv
  <2>. QED
    BY <2>1, <2>2, QuietStep DEF ReceiverStep, States
<1>23. CASE TakeResult
  <2>1. /\ pipe # <<>> /\ pipe' = Tail(pipe) /\ up
        /\ UNCHANGED <<session, up, hu, pc, calls, known>>
        /\ Head(pipe).kind = "result"
        /\ results' = [results EXCEPT ![Head(pipe).arg] = results[Head(pipe).arg] + 1]
    BY <1>23 DEF TakeResult, Take, Running, Arg
  <2>2. /\ QueueInv' /\ \A c \in Calls : Announced(c) => Announced(c)'
        /\ Head(pipe).arg \in known
    BY <2>1, Taken DEF IInv
  <2>3. \A c \in Calls : results'[c] > 0 => c \in known
    BY <2>1, <2>2 DEF IInv, CallType, CallRecord, States, ResultsAreKnown
  <2>4. results' \in [Calls -> Nat]
    <3>1. CASE Head(pipe).arg \in Calls
      BY <2>1, <3>1 DEF IInv, CallType, CallRecord, States
    <3>2. CASE Head(pipe).arg \notin Calls
      BY <2>1, <3>2 DEF IInv, CallType, CallRecord, States
    <3>. QED
      BY <3>1, <3>2
  <2>. QED
    BY <2>1, <2>2, <2>3, <2>4 DEF IInv, CallType, CallRecord, States, TaskInv, SyncInv,
           EndInv, ResultsAreKnown
<1>24. CASE UNCHANGED vars
  BY <1>24, <1>0, QuietStep DEF vars, ReceiverStep, States
<1>. QED
  BY <1>1, <1>2, <1>3, <1>4, <1>5, <1>6, <1>7, <1>8, <1>9, <1>10, <1>11, <1>12, <1>13,
         <1>14,
         <1>15, <1>16, <1>17, <1>18, <1>19, <1>20, <1>21, <1>22, <1>23, <1>24 DEF Next, Phone,
         Deliver, Rest, Receive, Browser, Forward

\* Nothing an earlier session left behind reaches the phone (OwnSession).
THEOREM SessionsApart == Spec => []OwnSession
<1>1. IInv => OwnSession
  BY DEF IInv, QueueInv, PipeInv, EndInv, OwnSession
<1>. QED
  BY <1>1, InitIInv, NextIInv, PTL DEF Spec

\* No part of a result comes before the number of its call (ResultsAreKnown).
THEOREM NumbersComeFirst == Spec => []ResultsAreKnown
<1>1. IInv => ResultsAreKnown
  BY DEF IInv
<1>. QED
  BY <1>1, InitIInv, NextIInv, PTL DEF Spec

---------------------------------------------------------------------------
(* Events: where an event is that has not been published, and where its    *)
(* copies are that have.                                                   *)

\* The publisher of the event still has it, with the scripts.
Pending(i) == doing.id = i \/ \E s \in Sockets : pc[s] = "publish" /\ cur[s].id = i

\* A copy of it as its publisher sent it is in the receiver, in the scripts, in the
\* queue to the phone.
Sent(e, i)   == e.id = i /\ e.rewrites = 0
Queued(r, i) == \E j \in DOMAIN rx[r] : Sent(rx[r][j], i)
Held(r, i)   == pc[r] = "hooks" /\ Sent(cur[r], i)
SentTo(r, i) ==
    r = "bridge" /\ \E j \in DOMAIN pipe : pipe[j].kind = "event" /\ Sent(pipe[j].arg, i)
Met(r, i) == Queued(r, i) \/ Held(r, i) \/ SentTo(r, i) \/ heard[r][i] > 0

EventType ==
    /\ used \in Nat /\ used <= MaxEvents /\ replaced \subseteq Ids /\ \A i \in replaced : i <= used
    /\ hu = "hooks" => doing \in Events
    /\ hu # "hooks" => doing = NoEvent
    /\ rx \in [Receivers -> Seq(Events)]
    /\ DOMAIN cur = Receivers
    /\ \A r \in Receivers : pc[r] \in {"hooks", "publish"} => cur[r] \in Events
    /\ heard \in [Receivers -> [Ids -> Nat]]
    /\ \A j \in DOMAIN pipe : pipe[j].kind = "event" => pipe[j].arg \in Events

\* Of an event with its publisher there is no copy, and one publisher has it.
PendingInv ==
    /\ \A i \in Ids : Pending(i) => i \notin replaced /\ i <= used /\ \A r \in Receivers : ~Met(r, i)
    /\ \A s \in Sockets : pc[s] = "publish" => cur[s].id # doing.id
    /\ \A s, q \in Sockets :
          pc[s] = "publish" /\ pc[q] = "publish" /\ cur[s].id = cur[q].id => s = q

UsedInv == \A r \in Receivers, i \in Ids : Met(r, i) => i <= used

\* What the publisher's scripts replaced was not published.
ReplacedInv == \A r \in Receivers, i \in replaced : ~Met(r, i)

\* Each receiver has one copy at most, in one place.
Once(r, i) ==
    /\ \A j, k \in DOMAIN rx[r] : Sent(rx[r][j], i) /\ Sent(rx[r][k], i) => j = k
    /\ Queued(r, i) => ~Held(r, i) /\ ~SentTo(r, i) /\ heard[r][i] = 0
    /\ Held(r, i) => ~SentTo(r, i) /\ heard[r][i] = 0
    /\ SentTo(r, i) => heard[r][i] = 0
    /\ heard[r][i] <= 1

PipeOnce ==
    \A j, k \in DOMAIN pipe :
        /\ pipe[j].kind = "event" /\ pipe[k].kind = "event"
        /\ pipe[j].arg.id = pipe[k].arg.id
        /\ pipe[j].arg.rewrites = 0 /\ pipe[k].arg.rewrites = 0
        => j = k

OnceInv == PipeOnce /\ \A r \in Receivers, i \in Ids : Once(r, i)

EInv == EventType /\ PendingInv /\ UsedInv /\ ReplacedInv /\ OnceInv

---------------------------------------------------------------------------
(* The queue to the phone and the receivers as places of copies.           *)

LEMMA AppendedAt ==
  ASSUME PipeInv, NEW x, pipe' = Append(pipe, x)
  PROVE  /\ DOMAIN pipe = 1..Len(pipe) /\ Len(pipe) \in Nat /\ DOMAIN pipe' = 1..Len(pipe) + 1
         /\ pipe'[Len(pipe) + 1] = x /\ \A j \in DOMAIN pipe : pipe'[j] = pipe[j]
         /\ Len(pipe') = Len(pipe) + 1
<1>1. PICK S : pipe \in Seq(S)
  BY DEF PipeInv
<1>2. pipe \in Seq(S \cup {x})
  BY <1>1
<1>. QED
  BY <1>2

LEMMA TakenAt ==
  ASSUME PipeInv, pipe # <<>>, pipe' = Tail(pipe)
  PROVE  /\ DOMAIN pipe = 1..Len(pipe) /\ Len(pipe) \in Nat \ {0}
         /\ DOMAIN pipe' = 1..Len(pipe) - 1 /\ Len(pipe') = Len(pipe) - 1
         /\ Head(pipe) = pipe[1] /\ \A j \in DOMAIN pipe' : pipe'[j] = pipe[j + 1]
BY DEF PipeInv

LEMMA RewrittenIs ==
  ASSUME NEW e \in Events, e.rewrites < MaxRewrites
  PROVE  /\ Rewritten(e) \in Events /\ Rewritten(e).id = e.id
         /\ Rewritten(e).topic = e.topic /\ Rewritten(e).rewrites > 0
BY RewritesAssumption DEF Rewritten, Events

LEMMA ScriptedIs ==
  ASSUME NEW e \in Events, NEW v \in Scripted(e)
  PROVE  /\ v \in Events /\ v.id = e.id /\ v.topic = e.topic
         /\ v = e \/ v.rewrites > 0
BY RewrittenIs DEF Scripted

\* What a step may do to the queue without another event in it.
PipeFades ==
    \/ pipe' = pipe
    \/ pipe' = <<>>
    \/ \E x : pipe' = Append(pipe, x) /\ x.kind # "event"
    \/ pipe # <<>> /\ pipe' = Tail(pipe)

LEMMA PipeFading ==
  ASSUME PipeInv, PipeOnce, PipeFades,
         \A j \in DOMAIN pipe : pipe[j].kind = "event" => pipe[j].arg \in Events
  PROVE  /\ PipeOnce' /\ \A r, i : SentTo(r, i)' => SentTo(r, i)
         /\ \A j \in DOMAIN pipe' : pipe'[j].kind = "event" => pipe'[j].arg \in Events
<1>1. CASE pipe' = pipe
  BY <1>1 DEF PipeOnce, SentTo, Sent
<1>2. CASE pipe' = <<>>
  BY <1>2 DEF PipeOnce, SentTo, Sent
<1>3. ASSUME NEW x, pipe' = Append(pipe, x), x.kind # "event"
      PROVE  /\ PipeOnce' /\ \A r, i : SentTo(r, i)' => SentTo(r, i)
             /\ \A j \in DOMAIN pipe' : pipe'[j].kind = "event" => pipe'[j].arg \in Events
  BY <1>3, AppendedAt DEF PipeOnce, SentTo, Sent
<1>4. CASE pipe # <<>> /\ pipe' = Tail(pipe)
  <2>1. \A j \in DOMAIN pipe' : j + 1 \in DOMAIN pipe /\ pipe'[j] = pipe[j + 1]
    BY <1>4, TakenAt
  <2>2. DOMAIN pipe' \subseteq Nat
    BY <1>4, TakenAt
  <2>. QED
    BY <2>1, <2>2 DEF PipeOnce, SentTo, Sent
<1>. QED
  BY <1>1, <1>2, <1>3, <1>4 DEF PipeFades

\* What a step may do to a receiver without another event in it.
RxFades(r) == rx'[r] = rx[r] \/ rx'[r] = <<>> \/ (rx[r] # <<>> /\ rx'[r] = Tail(rx[r]))

LEMMA RxFading ==
  ASSUME NEW r \in Receivers, rx[r] \in Seq(Events), RxFades(r)
  PROVE  /\ rx'[r] \in Seq(Events)
         /\ \E d \in {0, 1} : \A j \in DOMAIN rx'[r] :
               j \in Nat /\ j + d \in DOMAIN rx[r] /\ rx'[r][j] = rx[r][j + d]
<1>1. PICK s \in Seq(Events) : s = rx[r]
  OBVIOUS
<1>2. PICK t : t = rx'[r]
  OBVIOUS
<1>3. t = s \/ t = <<>> \/ (s # <<>> /\ t = Tail(s))
  BY <1>1, <1>2 DEF RxFades
<1>4. t \in Seq(Events) /\ \E d \in {0, 1} : \A j \in DOMAIN t :
               j \in Nat /\ j + d \in DOMAIN s /\ t[j] = s[j + d]
  <2>1. CASE t = s
    BY <2>1
  <2>2. CASE t = <<>>
    BY <2>2
  <2>3. CASE s # <<>> /\ t = Tail(s)
    BY <2>3
  <2>. QED
    BY <1>3, <2>1, <2>2, <2>3
<1>. QED
  BY <1>1, <1>2, <1>4

\* Nobody takes up an event to give it to the scripts.
HeldFades == \A r \in Receivers : pc'[r] = "hooks" => pc[r] = "hooks" /\ cur'[r] = cur[r]
HeardFades == \A r \in Receivers : heard'[r] = heard[r] \/ heard'[r] = [i \in Ids |-> 0]
PendingFades ==
    /\ doing' \in {doing, NoEvent}
    /\ \A s \in Sockets : pc'[s] = "publish" => pc[s] = "publish" /\ cur'[s] = cur[s]

\* A step that publishes nothing keeps the copies apart.
LEMMA Fading ==
  ASSUME IInv, EInv, PipeFades, HeldFades, HeardFades, \A r \in Receivers : RxFades(r),
         replaced' = replaced, used' \in Nat, used <= used', used' <= MaxEvents
  PROVE  /\ UsedInv' /\ ReplacedInv' /\ OnceInv'
         /\ \A r \in Receivers, i \in Ids : Met(r, i)' => Met(r, i)
<1>1. PipeOnce' /\ \A r, i : SentTo(r, i)' => SentTo(r, i)
  BY PipeFading DEF IInv, QueueInv, EInv, OnceInv, EventType
<1>2. \A r \in Receivers : \E d \in {0, 1} : \A j \in DOMAIN rx'[r] :
               j \in Nat /\ j + d \in DOMAIN rx[r] /\ rx'[r][j] = rx[r][j + d]
  BY RxFading DEF EInv, EventType
<1>3. \A r \in Receivers, i \in Ids : heard'[r][i] \in {0, heard[r][i]} /\ heard[r][i] \in Nat
  BY DEF HeardFades, EInv, EventType
<1>4. \A r \in Receivers, i \in Ids : Queued(r, i)' => Queued(r, i)
  BY <1>2 DEF Queued, Sent
<1>5. \A r \in Receivers, i \in Ids : Held(r, i)' => Held(r, i)
  BY DEF Held, HeldFades, Sent
<1>6. \A r \in Receivers, i \in Ids : Met(r, i)' => Met(r, i)
  BY <1>1, <1>3, <1>4, <1>5 DEF Met
<1>7. UsedInv'
  BY <1>6 DEF UsedInv, EInv, EventType, Ids
<1>8. ReplacedInv'
  BY <1>6 DEF EInv, ReplacedInv, EventType
<1>9. ASSUME NEW r \in Receivers, NEW i \in Ids PROVE Once(r, i)'
  <2>1. Once(r, i)
    BY DEF EInv, OnceInv
  <2>2. \A j, k \in DOMAIN rx'[r] : Sent(rx'[r][j], i) /\ Sent(rx'[r][k], i) => j = k
    BY <1>2, <2>1 DEF Once
  <2>. QED
    BY <2>1, <2>2, <1>1, <1>3, <1>4, <1>5 DEF Once, Sent
<1>. QED
  BY <1>1, <1>6, <1>7, <1>8, <1>9 DEF OnceInv

\* Neither does it add to what is pending, or disturb it.
LEMMA PendingFading ==
  ASSUME EInv, PendingFades, used' \in Nat, used <= used',
         \A i \in Ids : Pending(i)' /\ i \in replaced' => i \in replaced,
         \A r \in Receivers, i \in Ids : Pending(i)' /\ Met(r, i)' => Met(r, i)
  PROVE  PendingInv'
<1>1. \A i \in Ids : Pending(i)' => Pending(i)
  BY DEF Pending, PendingFades, NoEvent, Ids
<1>2. \A i \in Ids : Pending(i)' => i \notin replaced' /\ i <= used' /\ \A r \in Receivers : ~Met(r, i)'
  BY <1>1 DEF EInv, PendingInv, EventType, Ids
<1>3. \A s \in Sockets : pc'[s] = "publish" => cur'[s].id # doing'.id
  <2>. SUFFICES ASSUME NEW s \in Sockets, pc'[s] = "publish" PROVE cur'[s].id # doing'.id
    OBVIOUS
  <2>1. pc[s] = "publish" /\ cur'[s] = cur[s] /\ cur[s] \in Events /\ cur[s].id # doing.id
    BY DEF PendingFades, EInv, PendingInv, EventType, Receivers
  <2>2. cur[s].id # 0
    BY <2>1 DEF Events, Ids
  <2>. QED
    BY <2>1, <2>2 DEF PendingFades, NoEvent
<1>. QED
  BY <1>2, <1>3 DEF PendingInv, PendingFades, EInv

LEMMA PublishedTo ==
  ASSUME NEW r \in Receivers, NEW e \in Events, rx[r] \in Seq(Events), Publish(e)
  PROVE  /\ rx'[r] \in Seq(Events)
         /\ \E d \in {0, 1} : \A j \in DOMAIN rx'[r] :
               /\ j \in Nat
               /\ \/ j + d \in DOMAIN rx[r] /\ rx'[r][j] = rx[r][j + d]
                  \/ rx'[r][j] = e /\ j = Len(rx'[r])
<1>1. PICK s \in Seq(Events) : s = rx[r]
  OBVIOUS
<1>2. PICK t : t = rx'[r]
  OBVIOUS
<1>3. t = s \/ t = Append(s, e) \/ (s # <<>> /\ t = Append(Tail(s), e))
  <2>1. CASE pc[r] = "off"
    BY <2>1, <1>1, <1>2 DEF Publish
  <2>2. CASE pc[r] # "off" /\ Len(rx[r]) = BusCapacity
    <3>1. t = Append(Tail(s), e)
      BY <2>2, <1>1, <1>2 DEF Publish
    <3>2. s # <<>>
      BY <2>2, <1>1, CapacityAssumption
    <3>. QED
      BY <3>1, <3>2
  <2>3. CASE pc[r] # "off" /\ Len(rx[r]) # BusCapacity
    BY <2>3, <1>1, <1>2 DEF Publish
  <2>. QED
    BY <2>1, <2>2, <2>3
<1>4. /\ t \in Seq(Events)
      /\ \E d \in {0, 1} : \A j \in DOMAIN t :
               /\ j \in Nat
               /\ \/ j + d \in DOMAIN s /\ t[j] = s[j + d]
                  \/ t[j] = e /\ j = Len(t)
  <2>1. CASE t = s
    BY <2>1
  <2>2. CASE t = Append(s, e)
    BY <2>2
  <2>3. CASE s # <<>> /\ t = Append(Tail(s), e)
    BY <2>3
  <2>. QED
    BY <1>3, <2>1, <2>2, <2>3
<1>. QED
  BY <1>1, <1>2, <1>4

\* Nor does a step that publishes an event of which there is no copy, or what a
\* script has made of one.
LEMMA Publishing ==
  ASSUME IInv, EInv, NEW e \in Events, Publish(e), PipeFades, HeldFades, heard' = heard,
         used' \in Nat, used <= used', used' <= MaxEvents,
         replaced \subseteq replaced', replaced' \subseteq Ids,
         \A i \in replaced' \ replaced : \A r \in Receivers : ~Met(r, i),
         \/ e.rewrites > 0
         \/ e.id <= used' /\ e.id \notin replaced' /\ \A r \in Receivers : ~Met(r, e.id)
  PROVE  /\ UsedInv' /\ ReplacedInv' /\ OnceInv'
         /\ \A r \in Receivers, i \in Ids :
               Met(r, i)' => Met(r, i) \/ (i = e.id /\ e.rewrites = 0)
<1>1. PipeOnce' /\ \A r, i : SentTo(r, i)' => SentTo(r, i)
  BY PipeFading DEF IInv, QueueInv, EInv, OnceInv, EventType
<1>2. \A r \in Receivers : \E d \in {0, 1} : \A j \in DOMAIN rx'[r] :
               /\ j \in Nat
               /\ \/ j + d \in DOMAIN rx[r] /\ rx'[r][j] = rx[r][j + d]
                  \/ rx'[r][j] = e /\ j = Len(rx'[r])
  BY PublishedTo DEF EInv, EventType
<1>3. \A r \in Receivers, i \in Ids : heard'[r][i] = heard[r][i] /\ heard[r][i] \in Nat
  BY DEF EInv, EventType
<1>4. \A r \in Receivers, i \in Ids : Queued(r, i)' => Queued(r, i) \/ Sent(e, i)
  BY <1>2 DEF Queued, Sent
<1>5. \A r \in Receivers, i \in Ids : Held(r, i)' => Held(r, i)
  BY DEF Held, HeldFades, Sent
<1>6. \A r \in Receivers, i \in Ids : Met(r, i)' => Met(r, i) \/ Sent(e, i)
  BY <1>1, <1>3, <1>4, <1>5 DEF Met
<1>7. e.rewrites > 0 => \A i : ~Sent(e, i)
  BY DEF Sent, Events
<1>8. UsedInv'
  BY <1>6, <1>7 DEF UsedInv, EInv, EventType, Ids, Sent
<1>9. ReplacedInv'
  BY <1>6, <1>7 DEF ReplacedInv, EInv, Sent
<1>10. ASSUME NEW r \in Receivers, NEW i \in Ids PROVE Once(r, i)'
  <2>1. Once(r, i)
    BY DEF EInv, OnceInv
  <2>2. CASE ~Sent(e, i)
    <3>1. \A j, k \in DOMAIN rx'[r] : Sent(rx'[r][j], i) /\ Sent(rx'[r][k], i) => j = k
      BY <1>2, <2>1, <2>2 DEF Once
    <3>2. Sent(e, i)' = Sent(e, i)
      BY DEF Sent
    <3>. QED
      BY <2>1, <2>2, <3>1, <1>1, <1>3, <1>4, <1>5 DEF Once, Sent
  <2>3. CASE Sent(e, i)
    <3>1. ~Met(r, i)
      BY <2>3, <1>7 DEF Sent
    <3>2. \A j, k \in DOMAIN rx'[r] : Sent(rx'[r][j], i) /\ Sent(rx'[r][k], i) => j = k
      <4>1. \A j \in DOMAIN rx[r] : ~Sent(rx[r][j], i)
        BY <3>1 DEF Met, Queued
      <4>. QED
        BY <4>1, <1>2
    <3>. QED
      BY <3>1, <3>2, <1>1, <1>3, <1>5 DEF Once, Met, Sent
  <2>. QED
    BY <2>2, <2>3
<1>. QED
  BY <1>1, <1>6, <1>8, <1>9, <1>10 DEF OnceInv, Sent

LEMMA EnqueueFades ==
  ASSUME NEW who, NEW kind, NEW arg, NEW sess, Enqueue(who, kind, arg, sess), kind # "event"
  PROVE  PipeFades
<1>1. PICK x : x = [who |-> who, kind |-> kind, arg |-> arg, sess |-> sess]
  OBVIOUS
<1>. QED
  BY <1>1 DEF Enqueue, PipeFades

\* The receivers' part of a step in which events only fade.
ReceiversFade ==
    /\ rx' = [r \in Receivers |-> rx'[r]] /\ heard' = [r \in Receivers |-> heard'[r]]
    /\ DOMAIN cur' = Receivers
    /\ \A r \in Receivers :
          /\ RxFades(r)
          /\ pc'[r] \in {"hooks", "publish"} => pc'[r] = pc[r] /\ cur'[r] = cur[r]
          /\ heard'[r] = heard[r] \/ heard'[r] = [i \in Ids |-> 0]

LEMMA FadingStep ==
  ASSUME IInv, EInv, PipeFades, ReceiversFade, replaced' = replaced, used' = used,
         \/ (hu' = hu \/ "hooks" \notin {hu, hu'}) /\ doing' = doing
         \/ hu' = "idle" /\ doing' = NoEvent
  PROVE  EInv'
<1>1. HeldFades /\ HeardFades
  BY DEF ReceiversFade, HeldFades, HeardFades
<1>2. PendingFades
  <2>1. doing' \in {doing, NoEvent}
    OBVIOUS
  <2>. QED
    BY <2>1 DEF ReceiversFade, PendingFades, Receivers
<1>3. /\ UsedInv' /\ ReplacedInv' /\ OnceInv'
      /\ \A r \in Receivers, i \in Ids : Met(r, i)' => Met(r, i)
  BY <1>1, Fading DEF ReceiversFade, EInv, EventType
<1>4. PendingInv'
  BY <1>2, <1>3, PendingFading DEF EInv, EventType
<1>5. EventType'
  <2>1. rx' \in [Receivers -> Seq(Events)]
    <3>1. \A r \in Receivers : rx'[r] \in Seq(Events)
      BY RxFading DEF ReceiversFade, EInv, EventType
    <3>. QED
      BY <3>1 DEF ReceiversFade
  <2>2. heard' \in [Receivers -> [Ids -> Nat]]
    <3>1. \A r \in Receivers : heard'[r] \in [Ids -> Nat]
      BY DEF ReceiversFade, EInv, EventType
    <3>. QED
      BY <3>1 DEF ReceiversFade
  <2>3. \A j \in DOMAIN pipe' : pipe'[j].kind = "event" => pipe'[j].arg \in Events
    BY PipeFading DEF IInv, QueueInv, EInv, OnceInv, EventType
  <2>4. /\ hu' = "hooks" => doing' \in Events
        /\ hu' # "hooks" => doing' = NoEvent
    BY DEF EInv, EventType
  <2>5. \A r \in Receivers : pc'[r] \in {"hooks", "publish"} => cur'[r] \in Events
    BY DEF EInv, EventType, ReceiversFade
  <2>. QED
    BY <2>1, <2>2, <2>3, <2>4, <2>5 DEF EInv, EventType, ReceiversFade
<1>. QED
  BY <1>3, <1>4, <1>5 DEF EInv

LEMMA NextEInv == IInv /\ EInv /\ [Next]_vars => EInv'
<1>. SUFFICES ASSUME IInv, EInv, [Next]_vars PROVE EInv'
  OBVIOUS
<1>. USE DEF linkVars, busVars, phoneVars, clientVars
<1>0. ASSUME UNCHANGED <<rx, cur, heard>>,
             \A r \in Receivers : pc'[r] \in {"hooks", "publish"} => pc'[r] = pc[r]
      PROVE  ReceiversFade
  BY <1>0 DEF ReceiversFade, RxFades, EInv, EventType
<1>1. CASE OpenChannel \/ Ask
  <2>1. PipeFades
    BY <1>1, EnqueueFades DEF OpenChannel, Ask, Reply
  <2>2. ReceiversFade
    BY <1>1, <1>0 DEF OpenChannel, Ask, EnsureBridge, IInv, CallType, Receivers
  <2>. QED
    BY <1>1, <2>1, <2>2, FadingStep DEF OpenChannel, Ask
<1>2. ASSUME NEW t \in Topics, Subscribe(t) \/ Unsubscribe(t) PROVE EInv'
  <2>1. PipeFades
    BY <1>2, EnqueueFades DEF Subscribe, Unsubscribe, Reply
  <2>2. ReceiversFade
    BY <1>2, <1>0 DEF Subscribe, Unsubscribe, EnsureBridge, IInv, CallType, Receivers
  <2>. QED
    BY <1>2, <2>1, <2>2, FadingStep DEF Subscribe, Unsubscribe
<1>3. ASSUME NEW route, RestCall(route) \/ RestCallSync(route) PROVE EInv'
  <2>1. PipeFades
    BY <1>3, EnqueueFades DEF RestCall, RestCallSync, NewCall, Reply, PipeFades
  <2>2. ReceiversFade
    BY <1>3, <1>0 DEF RestCall, RestCallSync
  <2>3. UNCHANGED <<replaced, used, doing>> /\ (hu' = hu \/ "hooks" \notin {hu, hu'})
    BY <1>3 DEF RestCall, RestCallSync, NewCall, Request
  <2>. QED
    BY <1>3, <2>1, <2>2, <2>3, FadingStep DEF RestCall, RestCallSync
<1>4. ASSUME NEW c \in Calls, Rest(c) PROVE EInv'
  <2>1. PipeFades
    BY <1>4, EnqueueFades DEF Rest, HandleInject, CallReturns, SyncReturns, SendChunk, SendFails,
           Reply, PipeFades
  <2>2. ReceiversFade
    BY <1>4, <1>0 DEF Rest, HandleInject, CallReturns, SyncReturns, SendChunk, SendFails
  <2>3. UNCHANGED <<replaced, used, doing>> /\ (hu' = hu \/ "hooks" \notin {hu, hu'})
    BY <1>4 DEF Rest, HandleInject, CallReturns, SyncReturns, SendChunk, SendFails, IInv, SyncInv
  <2>. QED
    BY <2>1, <2>2, <2>3, FadingStep
<1>5. CASE BeginSession \/ BridgeSent
  <2>1. ReceiversFade
    BY <1>5, <1>0 DEF BeginSession, BridgeSent, IInv, CallType
  <2>. QED
    BY <1>5, <2>1, FadingStep DEF BeginSession, BridgeSent, PipeFades
<1>6. ASSUME NEW s \in Receivers, NEW state \in {"off", "recv"}, Reset(s, state)
      PROVE  ReceiversFade
  BY <1>6 DEF Reset, ReceiversFade, RxFades, EInv, EventType, IInv, CallType
<1>7. CASE EndSession
  <2>1. ReceiversFade
    BY <1>7, <1>6 DEF EndSession, Receivers
  <2>. QED
    BY <1>7, <2>1, FadingStep DEF EndSession, PipeFades
<1>8. ASSUME NEW s \in Sockets, Connect(s) \/ Disconnect(s) PROVE EInv'
  <2>1. ReceiversFade
    BY <1>8, <1>6 DEF Connect, Disconnect, Receivers
  <2>. QED
    BY <1>8, <2>1, FadingStep DEF Connect, Disconnect, PipeFades, Input
<1>9. ASSUME NEW s \in Sockets, NEW t \in Topics, SocketSubscribe(s, t) \/ SocketUnsubscribe(s, t)
      PROVE  EInv'
  <2>1. ReceiversFade
    BY <1>9, <1>0 DEF SocketSubscribe, SocketUnsubscribe
  <2>. QED
    BY <1>9, <2>1, FadingStep DEF SocketSubscribe, SocketUnsubscribe, PipeFades
<1>10. CASE TakeReply \/ TakeSubscribed \/ TakeUnsubscribed \/ TakeCalled \/ TakeResult
  <2>1. PipeFades
    BY <1>10 DEF TakeReply, TakeSubscribed, TakeUnsubscribed, TakeCalled, TakeResult, Take,
           PipeFades
  <2>2. ReceiversFade
    BY <1>10, <1>0 DEF TakeReply, TakeSubscribed, TakeUnsubscribed, TakeCalled, TakeResult
  <2>. QED
    BY <1>10, <2>1, <2>2, FadingStep
       DEF TakeReply, TakeSubscribed, TakeUnsubscribed, TakeCalled, TakeResult
<1>11. CASE UNCHANGED vars
  <2>1. ReceiversFade
    BY <1>11, <1>0 DEF vars
  <2>. QED
    BY <1>11, <2>1, FadingStep DEF vars, PipeFades
<1>12. ASSUME NEW t \in Topics, ScriptEvent(t) PROVE EInv'
  <2>1. /\ hu = "idle" /\ hu' = "hooks" /\ used' = used + 1 /\ used < MaxEvents
        /\ UNCHANGED <<pipe, pc, rx, cur, replaced, heard>>
    BY <1>12 DEF ScriptEvent, Request, NewEvent
  <2>2. doing' \in Events /\ doing'.id = used + 1
    BY <1>12, <2>1, BoundsAssumption, RewritesAssumption DEF ScriptEvent, Events, Ids, EInv, EventType
  <2>3. /\ UsedInv' /\ ReplacedInv' /\ OnceInv'
        /\ \A r \in Receivers, i \in Ids : Met(r, i)' => Met(r, i)
    BY <2>1, Fading, BoundsAssumption
       DEF PipeFades, HeldFades, HeardFades, RxFades, EInv, EventType
  <2>4. EventType'
    BY <2>1, <2>2, BoundsAssumption DEF EInv, EventType, Ids
  <2>5. \A i \in Ids : Pending(i)' => (Pending(i) /\ i # used + 1) \/ i = used + 1
    BY <2>1, <2>2 DEF Pending
  <2>6. used + 1 \notin replaced /\ \A r \in Receivers : ~Met(r, used + 1)
    BY <2>2 DEF EInv, EventType, UsedInv, Events
  <2>7. \A i \in Ids :
           Pending(i)' => i \notin replaced' /\ i <= used' /\ \A r \in Receivers : ~Met(r, i)'
    BY <2>1, <2>3, <2>5, <2>6 DEF EInv, PendingInv, EventType, Ids
  <2>8. \A s \in Sockets : pc'[s] = "publish" => cur'[s].id # doing'.id
    <3>1. \A s \in Sockets : pc[s] = "publish" => cur[s].id \in Ids /\ Pending(cur[s].id)
      BY DEF EInv, EventType, Pending, Receivers, Events
    <3>2. \A s \in Sockets : pc[s] = "publish" => cur[s].id <= used
      BY <3>1 DEF EInv, PendingInv
    <3>. QED
      BY <2>1, <2>2, <3>1, <3>2 DEF EInv, EventType, Ids
  <2>. QED
    BY <2>1, <2>3, <2>4, <2>7, <2>8 DEF EInv, PendingInv
<1>13. ASSUME NEW s \in Sockets, NEW t \in Topics, SocketEvent(s, t) PROVE EInv'
  <2>. DEFINE e == [id |-> used + 1, topic |-> t, rewrites |-> 0]
  <2>1. /\ pc[s] = "recv" /\ pc' = [pc EXCEPT ![s] = "publish"] /\ cur' = [cur EXCEPT ![s] = e]
        /\ used' = used + 1 /\ used < MaxEvents /\ s \in Receivers
        /\ UNCHANGED <<pipe, hu, doing, rx, replaced, heard>>
    BY <1>13 DEF SocketEvent, NewEvent, Receivers
  <2>2. e \in Events /\ e.id = used + 1
    BY <2>1, BoundsAssumption, RewritesAssumption DEF Events, Ids, EInv, EventType
  <2>. HIDE DEF e
  <2>3. /\ pc'[s] = "publish" /\ cur'[s] = e
        /\ \A r \in Receivers \ {s} : pc'[r] = pc[r] /\ cur'[r] = cur[r]
    BY <2>1 DEF IInv, CallType, EInv, EventType
  <2>4. /\ UsedInv' /\ ReplacedInv' /\ OnceInv'
        /\ \A r \in Receivers, i \in Ids : Met(r, i)' => Met(r, i)
    <3>1. HeldFades
      BY <2>3 DEF HeldFades
    <3>. QED
      BY <2>1, <3>1, Fading, BoundsAssumption DEF PipeFades, HeardFades, RxFades, EInv, EventType
  <2>5. EventType'
    BY <2>1, <2>2, <2>3, BoundsAssumption DEF EInv, EventType, Ids
  <2>6. used + 1 \notin replaced /\ \A r \in Receivers : ~Met(r, used + 1)
    BY <2>2 DEF EInv, EventType, UsedInv, Events
  <2>7. \A i \in Ids : Pending(i)' => (Pending(i) /\ i # used + 1) \/ i = used + 1
    BY <2>1, <2>2, <2>3 DEF Pending, Receivers
  <2>8. \A i \in Ids :
           Pending(i)' => i \notin replaced' /\ i <= used' /\ \A r \in Receivers : ~Met(r, i)'
    BY <2>1, <2>4, <2>6, <2>7 DEF EInv, PendingInv, EventType, Ids
  <2>9. \A i \in Ids : Pending(i) => i # used + 1
    BY DEF EInv, PendingInv, EventType, Ids
  <2>10. /\ \A q \in Sockets : pc[q] = "publish" => cur[q].id # used + 1
         /\ doing.id # used + 1
    <3>1. \A q \in Sockets : pc[q] = "publish" => cur[q].id \in Ids /\ Pending(cur[q].id)
      BY DEF EInv, EventType, Pending, Receivers, Events
    <3>2. doing.id \in Ids \/ doing.id = 0
      BY DEF EInv, EventType, Events, NoEvent
    <3>3. doing.id \in Ids => Pending(doing.id)
      BY DEF Pending
    <3>. QED
      BY <2>9, <3>1, <3>2, <3>3 DEF EInv, EventType
  <2>11. \A q \in Sockets : pc'[q] = "publish" => cur'[q].id # doing'.id
    BY <2>1, <2>2, <2>3, <2>10 DEF EInv, PendingInv, Receivers
  <2>12. ASSUME NEW p \in Sockets, NEW q \in Sockets, pc'[p] = "publish", pc'[q] = "publish",
                cur'[p].id = cur'[q].id
         PROVE  p = q
    <3>1. p \in Receivers /\ q \in Receivers
      BY DEF Receivers
    <3>2. CASE p = s
      BY <2>2, <2>3, <2>10, <2>12, <3>1, <3>2
    <3>3. CASE q = s
      BY <2>2, <2>3, <2>10, <2>12, <3>1, <3>3
    <3>4. CASE p # s /\ q # s
      BY <2>3, <2>12, <3>1, <3>4 DEF EInv, PendingInv
    <3>. QED
      BY <3>2, <3>3, <3>4
  <2>13. PendingInv'
    BY <2>8, <2>11, <2>12 DEF PendingInv
  <2>. QED
    BY <2>4, <2>5, <2>13 DEF EInv
<1>14. ASSUME NEW e \in Events, Publish(e) PROVE rx' \in [Receivers -> Seq(Events)]
  <2>1. \A r \in Receivers : rx'[r] \in Seq(Events)
    BY <1>14, PublishedTo DEF EInv, EventType
  <2>. QED
    BY <1>14, <2>1 DEF Publish
<1>15. CASE PublishScriptEvent
  <2>1. /\ hu = "hooks" /\ hu' = "idle" /\ doing' = NoEvent /\ PublishScripted(doing)
        /\ UNCHANGED <<used, pc, cur, heard>>
    BY <1>15 DEF PublishScriptEvent
  <2>2. doing \in Events /\ doing.id \in Ids /\ Pending(doing.id)
    BY <2>1 DEF EInv, EventType, Events, Pending
  <2>3. doing.id <= used /\ doing.id \notin replaced /\ \A r \in Receivers : ~Met(r, doing.id)
    BY <2>2 DEF EInv, PendingInv
  <2>4. PICK e \in Scripted(doing) :
           Publish(e) /\ replaced' = IF e = doing THEN replaced ELSE replaced \cup {doing.id}
    BY <2>1 DEF PublishScripted
  <2>10. e \in Events /\ e.id = doing.id /\ (e = doing \/ e.rewrites > 0)
    BY <2>2, <2>4, ScriptedIs
  <2>5. PipeFades /\ HeldFades
    BY <1>15, EnqueueFades DEF PublishScriptEvent, Reply, HeldFades
  <2>11. used \in Nat /\ used <= MaxEvents /\ replaced \subseteq Ids
    BY DEF EInv, EventType
  <2>12. /\ replaced \subseteq replaced' /\ replaced' \subseteq Ids
         /\ \A i \in replaced' : i \in replaced \/ i = doing.id
         /\ e.rewrites > 0 \/ replaced' = replaced
    BY <2>2, <2>4, <2>10, <2>11
  <2>6. /\ UsedInv' /\ ReplacedInv' /\ OnceInv'
        /\ \A r \in Receivers, i \in Ids : Met(r, i)' => Met(r, i) \/ i = doing.id
    BY <2>1, <2>3, <2>4, <2>5, <2>10, <2>11, <2>12, Publishing
  <2>7. \A i \in Ids : Pending(i)' => i # doing.id
    BY <2>1, <2>2 DEF Pending, NoEvent, Ids, EInv, PendingInv
  <2>8. PendingInv'
    BY <2>1, <2>6, <2>7, <2>11, <2>12, PendingFading DEF PendingFades
  <2>9. EventType'
    <3>1. rx' \in [Receivers -> Seq(Events)]
      BY <2>4, <2>10, <1>14
    <3>2. \A j \in DOMAIN pipe' : pipe'[j].kind = "event" => pipe'[j].arg \in Events
      BY <2>5, PipeFading DEF EInv, EventType, IInv, QueueInv, OnceInv
    <3>3. \A i \in replaced' : i <= used
      BY <2>3, <2>12 DEF EInv, EventType
    <3>. QED
      BY <2>1, <2>12, <3>1, <3>2, <3>3 DEF EInv, EventType
  <2>. QED
    BY <2>6, <2>8, <2>9 DEF EInv
<1>16. ASSUME NEW s \in Sockets, SocketPublish(s) PROVE EInv'
  <2>1. /\ pc[s] = "publish" /\ PublishScripted(cur[s]) /\ s \in Receivers
        /\ pc' = [pc EXCEPT ![s] = "recv"] /\ cur' = [cur EXCEPT ![s] = NoEvent]
        /\ UNCHANGED <<used, hu, doing, pipe, heard>>
    BY <1>16 DEF SocketPublish, Receivers
  <2>2. cur[s] \in Events /\ cur[s].id \in Ids /\ Pending(cur[s].id)
    BY <2>1 DEF EInv, EventType, Events, Pending
  <2>3. cur[s].id <= used /\ cur[s].id \notin replaced /\ \A r \in Receivers : ~Met(r, cur[s].id)
    BY <2>2 DEF EInv, PendingInv
  <2>4. PICK e \in Scripted(cur[s]) :
           Publish(e) /\ replaced' = IF e = cur[s] THEN replaced ELSE replaced \cup {cur[s].id}
    BY <2>1 DEF PublishScripted
  <2>13. e \in Events /\ e.id = cur[s].id /\ (e = cur[s] \/ e.rewrites > 0)
    BY <2>2, <2>4, ScriptedIs
  <2>10. \A r \in Receivers : pc'[r] \in {"hooks", "publish"} =>
            r # s /\ pc'[r] = pc[r] /\ cur'[r] = cur[r]
    BY <2>1 DEF IInv, CallType, EInv, EventType
  <2>5. PipeFades /\ HeldFades
    BY <2>1, <2>10 DEF PipeFades, HeldFades
  <2>11. used \in Nat /\ used <= MaxEvents /\ replaced \subseteq Ids
    BY DEF EInv, EventType
  <2>12. /\ replaced \subseteq replaced' /\ replaced' \subseteq Ids
         /\ \A i \in replaced' : i \in replaced \/ i = cur[s].id
         /\ e.rewrites > 0 \/ replaced' = replaced
    BY <2>2, <2>4, <2>13, <2>11
  <2>6. /\ UsedInv' /\ ReplacedInv' /\ OnceInv'
        /\ \A r \in Receivers, i \in Ids : Met(r, i)' => Met(r, i) \/ i = cur[s].id
    BY <2>1, <2>3, <2>4, <2>5, <2>13, <2>11, <2>12, Publishing
  <2>7. \A i \in Ids : Pending(i)' => i # cur[s].id
    BY <2>1, <2>2, <2>10 DEF Pending, EInv, PendingInv, Receivers
  <2>8. PendingInv'
    <3>1. PendingFades
      BY <2>1, <2>10 DEF PendingFades, Receivers
    <3>2. \A r \in Receivers, i \in Ids : Pending(i)' /\ Met(r, i)' => Met(r, i)
      BY <2>6, <2>7
    <3>3. \A i \in Ids : Pending(i)' /\ i \in replaced' => i \in replaced
      BY <2>7, <2>12
    <3>. QED
      BY <2>1, <2>11, <3>1, <3>2, <3>3, PendingFading
  <2>9. EventType'
    <3>1. rx' \in [Receivers -> Seq(Events)]
      BY <2>4, <2>13, <1>14
    <3>2. \A i \in replaced' : i <= used
      BY <2>3, <2>12 DEF EInv, EventType
    <3>. QED
      BY <2>1, <2>10, <2>12, <3>1, <3>2 DEF EInv, EventType
  <2>. QED
    BY <2>6, <2>8, <2>9 DEF EInv
<1>17. ASSUME NEW r \in Receivers, Replaced(r) PROVE EInv'
  <2>1. /\ pc[r] = "hooks" /\ cur[r].rewrites < MaxRewrites /\ Publish(Rewritten(cur[r]))
        /\ pc' = [pc EXCEPT ![r] = "recv"] /\ cur' = [cur EXCEPT ![r] = NoEvent]
        /\ UNCHANGED <<used, replaced, hu, doing, pipe, heard>>
    BY <1>17 DEF Replaced
  <2>2. cur[r] \in Events
    BY <2>1 DEF EInv, EventType
  <2>4. PICK e \in Events : e = Rewritten(cur[r]) /\ e.rewrites > 0
    BY <2>1, <2>2, RewrittenIs
  <2>10. \A q \in Receivers : pc'[q] \in {"hooks", "publish"} =>
            pc'[q] = pc[q] /\ cur'[q] = cur[q]
    BY <2>1 DEF IInv, CallType, EInv, EventType
  <2>5. PipeFades /\ HeldFades
    BY <2>1, <2>10 DEF PipeFades, HeldFades
  <2>6. /\ UsedInv' /\ ReplacedInv' /\ OnceInv'
        /\ \A q \in Receivers, i \in Ids : Met(q, i)' => Met(q, i) \/ (i = e.id /\ e.rewrites = 0)
    BY <2>1, <2>4, <2>5, Publishing DEF EInv, EventType
  <2>8. PendingInv'
    <3>1. PendingFades
      BY <2>1, <2>10 DEF PendingFades, Receivers
    <3>2. \A q \in Receivers, i \in Ids : Met(q, i)' => Met(q, i)
      BY <2>4, <2>6
    <3>3. replaced' = replaced /\ used' \in Nat /\ used <= used'
      BY <2>1 DEF EInv, EventType
    <3>. QED
      BY <3>1, <3>2, <3>3, PendingFading
  <2>9. EventType'
    BY <2>1, <2>4, <2>10, <1>14 DEF EInv, EventType
  <2>. QED
    BY <2>6, <2>8, <2>9 DEF EInv
<1>18. ASSUME NEW t \in Topics, PublishRaw(t) PROVE EInv'
  <2>. DEFINE x == [id |-> used + 1, topic |-> t, rewrites |-> 0]
  <2>1. /\ used' = used + 1 /\ used < MaxEvents /\ Publish(x)
        /\ UNCHANGED <<replaced, pipe, hu, doing, pc, cur, heard>>
    BY <1>18 DEF PublishRaw, NewEvent
  <2>2. x \in Events /\ x.id = used + 1 /\ used + 1 \in Ids
    BY <2>1, BoundsAssumption, RewritesAssumption DEF Events, Ids, EInv, EventType
  <2>. HIDE DEF x
  <2>3. PICK e \in Events : e = x /\ e.id = used + 1
    BY <2>2
  <2>4. PipeFades /\ HeldFades
    BY <2>1 DEF PipeFades, HeldFades
  <2>5. used + 1 \notin replaced /\ \A r \in Receivers : ~Met(r, used + 1)
    BY <2>2 DEF EInv, EventType, UsedInv
  <2>10. /\ Publish(e) /\ e.id <= used' /\ used \in Nat /\ replaced' \subseteq Ids
         /\ used' \in Nat /\ used <= used' /\ used' <= MaxEvents
    BY <2>1, <2>3, BoundsAssumption DEF EInv, EventType
  <2>6. /\ UsedInv' /\ ReplacedInv' /\ OnceInv'
        /\ \A r \in Receivers, i \in Ids : Met(r, i)' => Met(r, i) \/ i = used + 1
    BY <2>1, <2>3, <2>4, <2>5, <2>10, Publishing
  <2>7. \A i \in Ids : Pending(i)' => Pending(i) /\ i # used + 1
    BY <2>1 DEF Pending, EInv, PendingInv, EventType, Ids
  <2>8. PendingInv'
    <3>1. \A i \in Ids :
             Pending(i)' => i \notin replaced' /\ i <= used' /\ \A r \in Receivers : ~Met(r, i)'
      BY <2>1, <2>6, <2>7 DEF EInv, PendingInv, EventType, Ids
    <3>. QED
      BY <2>1, <3>1 DEF EInv, PendingInv
  <2>9. EventType'
    <3>1. \A i \in replaced' : i <= used'
      BY <2>1 DEF EInv, EventType, Ids
    <3>. QED
      BY <2>1, <2>2, <3>1, <1>14, BoundsAssumption DEF EInv, EventType
  <2>. QED
    BY <2>6, <2>8, <2>9 DEF EInv
<1>19. ASSUME NEW r \in Receivers, Recv(r) PROVE EInv'
  <2>1. /\ pc[r] = "recv" /\ rx[r] # <<>> /\ rx' = [rx EXCEPT ![r] = Tail(rx[r])]
        /\ UNCHANGED <<used, replaced, hu, doing, pipe, heard>>
    BY <1>19 DEF Recv
  <2>2. PICK s \in Seq(Events) : s = rx[r]
    BY DEF EInv, EventType
  <2>3. /\ rx'[r] = Tail(s) /\ \A q \in Receivers \ {r} : rx'[q] = rx[q]
        /\ rx' \in [Receivers -> Seq(Events)]
    BY <2>1, <2>2 DEF EInv, EventType
  <2>4. CASE Head(rx[r]).topic \notin subs[r]
    <3>1. pc' = pc /\ cur' = cur
      BY <1>19, <2>4 DEF Recv
    <3>2. ReceiversFade
      BY <2>1, <2>3, <3>1 DEF ReceiversFade, RxFades, EInv, EventType
    <3>. QED
      BY <2>1, <3>2, FadingStep DEF PipeFades
  <2>5. CASE Head(rx[r]).topic \in subs[r]
    <3>1. PICK e \in Events : e = Head(s)
      BY <2>1, <2>2
    <3>2. pc' = [pc EXCEPT ![r] = "hooks"] /\ cur' = [cur EXCEPT ![r] = e]
      BY <1>19, <2>2, <2>5, <3>1 DEF Recv
    <3>3. /\ pc'[r] = "hooks" /\ cur'[r] = e
          /\ \A q \in Receivers \ {r} : pc'[q] = pc[q] /\ cur'[q] = cur[q]
      BY <3>2 DEF IInv, CallType, EInv, EventType
    <3>4. /\ 1 \in DOMAIN s /\ s[1] = e /\ e.id \in Ids
          /\ \A j \in DOMAIN rx'[r] : j \in Nat \ {0} /\ j + 1 \in DOMAIN s /\ rx'[r][j] = s[j + 1]
      BY <2>1, <2>2, <2>3, <3>1 DEF Events
    <3>5. e.rewrites = 0 => Queued(r, e.id)
      BY <2>2, <3>4 DEF Queued, Sent
    <3>6. \A q \in Receivers, i \in Ids : Queued(q, i)' => Queued(q, i)
      <4>1. ASSUME NEW i \in Ids, Queued(r, i)' PROVE Queued(r, i)
        BY <2>2, <3>4, <4>1 DEF Queued, Sent
      <4>2. ASSUME NEW q \in Receivers \ {r}, NEW i \in Ids, Queued(q, i)' PROVE Queued(q, i)
        BY <2>3, <4>2 DEF Queued, Sent
      <4>. QED
        BY <4>1, <4>2
    <3>7. \A q \in Receivers, i \in Ids :
             Held(q, i)' => Held(q, i) \/ (q = r /\ i = e.id /\ e.rewrites = 0)
      BY <3>3 DEF Held, Sent
    <3>8. \A q, i : SentTo(q, i)' = SentTo(q, i)
      BY <2>1 DEF SentTo, Sent
    <3>9. \A q \in Receivers, i \in Ids : Met(q, i)' => Met(q, i)
      BY <2>1, <3>5, <3>6, <3>7, <3>8 DEF Met
    <3>10. \A i \in Ids : \A j, k \in DOMAIN rx'[r] :
              Sent(rx'[r][j], i) /\ Sent(rx'[r][k], i) => j = k
      <4>1. ASSUME NEW i \in Ids, NEW j \in DOMAIN rx'[r], NEW k \in DOMAIN rx'[r],
                   Sent(rx'[r][j], i), Sent(rx'[r][k], i)
            PROVE  j = k
        <5>1. j + 1 = k + 1
          BY <2>2, <3>4, <4>1 DEF EInv, OnceInv, Once
        <5>. QED
          BY <3>4, <5>1
      <4>. QED
        BY <4>1
    <3>11. e.rewrites = 0 => ~Queued(r, e.id)'
      <4>1. ASSUME e.rewrites = 0, NEW j \in DOMAIN rx'[r], Sent(rx'[r][j], e.id) PROVE FALSE
        <5>1. j + 1 = 1
          BY <2>2, <3>4, <4>1 DEF EInv, OnceInv, Once, Sent
        <5>. QED
          BY <3>4, <5>1
      <4>. QED
        BY <4>1 DEF Queued, Sent
    <3>12. OnceInv'
      <4>1. ASSUME NEW q \in Receivers, NEW i \in Ids PROVE Once(q, i)'
        <5>1. Once(q, i)
          BY DEF EInv, OnceInv
        <5>2. CASE q # r
          <6>1. \A j, k \in DOMAIN rx'[q] : Sent(rx'[q][j], i) /\ Sent(rx'[q][k], i) => j = k
            BY <2>3, <5>1, <5>2 DEF Once
          <6>. QED
            BY <2>1, <3>6, <3>7, <3>8, <5>1, <5>2, <6>1 DEF Once, Sent
        <5>3. CASE q = r /\ ~(i = e.id /\ e.rewrites = 0)
          BY <2>1, <3>6, <3>7, <3>8, <3>10, <5>1, <5>3 DEF Once, Sent
        <5>4. CASE q = r /\ i = e.id /\ e.rewrites = 0
          BY <2>1, <3>5, <3>8, <3>10, <3>11, <5>1, <5>4 DEF Once, Sent
        <5>. QED
          BY <5>2, <5>3, <5>4
      <4>2. PipeOnce'
        BY <2>1 DEF EInv, OnceInv, PipeOnce
      <4>. QED
        BY <2>1, <4>1, <4>2 DEF OnceInv
    <3>13. ReplacedInv'
      BY <2>1, <3>9 DEF ReplacedInv, EInv, EventType
    <3>14. UsedInv'
      BY <2>1, <3>9 DEF UsedInv, EInv
    <3>15. PendingInv'
      <4>1. PendingFades
        BY <2>1, <3>3 DEF PendingFades, Receivers
      <4>. QED
        BY <2>1, <3>9, <4>1, PendingFading DEF EInv, EventType
    <3>16. EventType'
      BY <2>1, <2>3, <3>2, <3>3 DEF EInv, EventType
    <3>. QED
      BY <3>12, <3>13, <3>14, <3>15, <3>16 DEF EInv
  <2>. QED
    BY <2>4, <2>5
<1>20. ASSUME NEW s \in Sockets, Forward(s) PROVE EInv'
  <2>1. PICK e : e = cur[s]
    OBVIOUS
  <2>2. /\ pc[s] = "hooks" /\ s \in Receivers /\ s # "bridge"
        /\ pc' = [pc EXCEPT ![s] = "recv"] /\ cur' = [cur EXCEPT ![s] = NoEvent]
        /\ heard' = IF e.rewrites = 0 THEN [heard EXCEPT ![s][e.id] = heard[s][e.id] + 1]
                                      ELSE heard
        /\ UNCHANGED <<used, replaced, hu, doing, pipe, rx>>
    BY <1>20, <2>1, SocketsAssumption DEF Forward, Hear, Receivers
  <2>3. e \in Events /\ e.id \in Ids /\ (e.rewrites = 0 => Held(s, e.id))
    BY <2>1, <2>2 DEF EInv, EventType, Events, Held, Sent
  <2>4. /\ pc'[s] = "recv" /\ \A q \in Receivers \ {s} : pc'[q] = pc[q] /\ cur'[q] = cur[q]
        /\ \A q \in Receivers, i \in Ids :
              heard'[q][i] = IF q = s /\ i = e.id /\ e.rewrites = 0 THEN heard[q][i] + 1
                                                                   ELSE heard[q][i]
        /\ heard' \in [Receivers -> [Ids -> Nat]] /\ DOMAIN cur' = Receivers
    BY <2>2, <2>3 DEF IInv, CallType, EInv, EventType
  <2>5. \A q \in Receivers, i \in Ids :
           /\ Queued(q, i)' = Queued(q, i) /\ SentTo(q, i)' = SentTo(q, i)
           /\ Held(q, i)' => Held(q, i) /\ q # s
    BY <2>2, <2>4 DEF Queued, SentTo, Held, Sent
  <2>6. \A q \in Receivers, i \in Ids : Met(q, i)' => Met(q, i)
    BY <2>3, <2>4, <2>5 DEF Met
  <2>7. OnceInv'
    <3>1. ASSUME NEW q \in Receivers, NEW i \in Ids PROVE Once(q, i)'
      <4>1. Once(q, i) /\ heard[q][i] \in Nat
        BY DEF EInv, OnceInv, EventType
      <4>2. \A j, k \in DOMAIN rx'[q] : Sent(rx'[q][j], i) /\ Sent(rx'[q][k], i) => j = k
        BY <2>2, <4>1 DEF Once
      <4>3. CASE q = s /\ i = e.id /\ e.rewrites = 0
        BY <2>3, <2>4, <2>5, <4>1, <4>2, <4>3 DEF Once, Sent
      <4>4. CASE ~(q = s /\ i = e.id /\ e.rewrites = 0)
        BY <2>4, <2>5, <4>1, <4>2, <4>4 DEF Once, Sent
      <4>. QED
        BY <4>3, <4>4
    <3>2. PipeOnce'
      BY <2>2 DEF EInv, OnceInv, PipeOnce
    <3>. QED
      BY <2>2, <3>1, <3>2 DEF OnceInv
  <2>8. ReplacedInv'
    BY <2>2, <2>3, <2>6 DEF ReplacedInv, EInv, EventType
  <2>9. UsedInv'
    BY <2>2, <2>6 DEF UsedInv, EInv
  <2>10. PendingInv'
    <3>1. PendingFades
      BY <2>2, <2>4 DEF PendingFades, Receivers
    <3>. QED
      BY <2>2, <2>6, <3>1, PendingFading DEF EInv, EventType
  <2>11. EventType'
    BY <2>2, <2>4 DEF EInv, EventType
  <2>. QED
    BY <2>7, <2>8, <2>9, <2>10, <2>11 DEF EInv
<1>21. CASE BridgeSend
  <2>1. PICK e : e = cur["bridge"]
    OBVIOUS
  <2>2. PICK x : x = [who |-> Bridge, kind |-> "event", arg |-> e, sess |-> session]
    OBVIOUS
  <2>3. /\ pc["bridge"] = "hooks" /\ "bridge" \in Receivers /\ pipe' = Append(pipe, x)
        /\ pc' = [pc EXCEPT !["bridge"] = "send"] /\ cur' = [cur EXCEPT !["bridge"] = NoEvent]
        /\ UNCHANGED <<used, replaced, hu, doing, rx, heard>>
    BY <1>21, <2>1, <2>2 DEF BridgeSend, Enqueue, Receivers
  <2>4. e \in Events /\ e.id \in Ids /\ (e.rewrites = 0 => Held("bridge", e.id))
    BY <2>1, <2>3 DEF EInv, EventType, Events, Held, Sent
  <2>5. /\ pc'["bridge"] = "send"
        /\ \A q \in Receivers \ {"bridge"} : pc'[q] = pc[q] /\ cur'[q] = cur[q]
        /\ DOMAIN cur' = Receivers
    BY <2>3 DEF IInv, CallType, EInv, EventType
  <2>6. /\ DOMAIN pipe = 1..Len(pipe) /\ Len(pipe) \in Nat /\ DOMAIN pipe' = 1..Len(pipe) + 1
        /\ pipe'[Len(pipe) + 1] = x /\ \A j \in DOMAIN pipe : pipe'[j] = pipe[j]
    BY <2>3, AppendedAt DEF IInv, QueueInv
  <2>7. \A q \in Receivers, i \in Ids :
           /\ Queued(q, i)' = Queued(q, i) /\ (Held(q, i)' => Held(q, i) /\ q # "bridge")
           /\ SentTo(q, i)' => SentTo(q, i) \/ (q = "bridge" /\ i = e.id /\ e.rewrites = 0)
    BY <2>2, <2>3, <2>5, <2>6 DEF Queued, SentTo, Held, Sent
  <2>8. \A q \in Receivers, i \in Ids : Met(q, i)' => Met(q, i)
    BY <2>3, <2>4, <2>7 DEF Met
  <2>9. OnceInv'
    <3>1. ASSUME NEW q \in Receivers, NEW i \in Ids PROVE Once(q, i)'
      <4>1. Once(q, i) /\ heard[q][i] \in Nat
        BY DEF EInv, OnceInv, EventType
      <4>2. \A j, k \in DOMAIN rx'[q] : Sent(rx'[q][j], i) /\ Sent(rx'[q][k], i) => j = k
        BY <2>3, <4>1 DEF Once
      <4>3. CASE q = "bridge" /\ i = e.id /\ e.rewrites = 0
        BY <2>3, <2>4, <2>7, <4>1, <4>2, <4>3 DEF Once, Sent
      <4>4. CASE ~(q = "bridge" /\ i = e.id /\ e.rewrites = 0)
        BY <2>3, <2>7, <4>1, <4>2, <4>4 DEF Once, Sent
      <4>. QED
        BY <4>3, <4>4
    <3>2. PipeOnce'
      <4>1. ASSUME NEW j \in DOMAIN pipe, pipe[j].kind = "event", pipe[j].arg.id = e.id,
                   pipe[j].arg.rewrites = 0, e.rewrites = 0
            PROVE  FALSE
        <5>1. SentTo("bridge", e.id)
          BY <4>1 DEF SentTo, Sent
        <5>2. Once("bridge", e.id)
          BY <2>3, <2>4, <4>1 DEF EInv, OnceInv
        <5>. QED
          BY <2>4, <4>1, <5>1, <5>2 DEF Once
      <4>. QED
        BY <2>2, <2>3, <2>6, <4>1 DEF EInv, OnceInv, PipeOnce
    <3>. QED
      BY <2>3, <3>1, <3>2 DEF OnceInv
  <2>10. ReplacedInv'
    BY <2>2, <2>3, <2>8 DEF ReplacedInv, EInv, EventType
  <2>11. UsedInv'
    BY <2>3, <2>8 DEF UsedInv, EInv
  <2>12. PendingInv'
    <3>1. PendingFades
      BY <2>3, <2>5, SocketsAssumption DEF PendingFades, Receivers
    <3>. QED
      BY <2>3, <2>8, <3>1, PendingFading DEF EInv, EventType
  <2>13. EventType'
    <3>1. \A j \in DOMAIN pipe' : pipe'[j].kind = "event" => pipe'[j].arg \in Events
      BY <2>2, <2>4, <2>6 DEF EInv, EventType
    <3>. QED
      BY <2>3, <2>5, <3>1 DEF EInv, EventType
  <2>. QED
    BY <2>9, <2>10, <2>11, <2>12, <2>13 DEF EInv
<1>22. CASE TakeEvent
  <2>1. PICK e : e = Head(pipe).arg
    OBVIOUS
  <2>2. /\ pipe # <<>> /\ Head(pipe).kind = "event" /\ pipe' = Tail(pipe)
        /\ heard' = IF e.rewrites = 0
                    THEN [heard EXCEPT !["bridge"][e.id] = heard["bridge"][e.id] + 1] ELSE heard
        /\ "bridge" \in Receivers
        /\ UNCHANGED <<used, replaced, hu, doing, rx, pc, cur>>
    BY <1>22, <2>1 DEF TakeEvent, Take, Hear, Arg, Receivers
  <2>3. /\ DOMAIN pipe = 1..Len(pipe) /\ Len(pipe) \in Nat \ {0}
        /\ DOMAIN pipe' = 1..Len(pipe) - 1
        /\ Head(pipe) = pipe[1] /\ \A j \in DOMAIN pipe' : pipe'[j] = pipe[j + 1]
    BY <2>2, TakenAt DEF IInv, QueueInv
  <2>4. 1 \in DOMAIN pipe /\ \A j \in DOMAIN pipe' : j \in Nat \ {0} /\ j + 1 \in DOMAIN pipe
    BY <2>3
  <2>5. e \in Events /\ e.id \in Ids /\ (e.rewrites = 0 => SentTo("bridge", e.id))
    <3>1. pipe[1].kind = "event" /\ pipe[1].arg = e
      BY <2>1, <2>2, <2>3
    <3>2. e \in Events
      BY <2>4, <3>1 DEF EInv, EventType
    <3>. QED
      BY <2>4, <3>1, <3>2 DEF SentTo, Sent, Events
  <2>6. /\ \A q \in Receivers, i \in Ids :
              heard'[q][i] = IF q = "bridge" /\ i = e.id /\ e.rewrites = 0
                             THEN heard[q][i] + 1 ELSE heard[q][i]
        /\ heard' \in [Receivers -> [Ids -> Nat]]
    BY <2>2, <2>5 DEF EInv, EventType
  <2>7. PipeFades
    BY <2>2 DEF PipeFades
  <2>8. /\ PipeOnce' /\ \A q, i : SentTo(q, i)' => SentTo(q, i)
        /\ \A j \in DOMAIN pipe' : pipe'[j].kind = "event" => pipe'[j].arg \in Events
    BY <2>2, <2>7, PipeFading DEF IInv, QueueInv, EInv, OnceInv, EventType
  <2>9. e.rewrites = 0 => ~SentTo("bridge", e.id)'
    <3>1. ASSUME e.rewrites = 0, NEW j \in DOMAIN pipe', pipe'[j].kind = "event",
                 Sent(pipe'[j].arg, e.id)
          PROVE  FALSE
      <4>1. j + 1 = 1
        BY <2>1, <2>2, <2>3, <2>4, <3>1 DEF EInv, OnceInv, PipeOnce, Sent
      <4>. QED
        BY <2>4, <4>1
    <3>. QED
      BY <3>1 DEF SentTo, Sent
  <2>10. \A q \in Receivers, i \in Ids : Queued(q, i)' = Queued(q, i) /\ Held(q, i)' = Held(q, i)
    BY <2>2 DEF Queued, Held, Sent
  <2>11. \A q \in Receivers, i \in Ids : Met(q, i)' => Met(q, i)
    BY <2>5, <2>6, <2>8, <2>10 DEF Met
  <2>12. OnceInv'
    <3>1. ASSUME NEW q \in Receivers, NEW i \in Ids PROVE Once(q, i)'
      <4>1. Once(q, i) /\ heard[q][i] \in Nat
        BY DEF EInv, OnceInv, EventType
      <4>2. \A j, k \in DOMAIN rx'[q] : Sent(rx'[q][j], i) /\ Sent(rx'[q][k], i) => j = k
        BY <2>2, <4>1 DEF Once
      <4>3. CASE q = "bridge" /\ i = e.id /\ e.rewrites = 0
        BY <2>5, <2>6, <2>8, <2>9, <2>10, <4>1, <4>2, <4>3 DEF Once, Sent
      <4>4. CASE ~(q = "bridge" /\ i = e.id /\ e.rewrites = 0)
        BY <2>6, <2>8, <2>10, <4>1, <4>2, <4>4 DEF Once, Sent
      <4>. QED
        BY <4>3, <4>4
    <3>. QED
      BY <2>2, <2>8, <3>1 DEF OnceInv
  <2>13. ReplacedInv'
    BY <2>2, <2>3, <2>11 DEF ReplacedInv, EInv, EventType
  <2>14. UsedInv'
    BY <2>2, <2>11 DEF UsedInv, EInv
  <2>15. PendingInv'
    <3>1. PendingFades
      BY <2>2 DEF PendingFades
    <3>. QED
      BY <2>2, <2>11, <3>1, PendingFading DEF EInv, EventType
  <2>16. EventType'
    BY <2>2, <2>6, <2>8 DEF EInv, EventType
  <2>. QED
    BY <2>12, <2>13, <2>14, <2>15, <2>16 DEF EInv
<1>. QED
  BY <1>1, <1>2, <1>3, <1>4, <1>5, <1>7, <1>8, <1>9, <1>10, <1>11, <1>12, <1>13, <1>15,
     <1>16, <1>17, <1>18, <1>19, <1>20, <1>21, <1>22 DEF Next, Phone, Deliver, Receive,
     Browser, Forward

LEMMA InitEInv == Init => EInv
<1>. SUFFICES ASSUME Init PROVE EInv
  OBVIOUS
<1>1. /\ used = 0 /\ replaced = {} /\ hu = "idle" /\ doing = NoEvent /\ pipe = <<>>
      /\ pc = [r \in Receivers |-> "off"] /\ rx = [r \in Receivers |-> <<>>]
      /\ cur = [r \in Receivers |-> NoEvent]
      /\ heard = [r \in Receivers |-> [i \in Ids |-> 0]]
  BY DEF Init
<1>2. DOMAIN pipe = {} /\ \A r \in Receivers : rx[r] \in Seq(Events) /\ DOMAIN rx[r] = {}
  BY <1>1
<1>3. \A r \in Receivers, i \in Ids : ~Met(r, i)
  BY <1>1, <1>2 DEF Met, Queued, Held, SentTo
<1>4. EventType
  BY <1>1, <1>2, BoundsAssumption DEF EventType
<1>5. PendingInv
  <2>1. \A i \in Ids : ~Pending(i)
    BY <1>1 DEF Pending, NoEvent, Ids, Receivers
  <2>. QED
    BY <1>1, <2>1 DEF PendingInv, Receivers
<1>6. UsedInv /\ ReplacedInv
  BY <1>1, <1>3 DEF UsedInv, ReplacedInv
<1>7. OnceInv
  BY <1>1, <1>2, <1>3 DEF OnceInv, PipeOnce, Once, Met
<1>. QED
  BY <1>4, <1>5, <1>6, <1>7 DEF EInv

\* A client hears what a publisher sent at most once, and never what the scripts
\* the publisher asked had replaced (HeardOnce).
THEOREM EventsOnce == Spec => []HeardOnce
<1>1. EInv => HeardOnce
  <2>. SUFFICES ASSUME EInv, NEW r \in Receivers, NEW i \in Ids
                PROVE  heard[r][i] <= IF i \in replaced THEN 0 ELSE 1
    BY DEF HeardOnce
  <2>1. heard[r][i] \in Nat /\ heard[r][i] <= 1
    BY DEF EInv, OnceInv, Once, EventType
  <2>2. i \in replaced => heard[r][i] = 0
    BY <2>1 DEF EInv, ReplacedInv, Met
  <2>. QED
    BY <2>1, <2>2
<1>. QED
  BY <1>1, InitIInv, NextIInv, InitEInv, NextEInv, PTL DEF Spec

---------------------------------------------------------------------------
(* What the phone has been told. The invariant speaks of the moment when    *)
(* it will have taken the packets that are in the queue: there are views,   *)
(* one after each packet, that lead from what it knows now to what the      *)
(* bridge knows.                                                            *)

Views == [told : SUBSET Topics, stray : [Topics -> Nat], ends : [Topics -> Nat]]
View  == [told |-> told, stray |-> stray, ends |-> ends]

\* The view after the next packet.
After(v, x) ==
    [told  |-> IF x.kind = "subscribed" THEN v.told \cup {x.arg}
               ELSE IF x.kind = "unsubscribed" THEN v.told \ {x.arg} ELSE v.told,
     stray |-> IF x.kind = "event" /\ x.arg.topic \notin v.told
               THEN [v.stray EXCEPT ![x.arg.topic] = @ + 1] ELSE v.stray,
     ends  |-> IF x.kind = "unsubscribed" /\ x.arg \in v.told
               THEN [v.ends EXCEPT ![x.arg] = @ + 1] ELSE v.ends]

Calm(v) == \A t \in Topics : v.stray[t] <= v.ends[t]

\* When the queue is empty the phone has the topics of the bridge; an event the
\* bridge still holds on another topic is one the last unsubscription allows.
Ready(v) ==
    /\ v.told = subs["bridge"]
    /\ pc["bridge"] = "hooks" =>
          \/ cur["bridge"].topic \in subs["bridge"]
          \/ v.stray[cur["bridge"].topic] < v.ends[cur["bridge"].topic]

QuietInv ==
    /\ DOMAIN subs = Receivers
    /\ \E views \in [0..Len(pipe) -> Views] :
          /\ views[0] = View
          /\ \A k \in 1..Len(pipe) : views[k] = After(views[k - 1], pipe[k])
          /\ \A k \in 0..Len(pipe) : Calm(views[k])
          /\ Ready(views[Len(pipe)])

\* A step that leaves the queue alone and gives the bridge no event but of a topic
\* the phone has.
LEMMA QuietKept ==
  ASSUME PipeInv, QuietInv, UNCHANGED <<pipe, told, stray, ends>>, DOMAIN subs' = Receivers,
         subs'["bridge"] = subs["bridge"],
         pc'["bridge"] = "hooks" =>
            \/ pc["bridge"] = "hooks" /\ cur'["bridge"] = cur["bridge"]
            \/ cur'["bridge"].topic \in subs["bridge"]
  PROVE  QuietInv'
<1>1. PICK views \in [0..Len(pipe) -> Views] :
          /\ views[0] = View
          /\ \A k \in 1..Len(pipe) : views[k] = After(views[k - 1], pipe[k])
          /\ \A k \in 0..Len(pipe) : Calm(views[k])
          /\ Ready(views[Len(pipe)])
  BY DEF QuietInv
<1>2. \A v : Ready(v) => Ready(v)'
  BY DEF Ready
<1>3. View' = View
  BY DEF View
<1>. QED
  BY <1>1, <1>2, <1>3 DEF QuietInv

LEMMA QuietAppended ==
  ASSUME PipeInv, QuietInv, NEW x, pipe' = Append(pipe, x), UNCHANGED <<told, stray, ends>>,
         DOMAIN subs' = Receivers,
         \A v \in Views : Calm(v) /\ Ready(v) =>
            After(v, x) \in Views /\ Calm(After(v, x)) /\ Ready(After(v, x))'
  PROVE  QuietInv'
<1>1. PICK views \in [0..Len(pipe) -> Views] :
          /\ views[0] = View
          /\ \A k \in 1..Len(pipe) : views[k] = After(views[k - 1], pipe[k])
          /\ \A k \in 0..Len(pipe) : Calm(views[k])
          /\ Ready(views[Len(pipe)])
  BY DEF QuietInv
<1>2. /\ DOMAIN pipe = 1..Len(pipe) /\ Len(pipe) \in Nat /\ Len(pipe') = Len(pipe) + 1
      /\ pipe'[Len(pipe) + 1] = x /\ \A j \in DOMAIN pipe : pipe'[j] = pipe[j]
  BY AppendedAt
<1>3. PICK v \in Views : v = views[Len(pipe)] /\ Calm(v) /\ Ready(v)
  BY <1>1, <1>2
<1>4. PICK w \in Views : w = After(v, x) /\ Calm(w) /\ Ready(w)'
  BY <1>3
<1>5. PICK n \in Nat : n = Len(pipe)
  BY <1>2
<1>6. PICK next : next = [k \in 0..n + 1 |-> IF k <= n THEN views[k] ELSE w]
  OBVIOUS
<1>7. next \in [0..n + 1 -> Views] /\ next[0] = View /\ next[n + 1] = w /\ next[n] = v
  BY <1>1, <1>3, <1>5, <1>6
<1>8. \A k \in 1..n + 1 : next[k] = After(next[k - 1], pipe'[k])
  <2>1. \A k \in 1..n : k - 1 \in 0..n /\ next[k] = views[k] /\ next[k - 1] = views[k - 1]
    BY <1>6
  <2>2. \A k \in 1..n : pipe'[k] = pipe[k]
    BY <1>2, <1>5
  <2>3. \A k \in 1..n : next[k] = After(next[k - 1], pipe'[k])
    BY <1>1, <1>5, <2>1, <2>2
  <2>4. next[n + 1] = After(next[(n + 1) - 1], pipe'[n + 1])
    BY <1>2, <1>4, <1>5, <1>7
  <2>5. ASSUME NEW k \in 1..n + 1 PROVE next[k] = After(next[k - 1], pipe'[k])
    <3>1. CASE k \in 1..n
      BY <2>3, <3>1
    <3>2. CASE k = n + 1
      BY <2>4, <3>2
    <3>. QED
      BY <3>1, <3>2
  <2>. QED
    BY <2>5
<1>9. \A k \in 0..n + 1 : Calm(next[k])
  BY <1>1, <1>4, <1>5, <1>6
<1>10. View' = View /\ Len(pipe') = n + 1
  BY <1>2, <1>5 DEF View
<1>11. Ready(next[n + 1])'
  BY <1>4, <1>7 DEF Ready
<1>. QED
  BY <1>7, <1>8, <1>9, <1>10, <1>11 DEF QuietInv

LEMMA QuietTaken ==
  ASSUME PipeInv, QuietInv, pipe # <<>>, pipe' = Tail(pipe), View' = After(View, Head(pipe)),
         UNCHANGED <<subs, pc, cur>>
  PROVE  QuietInv'
<1>1. PICK views \in [0..Len(pipe) -> Views] :
          /\ views[0] = View
          /\ \A k \in 1..Len(pipe) : views[k] = After(views[k - 1], pipe[k])
          /\ \A k \in 0..Len(pipe) : Calm(views[k])
          /\ Ready(views[Len(pipe)])
  BY DEF QuietInv
<1>2. /\ DOMAIN pipe = 1..Len(pipe) /\ Len(pipe) \in Nat \ {0} /\ Len(pipe') = Len(pipe) - 1
      /\ DOMAIN pipe' = 1..Len(pipe) - 1
      /\ Head(pipe) = pipe[1] /\ \A j \in DOMAIN pipe' : pipe'[j] = pipe[j + 1]
  BY TakenAt
<1>3. PICK n \in Nat : Len(pipe) = n + 1 /\ Len(pipe') = n
  <2>1. Len(pipe) - 1 \in Nat /\ Len(pipe) = (Len(pipe) - 1) + 1
    BY <1>2
  <2>. QED
    BY <1>2, <2>1
<1>4. PICK next : next = [k \in 0..n |-> views[k + 1]]
  OBVIOUS
<1>5. next \in [0..n -> Views] /\ next[0] = View' /\ next[n] = views[n + 1]
  <2>1. views[1] = After(views[1 - 1], pipe[1])
    BY <1>1, <1>3
  <2>. QED
    BY <1>1, <1>2, <1>3, <1>4, <2>1
<1>6. \A k \in 1..n : next[k] = After(next[k - 1], pipe'[k])
  <2>1. \A k \in 1..n : /\ next[k] = views[k + 1] /\ next[k - 1] = views[(k + 1) - 1]
                        /\ k + 1 \in 1..n + 1
    BY <1>4
  <2>2. \A k \in 1..n : pipe'[k] = pipe[k + 1]
    BY <1>2, <1>3
  <2>. QED
    BY <1>1, <1>3, <2>1, <2>2
<1>7. \A k \in 0..n : Calm(next[k])
  BY <1>1, <1>3, <1>4
<1>8. Ready(next[n])'
  BY <1>1, <1>3, <1>5 DEF Ready
<1>. QED
  BY <1>3, <1>5, <1>6, <1>7, <1>8 DEF QuietInv

\* A packet that says nothing of topics.
LEMMA QuietReply ==
  ASSUME PipeInv, QuietInv, NEW who, NEW kind, NEW arg, NEW sess, Enqueue(who, kind, arg, sess),
         kind \notin {"subscribed", "unsubscribed", "event"}, UNCHANGED <<told, stray, ends, subs>>,
         pc'["bridge"] = "hooks" => pc["bridge"] = "hooks" /\ cur'["bridge"] = cur["bridge"]
  PROVE  QuietInv'
<1>1. PICK x : x = [who |-> who, kind |-> kind, arg |-> arg, sess |-> sess]
  OBVIOUS
<1>2. pipe' = Append(pipe, x) /\ x.kind = kind
  BY <1>1 DEF Enqueue
<1>3. ASSUME NEW v \in Views, Calm(v), Ready(v)
      PROVE  After(v, x) \in Views /\ Calm(After(v, x)) /\ Ready(After(v, x))'
  <2>1. After(v, x) = v
    BY <1>2 DEF After, Views
  <2>2. Ready(v)'
    BY <1>3 DEF Ready
  <2>. QED
    BY <1>3, <2>1, <2>2
<1>. QED
  BY <1>2, <1>3, QuietAppended DEF QuietInv

LEMMA NextQuietInv == IInv /\ EInv /\ QuietInv /\ [Next]_vars => QuietInv'
<1>. SUFFICES ASSUME IInv, EInv, QuietInv, [Next]_vars PROVE QuietInv'
  OBVIOUS
<1>. USE DEF linkVars, busVars, phoneVars, clientVars
<1>0. /\ PipeInv /\ "bridge" \in Receivers /\ "bridge" \notin Sockets /\ DOMAIN subs = Receivers
      /\ pc \in [Receivers -> States] /\ DOMAIN cur = Receivers
  BY SocketsAssumption DEF IInv, QueueInv, CallType, EInv, EventType, QuietInv, Receivers
<1>1. CASE OpenChannel
  <2>1. pc'["bridge"] = "hooks" => pc["bridge"] = "hooks" /\ cur' = cur
    BY <1>0, <1>1 DEF OpenChannel, EnsureBridge
  <2>. QED
    BY <1>0, <1>1, <2>1, QuietReply DEF OpenChannel, Reply
<1>2. CASE Ask
  BY <1>0, <1>2, QuietReply DEF Ask, Reply
<1>3. CASE PublishScriptEvent
  BY <1>0, <1>3, QuietReply DEF PublishScriptEvent, Reply
<1>4. ASSUME NEW route, RestCall(route) PROVE QuietInv'
  BY <1>0, <1>4, QuietReply DEF RestCall, NewCall, Reply
<1>5. ASSUME NEW c \in Calls, HandleInject(c) PROVE QuietInv'
  <2>1. CASE up
    BY <1>0, <1>5, <2>1, QuietReply DEF HandleInject
  <2>2. CASE ~up
    BY <1>0, <1>5, <2>2, QuietKept DEF HandleInject
  <2>. QED
    BY <2>1, <2>2
<1>6. ASSUME NEW c \in Calls, SyncReturns(c) PROVE QuietInv'
  BY <1>0, <1>6, QuietReply DEF SyncReturns, Reply
<1>7. ASSUME NEW c \in Calls, SendChunk(c) PROVE QuietInv'
  BY <1>0, <1>7, QuietReply DEF SendChunk
<1>8. ASSUME NEW c \in Calls, CallReturns(c) \/ SendFails(c) PROVE QuietInv'
  BY <1>0, <1>8, QuietKept DEF CallReturns, SendFails
<1>9. ASSUME NEW route, RestCallSync(route) PROVE QuietInv'
  BY <1>0, <1>9, QuietKept DEF RestCallSync, NewCall
<1>10. ASSUME NEW t \in Topics, ScriptEvent(t) PROVE QuietInv'
  BY <1>0, <1>10, QuietKept DEF ScriptEvent
<1>11. CASE BeginSession
  BY <1>0, <1>11, QuietKept DEF BeginSession
<1>12. CASE BridgeSent
  BY <1>0, <1>12, QuietKept DEF BridgeSent
<1>13. ASSUME NEW r \in Receivers, Recv(r) PROVE QuietInv'
  <2>1. pc'["bridge"] = "hooks" =>
            \/ pc["bridge"] = "hooks" /\ cur'["bridge"] = cur["bridge"]
            \/ cur'["bridge"].topic \in subs["bridge"]
    BY <1>0, <1>13 DEF Recv
  <2>. QED
    BY <1>0, <1>13, <2>1, QuietKept DEF Recv
<1>14. ASSUME NEW r \in Receivers, Replaced(r) PROVE QuietInv'
  <2>1. pc'["bridge"] = "hooks" => pc["bridge"] = "hooks" /\ cur'["bridge"] = cur["bridge"]
    BY <1>0, <1>14 DEF Replaced
  <2>. QED
    BY <1>0, <1>14, <2>1, QuietKept DEF Replaced
<1>15. ASSUME NEW s \in Sockets, Forward(s) \/ SocketPublish(s) PROVE QuietInv'
  <2>1. pc'["bridge"] = pc["bridge"] /\ cur'["bridge"] = cur["bridge"]
    BY <1>0, <1>15 DEF Forward, SocketPublish
  <2>. QED
    BY <1>0, <1>15, <2>1, QuietKept DEF Forward, SocketPublish
<1>16. ASSUME NEW s \in Sockets, Connect(s) \/ Disconnect(s) PROVE QuietInv'
  <2>1. /\ pc'["bridge"] = pc["bridge"] /\ cur'["bridge"] = cur["bridge"]
        /\ subs'["bridge"] = subs["bridge"] /\ DOMAIN subs' = Receivers
    BY <1>0, <1>16 DEF Connect, Disconnect, Reset
  <2>. QED
    BY <1>0, <1>16, <2>1, QuietKept DEF Connect, Disconnect, Input
<1>17. ASSUME NEW s \in Sockets, NEW t \in Topics,
         SocketSubscribe(s, t) \/ SocketUnsubscribe(s, t) \/ SocketEvent(s, t)
      PROVE  QuietInv'
  <2>1. /\ pc'["bridge"] = pc["bridge"] /\ cur'["bridge"] = cur["bridge"]
        /\ subs'["bridge"] = subs["bridge"] /\ DOMAIN subs' = Receivers
    BY <1>0, <1>17 DEF SocketSubscribe, SocketUnsubscribe, SocketEvent
  <2>. QED
    BY <1>0, <1>17, <2>1, QuietKept DEF SocketSubscribe, SocketUnsubscribe, SocketEvent, Input
<1>18. ASSUME NEW t \in Topics, PublishRaw(t) PROVE QuietInv'
  BY <1>0, <1>18, QuietKept DEF PublishRaw, Input
<1>19. CASE EndSession
  <2>1. PICK v : v = View'
    OBVIOUS
  <2>2. /\ pipe' = <<>> /\ told' = {} /\ stray' = [t \in Topics |-> 0]
        /\ ends' = [t \in Topics |-> 0] /\ DOMAIN subs' = Receivers
        /\ subs'["bridge"] = {} /\ pc'["bridge"] = "off"
    BY <1>0, <1>19 DEF EndSession, Reset
  <2>3. v \in Views /\ Calm(v) /\ v.told = {}
    BY <2>1, <2>2 DEF View, Views, Calm
  <2>4. PICK views : views = [k \in 0..0 |-> v]
    OBVIOUS
  <2>5. /\ views \in [0..0 -> Views] /\ views[0] = v /\ Len(pipe') = 0
        /\ \A k \in 0..0 : Calm(views[k])
        /\ \A k \in 1..0 : views[k] = After(views[k - 1], pipe'[k])
    BY <2>2, <2>3, <2>4
  <2>6. Ready(v)'
    BY <2>2, <2>3 DEF Ready
  <2>7. Ready(views[0])'
    BY <2>5, <2>6 DEF Ready
  <2>. QED
    BY <2>1, <2>2, <2>5, <2>7 DEF QuietInv
<1>20. ASSUME NEW t \in Topics, Subscribe(t) PROVE QuietInv'
  <2>1. PICK x : x = [who |-> Hu, kind |-> "subscribed", arg |-> t, sess |-> session]
    OBVIOUS
  <2>2. /\ pipe' = Append(pipe, x) /\ x.kind = "subscribed" /\ x.arg = t
        /\ UNCHANGED <<told, stray, ends, cur>> /\ DOMAIN subs' = Receivers
        /\ subs'["bridge"] = subs["bridge"] \cup {t}
        /\ (pc'["bridge"] = "hooks" => pc["bridge"] = "hooks")
    BY <1>0, <1>20, <2>1 DEF Subscribe, Reply, Enqueue, EnsureBridge
  <2>3. ASSUME NEW v \in Views, Calm(v), Ready(v)
        PROVE  After(v, x) \in Views /\ Calm(After(v, x)) /\ Ready(After(v, x))'
    <3>1. PICK w : w = After(v, x)
      OBVIOUS
    <3>2. /\ w \in Views /\ w.told = v.told \cup {t} /\ w.stray = v.stray /\ w.ends = v.ends
      BY <2>2, <3>1 DEF After, Views
    <3>3. Calm(w)
      BY <2>3, <3>2 DEF Calm
    <3>4. Ready(w)'
      BY <2>2, <2>3, <3>2 DEF Ready
    <3>. QED
      BY <3>1, <3>2, <3>3, <3>4
  <2>. QED
    BY <1>0, <2>2, <2>3, QuietAppended
<1>21. ASSUME NEW t \in Topics, Unsubscribe(t) PROVE QuietInv'
  <2>1. PICK x : x = [who |-> Hu, kind |-> "unsubscribed", arg |-> t, sess |-> session]
    OBVIOUS
  <2>2. /\ pipe' = Append(pipe, x) /\ x.kind = "unsubscribed" /\ x.arg = t
        /\ UNCHANGED <<told, stray, ends, cur, pc>> /\ DOMAIN subs' = Receivers
        /\ subs'["bridge"] = subs["bridge"] \ {t}
    BY <1>0, <1>21, <2>1 DEF Unsubscribe, Reply, Enqueue
  <2>3. ASSUME NEW v \in Views, Calm(v), Ready(v)
        PROVE  After(v, x) \in Views /\ Calm(After(v, x)) /\ Ready(After(v, x))'
    <3>1. PICK w : w = After(v, x)
      OBVIOUS
    <3>2. /\ w.told = v.told \ {t} /\ w.stray = v.stray /\ v.told \in SUBSET Topics
          /\ w.ends = IF t \in v.told THEN [v.ends EXCEPT ![t] = v.ends[t] + 1] ELSE v.ends
          /\ v.stray \in [Topics -> Nat] /\ v.ends \in [Topics -> Nat]
      BY <2>2, <3>1 DEF After, Views
    <3>3. /\ w.ends \in [Topics -> Nat] /\ (t \in v.told => w.ends[t] = v.ends[t] + 1)
          /\ \A q \in Topics : v.ends[q] <= w.ends[q] /\ (q # t => v.ends[q] = w.ends[q])
      BY <3>2
    <3>4. w \in Views
      <4>1. w = [told |-> w.told, stray |-> w.stray, ends |-> w.ends]
        BY <3>1 DEF After
      <4>. QED
        BY <3>2, <3>3, <4>1 DEF Views
    <3>5. Calm(w)
      BY <2>3, <3>2, <3>3 DEF Calm
    <3>6. Ready(w)'
      <4>1. w.told = subs'["bridge"]
        BY <2>2, <2>3, <3>2 DEF Ready
      <4>2. ASSUME pc'["bridge"] = "hooks", cur'["bridge"].topic \notin subs'["bridge"]
            PROVE  w.stray[cur'["bridge"].topic] < w.ends[cur'["bridge"].topic]
        <5>1. PICK q \in Topics : q = cur["bridge"].topic
          BY <1>0, <2>2, <4>2 DEF EInv, EventType, Events
        <5>2. pc["bridge"] = "hooks" /\ cur' = cur
          BY <2>2, <4>2
        <5>3. CASE q \in subs["bridge"]
          <6>1. q = t /\ t \in v.told
            BY <2>2, <2>3, <4>2, <5>1, <5>3 DEF Ready
          <6>2. v.stray[q] <= v.ends[q] /\ w.ends[q] = v.ends[q] + 1
            BY <2>3, <3>3, <6>1 DEF Calm
          <6>. QED
            BY <3>2, <5>1, <5>2, <6>2
        <5>4. CASE q \notin subs["bridge"]
          <6>1. v.stray[q] < v.ends[q]
            BY <2>3, <5>1, <5>2, <5>4 DEF Ready
          <6>. QED
            BY <3>2, <3>3, <5>1, <5>2, <6>1
        <5>. QED
          BY <5>3, <5>4
      <4>. QED
        BY <4>1, <4>2 DEF Ready
    <3>. QED
      BY <3>1, <3>4, <3>5, <3>6
  <2>. QED
    BY <1>0, <2>2, <2>3, QuietAppended
<1>22. CASE BridgeSend
  <2>1. PICK e \in Events : e = cur["bridge"]
    BY <1>0, <1>22 DEF BridgeSend, EInv, EventType
  <2>2. PICK x : x = [who |-> Bridge, kind |-> "event", arg |-> e, sess |-> session]
    OBVIOUS
  <2>3. /\ pipe' = Append(pipe, x) /\ x.kind = "event" /\ x.arg = e /\ e.topic \in Topics
        /\ UNCHANGED <<told, stray, ends, subs>> /\ pc["bridge"] = "hooks" /\ pc'["bridge"] = "send"
    BY <1>0, <1>22, <2>1, <2>2 DEF BridgeSend, Enqueue, Events
  <2>4. ASSUME NEW v \in Views, Calm(v), Ready(v)
        PROVE  After(v, x) \in Views /\ Calm(After(v, x)) /\ Ready(After(v, x))'
    <3>1. PICK w : w = After(v, x)
      OBVIOUS
    <3>2. /\ w.told = v.told /\ w.ends = v.ends /\ v.told \in SUBSET Topics
          /\ w.stray = IF e.topic \notin v.told
                       THEN [v.stray EXCEPT ![e.topic] = v.stray[e.topic] + 1] ELSE v.stray
          /\ v.stray \in [Topics -> Nat] /\ v.ends \in [Topics -> Nat]
      BY <2>3, <3>1 DEF After, Views
    <3>3. w.stray \in [Topics -> Nat]
      BY <2>3, <3>2
    <3>4. w \in Views
      <4>1. w = [told |-> w.told, stray |-> w.stray, ends |-> w.ends]
        BY <3>1 DEF After
      <4>. QED
        BY <3>2, <3>3, <4>1 DEF Views
    <3>5. e.topic \in v.told \/ v.stray[e.topic] < v.ends[e.topic]
      BY <2>1, <2>3, <2>4 DEF Ready
    <3>6. Calm(w)
      <4>1. CASE e.topic \in v.told
        BY <2>4, <3>2, <4>1 DEF Calm
      <4>2. CASE e.topic \notin v.told
        <5>1. \A t \in Topics : w.stray[t] = IF t = e.topic THEN v.stray[t] + 1 ELSE v.stray[t]
          BY <3>2, <4>2
        <5>. QED
          BY <2>3, <2>4, <3>2, <3>5, <4>2, <5>1 DEF Calm
      <4>. QED
        BY <4>1, <4>2
    <3>7. Ready(w)'
      BY <2>3, <2>4, <3>2 DEF Ready
    <3>. QED
      BY <3>1, <3>4, <3>6, <3>7
  <2>. QED
    BY <1>0, <2>3, <2>4, QuietAppended
<1>23. ASSUME pipe # <<>>, pipe' = Tail(pipe), UNCHANGED <<subs, pc, cur>>,
              \E x : /\ x = Head(pipe)
                     /\ told' = IF x.kind = "subscribed" THEN told \cup {x.arg}
                                ELSE IF x.kind = "unsubscribed" THEN told \ {x.arg} ELSE told
                     /\ stray' = IF x.kind = "event" /\ x.arg.topic \notin told
                                 THEN [stray EXCEPT ![x.arg.topic] = stray[x.arg.topic] + 1]
                                 ELSE stray
                     /\ ends' = IF x.kind = "unsubscribed" /\ x.arg \in told
                                THEN [ends EXCEPT ![x.arg] = ends[x.arg] + 1] ELSE ends
       PROVE  QuietInv'
  <2>1. View' = After(View, Head(pipe))
    BY <1>23 DEF View, After
  <2>. QED
    BY <1>0, <1>23, <2>1, QuietTaken
<1>24. CASE TakeReply
  BY <1>23, <1>24 DEF TakeReply, Take
<1>25. CASE TakeSubscribed
  BY <1>23, <1>25 DEF TakeSubscribed, Take, Arg
<1>26. CASE TakeUnsubscribed
  BY <1>23, <1>26 DEF TakeUnsubscribed, Take, Arg
<1>27. CASE TakeEvent
  BY <1>23, <1>27 DEF TakeEvent, Take, Arg
<1>28. CASE TakeCalled
  BY <1>23, <1>28 DEF TakeCalled, Take
<1>29. CASE TakeResult
  BY <1>23, <1>29 DEF TakeResult, Take
<1>30. CASE UNCHANGED vars
  BY <1>0, <1>30, QuietKept DEF vars
<1>. QED
  BY <1>1, <1>2, <1>3, <1>4, <1>5, <1>6, <1>7, <1>8, <1>9, <1>10, <1>11, <1>12, <1>13, <1>14,
     <1>15, <1>16, <1>17, <1>18, <1>19, <1>20, <1>21, <1>22, <1>24, <1>25, <1>26, <1>27, <1>28,
     <1>29, <1>30 DEF Next, Phone, Deliver, Rest, Receive, Browser, Forward

LEMMA InitQuietInv == Init => QuietInv
<1>. SUFFICES ASSUME Init PROVE QuietInv
  OBVIOUS
<1>1. PICK v : v = View
  OBVIOUS
<1>2. /\ pipe = <<>> /\ told = {} /\ stray = [t \in Topics |-> 0] /\ ends = [t \in Topics |-> 0]
      /\ DOMAIN subs = Receivers /\ subs["bridge"] = {} /\ pc["bridge"] = "off"
  BY DEF Init, Receivers
<1>3. v \in Views /\ Calm(v) /\ v.told = {} /\ Ready(v)
  BY <1>1, <1>2 DEF View, Views, Calm, Ready
<1>4. PICK views : views = [k \in 0..0 |-> v]
  OBVIOUS
<1>5. /\ views \in [0..0 -> Views] /\ views[0] = v /\ Len(pipe) = 0
      /\ \A k \in 0..0 : Calm(views[k])
      /\ \A k \in 1..0 : views[k] = After(views[k - 1], pipe[k])
  BY <1>2, <1>3, <1>4
<1>. QED
  BY <1>1, <1>2, <1>3, <1>5 DEF QuietInv

\* One event at most comes after the reply to an unsubscription (QuietUnsubscribed).
THEOREM QuietAfterUnsubscribing == Spec => []QuietUnsubscribed
<1>1. IInv /\ QuietInv => QuietUnsubscribed
  <2>. SUFFICES ASSUME IInv, QuietInv PROVE QuietUnsubscribed
    OBVIOUS
  <2>1. Len(pipe) \in Nat
    BY DEF IInv, QueueInv, PipeInv
  <2>2. Calm(View)
    BY <2>1 DEF QuietInv
  <2>. QED
    BY <2>2 DEF Calm, View, QuietUnsubscribed
<1>. QED
  BY <1>1, InitIInv, NextIInv, InitEInv, NextEInv, InitQuietInv, NextQuietInv, PTL DEF Spec

---------------------------------------------------------------------------
(* No event is lost on its way: what a client is owed has a copy that is    *)
(* still to reach it.                                                      *)

QueuedFor(r, d) == \E j \in DOMAIN rx[r] : Due(rx[r][j]) = d
HeldFor(r, d)   == pc[r] = "hooks" /\ Due(cur[r]) = d
SentFor(r, d)   ==
    r = "bridge" /\ \E j \in DOMAIN pipe : pipe[j].kind = "event" /\ Due(pipe[j].arg) = d
OnItsWay(r, d)  == QueuedFor(r, d) \/ HeldFor(r, d) \/ SentFor(r, d)

\* What a client is owed is on its way to it: in the receiver, with the scripts,
\* or in the queue to the phone. Only a lag, an unsubscription or the end of the
\* connection takes it back (run_vec_topic_event_bridge, handle_socket).
NoneForgotten == \A r \in Receivers : \A d \in owed[r] : OnItsWay(r, d)

\* A client is owed events of its topics only, so that a receiver that drops what
\* is on other topics drops nothing that is owed.
OwedInv ==
    /\ DOMAIN subs = Receivers /\ DOMAIN owed = Receivers
    /\ \A r \in Receivers :
          /\ pc[r] = "off" => subs[r] = {}
          /\ \A d \in owed[r] : d[2] \in subs[r] /\ OnItsWay(r, d)

PipeGrows == pipe' = pipe \/ \E x : pipe' = Append(pipe, x)

LEMMA SentStays ==
  ASSUME PipeInv, PipeGrows
  PROVE  \A r, d : SentFor(r, d) => SentFor(r, d)'
<1>1. CASE pipe' = pipe
  BY <1>1 DEF SentFor, Due
<1>2. ASSUME NEW x, pipe' = Append(pipe, x) PROVE \A r, d : SentFor(r, d) => SentFor(r, d)'
  <2>1. \A j \in DOMAIN pipe : j \in DOMAIN pipe' /\ pipe'[j] = pipe[j]
    BY <1>2, AppendedAt
  <2>. QED
    BY <2>1 DEF SentFor, Due
<1>. QED
  BY <1>1, <1>2 DEF PipeGrows

LEMMA SentTaken ==
  ASSUME PipeInv, pipe # <<>>, pipe' = Tail(pipe), NEW r, NEW d, SentFor(r, d)
  PROVE  SentFor(r, d)' \/ (Head(pipe).kind = "event" /\ Due(Head(pipe).arg) = d)
<1>1. PICK j \in DOMAIN pipe : pipe[j].kind = "event" /\ Due(pipe[j].arg) = d
  BY DEF SentFor
<1>2. CASE j = 1
  BY <1>1, <1>2, TakenAt
<1>3. CASE j # 1
  <2>1. /\ j - 1 \in DOMAIN pipe' /\ pipe'[j - 1] = pipe[(j - 1) + 1] /\ (j - 1) + 1 = j
    BY <1>1, <1>3, TakenAt
  <2>. QED
    BY <1>1, <2>1 DEF SentFor, Due
<1>. QED
  BY <1>2, <1>3

\* The rest of a step that publishes nothing and takes nothing up.
OwedShrinks ==
    /\ DOMAIN subs' = Receivers /\ DOMAIN owed' = Receivers
    /\ \A r \in Receivers :
          /\ pc'[r] = "off" => subs'[r] = {}
          /\ \A d \in owed'[r] : d \in owed[r] /\ d[2] \in subs'[r]

LEMMA OwedKept ==
  ASSUME PipeInv, OwedInv, PipeGrows, OwedShrinks, rx' = rx,
         \A r \in Receivers : pc[r] = "hooks" => pc'[r] = "hooks" /\ cur'[r] = cur[r]
  PROVE  OwedInv'
<1>1. \A r \in Receivers : \A d : HeldFor(r, d) => HeldFor(r, d)'
  BY DEF HeldFor, Due
<1>2. \A r, d : QueuedFor(r, d)' = QueuedFor(r, d)
  BY DEF QueuedFor, Due
<1>. QED
  BY <1>1, <1>2, SentStays DEF OwedInv, OwedShrinks, OnItsWay

LEMMA OwedTaken ==
  ASSUME PipeInv, OwedInv, pipe # <<>>, pipe' = Tail(pipe), UNCHANGED <<rx, pc, cur, subs>>,
         DOMAIN owed' = Receivers, \A r \in Receivers : owed'[r] \subseteq owed[r],
         Head(pipe).kind = "event" => Due(Head(pipe).arg) \notin owed'["bridge"]
  PROVE  OwedInv'
<1>1. \A r, d : HeldFor(r, d)' = HeldFor(r, d) /\ QueuedFor(r, d)' = QueuedFor(r, d)
  BY DEF HeldFor, QueuedFor, Due
<1>2. ASSUME NEW r \in Receivers, NEW d \in owed'[r], SentFor(r, d) PROVE SentFor(r, d)'
  BY <1>2, SentTaken DEF SentFor
<1>. QED
  BY <1>1, <1>2 DEF OwedInv, OnItsWay

\* A step that empties one receiver, for good or to begin.
LEMMA OwedReset ==
  ASSUME PipeInv, OwedInv, EventType, NEW q \in Receivers, NEW state, state # "hooks",
         pc \in [Receivers -> States], Reset(q, state), pipe' = pipe \/ q = "bridge"
  PROVE  OwedInv'
<1>1. /\ \A r \in Receivers \ {q} : /\ pc'[r] = pc[r] /\ rx'[r] = rx[r] /\ subs'[r] = subs[r]
                                    /\ cur'[r] = cur[r] /\ owed'[r] = owed[r]
      /\ subs'[q] = {} /\ owed'[q] = {}
      /\ DOMAIN subs' = Receivers /\ DOMAIN owed' = Receivers
  BY DEF Reset, OwedInv, EventType
<1>2. ASSUME NEW r \in Receivers \ {q}, NEW d, OnItsWay(r, d) PROVE OnItsWay(r, d)'
  BY <1>1, <1>2 DEF OnItsWay, QueuedFor, HeldFor, SentFor, Due
<1>. QED
  BY <1>1, <1>2 DEF OwedInv

\* A published event reaches every receiver that is not off, and one that is full
\* is no longer owed the event it loses.
LEMMA PublishedAt ==
  ASSUME NEW r \in Receivers, NEW e \in Events, rx[r] \in Seq(Events), Publish(e), pc[r] # "off"
  PROVE  /\ QueuedFor(r, Due(e))'
         /\ \A d \in owed'[r] : QueuedFor(r, d) => QueuedFor(r, d)'
<1>1. PICK s \in Seq(Events) : s = rx[r]
  OBVIOUS
<1>2. PICK t : t = rx'[r]
  OBVIOUS
<1>3. CASE Len(rx[r]) = BusCapacity
  <2>1. t = Append(Tail(s), e) /\ s # <<>>
    BY <1>1, <1>2, <1>3, CapacityAssumption DEF Publish
  <2>2. Due(s[1]) \notin owed'[r]
    BY <1>1, <1>3, <2>1 DEF Publish
  <2>3. /\ Len(s) \in DOMAIN t /\ t[Len(s)] = e
        /\ \A j \in DOMAIN s : j # 1 => j - 1 \in DOMAIN t /\ t[j - 1] = s[j]
    BY <2>1
  <2>. QED
    BY <1>1, <1>2, <2>2, <2>3 DEF QueuedFor, Due
<1>4. CASE Len(rx[r]) # BusCapacity
  <2>1. t = Append(s, e)
    BY <1>1, <1>2, <1>4 DEF Publish
  <2>2. /\ Len(s) + 1 \in DOMAIN t /\ t[Len(s) + 1] = e
        /\ \A j \in DOMAIN s : j \in DOMAIN t /\ t[j] = s[j]
    BY <2>1
  <2>. QED
    BY <1>1, <1>2, <2>2 DEF QueuedFor, Due
<1>. QED
  BY <1>3, <1>4

LEMMA OwedPublished ==
  ASSUME PipeInv, OwedInv, EventType, NEW e \in Events, Publish(e), PipeGrows, subs' = subs,
         \A r \in Receivers : pc'[r] = "off" => pc[r] = "off",
         \A r \in Receivers : pc[r] = "hooks" =>
            Due(cur[r]) = Due(e) \/ (pc'[r] = "hooks" /\ cur'[r] = cur[r])
  PROVE  OwedInv'
<1>1. DOMAIN owed' = Receivers /\ \A r \in Receivers : \A d \in owed'[r] :
         d \in owed[r] \/ (d = Due(e) /\ e.topic \in subs[r])
  BY DEF Publish, Counts
<1>2. ASSUME NEW r \in Receivers, NEW d \in owed'[r] PROVE d[2] \in subs[r] /\ OnItsWay(r, d)'
  <2>1. d[2] \in subs[r]
    BY <1>1, <1>2 DEF OwedInv, Due
  <2>2. pc[r] # "off"
    BY <2>1 DEF OwedInv
  <2>3. QueuedFor(r, Due(e))' /\ (QueuedFor(r, d) => QueuedFor(r, d)')
    BY <1>2, <2>2, PublishedAt DEF EventType
  <2>4. HeldFor(r, d) => d = Due(e) \/ HeldFor(r, d)'
    BY DEF HeldFor, Due
  <2>5. d = Due(e) => OnItsWay(r, d)'
    BY <2>3 DEF OnItsWay
  <2>6. d # Due(e) => OnItsWay(r, d)
    BY <1>1, <1>2 DEF OwedInv
  <2>. QED
    BY <2>1, <2>3, <2>4, <2>5, <2>6, SentStays DEF OnItsWay
<1>. QED
  BY <1>1, <1>2 DEF OwedInv

LEMMA NextOwedInv == IInv /\ EInv /\ OwedInv /\ [Next]_vars => OwedInv'
<1>. SUFFICES ASSUME IInv, EInv, OwedInv, [Next]_vars PROVE OwedInv'
  OBVIOUS
<1>. USE DEF linkVars, busVars, phoneVars, clientVars
<1>0. /\ PipeInv /\ EventType /\ "bridge" \in Receivers /\ "bridge" \notin Sockets
      /\ \A s \in Sockets : s \in Receivers
      /\ DOMAIN subs = Receivers /\ DOMAIN owed = Receivers /\ DOMAIN cur = Receivers
      /\ pc \in [Receivers -> States]
  BY SocketsAssumption DEF IInv, QueueInv, CallType, EInv, EventType, OwedInv, Receivers
<1>1. ASSUME NEW who, NEW kind, NEW arg, NEW sess, Enqueue(who, kind, arg, sess)
      PROVE  PipeGrows
  BY <1>1, Zenon DEF Enqueue, PipeGrows
<1>2. ASSUME UNCHANGED <<pc, subs, owed>> PROVE OwedShrinks
  BY <1>0, <1>2 DEF OwedShrinks, OwedInv
<1>3. CASE OpenChannel
  <2>1. OwedShrinks /\ \A r \in Receivers : pc[r] = "hooks" => pc'[r] = "hooks"
    BY <1>0, <1>3 DEF OpenChannel, EnsureBridge, OwedShrinks, OwedInv
  <2>. QED
    BY <1>0, <1>1, <1>3, <2>1, OwedKept DEF OpenChannel, Reply
<1>4. ASSUME NEW t \in Topics, Subscribe(t) PROVE OwedInv'
  <2>1. OwedShrinks /\ \A r \in Receivers : pc[r] = "hooks" => pc'[r] = "hooks"
    BY <1>0, <1>4 DEF Subscribe, EnsureBridge, OwedShrinks, OwedInv
  <2>. QED
    BY <1>0, <1>1, <1>4, <2>1, OwedKept DEF Subscribe, Reply
<1>5. ASSUME NEW t \in Topics, Unsubscribe(t) PROVE OwedInv'
  <2>1. OwedShrinks
    BY <1>0, <1>5 DEF Unsubscribe, OwedShrinks, OwedInv
  <2>. QED
    BY <1>0, <1>1, <1>5, <2>1, OwedKept DEF Unsubscribe, Reply
<1>6. CASE Ask
  BY <1>0, <1>1, <1>2, <1>6, OwedKept DEF Ask, Reply
<1>7. ASSUME NEW t \in Topics, ScriptEvent(t) PROVE OwedInv'
  BY <1>0, <1>2, <1>7, OwedKept DEF ScriptEvent, PipeGrows
<1>8. ASSUME NEW route, RestCall(route) PROVE OwedInv'
  BY <1>0, <1>1, <1>2, <1>8, OwedKept DEF RestCall, NewCall, Reply
<1>9. ASSUME NEW route, RestCallSync(route) PROVE OwedInv'
  BY <1>0, <1>2, <1>9, OwedKept DEF RestCallSync, NewCall, PipeGrows
<1>10. ASSUME NEW c \in Calls, Rest(c) PROVE OwedInv'
  <2>1. PipeGrows
    BY <1>1, <1>10 DEF Rest, HandleInject, CallReturns, SyncReturns, SendChunk, SendFails,
                       Reply, PipeGrows
  <2>2. UNCHANGED <<rx, pc, cur, subs, owed>>
    BY <1>10 DEF Rest, HandleInject, CallReturns, SyncReturns, SendChunk, SendFails
  <2>. QED
    BY <1>0, <1>2, <2>1, <2>2, OwedKept
<1>11. CASE BeginSession
  BY <1>0, <1>2, <1>11, OwedKept DEF BeginSession, PipeGrows
<1>12. CASE EndSession
  BY <1>0, <1>12, OwedReset DEF EndSession
<1>13. CASE BridgeSent
  <2>1. OwedShrinks /\ PipeGrows /\ \A r \in Receivers : pc[r] = "hooks" => pc'[r] = "hooks"
    BY <1>0, <1>13 DEF BridgeSent, OwedShrinks, OwedInv, PipeGrows
  <2>. QED
    BY <1>0, <1>13, <2>1, OwedKept DEF BridgeSent
<1>14. ASSUME NEW s \in Sockets, Connect(s) \/ Disconnect(s) PROVE OwedInv'
  BY <1>0, <1>14, OwedReset DEF Connect, Disconnect
<1>15. ASSUME NEW s \in Sockets, NEW t \in Topics, SocketSubscribe(s, t) PROVE OwedInv'
  <2>1. OwedShrinks
    BY <1>0, <1>15 DEF SocketSubscribe, OwedShrinks, OwedInv
  <2>. QED
    BY <1>0, <1>15, <2>1, OwedKept DEF SocketSubscribe, PipeGrows
<1>16. ASSUME NEW s \in Sockets, NEW t \in Topics, SocketUnsubscribe(s, t) PROVE OwedInv'
  <2>1. OwedShrinks
    BY <1>0, <1>16 DEF SocketUnsubscribe, OwedShrinks, OwedInv
  <2>. QED
    BY <1>0, <1>16, <2>1, OwedKept DEF SocketUnsubscribe, PipeGrows
<1>17. ASSUME NEW s \in Sockets, NEW t \in Topics, SocketEvent(s, t) PROVE OwedInv'
  <2>1. OwedShrinks
    BY <1>0, <1>17 DEF SocketEvent, OwedShrinks, OwedInv
  <2>2. \A r \in Receivers : pc[r] = "hooks" => pc'[r] = "hooks" /\ cur'[r] = cur[r]
    BY <1>0, <1>17 DEF SocketEvent
  <2>. QED
    BY <1>0, <1>17, <2>1, <2>2, OwedKept DEF SocketEvent, PipeGrows
<1>18. CASE PublishScriptEvent
  <2>1. doing \in Events
    BY <1>0, <1>18 DEF PublishScriptEvent, EventType
  <2>2. PICK e \in Scripted(doing) : Publish(e)
    BY <1>18 DEF PublishScriptEvent, PublishScripted
  <2>3. e \in Events
    BY <2>1, <2>2, ScriptedIs
  <2>. QED
    BY <1>0, <1>1, <1>18, <2>2, <2>3, OwedPublished DEF PublishScriptEvent, Reply
<1>19. ASSUME NEW s \in Sockets, SocketPublish(s) PROVE OwedInv'
  <2>1. cur[s] \in Events
    BY <1>0, <1>19 DEF SocketPublish, EventType
  <2>2. PICK e \in Scripted(cur[s]) : Publish(e)
    BY <1>19 DEF SocketPublish, PublishScripted
  <2>4. e \in Events
    BY <2>1, <2>2, ScriptedIs
  <2>3. /\ \A r \in Receivers : pc'[r] = "off" => pc[r] = "off"
        /\ \A r \in Receivers : pc[r] = "hooks" => pc'[r] = "hooks" /\ cur'[r] = cur[r]
    BY <1>0, <1>19 DEF SocketPublish
  <2>. QED
    BY <1>0, <1>19, <2>2, <2>3, <2>4, OwedPublished DEF SocketPublish, PipeGrows
<1>20. ASSUME NEW q \in Receivers, Replaced(q) PROVE OwedInv'
  <2>1. cur[q] \in Events
    BY <1>0, <1>20 DEF Replaced, EventType
  <2>2. PICK e \in Events : e = Rewritten(cur[q]) /\ Due(e) = Due(cur[q])
    <3>1. cur[q].rewrites < MaxRewrites
      BY <1>20 DEF Replaced
    <3>. QED
      BY <2>1, <3>1, RewrittenIs DEF Due
  <2>3. /\ \A r \in Receivers : pc'[r] = "off" => pc[r] = "off"
        /\ \A r \in Receivers :
              pc[r] = "hooks" => r = q \/ (pc'[r] = "hooks" /\ cur'[r] = cur[r])
    BY <1>0, <1>20 DEF Replaced
  <2>4. Publish(e) /\ PipeGrows /\ subs' = subs
    BY <1>20, <2>2 DEF Replaced, PipeGrows
  <2>. QED
    BY <1>0, <2>2, <2>3, <2>4, OwedPublished
<1>21. ASSUME NEW t \in Topics, PublishRaw(t) PROVE OwedInv'
  <2>. DEFINE x == [id |-> used + 1, topic |-> t, rewrites |-> 0]
  <2>1. x \in Events
    BY <1>0, <1>21, BoundsAssumption, RewritesAssumption DEF PublishRaw, NewEvent, Events, Ids, EventType
  <2>2. Publish(x) /\ UNCHANGED <<pipe, pc, subs, cur>>
    BY <1>21 DEF PublishRaw
  <2>. HIDE DEF x
  <2>. QED
    BY <1>0, <2>1, <2>2, OwedPublished DEF PipeGrows
<1>22. ASSUME NEW q \in Receivers, Recv(q) PROVE OwedInv'
  <2>1. PICK s \in Seq(Events) : s = rx[q]
    BY <1>0 DEF EventType
  <2>2. /\ pc[q] = "recv" /\ s # <<>> /\ rx' = [rx EXCEPT ![q] = Tail(s)]
        /\ UNCHANGED <<pipe, subs, owed>>
    BY <1>22, <2>1 DEF Recv
  <2>3. /\ rx'[q] = Tail(s) /\ \A r \in Receivers \ {q} : rx'[r] = rx[r]
        /\ \A j \in DOMAIN s : j # 1 => j - 1 \in DOMAIN Tail(s) /\ Tail(s)[j - 1] = s[j]
    BY <1>0, <2>2 DEF EventType
  <2>4. \A d : QueuedFor(q, d) => QueuedFor(q, d)' \/ d = Due(Head(s))
    <3>1. ASSUME NEW d, NEW j \in DOMAIN s, Due(s[j]) = d, j # 1 PROVE QueuedFor(q, d)'
      BY <2>3, <3>1 DEF QueuedFor, Due
    <3>2. Head(s) = s[1]
      BY <2>2
    <3>. QED
      BY <2>1, <3>1, <3>2 DEF QueuedFor
  <2>5. \A r \in Receivers \ {q} : \A d : QueuedFor(r, d) => QueuedFor(r, d)'
    BY <2>3 DEF QueuedFor, Due
  <2>6. \A r, d : SentFor(r, d) => SentFor(r, d)'
    BY <1>0, <2>2, SentStays DEF PipeGrows
  <2>7. CASE Head(s).topic \in subs[q]
    <3>1. /\ pc'[q] = "hooks" /\ cur'[q] = Head(s)
          /\ \A r \in Receivers \ {q} : pc'[r] = pc[r] /\ cur'[r] = cur[r]
      BY <1>0, <1>22, <2>1, <2>7 DEF Recv
    <3>2. HeldFor(q, Due(Head(s)))'
      BY <3>1 DEF HeldFor, Due
    <3>3. \A r \in Receivers : \A d : HeldFor(r, d) => HeldFor(r, d)'
      BY <2>2, <3>1 DEF HeldFor, Due
    <3>4. \A r \in Receivers : \A d : OnItsWay(r, d) => OnItsWay(r, d)'
      BY <2>4, <2>5, <2>6, <3>2, <3>3 DEF OnItsWay
    <3>. QED
      BY <2>2, <3>1, <3>4 DEF OwedInv
  <2>8. CASE Head(s).topic \notin subs[q]
    <3>1. pc' = pc /\ cur' = cur
      BY <1>22, <2>1, <2>8 DEF Recv
    <3>2. \A r, d : HeldFor(r, d) => HeldFor(r, d)'
      BY <3>1 DEF HeldFor, Due
    <3>3. Due(Head(s)) \notin owed[q]
      BY <2>8 DEF OwedInv, Due
    <3>4. \A r \in Receivers : \A d \in owed[r] : OnItsWay(r, d) => OnItsWay(r, d)'
      BY <2>4, <2>5, <2>6, <3>2, <3>3 DEF OnItsWay
    <3>. QED
      BY <2>2, <3>1, <3>4 DEF OwedInv
  <2>. QED
    BY <2>7, <2>8
<1>23. ASSUME NEW s \in Sockets, Forward(s) PROVE OwedInv'
  <2>1. PICK e : e = cur[s]
    OBVIOUS
  <2>2. /\ pc[s] = "hooks" /\ UNCHANGED <<pipe, rx, subs>>
        /\ pc' = [pc EXCEPT ![s] = "recv"] /\ cur' = [cur EXCEPT ![s] = NoEvent]
        /\ owed' = [owed EXCEPT ![s] = owed[s] \ {Due(e)}]
    BY <1>23, <2>1 DEF Forward, Hear
  <2>3. /\ pc'[s] = "recv" /\ owed'[s] = owed[s] \ {Due(e)} /\ DOMAIN owed' = Receivers
        /\ \A r \in Receivers \ {s} : pc'[r] = pc[r] /\ cur'[r] = cur[r] /\ owed'[r] = owed[r]
    BY <1>0, <2>2
  <2>4. \A r, d : QueuedFor(r, d)' = QueuedFor(r, d) /\ SentFor(r, d)' = SentFor(r, d)
    BY <2>2 DEF QueuedFor, SentFor, Due
  <2>5. \A r \in Receivers : \A d \in owed'[r] : HeldFor(r, d) => HeldFor(r, d)'
    BY <2>1, <2>3 DEF HeldFor, Due
  <2>. QED
    BY <1>0, <2>2, <2>3, <2>4, <2>5 DEF OwedInv, OnItsWay
<1>24. CASE BridgeSend
  <2>1. PICK e : e = cur["bridge"]
    OBVIOUS
  <2>2. PICK x : x = [who |-> Bridge, kind |-> "event", arg |-> e, sess |-> session]
    OBVIOUS
  <2>3. /\ pc["bridge"] = "hooks" /\ pipe' = Append(pipe, x) /\ UNCHANGED <<rx, subs, owed>>
        /\ pc' = [pc EXCEPT !["bridge"] = "send"] /\ cur' = [cur EXCEPT !["bridge"] = NoEvent]
    BY <1>24, <2>1, <2>2 DEF BridgeSend, Enqueue
  <2>4. /\ pc'["bridge"] = "send"
        /\ \A r \in Receivers \ {"bridge"} : pc'[r] = pc[r] /\ cur'[r] = cur[r]
    BY <1>0, <2>3
  <2>5. Len(pipe) + 1 \in DOMAIN pipe' /\ pipe'[Len(pipe) + 1] = x
    BY <1>0, <2>3, AppendedAt
  <2>6. SentFor("bridge", Due(e))'
    BY <2>2, <2>5 DEF SentFor, Due
  <2>7. \A r, d : SentFor(r, d) => SentFor(r, d)'
    BY <1>0, <2>3, SentStays DEF PipeGrows
  <2>8. \A r \in Receivers : \A d : HeldFor(r, d) => HeldFor(r, d)' \/ SentFor(r, d)'
    BY <2>1, <2>4, <2>6 DEF HeldFor, Due
  <2>9. \A r, d : QueuedFor(r, d)' = QueuedFor(r, d)
    BY <2>3 DEF QueuedFor, Due
  <2>. QED
    BY <1>0, <2>3, <2>4, <2>7, <2>8, <2>9 DEF OwedInv, OnItsWay
<1>25. CASE TakeReply \/ TakeSubscribed \/ TakeUnsubscribed \/ TakeCalled \/ TakeResult
  <2>1. pipe # <<>> /\ pipe' = Tail(pipe) /\ Head(pipe).kind # "event"
    BY <1>25 DEF TakeReply, TakeSubscribed, TakeUnsubscribed, TakeCalled, TakeResult, Take
  <2>2. UNCHANGED <<rx, pc, cur, subs, owed>>
    BY <1>25 DEF TakeReply, TakeSubscribed, TakeUnsubscribed, TakeCalled, TakeResult
  <2>. QED
    BY <1>0, <2>1, <2>2, OwedTaken
<1>26. CASE TakeEvent
  <2>1. PICK e : e = Head(pipe).arg
    OBVIOUS
  <2>2. /\ pipe # <<>> /\ pipe' = Tail(pipe) /\ UNCHANGED <<rx, pc, cur, subs>>
        /\ owed' = [owed EXCEPT !["bridge"] = owed["bridge"] \ {Due(e)}]
    BY <1>26, <2>1 DEF TakeEvent, Take, Hear, Arg
  <2>3. /\ DOMAIN owed' = Receivers /\ \A r \in Receivers : owed'[r] \subseteq owed[r]
        /\ Due(e) \notin owed'["bridge"]
    BY <1>0, <2>2
  <2>. QED
    BY <1>0, <2>1, <2>2, <2>3, OwedTaken
<1>27. CASE UNCHANGED vars
  BY <1>0, <1>2, <1>27, OwedKept DEF vars, PipeGrows
<1>. QED
  BY <1>3, <1>4, <1>5, <1>6, <1>7, <1>8, <1>9, <1>10, <1>11, <1>12, <1>13, <1>14, <1>15, <1>16,
     <1>17, <1>18, <1>19, <1>20, <1>21, <1>22, <1>23, <1>24, <1>25, <1>26, <1>27
     DEF Next, Phone, Deliver, Receive, Browser, Forward

\* An event a client is owed is on its way to it, until the client hears it or
\* may no longer count on it: the safety side of HeardInTheEnd.
THEOREM OwedIsOnItsWay == Spec => []NoneForgotten
<1>1. Init => OwedInv
  <2>. SUFFICES ASSUME Init PROVE OwedInv
    OBVIOUS
  <2>1. /\ DOMAIN subs = Receivers /\ DOMAIN owed = Receivers
        /\ \A r \in Receivers : subs[r] = {} /\ owed[r] = {}
    BY DEF Init
  <2>. QED
    BY <2>1 DEF OwedInv
<1>2. OwedInv => NoneForgotten
  BY DEF OwedInv, NoneForgotten
<1>. QED
  BY <1>1, <1>2, InitIInv, NextIInv, InitEInv, NextEInv, NextOwedInv, PTL DEF Spec

=============================================================================
