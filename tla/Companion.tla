----------------------------- MODULE Companion -----------------------------
(***************************************************************************)
(* The companion application on the phone and the browsers that listen to  *)
(* events (vendor_ext.rs, handle_socket of web.rs, the vendor branch of    *)
(* pkt_modify_hook in mitm.rs). The phone sends requests on the vendor     *)
(* channel, which the proxy of the car's side answers into the queue the   *)
(* proxy of the phone's side empties. A bridge task copies the events the  *)
(* phone subscribed to from the event bus into the same queue, and a task  *)
(* per REST call puts the result there. Both proxies, the bridge and these *)
(* tasks share one thread; the web server has threads of its own.          *)
(***************************************************************************)
EXTENDS Naturals, Sequences, FiniteSets

CONSTANTS
    Topics,                     \* the topics of events
    Sockets,                    \* browsers
    Routes,                     \* what the REST routes the phone calls do ...
    SyncRoutes,                 \* ... and those it calls with the synchronous request
    QueueCapacity, BusCapacity, \* 10 and 256 in the code
    Chunks,                     \* packets of a REST result
    MaxRewrites,                \* how often in a row the scripts rewrite an event
    MaxSessions, MaxEvents, MaxCalls, MaxInputs \* bounds

ASSUME SocketsAssumption == IsFiniteSet(Sockets) /\ "bridge" \notin Sockets
ASSUME RoutesAssumption == SyncRoutes \cup Routes \subseteq {"get", "inject"}
ASSUME CapacityAssumption == {QueueCapacity, BusCapacity, Chunks} \subseteq Nat \ {0}
\* The code sets no limit: that the scripts stop is a demand on them.
ASSUME RewritesAssumption == MaxRewrites \in Nat
ASSUME BoundsAssumption == {MaxSessions, MaxEvents, MaxCalls, MaxInputs} \subseteq Nat

VARIABLES
    session, up,       \* number of the session, and whether it runs
    inputs,            \* number of messages of clients and of raw events so far
    pipe,              \* the queue to the phone and, beyond its capacity, who waits
    hu, doing,         \* the car-side proxy and the event it is to publish
    pc, rx, subs, cur, \* the bus's receivers: their events, topics and current event
    used, replaced,    \* number of events, those the publisher's scripts rewrote
    calls,             \* the REST calls
    told, known,       \* what the phone was told: its topics, the numbers of its calls
    heard, owed,       \* what each client heard, and has yet to hear
    results,           \* how much of each result the phone has
    stray, ends        \* events on topics the phone does not have, unsubscriptions

linkVars   == <<session, up, inputs>>
busVars    == <<pc, rx, subs, cur, used, replaced>>
phoneVars  == <<told, known, results, stray, ends>>
clientVars == <<heard, owed>>
vars == <<linkVars, pipe, hu, doing, busVars, calls, phoneVars, clientVars>>

Receivers == {"bridge"} \cup Sockets
Ids       == 1..MaxEvents
Calls     == 1..MaxCalls
\* The code's event has no mark: rewrites tells the version of the publisher (0)
\* from those of the scripts.
Events    == [id : Ids, topic : Topics, rewrites : 0..MaxRewrites]
NoEvent   == [id |-> 0]
NoCall    == [sess |-> 0, route |-> "get", pc |-> "none", sent |-> 0]

\* A synchronous call blocks the thread of everything but the web server.
Running == up /\ hu # "sync"

\* Senders are served in the order they came: a packet beyond the capacity is
\* that of a sender still in wait. Mutant: the sender that came last is served
\* first.
EnqueueBarging(who, kind, arg, sess) ==
    LET n == IF Len(pipe) < QueueCapacity THEN Len(pipe) ELSE QueueCapacity IN
    pipe' = SubSeq(pipe, 1, n)
            \o <<[who |-> who, kind |-> kind, arg |-> arg, sess |-> sess]>>
            \o SubSeq(pipe, n + 1, Len(pipe))

Enqueue(who, kind, arg, sess) ==
    pipe' = Append(pipe, [who |-> who, kind |-> kind, arg |-> arg, sess |-> sess])
Waiting(who) == \E i \in QueueCapacity + 1 .. Len(pipe) : pipe[i].who = who

Hu     == <<"hu", 0>>
Bridge == <<"bridge", 0>>
Task(c) == <<"task", c>>
Web(c)  == <<"web", c>>
Reply(kind, arg) == Enqueue(Hu, kind, arg, session)

\* Every receiver asks the scripts about every event, those they rewrote too.
\* They leave it as it is or have another published on the same topic.
Rewritten(e) == [e EXCEPT !.rewrites = @ + 1]
Scripted(e)  == {e} \cup (IF e.rewrites < MaxRewrites THEN {Rewritten(e)} ELSE {})

\* A client may count on some version of an event.
Due(e) == <<e.id, e.topic>>
\* Topics on which a client may count on hearing what is published.
Counts(r) == IF r = "bridge" THEN subs[r] \cap told ELSE subs[r]

---------------------------------------------------------------------------
Init ==
    /\ session = 0 /\ up = FALSE /\ inputs = 0 /\ pipe = <<>> /\ hu = "idle"
    /\ doing = NoEvent
    /\ pc = [r \in Receivers |-> "off"] /\ rx = [r \in Receivers |-> <<>>]
    /\ subs = [r \in Receivers |-> {}] /\ cur = [r \in Receivers |-> NoEvent]
    /\ used = 0 /\ replaced = {} /\ calls = [c \in Calls |-> NoCall]
    /\ told = {} /\ known = {} /\ results = [c \in Calls |-> 0]
    /\ stray = [t \in Topics |-> 0] /\ ends = [t \in Topics |-> 0]
    /\ heard = [r \in Receivers |-> [i \in Ids |-> 0]]
    /\ owed = [r \in Receivers |-> {}]

\* Mutant: a receiver that is busy with an event misses the next one.
PublishToIdle(e) ==
    /\ rx' = [r \in Receivers |-> IF pc[r] = "recv" THEN Append(rx[r], e) ELSE rx[r]]
    /\ owed' = [r \in Receivers |->
                owed[r] \cup (IF e.topic \in Counts(r) THEN {Due(e)} ELSE {})]

\* The event bus: every receiver gets the event; a full one loses its oldest.
Publish(e) ==
    LET Full(r) == pc[r] # "off" /\ Len(rx[r]) = BusCapacity IN
    /\ rx' = [r \in Receivers |->
                IF pc[r] = "off" THEN rx[r]
                ELSE Append(IF Full(r) THEN Tail(rx[r]) ELSE rx[r], e)]
    /\ owed' = [r \in Receivers |->
                (owed[r] \cup (IF e.topic \in Counts(r) THEN {Due(e)} ELSE {}))
                \ (IF Full(r) THEN {Due(Head(rx[r]))} ELSE {})]

\* What a publisher does that asked the scripts first.
PublishScripted(e) ==
    \E v \in Scripted(e) :
        Publish(v) /\ replaced' = IF v = e THEN replaced ELSE replaced \cup {e.id}

\* The client behind r hears an event; the publisher's own versions are counted.
Hear(r, e) ==
    /\ heard' = IF e.rewrites = 0 THEN [heard EXCEPT ![r][e.id] = @ + 1] ELSE heard
    /\ owed' = [owed EXCEPT ![r] = @ \ {Due(e)}]

\* What is left of a receiver that stops, or before it starts.
Reset(r, state) ==
    /\ pc' = [pc EXCEPT ![r] = state] /\ rx' = [rx EXCEPT ![r] = <<>>]
    /\ subs' = [subs EXCEPT ![r] = {}] /\ cur' = [cur EXCEPT ![r] = NoEvent]
    /\ heard' = [heard EXCEPT ![r] = [i \in Ids |-> 0]]
    /\ owed' = [owed EXCEPT ![r] = {}]

---------------------------------------------------------------------------
(* Sessions. The end of one drops the queue and the contexts of the        *)
(* proxies, and with them the bridge. The tasks of REST calls live on.     *)

BeginSession ==
    /\ ~up /\ session < MaxSessions /\ session' = session + 1 /\ up' = TRUE
    /\ UNCHANGED <<inputs, pipe, hu, doing, busVars, calls, phoneVars, clientVars>>

EndSession ==
    /\ Running /\ up' = FALSE /\ pipe' = <<>> /\ hu' = "idle" /\ doing' = NoEvent
    /\ Reset("bridge", "off")
    /\ told' = {} /\ known' = {} /\ results' = [c \in Calls |-> 0]
    /\ stray' = [t \in Topics |-> 0] /\ ends' = [t \in Topics |-> 0]
    /\ UNCHANGED <<session, inputs, used, replaced, calls>>

---------------------------------------------------------------------------
(* Requests of the phone, handled by the proxy of the car's side one at a  *)
(* time: the next is taken when the reply to the last is in the queue.     *)

Input == inputs < MaxInputs /\ inputs' = inputs + 1 /\ UNCHANGED <<session, up>>

Request == Running /\ hu = "idle" /\ ~Waiting(Hu) /\ Input

\* ensure_vendor_topic_event_bridge: the bridge listens from its creation on.
EnsureBridge == pc' = IF pc["bridge"] = "off" THEN [pc EXCEPT !["bridge"] = "recv"] ELSE pc

\* The request to open the channel is answered here, the car never sees it.
OpenChannel ==
    /\ Request /\ EnsureBridge /\ Reply("reply", 0)
    /\ UNCHANGED <<hu, doing, rx, subs, cur, used, replaced, calls, phoneVars, clientVars>>

\* A ping, an echo, the status, or a request that does not parse.
Ask ==
    /\ Request /\ Reply("reply", 0)
    /\ UNCHANGED <<hu, doing, busVars, calls, phoneVars, clientVars>>

Subscribe(t) ==
    /\ Request /\ EnsureBridge /\ subs' = [subs EXCEPT !["bridge"] = @ \cup {t}]
    /\ Reply("subscribed", t)
    /\ UNCHANGED <<hu, doing, rx, cur, used, replaced, calls, phoneVars, clientVars>>

\* From here on the phone cannot count on events of the topic.
Unsubscribe(t) ==
    /\ Request /\ subs' = [subs EXCEPT !["bridge"] = @ \ {t}]
    /\ Reply("unsubscribed", t)
    /\ owed' = [owed EXCEPT !["bridge"] = {d \in @ : d[2] # t}]
    /\ UNCHANGED <<hu, doing, pc, rx, cur, used, replaced, calls, phoneVars, heard>>

NewEvent == used < MaxEvents /\ used' = used + 1

\* An event of the phone passes the scripts before it is published.
ScriptEvent(t) ==
    /\ Request /\ NewEvent
    /\ hu' = "hooks" /\ doing' = [id |-> used + 1, topic |-> t, rewrites |-> 0]
    /\ UNCHANGED <<pipe, pc, rx, subs, cur, replaced, calls, phoneVars, clientVars>>

\* Mutant: the original is published after the replacement the script made.
PublishScriptEventTwice ==
    /\ Running /\ hu = "hooks" /\ hu' = "idle" /\ doing' = NoEvent
    /\ rx' = [r \in Receivers |-> IF pc[r] = "off" THEN rx[r]
                                  ELSE rx[r] \o <<Rewritten(doing), doing>>]
    /\ Reply("reply", 0) /\ replaced' = replaced \cup {doing.id}
    /\ UNCHANGED <<linkVars, pc, subs, cur, used, calls, phoneVars, clientVars>>

PublishScriptEvent ==
    /\ Running /\ hu = "hooks" /\ hu' = "idle" /\ doing' = NoEvent
    /\ PublishScripted(doing) /\ Reply("reply", 0)
    /\ UNCHANGED <<linkVars, pc, subs, cur, used, calls, phoneVars, heard>>

NewCall(route, state) ==
    \E c \in Calls :
        /\ calls[c] = NoCall /\ \A d \in Calls : d < c => calls[d] # NoCall
        /\ calls' = [calls EXCEPT ![c] = [sess |-> session, route |-> route,
                                          pc |-> state, sent |-> 0]]
        /\ hu' = IF state = "sync" THEN "sync" ELSE hu
        /\ IF state = "sync" THEN UNCHANGED pipe ELSE Reply("called", c)

\* VEC_OP_REST_CALL: the task is on its way when the reply tells its number.
RestCall(route) ==
    /\ Request /\ NewCall(route, "calling")
    /\ UNCHANGED <<doing, busVars, phoneVars, clientVars>>

\* VEC_OP_REST_CALL_SYNC: the proxy itself waits for the web server.
RestCallSync(route) ==
    /\ Request /\ NewCall(route, "sync")
    /\ UNCHANGED <<doing, busVars, phoneVars, clientVars>>

---------------------------------------------------------------------------
(* The web server's side of a REST call, and the task that waits for it.   *)

\* A handler that injects a packet (a battery level, a key) takes the sender of
\* the session that runs and waits for room.
HandleInject(c) ==
    /\ calls[c].pc \in {"calling", "sync"} /\ calls[c].route = "inject" /\ calls[c].sent = 0
    /\ calls' = [calls EXCEPT ![c].sent = 1]
    /\ IF up THEN Enqueue(Web(c), "injected", 0, session) ELSE UNCHANGED pipe
    /\ UNCHANGED <<linkVars, hu, doing, busVars, phoneVars, clientVars>>

\* The HTTP response is complete.
Answered(c) == calls[c].route = "inject" => calls[c].sent = 1 /\ ~Waiting(Web(c))

CallReturns(c) ==
    /\ calls[c].pc = "calling" /\ Answered(c)
    /\ calls' = [calls EXCEPT ![c].pc = "sending", ![c].sent = 0]
    /\ UNCHANGED <<linkVars, pipe, hu, doing, busVars, phoneVars, clientVars>>

SyncReturns(c) ==
    /\ calls[c].pc = "sync" /\ Answered(c) /\ hu' = "idle"
    /\ calls' = [calls EXCEPT ![c].pc = "done"] /\ Reply("reply", 0)
    /\ UNCHANGED <<linkVars, doing, busVars, phoneVars, clientVars>>

\* Mutant: the task takes the sender of the session that runs when it has the result.
SendChunkNow(c) ==
    /\ Running /\ calls[c].pc = "sending" /\ ~Waiting(Task(c))
    /\ Enqueue(Task(c), "result", c, calls[c].sess)
    /\ calls' = [calls EXCEPT ![c].sent = @ + 1,
                              ![c].pc = IF calls[c].sent + 1 = Chunks THEN "done" ELSE @]
    /\ UNCHANGED <<linkVars, hu, doing, busVars, phoneVars, clientVars>>

\* The result goes out in chunks, each of which waits for room of its own.
SendChunk(c) ==
    /\ Running /\ calls[c].pc = "sending" /\ ~Waiting(Task(c)) /\ calls[c].sess = session
    /\ Enqueue(Task(c), "result", c, calls[c].sess)
    /\ calls' = [calls EXCEPT ![c].sent = @ + 1,
                              ![c].pc = IF calls[c].sent + 1 = Chunks THEN "done" ELSE @]
    /\ UNCHANGED <<linkVars, hu, doing, busVars, phoneVars, clientVars>>

\* The queue the sender leads to is gone.
SendFails(c) ==
    /\ hu # "sync" /\ calls[c].pc = "sending" /\ ~(up /\ calls[c].sess = session)
    /\ calls' = [calls EXCEPT ![c].pc = "done"]
    /\ UNCHANGED <<linkVars, pipe, hu, doing, busVars, phoneVars, clientVars>>

---------------------------------------------------------------------------
(* The receivers of the bus. The bridge and a browser's handler go through *)
(* the same steps, but the bridge sends into the queue and has to wait.    *)

Lives(r) == r = "bridge" => Running

\* Mutant: the output of a script is not looked up in the subscriptions.
RecvUnchecked(r) ==
    /\ Lives(r) /\ pc[r] = "recv" /\ rx[r] # <<>> /\ rx' = [rx EXCEPT ![r] = Tail(@)]
    /\ IF Head(rx[r]).topic \in subs[r] \/ Head(rx[r]).rewrites > 0
       THEN pc' = [pc EXCEPT ![r] = "hooks"] /\ cur' = [cur EXCEPT ![r] = Head(rx[r])]
       ELSE UNCHANGED <<pc, cur>>
    /\ UNCHANGED <<linkVars, pipe, hu, doing, subs, used, replaced, calls, phoneVars, clientVars>>

Recv(r) ==
    /\ Lives(r) /\ pc[r] = "recv" /\ rx[r] # <<>> /\ rx' = [rx EXCEPT ![r] = Tail(@)]
    /\ IF Head(rx[r]).topic \in subs[r]
       THEN pc' = [pc EXCEPT ![r] = "hooks"] /\ cur' = [cur EXCEPT ![r] = Head(rx[r])]
       ELSE UNCHANGED <<pc, cur>>
    /\ UNCHANGED <<linkVars, pipe, hu, doing, subs, used, replaced, calls, phoneVars, clientVars>>

\* A script has published another event in the place of this one. Each receiver
\* that holds the event does so: the new one comes once for each of them.
Replaced(r) ==
    /\ Lives(r) /\ pc[r] = "hooks" /\ cur[r].rewrites < MaxRewrites
    /\ Publish(Rewritten(cur[r]))
    /\ pc' = [pc EXCEPT ![r] = "recv"] /\ cur' = [cur EXCEPT ![r] = NoEvent]
    /\ UNCHANGED <<linkVars, pipe, hu, doing, subs, used, replaced, calls, phoneVars, heard>>

Forward(s) ==
    /\ s \in Sockets /\ pc[s] = "hooks" /\ Hear(s, cur[s])
    /\ pc' = [pc EXCEPT ![s] = "recv"] /\ cur' = [cur EXCEPT ![s] = NoEvent]
    /\ UNCHANGED <<linkVars, pipe, hu, doing, rx, subs, used, replaced, calls, phoneVars>>

BridgeSend ==
    /\ Running /\ pc["bridge"] = "hooks"
    /\ Enqueue(Bridge, "event", cur["bridge"], session)
    /\ pc' = [pc EXCEPT !["bridge"] = "send"] /\ cur' = [cur EXCEPT !["bridge"] = NoEvent]
    /\ UNCHANGED <<linkVars, hu, doing, rx, subs, used, replaced, calls, phoneVars, clientVars>>

BridgeSent ==
    /\ Running /\ pc["bridge"] = "send" /\ ~Waiting(Bridge)
    /\ pc' = [pc EXCEPT !["bridge"] = "recv"]
    /\ UNCHANGED <<linkVars, pipe, hu, doing, rx, subs, cur, used, replaced, calls, phoneVars,
                   clientVars>>

---------------------------------------------------------------------------
(* Browsers, and those who publish without asking the scripts: the raw     *)
(* event handler of the web server, the proxies that report the speed and  *)
(* the odometer, the scripts themselves.                                   *)

Connect(s) ==
    /\ Input /\ pc[s] = "off" /\ Reset(s, "recv")
    /\ UNCHANGED <<pipe, hu, doing, used, replaced, calls, phoneVars>>

SocketSubscribe(s, t) ==
    /\ Input /\ pc[s] = "recv" /\ t \notin subs[s] /\ subs' = [subs EXCEPT ![s] = @ \cup {t}]
    /\ UNCHANGED <<pipe, hu, doing, pc, rx, cur, used, replaced, calls, phoneVars,
                   clientVars>>

SocketUnsubscribe(s, t) ==
    /\ Input /\ pc[s] = "recv" /\ t \in subs[s] /\ subs' = [subs EXCEPT ![s] = @ \ {t}]
    /\ owed' = [owed EXCEPT ![s] = {d \in @ : d[2] # t}]
    /\ UNCHANGED <<pipe, hu, doing, pc, rx, cur, used, replaced, calls, phoneVars, heard>>

\* An event of the browser passes the scripts before it is published.
SocketEvent(s, t) ==
    /\ Input /\ pc[s] = "recv" /\ NewEvent /\ pc' = [pc EXCEPT ![s] = "publish"]
    /\ cur' = [cur EXCEPT ![s] = [id |-> used + 1, topic |-> t, rewrites |-> 0]]
    /\ UNCHANGED <<pipe, hu, doing, rx, subs, replaced, calls, phoneVars, clientVars>>

SocketPublish(s) ==
    /\ pc[s] = "publish" /\ PublishScripted(cur[s])
    /\ pc' = [pc EXCEPT ![s] = "recv"] /\ cur' = [cur EXCEPT ![s] = NoEvent]
    /\ UNCHANGED <<linkVars, pipe, hu, doing, subs, used, calls, phoneVars, heard>>

Disconnect(s) ==
    /\ Input /\ pc[s] # "off" /\ Reset(s, "off")
    /\ UNCHANGED <<pipe, hu, doing, used, replaced, calls, phoneVars>>

PublishRaw(t) ==
    /\ Input /\ NewEvent
    /\ Publish([id |-> used + 1, topic |-> t, rewrites |-> 0])
    /\ UNCHANGED <<pipe, hu, doing, pc, subs, cur, replaced, calls, phoneVars, heard>>

---------------------------------------------------------------------------
(* The phone receives the next packet of the queue.                        *)

Take(kind) == Running /\ pipe # <<>> /\ Head(pipe).kind = kind /\ pipe' = Tail(pipe)
Arg == Head(pipe).arg

TakeReply ==
    /\ Take("reply") \/ Take("injected")
    /\ UNCHANGED <<linkVars, hu, doing, busVars, calls, phoneVars, clientVars>>

TakeSubscribed ==
    /\ Take("subscribed") /\ told' = told \cup {Arg}
    /\ UNCHANGED <<linkVars, hu, doing, busVars, calls, known, results, stray, ends, clientVars>>

TakeUnsubscribed ==
    /\ Take("unsubscribed") /\ told' = told \ {Arg}
    /\ ends' = IF Arg \in told THEN [ends EXCEPT ![Arg] = @ + 1] ELSE ends
    /\ UNCHANGED <<linkVars, hu, doing, busVars, calls, known, results, stray, clientVars>>

TakeEvent ==
    /\ Take("event") /\ Hear("bridge", Arg)
    /\ stray' = IF Arg.topic \in told THEN stray ELSE [stray EXCEPT ![Arg.topic] = @ + 1]
    /\ UNCHANGED <<linkVars, hu, doing, busVars, calls, told, known, results, ends>>

TakeCalled ==
    /\ Take("called") /\ known' = known \cup {Arg}
    /\ UNCHANGED <<linkVars, hu, doing, busVars, calls, told, results, stray, ends, clientVars>>

TakeResult ==
    /\ Take("result") /\ results' = [results EXCEPT ![Arg] = @ + 1]
    /\ UNCHANGED <<linkVars, hu, doing, busVars, calls, told, known, stray, ends, clientVars>>

---------------------------------------------------------------------------
Deliver == TakeReply \/ TakeSubscribed \/ TakeUnsubscribed \/ TakeEvent \/ TakeCalled
           \/ TakeResult

Phone == \/ OpenChannel \/ Ask
         \/ \E t \in Topics : Subscribe(t) \/ Unsubscribe(t) \/ ScriptEvent(t)
         \/ \E r \in Routes : RestCall(r)
         \/ \E r \in SyncRoutes : RestCallSync(r)

Rest(c) == HandleInject(c) \/ CallReturns(c) \/ SyncReturns(c) \/ SendChunk(c) \/ SendFails(c)

Receive(r) == Recv(r) \/ Replaced(r) \/ Forward(r) \/ (r \in Sockets /\ SocketPublish(r))

Browser(s) == \/ Connect(s) \/ Disconnect(s)
              \/ \E t \in Topics :
                    SocketSubscribe(s, t) \/ SocketUnsubscribe(s, t) \/ SocketEvent(s, t)

Next == \/ BeginSession \/ EndSession \/ Phone \/ PublishScriptEvent \/ Deliver
        \/ BridgeSend \/ BridgeSent
        \/ \E c \in Calls : Rest(c)
        \/ \E r \in Receivers : Receive(r)
        \/ \E s \in Sockets : Browser(s)
        \/ \E t \in Topics : PublishRaw(t)

Spec == Init /\ [][Next]_vars

\* The runtime polls every task that can go on; the phone reads what it is sent.
Fairness ==
    /\ WF_vars(PublishScriptEvent) /\ WF_vars(Deliver) /\ WF_vars(BridgeSend \/ BridgeSent)
    /\ \A c \in Calls : WF_vars(Rest(c))
    /\ \A r \in Receivers : WF_vars(Receive(r))

FairSpec == Spec /\ Fairness

---------------------------------------------------------------------------
\* What is queued for the phone in a session was asked for, or published, in that
\* session: nothing an earlier session left behind reaches the phone, and no
\* bridge outlives its session (Drop of VecTopicEventBridge, the senders the REST
\* tasks have captured).
OwnSession ==
    /\ \A i \in DOMAIN pipe : pipe[i].sess = session
    /\ ~up => pipe = <<>> /\ pc["bridge"] = "off"

\* After the reply to an unsubscription the phone hears at most one more event of
\* the topic, the one the bridge already held; before the reply to a subscription
\* it hears none.
QuietUnsubscribed == \A t \in Topics : stray[t] <= ends[t]

\* The phone gets no part of a result before the reply that tells it the number
\* of the call, although the task that sends it is started first.
ResultsAreKnown == \A c \in Calls : results[c] > 0 => c \in known

\* Each client hears what a publisher sent at most once, and never when the
\* scripts the publisher asked had replaced it. (What the scripts publish
\* comes once from each receiver that asked them, and may be heard as often.)
HeardOnce ==
    \A r \in Receivers, i \in Ids : heard[r][i] <= IF i \in replaced THEN 0 ELSE 1

\* A client hears some version of every event published while it has the topic,
\* unless the event is lost to a lag, it unsubscribes, or the connection ends,
\* and provided the scripts stop rewriting it (MaxRewrites): one that answers
\* every event it sees with another keeps the receivers busy for ever.
HeardInTheEnd ==
    \A r \in Receivers, i \in Ids, t \in Topics : <<i, t>> \in owed[r] ~> <<i, t>> \notin owed[r]

=============================================================================
