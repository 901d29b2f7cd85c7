------------------------------ MODULE MqttBroker ------------------------------
(***************************************************************************)
(* The embedded MQTT broker (ElegooMQTTBroker, mqtt/server.py): one        *)
(* handler task per TCP connection, a subscription registry behind a lock, *)
(* and forwarding of publications from inside the publisher's handler.     *)
(*                                                                         *)
(* An action is the code between two awaits.  Every write is followed by   *)
(* an await of drain(), which waits while that peer reads too slowly and   *)
(* raises when its connection is gone.  asyncio.Lock is first come, first  *)
(* served: `lock' is the holder followed by those who wait.                *)
(*                                                                         *)
(* Abstracted: packets arrive whole, and there is one topic.  Pings change *)
(* nothing and the in-process publish() has no callers; both are left out. *)
(***************************************************************************)
EXTENDS Naturals, Sequences, FiniteSets, SequencesExt, Subsequences

CONSTANTS
    Connections,    \* TCP connections
    Publishers,     \* those that publish
    ClientIds,
    IdOf,           \* client id sent in CONNECT by each connection
    NoConnection,
    Troubled,       \* connections that may end, or be slow
    QosOf,          \* the QoS each publisher uses: 0 or 1
    MaxPublish,     \* bound: publications
    StopAfter       \* bound: publications before the broker may stop

ASSUME ConstantsAssumption ==
    /\ Publishers \subseteq Connections
    /\ IdOf \in [Connections -> ClientIds]
    /\ NoConnection \notin Connections
    /\ Troubled \subseteq Connections
    /\ QosOf \in [Publishers -> {0, 1}]
    /\ MaxPublish \in Nat /\ StopAfter \in Nat

VARIABLES
    link,       \* the TCP connection: "new", "up", "eof" or "reset"
    inbox,      \* packets the handler has not processed
    slow,       \* peers that do not read, so that drain() waits
    got,        \* what was written to each peer: 0 is SUBACK, n publication n
    publishedBy,\* publishedBy[n]: who sent publication n
    running,    \* _running
    clients,    \* connected_clients
    subs,       \* subscriptions of the topic
    lock,       \* subscriptions_lock
    pc,         \* where each handler is suspended
    packet,     \* packet[c]: the packet being processed
    targets,    \* targets[c]: subscribers c's publication still has to go to
    draining,   \* draining[c]: the slow peer whose drain() c waits for, if any
    log,        \* ghost: publications in the order they are forwarded
    since       \* ghost: since[c]: length of the log at c's SUBACK

peers == <<link, inbox, slow, publishedBy>>
vars == <<peers, got, since, running, clients, subs, lock, pc, packet, targets, draining, log>>

Kinds == {"connect", "subscribe", "publish", "disconnect"}
Packets == [kind : Kinds, n : 0..MaxPublish, qos : {0, 1}]
Packet(k) == [kind |-> k, n |-> 0, qos |-> 0]

TypeOK ==
    /\ link \in [Connections -> {"new", "up", "eof", "reset"}]
    /\ inbox \in [Connections -> Seq(Packets)]
    /\ slow \subseteq Connections
    /\ got \in [Connections -> Seq(0..MaxPublish)]
    /\ publishedBy \in Seq(Publishers) /\ Len(publishedBy) <= MaxPublish
    /\ running \in BOOLEAN
    /\ clients \in [ClientIds -> Connections \union {NoConnection}]
    /\ subs \subseteq Connections
    /\ lock \in Seq(Connections) /\ IsInjective(lock)
    /\ pc \in [Connections -> {"none", "reading", "draining", "subscribing",
               "publishing", "forwarding", "closing", "cleaning", "done", "failed"}]
    /\ packet \in [Connections -> Packets]
    /\ targets \in [Connections -> SUBSET Connections]
    /\ draining \in [Connections -> Connections \union {NoConnection}]
    /\ log \in Seq(1..MaxPublish) /\ since \in [Connections -> 0..MaxPublish]

Init ==
    /\ link = [c \in Connections |-> "new"]
    /\ inbox = [c \in Connections |-> <<>>]
    /\ slow = {} /\ publishedBy = <<>>
    /\ got = [c \in Connections |-> <<>>]
    /\ running = TRUE
    /\ clients = [i \in ClientIds |-> NoConnection]
    /\ subs = {} /\ lock = <<>>
    /\ pc = [c \in Connections |-> "none"]
    /\ packet = [c \in Connections |-> Packet("connect")]
    /\ targets = [c \in Connections |-> {}]
    /\ draining = [c \in Connections |-> NoConnection]
    /\ log = <<>> /\ since = [c \in Connections |-> 0]

Over == {"closing", "cleaning", "done", "failed"}
Goto(c, where) == pc' = [pc EXCEPT ![c] = where]
Holds(c) == lock # <<>> /\ Head(lock) = c
-----------------------------------------------------------------------------
(***************************************************************************)
(* The clients and the network.                                            *)
(***************************************************************************)
broker == <<since, running, clients, subs, lock, packet, targets, log>>

Send(c, p) == inbox' = [inbox EXCEPT ![c] = Append(@, p)]

Opens(c) ==
    /\ running
    /\ link[c] = "new"
    /\ link' = [link EXCEPT ![c] = "up"]
    /\ Send(c, Packet("connect"))
    /\ Goto(c, "reading")
    /\ UNCHANGED <<slow, publishedBy, got, broker, draining>>

\* A client subscribes first of all, once it is connected.
Subscribes(c) ==
    /\ link[c] = "up"
    /\ pc[c] = "reading" /\ inbox[c] = <<>> /\ packet[c].kind = "connect"
    /\ Send(c, Packet("subscribe"))
    /\ UNCHANGED <<link, slow, publishedBy, got, broker, draining, pc>>

Publishes(c) ==
    /\ link[c] = "up" /\ 0 \in Range(got[c])
    /\ Len(publishedBy) < MaxPublish
    /\ publishedBy' = Append(publishedBy, c)
    /\ Send(c, [kind |-> "publish", n |-> Len(publishedBy'), qos |-> QosOf[c]])
    /\ UNCHANGED <<link, slow, got, broker, draining, pc>>

\* What is buffered for c goes out, or c's connection ends: whoever waits for
\* its drain() is woken.
Drains(c) ==
    /\ slow' = slow \ {c}
    /\ draining' = [h \in Connections |->
                      IF draining[h] = c THEN NoConnection ELSE draining[h]]

\* A client leaves, with or without a DISCONNECT.
Leaves(c) ==
    /\ c \in Troubled /\ link[c] = "up" /\ pc[c] \notin {"done", "failed"}
    /\ link' = [link EXCEPT ![c] = "eof"]
    /\ \/ Send(c, Packet("disconnect"))
       \/ UNCHANGED inbox
    /\ Drains(c)
    /\ UNCHANGED <<publishedBy, got, broker, pc>>

\* What the handler has not read by then may be lost.
IsReset(c) ==
    /\ c \in Troubled /\ link[c] \in {"up", "eof"}
    /\ pc[c] \in Over => c \in slow
    /\ link' = [link EXCEPT ![c] = "reset"]
    /\ \E n \in 0..Len(inbox[c]) : inbox' = [inbox EXCEPT ![c] = SubSeq(@, 1, n)]
    /\ Drains(c)
    /\ UNCHANGED <<publishedBy, got, broker, pc>>

SlowsDown(c) ==
    /\ c \in Troubled \ slow /\ link[c] = "up" /\ pc[c] \notin Over
    /\ slow' = slow \union {c}
    /\ UNCHANGED <<link, inbox, publishedBy, got, broker, draining, pc>>

CatchesUp(c) ==
    /\ c \in slow
    /\ Drains(c)
    /\ UNCHANGED <<link, inbox, publishedBy, got, broker, pc>>
-----------------------------------------------------------------------------
(***************************************************************************)
(* A handler.                                                              *)
(***************************************************************************)
\* drain() only waits if the peer is slow when it is called.
Drain(c, to) ==
    draining' = [draining EXCEPT ![c] = IF to \in slow THEN to ELSE NoConnection]

\* Nothing is written to a connection that is lost or being closed.
Write(to, n) ==
    got' = IF link[to] = "reset" \/ pc[to] \in Over THEN got
           ELSE [got EXCEPT ![to] = Append(@, n)]

SubAck(c) == Write(c, 0) /\ since' = [since EXCEPT ![c] = Len(log)]

\* `while self._running', looked at between two chunks of packets.
BackToLoop(c) ==
    \/ (running \/ inbox[c] # <<>>) /\ Goto(c, "reading")
    \/ ~running /\ Goto(c, "closing")

Acquire(c) == lock' = Append(lock, c)
Release == lock' = Tail(lock)

Take(c, k) ==
    /\ pc[c] = "reading"
    /\ inbox[c] # <<>> /\ Head(inbox[c]).kind = k
    /\ inbox' = [inbox EXCEPT ![c] = Tail(@)]
    /\ packet' = [packet EXCEPT ![c] = Head(inbox[c])]
    /\ UNCHANGED <<link, slow, publishedBy, running>>

HandleConnect(c) ==
    /\ Take(c, "connect")
    /\ clients' = [clients EXCEPT ![IdOf[c]] = c]
    /\ Goto(c, "draining")
    /\ Drain(c, c)
    /\ UNCHANGED <<got, since, subs, lock, targets, log>>

\* Mutant: SUBACK is sent before the lock is asked for.
HandleSubscribeAckFirst(c) ==
    /\ Take(c, "subscribe")
    /\ SubAck(c)
    /\ Acquire(c)
    /\ Goto(c, "subscribing")
    /\ UNCHANGED <<clients, subs, targets, draining, log>>

HandleSubscribe(c) ==
    /\ Take(c, "subscribe")
    /\ Acquire(c)
    /\ Goto(c, "subscribing")
    /\ UNCHANGED <<got, since, clients, subs, targets, draining, log>>

\* The rest of SUBSCRIBE, once the lock is held.
Register(c) ==
    /\ pc[c] = "subscribing" /\ Holds(c)
    /\ subs' = subs \union {c}
    /\ Release
    /\ SubAck(c)
    /\ Goto(c, "draining")
    /\ Drain(c, c)
    /\ UNCHANGED <<peers, running, clients, packet, targets, log>>

HandlePublish(c) ==
    /\ Take(c, "publish")
    /\ Acquire(c)
    /\ Goto(c, "publishing")
    /\ UNCHANGED <<got, since, clients, subs, targets, draining, log>>

StartForwarding(c) ==
    /\ pc[c] = "publishing" /\ Holds(c)
    /\ log' = Append(log, packet[c].n)
    /\ targets' = [targets EXCEPT ![c] = subs \ {c}]
    /\ Goto(c, "forwarding")
    /\ UNCHANGED <<peers, got, since, running, clients, subs, lock, packet, draining>>

\* drain() returns, or raises what the forwarding loop catches.
Drained(c) == draining[c] = NoConnection

Forward(c) ==
    /\ pc[c] = "forwarding" /\ Drained(c)
    /\ \E s \in targets[c] :
          /\ Write(s, packet[c].n)
          /\ targets' = [targets EXCEPT ![c] = @ \ {s}]
          /\ Drain(c, s)
    /\ UNCHANGED <<peers, since, running, clients, subs, lock, pc, packet, log>>

\* PUBACK, for QoS 1.
Acknowledge(c) ==
    \/ packet[c].qos > 0 /\ Goto(c, "draining") /\ Drain(c, c)
    \/ packet[c].qos = 0 /\ BackToLoop(c) /\ UNCHANGED draining

\* Mutant: without subscribers the handler returns early, with the lock.
FinishForwardingKeepsLock(c) ==
    /\ pc[c] = "forwarding" /\ Drained(c) /\ targets[c] = {}
    /\ lock' = IF subs = {c} THEN lock ELSE Tail(lock)
    /\ Acknowledge(c)
    /\ UNCHANGED <<peers, got, since, running, clients, subs, packet, targets, log>>

FinishForwarding(c) ==
    /\ pc[c] = "forwarding" /\ Drained(c) /\ targets[c] = {}
    /\ Release
    /\ Acknowledge(c)
    /\ UNCHANGED <<peers, got, since, running, clients, subs, packet, targets, log>>

\* The handler's own CONNACK, SUBACK or PUBACK.
Resumes(c) ==
    /\ pc[c] = "draining" /\ Drained(c)
    /\ IF link[c] = "reset" THEN Goto(c, "failed") ELSE BackToLoop(c)
    /\ UNCHANGED <<peers, got, since, running, clients, subs, lock, packet, targets, draining, log>>

HandleDisconnect(c) ==
    /\ Take(c, "disconnect")
    /\ Goto(c, "closing")
    /\ UNCHANGED <<got, since, clients, subs, lock, targets, draining, log>>

\* read() returns nothing.
StreamEnds(c) ==
    /\ pc[c] = "reading" /\ link[c] = "eof" /\ inbox[c] = <<>>
    /\ Goto(c, "closing")
    /\ UNCHANGED <<peers, got, since, running, clients, subs, lock, packet, targets,
                   draining, log>>

ReadFails(c) ==
    /\ pc[c] = "reading" /\ link[c] = "reset" /\ inbox[c] = <<>>
    /\ Goto(c, "failed")
    /\ UNCHANGED <<peers, got, since, running, clients, subs, lock, packet, targets, draining, log>>

\* wait_closed() returns, or raises for a connection that was reset.  After a
\* DISCONNECT a client id that is gone is a KeyError; after the end of the
\* stream it is not looked for.
Closed(c) ==
    /\ pc[c] = "closing" /\ c \notin slow
    /\ LET missing == /\ packet[c].kind = "disconnect"
                      /\ clients[IdOf[c]] = NoConnection
       IN IF link[c] = "reset" \/ missing
          THEN Goto(c, "failed") /\ UNCHANGED <<clients, lock>>
          ELSE /\ clients' = [clients EXCEPT ![IdOf[c]] = NoConnection]
               /\ Acquire(c)
               /\ Goto(c, "cleaning")
    /\ UNCHANGED <<peers, got, since, running, subs, packet, targets, draining, log>>

Cleanup(c) ==
    /\ pc[c] = "cleaning" /\ Holds(c)
    /\ subs' = subs \ {c}
    /\ Release
    /\ Goto(c, "done")
    /\ UNCHANGED <<peers, got, since, running, clients, packet, targets, draining, log>>

Stop ==
    /\ running /\ Len(publishedBy) >= StopAfter
    /\ running' = FALSE
    /\ UNCHANGED <<peers, got, since, clients, subs, lock, pc, packet, targets, draining, log>>

HandlerStep(c) ==
    \/ HandleConnect(c) \/ HandleSubscribe(c) \/ HandlePublish(c) \/ HandleDisconnect(c)
    \/ Register(c) \/ StartForwarding(c) \/ Forward(c) \/ FinishForwarding(c)
    \/ Resumes(c) \/ StreamEnds(c) \/ ReadFails(c) \/ Closed(c) \/ Cleanup(c)

ClientStep(c) ==
    \/ Opens(c) \/ Subscribes(c) \/ Leaves(c) \/ IsReset(c) \/ SlowsDown(c) \/ CatchesUp(c)

Next ==
    \/ \E c \in Connections : HandlerStep(c) \/ ClientStep(c)
    \/ \E c \in Publishers : Publishes(c)
    \/ Stop

\* Handlers run, and a slow peer catches up, or its connection ends.
Fairness ==
    \A c \in Connections : WF_vars(HandlerStep(c)) /\ WF_vars(CatchesUp(c))

Spec == Init /\ [][Next]_vars
FairSpec == Spec /\ Fairness

-----------------------------------------------------------------------------
IsLive(c) == pc[c] \notin Over /\ link[c] # "reset"
Acked(c) == 0 \in Range(got[c])
FromOthers(c) == {n \in DOMAIN publishedBy : publishedBy[n] # c}
Received(c) == Only(got[c], 1..MaxPublish)
DueTo(c) == Only(SubSeq(log, since[c] + 1, Len(log)), FromOthers(c))
Forwarding == \E c \in Connections : pc[c] = "forwarding"

\* Each publisher's publications are forwarded once, in the order it sent them.
PublisherOrder ==
    \A i, j \in DOMAIN log :
        i < j /\ publishedBy[log[i]] = publishedBy[log[j]] => log[i] < log[j]

\* From its SUBACK on, a subscriber gets every publication of the others, once,
\* in the one order all subscribers see and in which each publisher sent its
\* own; only the publication that is being forwarded may still be missing.  The
\* state is well typed.
SubscribersSeeTheLog ==
    /\ TypeOK
    /\ PublisherOrder
    /\ \A c \in Connections : Acked(c) =>
           /\ IsPrefix(Received(c), DueTo(c))
           /\ IsLive(c) =>
                 \/ Received(c) = DueTo(c)
                 \/ Forwarding /\ DueTo(c) # <<>> /\ Received(c) = Front(DueTo(c))

Ended(c) == ~IsLive(c) \/ link[c] = "eof"

\* Whatever other clients do, leave, or lose their connections, what a client
\* publishes is forwarded, unless its own connection ends.
EveryPublicationForwarded ==
    \A n \in 1..MaxPublish :
        n \in DOMAIN publishedBy
            ~> n \in Range(log) \union {m \in DOMAIN publishedBy : Ended(publishedBy[m])}
=============================================================================
