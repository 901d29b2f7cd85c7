---------------------------- MODULE CC2Connection ----------------------------
(***************************************************************************)
(* The connection life cycle of ElegooCC2Client (cc2/client.py): connect   *)
(* with password fallback, registration, the listener and heartbeat tasks, *)
(* the delayed clearing of the transition queue, and disconnect().         *)
(*                                                                         *)
(* Three tasks may be inside disconnect() at the same time, because it     *)
(* awaits and nothing serialises it:                                       *)
(*   "connector"  connect_printer(), called by the coordinator             *)
(*   "cleanup"    the background task a failing heartbeat starts           *)
(*   "owner"      elegoo_disconnect(), called when the entry is unloaded   *)
(* An action is the code of one task between two suspension points, and    *)
(* the event loop runs tasks that are ready in the order they became so    *)
(* (Runs below).                                                           *)
(*                                                                         *)
(* Attempts are numbered; attempt a owns one aiomqtt client, one listener  *)
(* and, once registered, one heartbeat, so the object references of the    *)
(* code (mqtt_client, _listener_task, _heartbeat_task) are attempt numbers *)
(* and 0 is None.  Sleeps are not timed: a timer fires at any moment.      *)
(***************************************************************************)
EXTENDS Naturals, Sequences

CONSTANTS
    MaxAttempts,    \* bound: connection attempts in a behaviour
    MaxQueue,       \* maxlen of the transition queue
    UserCode        \* does the entry carry an access code?

ASSUME ConstantsAssumption ==
    /\ MaxAttempts \in Nat
    /\ MaxQueue \in Nat
    /\ UserCode \in BOOLEAN

VARIABLES
    gen,            \* _connection_generation
    client,         \* mqtt_client
    connected,      \* _is_connected
    registered,     \* _is_registered
    authFailure,    \* _last_auth_failure
    accessCode,     \* access_code
    listenerTask,   \* _listener_task
    heartbeatTask,  \* _heartbeat_task
    delayTask,      \* _disconnect_delay_task
    queue,          \* length of _print_status_transition_queue
    regResult,      \* what _register() is woken with, none when it is over
    passwords,      \* passwords_to_try, from the current one on
    link,           \* link[a]: the MQTT connection of attempt a
    listener,       \* listener[a]: the task running _mqtt_listener
    listenerGen,    \* listenerGen[a]: the generation it captured
    beat,           \* beat[a]: the task running _heartbeat_loop
    pc,             \* pc[p]: where task p is suspended
    awaiting,       \* awaiting[p]: whose listener, heartbeat or link it awaits
    attempts,       \* number of attempts made
    publishing,     \* publishes under way: <<b, a>> is the PING of heartbeat b, or a
                    \* command if b is 0, and awaits on the client of attempt a
    passed          \* the event loop: <<t, s>> when s has run with t ready

flags == <<client, connected, registered>>
tasks == <<listenerTask, heartbeatTask, delayTask>>
peers == <<link, listener, listenerGen, beat>>
auth == <<authFailure, accessCode, passwords>>
control == <<pc, awaiting, attempts, publishing>>
vars == <<gen, flags, tasks, queue, regResult, auth, peers, control, passed>>

Attempts == 1..MaxAttempts
Procs == {"connector", "cleanup", "owner"}
TaskNames == (Procs \X {0}) \union ({"listener", "beat"} \X Attempts) \union {<<"delay", 0>>}

\* mute: the connection is up but the printer has stopped answering.  lost and
\* closed: aiomqtt knows that it is down.  abandoned: closing it timed out.
Links == {"none", "connecting", "open", "mute", "lost", "closed", "abandoned"}
Usable == {"open", "mute"}
Down == {"lost", "closed"}

TypeOK ==
    /\ gen \in Nat
    /\ client \in 0..MaxAttempts
    /\ connected \in BOOLEAN /\ registered \in BOOLEAN /\ authFailure \in BOOLEAN
    /\ accessCode \in {"none", "user", "empty", "default"}
    /\ listenerTask \in 0..MaxAttempts
    /\ heartbeatTask \in 0..MaxAttempts
    /\ delayTask \in {"none", "sleeping", "finished"}
    /\ queue \in 0..MaxQueue
    /\ regResult \in {"none", "ok", "rejected"}
    /\ passwords \in Seq({"user", "empty", "default"})
    /\ link \in [Attempts -> Links]
    /\ listener \in [Attempts -> {"none", "created", "running", "cancelled", "done"}]
    /\ listenerGen \in [Attempts -> Nat]
    /\ beat \in [Attempts -> {"none", "running", "cancelled", "done"}]
    /\ pc \in [Procs -> {"idle", "scheduled", "joinBeat", "joinListener",
                         "closing", "attempt", "entering", "subscribing",
                         "registering", "attributes", "status", "failed",
                         "done"}]
    /\ awaiting \in [Procs -> 0..MaxAttempts]
    /\ attempts \in 0..MaxAttempts
    /\ publishing \subseteq (0..MaxAttempts) \X Attempts
    /\ passed \subseteq TaskNames \X TaskNames

Init ==
    /\ gen = 0
    /\ client = 0 /\ connected = FALSE /\ registered = FALSE
    /\ authFailure = FALSE
    /\ accessCode = IF UserCode THEN "user" ELSE "none"
    /\ listenerTask = 0 /\ heartbeatTask = 0 /\ delayTask = "none"
    /\ queue = 0
    /\ regResult = "none"
    /\ passwords = <<>>
    /\ link = [a \in Attempts |-> "none"]
    /\ listener = [a \in Attempts |-> "none"]
    /\ listenerGen = [a \in Attempts |-> 0]
    /\ beat = [a \in Attempts |-> "none"]
    /\ pc = [p \in Procs |-> "idle"]
    /\ awaiting = [p \in Procs |-> 0]
    /\ attempts = 0 /\ publishing = {}
    /\ passed = {}

IsConnected == connected /\ registered /\ client # 0
Suspend(p, where, a) ==
    /\ pc' = [pc EXCEPT ![p] = where]
    /\ awaiting' = [awaiting EXCEPT ![p] = a]
-----------------------------------------------------------------------------
(***************************************************************************)
(* disconnect(), in the pieces between its awaits.  `next' is where the    *)
(* calling task goes on when disconnect() has returned.                    *)
(***************************************************************************)
\* Mutant: _is_registered survives the disconnect.
ClosedForgetsRegistered(p, next) ==
    /\ client' = 0 /\ connected' = FALSE /\ UNCHANGED registered
    /\ queue' = 0
    /\ Suspend(p, next, 0)

Closed(p, next) ==
    /\ client' = 0 /\ connected' = FALSE /\ registered' = FALSE
    /\ queue' = 0
    /\ Suspend(p, next, 0)

\* From the release of the waiters on.  __aexit__ returns at once when the
\* connection is already gone.
CloseTransport(p, next) ==
    IF client # 0 /\ link[client] \in Usable \union {"connecting"}
    THEN Suspend(p, "closing", client) /\ UNCHANGED <<flags, queue>>
    ELSE Closed(p, next)

\* d: the delay task as the caller left it.
StopListener(p, next, d) ==
    IF listenerTask # 0 /\ listener[listenerTask] # "done"
    THEN /\ listener' = [listener EXCEPT ![listenerTask] = "cancelled"]
         /\ delayTask' = d
         /\ Suspend(p, "joinListener", listenerTask)
         /\ UNCHANGED <<listenerTask, flags, queue>>
    ELSE /\ listenerTask' = 0
         /\ delayTask' = IF listenerTask # 0 THEN "none" ELSE d
         /\ UNCHANGED listener
         /\ CloseTransport(p, next)

Disconnect(p, next) ==
    /\ gen' = gen + 1
    /\ IF heartbeatTask # 0 /\ beat[heartbeatTask] # "done"
       THEN /\ beat' = [beat EXCEPT ![heartbeatTask] = "cancelled"]
            /\ delayTask' = "none"
            /\ Suspend(p, "joinBeat", heartbeatTask)
            /\ UNCHANGED <<heartbeatTask, listenerTask, listener, flags, queue>>
       ELSE /\ heartbeatTask' = 0
            /\ UNCHANGED beat
            /\ StopListener(p, next, "none")

\* Where a task goes on after disconnect().
After(p) ==
    CASE p = "connector" -> IF passwords = <<>> THEN "idle" ELSE "attempt"
      [] p = "cleanup" -> "idle"
      [] p = "owner" -> "done"

HeartbeatJoined(p) ==
    /\ pc[p] = "joinBeat"
    /\ beat[awaiting[p]] = "done"
    /\ heartbeatTask' = 0
    /\ StopListener(p, After(p), delayTask)
    /\ UNCHANGED <<gen, regResult, auth, link, listenerGen, beat, attempts, publishing>>

\* The listener's finally may have started a delay task: it is cancelled here.
ListenerJoined(p) ==
    /\ pc[p] = "joinListener"
    /\ listener[awaiting[p]] = "done"
    /\ listenerTask' = 0
    /\ delayTask' = "none"
    /\ CloseTransport(p, After(p))
    /\ UNCHANGED <<gen, heartbeatTask, regResult, auth, peers, attempts, publishing>>

\* __aexit__ returned, or raised because the broker did not react in time.
TransportClosed(p) ==
    /\ pc[p] = "closing"
    /\ \E l \in IF link[awaiting[p]] \in Down THEN {"closed"} ELSE {"closed", "abandoned"} :
          link' = [link EXCEPT ![awaiting[p]] = l]
    /\ Closed(p, After(p))
    /\ UNCHANGED <<gen, tasks, regResult, auth, listener, listenerGen, beat,
                   attempts, publishing>>

OwnerDisconnects ==
    /\ pc["owner"] = "idle"
    /\ Disconnect("owner", "done")
    /\ UNCHANGED <<regResult, auth, link, listenerGen, attempts, publishing>>

CleanupRuns ==
    /\ pc["cleanup"] = "scheduled"
    /\ Disconnect("cleanup", "idle")
    /\ UNCHANGED <<regResult, auth, link, listenerGen, attempts, publishing>>
-----------------------------------------------------------------------------
(***************************************************************************)
(* connect_printer() and _try_connect_with_password().                     *)
(***************************************************************************)

\* A connected client returns True at once.  Otherwise disconnect() comes
\* first, and the passwords are chosen by whether an access code is known.
ConnectStart ==
    /\ pc["connector"] = "idle"
    /\ ~IsConnected
    /\ authFailure' = FALSE
    /\ passwords' = IF accessCode = "none" THEN <<"empty", "default">>
                                           ELSE <<accessCode>>
    /\ attempts + Len(passwords') <= MaxAttempts
    /\ Disconnect("connector", "attempt")
    /\ UNCHANGED <<accessCode, regResult, link, listenerGen, attempts, publishing>>

AttemptStart ==
    /\ pc["connector"] = "attempt"
    /\ gen' = gen + 1
    /\ attempts' = attempts + 1
    /\ client' = attempts'
    /\ link' = [link EXCEPT ![attempts'] = "connecting"]
    /\ Suspend("connector", "entering", attempts')
    /\ UNCHANGED <<connected, registered, tasks, queue, regResult, auth,
                   listener, listenerGen, beat, publishing>>

\* `return False' of _try_connect_with_password.
Fail(auth_) ==
    /\ authFailure' = auth_
    /\ Suspend("connector", "failed", 0)

\* The broker refused, possibly because of the password, or did not answer in
\* time, which leaves a half-open connection behind.
EnterFails ==
    /\ pc["connector"] = "entering"
    /\ \/ /\ link' = [link EXCEPT ![attempts] = "closed"]
          /\ \E wrongPassword \in BOOLEAN : Fail(wrongPassword \/ authFailure)
       \/ Fail(authFailure) /\ UNCHANGED link
    /\ UNCHANGED <<gen, flags, tasks, queue, regResult, accessCode, passwords,
                   listener, listenerGen, beat, attempts, publishing>>

\* _is_connected = True, the listener is created, and _register() either
\* publishes or, without a client, fails.
StartListening ==
    /\ connected' = TRUE
    /\ listenerTask' = attempts
    /\ listener' = [listener EXCEPT ![attempts] = "created"]
    /\ regResult' = "none"
    /\ IF client = 0
       THEN Fail(authFailure)
       ELSE /\ Suspend("connector", "registering", attempts)
            /\ UNCHANGED authFailure

\* The broker accepted.  _subscribe_to_topics returns at once when another
\* task has meanwhile taken mqtt_client away.
Entered ==
    /\ pc["connector"] = "entering"
    /\ link[attempts] = "connecting"
    /\ link' = [link EXCEPT ![attempts] = "open"]
    /\ IF client = 0
       THEN StartListening
       ELSE /\ Suspend("connector", "subscribing", attempts)
            /\ UNCHANGED <<connected, listenerTask, listener, regResult, authFailure>>
    /\ UNCHANGED <<gen, client, registered, heartbeatTask, delayTask, queue,
                   accessCode, passwords, listenerGen, beat>>
    /\ UNCHANGED <<attempts, publishing>>

Subscribed ==
    /\ pc["connector"] = "subscribing"
    /\ link[attempts] = "open"
    /\ StartListening
    /\ UNCHANGED <<gen, client, registered, heartbeatTask, delayTask, queue,
                   accessCode, passwords, link, listenerGen, beat, attempts, publishing>>

SubscribeFails ==
    /\ pc["connector"] = "subscribing"
    /\ Fail(authFailure)
    /\ UNCHANGED <<gen, flags, tasks, queue, regResult, accessCode, passwords,
                   peers, attempts, publishing>>

\* mqtt_client became None between two topics: AttributeError, which
\* connect_printer does not catch.
SubscribeRaises ==
    /\ pc["connector"] = "subscribing"
    /\ client = 0
    /\ Suspend("connector", "idle", 0)
    /\ passwords' = <<>>
    /\ UNCHANGED <<gen, flags, tasks, queue, regResult, authFailure, accessCode,
                   peers, attempts, publishing>>

\* Mutant: reg_event.wait() without wait_for.
RegistrationWaitsForever ==
    /\ pc["connector"] = "registering"
    /\ link[attempts] # "open"
    /\ Fail(authFailure)
    /\ regResult' = "none"
    /\ UNCHANGED <<gen, flags, tasks, queue, accessCode, passwords, peers,
                   attempts, publishing>>

\* The publish of the registration raises, or nothing arrives within
\* CC2_REGISTRATION_TIMEOUT.
RegistrationTimesOut ==
    /\ pc["connector"] = "registering"
    /\ Fail(authFailure)
    /\ regResult' = "none"
    /\ UNCHANGED <<gen, flags, tasks, queue, accessCode, passwords, peers,
                   attempts, publishing>>

\* _register() resumes with an answer.  On success the delay task is cancelled,
\* the heartbeat starts, and the first _send_command follows: if the client is
\* no longer connected it raises ElegooPrinterNotConnectedError, which nobody
\* up to the caller of connect_printer catches.
RegistrationAnswered ==
    /\ pc["connector"] = "registering"
    /\ regResult # "none"
    /\ IF regResult = "rejected"
       THEN /\ Fail(authFailure)
            /\ UNCHANGED <<registered, heartbeatTask, delayTask, beat, passwords>>
       ELSE /\ registered' = TRUE
            /\ delayTask' = "none"
            /\ heartbeatTask' = attempts
            /\ beat' = [beat EXCEPT ![attempts] = "running"]
            /\ UNCHANGED authFailure
            /\ IF connected /\ client # 0
               THEN /\ Suspend("connector", "attributes", attempts)
                    /\ UNCHANGED passwords
               ELSE /\ Suspend("connector", "idle", 0)
                    /\ passwords' = <<>>
    /\ regResult' = "none"
    /\ UNCHANGED <<gen, client, connected, listenerTask, queue, accessCode, link,
                   listener, listenerGen, attempts, publishing>>

\* connect_printer() returns True and keeps the password that worked.
Succeed ==
    /\ accessCode' = Head(passwords)
    /\ passwords' = <<>>
    /\ Suspend("connector", "idle", 0)

\* GET_ATTRIBUTES was answered or released; GET_STATUS follows.
AttributesDone ==
    /\ pc["connector"] = "attributes"
    /\ IF IsConnected
       THEN /\ Suspend("connector", "status", attempts)
            /\ UNCHANGED passwords
       ELSE /\ Suspend("connector", "idle", 0)
            /\ passwords' = <<>>
    /\ UNCHANGED <<gen, flags, tasks, queue, regResult, authFailure, accessCode,
                   peers, attempts, publishing>>

\* GET_STATUS was answered or released, or either command failed: a timeout
\* and a transport error are caught, and the connection counts as made.
InitialDataDone ==
    /\ \/ pc["connector"] = "status" /\ UNCHANGED connected
       \/ pc["connector"] = "attributes" /\ UNCHANGED connected
       \/ /\ pc["connector"] \in {"attributes", "status"}
          /\ link[attempts] # "open"
          /\ connected' = FALSE
    /\ Succeed
    /\ UNCHANGED <<gen, client, registered, tasks, queue, regResult, authFailure,
                   peers, attempts, publishing>>

\* The loop of connect_printer() after a failed attempt: a rejected user code
\* ends it without a disconnect(), anything else disconnects and goes on.
AttemptFailed ==
    /\ pc["connector"] = "failed"
    /\ IF authFailure /\ accessCode # "none"
       THEN /\ Suspend("connector", "idle", 0)
            /\ passwords' = <<>>
            /\ UNCHANGED <<gen, flags, tasks, queue, authFailure, listener, beat>>
       ELSE /\ authFailure' = FALSE
            /\ passwords' = Tail(passwords)
            /\ Disconnect("connector", IF Len(passwords) = 1 THEN "idle" ELSE "attempt")
    /\ UNCHANGED <<accessCode, regResult, link, listenerGen, attempts, publishing>>
-----------------------------------------------------------------------------
(***************************************************************************)
(* The listener, heartbeat and delay tasks.                                *)
(***************************************************************************)
ListenerStarts(a) ==
    /\ listener[a] = "created"
    /\ IF client = 0
       THEN listener' = [listener EXCEPT ![a] = "done"] /\ UNCHANGED listenerGen
       ELSE /\ listener' = [listener EXCEPT ![a] = "running"]
            /\ listenerGen' = [listenerGen EXCEPT ![a] = gen]
    /\ UNCHANGED <<gen, flags, tasks, queue, regResult, auth, link, beat, control>>

\* The finally clause of _mqtt_listener.
ListenerEnds(a) ==
    /\ listener' = [listener EXCEPT ![a] = "done"]
    /\ IF listenerGen[a] = gen
       THEN /\ connected' = FALSE
            /\ delayTask' = IF delayTask = "none" THEN "sleeping" ELSE delayTask
       ELSE UNCHANGED <<connected, delayTask>>
    /\ UNCHANGED <<gen, client, registered, listenerTask, heartbeatTask, queue,
                   regResult, auth, link, listenerGen, beat, control>>

\* The connection broke or was closed under the listener.
ListenerBreaks(a) ==
    /\ listener[a] = "running"
    /\ link[a] \in Down \union {"abandoned"}
    /\ ListenerEnds(a)

\* A task cancelled before its first step never enters its body.
ListenerCancelled(a) ==
    /\ listener[a] = "cancelled"
    /\ IF listenerGen[a] = 0
       THEN /\ listener' = [listener EXCEPT ![a] = "done"]
            /\ UNCHANGED <<gen, flags, tasks, queue, regResult, auth, link,
                           listenerGen, beat, control>>
       ELSE ListenerEnds(a)

\* A message for a listener of an older generation stops it.
StaleMessage(a) ==
    /\ listener[a] = "running"
    /\ link[a] = "open"
    /\ listenerGen[a] # gen
    /\ ListenerEnds(a)

\* A status message that changes the print status queues a snapshot; the
\* bounded deque drops its oldest one when full.
StatusMessage(a) ==
    /\ listener[a] = "running"
    /\ link[a] = "open"
    /\ listenerGen[a] = gen
    /\ queue' = IF queue < MaxQueue THEN queue + 1 ELSE queue
    /\ UNCHANGED <<gen, flags, tasks, regResult, auth, peers, control>>

\* The registration response.  It carries the request id of the client object,
\* not of the attempt, so a late answer to an earlier attempt counts too.
RegisterMessage(a) ==
    /\ listener[a] = "running"
    /\ link[a] = "open"
    /\ listenerGen[a] = gen
    /\ pc["connector"] = "registering"
    /\ \E r \in {"ok", "rejected"} : regResult' = r
    /\ UNCHANGED <<gen, flags, tasks, queue, auth, peers, control>>

Pings(a) == {x \in publishing : x[1] = a}

\* The loop goes round while the client is connected.
HeartbeatPings(a) ==
    /\ beat[a] = "running" /\ Pings(a) = {}
    /\ connected /\ client # 0
    /\ publishing' = publishing \union {<<a, client>>}
    /\ UNCHANGED <<gen, flags, tasks, queue, regResult, auth, peers, pc, awaiting, attempts>>

PingSent(a) ==
    /\ beat[a] = "running"
    /\ \E x \in Pings(a) : link[x[2]] \in Usable
    /\ publishing' = publishing \ Pings(a)
    /\ UNCHANGED <<gen, flags, tasks, queue, regResult, auth, peers, pc, awaiting, attempts>>

\* The flags fall, whatever they stand for by then, and disconnect() is scheduled in
\* the background.
GiveUp(a) ==
    /\ beat' = [beat EXCEPT ![a] = "done"]
    /\ publishing' = publishing \ Pings(a)
    /\ connected' = FALSE /\ registered' = FALSE
    /\ Suspend("cleanup", "scheduled", 0)
    /\ UNCHANGED <<gen, client, tasks, queue, regResult, auth, link, listener,
                   listenerGen, attempts>>

\* Mutant: the loop only reacts to a PING it cannot publish, and never looks at
\* the time of the last PONG.
HeartbeatFailsWithoutTimeout(a) ==
    /\ beat[a] = "running" /\ pc["cleanup"] = "idle"
    /\ \E x \in Pings(a) : link[x[2]] \notin Usable
    /\ GiveUp(a)

\* No PONG for CC2_HEARTBEAT_TIMEOUT, or the publish of the PING raises, on the
\* client that was the present one when it began.
HeartbeatFails(a) ==
    /\ beat[a] = "running" /\ pc["cleanup"] = "idle"
    /\ \/ Pings(a) = {} /\ connected /\ client # 0 /\ link[client] # "open"
       \/ \E x \in Pings(a) : link[x[2]] # "open"
    /\ GiveUp(a)

\* The loop ends when the client is found disconnected, or by cancellation.
HeartbeatEnds(a) ==
    /\ \/ beat[a] = "cancelled"
       \/ beat[a] = "running" /\ Pings(a) = {} /\ (~connected \/ client = 0)
    /\ beat' = [beat EXCEPT ![a] = "done"]
    /\ publishing' = publishing \ Pings(a)
    /\ UNCHANGED <<gen, flags, tasks, queue, regResult, auth, link, listener,
                   listenerGen, pc, awaiting, attempts>>

\* _delayed_disconnect after its sleep.
DelayExpires ==
    /\ delayTask = "sleeping"
    /\ queue' = IF connected /\ registered THEN queue ELSE 0
    /\ delayTask' = "finished"
    /\ UNCHANGED <<gen, flags, listenerTask, heartbeatTask, regResult, auth, peers,
                   control>>

\* _on_disconnect_delay_done.
DelayDone ==
    /\ delayTask = "finished"
    /\ delayTask' = "none"
    /\ UNCHANGED <<gen, flags, listenerTask, heartbeatTask, queue, regResult, auth,
                   peers, control>>
-----------------------------------------------------------------------------
(***************************************************************************)
(* The printer, the network, and the other users of the client.            *)
(***************************************************************************)
LinkChanges(a) ==
    /\ \/ link[a] = "open" /\ \E l \in {"mute", "lost"} : link' = [link EXCEPT ![a] = l]
       \/ link[a] = "mute" /\ link' = [link EXCEPT ![a] = "lost"]
    /\ UNCHANGED <<gen, flags, tasks, queue, regResult, auth, listener, listenerGen,
                   beat, control>>

\* The publish of a command (_send_command) awaits on the client of the moment.
\* There may be any number of them on one client.
CommandStarts ==
    /\ IsConnected
    /\ publishing' = publishing \union {<<0, client>>}
    /\ UNCHANGED <<gen, flags, tasks, queue, regResult, auth, peers, pc, awaiting, attempts>>

CommandsSent(a) ==
    /\ <<0, a>> \in publishing /\ link[a] \in Usable
    /\ publishing' = publishing \ {<<0, a>>}
    /\ UNCHANGED <<gen, flags, tasks, queue, regResult, auth, peers, pc, awaiting, attempts>>

\* Mutant: a command that timed out counts as a broken connection.
CommandFailsOnTimeout(a) ==
    /\ <<0, a>> \in publishing
    /\ connected' = FALSE
    /\ publishing' \in {publishing, publishing \ {<<0, a>>}}
    /\ UNCHANGED <<gen, client, registered, tasks, queue, regResult, auth, peers, pc,
                   awaiting, attempts>>

\* The publish raises; the flag that falls is that of whatever client there is now.
CommandFails(a) ==
    /\ <<0, a>> \in publishing /\ link[a] # "open"
    /\ connected' = FALSE
    /\ publishing' \in {publishing, publishing \ {<<0, a>>}}
    /\ UNCHANGED <<gen, client, registered, tasks, queue, regResult, auth, peers, pc,
                   awaiting, attempts>>

\* A poll of the coordinator that succeeds drains the transition queue.  While
\* the coordinator is inside connect_printer it does not poll.
Poll ==
    /\ pc["connector"] = "idle"
    /\ queue > 0
    /\ queue' = 0
    /\ UNCHANGED <<gen, flags, tasks, regResult, auth, peers, control>>

-----------------------------------------------------------------------------
(***************************************************************************)
(* The event loop.                                                         *)
(***************************************************************************)

\* The tasks that need nothing but their turn.
Ready ==
    {<<"listener", a>> : a \in {b \in Attempts :
        \/ listener[b] \in {"created", "cancelled"}
        \/ listener[b] = "running" /\ link[b] \in Down}}
    \union {<<"beat", a>> : a \in {b \in Attempts : beat[b] = "cancelled"}}
    \union {<<p, 0>> : p \in {q \in Procs :
              \/ pc[q] = "scheduled"
              \/ pc[q] = "joinBeat" /\ beat[awaiting[q]] = "done"
              \/ pc[q] = "joinListener" /\ listener[awaiting[q]] = "done"
              \/ pc[q] = "closing" /\ link[awaiting[q]] \in Down
              \/ pc[q] = "registering" /\ regResult # "none"}}
    \union {t \in {<<"delay", 0>>} : delayTask = "finished"}

\* The loop is first in, first out: once task s has run, it does not run again
\* before the tasks that are ready then, however fast the network is.
Passes(s) ==
    passed' = {x \in passed \union (Ready' \X {s}) : x[1] \in Ready' \ {s}}

\* Between these two actions and the one before them connect_printer() does
\* not suspend, so nobody else runs.
Continues ==
    /\ AttemptStart \/ AttemptFailed
    /\ Passes(<<"connector", 0>>)
Suspended == pc["connector"] \notin {"attempt", "failed"}

\* Task s takes the step A.
Runs(s, A) ==
    /\ Suspended
    /\ \A t \in Ready : <<t, s>> \notin passed
    /\ A
    /\ Passes(s)

ConnectorStep ==
    \/ EnterFails \/ Entered \/ Subscribed \/ SubscribeFails
    \/ SubscribeRaises \/ RegistrationTimesOut \/ RegistrationAnswered
    \/ AttributesDone \/ InitialDataDone

DisconnectStep(p) == HeartbeatJoined(p) \/ ListenerJoined(p) \/ TransportClosed(p)

ListenerStep(a) ==
    \/ ListenerStarts(a) \/ ListenerBreaks(a) \/ ListenerCancelled(a)
HeartbeatStep(a) == HeartbeatFails(a) \/ HeartbeatEnds(a)
Publishes(a) == HeartbeatPings(a) \/ PingSent(a)
Message(a) == StaleMessage(a) \/ StatusMessage(a) \/ RegisterMessage(a)

Next ==
    \/ Continues
    \/ Runs(<<"connector", 0>>, ConnectStart \/ ConnectorStep \/ Poll)
    \/ Runs(<<"owner", 0>>, OwnerDisconnects)
    \/ Runs(<<"cleanup", 0>>, CleanupRuns)
    \/ \E p \in Procs : Runs(<<p, 0>>, DisconnectStep(p))
    \/ \E a \in Attempts :
          \/ Runs(<<"listener", a>>, ListenerStep(a) \/ Message(a))
          \/ Runs(<<"beat", a>>, HeartbeatStep(a) \/ Publishes(a))
          \/ Suspended /\ (CommandsSent(a) \/ CommandFails(a)) /\ UNCHANGED passed
          \/ LinkChanges(a) /\ UNCHANGED passed
    \/ Runs(<<"delay", 0>>, DelayExpires \/ DelayDone)
    \/ Suspended /\ CommandStarts /\ UNCHANGED passed

\* What task p does next, once it is inside connect_printer() or disconnect().
GoesOn(p) ==
    \/ p = "connector" /\ (Continues \/ Runs(<<p, 0>>, ConnectorStep))
    \/ p = "cleanup" /\ Runs(<<p, 0>>, CleanupRuns)
    \/ Runs(<<p, 0>>, DisconnectStep(p))

\* Tasks that can run do run, every await inside connect_printer and
\* disconnect is bounded by a timeout, and timers fire.  Nothing obliges the
\* network to break, the printer to answer, or anybody to connect.
Fairness ==
    /\ \A p \in Procs : WF_vars(GoesOn(p))
    /\ \A a \in Attempts :
          /\ WF_vars(Runs(<<"listener", a>>, ListenerStep(a)))
          /\ WF_vars(Runs(<<"beat", a>>, HeartbeatStep(a)))
    /\ WF_vars(Runs(<<"delay", 0>>, DelayExpires \/ DelayDone))

Spec == Init /\ [][Next]_vars
FairSpec == Spec /\ Fairness

-----------------------------------------------------------------------------
Disconnecting == \E p \in Procs : pc[p] \in {"joinBeat", "joinListener", "closing"}

\* No message is handled twice, and no listener outlives its connection
\* unnoticed: at most one listener is receiving, and a reconnect joins the old
\* one before the new one starts.
OneListener ==
    \A a, b \in Attempts : listener[a] = "running" /\ listener[b] = "running" => a = b

\* A connection that is_connected reports is one the client can keep alive and
\* tear down: once no task is inside disconnect(), its own listener is alive
\* under the current generation (so it drops no message as stale), its own
\* heartbeat is running, and both are the tasks the next disconnect() will
\* cancel.  _is_connected, _is_registered, mqtt_client and the two task
\* attributes are written by different tasks across many awaits; no mixture of
\* two attempts may look like a connection.  The state is well typed, and no
\* message is handled twice (OneListener).
Supervised ==
    /\ TypeOK
    /\ OneListener
    /\ IsConnected /\ ~Disconnecting =>
            /\ listenerTask = client
            /\ listener[client] \in {"created", "running"}
            /\ listenerGen[client] \in {0, gen}
            /\ heartbeatTask = client
            /\ beat[client] = "running"

\* A connection over a working link is given up by disconnect(), or because the
\* publish of a command that was begun on an earlier client, and still waits on it,
\* fails now; by nothing else: not by the end of a listener, heartbeat or delay task
\* of an earlier attempt, nor by a PING or a command of its own.
HealthyConnectionKept ==
    [][IsConnected /\ link[client] = "open" /\ ~IsConnected' =>
          \/ Disconnecting \/ gen' # gen
          \/ \E a \in Attempts \ {client} : <<0, a>> \in publishing /\ link[a] # "open"]_vars

\* A connection whose link broke, or whose printer stopped answering without
\* the link breaking, does not stay connected for ever: the heartbeat or the
\* listener notices.
SilenceNoticed ==
    []<>(IsConnected => link[client] = "open")

\* connect_printer() and disconnect() return, also when several of them run
\* at once and cancel, join and close the same tasks and transports.
EveryTaskReturns ==
    \A p \in Procs : []<>(pc[p] \in {"idle", "done"})
=============================================================================
