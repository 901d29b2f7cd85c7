----------------------------- MODULE CC2Requests -----------------------------
(***************************************************************************)
(* Request/response matching of ElegooCC2Client (cc2/client.py):           *)
(* _send_command registers an asyncio.Event under a fresh request id,      *)
(* publishes, and waits at most CC2_COMMAND_TIMEOUT; _handle_response,     *)
(* run by the listener task, stores an answer under its id and sets the    *)
(* event; disconnect() releases every waiter.                              *)
(*                                                                         *)
(* Everything runs on one event loop, so an action is the code between two *)
(* suspension points.  _response_lock is never held across an await that   *)
(* suspends and is therefore not modelled.  An event that is set wakes its *)
(* waiter later: setting it and the waiter resuming are two actions, and   *)
(* what happens in between is the difficulty.                              *)
(*                                                                         *)
(* Abstracted: the payload of an answer is the call it answers (a ghost    *)
(* the wire does not carry) and an error code.  The wire carries the id.   *)
(***************************************************************************)
EXTENDS Naturals

CONSTANTS
    Calls,      \* the calls of _send_command, each made once
    Codes,      \* error codes of answers
    NoCall,     \* no entry in _response_events
    MaxId       \* bound: request ids run from 1 to MaxId

ASSUME NoCallAssumption == NoCall \notin Calls
ASSUME MaxIdAssumption == MaxId \in Nat

VARIABLES
    counter,    \* _request_counter
    registry,   \* _response_events: request id -> the call waiting on it
    data,       \* _response_data: request id -> answer, None when absent
    signalled,  \* calls whose asyncio.Event is set
    phase,      \* phase[c]: progress of the call through _send_command
    id,         \* id[c]: request_id of the call, 0 before it is issued
    outcome,    \* outcome[c]: what the call returned or raised
    connected,  \* is_connected
    session,    \* the listener and transport of the current connection
    answered,   \* ghost: codes the printer has answered each call with
    inflight    \* answers on their way to the listener

clientVars == <<counter, registry, data, signalled, phase, id, outcome>>
requestVars == <<clientVars, connected, session, answered, inflight>>

Ids == 1..MaxId
Answer(c, code) == [call |-> c, code |-> code]
Answers == [call : Calls, code : Codes]
Messages == [id : Ids, answer : Answers]

\* Everything else a call can end with: Python's None and the exceptions
\* ElegooPrinterTimeoutError and ElegooPrinterConnectionError.
Failure(f) == [call |-> NoCall, code |-> f]
Failures == {Failure(f) : f \in {"none", "timeout", "connection_error"}}
None == Failure("none")
Pending == Failure("pending")

Phases == {"idle", "publishing", "waiting", "done"}
Sessions == {"closed", "open", "lost", "closing"}

RequestsTypeOK ==
    /\ counter \in 0..MaxId
    /\ registry \in [Ids -> Calls \union {NoCall}]
    /\ data \in [Ids -> Answers \union {None}]
    /\ signalled \subseteq Calls
    /\ phase \in [Calls -> Phases]
    /\ id \in [Calls -> 0..MaxId]
    /\ outcome \in [Calls -> Answers \union Failures \union {Pending}]
    /\ connected \in BOOLEAN
    /\ session \in Sessions
    /\ answered \in [Calls -> SUBSET Codes]
    /\ inflight \subseteq Messages

RequestsInit ==
    /\ counter = 0
    /\ registry = [i \in Ids |-> NoCall]
    /\ data = [i \in Ids |-> None]
    /\ signalled = {}
    /\ phase = [c \in Calls |-> "idle"]
    /\ id = [c \in Calls |-> 0]
    /\ outcome = [c \in Calls |-> Pending]
    /\ connected = FALSE
    /\ session = "closed"
    /\ answered = [c \in Calls |-> {}]
    /\ inflight = {}

-----------------------------------------------------------------------------
\* _send_command up to the publish.  A client that is not connected raises
\* ElegooPrinterNotConnectedError here, before anything has changed.
Start(c) ==
    /\ phase[c] = "idle"
    /\ connected
    /\ counter < MaxId
    /\ counter' = counter + 1
    /\ id' = [id EXCEPT ![c] = counter']
    /\ registry' = [registry EXCEPT ![counter'] = c]
    /\ phase' = [phase EXCEPT ![c] = "publishing"]
    /\ UNCHANGED <<data, signalled, outcome, connected, session,
                   answered, inflight>>

\* The publish returned: from now on the printer may know the command.
Published(c) ==
    /\ phase[c] = "publishing"
    /\ phase' = [phase EXCEPT ![c] = "waiting"]
    /\ UNCHANGED <<counter, registry, data, signalled, id, outcome,
                   connected, session, answered, inflight>>

\* Mutant: the finally clause forgets to pop the answer.
LeaveKeepsAnswer(c, o) ==
    /\ phase' = [phase EXCEPT ![c] = "done"]
    /\ outcome' = [outcome EXCEPT ![c] = o]
    /\ registry' = [registry EXCEPT ![id[c]] = NoCall]
    /\ UNCHANGED <<data, counter, signalled, id>>

\* The finally clause of _send_command: both entries of the id are dropped and
\* the call is over.
Leave(c, o) ==
    /\ phase' = [phase EXCEPT ![c] = "done"]
    /\ outcome' = [outcome EXCEPT ![c] = o]
    /\ registry' = [registry EXCEPT ![id[c]] = NoCall]
    /\ data' = [data EXCEPT ![id[c]] = None]
    /\ UNCHANGED <<counter, signalled, id>>

\* publish() raised OSError or MqttError.
PublishRaises(c) ==
    /\ phase[c] = "publishing"
    /\ Leave(c, Failure("connection_error"))
    /\ connected' = FALSE
    /\ UNCHANGED <<session, answered, inflight>>

\* Mutant: the answer is looked up under the latest request id.
ResumeLatest(c) ==
    /\ phase[c] = "waiting"
    /\ c \in signalled
    /\ Leave(c, data[counter])
    /\ UNCHANGED <<connected, session, answered, inflight>>

\* The waiter resumes after its event was set and returns
\* _response_data.get(request_id), which is None once disconnect() has
\* cleared the answers.
Resume(c) ==
    /\ phase[c] = "waiting"
    /\ c \in signalled
    /\ Leave(c, data[id[c]])
    /\ UNCHANGED <<connected, session, answered, inflight>>

\* Mutant: event.wait() without wait_for.
TimeoutNever(c) ==
    /\ phase[c] = "waiting"
    /\ session = "closed"
    /\ Leave(c, Failure("timeout"))
    /\ UNCHANGED <<connected, session, answered, inflight>>

\* wait_for gives up.  The timer may fire after the event was set and before
\* the waiter has resumed, so there is no guard on signalled.
Timeout(c) ==
    /\ phase[c] = "waiting"
    /\ Leave(c, Failure("timeout"))
    /\ UNCHANGED <<connected, session, answered, inflight>>

\* The printer answers a command it may have received: late, twice or never.
\* The answer reaches the client's topic only while a session subscribes to it.
PrinterAnswers(c, code) ==
    /\ phase[c] # "idle"
    /\ answered' = [answered EXCEPT ![c] = @ \union {code}]
    /\ inflight' = IF session = "open"
                   THEN inflight \union {[id |-> id[c], answer |-> Answer(c, code)]}
                   ELSE inflight
    /\ UNCHANGED <<clientVars, connected, session>>

\* Mutant: the answer is stored and nobody is woken.
HandleResponseSilently(m) ==
    /\ session = "open"
    /\ m \in inflight
    /\ inflight' = inflight \ {m}
    /\ IF registry[m.id] # NoCall
       THEN data' = [data EXCEPT ![m.id] = m.answer]
       ELSE UNCHANGED data
    /\ UNCHANGED <<counter, registry, signalled, phase, id, outcome, connected,
                   session, answered>>

\* _handle_response: the answer is kept only if somebody waits for its id.
HandleResponse(m) ==
    /\ session = "open"
    /\ m \in inflight
    /\ inflight' = inflight \ {m}
    /\ IF registry[m.id] # NoCall
       THEN /\ data' = [data EXCEPT ![m.id] = m.answer]
            /\ signalled' = signalled \union {registry[m.id]}
       ELSE UNCHANGED <<data, signalled>>
    /\ UNCHANGED <<counter, registry, phase, id, outcome, connected, session,
                   answered>>

-----------------------------------------------------------------------------
\* The locked block of disconnect(): set every event, clear both dictionaries.
ReleaseWaiters ==
    /\ signalled' = signalled \union ({registry[i] : i \in Ids} \ {NoCall})
    /\ registry' = [i \in Ids |-> NoCall]
    /\ data' = [i \in Ids |-> None]

\* Mutant: disconnect() starts the numbering of the requests again.
DisconnectRenumbers ==
    /\ session # "closing"
    /\ ReleaseWaiters
    /\ session' = "closing"
    /\ inflight' = {}
    /\ counter' = 0
    /\ UNCHANGED <<phase, id, outcome, connected, answered>>

\* disconnect() up to the await of the transport's __aexit__.  The listener is
\* gone, but _is_connected is reset only after the transport has closed, so
\* until then new commands are accepted.
DisconnectStart ==
    /\ session # "closing"
    /\ ReleaseWaiters
    /\ session' = "closing"
    /\ inflight' = {}
    /\ UNCHANGED <<counter, phase, id, outcome, connected, answered>>

DisconnectEnd ==
    /\ session = "closing"
    /\ session' = "closed"
    /\ connected' = FALSE
    /\ UNCHANGED <<clientVars, answered, inflight>>

\* connect_printer() of a closed client: it calls disconnect(), which finds
\* nothing but waiters left to release, and then establishes a session.
Reconnect ==
    /\ session = "closed"
    /\ ReleaseWaiters
    /\ session' = "open"
    /\ connected' = TRUE
    /\ UNCHANGED <<counter, phase, id, outcome, answered, inflight>>

\* The finally clause of the listener: the connection broke.  Waiters are not
\* released.
ListenerStops ==
    /\ session = "open"
    /\ session' = "lost"
    /\ connected' = FALSE
    /\ inflight' = {}
    /\ UNCHANGED <<clientVars, answered>>

RequestsNext ==
    \/ \E c \in Calls :
          \/ Start(c)
          \/ Published(c)
          \/ PublishRaises(c)
          \/ Resume(c)
          \/ Timeout(c)
          \/ \E code \in Codes : PrinterAnswers(c, code)
    \/ \E m \in inflight : HandleResponse(m)
    \/ DisconnectStart
    \/ DisconnectEnd
    \/ Reconnect
    \/ ListenerStops

\* A publish returns or raises (aiomqtt bounds it), the timer of wait_for
\* fires, and closing the transport ends.  Nothing obliges the printer to
\* answer, the network to deliver, or anybody to connect.
RequestsFairness ==
    /\ \A c \in Calls : WF_requestVars(Published(c) \/ PublishRaises(c))
    /\ \A c \in Calls : WF_requestVars(Resume(c) \/ Timeout(c))
    /\ WF_requestVars(DisconnectEnd)

RequestsSpec == RequestsInit /\ [][RequestsNext]_requestVars
RequestsFairSpec == RequestsSpec /\ RequestsFairness

-----------------------------------------------------------------------------
\* A call never returns the answer to another call: what _send_command returns
\* is an answer the printer gave to the very command this call published, over
\* timeouts, retries of the same command, reconnects and answers that arrive
\* late or twice.
OwnAnswer ==
    \A c \in Calls :
        outcome[c].call # NoCall =>
            /\ outcome[c].call = c
            /\ outcome[c].code \in answered[c]

\* No dictionary outlives its request: an id is registered only for a call
\* that is still inside _send_command, and an answer is stored only under a
\* registered id.  An answer that comes after the timeout or after
\* disconnect() leaves nothing behind.
NoResidue ==
    \A i \in Ids :
        /\ registry[i] # NoCall => phase[registry[i]] \in {"publishing", "waiting"}
        /\ data[i] # None => registry[i] # NoCall

\* No lost wake-up: once an answer is stored, or the call's registration was
\* dropped by disconnect(), the event of the waiting call is set, so it never
\* sits out the command timeout for nothing.
NoLostWakeup ==
    \A c \in Calls :
        phase[c] = "waiting" /\ (registry[id[c]] # c \/ data[id[c]] # None) =>
            c \in signalled

\* Every call returns or raises: nobody waits forever, whatever the printer,
\* the network and the other tasks do.
EveryCallReturns ==
    \A c \in Calls : phase[c] \in {"publishing", "waiting"} ~> phase[c] = "done"

Promised == INSTANCE CommandReply WITH
    phase <- [c \in Calls |-> IF phase[c] \in {"publishing", "waiting"}
                              THEN "open" ELSE phase[c]]

\* The request table implements the promise of CommandReply.
ImplementsReply == Promised!Spec
=============================================================================
