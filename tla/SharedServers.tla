--------------------------- MODULE SharedServers ---------------------------
(***************************************************************************)
(* The two servers all entries share, the SDCP proxy (ElegooPrinterServer) *)
(* and the embedded MQTT broker (ElegooMQTTBroker), each one instance with *)
(* a reference count behind a lock; and the life of the entries that use   *)
(* them: set up and unload (__init__.py, api.py), and the reconnect a poll *)
(* of the coordinator makes, which may be under way while its entry is     *)
(* being unloaded.                                                         *)
(*                                                                         *)
(* An action is the code between two awaits.  `todo' is what is left of an *)
(* entry's setup, unload or reconnect; an early return drops the rest of   *)
(* that call.  Sockets, ports and sessions are abstracted to whether a     *)
(* server is up; a lock goes to any of those who wait for it.  Home        *)
(* Assistant starts a setup only when the entry's last poll has ended, and *)
(* one reconnect of an entry at a time is modelled.                        *)
(***************************************************************************)
EXTENDS Naturals, Sequences, FiniteSets, SequencesExt

CONSTANTS
    Entries,    \* config entries
    NoOne,      \* the holder of a free lock
    MaxOps      \* bound: setups, unloads and reconnects begun

ASSUME ConstantsAssumption ==
    /\ IsFiniteSet(Entries) /\ MaxOps \in Nat
    /\ \A e \in Entries, call \in {"life", "poll"} : NoOne # <<e, call>>

Kinds == {"proxy", "broker", "direct"}
Procs == Entries \X {"life", "poll"}

VARIABLES
    kind,       \* how each entry reaches its printer
    loaded,     \* entries whose setup has finished
    todo,       \* todo[p]: the steps left of p's call
    held,       \* entries whose api object has a server or mqtt_broker set
    proxy,      \* ElegooPrinterServer: _reference_count, state, _creation_lock
    registry,   \* printer_registry of the proxy instance
    broker,     \* ElegooMQTTBroker: _reference_count, state, _lock
    blame,      \* ghost: kinds of step that have cost an entry its server
    ops

vars == <<kind, loaded, todo, held, proxy, registry, broker, blame, ops>>

\* "none": no _instance; "dead": an _instance that is not running.
States == {"none", "starting", "up", "stopping", "dead"}
Servers == [refs : Nat, state : States, lock : Procs \union {NoOne}]
Absent == [refs |-> 0, state |-> "none", lock |-> NoOne]

Reconnect == {"ask", "renew", "relink"}
Steps == Reconnect \union
    {"get", "probe", "create", "connect", "refresh", "remove", "drop", "has_reference",
     "stop_broker", "stop_proxy"}

TypeOK ==
    /\ kind \in [Entries -> Kinds]
    /\ loaded \subseteq Entries /\ held \subseteq Entries /\ registry \subseteq Entries
    /\ todo \in [Procs -> Seq(Steps)]
    /\ proxy \in Servers /\ broker \in Servers
    /\ blame \subseteq {"foreign", "port", "escape"}
    /\ ops \in 0..MaxOps

Init ==
    /\ kind \in [Entries -> Kinds]
    /\ loaded = {} /\ held = {} /\ registry = {}
    /\ todo = [p \in Procs |-> <<>>]
    /\ proxy = Absent /\ broker = Absent
    /\ blame = {} /\ ops = 0

Do(p, step) == todo[p] # <<>> /\ Head(todo[p]) = step
Then(p, steps) == todo' = [todo EXCEPT ![p] = steps]
Rest(p) == Tail(todo[p])
\* A reconnect was called by a poll, or by the first refresh of a setup.
ReturnFromReconnect(p) ==
    IF Last(todo[p]) = "stop_proxy" THEN <<"stop_broker", "stop_proxy">> ELSE <<>>
When(condition, step) == IF condition THEN <<step>> ELSE <<>>
HasProxy(e) == kind[e] = "proxy" /\ e \in held
HasBroker(e) == kind[e] = "broker" /\ e \in held
-----------------------------------------------------------------------------
(***************************************************************************)
(* Home Assistant's calls.                                                 *)
(***************************************************************************)
Call(p, steps) ==
    /\ todo[p] = <<>> /\ ops < MaxOps
    /\ ops' = ops + 1
    /\ Then(p, steps)
    /\ UNCHANGED <<kind, held, proxy, registry, broker, blame>>

Setup(e) ==
    /\ e \notin loaded /\ todo[<<e, "poll">>] = <<>>
    /\ Call(<<e, "life">>,
            When(kind[e] = "broker", "get") \o <<"probe">>
              \o When(kind[e] = "proxy", "create") \o <<"connect", "refresh">>)
    /\ UNCHANGED loaded

ReconnectSteps(e) == <<"ask">> \o When(kind[e] = "proxy", "renew") \o <<"relink">>

\* A poll has failed.
PollReconnects(e) ==
    /\ e \in loaded
    /\ Call(<<e, "poll">>, ReconnectSteps(e))
    /\ UNCHANGED loaded

Unload(e) ==
    /\ e \in loaded
    /\ loaded' = loaded \ {e}
    /\ Call(<<e, "life">>, <<"remove", "stop_broker">>)
-----------------------------------------------------------------------------
(***************************************************************************)
(* The broker: get_instance and release_instance.                          *)
(***************************************************************************)
JoinBroker(e, p) ==
    /\ Do(p, "get") /\ broker.lock = NoOne
    /\ broker.state # "none"
    /\ broker' = [broker EXCEPT !.refs = @ + 1]
    /\ held' = held \union {e}
    /\ Then(p, Rest(p))
    /\ UNCHANGED <<kind, loaded, proxy, registry, blame, ops>>

StartBroker(e, p) ==
    /\ Do(p, "get") /\ broker.lock = NoOne
    /\ broker.state = "none"
    /\ broker' = [refs |-> 0, state |-> "starting", lock |-> p]
    /\ UNCHANGED <<kind, loaded, todo, held, proxy, registry, blame, ops>>

BrokerStarted(e, p) ==
    /\ broker.lock = p /\ broker.state = "starting"
    /\ \/ /\ broker' = [refs |-> 1, state |-> "up", lock |-> NoOne]
          /\ held' = held \union {e}
          /\ Then(p, Rest(p))
       \/ /\ broker' = [refs |-> 0, state |-> "dead", lock |-> NoOne]
          /\ Then(p, <<>>)
          /\ UNCHANGED held
    /\ UNCHANGED <<kind, loaded, proxy, registry, blame, ops>>

\* Mutant: the broker is stopped although others still use it.
ReleaseBrokerAlways(e, p) ==
    /\ Do(p, "stop_broker") /\ HasBroker(e) /\ broker.lock = NoOne
    /\ broker' = [refs |-> broker.refs - 1, state |-> "stopping", lock |-> p]
    /\ UNCHANGED <<kind, loaded, todo, held, proxy, registry, blame, ops>>

ReleaseBroker(e, p) ==
    /\ Do(p, "stop_broker") /\ HasBroker(e) /\ broker.lock = NoOne
    /\ IF broker.refs > 1
       THEN /\ broker' = [broker EXCEPT !.refs = @ - 1]
            /\ held' = held \ {e}
            /\ Then(p, Rest(p))
       ELSE /\ broker' = [refs |-> 0, state |-> "stopping", lock |-> p]
            /\ UNCHANGED <<held, todo>>
    /\ UNCHANGED <<kind, loaded, proxy, registry, blame, ops>>

BrokerStopped(e, p) ==
    /\ broker.lock = p /\ broker.state = "stopping"
    /\ broker' = Absent
    /\ held' = held \ {e}
    /\ Then(p, Rest(p))
    /\ UNCHANGED <<kind, loaded, proxy, registry, blame, ops>>

NoBrokerToStop(e, p) ==
    /\ Do(p, "stop_broker") /\ ~HasBroker(e)
    /\ Then(p, Rest(p))
    /\ UNCHANGED <<kind, loaded, held, proxy, registry, broker, blame, ops>>
-----------------------------------------------------------------------------
(***************************************************************************)
(* The proxy: async_create, release_reference, remove_printer_from_server. *)
(***************************************************************************)
Creates(p) == (Do(p, "create") \/ Do(p, "renew")) /\ proxy.lock = NoOne

\* Mutant: joining does not count.
JoinProxyUncounted(e, p) ==
    /\ Creates(p) /\ proxy.state # "none"
    /\ registry' = registry \union {e}
    /\ held' = held \union {e}
    /\ Then(p, Rest(p))
    /\ UNCHANGED <<kind, loaded, proxy, broker, blame, ops>>

JoinProxy(e, p) ==
    /\ Creates(p) /\ proxy.state # "none"
    /\ proxy' = [proxy EXCEPT !.refs = @ + 1]
    /\ registry' = registry \union {e}
    /\ held' = held \union {e}
    /\ Then(p, Rest(p))
    /\ UNCHANGED <<kind, loaded, broker, blame, ops>>

StartProxy(e, p) ==
    /\ Creates(p) /\ proxy.state = "none"
    /\ proxy' = [refs |-> 1, state |-> "starting", lock |-> p]
    /\ registry' = {e}
    /\ UNCHANGED <<kind, loaded, todo, held, broker, blame, ops>>

ProxyStarted(e, p) ==
    /\ proxy.lock = p /\ proxy.state = "starting"
    /\ proxy' = [proxy EXCEPT !.state = "up", !.lock = NoOne]
    /\ held' = held \union {e}
    /\ Then(p, Rest(p))
    /\ UNCHANGED <<kind, loaded, registry, broker, blame, ops>>

\* Mutant: the lock is not given back when start() raises.
ProxyFailsLocked(e, p) ==
    /\ proxy.lock = p /\ proxy.state = "starting"
    /\ proxy' = [proxy EXCEPT !.state = "dead"]
    /\ Then(p, IF Do(p, "create") THEN <<"has_reference">> ELSE ReturnFromReconnect(p))
    /\ blame' = blame \union {"port"}
    /\ UNCHANGED <<kind, loaded, held, registry, broker, ops>>

\* A port is taken: the instance remains, stopped, with its one reference.
ProxyFails(e, p) ==
    /\ proxy.lock = p /\ proxy.state = "starting"
    /\ proxy' = [proxy EXCEPT !.state = "dead", !.lock = NoOne]
    /\ Then(p, IF Do(p, "create") THEN <<"has_reference">> ELSE ReturnFromReconnect(p))
    /\ blame' = blame \union {"port"}
    /\ UNCHANGED <<kind, loaded, held, registry, broker, ops>>

HasReference(e, p) ==
    /\ Do(p, "has_reference")
    /\ Then(p, When(proxy.refs > 0, "drop"))
    /\ UNCHANGED <<kind, loaded, held, proxy, registry, broker, blame, ops>>

Releases(p) == Do(p, "drop") /\ proxy.lock = NoOne
LetGo(e) == held' = IF kind[e] = "proxy" THEN held \ {e} ELSE held

ReleaseProxy(e, p) ==
    /\ Releases(p)
    /\ \/ /\ proxy.refs <= 1 /\ proxy.state # "none"
          /\ proxy' = [refs |-> 0, state |-> "stopping", lock |-> p]
          /\ UNCHANGED <<todo, held>>
       \/ /\ proxy.refs > 1 \/ proxy.state = "none"
          /\ proxy' = [proxy EXCEPT !.refs = IF @ = 0 THEN 0 ELSE @ - 1]
          /\ LetGo(e)
          /\ Then(p, Rest(p))
    /\ blame' = IF ~HasProxy(e) /\ proxy.refs > 0 THEN blame \union {"foreign"} ELSE blame
    /\ UNCHANGED <<kind, loaded, registry, broker, ops>>

ProxyStopped(e, p) ==
    /\ proxy.lock = p /\ proxy.state = "stopping"
    /\ proxy' = Absent
    /\ registry' = {}
    /\ LetGo(e)
    /\ Then(p, Rest(p))
    /\ UNCHANGED <<kind, loaded, broker, blame, ops>>

\* Every unload removes its printer, proxied or not.  The last one to be
\* removed keeps its reference: the server is not stopped.
RemovePrinter(e, p) ==
    /\ Do(p, "remove")
    /\ registry' = registry \ {e}
    /\ IF proxy.state # "none" /\ registry' = {}
       THEN LetGo(e) /\ Then(p, Rest(p))
       ELSE Then(p, <<"drop">> \o Rest(p)) /\ UNCHANGED held
    /\ UNCHANGED <<kind, loaded, proxy, broker, blame, ops>>

StopProxy(e, p) ==
    /\ Do(p, "stop_proxy")
    /\ Then(p, When(HasProxy(e), "drop"))
    /\ UNCHANGED <<kind, loaded, held, proxy, registry, broker, blame, ops>>
-----------------------------------------------------------------------------
(***************************************************************************)
(* The other steps of a setup and of a reconnect.                          *)
(***************************************************************************)
ServerIsUp(e) ==
    /\ kind[e] = "broker" => broker.state = "up"
    /\ kind[e] = "proxy" => proxy.state = "up"

others == <<kind, proxy, registry, broker, ops>>

\* An MQTT entry asks the broker's port, the others the printer itself.
ProbeSucceeds(e, p) ==
    /\ Do(p, "probe") \/ Do(p, "ask")
    /\ kind[e] = "broker" => broker.state = "up"
    /\ Then(p, When(Do(p, "ask") /\ HasProxy(e), "drop") \o Rest(p))
    /\ UNCHANGED <<others, loaded, held, blame>>

ProbeFails(e, p) ==
    /\ \/ Do(p, "probe") /\ Then(p, When(HasBroker(e), "stop_broker"))
       \/ Do(p, "ask") /\ Then(p, When(HasProxy(e), "drop") \o ReturnFromReconnect(p))
    /\ UNCHANGED <<others, loaded, held, blame>>

Connects(e, p) ==
    /\ Do(p, "connect") \/ Do(p, "relink")
    /\ ServerIsUp(e)
    /\ Then(p, Rest(p))
    /\ UNCHANGED <<others, loaded, held, blame>>

ConnectFails(e, p) ==
    /\ \/ /\ Do(p, "connect")
          /\ Then(p, When(HasProxy(e), "drop") \o When(HasBroker(e), "stop_broker"))
       \/ /\ Do(p, "relink")
          /\ Then(p, ReturnFromReconnect(p))
    /\ UNCHANGED <<others, loaded, held, blame>>

\* ElegooPrinterNotConnectedError of the MQTT handshake is not caught: the api
\* object is lost with its reference to the broker.
ConnectRaises(e, p) ==
    /\ Do(p, "connect") /\ kind[e] = "broker"
    /\ held' = held \ {e}
    /\ Then(p, <<>>)
    /\ blame' = blame \union {"escape"}
    /\ UNCHANGED <<others, loaded>>

FirstRefresh(e, p) ==
    /\ Do(p, "refresh")
    /\ ServerIsUp(e) /\ (kind[e] = "proxy" => e \in registry)
    /\ loaded' = loaded \union {e}
    /\ Then(p, Rest(p))
    /\ UNCHANGED <<others, held, blame>>

\* The failed refresh first reconnects, unless it was an OSError.
FirstRefreshFails(e, p) ==
    /\ Do(p, "refresh")
    /\ \E reconnect \in {<<>>, ReconnectSteps(e)} :
          Then(p, reconnect \o <<"stop_broker", "stop_proxy">>)
    /\ UNCHANGED <<others, loaded, held, blame>>

Step(e, p) ==
    \/ JoinBroker(e, p) \/ StartBroker(e, p) \/ BrokerStarted(e, p)
    \/ ReleaseBroker(e, p) \/ BrokerStopped(e, p) \/ NoBrokerToStop(e, p)
    \/ JoinProxy(e, p) \/ StartProxy(e, p) \/ ProxyStarted(e, p) \/ ProxyFails(e, p)
    \/ HasReference(e, p) \/ ReleaseProxy(e, p) \/ ProxyStopped(e, p)
    \/ RemovePrinter(e, p) \/ StopProxy(e, p)
    \/ ProbeSucceeds(e, p) \/ ProbeFails(e, p)
    \/ Connects(e, p) \/ ConnectFails(e, p) \/ ConnectRaises(e, p)
    \/ FirstRefresh(e, p) \/ FirstRefreshFails(e, p)

Next ==
    \E e \in Entries :
        \/ Setup(e) \/ PollReconnects(e) \/ Unload(e)
        \/ \E call \in {"life", "poll"} : Step(e, <<e, call>>)

\* A call that can go on does: no step waits for the user.
Fairness == \A e \in Entries, call \in {"life", "poll"} : WF_vars(Step(e, <<e, call>>))

Spec == Init /\ [][Next]_vars
FairSpec == Spec /\ Fairness

-----------------------------------------------------------------------------
\* The entries whose reference to the broker is neither released nor lost.
Stopping(server, e) ==
    server.state = "stopping" /\ server.lock \in {<<e, "life">>, <<e, "poll">>}

BrokerUsers == {e \in Entries : HasBroker(e) /\ ~Stopping(broker, e)}

Shared == INSTANCE SharedResource WITH
    Users <- Entries,
    users <- BrokerUsers,
    lost  <- broker.refs - Cardinality(BrokerUsers),
    state <- CASE broker.state \in {"none", "starting", "stopping"} -> "down"
               [] broker.state = "up" -> "up"
               [] OTHER -> "broken"

\* The broker is a shared resource: whatever setups fail, raise or are unloaded
\* in between, it never stops under an entry that uses it, and every reference
\* counted is that of a user or of an entry that went away without releasing it.
BrokerIsShared == Shared!Spec

\* A loaded entry that has a proxy server and is not letting go of it is
\* registered with it, and the server runs, unless somebody released a reference
\* that was not theirs (foreign) or joined an instance that could not bind its
\* ports (port).  The state is well typed.
ProxyServes ==
    /\ TypeOK
    /\ blame \subseteq {"escape"} =>
          \A e \in loaded : HasProxy(e) /\ ~Stopping(proxy, e) => proxy.state = "up" /\ e \in registry

\* Nobody waits for a lock forever: each setup, unload and reconnect returns,
\* also when a server cannot start.
CallsReturn == \A p \in Procs : todo[p] # <<>> ~> todo[p] = <<>>
=============================================================================
