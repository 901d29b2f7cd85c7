---------------------------- MODULE ProxyRouting ----------------------------
(***************************************************************************)
(* What the running proxy server does with the traffic of a slicer or a    *)
(* browser: which printer an HTTP request goes to and with which path, how *)
(* a script is rewritten while it is streamed, how a WebSocket session is  *)
(* spread over the printers, and who answers a discovery datagram.         *)
(*                                                                         *)
(* An action is the code between two awaits.  An HTTP exchange and a       *)
(* WebSocket session share only the registry, so a behaviour has one of    *)
(* them under way at a time.  A path is the sequence of its segments.  A   *)
(* script is a sequence of symbols, which chunks and halves cut anywhere:  *)
(* "p q r" is the printer's address and "u v w" a WebSocket URL; "z" is    *)
(* the proxy's address and "i" the end of a URL that has the printer's id. *)
(* Headers and the rewriting of VideoUrl are left out.  Printer ids have   *)
(* at least MIN_MAINBOARD_ID_LENGTH letters.                               *)
(***************************************************************************)
EXTENDS Naturals, Sequences, FiniteSets, SequencesExt, Subsequences

CONSTANTS
    Printers,
    Gone,           \* an id of no registered printer
    NoId,           \* no id is given
    Segments,       \* segments of paths
    Paths,          \* request paths
    Contents,       \* scripts a printer serves
    Clashing,       \* printers with whose address the proxy's begins (.1 and .10)
    MaxMessages     \* bound: messages of a session's client

Symbols == {"p", "q", "r", "z", "u", "v", "w", "i"}
Texts == Seq(Symbols)
Address == <<"p", "q", "r">>    \* the printer's ip_address
Url == <<"u", "v", "w">>        \* a URL without an id

ASSUME RoutingAssumption ==
    /\ Gone \notin Printers /\ NoId \notin Printers \union {Gone}
    /\ Paths \subseteq Seq(Segments) /\ Contents \subseteq Texts
    /\ Clashing \subseteq Printers /\ MaxMessages \in Nat

Ids == Printers \union {Gone}   \* a printer stands for its MainboardID
MayBeId == Ids \union {NoId}
Requests == [port : {"http", "video"}, method : {"GET", "POST"}, query : MayBeId,
             referer : MayBeId, path : Paths]
Messages == [n : 1..MaxMessages, id : Ids]  \* of a session's client

VARIABLES
    registry,   \* printer_registry: registered printers, oldest first
    serving,    \* the sessions of the server are open
    quiet,      \* less than DISCOVERY_RATE_LIMIT_SECONDS since the last answer
    http,       \* the exchange under way: HTTP, or discovery
    body,       \* the response's body on its way through the proxy
    ws          \* the WebSocket session

routingVars == <<registry, serving, quiet, http, body, ws>>

NoExchange == [stage |-> "none"]
NoBody == [rest |-> <<>>, previous |-> <<>>, written |-> <<>>, chunks |-> 0, split |-> FALSE]
Bodies == [rest : Texts, previous : Texts, written : Texts, chunks : Nat, split : BOOLEAN]
NoSession == [stage |-> "none", dial |-> <<>>, conns |-> <<>>, started |-> {}, up |-> {},
              left |-> FALSE, log |-> <<>>, inbox |-> <<>>, client |-> "reading",
              to |-> <<>>, snapshot |-> <<>>, reached |-> [p \in Printers |-> <<>>]]
Sessions == [stage : {"none", "connecting", "open", "closed"}, dial : Seq(Printers),
             conns : Seq(Printers), started : SUBSET Printers, up : SUBSET Printers,
             left : BOOLEAN, log : Seq(Messages), inbox : Seq(Messages),
             client : {"reading", "sending", "ended"}, to : Seq(Printers),
             snapshot : Seq(Printers), reached : [Printers -> Seq(Messages)]]

RoutingTypeOK ==
    /\ registry \in Seq(Printers) /\ IsInjective(registry)
    /\ serving \in BOOLEAN /\ quiet \in BOOLEAN
    /\ http.stage \in {"none", "announced", "asked", "streaming", "complete", "cut", "refused"}
    /\ http.stage \in {"asked", "streaming"} => http.target \in Printers
    /\ body \in Bodies
    /\ ws \in Sessions
    /\ Range(ws.conns) \subseteq ws.started \union ws.up

RoutingInit ==
    /\ registry = <<>> /\ serving = TRUE /\ quiet = FALSE
    /\ http = NoExchange /\ body = NoBody /\ ws = NoSession

Idle == http.stage = "none" /\ ws.stage = "none"
-----------------------------------------------------------------------------
(***************************************************************************)
(* The registry, and the server's end.                                     *)
(***************************************************************************)

AddPrinter(p) ==
    /\ serving /\ p \notin Range(registry)
    /\ registry' = Append(registry, p)
    /\ UNCHANGED <<serving, quiet, http, body, ws>>

RemovePrinter(p) ==
    /\ p \in Range(registry)
    /\ registry' = Only(registry, Printers \ {p})
    /\ UNCHANGED <<serving, quiet, http, body, ws>>

\* stop() closes the client sessions; what is under way fails.
StopServer ==
    /\ serving
    /\ serving' = FALSE
    /\ UNCHANGED <<registry, quiet, http, body, ws>>
-----------------------------------------------------------------------------
(***************************************************************************)
(* Discovery.                                                              *)
(***************************************************************************)
\* One answer per printer, each with the proxy's address; without printers, one
\* for the proxy itself.
DiscoveryRequest ==
    /\ Idle /\ serving /\ ~quiet
    /\ quiet' = TRUE
    /\ http' = [stage |-> "announced", printers |-> IF registry = <<>> THEN {Gone} ELSE Range(registry)]
    /\ UNCHANGED <<registry, serving, body, ws>>

RateLimitEnds ==
    /\ quiet
    /\ quiet' = FALSE
    /\ UNCHANGED <<registry, serving, http, body, ws>>
-----------------------------------------------------------------------------
(***************************************************************************)
(* HTTP: routing, forwarding and streaming.                                *)
(***************************************************************************)
Registered(id) == id \in Range(registry)

\* /api/{id}/... and /video/{id}
PathId(path) ==
    IF \/ Len(path) >= 3 /\ path[1] = "api"
       \/ Len(path) >= 2 /\ path[1] = "video"
    THEN <<path[2]>> ELSE <<>>

FallbackIds(path) == IF Len(path) >= 2 THEN path ELSE <<>>

\* The first of these ids that is registered.
FirstRegistered(ids) == ids[SelectInSeq(ids, Registered)]

\* Mutant: without a query parameter the first printer is taken at once.
TargetByQueryOnly(request) == FirstRegistered(<<request.query>> \o registry)

\* What the request names, in the order of its search; the oldest printer at last.
Target(request) ==
    FirstRegistered(<<request.query>> \o PathId(request.path) \o <<request.referer>>
                      \o FallbackIds(request.path) \o registry)

NamesPrinter(path) == \E id \in Range(PathId(path)) : Registered(id)

Cleaned(path) ==
    CASE path[1] = "api" /\ NamesPrinter(path) -> SubSeq(path, 3, Len(path))
      [] path[1] = "video" /\ NamesPrinter(path) -> <<"video">>
      [] OTHER -> path

IsUpload(request) ==
    /\ request.port = "http" /\ request.method = "POST"
    /\ IsSuffix(<<"uploadFile", "upload">>, request.path)

\* The printer's port the request is forwarded to.
ForwardPort(request) ==
    CASE request.port = "video" -> "video"
      [] IsUpload(request) -> "http"
      [] OTHER -> IF Cleaned(request.path)[1] = "video" THEN "video" ELSE "http"

\* Registered printers the request names anywhere.
Named(request) ==
    ({request.query, request.referer} \union Range(FallbackIds(request.path))) \intersect Range(registry)

Request(request) ==
    /\ Idle /\ body = NoBody
    /\ IF ~serving \/ registry = <<>>
       THEN http' = [stage |-> "refused"]
       ELSE http' = [stage |-> "asked", target |-> Target(request),
                     path |-> Cleaned(request.path), port |-> ForwardPort(request),
                     named |-> Named(request),
                     rewrites |-> request.port = "http" /\ request.method = "GET"]
    /\ UNCHANGED <<registry, serving, quiet, body, ws>>

\* The printer answers; a script got from its HTTP port is rewritten.
UpstreamAnswers(content) ==
    /\ http.stage = "asked" /\ serving
    /\ http' = [stage |-> "streaming", target |-> http.target, content |-> content,
                 rewrites |-> http.rewrites]
    /\ body' = [NoBody EXCEPT !.rest = content]
    /\ UNCHANGED <<registry, serving, quiet, ws>>

UpstreamFails ==
    /\ http.stage = "asked"
    /\ http' = [stage |-> "refused"]
    /\ UNCHANGED <<registry, serving, quiet, body, ws>>

\* get_local_ip()
LocalIp(printer) == IF printer \in Clashing THEN Address \o <<"z">> ELSE <<"z">>

Occurs(token, text, k) ==
    k \in 1..(Len(text) - 2) /\ \A j \in 1..3 : text[k + j - 1] = token[j]

\* A token has begun in what is written and ends in what is yet to come.
Cuts(token, written, previous, rest) ==
    \E k \in 1..Len(written) :
        /\ Occurs(token, written \o previous \o rest, k)
        /\ k + 2 > Len(written \o previous)

\* _process_replacements: addresses first, then URLs, these only in a text in
\* which no URL has its id yet.
Joined(done, s, local) ==
    LET text == Append(done, s) IN
    IF Occurs(Address, text, Len(text) - 2) THEN SubSeq(text, 1, Len(text) - 3) \o local ELSE text

Continued(done, text, local) ==
    LET f[n \in 0..Len(text)] == IF n = 0 THEN done ELSE Joined(f[n - 1], text[n], local)
    IN  f[Len(text)]

ReplaceAddresses(text, local) == Continued(<<>>, text, local)

ReplaceUrls(text) == [k \in DOMAIN text |-> IF Occurs(Url, text, k - 2) THEN "i" ELSE text[k]]

Replace(text, local) ==
    LET replaced == ReplaceAddresses(text, local)
    IN IF "i" \in Range(replaced) THEN replaced ELSE ReplaceUrls(replaced)

\* Mutant: the first chunk counts as searched; only the new one is.
RewriteChunkOnly(chunk) ==
    IF body.previous = <<>> THEN [body EXCEPT !.previous = chunk]
    ELSE LET replaced == body.previous \o Replace(chunk, LocalIp(http.target))
             half == Len(replaced) \div 2
         IN [body EXCEPT !.written = @ \o SubSeq(replaced, 1, half),
                         !.previous = SubSeq(replaced, half + 1, Len(replaced))]

\* The first chunk is kept back as it is; then half of what was rewritten is.
Rewrite(chunk) ==
    IF body.previous = <<>> THEN [body EXCEPT !.previous = chunk]
    ELSE LET replaced == Replace(body.previous \o chunk, LocalIp(http.target))
             half == Len(replaced) \div 2
         IN [body EXCEPT !.written = @ \o SubSeq(replaced, 1, half),
                         !.previous = SubSeq(replaced, half + 1, Len(replaced))]

Chunk(n) ==
    /\ http.stage = "streaming" /\ serving /\ n <= Len(body.rest)
    /\ LET chunk == SubSeq(body.rest, 1, n)
           rest == SubSeq(body.rest, n + 1, Len(body.rest))
           passed == IF http.rewrites THEN Rewrite(chunk)
                     ELSE [body EXCEPT !.written = @ \o chunk]
       IN body' = [passed EXCEPT !.rest = rest, !.chunks = @ + 1,
                     !.split = @ \/ \E token \in {Address, Url} :
                                   Cuts(token, passed.written, passed.previous, rest)]
    /\ UNCHANGED <<registry, serving, quiet, http, ws>>

EndOfBody ==
    /\ http.stage = "streaming" /\ body.rest = <<>>
    /\ body' = [body EXCEPT !.written = @ \o body.previous, !.previous = <<>>]
    /\ http' = [http EXCEPT !.stage = "complete"]
    /\ UNCHANGED <<registry, serving, quiet, ws>>

\* Either end is lost, or the server is stopped.
StreamBreaks ==
    /\ http.stage = "streaming"
    /\ http' = [http EXCEPT !.stage = "cut"]
    /\ UNCHANGED <<registry, serving, quiet, body, ws>>
-----------------------------------------------------------------------------
(***************************************************************************)
(* A WebSocket session: one task per printer's messages, and one for the   *)
(* client's.                                                               *)
(***************************************************************************)
proxy == <<registry, serving, quiet, http, body>>

OpenSession(id) ==
    /\ Idle /\ serving
    /\ ws' = [NoSession EXCEPT
                 !.stage = "connecting",
                 !.dial = IF id = NoId THEN registry ELSE IF Registered(id) THEN <<id>> ELSE <<>>]
    /\ UNCHANGED proxy

\* One printer after the other; one that cannot be reached is left out.
Dial ==
    /\ ws.stage = "connecting" /\ ws.dial # <<>>
    /\ \/ /\ serving
          /\ LET p == Head(ws.dial) IN
             ws' = [ws EXCEPT !.dial = Tail(@), !.conns = Append(@, p), !.up = @ \union {p}]
       \/ ws' = [ws EXCEPT !.dial = Tail(@)]
    /\ UNCHANGED proxy

\* The connections are forgotten and the client's socket is closed.
CleanedUp == [ws EXCEPT !.stage = "closed", !.conns = <<>>, !.inbox = <<>>,
                      !.client = "ended", !.to = <<>>]

StartRouting ==
    /\ ws.stage = "connecting" /\ ws.dial = <<>>
    /\ ws' = IF ws.conns = <<>> THEN CleanedUp
             ELSE [ws EXCEPT !.stage = "open", !.started = Range(ws.conns)]
    /\ UNCHANGED proxy

\* A message names a printer in its topic, or no printer the proxy knows.
ClientSends(id) ==
    /\ ws.stage = "open" /\ ~ws.left /\ Len(ws.log) < MaxMessages
    /\ LET message == [n |-> Len(ws.log) + 1, id |-> id] IN
       ws' = [ws EXCEPT !.log = Append(@, message), !.inbox = Append(@, message)]
    /\ UNCHANGED proxy

ClientLeaves ==
    /\ ws.stage = "open" /\ ~ws.left
    /\ ws' = [ws EXCEPT !.left = TRUE]
    /\ UNCHANGED proxy

\* The printer closes the connection, or stop() closes the client session.
PrinterCloses(p) ==
    /\ ws.stage = "open" /\ p \in ws.up
    /\ ws' = [ws EXCEPT !.up = @ \ {p}]
    /\ UNCHANGED proxy

\* The task of p's messages ends, also when its client has left; its finally
\* takes the connection out of printer_connections.
PrinterTaskEnds(p) ==
    /\ ws.stage = "open" /\ p \in Range(ws.conns) /\ (p \notin ws.up \/ ws.left)
    /\ ws' = [ws EXCEPT !.conns = Only(@, Printers \ {p})]
    /\ UNCHANGED proxy

\* Mutant: the topic is not looked at.
DestinationsAll(message) == ws.conns

\* To the printer named by the topic; to all, if that one has no connection.
Destinations(message) ==
    IF message.id \in Range(ws.conns) THEN <<message.id>> ELSE ws.conns

TakeMessage ==
    /\ ws.stage = "open" /\ ws.client = "reading" /\ ws.inbox # <<>>
    /\ ws' = [ws EXCEPT !.client = "sending", !.to = Destinations(Head(ws.inbox)),
                        !.snapshot = ws.conns]
    /\ UNCHANGED proxy

\* A send to a connection that is closed ends the task.
SendToPrinter ==
    /\ ws.stage = "open" /\ ws.client = "sending" /\ ws.to # <<>>
    /\ LET p == Head(ws.to) IN
       ws' = IF p \in ws.up
             THEN [ws EXCEPT !.to = Tail(@), !.reached[p] = Append(@, Head(ws.inbox))]
             ELSE [ws EXCEPT !.client = "ended", !.to = <<>>]
    /\ UNCHANGED proxy

\* A broadcast iterates over the very dictionary the printers' tasks take from.
MessageSent ==
    /\ ws.stage = "open" /\ ws.client = "sending" /\ ws.to = <<>>
    /\ LET broadcast == Head(ws.inbox).id \notin Range(ws.snapshot) IN
       ws' = [ws EXCEPT !.inbox = Tail(@),
                        !.client = IF broadcast /\ ws.conns # ws.snapshot THEN "ended"
                                   ELSE "reading"]
    /\ UNCHANGED proxy

ClientTaskEnds ==
    /\ ws.stage = "open" /\ ws.client = "reading" /\ ws.left /\ ws.inbox = <<>>
    /\ ws' = [ws EXCEPT !.client = "ended"]
    /\ UNCHANGED proxy

SomeTaskEnded == ws.client = "ended" \/ Range(ws.conns) # ws.started

\* Mutant: the handler waits for all tasks.
CloseSessionLast ==
    /\ ws.stage = "open" /\ ws.client = "ended" /\ ws.conns = <<>>
    /\ ws' = CleanedUp
    /\ UNCHANGED proxy

\* With the first task that ends, the others are cancelled and the client is
\* closed; the connections to the printers are not.
CloseSession ==
    /\ ws.stage = "open" /\ SomeTaskEnded
    /\ ws' = CleanedUp
    /\ UNCHANGED proxy
-----------------------------------------------------------------------------
\* The printer or the client is done with an exchange; a new one may begin.
Forget ==
    /\ http.stage \in {"announced", "complete", "cut", "refused"} \/ ws.stage = "closed"
    /\ http' = NoExchange /\ body' = NoBody /\ ws' = NoSession
    /\ UNCHANGED <<registry, serving, quiet>>

SessionStep ==
    \/ Dial \/ StartRouting \/ TakeMessage \/ SendToPrinter \/ MessageSent
    \/ ClientTaskEnds \/ CloseSession
    \/ \E p \in Printers : PrinterTaskEnds(p)

Environment ==
    \/ \E p \in Printers : AddPrinter(p) \/ RemovePrinter(p) \/ PrinterCloses(p)
    \/ StopServer \/ DiscoveryRequest \/ RateLimitEnds
    \/ \E id \in MayBeId : OpenSession(id)
    \/ \E id \in Ids : ClientSends(id)
    \/ ClientLeaves \/ Forget
    \/ \E request \in Requests : Request(request)

Exchange ==
    \/ \E content \in Contents : UpstreamAnswers(content)
    \/ \E n \in 1..Len(body.rest) : Chunk(n)
    \/ UpstreamFails \/ EndOfBody \/ StreamBreaks

RoutingNext == SessionStep \/ Environment \/ Exchange

\* The tasks of a session run.
RoutingFairness == WF_routingVars(SessionStep)

RoutingSpec == RoutingInit /\ [][RoutingNext]_routingVars
RoutingFairSpec == RoutingSpec /\ RoutingFairness

-----------------------------------------------------------------------------
\* A request that names one registered printer, wherever it names it, goes to
\* that printer; what an unregistered id leaves undecided goes to the oldest one.
NamedPrinterIsServed ==
    http.stage = "asked" =>
        \A p \in Printers : http.named = {p} => http.target = p

\* What a script is, whatever has been replaced in it.
Plain(text) == [k \in DOMAIN text |-> IF text[k] = "i" THEN "w" ELSE text[k]]
Meaning(text) == Plain(ReplaceAddresses(text, <<"z">>))

Includes(text, token) == \E k \in DOMAIN text : Occurs(token, text, k)

\* Rewriting a script on its way loses, repeats and reorders nothing, wherever
\* the printer's chunks end, also inside an address or a URL; unless the proxy's
\* own address begins with the printer's.  Every address is replaced, and one URL
\* at least, unless the half that is written ends inside one whose end has not
\* come yet, or the whole script came as one chunk, which is not rewritten.
ScriptArrives ==
    http.stage \in {"streaming", "complete"} /\ http.target \notin Clashing =>
        /\ Meaning(body.written \o body.previous \o body.rest) = Meaning(http.content)
        /\ http.stage = "complete" =>
              /\ body.rest = <<>> /\ body.previous = <<>>
              /\ http.rewrites /\ body.chunks > 1 /\ ~body.split =>
                    /\ ~Includes(body.written, Address)
                    /\ Includes(body.written, Url) => "i" \in Range(body.written)

Handled == SubSeq(ws.log, 1, Len(ws.log) - Len(ws.inbox))
For(p, messages) == Only(messages, {m \in Messages : m.id = p})

\* While printers come and go in a session, a printer that stays connected gets
\* every message that names it, once and in order, and none that names another
\* connected printer.  The state is well typed.
SessionRouting ==
    /\ RoutingTypeOK
    /\ ws.stage = "open" /\ ws.client = "reading" =>
          \A p \in Range(ws.conns) :
              /\ For(p, ws.reached[p]) = For(p, Handled)
              /\ \A q \in Range(ws.conns) \ {p} : For(q, ws.reached[p]) = <<>>

\* A session with an ended task does not linger: its client is closed.
SessionEnds == ws.stage = "open" /\ SomeTaskEnded ~> ws.stage # "open"
=============================================================================
