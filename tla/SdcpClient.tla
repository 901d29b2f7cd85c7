------------------------------ MODULE SdcpClient ------------------------------
(***************************************************************************)
(* The client of an SDCP printer, over a WebSocket or over MQTT: commands  *)
(* matched to their replies by request id, the listener that stores what   *)
(* the printer sends, the connection that a poll of the coordinator opens  *)
(* and the unloading of the entry closes, and, over the WebSocket, the     *)
(* filament data of the present job, fetched from the gcode proxy.         *)
(*                                                                         *)
(* Polls of an entry do not overlap.  Each of the callers sends one        *)
(* command; a command that is over leaves its reply to Nobody.  The        *)
(* printer keeps one finished task, and its replies are told apart only by *)
(* what they make the client store.  What is on the way when the           *)
(* connection is lost is lost with it.                                     *)
(***************************************************************************)
EXTENDS Naturals, FiniteSets

CONSTANTS
    Callers,        \* entities, the camera, the coordinator: one command each
    Nobody,         \* the owner of a command that is over
    AskedBy,        \* what each caller may ask the printer for
    MaxJobs         \* bound: print jobs reported by the printer

ASSUME ConstantsAssumption ==
    /\ Nobody \notin Callers /\ Callers \cap {"poll", "unload"} = {}
    /\ AskedBy \in [Callers -> SUBSET {"detail", "list"}]
    /\ MaxJobs \in Nat

VARIABLES
    wire,       \* which of the two clients this is
    isConnected,\* _is_connected
    link,       \* printer_websocket or mqtt_client, and whether it is alive
    listening,  \* the listener task runs
    cmd,        \* each sender's command: its step, what woke it, the reply given
    frames,     \* commands and replies on the way
    waking,     \* senders whose event a background task is about to set
    history,    \* print_history of the finished task
    poll,       \* the step of connect_printer
    unload,     \* the step of disconnect, when the entry is unloaded
    job,        \* the job of the last status frame
    filament    \* gcode_filament_data, the _gcode_filament_* fields, the fetches

connection == <<isConnected, link, listening>>
commands == <<cmd, frames, waking>>
steps == <<poll, unload>>
jobs == <<job, filament>>
vars == <<wire, connection, commands, history, steps, jobs>>

Senders == Callers \union {"poll", "unload"}
Asks == {"detail", "list", "other"}
\* A printer that has forgotten the task answers with nothing.
Replies == Asks \union {"nothing"}
Frames == [to : Senders \union {Nobody}, is : {"ask", "reply"}, what : Replies]
Fresh == [step |-> "idle", woken |-> "no", given |-> "nothing yet"]
Outcomes == {"idle", "waiting", "returned", "timeout", "connection_error"}
Jobs == 0..MaxJobs

TypeOK ==
    /\ wire \in {"ws", "mqtt"} /\ isConnected \in BOOLEAN /\ listening \in BOOLEAN
    /\ link \in {"none", "opening", "up", "down"}
    /\ cmd \in [Senders -> [step : Outcomes, woken : {"no", "answer", "closed"},
                            given : Replies \union {"nothing yet"}]]
    /\ frames \subseteq Frames /\ waking \subseteq Senders
    /\ history \in {"unknown", "listed", "detailed"}
    /\ poll \in {"idle", "waiting", "dialing", "hello1", "hello2", "hello3"}
    /\ unload \in {"idle", "goodbye", "done"}
    /\ job \in Jobs
    /\ filament \in [shown : Jobs, fetched : Jobs, tried : Jobs, recent : BOOLEAN,
                     fetching : SUBSET Jobs]
    \* nothing is under way for a command that is over
    /\ \A f \in frames : f.to # Nobody => cmd[f.to].step = "waiting"
    /\ \A p \in waking : cmd[p].step = "waiting"

Init ==
    /\ wire \in {"ws", "mqtt"}
    /\ isConnected = FALSE /\ link = "none" /\ listening = FALSE
    /\ cmd = [p \in Senders |-> Fresh] /\ frames = {} /\ waking = {}
    /\ history = "unknown" /\ poll = "idle" /\ unload = "idle" /\ job = 0
    /\ filament = [shown |-> 0, fetched |-> 0, tried |-> 0, recent |-> FALSE, fetching |-> {}]
-----------------------------------------------------------------------------
(***************************************************************************)
(* Commands.                                                               *)
(***************************************************************************)
TransportOpen == IF wire = "ws" THEN link = "up" ELSE link # "none"
Connected == isConnected /\ TransportOpen

\* The printer's late reply finds no waiter, but is stored all the same.
Orphaned(F, p) ==
    {f \in F : f.to # p} \union
    {[f EXCEPT !.to = Nobody] : f \in {g \in F : g.to = p /\ g.what \notin {"other", "nothing"}}}

Finish(p, how) ==
    /\ cmd' = [cmd EXCEPT ![p] = IF p \in Callers THEN [@ EXCEPT !.step = how] ELSE Fresh]
    /\ frames' = Orphaned(frames, p)
    /\ waking' = waking \ {p}

\* Only a caller's outcome matters after the call.
Refused(p, how) ==
    /\ cmd' = [cmd EXCEPT ![p].step = IF p \in Callers THEN how ELSE "idle"]
    /\ UNCHANGED <<frames, waking>>

\* The event is registered and the frame published, which may be in vain.
Publish(p, what) ==
    /\ cmd' = [cmd EXCEPT ![p].step = "waiting"]
    /\ \/ /\ link = "up"
          /\ frames' = frames \union {[to |-> p, is |-> "ask", what |-> what]}
       \/ UNCHANGED frames
    /\ UNCHANGED <<waking, connection>>
PublishFails(p) ==
    /\ Refused(p, "connection_error")
    /\ isConnected' = FALSE
    /\ UNCHANGED <<link, listening>>

\* A call of _send_printer_cmd.  A task whose detail is cached asks nothing,
\* and the MQTT client does not ask for the list of tasks.
Call(c, what) ==
    /\ cmd[c].step = "idle" /\ what \in AskedBy[c]
    /\ what = "detail" => history # "detailed"
    /\ what = "list" => wire = "ws"
    /\ \/ ~Connected /\ Refused(c, "connection_error") /\ UNCHANGED connection
       \/ Connected /\ Publish(c, what)
       \/ Connected /\ PublishFails(c)
    /\ UNCHANGED <<wire, history, steps, jobs>>

\* The event is set by the reply, or by a disconnect: either way the command
\* returns.  The senders' fields are updated in their own steps below.
Woken(p) == cmd[p].step = "waiting" /\ cmd[p].woken # "no"
Silent(p) == cmd[p].step = "waiting" /\ cmd[p].woken = "no"

Return(c) ==
    /\ Woken(c) /\ Finish(c, "returned")
    /\ UNCHANGED <<wire, connection, history, steps, jobs>>
\* Mutant: a wait is bounded only once the connection is known to be lost.
TimesOutIfLost(c) ==
    /\ ~isConnected /\ Silent(c) /\ Finish(c, "timeout")
    /\ UNCHANGED <<wire, connection, history, steps, jobs>>
TimesOut(c) ==
    /\ Silent(c) /\ Finish(c, "timeout")
    /\ UNCHANGED <<wire, connection, history, steps, jobs>>
-----------------------------------------------------------------------------
(***************************************************************************)
(* The printer and the listener.                                           *)
(***************************************************************************)
PrinterReplies(f) ==
    /\ link = "up" /\ f.is = "ask"
    /\ \E what \in {f.what} \union IF f.what = "detail" THEN {"nothing"} ELSE {} :
          /\ frames' = (frames \ {f}) \union {[f EXCEPT !.is = "reply", !.what = what]}
          /\ cmd' = IF f.to = Nobody THEN cmd ELSE [cmd EXCEPT ![f.to].given = what]
    /\ UNCHANGED <<wire, connection, waking, history, steps, jobs>>

\* Mutant: the list of tasks overwrites the details already fetched.
StoredOver(what) ==
    CASE what = "detail" -> "detailed"
      [] what = "list" -> "listed"
      [] OTHER -> history
\* What the handlers make of print_history.
Stored(what) ==
    CASE what = "detail" -> "detailed"
      [] what = "list" /\ history = "unknown" -> "listed"
      [] OTHER -> history

\* Mutant: a reply wakes whoever waits, without a look at its request id.
WokenByAny(f) == {p \in Senders : Silent(p)}
WokenBy(f) == {f.to} \ {Nobody}

Wake(P) ==
    cmd' = [p \in Senders |-> IF p \in P /\ Silent(p) THEN [cmd[p] EXCEPT !.woken = "answer"]
                              ELSE cmd[p]]

\* The MQTT client sets the event itself, the WebSocket client leaves it to a
\* task; the reply is stored first by both.
Receive(f) ==
    /\ listening /\ link = "up" /\ f.is = "reply"
    /\ frames' = frames \ {f}
    /\ history' = Stored(f.what)
    /\ IF wire = "mqtt" THEN Wake(WokenBy(f)) /\ UNCHANGED waking
       ELSE waking' = waking \union {p \in WokenBy(f) : Silent(p)} /\ UNCHANGED cmd
    /\ UNCHANGED <<wire, connection, steps, jobs>>

SetEvent(p) ==
    /\ p \in waking
    /\ waking' = waking \ {p}
    /\ Wake({p})
    /\ UNCHANGED <<wire, connection, frames, history, steps, jobs>>

LinkBreaks ==
    /\ link = "up"
    /\ link' = "down" /\ frames' = {}
    /\ UNCHANGED <<wire, isConnected, listening, cmd, waking, history, steps, jobs>>

\* Mutant: the end of the stream leaves the flag as it is.
ListenerEndsQuietly ==
    /\ listening /\ link = "down"
    /\ listening' = FALSE
    /\ UNCHANGED <<wire, isConnected, link, commands, history, steps, jobs>>
ListenerEnds ==
    /\ listening /\ link = "down"
    /\ listening' = FALSE /\ isConnected' = FALSE
    /\ UNCHANGED <<wire, link, commands, history, steps, jobs>>
-----------------------------------------------------------------------------
(***************************************************************************)
(* connect_printer, in the coordinator's poll, and disconnect.             *)
(***************************************************************************)
\* Mutant: the waiters are left to their timeouts, in a table nobody reads.
ReleaseNobody(C) == C
\* Waiters are released as if their replies had come.
Release(C) ==
    [p \in Senders |-> IF C[p].step = "waiting" /\ C[p].woken = "no"
                       THEN [C[p] EXCEPT !.woken = "closed"] ELSE C[p]]

\* From the listener's cancellation to the reset of the flag.
Shut(C) ==
    /\ cmd' = Release(C) /\ waking' = {} /\ frames' = {}
    /\ link' = "none" /\ listening' = FALSE /\ isConnected' = FALSE

\* A poll that finds no connection closes what is left of the last; the MQTT
\* client then redirects the printer and gives it time to come to the broker.
Connect ==
    /\ poll = "idle" /\ unload # "done" /\ ~Connected
    /\ Shut(cmd)
    /\ poll' = IF wire = "ws" THEN "dialing" ELSE "waiting"
    /\ UNCHANGED <<wire, history, unload, jobs>>

Open ==
    /\ poll = "waiting"
    /\ poll' = "dialing" /\ link' = "opening"
    /\ UNCHANGED <<wire, isConnected, listening, commands, history, unload, jobs>>

DialSucceeds ==
    /\ poll = "dialing" /\ (wire = "ws" \/ link = "opening")
    /\ link' = "up" /\ isConnected' = TRUE /\ listening' = TRUE
    /\ poll' = IF wire = "ws" THEN "idle" ELSE "hello1"
    /\ UNCHANGED <<wire, commands, history, unload, jobs>>

DialFails ==
    /\ poll = "dialing"
    /\ Shut(cmd)
    /\ poll' = "idle"
    /\ UNCHANGED <<wire, history, unload, jobs>>

NextHello == CASE poll = "hello1" -> "hello2" [] poll = "hello2" -> "hello3" [] OTHER -> "idle"
Greeting == poll \in {"hello1", "hello2", "hello3"}

\* The three commands of the MQTT handshake.  A command that fails raises out
\* of connect_printer, which catches other exceptions only.
Hello ==
    /\ Greeting /\ cmd["poll"].step = "idle"
    /\ \/ ~Connected /\ Refused("poll", "connection_error") /\ UNCHANGED connection /\ poll' = "idle"
       \/ Connected /\ Publish("poll", "other") /\ UNCHANGED poll
       \/ Connected /\ PublishFails("poll") /\ poll' = "idle"
    /\ UNCHANGED <<wire, history, unload, jobs>>

HelloAnswered ==
    /\ Woken("poll") /\ Finish("poll", "returned")
    /\ poll' = NextHello
    /\ UNCHANGED <<wire, connection, history, unload, jobs>>
HelloTimesOut ==
    /\ Silent("poll") /\ Finish("poll", "timeout")
    /\ poll' = "idle"
    /\ UNCHANGED <<wire, connection, history, unload, jobs>>

\* The entry is unloaded; over MQTT the printer is told first.
Disconnect ==
    /\ unload = "idle"
    /\ \/ /\ wire = "mqtt" /\ isConnected /\ link # "none"
          /\ \/ Publish("unload", "other") /\ unload' = "goodbye"
             \/ PublishFails("unload") /\ unload' = "goodbye"
       \/ /\ ~(wire = "mqtt" /\ isConnected /\ link # "none")
          /\ Shut(cmd) /\ unload' = "done"
    /\ UNCHANGED <<wire, history, poll, jobs>>

Disconnected ==
    /\ unload = "goodbye"
    /\ Shut([cmd EXCEPT !["unload"] = Fresh])
    /\ unload' = "done"
    /\ UNCHANGED <<wire, history, poll, jobs>>
-----------------------------------------------------------------------------
(***************************************************************************)
(* Status frames and the filament data of the job (WebSocket).             *)
(***************************************************************************)
\* A job is looked up when its data is not there, at most once in a while.
LooksUp(j) == j # 0 /\ j # filament.fetched /\ ~(j = filament.tried /\ filament.recent)

\* The data of the last job is dropped as the new one's is asked for.
LookUp(j) ==
    [filament EXCEPT !.shown = IF filament.fetched # 0 THEN 0 ELSE @, !.fetched = 0,
                     !.tried = j, !.recent = TRUE, !.fetching = @ \union {j}]

Status(j) ==
    /\ wire = "ws" /\ listening /\ link = "up" /\ j \in {job, job + 1} \cap Jobs
    /\ job' = j
    /\ filament' = IF LooksUp(j) THEN LookUp(j) ELSE filament
    /\ UNCHANGED <<wire, connection, commands, history, steps>>

\* Mutant: what has been fetched is shown but not recorded.
ProxyShows(j) == [filament EXCEPT !.shown = j, !.fetching = @ \ {j}]
ProxyHas(j) == [filament EXCEPT !.shown = j, !.fetched = j, !.fetching = @ \ {j}]

\* The proxy's answer, possibly after the next job has begun.
Fetched(j) ==
    /\ j \in filament.fetching
    /\ \/ filament' = ProxyHas(j)
       \/ filament' = [filament EXCEPT !.fetching = @ \ {j}]
    /\ UNCHANGED <<wire, connection, commands, history, steps, job>>

\* GCODE_PROXY_RETRY_SECONDS have passed, longer than any fetch takes.
RetryIsDue ==
    /\ filament.recent /\ filament.tried \notin filament.fetching
    /\ filament' = [filament EXCEPT !.recent = FALSE]
    /\ UNCHANGED <<wire, connection, commands, history, steps, job>>
-----------------------------------------------------------------------------
Next ==
    \/ \E c \in Callers, what \in {"detail", "list"} : Call(c, what)
    \/ \E c \in Callers : Return(c) \/ TimesOut(c)
    \/ \E f \in frames : PrinterReplies(f) \/ Receive(f)
    \/ \E p \in Senders : SetEvent(p)
    \/ LinkBreaks \/ ListenerEnds
    \/ Connect \/ Open \/ DialSucceeds \/ DialFails
    \/ Hello \/ HelloAnswered \/ HelloTimesOut
    \/ Disconnect \/ Disconnected
    \/ \E j \in Jobs : Status(j) \/ Fetched(j)
    \/ RetryIsDue

Spec == Init /\ [][Next]_vars

(***************************************************************************)
(* A timeout of SDCP_COMMAND_TIMEOUT ends every wait, the listener runs, a *)
(* connected printer reports its status on its own again and again, the    *)
(* fetches end and time passes.  Nothing is assumed of the printer's       *)
(* replies, of polls or of connections.                                    *)
(***************************************************************************)
Fairness ==
    /\ \A c \in Callers : WF_vars(Return(c) \/ TimesOut(c))
    /\ WF_vars(ListenerEnds)
    /\ WF_vars(Status(job))
    /\ WF_vars(\E j \in Jobs : Fetched(j))
    /\ WF_vars(RetryIsDue)
FairSpec == Spec /\ Fairness
-----------------------------------------------------------------------------
\* What is_connected promises: someone reads what the printer sends on the
\* transport the commands go out on, so that a reply that comes is noticed.
ConnectedIsHeard == Connected => listening

\* A caller released by its own reply finds there what the reply brought: the
\* reply is stored before the waiter is woken, and no list of tasks that comes
\* in between takes the details away.
AnswerIsStored ==
    \A c \in Callers :
        cmd[c].woken = "answer" /\ cmd[c].given = "detail" /\ cmd[c].step = "waiting" =>
            history = "detailed"

(***************************************************************************)
(* A command that was sent ends once: with the reply the printer gave to   *)
(* it, with a timeout, or released by a disconnect, never with the reply   *)
(* to another command.  It is the promise of the CC2 client; a command     *)
(* that raised before it was sent is, to it, not issued.                   *)
(***************************************************************************)
Phase(c) ==
    CASE cmd[c].step \in {"idle", "connection_error"} -> "idle"
      [] cmd[c].step = "waiting" -> "open"
      [] OTHER -> "done"
Outcome(c) ==
    IF Phase(c) # "done" THEN [call |-> Nobody, code |-> "pending"]
    ELSE CASE cmd[c].step = "timeout" -> [call |-> Nobody, code |-> "timeout"]
           [] cmd[c].step = "returned" /\ cmd[c].woken = "closed" ->
                  [call |-> Nobody, code |-> "none"]
           [] OTHER -> [call |-> c, code |-> cmd[c].given]
Reply == INSTANCE CommandReply WITH
    Calls <- Callers, Codes <- Replies, NoCall <- Nobody,
    phase <- [c \in Callers |-> Phase(c)],
    answered <- [c \in Callers |-> {cmd[c].given} \intersect Replies],
    outcome <- [c \in Callers |-> Outcome(c)]
RepliesAreOwn == Reply!Spec

\* A disconnect leaves nobody waiting out a timeout for a reply that no
\* listener can hear any more, be it by the unloading, by the poll that clears
\* up after a loss, or by a connection attempt that fails.
NobodyWaitsUnheard == link = "none" => \A c \in Callers : ~Silent(c)

\* Every command returns or raises, whatever the printer does.
CommandsReturn == \A c \in Callers : cmd[c].step = "waiting" ~> cmd[c].step # "waiting"

\* Filament data of an earlier job, left by a fetch that came late, does not
\* stay: while status frames come, it is dropped or replaced.
Stale == filament.shown \notin {0, job}
StaleFilamentGoes == Stale ~> (~Stale \/ ~listening)
=============================================================================
