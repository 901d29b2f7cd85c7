----------------------------- MODULE CameraStream -----------------------------
(***************************************************************************)
(* The reference-counted video stream of ElegooStreamCamera (camera.py):   *)
(* the printer's video is switched on for the first viewer and off after   *)
(* the last one, an idle watchdog repeats a failed switch-off, and removal *)
(* of the entity cleans up.                                                *)
(*                                                                         *)
(* Viewers are request handlers: an MJPEG stream (an ffmpeg process) or a  *)
(* still image.  Home Assistant's native stream is counted by a flag that  *)
(* the watchdog clears.  An action is the code between two awaits; the     *)
(* counts are read and written on both sides of awaited printer commands.  *)
(*                                                                         *)
(* Video commands travel to the printer in order over one connection, and  *)
(* their replies come back in order: `ready' is the event loop's queue of  *)
(* tasks whose command is over.  Whether a stream URL is available         *)
(* (capacity, cached URL) is left open at each place that asks for it.     *)
(***************************************************************************)
EXTENDS Naturals, Sequences, FiniteSets, SequencesExt

CONSTANTS
    Viewers,    \* request handlers
    NoTask,     \* nobody waits for the reply to a command any more
    Troubles    \* bound: what may go wrong, in sequences of faults

FaultKinds == {"refuse", "lose", "late", "link", "cancel"}

ASSUME ConstantsAssumption ==
    /\ IsFiniteSet(Viewers)
    /\ Viewers \intersect {"native", "watchdog", "removal"} = {}
    /\ NoTask \notin Viewers \union {"native", "watchdog", "removal"}
    /\ \A t \in Troubles : t \in Seq(FaultKinds)

VARIABLES
    video,      \* the printer: is its video on?
    commands,   \* video commands on their way to the printer
    connected,  \* the client: is_connected
    success,    \* the client: printer_data.video.status is SUCCESS
    ready,      \* tasks to resume: answered, or with an exception
    faults,     \* what has gone wrong so far
    enabled,    \* _stream_enabled
    streams,    \* _active_mjpeg_streams
    transient,  \* _transient_viewers
    native,     \* _native_stream_active
    touched,    \* _last_activity > 0
    kind,       \* kind[v]: what viewer v is looking at
    pc          \* where each task is suspended

printer == <<video, connected, success, faults>>
counts == <<streams, transient, native>>
vars == <<printer, commands, ready, enabled, counts, touched, kind, pc>>

Tasks == Viewers \union {"native", "watchdog", "removal"}
Commands == [task : Tasks \union {NoTask}, on : BOOLEAN]

TypeOK ==
    /\ video \in BOOLEAN /\ connected \in BOOLEAN /\ success \in BOOLEAN
    /\ commands \in Seq(Commands)
    /\ ready \in Seq([task : Tasks, answered : BOOLEAN])
    /\ faults \in Troubles \union {<<>>}
    /\ enabled \in BOOLEAN
    /\ streams \in 0..Cardinality(Viewers)
    /\ transient \in 0..Cardinality(Viewers)
    /\ native \in BOOLEAN /\ touched \in BOOLEAN
    /\ kind \in [Viewers -> {"mjpeg", "image"}]
    /\ pc \in [Tasks -> {"idle", "enabling", "opening", "viewing", "closing",
                         "disabling", "done"}]

\* An ElegooVideo that has heard nothing says SUCCESS.
Init ==
    /\ video = FALSE /\ connected = TRUE /\ success = TRUE /\ faults = <<>>
    /\ commands = <<>> /\ ready = <<>>
    /\ enabled = FALSE
    /\ streams = 0 /\ transient = 0 /\ native = FALSE /\ touched = FALSE
    /\ kind = [v \in Viewers |-> "mjpeg"]
    /\ pc = [t \in Tasks |-> "idle"]

HasActiveViewers == streams > 0 \/ transient > 0 \/ native
Removed == pc["removal"] # "idle"
Goto(t, where) == pc' = [pc EXCEPT ![t] = where]
-----------------------------------------------------------------------------
(***************************************************************************)
(* Commands, the printer, and the way to it.                               *)
(***************************************************************************)
Send(t, on, where) ==
    /\ commands' = Append(commands, [task |-> t, on |-> on])
    /\ Goto(t, where)

Outcome(t, ok) == IF t = NoTask THEN <<>> ELSE <<[task |-> t, answered |-> ok]>>

\* Nobody listens for the reply to t's command any more.
Abandon(t) ==
    [i \in DOMAIN commands |->
        IF commands[i].task = t THEN [commands[i] EXCEPT !.task = NoTask]
                                ELSE commands[i]]

\* t, which waits for one reply at a time, is not resumed any more.
Forget(t) ==
    \/ \E i \in DOMAIN ready : ready[i].task = t /\ ready' = RemoveAt(ready, i)
    \/ (\A i \in DOMAIN ready : ready[i].task # t) /\ UNCHANGED ready

\* Task t resumes in _ensure_stream_enabled or _disable_stream.
Resume(t) ==
    /\ ready # <<>> /\ Head(ready).task = t
    /\ ready' = Tail(ready)

\* Only an exception counts as a failure of a switch-off; what a switch-on came
\* to is read from the latest video reply.
EnabledAfterOn == enabled \/ (Head(ready).answered /\ success)
EnabledAfterOff == enabled /\ ~Head(ready).answered

Fault(f) == faults' = Append(faults, f) /\ faults' \in Troubles

Replies(ok) ==
    /\ connected /\ commands # <<>>
    /\ success' = ok
    /\ ready' = ready \o Outcome(Head(commands).task, TRUE)
    /\ commands' = Tail(commands)
    /\ UNCHANGED <<connected, enabled, counts, touched, kind, pc>>

PrinterObeys ==
    /\ Replies(TRUE)
    /\ video' = Head(commands).on
    /\ UNCHANGED faults

PrinterRefuses ==
    /\ Replies(FALSE)
    /\ Fault("refuse")
    /\ UNCHANGED video

\* The client gives up; the command is lost, or still carried out later.
CommandTimesOut(i) ==
    /\ commands[i].task # NoTask
    /\ ready' = ready \o Outcome(commands[i].task, FALSE)
    /\ \/ /\ Fault("late")
          /\ commands' = [commands EXCEPT ![i].task = NoTask]
       \/ /\ Fault("lose")
          /\ commands' = RemoveAt(commands, i)
    /\ UNCHANGED <<video, connected, success, enabled, counts, touched, kind, pc>>

\* Some of the commands on their way have been carried out.
LinkBreaks ==
    /\ Fault("link")
    /\ connected
    /\ connected' = FALSE
    /\ video' \in {video} \union {commands[i].on : i \in DOMAIN commands}
    /\ UNCHANGED <<commands, success, ready, enabled, counts, touched, kind, pc>>

\* connect_printer begins with disconnect, which releases everybody who waits
\* for a reply as if it had come.
Released(cmds) ==
    LET first[n \in 0..Len(cmds)] ==
            IF n = 0 THEN <<>> ELSE first[n - 1] \o Outcome(cmds[n].task, TRUE)
    IN  first[Len(cmds)]

Reconnect ==
    /\ ~connected
    /\ connected' = TRUE
    /\ ready' = ready \o Released(commands)
    /\ commands' = <<>>
    /\ UNCHANGED <<video, success, faults, enabled, counts, touched, kind, pc>>
-----------------------------------------------------------------------------
(***************************************************************************)
(* Viewers.                                                                *)
(***************************************************************************)

\* `if not _has_active_viewers(): await _disable_stream()', with the counts and
\* the flag as the step leaves them.
DisableIfLast(t, next) ==
    IF enabled' /\ ~HasActiveViewers' /\ connected
    THEN Send(t, FALSE, "disabling")
    ELSE Goto(t, next) /\ UNCHANGED commands

\* From _get_stream_url on.  A still image counts itself before it asks for the
\* URL, an MJPEG stream only once its ffmpeg process runs.
Enter(v, k) ==
    /\ UNCHANGED <<printer, streams, native, touched>>
    /\ \/ /\ connected
          /\ transient' = IF k = "image" THEN transient + 1 ELSE transient
          /\ Goto(v, IF k = "image" THEN "viewing" ELSE "opening")
          /\ UNCHANGED commands
       \/ UNCHANGED transient /\ DisableIfLast(v, "idle")

Arrive(v) ==
    /\ pc[v] = "idle"
    /\ ~Removed
    /\ UNCHANGED <<ready, enabled>>
    /\ \E k \in {"mjpeg", "image"} :
          /\ kind' = [kind EXCEPT ![v] = k]
          /\ IF HasActiveViewers \/ enabled \/ ~connected
             THEN Enter(v, k)
             ELSE Send(v, TRUE, "enabling") /\ UNCHANGED <<printer, counts, touched>>

\* _ensure_stream_enabled returns; a failure is logged and ignored.
EnableReturns(v) ==
    /\ pc[v] = "enabling"
    /\ Resume(v)
    /\ enabled' = EnabledAfterOn
    /\ Enter(v, kind[v])
    /\ UNCHANGED kind

Opened(v) ==
    /\ pc[v] = "opening"
    /\ streams' = streams + 1
    /\ touched' = TRUE
    /\ Goto(v, "viewing")
    /\ UNCHANGED <<printer, commands, ready, enabled, transient, native, kind>>

Decrement(n) == IF n = 0 THEN 0 ELSE n - 1

\* Mutant: a still image forgets to count itself out.
LeaveWithoutDecrement(v) ==
    /\ pc[v] = "viewing"
    /\ UNCHANGED <<printer, ready, enabled, native, transient, touched, kind>>
    /\ \/ /\ kind[v] = "mjpeg"
          /\ streams' = Decrement(streams)
          /\ Goto(v, "closing")
          /\ UNCHANGED commands
       \/ /\ kind[v] = "image"
          /\ UNCHANGED streams
          /\ DisableIfLast(v, "idle")

\* The stream or the image grab ended: the finally clause up to its first await.
Leave(v) ==
    /\ pc[v] = "viewing"
    /\ UNCHANGED <<printer, ready, enabled, native, touched, kind>>
    /\ \/ /\ kind[v] = "mjpeg"
          /\ streams' = Decrement(streams)
          /\ Goto(v, "closing")
          /\ UNCHANGED <<commands, transient>>
       \/ /\ kind[v] = "image"
          /\ transient' = Decrement(transient)
          /\ UNCHANGED streams
          /\ DisableIfLast(v, "idle")

\* ffmpeg has been closed.
Closed(v) ==
    /\ pc[v] = "closing"
    /\ UNCHANGED <<printer, ready, enabled, counts, touched, kind>>
    /\ DisableIfLast(v, "idle")

\* Mutant: the flag is cleared although the command failed.
DisableReturnsRegardless(v) ==
    /\ pc[v] = "disabling"
    /\ Resume(v)
    /\ enabled' = FALSE
    /\ Goto(v, "idle")
    /\ UNCHANGED <<printer, commands, counts, touched, kind>>

\* _disable_stream returns to a viewer, which is done.
DisableReturns(v) ==
    /\ pc[v] = "disabling"
    /\ Resume(v)
    /\ enabled' = EnabledAfterOff
    /\ Goto(v, "idle")
    /\ UNCHANGED <<printer, commands, counts, touched, kind>>

\* The request is cancelled (its client went away).  Inside open_camera the
\* finally clause counts out a stream that has not been counted yet; elsewhere
\* nothing follows.
Cancelled(v) ==
    /\ Fault("cancel")
    /\ commands' = Abandon(v)
    /\ Forget(v)
    /\ \/ /\ pc[v] \in {"enabling", "closing", "disabling"}
          /\ Goto(v, "idle")
          /\ UNCHANGED streams
       \/ /\ pc[v] = "opening"
          /\ streams' = Decrement(streams)
          /\ Goto(v, "closing")
    /\ UNCHANGED <<video, connected, success, enabled, transient, native, touched, kind>>
-----------------------------------------------------------------------------
(***************************************************************************)
(* The native stream, the watchdog and the removal of the entity.          *)
(***************************************************************************)

\* The end of stream_source: without a URL the time of the last activity is not
\* set.
NativeOn(on) ==
    /\ native' = (native \/ on)
    /\ touched' \in {touched, touched \/ (on /\ connected)}
    /\ UNCHANGED <<printer, streams, transient, kind>>

StreamSource ==
    /\ pc["native"] = "idle"
    /\ ~Removed
    /\ UNCHANGED <<ready, enabled>>
    /\ \/ /\ native \/ enabled
          /\ NativeOn(TRUE)
          /\ UNCHANGED <<commands, pc>>
       \/ /\ ~native /\ ~enabled /\ connected
          /\ Send("native", TRUE, "enabling")
          /\ UNCHANGED <<printer, counts, touched, kind>>

NativeEnableReturns ==
    /\ pc["native"] = "enabling"
    /\ Resume("native")
    /\ enabled' = EnabledAfterOn
    /\ NativeOn(enabled')
    /\ Goto("native", "idle")
    /\ UNCHANGED commands

\* The second half of a watchdog tick: a native stream that has been idle for
\* NATIVE_STREAM_IDLE_TIMEOUT is given up.
ExpireNative ==
    /\ native' \in {native, native /\ ~touched}
    /\ UNCHANGED <<printer, streams, transient, touched, kind>>

\* Mutant: the tick only looks after the native stream.
WatchdogTickWithoutRetry ==
    /\ pc["watchdog"] = "idle"
    /\ ExpireNative
    /\ UNCHANGED <<commands, ready, enabled, pc>>

WatchdogTick ==
    /\ pc["watchdog"] = "idle"
    /\ UNCHANGED <<ready, enabled>>
    /\ IF enabled /\ ~HasActiveViewers /\ connected
       THEN /\ Send("watchdog", FALSE, "disabling")
            /\ UNCHANGED <<printer, counts, touched, kind>>
       ELSE ExpireNative /\ UNCHANGED <<commands, pc>>

WatchdogDisableReturns ==
    /\ pc["watchdog"] = "disabling"
    /\ Resume("watchdog")
    /\ enabled' = EnabledAfterOff
    /\ ExpireNative
    /\ Goto("watchdog", "idle")
    /\ UNCHANGED commands

\* async_will_remove_from_hass: running ffmpeg processes are closed first.
RemoveStart ==
    /\ ~Removed
    /\ Goto("removal", "closing")
    /\ UNCHANGED <<printer, commands, ready, enabled, counts, touched, kind>>

\* _cleanup_video_lifecycle: the watchdog is cancelled, also in the middle of a
\* command, the counts are reset, and the video is switched off.
RemoveFinish ==
    /\ pc["removal"] = "closing"
    /\ streams' = 0 /\ transient' = 0 /\ native' = FALSE
    /\ Forget("watchdog")
    /\ LET off == enabled /\ connected
       IN /\ commands' = Abandon("watchdog")
                 \o IF off THEN <<[task |-> "removal", on |-> FALSE]>> ELSE <<>>
          /\ pc' = [pc EXCEPT !["watchdog"] = "done",
                              !["removal"] = IF off THEN "disabling" ELSE "done"]
    /\ UNCHANGED <<printer, enabled, touched, kind>>

RemoveDisableReturns ==
    /\ pc["removal"] = "disabling"
    /\ Resume("removal")
    /\ enabled' = EnabledAfterOff
    /\ Goto("removal", "done")
    /\ UNCHANGED <<printer, commands, counts, touched, kind>>

ViewerStep(v) ==
    EnableReturns(v) \/ Opened(v) \/ Closed(v) \/ DisableReturns(v)

Next ==
    \/ PrinterObeys \/ PrinterRefuses \/ LinkBreaks \/ Reconnect
    \/ \E i \in DOMAIN commands : CommandTimesOut(i)
    \/ \E v \in Viewers : Arrive(v) \/ ViewerStep(v) \/ Leave(v) \/ Cancelled(v)
    \/ StreamSource \/ NativeEnableReturns
    \/ WatchdogTick \/ WatchdogDisableReturns
    \/ RemoveStart \/ RemoveFinish \/ RemoveDisableReturns

\* The printer takes the commands it gets, the coordinator reconnects, tasks
\* that can run do run, ffmpeg starts and stops in bounded time, and the
\* watchdog ticks.  Nobody has to arrive, and nobody has to leave.
Fairness ==
    /\ WF_vars(PrinterObeys) /\ WF_vars(Reconnect)
    /\ \A v \in Viewers : WF_vars(ViewerStep(v))
    /\ WF_vars(NativeEnableReturns)
    /\ WF_vars(WatchdogTick \/ WatchdogDisableReturns)
    /\ WF_vars(RemoveFinish \/ RemoveDisableReturns)

Spec == Init /\ [][Next]_vars
FairSpec == Spec /\ Fairness

-----------------------------------------------------------------------------
OnlyFaults(F) == \A i \in DOMAIN faults : faults[i] \in F
Watching(k) == {v \in Viewers : pc[v] = "viewing" /\ kind[v] = k}

\* The counters count the viewers: each one that is looking is counted once,
\* whatever the others do while it waits for the printer or for ffmpeg; unless
\* a request was cancelled (_handle_mjpeg_stream, async_camera_image).  Removing
\* the entity resets the counters.  The state is well typed.
CountsViewers ==
    /\ TypeOK
    /\ ~Removed /\ OnlyFaults(FaultKinds \ {"cancel"}) =>
          /\ streams = Cardinality(Watching("mjpeg"))
          /\ transient = Cardinality(Watching("image"))

\* No stream is left on without anybody knowing, however many commands were
\* lost: when everybody has gone, no command is under way and the printer's
\* video is on, _stream_enabled says so, and the watchdog will switch it off.
\* An orphaned stream occupies one of the printer's few slots until the printer
\* is rebooted.
NoOrphanStream ==
    /\ video /\ ~native /\ \A v \in Viewers : pc[v] = "idle"
    /\ commands = <<>> /\ ready = <<>>
    /\ OnlyFaults({"lose"})
    => enabled

\* A stream nobody watches is switched off, whatever goes wrong with the
\* commands at first: the watchdog tries again.
IdleStreamSwitchedOff ==
    (enabled /\ ~HasActiveViewers) ~> (~enabled \/ HasActiveViewers \/ Removed)
=============================================================================
