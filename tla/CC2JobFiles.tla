----------------------------- MODULE CC2JobFiles -----------------------------
(***************************************************************************)
(* Files and jobs of a CC2 printer: the upload_gcode service, which sends  *)
(* a file in ranges under the client's upload lock and may start it; the   *)
(* start_print service and the button, which start what is on the printer; *)
(* and what the client caches about the file of the job that is printing   *)
(* (details, thumbnail, data of the gcode proxy), requested in the         *)
(* background and dropped when the name is used again.                     *)
(*                                                                         *)
(* All files have one name.  The content of a file is which call has       *)
(* written each of its ranges; what the client caches is whose content the *)
(* printer answered about.  The gcode proxy, which knows the slicer's      *)
(* uploads, is outside of the model: its data are the job for which the    *)
(* client asked it.  A reload of the entry gives a new client, with a new  *)
(* lock and empty caches, and leaves the calls of the old one alive.       *)
(***************************************************************************)
EXTENDS Naturals, FiniteSets

CONSTANTS
    Uploads,        \* calls of upload_gcode
    Starting,       \* those of them that are called with `start'
    NoOne,          \* holder of a free lock, writer of an unwritten range
    Chunks,         \* ranges of a file
    MaxReloads,     \* bound: reloads of the entry
    MaxJobs         \* bound: prints started

ASSUME ConstantsAssumption ==
    /\ NoOne \notin Uploads /\ Starting \subseteq Uploads
    /\ Chunks \in Nat \ {0} /\ MaxReloads \in Nat /\ MaxJobs \in Nat

VARIABLES
    \* the printer
    file,       \* the writer of each range of the file
    job,        \* the last job: its number, file, who started it, still on?
    \* Home Assistant
    client,     \* the entry's present client
    lock,       \* the holder of each client's upload lock
    call,       \* each upload: its step, client and next range
    staged,     \* uploads whose staged copy exists
    info,       \* the client's caches and printer_data
    flight,     \* background requests to the printer under way
    overtaken,  \* earlier jobs for which the gcode proxy may still answer
    tainted     \* ghost: the job's file, or a request for it, was overtaken

printer == <<file, job>>
uploads == <<lock, call, staged>>
jobs == <<info, flight, overtaken>>
vars == <<printer, client, uploads, jobs, tainted>>

NoFile == [k \in 1..Chunks |-> NoOne]
Whole(u) == [k \in 1..Chunks |-> u]
\* What a file is to those who read it: the file of one call, or neither's.
Nothing == "nothing"
Contents == Uploads \union {Nothing, "mixed"}
Content(f) ==
    IF f = NoFile THEN Nothing
    ELSE IF \E u \in Uploads : f = Whole(u) THEN f[1] ELSE "mixed"

Clients == 0..MaxReloads
\* The caches (detail, thumb, proxy) and what is shown of them (shown, image, slots).
NewInfo == [task |-> 0, fresh |-> TRUE, detail |-> Nothing, thumb |-> Nothing, proxy |-> 0,
            shown |-> Nothing, image |-> Nothing, slots |-> 0]
Requests == [kind : {"detail", "thumb"}, reply : Contents]
Steps == {"idle", "waiting", "sending", "starting", "closing", "removing", "done"}

TypeOK ==
    /\ file \in [1..Chunks -> Uploads \union {NoOne}]
    /\ job \in [n : 0..MaxJobs, of : Contents, by : Uploads \union {NoOne}, on : BOOLEAN]
    /\ client \in Clients
    /\ lock \in [Clients -> Uploads \union {NoOne}]
    /\ call \in [Uploads -> [step : Steps, client : Clients, k : 1..Chunks]]
    /\ staged \subseteq Uploads
    /\ info \in [task : 0..MaxJobs, fresh : BOOLEAN, detail : Contents, thumb : Contents,
                 proxy : 0..MaxJobs, shown : Contents, image : Contents, slots : 0..MaxJobs]
    /\ flight \subseteq Requests /\ overtaken \subseteq 1..MaxJobs
    /\ tainted \in BOOLEAN
    /\ \A c \in Clients : lock[c] # NoOne =>
          call[lock[c]].step \in {"sending", "starting"} /\ call[lock[c]].client = c

Init ==
    /\ file = NoFile
    /\ job = [n |-> 0, of |-> Nothing, by |-> NoOne, on |-> FALSE]
    /\ client = 0
    /\ lock = [c \in Clients |-> NoOne]
    /\ call = [u \in Uploads |-> [step |-> "idle", client |-> 0, k |-> 1]]
    /\ staged = {} /\ info = NewInfo /\ flight = {} /\ overtaken = {}
    /\ tainted = FALSE
-----------------------------------------------------------------------------
(***************************************************************************)
(* upload_gcode.                                                           *)
(***************************************************************************)
Goes(u, step) == call' = [call EXCEPT ![u].step = step]
\* The call is over, but for its finally.
Ends(u) == call' = [call EXCEPT ![u] = [step |-> "closing", client |-> 0, k |-> 1]]

\* The entry's client is looked up, and the file staged.
Call(u) ==
    /\ call[u].step = "idle"
    /\ call' = [call EXCEPT ![u] = [@ EXCEPT !.step = "waiting", !.client = client]]
    /\ staged' = staged \union {u}
    /\ UNCHANGED <<printer, client, lock, jobs, tainted>>

\* Not a G-code file, or it cannot be read; no copy is left.
StageFails(u) ==
    /\ call[u].step = "idle"
    /\ Goes(u, "done")
    /\ UNCHANGED <<printer, client, lock, staged, jobs, tainted>>

Acquire(u) ==
    /\ call[u].step = "waiting" /\ lock[call[u].client] = NoOne
    /\ lock' = [lock EXCEPT ![call[u].client] = u]
    /\ Goes(u, "sending")
    /\ UNCHANGED <<printer, client, staged, jobs, tainted>>

Releases(u) == lock' = [lock EXCEPT ![call[u].client] = NoOne]

Write(u, f) ==
    /\ file' = f
    /\ tainted' = (tainted \/ (job.n > 0 /\ f # file))
Written(u) == [file EXCEPT ![call[u].k] = u]

SendChunk(u) ==
    /\ call[u].step = "sending" /\ call[u].k < Chunks
    /\ Write(u, Written(u))
    /\ call' = [call EXCEPT ![u].k = @ + 1]
    /\ UNCHANGED <<job, client, lock, staged, jobs>>

\* The printer compares the MD5 when it has the last range (upload.py:10-16).
Accepts(u) == Written(u) = Whole(u)

\* Mutant: the lock is released before the start.
SendLastAndRelease(u) ==
    /\ call[u].step = "sending" /\ call[u].k = Chunks
    /\ Accepts(u)
    /\ Write(u, Written(u))
    /\ IF u \in Starting THEN Goes(u, "starting") ELSE Ends(u)
    /\ Releases(u)
    /\ UNCHANGED <<job, client, staged, jobs>>

\* The last range; with `start' the call goes on, under the lock.
SendLast(u) ==
    /\ call[u].step = "sending" /\ call[u].k = Chunks
    /\ Accepts(u)
    /\ Write(u, Written(u))
    /\ IF u \in Starting THEN Goes(u, "starting") /\ UNCHANGED lock
       ELSE Ends(u) /\ Releases(u)
    /\ UNCHANGED <<job, client, staged, jobs>>

\* An error, a refusal, no answer in time, or the call is cancelled; the range may
\* have been written.  Nothing is retried.
SendFails(u) ==
    /\ call[u].step = "sending"
    /\ \E f \in {file, Written(u)} : Write(u, f)
    /\ Ends(u) /\ Releases(u)
    /\ UNCHANGED <<job, client, staged, jobs>>

Prints(u, f) ==
    /\ ~job.on /\ job.n < MaxJobs /\ f # NoFile
    /\ job' = [n |-> job.n + 1, of |-> Content(f), by |-> u, on |-> TRUE]
    /\ tainted' = FALSE
NotStarted == UNCHANGED <<job, tainted>>

\* print_start: started, refused as busy, no answer, or the client is disconnected.
StartUploaded(u) ==
    /\ call[u].step = "starting"
    /\ \/ call[u].client = client /\ Prints(u, file)
       \/ NotStarted
    /\ Ends(u) /\ Releases(u)
    /\ UNCHANGED <<file, client, staged, jobs>>

\* The finally closes the generator, so that the file handle is free ...
CloseChunks(u) ==
    /\ call[u].step = "closing"
    /\ Goes(u, "removing")
    /\ UNCHANGED <<printer, client, lock, staged, jobs, tainted>>

\* Mutant: the staged copy stays when the call ends.
KeepCopy(u) ==
    /\ call[u].step = "removing"
    /\ Goes(u, "done")
    /\ UNCHANGED <<printer, client, lock, staged, jobs, tainted>>

\* ... and then removes the copy.
RemoveCopy(u) ==
    /\ call[u].step = "removing"
    /\ Goes(u, "done") /\ staged' = staged \ {u}
    /\ UNCHANGED <<printer, client, lock, jobs, tainted>>

\* Cancelled while it waits for the lock.
CancelWaiting(u) ==
    /\ call[u].step = "waiting"
    /\ Ends(u)
    /\ UNCHANGED <<printer, client, lock, staged, jobs, tainted>>
-----------------------------------------------------------------------------
(***************************************************************************)
(* start_print, the button, the printer and the entry.                     *)
(***************************************************************************)
StartPrint ==
    /\ Prints(NoOne, file)
    /\ UNCHANGED <<file, client, uploads, jobs>>

JobEnds ==
    /\ job.on /\ job' = [job EXCEPT !.on = FALSE]
    /\ UNCHANGED <<file, client, uploads, jobs, tainted>>

\* The requests of the old client end when it disconnects.
Reload ==
    /\ client < MaxReloads /\ client' = client + 1
    /\ info' = NewInfo /\ flight' = {} /\ overtaken' = {}
    /\ UNCHANGED <<printer, uploads, tainted>>
-----------------------------------------------------------------------------
(***************************************************************************)
(* _update_printer_status and _update_current_job.                         *)
(***************************************************************************)
InFlight(k) == \E r \in flight : r.kind = k
Ask(k) == [kind |-> k, reply |-> Nothing]

\* Mutant: the data of the gcode proxy for the name's last file are kept.
ClearPrinterData(i) == [i EXCEPT !.detail = Nothing, !.thumb = Nothing]
ClearStaleCaches(i) == [i EXCEPT !.detail = Nothing, !.thumb = Nothing, !.proxy = 0]

\* The pending flags.
MayAsk(k) == ~InFlight(k)
Wanted(i, layers) ==
    {Ask(k) : k \in {kk \in {"detail", "thumb"} : MayAsk(kk) /\
        IF kk = "detail" THEN ~layers /\ i.detail = Nothing ELSE i.thumb = Nothing}}

\* The first status of a job asks the gcode proxy, since its data are cleared then,
\* and while there are none every update asks it again, whatever is under way (the
\* last disjunct of needs_proxy_update).  So there may be a request for the present
\* job at any time.  One that fails, or finds no data, leaves nothing behind.
AskedOfProxy == overtaken \union ({info.task} \ {0})

\* The filament data is mapped before the caches are cleared.  The requests of the
\* earlier job may have ended by now or not.
Update ==
    LET new == info.task # job.n
        c == IF new THEN ClearStaleCaches(info) ELSE info
    IN  /\ \E layers \in BOOLEAN : flight' = flight \union Wanted(c, layers)
        /\ overtaken' \in {overtaken} \union IF new THEN {AskedOfProxy} ELSE {}
        /\ info' = [c EXCEPT !.task = job.n, !.fresh = new,
                             !.shown = info.detail, !.slots = info.proxy,
                             !.image = IF new \/ c.thumb # Nothing THEN c.thumb ELSE @]

\* A status, full or delta, of the printer's job.
StatusUpdate ==
    /\ job.n > 0
    /\ Update
    /\ tainted' = (tainted \/ (info.task # job.n /\ (InFlight("detail") \/ InFlight("thumb"))))
    /\ UNCHANGED <<printer, client, uploads>>

\* The printer answers about the file it now has under the name.
PrinterReplies(r) ==
    /\ r.reply = Nothing /\ file # NoFile
    /\ flight' = (flight \ {r}) \union {[r EXCEPT !.reply = Content(file)]}
    /\ UNCHANGED <<printer, client, uploads, info, overtaken, tainted>>

\* The handler stores the answer and updates the status; the update still sees the
\* last status received, so not a job that has begun since.
Stored(i, r) ==
    IF r.kind = "detail"
    THEN [i EXCEPT !.detail = r.reply, !.shown = r.reply, !.slots = i.proxy]
    ELSE [i EXCEPT !.thumb = r.reply, !.image = r.reply, !.shown = i.detail, !.slots = i.proxy]

Answered(r) ==
    /\ r.reply # Nothing
    /\ info' = Stored(info, r)
    /\ \E layers \in BOOLEAN : flight' = (flight \union Wanted(info', layers)) \ {r}
    /\ UNCHANGED <<printer, client, uploads, overtaken, tainted>>

\* No answer in time, one without data, or a transport error: the flag is cleared.
RequestFails(r) ==
    /\ flight' = flight \ {r}
    /\ UNCHANGED <<printer, client, uploads, info, overtaken, tainted>>

\* The proxy's data, asked for when the client's job was j, are stored whatever its
\* job is by now, and the status is updated.
ProxyAnswers(j) ==
    /\ info' = [info EXCEPT !.proxy = j, !.slots = j, !.shown = info.detail]
    /\ \E layers \in BOOLEAN : flight' = flight \union Wanted(info', layers)
    /\ UNCHANGED <<printer, client, uploads, overtaken, tainted>>
-----------------------------------------------------------------------------
UploadSteps(u) ==
    \/ Call(u) \/ StageFails(u) \/ Acquire(u) \/ CancelWaiting(u)
    \/ SendChunk(u) \/ SendLast(u) \/ SendFails(u) \/ StartUploaded(u)
    \/ CloseChunks(u) \/ RemoveCopy(u)

Next ==
    \/ \E u \in Uploads : UploadSteps(u)
    \/ StartPrint \/ JobEnds \/ Reload \/ StatusUpdate
    \/ \E r \in flight : PrinterReplies(r) \/ Answered(r) \/ RequestFails(r)
    \/ \E j \in AskedOfProxy : ProxyAnswers(j)

Spec == Init /\ [][Next]_vars

\* A service call's task goes on; every request of it ends by its timeout.
Continues(u) ==
    \/ Acquire(u) \/ SendChunk(u) \/ SendLast(u) \/ SendFails(u) \/ StartUploaded(u)
    \/ CloseChunks(u) \/ RemoveCopy(u)
Fairness == \A u \in Uploads : WF_vars(Continues(u))
FairSpec == Spec /\ Fairness
-----------------------------------------------------------------------------
(***************************************************************************)
(* Properties.                                                             *)
(***************************************************************************)
\* With the client the entry began with, an upload that starts its file prints the
\* whole of it and nothing of another call's file: the lock spans all the ranges
\* and the start.  The state is well typed.
PrintsOwnFile ==
    /\ TypeOK
    /\ client = 0 /\ job.by # NoOne => job.of = job.by

\* The client asks the printer for the details, and for the thumbnail, once at a
\* time, whatever updates come while the answer does, those of its own handlers
\* included.
OneFetchAtATime ==
    \A k \in {"detail", "thumb"} : Cardinality({r \in flight : r.kind = k}) <= 1

\* From its second status on, a job shows the details and the thumbnail of the
\* file it prints, not those of a file that had the name before; unless the file
\* was replaced or an older request was under way when the job began.  It shows
\* the gcode proxy's data of an earlier job only if the proxy was still being asked
\* for that one.  No request to the printer is made twice (OneFetchAtATime).
JobShowsItsFile ==
    /\ OneFetchAtATime
    /\ ~tainted /\ job.n > 0 /\ info.task = job.n =>
          /\ info.image \in {Nothing, job.of}
          /\ ~info.fresh => info.shown \in {Nothing, job.of}
    /\ info.task = job.n /\ ~info.fresh =>
          info.slots \in {0, job.n} \union overtaken

\* Every call returns, and has removed its staged copy: in the end no call is under
\* way, since a call that has begun is never idle again.
UploadsReturn ==
    <>[](\A u \in Uploads : call[u].step \in {"idle", "done"} /\ u \notin staged)
=============================================================================
