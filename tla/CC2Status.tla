------------------------------ MODULE CC2Status ------------------------------
(***************************************************************************)
(* Print status of ElegooCC2Client (cc2/client.py) on its way from the     *)
(* printer to Home Assistant.  The printer sends numbered deltas; the      *)
(* client merges them into a cache, asks for the full status when the      *)
(* numbers have gaps, and queues a snapshot whenever the print status      *)
(* changes.  The coordinator (coordinator.py) polls now and then, replays  *)
(* the queued snapshots, and then publishes the present status.            *)
(*                                                                         *)
(* Status frames share one ordered connection, which may lose some of      *)
(* them.  The connection itself is the subject of CC2Connection.           *)
(*                                                                         *)
(* Abstracted: the nested status is one group of two fields, the sub       *)
(* status that decides the print status, and the progress beside it.       *)
(***************************************************************************)
EXTENDS Naturals, Sequences, SequencesExt

CONSTANTS
    MaxEvents,          \* bound: events the printer sends
    MaxNonContinuous,   \* CC2_MAX_NON_CONTINUOUS_EVENTS
    QueueMax            \* CC2_PRINT_STATUS_TRANSITION_QUEUE_MAX

ASSUME ConstantsAssumption ==
    /\ MaxEvents \in Nat \ {0}
    /\ MaxNonContinuous \in Nat \ {0}
    /\ QueueMax \in Nat \ {0}

VARIABLES
    truth,      \* truth[n]: the printer's status after its n-th event
    wire,       \* frames on their way to the listener
    up,         \* is the connection up?
    requests,   \* GET_STATUS commands the printer has not answered
    cache,      \* _cached_status
    sequence,   \* _status_sequence
    gaps,       \* _non_continuous_count
    shown,      \* printer_data.status.print_info.status
    queue,      \* _print_status_transition_queue
    seen,       \* ghost: number of the last event the cache reflects
    intact,     \* ghost: no event is missing since the last full status
    recorded,   \* ghost: print statuses Home Assistant has recorded
    expected    \* ghost: print statuses the printer went through since a poll
                \* found the cache intact; empty once one may have been missed

printer == <<truth, wire, up>>
client == <<cache, sequence, gaps, shown, queue, seen, intact>>
history == <<recorded, expected>>
vars == <<printer, requests, client, history>>

PrintStatuses == {"idle", "printing", "complete"}
States == [sub_status : PrintStatuses, progress : {"low", "high"}]
Unset == "unset"
Partial == [sub_status : PrintStatuses \union {Unset}, progress : {"low", "high", Unset}]

Now == Len(truth)

\* full: the answer to GET_STATUS.  A delta leaves the fields it does not
\* mention Unset.
Frames == [kind : {"full", "delta"}, n : 1..MaxEvents, status : Partial]

TypeOK ==
    /\ truth \in Seq(States) /\ Now \in 1..MaxEvents
    /\ wire \in Seq(Frames)
    /\ up \in BOOLEAN
    /\ requests \in Nat
    /\ cache \in Partial
    /\ sequence \in 0..MaxEvents
    /\ gaps \in 0..(MaxNonContinuous - 1)
    /\ shown \in PrintStatuses
    /\ queue \in Seq(PrintStatuses) /\ Len(queue) <= QueueMax
    /\ seen \in 0..MaxEvents
    /\ intact \in BOOLEAN
    /\ recorded \in Seq(PrintStatuses) \ {<<>>}
    /\ expected \in Seq(PrintStatuses)

Init ==
    /\ truth \in {<<s>> : s \in States}
    /\ wire = <<>> /\ up = FALSE /\ requests = 0
    /\ cache = [sub_status |-> Unset, progress |-> Unset]
    /\ sequence = 0 /\ gaps = 0
    /\ shown = "idle" /\ queue = <<>>
    /\ seen = 0 /\ intact = FALSE
    /\ recorded = <<"idle">> /\ expected = <<>>

-----------------------------------------------------------------------------
(***************************************************************************)
(* The printer and the connection.                                         *)
(***************************************************************************)
\* A delta has the fields that are new.
Fresh(old, new) == IF new # old THEN new ELSE Unset
Delta(old, new) == [sub_status |-> Fresh(old.sub_status, new.sub_status),
                    progress |-> Fresh(old.progress, new.progress)]

PrinterChanges ==
    /\ Now < MaxEvents
    /\ \E s \in States \ {Last(truth)} :
          /\ truth' = Append(truth, s)
          /\ wire' = IF up
                     THEN Append(wire, [kind |-> "delta", n |-> Now + 1,
                                        status |-> Delta(Last(truth), s)])
                     ELSE wire
    /\ UNCHANGED <<up, requests, client, history>>

PrinterAnswers ==
    /\ up
    /\ requests > 0
    /\ requests' = requests - 1
    /\ wire' = Append(wire, [kind |-> "full", n |-> Now, status |-> Last(truth)])
    /\ UNCHANGED <<truth, up, client, history>>

\* The command is lost, or its publish fails (_request_full_status and
\* _request_initial_data only log it).
RequestFails ==
    /\ requests > 0
    /\ requests' = requests - 1
    /\ UNCHANGED <<printer, client, history>>

Lose ==
    /\ \E i \in DOMAIN wire : wire' = RemoveAt(wire, i)
    /\ UNCHANGED <<truth, up, requests, client, history>>

\* disconnect() and _delayed_disconnect clear the queue.  What was in it is
\* never recorded.
Forget ==
    /\ queue' = <<>>
    /\ expected' = IF queue = <<>> THEN expected ELSE <<>>

LinkBreaks ==
    /\ up
    /\ up' = FALSE
    /\ wire' = <<>>
    /\ requests' = 0
    /\ UNCHANGED <<truth, client, history>>

DelayExpires ==
    /\ ~up
    /\ Forget
    /\ UNCHANGED <<printer, requests, cache, sequence, gaps, shown, seen, intact,
                   recorded>>

\* connect_printer(): a disconnect(), and _request_initial_data in the end.  The
\* cache, its number and the count of gaps survive.
Reconnect ==
    /\ ~up
    /\ up' = TRUE
    /\ Forget
    /\ requests' = 1
    /\ UNCHANGED <<truth, wire, cache, sequence, gaps, shown, seen, intact, recorded>>

-----------------------------------------------------------------------------
(***************************************************************************)
(* The listener.                                                           *)
(***************************************************************************)
\* CC2StatusMapper.map_status: an unknown sub status is idle.
PrintStatus(c) == IF c.sub_status = Unset THEN "idle" ELSE c.sub_status

\* Mutant: dict.update instead of a deep merge, so the fields of the group that
\* the delta does not mention are gone.
ShallowMerge(base, update) == update

Over(old, new) == IF new = Unset THEN old ELSE new
DeepMerge(base, update) == [sub_status |-> Over(base.sub_status, update.sub_status),
                            progress |-> Over(base.progress, update.progress)]

\* A bounded deque drops its oldest snapshot.
Enqueue(q, s) == IF Len(q) < QueueMax THEN Append(q, s) ELSE Append(Tail(q), s)

\* Mutant: the status before the transition is queued.
UpdatePrinterStatusLate ==
    /\ shown' = PrintStatus(cache')
    /\ queue' = IF shown' = shown THEN queue ELSE Enqueue(queue, shown)

\* _update_printer_status
UpdatePrinterStatus ==
    /\ shown' = PrintStatus(cache')
    /\ queue' = IF shown' = shown THEN queue ELSE Enqueue(queue, shown')

Overflows == shown' # shown /\ Len(queue) = QueueMax

HandleFullStatus ==
    /\ wire # <<>> /\ Head(wire).kind = "full"
    /\ wire' = Tail(wire)
    /\ cache' = Head(wire).status
    /\ sequence' = Head(wire).n
    /\ gaps' = 0
    /\ UpdatePrinterStatus
    /\ seen' = Head(wire).n
    /\ intact' = TRUE
    /\ expected' = IF seen' = seen /\ ~Overflows THEN expected ELSE <<>>
    /\ UNCHANGED <<truth, up, requests, recorded>>

Continuous(frame) == frame.n = sequence + 1

HandleDeltaStatus ==
    /\ wire # <<>> /\ Head(wire).kind = "delta"
    /\ wire' = Tail(wire)
    /\ IF Continuous(Head(wire))
       THEN gaps' = 0 /\ UNCHANGED requests
       ELSE IF gaps + 1 >= MaxNonContinuous
            THEN gaps' = 0 /\ requests' = requests + 1
            ELSE gaps' = gaps + 1 /\ UNCHANGED requests
    /\ sequence' = Head(wire).n
    /\ cache' = DeepMerge(cache, Head(wire).status)
    /\ UpdatePrinterStatus
    /\ seen' = Head(wire).n
    /\ intact' = (intact /\ seen' = seen + 1)
    /\ expected' = IF expected = <<>> \/ ~intact' \/ Overflows THEN <<>>
                   ELSE LET s == truth[seen'].sub_status
                        IN IF s = Last(expected) THEN expected ELSE Append(expected, s)
    /\ UNCHANGED <<truth, up, recorded>>

-----------------------------------------------------------------------------
(***************************************************************************)
(* The coordinator.                                                        *)
(***************************************************************************)

\* Home Assistant records a state only when it differs from the one before.
Record(log, statuses) ==
    LET after[n \in 0..Len(statuses)] ==
            IF n = 0 THEN log
            ELSE IF statuses[n] = Last(after[n - 1]) THEN after[n - 1]
            ELSE Append(after[n - 1], statuses[n])
    IN  after[Len(statuses)]

\* A poll that succeeds: the queued snapshots are replayed, then the live
\* status is restored and published.
Poll ==
    /\ queue' = <<>>
    /\ IF expected = <<>> /\ intact
       THEN recorded' = <<shown>> /\ expected' = <<shown>>
       ELSE recorded' = Record(recorded, Append(queue, shown)) /\ UNCHANGED expected
    /\ UNCHANGED <<printer, requests, cache, sequence, gaps, shown, seen, intact>>

Next ==
    \/ PrinterChanges \/ PrinterAnswers \/ RequestFails \/ Lose
    \/ LinkBreaks \/ DelayExpires \/ Reconnect
    \/ HandleFullStatus \/ HandleDeltaStatus
    \/ Poll

Spec == Init /\ [][Next]_vars

-----------------------------------------------------------------------------
\* While the frames since the last full status came without a gap, the cache is
\* exactly what the printer's status was at the last of them: neither an event
\* that overtakes the answer to GET_STATUS, nor what the cache held before a
\* reconnect, nor a field a delta leaves out, can spoil it.
CacheIsSnapshot ==
    intact => cache = truth[seen]

\* Home Assistant records every print status the printer went through, each
\* once and in order, however rarely the coordinator polls: what is recorded
\* and what is queued make up the true history, unless a frame was lost, the
\* queue overflowed, or a disconnect cleared it.  The state is well typed.
HistoryFaithful ==
    /\ TypeOK
    /\ expected # <<>> => recorded \o queue = expected
=============================================================================
