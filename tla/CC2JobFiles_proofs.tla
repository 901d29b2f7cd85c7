-------------------------- MODULE CC2JobFiles_proofs --------------------------
(***************************************************************************)
(* Proofs about CC2JobFiles, for any number of uploads, ranges, reloads    *)
(* and jobs.  The first part is about the uploads and the lock, the second *)
(* one about the caches and the requests that fill them.                   *)
(***************************************************************************)
EXTENDS CC2JobFiles, FiniteSetTheorems, TLAPS

CallRecord == [step : Steps, client : Clients, k : 1..Chunks]
Active == {"sending", "starting"}

\* Who sends or starts has the lock of its client.
Locked == \A u \in Uploads : call[u].step \in Active => lock[call[u].client] = u

\* No call has a client of the future.
KnownClients == \A u \in Uploads : call[u].client <= client

\* Between its last range and its start, the file is the call's.
StartsOwnFile ==
    client = 0 => \A u \in Uploads : call[u].step = "starting" => file = Whole(u)

OwnFile == client = 0 /\ job.by # NoOne => job.of = job.by

\* The part of TypeOK that relates two variables.
LockHeld ==
    \A c \in Clients : lock[c] # NoOne =>
        call[lock[c]].step \in {"sending", "starting"} /\ call[lock[c]].client = c

UInv == TypeOK /\ Locked /\ KnownClients /\ StartsOwnFile /\ OwnFile
-----------------------------------------------------------------------------
(***************************************************************************)
(* The contents of the file.                                               *)
(***************************************************************************)
LEMMA WholeContent ==
    ASSUME NEW u \in Uploads
    PROVE  Content(Whole(u)) = u
<1>1. 1 \in 1..Chunks
  BY ConstantsAssumption
<1>2. Whole(u)[1] = u /\ NoFile[1] = NoOne /\ \A v \in Uploads : Whole(v)[1] = v
  BY <1>1 DEF Whole, NoFile
<1>3. Whole(u) # NoFile
  BY <1>2, ConstantsAssumption
<1>4. QED
  BY <1>2, <1>3 DEF Content

LEMMA ContentType ==
    ASSUME TypeOK
    PROVE  Content(file) \in Contents
<1>1. 1 \in 1..Chunks
  BY ConstantsAssumption
<1>2. CASE file = NoFile
  BY <1>2 DEF Content, Contents
<1>3. CASE file # NoFile /\ \E u \in Uploads : file = Whole(u)
  BY <1>3, WholeContent DEF Contents
<1>4. CASE file # NoFile /\ ~\E u \in Uploads : file = Whole(u)
  BY <1>4 DEF Content, Contents, Nothing
<1>5. QED
  BY <1>2, <1>3, <1>4

LEMMA WrittenType ==
    ASSUME TypeOK, NEW u \in Uploads
    PROVE  Written(u) \in [1..Chunks -> Uploads \union {NoOne}]
BY DEF TypeOK, Written
-----------------------------------------------------------------------------
(***************************************************************************)
(* What the steps do to the record of a call.                              *)
(***************************************************************************)
LEMMA GoesFacts ==
    ASSUME TypeOK, NEW u \in Uploads, NEW s \in Steps, Goes(u, s)
    PROVE  /\ call' \in [Uploads -> CallRecord]
           /\ call'[u].step = s /\ call'[u].client = call[u].client /\ call'[u].k = call[u].k
           /\ \A v \in Uploads : v # u => call'[v] = call[v]
<1>1. call \in [Uploads -> CallRecord]
  BY DEF TypeOK, CallRecord
<1>2. [call[u] EXCEPT !.step = s] \in CallRecord
  BY <1>1 DEF CallRecord
<1>3. QED
  BY <1>1, <1>2 DEF Goes, CallRecord

LEMMA EndsFacts ==
    ASSUME TypeOK, NEW u \in Uploads, Ends(u)
    PROVE  /\ call' \in [Uploads -> CallRecord]
           /\ call'[u].step = "closing" /\ call'[u].client = 0
           /\ \A v \in Uploads : v # u => call'[v] = call[v]
<1>1. [step |-> "closing", client |-> 0, k |-> 1] \in CallRecord
  BY ConstantsAssumption DEF CallRecord, Steps, Clients
<1>2. QED
  BY <1>1 DEF TypeOK, Ends, CallRecord

LEMMA CallFacts ==
    ASSUME TypeOK, NEW u \in Uploads,
           call' = [call EXCEPT ![u] = [@ EXCEPT !.step = "waiting", !.client = client]]
    PROVE  /\ call' \in [Uploads -> CallRecord]
           /\ call'[u].step = "waiting" /\ call'[u].client = client
           /\ \A v \in Uploads : v # u => call'[v] = call[v]
<1> DEFINE r == [call[u] EXCEPT !.step = "waiting", !.client = client]
<1>1. call \in [Uploads -> CallRecord] /\ client \in Clients
  BY DEF TypeOK, CallRecord
<1>2. r \in CallRecord /\ r.step = "waiting" /\ r.client = client
  BY <1>1 DEF CallRecord, Steps
<1>3. call' = [call EXCEPT ![u] = r]
  OBVIOUS
<1>4. QED
  <2> HIDE DEF r
  <2> QED
    BY <1>1, <1>2, <1>3

LEMMA ChunkFacts ==
    ASSUME TypeOK, NEW u \in Uploads, call[u].k < Chunks,
           call' = [call EXCEPT ![u].k = @ + 1]
    PROVE  /\ call' \in [Uploads -> CallRecord]
           /\ call'[u].step = call[u].step /\ call'[u].client = call[u].client
           /\ \A v \in Uploads : v # u => call'[v] = call[v]
<1>1. call[u].k + 1 \in 1..Chunks
  BY ConstantsAssumption DEF TypeOK
<1>2. call \in [Uploads -> CallRecord]
  BY DEF TypeOK, CallRecord
<1>3. [call[u] EXCEPT !.k = @ + 1] \in CallRecord
  BY <1>1, <1>2 DEF CallRecord
<1>4. QED
  BY <1>2, <1>3 DEF CallRecord
-----------------------------------------------------------------------------
(***************************************************************************)
(* The lock.                                                               *)
(***************************************************************************)
LockDiscipline ==
    /\ lock \in [Clients -> Uploads \union {NoOne}]
    /\ LockHeld /\ Locked /\ KnownClients

\* While the entry has its first client, one call at a time sends or starts.
LEMMA OneActive ==
    ASSUME UInv, client = 0, NEW u \in Uploads, NEW v \in Uploads,
           call[u].step \in Active, call[v].step \in Active
    PROVE  u = v
<1>1. call[u].client = 0 /\ call[v].client = 0
  BY DEF UInv, TypeOK, KnownClients, Clients
<1>2. QED
  BY <1>1 DEF UInv, Locked

LEMMA LockReleased ==
    ASSUME UInv, NEW u \in Uploads, call[u].step \in Active, Ends(u), Releases(u),
           client' = client
    PROVE  LockDiscipline'
<1>1. /\ call' \in [Uploads -> CallRecord]
      /\ call'[u].step = "closing" /\ call'[u].client = 0
      /\ \A v \in Uploads : v # u => call'[v] = call[v]
  BY EndsFacts DEF UInv
<1>2. call[u].client \in Clients /\ lock[call[u].client] = u
  BY DEF UInv, TypeOK, Locked
<1>3. /\ lock' \in [Clients -> Uploads \union {NoOne}]
      /\ lock'[call[u].client] = NoOne
      /\ \A c \in Clients : c # call[u].client => lock'[c] = lock[c]
  BY <1>2 DEF UInv, TypeOK, Releases
<1>4. LockHeld'
  <2> SUFFICES ASSUME NEW c \in Clients, lock'[c] # NoOne
               PROVE  call'[lock'[c]].step \in Active /\ call'[lock'[c]].client = c
    BY DEF LockHeld, Active
  <2>1. c # call[u].client /\ lock'[c] = lock[c] /\ lock[c] \in Uploads
    BY <1>3 DEF UInv, TypeOK
  <2>2. call[lock[c]].step \in Active /\ call[lock[c]].client = c
    BY <2>1 DEF UInv, TypeOK, Active
  <2>3. QED
    BY <1>1, <2>1, <2>2
<1>5. Locked'
  BY <1>1, <1>2, <1>3 DEF UInv, TypeOK, Locked, Active
<1>6. KnownClients'
  BY <1>1 DEF UInv, TypeOK, KnownClients, Clients
<1>7. QED
  BY <1>3, <1>4, <1>5, <1>6 DEF LockDiscipline

LEMMA LockKept ==
    ASSUME UInv, NEW u \in Uploads, UNCHANGED <<lock, client>>,
           call' \in [Uploads -> CallRecord], call'[u].client <= client,
           \A v \in Uploads : v # u => call'[v] = call[v],
           \/ call[u].step \notin Active /\ call'[u].step \notin Active
           \/ /\ call[u].step \in Active /\ call'[u].step \in Active
              /\ call'[u].client = call[u].client
    PROVE  LockDiscipline'
<1>1. lock' \in [Clients -> Uploads \union {NoOne}]
  BY DEF UInv, TypeOK
<1>2. LockHeld'
  <2> SUFFICES ASSUME NEW c \in Clients, lock[c] # NoOne
               PROVE  call'[lock[c]].step \in Active /\ call'[lock[c]].client = c
    BY DEF LockHeld, Active
  <2>1. lock[c] \in Uploads /\ call[lock[c]].step \in Active /\ call[lock[c]].client = c
    BY DEF UInv, TypeOK, Active
  <2>2. QED
    BY <2>1
<1>3. Locked'
  BY DEF UInv, Locked
<1>4. KnownClients'
  BY DEF UInv, KnownClients
<1>5. QED
  BY <1>1, <1>2, <1>3, <1>4 DEF LockDiscipline

LEMMA LockTaken ==
    ASSUME UInv, NEW u \in Uploads, Acquire(u)
    PROVE  LockDiscipline' /\ call' \in [Uploads -> CallRecord]
<1>1. /\ call' \in [Uploads -> CallRecord]
      /\ call'[u].step = "sending" /\ call'[u].client = call[u].client
      /\ \A v \in Uploads : v # u => call'[v] = call[v]
  BY GoesFacts DEF UInv, Acquire, Steps
<1>2. call[u].client \in Clients /\ lock[call[u].client] = NoOne
  BY DEF UInv, TypeOK, Acquire
<1>3. /\ lock' \in [Clients -> Uploads \union {NoOne}]
      /\ lock'[call[u].client] = u
      /\ \A c \in Clients : c # call[u].client => lock'[c] = lock[c]
  BY <1>2 DEF UInv, TypeOK, Acquire
<1>4. LockHeld'
  <2> SUFFICES ASSUME NEW c \in Clients, lock'[c] # NoOne
               PROVE  call'[lock'[c]].step \in Active /\ call'[lock'[c]].client = c
    BY DEF LockHeld, Active
  <2>1. CASE c = call[u].client
    BY <1>1, <1>3, <2>1 DEF Active
  <2>2. CASE c # call[u].client
    <3>1. lock'[c] = lock[c] /\ lock[c] \in Uploads
      BY <1>3, <2>2 DEF UInv, TypeOK
    <3>2. call[lock[c]].step \in Active /\ call[lock[c]].client = c
      BY <3>1 DEF UInv, TypeOK, Active
    <3>3. lock[c] # u
      BY <3>2 DEF Acquire, Active
    <3>4. QED
      BY <1>1, <3>1, <3>2, <3>3
  <2>3. QED
    BY <2>1, <2>2
<1>5. Locked'
  <2> SUFFICES ASSUME NEW v \in Uploads, call'[v].step \in Active
               PROVE  lock'[call'[v].client] = v
    BY DEF Locked
  <2>1. CASE v = u
    BY <1>1, <1>3, <2>1
  <2>2. CASE v # u
    <3>1. call'[v] = call[v] /\ lock[call[v].client] = v /\ call[v].client \in Clients
      BY <1>1, <2>2 DEF UInv, TypeOK, Locked
    <3>2. call[v].client # call[u].client
      BY <1>2, <3>1, ConstantsAssumption
    <3>3. QED
      BY <1>3, <3>1, <3>2
  <2>3. QED
    BY <2>1, <2>2
<1>6. KnownClients'
  BY <1>1 DEF UInv, KnownClients, Acquire
<1>7. QED
  BY <1>1, <1>3, <1>4, <1>5, <1>6 DEF LockDiscipline
-----------------------------------------------------------------------------
(***************************************************************************)
(* The steps of an upload.                                                 *)
(***************************************************************************)
\* A step that neither writes nor starts.
LEMMA QuietStep ==
    ASSUME UInv, LockDiscipline', UNCHANGED <<printer, client, jobs, tainted>>,
           call' \in [Uploads -> CallRecord], staged' \subseteq Uploads,
           \A v \in Uploads : call'[v].step = "starting" => call[v].step = "starting"
    PROVE  UInv'
<1>1. TypeOK'
  BY DEF UInv, TypeOK, LockDiscipline, LockHeld, CallRecord, printer, jobs
<1>2. StartsOwnFile' /\ OwnFile'
  BY DEF UInv, StartsOwnFile, OwnFile, printer
<1>3. QED
  BY <1>1, <1>2 DEF UInv, LockDiscipline

LEMMA QuietSteps ==
    ASSUME UInv, NEW u \in Uploads,
           \/ Call(u) \/ StageFails(u) \/ Acquire(u) \/ CancelWaiting(u)
           \/ CloseChunks(u) \/ RemoveCopy(u)
    PROVE  UInv'
<1>1. TypeOK /\ client \in Nat /\ call[u].client <= client
  BY DEF UInv, TypeOK, Clients, KnownClients
<1>2. CASE Call(u)
  <2>1. /\ call' \in [Uploads -> CallRecord]
        /\ call'[u].step = "waiting" /\ call'[u].client = client
        /\ \A v \in Uploads : v # u => call'[v] = call[v]
    BY <1>1, <1>2, CallFacts DEF Call
  <2>2. LockDiscipline'
    BY <1>1, <1>2, <2>1, LockKept DEF Call, Active
  <2>3. QED
    BY <1>1, <1>2, <2>1, <2>2, QuietStep DEF Call, TypeOK
<1>3. ASSUME NEW s \in Steps \ {"sending", "starting"}, Goes(u, s),
             call[u].step \in {"idle", "closing", "removing"},
             UNCHANGED <<printer, client, lock, jobs, tainted>>, staged' \subseteq Uploads
      PROVE  UInv'
  <2>1. /\ call' \in [Uploads -> CallRecord]
        /\ call'[u].step = s /\ call'[u].client = call[u].client
        /\ \A v \in Uploads : v # u => call'[v] = call[v]
    BY <1>1, <1>3, GoesFacts
  <2>2. LockDiscipline'
    BY <1>1, <1>3, <2>1, LockKept DEF Active
  <2>3. QED
    BY <1>3, <2>1, <2>2, QuietStep
<1>4. CASE StageFails(u)
  BY <1>1, <1>3, <1>4 DEF StageFails, Steps, TypeOK
<1>5. CASE CloseChunks(u) \/ RemoveCopy(u)
  BY <1>1, <1>3, <1>5 DEF CloseChunks, RemoveCopy, Steps, TypeOK
<1>6. CASE Acquire(u)
  <2>1. LockDiscipline' /\ call' \in [Uploads -> CallRecord]
    BY <1>6, LockTaken
  <2>2. call'[u].step = "sending" /\ \A v \in Uploads : v # u => call'[v] = call[v]
    BY <1>1, <1>6, GoesFacts DEF Acquire, Steps
  <2>3. QED
    BY <1>1, <1>6, <2>1, <2>2, QuietStep DEF Acquire, TypeOK
<1>7. CASE CancelWaiting(u)
  <2>1. /\ call' \in [Uploads -> CallRecord]
        /\ call'[u].step = "closing" /\ call'[u].client = 0
        /\ \A v \in Uploads : v # u => call'[v] = call[v]
    BY <1>1, <1>7, EndsFacts DEF CancelWaiting
  <2>2. LockDiscipline'
    BY <1>1, <1>7, <2>1, LockKept DEF CancelWaiting, Active
  <2>3. QED
    BY <1>1, <1>7, <2>1, <2>2, QuietStep DEF CancelWaiting, TypeOK
<1>8. QED
  BY <1>2, <1>4, <1>5, <1>6, <1>7

\* A step of a call that writes: no other call is between its last range and its
\* start, and this one is there only with its whole file.
LEMMA WritingStep ==
    ASSUME UInv, NEW u \in Uploads, call[u].step = "sending", LockDiscipline',
           NEW f \in [1..Chunks -> Uploads \union {NoOne}], Write(u, f),
           call' \in [Uploads -> CallRecord],
           \A v \in Uploads : v # u => call'[v] = call[v],
           call'[u].step = "starting" => f = Whole(u),
           UNCHANGED <<job, client, staged, jobs>>
    PROVE  UInv'
<1>1. TypeOK'
  BY DEF UInv, TypeOK, LockDiscipline, LockHeld, CallRecord, jobs, Write
<1>2. StartsOwnFile'
  <2> SUFFICES ASSUME client = 0, NEW v \in Uploads, call'[v].step = "starting"
               PROVE  file' = Whole(v)
    BY DEF StartsOwnFile
  <2>1. v = u
    BY OneActive DEF Active
  <2>2. QED
    BY <2>1 DEF Write
<1>3. OwnFile'
  BY DEF UInv, OwnFile
<1>4. QED
  BY <1>1, <1>2, <1>3 DEF UInv, LockDiscipline

LEMMA WritingSteps ==
    ASSUME UInv, NEW u \in Uploads, SendChunk(u) \/ SendLast(u) \/ SendFails(u)
    PROVE  UInv'
<1>1. TypeOK /\ call[u].client <= client
  BY DEF UInv, TypeOK, KnownClients
<1>2. Written(u) \in [1..Chunks -> Uploads \union {NoOne}]
  BY <1>1, WrittenType
<1>3. CASE SendChunk(u)
  <2>1. /\ call' \in [Uploads -> CallRecord]
        /\ call'[u].step = "sending" /\ call'[u].client = call[u].client
        /\ \A v \in Uploads : v # u => call'[v] = call[v]
    BY <1>1, <1>3, ChunkFacts DEF SendChunk
  <2>2. LockDiscipline'
    BY <1>1, <1>3, <2>1, LockKept DEF SendChunk, Active
  <2>3. QED
    BY <1>2, <1>3, <2>1, <2>2, WritingStep DEF SendChunk
<1>4. ASSUME call[u].step = "sending", UNCHANGED client, Ends(u), Releases(u)
      PROVE  /\ LockDiscipline'
             /\ call' \in [Uploads -> CallRecord] /\ call'[u].step = "closing"
             /\ \A v \in Uploads : v # u => call'[v] = call[v]
  BY <1>1, <1>4, LockReleased, EndsFacts DEF Active
<1>5. CASE SendLast(u)
  <2>1. Written(u) = Whole(u)
    BY <1>5 DEF SendLast, Accepts
  <2>2. CASE Ends(u) /\ Releases(u)
    BY <1>2, <1>4, <1>5, <2>2, WritingStep DEF SendLast
  <2>3. CASE Goes(u, "starting") /\ UNCHANGED lock
    <3>1. /\ call' \in [Uploads -> CallRecord]
          /\ call'[u].step = "starting" /\ call'[u].client = call[u].client
          /\ \A v \in Uploads : v # u => call'[v] = call[v]
      BY <1>1, <2>3, GoesFacts DEF Steps
    <3>2. LockDiscipline'
      BY <1>1, <1>5, <2>3, <3>1, LockKept DEF SendLast, Active
    <3>3. QED
      BY <1>2, <1>5, <2>1, <3>1, <3>2, WritingStep DEF SendLast
  <2>4. QED
    BY <1>5, <2>2, <2>3 DEF SendLast
<1>6. CASE SendFails(u)
  <2>1. PICK f \in {file, Written(u)} : Write(u, f)
    BY <1>6 DEF SendFails
  <2>2. f \in [1..Chunks -> Uploads \union {NoOne}]
    BY <1>1, <1>2 DEF TypeOK
  <2>3. QED
    BY <1>4, <1>6, <2>1, <2>2, WritingStep DEF SendFails
<1>7. QED
  BY <1>3, <1>5, <1>6

\* A print that is begun has a record of its type.
LEMMA PrintsFacts ==
    ASSUME TypeOK, NEW u \in Uploads \union {NoOne}, Prints(u, file)
    PROVE  /\ job' \in [n : 0..MaxJobs, of : Contents, by : Uploads \union {NoOne}, on : BOOLEAN]
           /\ job'.n = job.n + 1 /\ job'.of = Content(file) /\ job'.by = u
           /\ tainted' \in BOOLEAN
<1>1. job.n + 1 \in 0..MaxJobs
  BY ConstantsAssumption DEF TypeOK, Prints
<1>2. QED
  BY <1>1, ContentType DEF Prints

LEMMA StartingStep ==
    ASSUME UInv, NEW u \in Uploads, StartUploaded(u)
    PROVE  UInv'
<1>1. TypeOK /\ call[u].step \in Active
  BY DEF UInv, StartUploaded, Active
<1>2. LockDiscipline'
  BY <1>1, LockReleased DEF StartUploaded
<1>3. /\ call' \in [Uploads -> CallRecord] /\ call'[u].step = "closing"
      /\ \A v \in Uploads : v # u => call'[v] = call[v]
  BY <1>1, EndsFacts DEF StartUploaded
<1>4. /\ job' \in [n : 0..MaxJobs, of : Contents, by : Uploads \union {NoOne}, on : BOOLEAN]
      /\ tainted' \in BOOLEAN
  BY <1>1, PrintsFacts DEF StartUploaded, NotStarted, TypeOK
<1>5. TypeOK'
  BY <1>1, <1>2, <1>3, <1>4
     DEF StartUploaded, TypeOK, LockDiscipline, LockHeld, CallRecord, jobs
<1>6. StartsOwnFile'
  BY <1>3 DEF UInv, StartsOwnFile, StartUploaded
<1>7. OwnFile'
  <2>1. CASE NotStarted
    BY <2>1 DEF UInv, OwnFile, NotStarted, StartUploaded
  <2>2. CASE Prints(u, file)
    <3>1. client = 0 => file = Whole(u)
      BY DEF UInv, StartsOwnFile, StartUploaded
    <3>2. QED
      BY <1>1, <2>2, <3>1, PrintsFacts, WholeContent DEF OwnFile, StartUploaded
  <2>3. QED
    BY <2>1, <2>2 DEF StartUploaded
<1>8. QED
  BY <1>2, <1>5, <1>6, <1>7 DEF UInv, LockDiscipline
-----------------------------------------------------------------------------
(***************************************************************************)
(* The other steps.                                                        *)
(***************************************************************************)
InfoRecord == [task : 0..MaxJobs, fresh : BOOLEAN, detail : Contents, thumb : Contents,
               proxy : 0..MaxJobs, shown : Contents, image : Contents, slots : 0..MaxJobs]

LEMMA WantedType ==
    ASSUME NEW i, NEW layers
    PROVE  /\ Wanted(i, layers) \subseteq Requests
           /\ \A r \in Wanted(i, layers) : r.reply = Nothing /\ ~InFlight(r.kind)
           /\ \A r, s \in Wanted(i, layers) : r.kind = s.kind => r = s
BY DEF Wanted, Ask, MayAsk, Requests, Contents

\* The jobs for which the proxy may answer.
LEMMA AskedType ==
    ASSUME TypeOK
    PROVE  AskedOfProxy \subseteq 1..MaxJobs
<1>1. info.task \in 0..MaxJobs /\ overtaken \subseteq 1..MaxJobs
  BY DEF TypeOK
<1>2. info.task # 0 => info.task \in 1..MaxJobs
  BY <1>1, ConstantsAssumption
<1>3. QED
  BY <1>1, <1>2 DEF AskedOfProxy

\* What each step does to the caches and the requests.
LEMMA UpdateFacts ==
    ASSUME TypeOK, Update
    PROVE  /\ info' \in InfoRecord /\ info'.task = job.n
           /\ \E layers \in BOOLEAN, i \in InfoRecord : flight' = flight \union Wanted(i, layers)
           /\ info'.fresh = (info.task # job.n) /\ info'.slots = info.proxy
           /\ overtaken' \subseteq 1..MaxJobs
           /\ info.task = job.n =>
                 /\ info'.proxy = info.proxy /\ overtaken' = overtaken
                 /\ info'.detail = info.detail /\ info'.thumb = info.thumb
                 /\ info'.shown = info.detail /\ info'.image \in {info.image, info.thumb}
           /\ info.task # job.n =>
                 /\ info'.detail = Nothing /\ info'.thumb = Nothing /\ info'.image = Nothing
                 /\ info'.proxy = 0
<1> DEFINE c == IF info.task # job.n THEN ClearStaleCaches(info) ELSE info
<1>1. info \in InfoRecord /\ job.n \in 0..MaxJobs /\ Nothing \in Contents
  BY DEF TypeOK, InfoRecord, Contents
<1>2. /\ c \in InfoRecord
      /\ info.task = job.n => c = info
      /\ info.task # job.n => c.detail = Nothing /\ c.thumb = Nothing /\ c.proxy = 0
  <2>1. 0 \in 0..MaxJobs
    BY ConstantsAssumption
  <2>2. /\ ClearStaleCaches(info) \in InfoRecord /\ ClearStaleCaches(info).detail = Nothing
        /\ ClearStaleCaches(info).thumb = Nothing /\ ClearStaleCaches(info).proxy = 0
    BY <1>1, <2>1 DEF ClearStaleCaches, InfoRecord
  <2>3. QED
    BY <1>1, <2>2
<1>3. PICK layers \in BOOLEAN :
         /\ flight' = flight \union Wanted(c, layers)
         /\ info' = [c EXCEPT !.task = job.n, !.fresh = info.task # job.n,
                       !.shown = info.detail, !.slots = info.proxy,
                       !.image = IF info.task # job.n \/ c.thumb # Nothing THEN c.thumb ELSE @]
  BY DEF Update
<1> HIDE DEF c
<1>4. info' \in InfoRecord /\ info'.task = job.n /\ info'.fresh = (info.task # job.n)
  BY <1>1, <1>2, <1>3 DEF InfoRecord
<1>5. /\ info'.detail = c.detail /\ info'.thumb = c.thumb /\ info'.proxy = c.proxy
      /\ info'.shown = info.detail /\ info'.slots = info.proxy
      /\ info'.image = IF info.task # job.n \/ c.thumb # Nothing THEN c.thumb ELSE c.image
  BY <1>2, <1>3 DEF InfoRecord
<1>6. overtaken' \subseteq 1..MaxJobs /\ (info.task = job.n => overtaken' = overtaken)
  BY AskedType DEF Update, TypeOK
<1>7. QED
  BY <1>2, <1>3, <1>4, <1>5, <1>6

LEMMA AnswerFacts ==
    ASSUME TypeOK, NEW r \in flight, Answered(r)
    PROVE  /\ info' \in InfoRecord /\ info'.task = info.task /\ info'.fresh = info.fresh
           /\ \E layers \in BOOLEAN, i \in InfoRecord :
                 flight' = (flight \union Wanted(i, layers)) \ {r}
           /\ info'.detail \in {info.detail, r.reply} /\ info'.thumb \in {info.thumb, r.reply}
           /\ info'.shown \in {info.detail, r.reply} /\ info'.image \in {info.image, r.reply}
           /\ info'.proxy = info.proxy /\ info'.slots = info.proxy
<1>1. info \in InfoRecord /\ r.reply \in Contents
  BY DEF TypeOK, InfoRecord, Requests
<1>2. info' = Stored(info, r)
  BY DEF Answered
<1>3. /\ info' \in InfoRecord /\ info'.task = info.task /\ info'.fresh = info.fresh
      /\ info'.detail \in {info.detail, r.reply} /\ info'.thumb \in {info.thumb, r.reply}
      /\ info'.shown \in {info.detail, r.reply} /\ info'.image \in {info.image, r.reply}
      /\ info'.proxy = info.proxy /\ info'.slots = info.proxy
  BY <1>1, <1>2 DEF Stored, InfoRecord
<1>4. \E layers \in BOOLEAN : flight' = (flight \union Wanted(info', layers)) \ {r}
  BY DEF Answered
<1>5. QED
  BY <1>3, <1>4

LEMMA ProxyFacts ==
    ASSUME TypeOK, NEW j \in AskedOfProxy, ProxyAnswers(j)
    PROVE  /\ info' \in InfoRecord /\ info'.task = info.task /\ info'.fresh = info.fresh
           /\ \E layers \in BOOLEAN, i \in InfoRecord : flight' = flight \union Wanted(i, layers)
           /\ info'.detail = info.detail /\ info'.thumb = info.thumb
           /\ info'.shown = info.detail /\ info'.image = info.image
           /\ info'.proxy = j /\ info'.slots = j
<1>1. info \in InfoRecord /\ j \in 0..MaxJobs
  BY AskedType, ConstantsAssumption DEF TypeOK, InfoRecord
<1>2. info' = [info EXCEPT !.proxy = j, !.slots = j, !.shown = info.detail]
  BY DEF ProxyAnswers
<1>3. /\ info' \in InfoRecord /\ info'.task = info.task /\ info'.fresh = info.fresh
      /\ info'.detail = info.detail /\ info'.thumb = info.thumb
      /\ info'.shown = info.detail /\ info'.image = info.image
      /\ info'.proxy = j /\ info'.slots = j
  BY <1>1, <1>2 DEF InfoRecord
<1>4. \E layers \in BOOLEAN : flight' = flight \union Wanted(info', layers)
  BY DEF ProxyAnswers
<1>5. QED
  BY <1>3, <1>4

LEMMA ReplyFacts ==
    ASSUME TypeOK, NEW r \in flight, PrinterReplies(r)
    PROVE  \E q \in Requests : /\ q.kind = r.kind /\ q.reply = Content(file)
                               /\ flight' = (flight \ {r}) \union {q}
<1>1. r \in Requests /\ Content(file) \in Contents
  BY ContentType DEF TypeOK
<1>2. [r EXCEPT !.reply = Content(file)] \in Requests
  BY <1>1 DEF Requests
<1>3. QED
  BY <1>1, <1>2 DEF PrinterReplies, Requests

\* A step that leaves the file, the calls and the present client alone.
LEMMA OtherStep ==
    ASSUME UInv, UNCHANGED <<file, client, uploads>>,
           job' \in [n : 0..MaxJobs, of : Contents, by : Uploads \union {NoOne}, on : BOOLEAN],
           job'.by = NoOne \/ (job'.by = job.by /\ job'.of = job.of),
           info' \in InfoRecord, flight' \subseteq Requests, overtaken' \subseteq 1..MaxJobs,
           tainted' \in BOOLEAN
    PROVE  UInv'
<1>1. TypeOK'
  BY DEF UInv, TypeOK, InfoRecord, uploads
<1>2. Locked' /\ KnownClients' /\ StartsOwnFile'
  BY DEF UInv, Locked, KnownClients, StartsOwnFile, uploads
<1>3. OwnFile'
  BY DEF UInv, OwnFile
<1>4. QED
  BY <1>1, <1>2, <1>3 DEF UInv

LEMMA ReloadStep ==
    ASSUME UInv, Reload
    PROVE  UInv'
<1>1. client \in Nat /\ client' = client + 1 /\ client' \in Clients
  BY ConstantsAssumption DEF UInv, TypeOK, Reload, Clients
<1>2. NewInfo \in InfoRecord
  BY ConstantsAssumption DEF NewInfo, InfoRecord, Contents
<1>3. TypeOK'
  BY <1>1, <1>2 DEF UInv, TypeOK, InfoRecord, Reload, printer, uploads
<1>4. Locked' /\ KnownClients'
  BY <1>1 DEF UInv, TypeOK, Clients, Locked, KnownClients, Reload, uploads
<1>5. StartsOwnFile' /\ OwnFile'
  BY <1>1 DEF StartsOwnFile, OwnFile
<1>6. QED
  BY <1>3, <1>4, <1>5 DEF UInv

LEMMA UInvKept ==
    ASSUME UInv, [Next]_vars
    PROVE  UInv'
<1>1. /\ TypeOK /\ info \in InfoRecord /\ flight \subseteq Requests
      /\ overtaken \subseteq 1..MaxJobs /\ tainted \in BOOLEAN
      /\ job \in [n : 0..MaxJobs, of : Contents, by : Uploads \union {NoOne}, on : BOOLEAN]
  BY DEF UInv, TypeOK, InfoRecord
<1>2. ASSUME NEW u \in Uploads, UploadSteps(u) PROVE UInv'
  BY <1>2, QuietSteps, WritingSteps, StartingStep DEF UploadSteps
<1>3. CASE StartPrint
  <2>1. Prints(NoOne, file) /\ UNCHANGED <<file, client, uploads, info, flight, overtaken>>
    BY <1>3 DEF StartPrint, jobs
  <2>2. /\ job' \in [n : 0..MaxJobs, of : Contents, by : Uploads \union {NoOne}, on : BOOLEAN]
        /\ job'.by = NoOne /\ tainted' \in BOOLEAN
    BY <1>1, <2>1, PrintsFacts
  <2>3. QED
    BY <1>1, <2>1, <2>2, OtherStep
<1>4. CASE JobEnds
  BY <1>1, <1>4, OtherStep DEF JobEnds, jobs
<1>5. CASE Reload
  BY <1>5, ReloadStep
<1>6. CASE StatusUpdate
  <2>1. info' \in InfoRecord /\ flight' \subseteq Requests /\ overtaken' \subseteq 1..MaxJobs
    BY <1>1, <1>6, UpdateFacts, WantedType DEF StatusUpdate
  <2>2. QED
    BY <1>1, <1>6, <2>1, OtherStep DEF StatusUpdate, printer
<1>7. ASSUME NEW j \in AskedOfProxy, ProxyAnswers(j) PROVE UInv'
  <2>1. info' \in InfoRecord /\ flight' \subseteq Requests
    BY <1>1, <1>7, ProxyFacts, WantedType
  <2>2. QED
    BY <1>1, <1>7, <2>1, OtherStep DEF ProxyAnswers, printer
<1>8. ASSUME NEW r \in flight, PrinterReplies(r) PROVE UInv'
  <2>1. flight' \subseteq Requests
    BY <1>1, <1>8, ReplyFacts
  <2>2. QED
    BY <1>1, <1>8, <2>1, OtherStep DEF PrinterReplies, printer
<1>9. ASSUME NEW r \in flight, Answered(r) PROVE UInv'
  <2>1. info' \in InfoRecord /\ flight' \subseteq Requests
    BY <1>1, <1>9, AnswerFacts, WantedType
  <2>2. QED
    BY <1>1, <1>9, <2>1, OtherStep DEF Answered, printer
<1>10. ASSUME NEW r \in flight, RequestFails(r) PROVE UInv'
  BY <1>1, <1>10, OtherStep DEF RequestFails, printer
<1>11. CASE UNCHANGED vars
  BY <1>1, <1>11, OtherStep DEF vars, printer, jobs
<1>12. QED
  BY <1>2, <1>3, <1>4, <1>5, <1>6, <1>7, <1>8, <1>9, <1>10, <1>11 DEF Next

LEMMA UInvInit ==
    ASSUME Init
    PROVE  UInv
<1>1. NewInfo \in InfoRecord /\ 0 \in Clients /\ 0 \in 0..MaxJobs /\ 1 \in 1..Chunks
  BY ConstantsAssumption DEF NewInfo, InfoRecord, Contents, Clients
<1>2. TypeOK
  BY <1>1 DEF Init, TypeOK, InfoRecord, NoFile, Contents, Steps
<1>3. QED
  BY <1>1, <1>2 DEF Init, UInv, Locked, KnownClients, StartsOwnFile, OwnFile, Active
-----------------------------------------------------------------------------
(***************************************************************************)
(* The theorems about uploads.                                             *)
(***************************************************************************)
\* An upload that starts its file prints the whole of it and nothing of another
\* call's, whatever the number of calls and ranges (PrintsOwnFile), as long as the
\* entry has the client, and so the lock, it began with.
THEOREM PrintsOwnFileTheorem == Spec => []PrintsOwnFile
<1>1. UInv => PrintsOwnFile
  BY DEF UInv, OwnFile, PrintsOwnFile
<1>2. QED
  BY <1>1, UInvInit, UInvKept, PTL DEF Spec
-----------------------------------------------------------------------------
(***************************************************************************)
(* The caches.                                                             *)
(***************************************************************************)
OnePerKind == \A r, s \in flight : r.kind = s.kind => r = s

\* The caches are never ahead of the printer.
Behind == info.task <= job.n

\* What printer and client have for the job that is printing, unless the file or
\* a request was overtaken.
FileOfJob == ~tainted /\ job.n > 0 => Content(file) = job.of
CachesOfJob ==
    ~tainted /\ job.n > 0 /\ info.task = job.n =>
        /\ info.detail \in {Nothing, job.of} /\ info.thumb \in {Nothing, job.of}
        /\ info.image \in {Nothing, job.of}
        /\ ~info.fresh => info.shown \in {Nothing, job.of}
        /\ \A r \in flight : r.reply \in {Nothing, job.of}

\* Data of the proxy that the job did not ask for are those of an overtaken request.
ProxyOfJob ==
    info.task = job.n =>
        /\ info.proxy \in {0, job.n} \union overtaken
        /\ ~info.fresh => info.slots \in {0, job.n} \union overtaken

JInv == TypeOK /\ OnePerKind /\ Behind /\ FileOfJob /\ CachesOfJob /\ ProxyOfJob

\* A step that leaves the job, the caches and the requests alone, and writes
\* the file only as Write does.
LEMMA JInvUpload ==
    ASSUME JInv, TypeOK', NEW u \in Uploads, UploadSteps(u)
    PROVE  JInv'
<1>1. UNCHANGED jobs
  BY DEF UploadSteps, Call, StageFails, Acquire, CancelWaiting, SendChunk, SendLast,
         SendFails, StartUploaded, CloseChunks, RemoveCopy
<1>2. OnePerKind'
  BY <1>1 DEF JInv, OnePerKind, jobs
<1>3. CASE UNCHANGED <<file, job, tainted>>
  BY <1>1, <1>2, <1>3 DEF JInv, Behind, FileOfJob, CachesOfJob, ProxyOfJob, jobs
<1>4. CASE UNCHANGED job /\ \E f : Write(u, f)
  <2>1. UNCHANGED <<job, info, flight, overtaken>> /\ job.n \in Nat
    BY <1>1, <1>4 DEF JInv, TypeOK, jobs
  <2>2. PICK f : Write(u, f)
    BY <1>4
  <2>3. CASE f = file
    <3>1. file' = file /\ tainted' = tainted
      BY <2>2, <2>3 DEF JInv, TypeOK, Write
    <3>2. QED
      BY <1>3, <2>1, <3>1
  <2>4. CASE f # file
    <3>1. tainted' \/ job.n = 0
      <4>1. job.n > 0 \/ job.n = 0
        BY <2>1
      <4>2. QED
        BY <2>2, <2>4, <4>1, Zenon DEF Write
    <3>2. Behind' /\ FileOfJob' /\ CachesOfJob' /\ ProxyOfJob'
      BY <2>1, <3>1 DEF JInv, Behind, FileOfJob, CachesOfJob, ProxyOfJob
    <3>3. QED
      BY <1>2, <3>2 DEF JInv
  <2>5. QED
    BY <2>3, <2>4
<1>5. CASE Prints(u, file) /\ UNCHANGED file
  <2>1. TypeOK /\ UNCHANGED <<file, info, flight, overtaken>>
    BY <1>1, <1>5 DEF JInv, jobs
  <2>2. job'.n = job.n + 1 /\ job'.of = Content(file)
    BY <1>5, <2>1, PrintsFacts
  <2>3. job.n \in Nat /\ info.task \in Nat
    BY <2>1 DEF TypeOK
  <2>4. Behind' /\ FileOfJob' /\ CachesOfJob' /\ ProxyOfJob'
    BY <2>1, <2>2, <2>3 DEF JInv, Behind, FileOfJob, CachesOfJob, ProxyOfJob
  <2>5. QED
    BY <1>2, <2>4 DEF JInv
<1>6. QED
  BY <1>3, <1>4, <1>5
     DEF UploadSteps, Call, StageFails, Acquire, CancelWaiting, SendChunk, SendLast,
         SendFails, StartUploaded, NotStarted, CloseChunks, RemoveCopy, printer

\* An update asks only for what is not under way.
LEMMA AskedOnce ==
    ASSUME OnePerKind, NEW i, NEW layers, flight' = flight \union Wanted(i, layers)
    PROVE  OnePerKind'
BY WantedType DEF OnePerKind, InFlight

LEMMA JInvStatus ==
    ASSUME JInv, TypeOK', StatusUpdate
    PROVE  JInv'
<1>1. Update /\ job.n \in Nat /\ UNCHANGED <<file, job>> /\ TypeOK
  BY DEF JInv, TypeOK, StatusUpdate, printer
<1>2. PICK layers \in BOOLEAN, i \in InfoRecord : flight' = flight \union Wanted(i, layers)
  BY <1>1, UpdateFacts
<1>3. OnePerKind'
  BY <1>2, AskedOnce DEF JInv
<1>4. Behind' /\ FileOfJob'
  BY <1>1, UpdateFacts DEF JInv, TypeOK, Behind, FileOfJob, StatusUpdate
<1>5. CachesOfJob'
  <2> SUFFICES ASSUME ~tainted'
               PROVE  /\ info'.detail \in {Nothing, job.of} /\ info'.thumb \in {Nothing, job.of}
                      /\ info'.image \in {Nothing, job.of}
                      /\ ~info'.fresh => info'.shown \in {Nothing, job.of}
                      /\ \A r \in flight' : r.reply \in {Nothing, job.of}
    BY <1>1 DEF CachesOfJob
  <2>1. CASE info.task = job.n
    <3>1. /\ info.detail \in {Nothing, job.of} /\ info.thumb \in {Nothing, job.of}
          /\ info.image \in {Nothing, job.of} /\ \A r \in flight : r.reply \in {Nothing, job.of}
      BY <1>1, <2>1 DEF JInv, TypeOK, CachesOfJob, StatusUpdate
    <3>2. QED
      BY <1>1, <1>2, <2>1, <3>1, UpdateFacts, WantedType
  <2>2. CASE info.task # job.n
    <3>1. ~InFlight("detail") /\ ~InFlight("thumb")
      BY <2>2 DEF StatusUpdate
    <3>2. \A r \in flight : r.kind \in {"detail", "thumb"}
      BY <1>1 DEF TypeOK, Requests
    <3>3. flight = {}
      BY <3>1, <3>2 DEF InFlight
    <3>4. QED
      BY <1>1, <1>2, <2>2, <3>3, UpdateFacts, WantedType
  <2>3. QED
    BY <2>1, <2>2
<1>6. ProxyOfJob'
  BY <1>1, UpdateFacts DEF JInv, ProxyOfJob
<1>7. QED
  BY <1>3, <1>4, <1>5, <1>6 DEF JInv

LEMMA JInvProxy ==
    ASSUME JInv, TypeOK', NEW j \in AskedOfProxy, ProxyAnswers(j)
    PROVE  JInv'
<1>1. TypeOK /\ UNCHANGED <<file, job, overtaken, tainted>>
  BY DEF JInv, ProxyAnswers, printer
<1>2. PICK layers \in BOOLEAN, i \in InfoRecord : flight' = flight \union Wanted(i, layers)
  BY <1>1, ProxyFacts
<1>3. OnePerKind'
  BY <1>2, AskedOnce DEF JInv
<1>4. \A r \in flight' : r \in flight \/ r.reply = Nothing
  BY <1>2, WantedType
<1>5. Behind' /\ FileOfJob' /\ CachesOfJob'
  BY <1>1, <1>4, ProxyFacts DEF JInv, Behind, FileOfJob, CachesOfJob
<1>6. j \in overtaken \/ j = info.task
  BY DEF AskedOfProxy
<1>7. ProxyOfJob'
  BY <1>1, <1>6, ProxyFacts DEF ProxyOfJob
<1>8. QED
  BY <1>3, <1>5, <1>7 DEF JInv

LEMMA JInvReplies ==
    ASSUME JInv, TypeOK', NEW r \in flight, PrinterReplies(r)
    PROVE  JInv'
<1>1. TypeOK /\ UNCHANGED <<file, job, info, overtaken, tainted>>
  BY DEF JInv, PrinterReplies, printer
<1>2. PICK q \in Requests : /\ q.kind = r.kind /\ q.reply = Content(file)
                            /\ flight' = (flight \ {r}) \union {q}
  BY <1>1, ReplyFacts
<1>3. OnePerKind'
  BY <1>2 DEF JInv, OnePerKind
<1>4. Behind' /\ FileOfJob' /\ CachesOfJob' /\ ProxyOfJob'
  BY <1>1, <1>2 DEF JInv, Behind, FileOfJob, CachesOfJob, ProxyOfJob
<1>5. QED
  BY <1>3, <1>4 DEF JInv

LEMMA JInvAnswered ==
    ASSUME JInv, TypeOK', NEW r \in flight, Answered(r)
    PROVE  JInv'
<1>1. TypeOK /\ UNCHANGED <<file, job, overtaken, tainted>>
  BY DEF JInv, Answered, printer
<1>2. PICK layers \in BOOLEAN, i \in InfoRecord :
         flight' = (flight \union Wanted(i, layers)) \ {r}
  BY <1>1, AnswerFacts
<1>3. OnePerKind'
  BY <1>2, WantedType DEF JInv, OnePerKind, InFlight
<1>4. \A q \in flight' : q \in flight \/ q.reply = Nothing
  BY <1>2, WantedType
<1>5. Behind' /\ FileOfJob'
  BY <1>1, AnswerFacts DEF JInv, Behind, FileOfJob
<1>6. CachesOfJob'
  BY <1>1, <1>4, AnswerFacts DEF JInv, CachesOfJob
<1>7. ProxyOfJob'
  BY <1>1, AnswerFacts DEF JInv, ProxyOfJob
<1>8. QED
  BY <1>3, <1>5, <1>6, <1>7 DEF JInv

LEMMA JInvKept ==
    ASSUME JInv, TypeOK', [Next]_vars
    PROVE  JInv'
<1>1. ASSUME NEW u \in Uploads, UploadSteps(u) PROVE JInv'
  BY <1>1, JInvUpload
<1>2. CASE StartPrint
  <2>1. UNCHANGED <<file, info, flight, overtaken>> /\ TypeOK /\ Prints(NoOne, file)
    BY <1>2 DEF JInv, StartPrint, jobs
  <2>2. job'.n = job.n + 1 /\ job'.of = Content(file)
    BY <2>1, PrintsFacts
  <2>3. job.n \in Nat /\ info.task \in Nat
    BY <2>1 DEF TypeOK
  <2>4. QED
    BY <2>1, <2>2, <2>3 DEF JInv, OnePerKind, Behind, FileOfJob, CachesOfJob, ProxyOfJob
<1>3. CASE JobEnds
  <2>1. /\ UNCHANGED <<file, info, flight, overtaken, tainted>>
        /\ job'.n = job.n /\ job'.of = job.of
    BY <1>3 DEF JInv, TypeOK, JobEnds, jobs
  <2>2. QED
    BY <2>1 DEF JInv, OnePerKind, Behind, FileOfJob, CachesOfJob, ProxyOfJob
<1>4. CASE Reload
  <2>1. /\ UNCHANGED <<file, job, tainted>> /\ flight' = {} /\ info'.task = 0
        /\ info'.proxy = 0 /\ info'.slots = 0 /\ job.n \in Nat
    BY <1>4 DEF JInv, TypeOK, Reload, NewInfo, printer
  <2>2. QED
    BY <2>1 DEF JInv, OnePerKind, Behind, FileOfJob, CachesOfJob, ProxyOfJob
<1>5. ASSUME NEW r \in flight, RequestFails(r) PROVE JInv'
  <2>1. UNCHANGED <<file, job, info, overtaken, tainted>> /\ flight' \subseteq flight
    BY <1>5 DEF RequestFails, printer
  <2>2. QED
    BY <2>1 DEF JInv, OnePerKind, Behind, FileOfJob, CachesOfJob, ProxyOfJob
<1>6. CASE UNCHANGED vars
  <2>1. UNCHANGED <<file, job, info, flight, overtaken, tainted>>
    BY <1>6 DEF vars, printer, jobs
  <2>2. QED
    BY <2>1 DEF JInv, OnePerKind, Behind, FileOfJob, CachesOfJob, ProxyOfJob
<1>7. QED
  BY <1>1, <1>2, <1>3, <1>4, <1>5, <1>6, JInvStatus, JInvProxy, JInvReplies, JInvAnswered
     DEF Next

\* Two requests of a kind would be one.
LEMMA OneOfAKind ==
    ASSUME OnePerKind
    PROVE  OneFetchAtATime
<1> SUFFICES ASSUME NEW k \in {"detail", "thumb"}
             PROVE  Cardinality({r \in flight : r.kind = k}) <= 1
  BY DEF OneFetchAtATime
<1> DEFINE S == {r \in flight : r.kind = k}
<1>1. CASE S = {}
  BY <1>1, FS_EmptySet
<1>2. CASE S # {}
  <2>1. PICK r : r \in S
    BY <1>2
  <2>2. S = {r}
    BY <2>1 DEF OnePerKind
  <2>3. QED
    BY <2>2, FS_Singleton
<1>3. QED
  BY <1>1, <1>2

\* The caches of a job are those of its file, for any number of jobs and reloads,
\* with the exceptions that JobShowsItsFile names, those for late answers of the
\* gcode proxy included; and one request of a kind is under way at a time.
THEOREM JobShowsItsFileTheorem == Spec => []JobShowsItsFile
<1>1. Init => JInv
  <2> SUFFICES ASSUME Init PROVE JInv
    OBVIOUS
  <2>1. TypeOK
    BY UInvInit DEF UInv
  <2>2. QED
    BY <2>1 DEF Init, JInv, OnePerKind, Behind, FileOfJob, CachesOfJob, ProxyOfJob, NewInfo
<1>2. UInv /\ UInv' /\ JInv /\ [Next]_vars => JInv'
  BY JInvKept DEF UInv
<1>3. JInv => JobShowsItsFile
  BY OneOfAKind DEF JInv, CachesOfJob, ProxyOfJob, JobShowsItsFile
<1>4. QED
  BY <1>1, <1>2, <1>3, UInvInit, UInvKept, PTL DEF Spec
=============================================================================
