--------------------------- MODULE CC2Status_proofs ---------------------------
(***************************************************************************)
(* Proofs about CC2Status, for any number of events, any gap limit and any *)
(* length of the queue: the cache is the printer's status, and Home        *)
(* Assistant records every print status once and in order.                 *)
(***************************************************************************)
EXTENDS CC2Status, SequenceTheorems, WellFoundedInduction, TLAPS

\* The part of the type invariant that the proofs need.
Frame == [kind : {"full", "delta"}, n : Nat, status : Partial]
StatusOK ==
    /\ truth \in Seq(States) /\ truth # <<>>
    /\ wire \in Seq(Frame)
    /\ requests \in Nat
    /\ seen \in Nat /\ intact \in BOOLEAN

\* A frame tells what the printer's statuses t were about its event.
Truthful(f, t) ==
    /\ f.n \in 1..Len(t)
    /\ f.kind = "full" => f.status = t[f.n]
    /\ f.kind = "delta" => f.n > 1 /\ f.status = Delta(t[f.n - 1], t[f.n])

\* The cache can be the printer's status only if what reaches it is; the order of
\* the frames does not matter, since their numbers tell what is missing.
IInv ==
    /\ StatusOK
    /\ \A i \in DOMAIN wire : Truthful(wire[i], truth)
    /\ sequence = seen
    /\ intact => seen \in 1..Now
    /\ CacheIsSnapshot
-----------------------------------------------------------------------------
(***************************************************************************)
(* Statuses and deltas.                                                    *)
(***************************************************************************)
LEMMA DeltaType ==
    ASSUME NEW a \in States, NEW b \in States
    PROVE  Delta(a, b) \in Partial
BY DEF Delta, Fresh, States, Partial

\* What a delta brings is all that has changed.
LEMMA MergedDelta ==
    ASSUME NEW a \in States, NEW b \in States
    PROVE  DeepMerge(a, Delta(a, b)) = b
<1>1. Unset \notin PrintStatuses /\ Unset \notin {"low", "high"}
  BY DEF Unset, PrintStatuses
<1>2. a.sub_status \in PrintStatuses /\ b.sub_status \in PrintStatuses
      /\ a.progress \in {"low", "high"} /\ b.progress \in {"low", "high"}
  BY DEF States
<1>3. /\ Over(a.sub_status, Fresh(a.sub_status, b.sub_status)) = b.sub_status
      /\ Over(a.progress, Fresh(a.progress, b.progress)) = b.progress
  BY <1>1, <1>2 DEF Over, Fresh
<1>4. b = [sub_status |-> b.sub_status, progress |-> b.progress]
  BY DEF States
<1>5. QED
  BY <1>3, <1>4 DEF DeepMerge, Delta

LEMMA StatesPartial == States \subseteq Partial
BY DEF States, Partial

LEMMA LastTruth ==
    ASSUME StatusOK
    PROVE  Now \in Nat \ {0} /\ Last(truth) = truth[Now] /\ Last(truth) \in States
BY DEF StatusOK, Last, Now
-----------------------------------------------------------------------------
(***************************************************************************)
(* The frames on their way.                                                *)
(***************************************************************************)
LEMMA SentFrame ==
    ASSUME IInv, NEW f \in Frame, Truthful(f, truth), wire' = Append(wire, f), UNCHANGED truth
    PROVE  wire' \in Seq(Frame) /\ \A i \in DOMAIN wire' : Truthful(wire'[i], truth)
BY DEF IInv, StatusOK

LEMMA RemovedOne ==
    ASSUME NEW S, NEW s \in Seq(S), NEW i \in 1..Len(s)
    PROVE  /\ RemoveAt(s, i) \in Seq(S)
           /\ \A j \in DOMAIN RemoveAt(s, i) : \E k \in DOMAIN s : RemoveAt(s, i)[j] = s[k]
<1> DEFINE a == SubSeq(s, 1, i - 1)
           b == SubSeq(s, i + 1, Len(s))
<1>1. /\ a \in Seq(S) /\ Len(a) = i - 1
      /\ \A j \in 1..(i - 1) : a[j] = s[j]
  OBVIOUS
<1>2. /\ b \in Seq(S) /\ Len(b) = Len(s) - i
      /\ \A j \in 1..(Len(s) - i) : b[j] = s[i + j]
  OBVIOUS
<1>3. RemoveAt(s, i) = a \o b
  BY DEF RemoveAt
<1> HIDE DEF a, b
<1>4. Len(s) \in Nat /\ i \in Nat /\ 1 <= i /\ i <= Len(s)
  OBVIOUS
<1>5. /\ a \o b \in Seq(S) /\ Len(a \o b) = Len(a) + Len(b)
      /\ \A j \in 1..(Len(a) + Len(b)) :
             (a \o b)[j] = IF j <= Len(a) THEN a[j] ELSE b[j - Len(a)]
  BY <1>1, <1>2, ConcatProperties
<1>6. ASSUME NEW j \in 1..(Len(a) + Len(b))
      PROVE  \E k \in 1..Len(s) : (a \o b)[j] = s[k]
  <2>1. CASE j <= i - 1
    <3>1. (a \o b)[j] = s[j] /\ j \in 1..Len(s)
      BY <1>1, <1>2, <1>4, <1>5, <2>1
    <3>2. QED
      BY <3>1
  <2>2. CASE j > i - 1
    <3>1. j - (i - 1) \in 1..(Len(s) - i) /\ i + (j - (i - 1)) = j + 1 /\ j + 1 \in 1..Len(s)
      BY <1>1, <1>2, <1>4, <2>2
    <3>2. (a \o b)[j] = b[j - (i - 1)]
      BY <1>1, <1>4, <1>5, <2>2
    <3>3. b[j - (i - 1)] = s[i + (j - (i - 1))]
      BY <1>2, <3>1
    <3>4. QED
      BY <3>1, <3>2, <3>3
  <2>3. QED
    BY <1>4, <2>1, <2>2
<1>7. DOMAIN (a \o b) = 1..(Len(a) + Len(b)) /\ DOMAIN s = 1..Len(s)
  BY <1>5
<1>8. QED
  BY <1>3, <1>5, <1>6, <1>7

LEMMA LostFrame ==
    ASSUME IInv, NEW i \in DOMAIN wire, wire' = RemoveAt(wire, i)
    PROVE  wire' \in Seq(Frame) /\ \A j \in DOMAIN wire' : Truthful(wire'[j], truth)
<1>1. wire \in Seq(Frame) /\ i \in 1..Len(wire)
  BY DEF IInv, StatusOK
<1>2. QED
  BY <1>1, RemovedOne DEF IInv

LEMMA ReadFrame ==
    ASSUME IInv, wire # <<>>
    PROVE  /\ Head(wire) \in Frame /\ Truthful(Head(wire), truth)
           /\ Tail(wire) \in Seq(Frame) /\ \A i \in DOMAIN Tail(wire) : Truthful(Tail(wire)[i], truth)
<1>1. wire \in Seq(Frame) /\ Len(wire) \in Nat /\ Len(wire) > 0
  BY DEF IInv, StatusOK
<1>2. /\ Head(wire) = wire[1] /\ Tail(wire) \in Seq(Frame)
      /\ Len(Tail(wire)) = Len(wire) - 1
      /\ \A i \in 1..(Len(wire) - 1) : Tail(wire)[i] = wire[i + 1]
  BY <1>1
<1>3. QED
  BY <1>1, <1>2 DEF IInv
-----------------------------------------------------------------------------
(***************************************************************************)
(* The steps.                                                              *)
(***************************************************************************)
\* A step of the connection or the coordinator: what the printer and the cache
\* have stays, and the frames on their way tell the truth.
LEMMA ConnectionStep ==
    ASSUME IInv, UNCHANGED <<truth, cache, sequence, seen, intact>>, requests' \in Nat,
           wire' \in Seq(Frame), \A i \in DOMAIN wire' : Truthful(wire'[i], truth)
    PROVE  IInv'
<1>1. StatusOK' /\ CacheIsSnapshot'
  BY DEF IInv, StatusOK, CacheIsSnapshot
<1>2. \A i \in DOMAIN wire' : Truthful(wire'[i], truth')
  OBVIOUS
<1>3. QED
  BY <1>1, <1>2 DEF IInv, Now

\* What was true of an event stays true when there are more of them.
LEMMA PrinterStep ==
    ASSUME IInv, PrinterChanges
    PROVE  IInv'
<1>1. PICK s \in States :
        /\ truth' = Append(truth, s)
        /\ wire' = IF up THEN Append(wire, [kind |-> "delta", n |-> Now + 1,
                                            status |-> Delta(Last(truth), s)])
                   ELSE wire
  BY DEF PrinterChanges
<1>2. /\ Now \in Nat \ {0} /\ Now' = Now + 1 /\ truth'[Now + 1] = s
      /\ \A n \in 1..Now : truth'[n] = truth[n]
      /\ truth' \in Seq(States) /\ truth' # <<>>
  BY <1>1 DEF IInv, StatusOK, Now
<1>3. \A i \in DOMAIN wire : Truthful(wire[i], truth')
  <2> SUFFICES ASSUME NEW i \in DOMAIN wire PROVE Truthful(wire[i], truth')
    OBVIOUS
  <2> DEFINE f == wire[i]
  <2>1. Truthful(f, truth) /\ f \in Frame
    BY DEF IInv, StatusOK
  <2> HIDE DEF f
  <2>2. f.n \in 1..Len(truth) /\ f.n \in 1..Len(truth') /\ truth'[f.n] = truth[f.n]
    BY <1>2, <2>1 DEF Truthful, Now
  <2>3. f.kind = "delta" => f.n > 1 /\ f.n - 1 \in 1..Len(truth)
    BY <2>1, <2>2 DEF Truthful, Frame
  <2>4. Truthful(f, truth')
    BY <1>2, <2>1, <2>2, <2>3 DEF Truthful, Now
  <2>5. QED
    BY <2>4 DEF f
<1>4. wire' \in Seq(Frame) /\ \A i \in DOMAIN wire' : Truthful(wire'[i], truth')
  <2>1. CASE ~up
    BY <1>1, <1>3, <2>1 DEF IInv, StatusOK
  <2>2. CASE up
    <3> DEFINE f == [kind |-> "delta", n |-> Now + 1, status |-> Delta(Last(truth), s)]
    <3>1. Last(truth) = truth[Now] /\ Last(truth) \in States
      BY LastTruth DEF IInv
    <3>2. f \in Frame
      BY <1>2, <3>1, DeltaType DEF Frame
    <3>3. Truthful(f, truth')
      <4>1. f.n = Now + 1 /\ f.kind = "delta" /\ f.status = Delta(Last(truth), s)
        OBVIOUS
      <4>2. truth'[f.n] = s /\ truth'[f.n - 1] = Last(truth) /\ f.n \in 1..Now' /\ f.n > 1
        BY <1>2, <3>1, <4>1
      <4>3. QED
        BY <4>1, <4>2 DEF Truthful, Now
    <3>4. wire' = Append(wire, f)
      BY <1>1, <2>2
    <3> HIDE DEF f
    <3>5. /\ wire' \in Seq(Frame) /\ DOMAIN wire' = 1..(Len(wire) + 1)
          /\ wire'[Len(wire) + 1] = f /\ \A i \in DOMAIN wire : wire'[i] = wire[i]
      BY <3>2, <3>4 DEF IInv, StatusOK
    <3>6. ASSUME NEW i \in DOMAIN wire' PROVE Truthful(wire'[i], truth')
      <4>1. i = Len(wire) + 1 \/ i \in DOMAIN wire
        BY <3>5 DEF IInv, StatusOK
      <4>2. QED
        BY <1>3, <3>3, <3>5, <4>1
    <3>7. QED
      BY <3>5, <3>6
  <2>3. QED
    BY <2>1, <2>2
<1>5. UNCHANGED <<requests, cache, sequence, seen, intact>>
  BY DEF PrinterChanges, client
<1>6. CacheIsSnapshot' /\ (intact => seen \in 1..Now)'
  BY <1>2, <1>5 DEF IInv, CacheIsSnapshot
<1>7. QED
  BY <1>2, <1>4, <1>5, <1>6 DEF IInv, StatusOK

\* The step that matters: a frame becomes part of the cache.
LEMMA ListenerStep ==
    ASSUME IInv, HandleFullStatus \/ HandleDeltaStatus
    PROVE  IInv'
<1> DEFINE f == Head(wire)
<1>1. /\ f \in Frame /\ Truthful(f, truth)
      /\ wire' \in Seq(Frame) /\ \A i \in DOMAIN wire' : Truthful(wire'[i], truth)
      /\ UNCHANGED truth /\ sequence' = f.n /\ seen' = f.n
  BY ReadFrame DEF HandleFullStatus, HandleDeltaStatus
<1>2. \A i \in DOMAIN wire' : Truthful(wire'[i], truth')
  BY <1>1
<1>3. seen' \in 1..Now' /\ seen' \in Nat
  BY <1>1 DEF Truthful, Now, Frame
<1>4. requests' \in Nat /\ intact' \in BOOLEAN
  <2>1. requests \in Nat
    BY DEF IInv, StatusOK
  <2>2. requests' \in {requests, requests + 1}
    BY DEF HandleFullStatus, HandleDeltaStatus
  <2>3. intact' \in BOOLEAN
    BY DEF HandleFullStatus, HandleDeltaStatus
  <2>4. QED
    BY <2>1, <2>2, <2>3
<1>5. CacheIsSnapshot'
  <2>1. CASE HandleFullStatus
    BY <1>1, <2>1 DEF HandleFullStatus, Truthful, CacheIsSnapshot
  <2>2. CASE HandleDeltaStatus
    <3> SUFFICES ASSUME intact' PROVE cache' = truth[f.n]
      BY <1>1 DEF CacheIsSnapshot
    <3>1. intact /\ f.n = seen + 1 /\ f.kind = "delta" /\ cache' = DeepMerge(cache, f.status)
      BY <2>2 DEF HandleDeltaStatus
    <3>2. seen \in Nat /\ cache = truth[seen]
      BY <3>1 DEF IInv, StatusOK, CacheIsSnapshot
    <3>3. f.n - 1 = seen /\ f.status = Delta(truth[seen], truth[f.n])
      BY <1>1, <3>1, <3>2 DEF Truthful
    <3>4. truth[seen] \in States /\ truth[f.n] \in States
      <4>1. seen \in 1..Now /\ f.n \in 1..Now /\ truth \in Seq(States)
        BY <1>1, <3>1 DEF IInv, StatusOK, Truthful, Now
      <4>2. QED
        BY <4>1 DEF Now
    <3>5. QED
      BY <3>1, <3>2, <3>3, <3>4, MergedDelta
  <2>3. QED
    BY <2>1, <2>2
<1>6. QED
  BY <1>1, <1>2, <1>3, <1>4, <1>5 DEF IInv, StatusOK

LEMMA IInvInit ==
    ASSUME Init
    PROVE  IInv
<1>1. PICK s \in States : truth = <<s>>
  BY DEF Init
<1>2. truth \in Seq(States) /\ truth # <<>>
  BY <1>1
<1>3. /\ wire = <<>> /\ requests = 0 /\ seen = 0 /\ sequence = 0 /\ intact = FALSE
      /\ wire \in Seq(Frame) /\ DOMAIN wire = {}
  BY DEF Init
<1>4. QED
  BY <1>2, <1>3 DEF IInv, StatusOK, CacheIsSnapshot

LEMMA IInvKept ==
    ASSUME IInv, [Next]_vars
    PROVE  IInv'
<1>1. /\ requests \in Nat /\ wire \in Seq(Frame)
      /\ \A i \in DOMAIN wire : Truthful(wire[i], truth)
  BY DEF IInv, StatusOK
<1>2. CASE PrinterChanges
  BY <1>2, PrinterStep
<1>3. CASE HandleFullStatus \/ HandleDeltaStatus
  BY <1>3, ListenerStep
<1>4. CASE PrinterAnswers
  <2> DEFINE f == [kind |-> "full", n |-> Now, status |-> Last(truth)]
  <2>1. Now \in Nat \ {0} /\ Last(truth) = truth[Now] /\ Last(truth) \in States
    BY LastTruth DEF IInv
  <2>2. f \in Frame
    BY <2>1, StatesPartial DEF Frame
  <2>3. Truthful(f, truth)
    BY <2>1 DEF Truthful, Now
  <2>4. wire' \in Seq(Frame) /\ \A i \in DOMAIN wire' : Truthful(wire'[i], truth)
    BY <1>4, <2>2, <2>3, SentFrame DEF PrinterAnswers
  <2>5. QED
    BY <1>1, <1>4, <2>4, ConnectionStep DEF PrinterAnswers, client
<1>5. CASE RequestFails
  BY <1>1, <1>5, ConnectionStep DEF RequestFails, printer, client
<1>6. CASE Lose
  <2>1. PICK i \in DOMAIN wire : wire' = RemoveAt(wire, i)
    BY <1>6 DEF Lose
  <2>2. wire' \in Seq(Frame) /\ \A j \in DOMAIN wire' : Truthful(wire'[j], truth)
    BY <2>1, LostFrame
  <2>3. QED
    BY <1>1, <1>6, <2>2, ConnectionStep DEF Lose, client
<1>7. CASE LinkBreaks
  <2>1. wire' = <<>> /\ requests' = 0
    BY <1>7 DEF LinkBreaks
  <2>2. QED
    BY <1>7, <2>1, ConnectionStep DEF LinkBreaks, client
<1>8. CASE DelayExpires \/ Reconnect
  BY <1>1, <1>8, ConnectionStep DEF DelayExpires, Reconnect, printer
<1>9. CASE Poll
  BY <1>1, <1>9, ConnectionStep DEF Poll, printer
<1>10. CASE UNCHANGED vars
  BY <1>1, <1>10, ConnectionStep DEF vars, printer, client
<1>11. QED
  BY <1>2, <1>3, <1>4, <1>5, <1>6, <1>7, <1>8, <1>9, <1>10 DEF Next
-----------------------------------------------------------------------------
\* The merged cache is the printer's status, whatever was lost, reordered or
\* interrupted before the last full status (CacheIsSnapshot).
THEOREM CacheIsSnapshotTheorem == Spec => []CacheIsSnapshot
<1>1. IInv => CacheIsSnapshot
  BY DEF IInv
<1>2. QED
  BY <1>1, IInvInit, IInvKept, PTL DEF Spec
-----------------------------------------------------------------------------
(***************************************************************************)
(* Induction over the naturals, from the well-foundedness of <, and what   *)
(* the recursive function inside Record computes.                          *)
(***************************************************************************)
LEMMA Least ==
    ASSUME NEW T, T \subseteq Nat, T # {}
    PROVE  \E x \in T : \A y \in T : ~(y < x)
<1>1. IsWellFoundedOn(OpToRel(<, Nat), Nat)
  BY NatLessThanWellFounded
<1>2. \E x \in T : \A y \in T : ~(<<y, x>> \in OpToRel(<, Nat))
  BY <1>1, WFMin
<1>3. QED
  BY <1>2 DEF OpToRel

LEMMA Induct ==
    ASSUME NEW S \in SUBSET Nat, 0 \in S, \A n \in S : n + 1 \in S
    PROVE  S = Nat
<1>1. SUFFICES ASSUME Nat \ S # {} PROVE FALSE
  OBVIOUS
<1>2. PICK x \in Nat \ S : \A y \in Nat \ S : ~(y < x)
  BY <1>1, Least
<1>3. x # 0 /\ x - 1 \in Nat /\ x - 1 < x
  BY <1>2
<1>4. x - 1 \in S
  BY <1>2, <1>3
<1>5. (x - 1) + 1 = x
  BY <1>2
<1>6. QED
  BY <1>2, <1>4, <1>5

Log == Seq(PrintStatuses) \ {<<>>}

\* What is recorded after one more status.
Recorded(r, s) == IF s = Last(r) THEN r ELSE Append(r, s)

LEMMA RecordedType ==
    ASSUME NEW r \in Log, NEW s \in PrintStatuses
    PROVE  Recorded(r, s) \in Log
BY DEF Log, Recorded

Recording(f, log, q) == f = [n \in 0..Len(q) |-> IF n = 0 THEN log ELSE Recorded(f[n - 1], q[n])]

LEMMA RecordingExists ==
    ASSUME NEW log \in Log, NEW q \in Seq(PrintStatuses)
    PROVE  \E f : Recording(f, log, q)
<1> DEFINE Good(g, n) == /\ g[0] = log
                         /\ \A m \in 1..n : g[m] = Recorded(g[m - 1], q[m])
           Runs(n) == \E g \in [0..n -> Log] : Good(g, n)
           T == {n \in Nat : n <= Len(q) => Runs(n)}
<1>1. 0 \in T
  <2> DEFINE g == [m \in 0..0 |-> log]
  <2>1. g \in [0..0 -> Log] /\ Good(g, 0)
    OBVIOUS
  <2>2. QED
    BY <2>1
<1>2. ASSUME NEW n \in T
      PROVE  n + 1 \in T
  <2> SUFFICES ASSUME n + 1 <= Len(q)
               PROVE  Runs(n + 1)
    <3> HIDE DEF Runs
    <3>1. QED
      OBVIOUS
  <2>1. n \in Nat /\ n <= Len(q)
    OBVIOUS
  <2>2. PICK g \in [0..n -> Log] : Good(g, n)
    BY <2>1
  <2> DEFINE h == [m \in 0..(n + 1) |-> IF m = n + 1 THEN Recorded(g[n], q[n + 1]) ELSE g[m]]
  <2>3. g[n] \in Log /\ q[n + 1] \in PrintStatuses
    BY <2>1, <2>2
  <2>4. h \in [0..(n + 1) -> Log]
    BY <2>1, <2>2, <2>3, RecordedType
  <2>5. \A m \in 0..n : h[m] = g[m]
    BY <2>1
  <2>6. h[n + 1] = Recorded(h[n], q[n + 1])
    BY <2>1
  <2>7. ASSUME NEW m \in 1..(n + 1)
        PROVE  h[m] = Recorded(h[m - 1], q[m])
    <3>1. CASE m = n + 1
      BY <2>1, <2>6, <3>1
    <3>2. CASE m # n + 1
      <4>1. m \in 1..n /\ m \in 0..n /\ m - 1 \in 0..n
        BY <2>1, <3>2
      <4>2. QED
        BY <2>2, <2>5, <4>1
    <3>3. QED
      BY <3>1, <3>2
  <2>8. h[0] = log
    BY <2>1, <2>2, <2>5
  <2>9. QED
    BY <2>4, <2>7, <2>8
<1>3. Len(q) \in T
  <2> HIDE DEF T
  <2>1. T \subseteq Nat
    BY DEF T
  <2>2. T = Nat
    BY <1>1, <1>2, <2>1, Induct
  <2>3. QED
    BY <2>2
<1>4. PICK g \in [0..Len(q) -> Log] : Good(g, Len(q))
  BY <1>3
<1>5. Recording(g, log, q)
  <2>1. ASSUME NEW n \in 0..Len(q)
        PROVE  g[n] = IF n = 0 THEN log ELSE Recorded(g[n - 1], q[n])
    BY <1>4
  <2>2. QED
    BY <1>4, <2>1 DEF Recording
<1>6. QED
  BY <1>5

\* Record is the value of such a function at the last status.
LEMMA RecordIs ==
    ASSUME NEW log \in Log, NEW q \in Seq(PrintStatuses)
    PROVE  \E f : /\ Record(log, q) = f[Len(q)]
                  /\ f[0] = log
                  /\ \A n \in 1..Len(q) : f[n] = Recorded(f[n - 1], q[n])
<1> DEFINE h == CHOOSE f : Recording(f, log, q)
<1>1. Recording(h, log, q)
  BY RecordingExists
<1>2. Record(log, q) = h[Len(q)]
  BY DEF Record, Recording, Recorded
<1> HIDE DEF h
<1>3. h = [n \in 0..Len(q) |-> IF n = 0 THEN log ELSE Recorded(h[n - 1], q[n])]
  BY <1>1 DEF Recording
<1>4. Len(q) \in Nat
  OBVIOUS
<1>5. h[0] = log
  BY <1>3, <1>4
<1>6. ASSUME NEW n \in 1..Len(q)
      PROVE  h[n] = Recorded(h[n - 1], q[n])
  <2>1. n \in 0..Len(q) /\ n # 0
    BY <1>4
  <2>2. QED
    BY <1>3, <2>1
<1>7. QED
  BY <1>2, <1>5, <1>6

LEMMA RecordType ==
    ASSUME NEW log \in Log, NEW q \in Seq(PrintStatuses)
    PROVE  Record(log, q) \in Log
<1>1. PICK f : /\ Record(log, q) = f[Len(q)]
               /\ f[0] = log
               /\ \A n \in 1..Len(q) : f[n] = Recorded(f[n - 1], q[n])
  BY RecordIs
<1> DEFINE T == {n \in Nat : n <= Len(q) => f[n] \in Log}
<1>2. 0 \in T
  BY <1>1
<1>3. ASSUME NEW n \in T
      PROVE  n + 1 \in T
  BY <1>1, <1>3, RecordedType
<1> HIDE DEF T
<1>4. T = Nat
  <2>1. T \subseteq Nat
    BY DEF T
  <2>2. QED
    BY <1>2, <1>3, <2>1, Induct
<1>5. Len(q) \in T
  BY <1>4
<1>6. QED
  BY <1>1, <1>5 DEF T

\* No status follows itself.
StutterFree(e) == \A i \in 1..(Len(e) - 1) : e[i] # e[i + 1]

\* Replaying statuses of which none repeats the one before appends them all, and
\* publishing the last of them once more changes nothing.
LEMMA RecordAll ==
    ASSUME NEW r \in Log, NEW q \in Seq(PrintStatuses), StutterFree(r \o q)
    PROVE  Record(r, Append(q, Last(r \o q))) = r \o q
<1> DEFINE e == r \o q
           s == Last(e)
           p == Append(q, s)
           k == Len(r)
<1>1. /\ k \in Nat \ {0} /\ Len(q) \in Nat
      /\ e \in Seq(PrintStatuses) /\ Len(e) = k + Len(q)
      /\ \A i \in 1..k : e[i] = r[i]
      /\ \A i \in 1..Len(q) : e[k + i] = q[i]
  BY DEF Log
<1>2. s = e[Len(e)] /\ s \in PrintStatuses
  BY <1>1 DEF Last
<1>3. \A i \in 1..(Len(e) - 1) : e[i] # e[i + 1]
  BY DEF StutterFree
<1> HIDE DEF e, s
<1>4. /\ p \in Seq(PrintStatuses) /\ Len(p) = Len(q) + 1
      /\ \A i \in 1..Len(q) : p[i] = q[i]
      /\ p[Len(q) + 1] = s
  BY <1>2
<1> HIDE DEF p
<1>5. PICK f : /\ Record(r, p) = f[Len(p)]
               /\ f[0] = r
               /\ \A n \in 1..Len(p) : f[n] = Recorded(f[n - 1], p[n])
  BY <1>4, RecordIs
<1> DEFINE Prefix(g, n) == g \in Log /\ Len(g) = k + n /\ \A i \in 1..(k + n) : g[i] = e[i]
           T == {n \in Nat : n <= Len(q) => Prefix(f[n], n)}
<1>6. 0 \in T
  BY <1>1, <1>5
<1>7. ASSUME NEW n \in T
      PROVE  n + 1 \in T
  <2> SUFFICES ASSUME n + 1 <= Len(q)
               PROVE  Prefix(f[n + 1], n + 1)
    <3> HIDE DEF Prefix
    <3>1. QED
      OBVIOUS
  <2>1. n \in Nat /\ n <= Len(q) /\ Prefix(f[n], n)
    BY <1>1
  <2>2. n + 1 \in 1..Len(q) /\ n + 1 \in 1..Len(p) /\ k + n \in 1..(Len(e) - 1)
    BY <1>1, <1>4, <2>1
  <2>3. p[n + 1] = e[k + n + 1] /\ p[n + 1] \in PrintStatuses
    <3>1. p[n + 1] = q[n + 1] /\ e[k + (n + 1)] = q[n + 1] /\ q[n + 1] \in PrintStatuses
      BY <1>1, <1>4, <2>2
    <3>2. k + (n + 1) = k + n + 1
      BY <1>1, <2>1
    <3>3. QED
      BY <3>1, <3>2
  <2>4. Last(f[n]) = e[k + n] /\ e[k + n] # e[k + n + 1]
    BY <1>1, <1>3, <2>1, <2>2 DEF Last
  <2>5. f[n + 1] = Append(f[n], p[n + 1])
    <3>1. (n + 1) - 1 = n
      BY <2>1
    <3>2. f[n + 1] = Recorded(f[n], p[n + 1])
      BY <1>5, <2>2, <3>1
    <3>3. QED
      BY <2>3, <2>4, <3>2 DEF Recorded
  <2>6. f[n] \in Seq(PrintStatuses) /\ f[n + 1] \in Log /\ Len(f[n + 1]) = k + (n + 1)
    <3>1. k + (n + 1) = (k + n) + 1
      BY <1>1, <2>1
    <3>2. f[n] \in Seq(PrintStatuses) /\ Len(f[n]) = k + n
      BY <2>1 DEF Log
    <3>3. f[n + 1] \in Seq(PrintStatuses) /\ Len(f[n + 1]) = Len(f[n]) + 1
      <4> HIDE DEF T, Prefix, k
      <4>1. QED
        BY <2>3, <2>5, <3>2
    <3>4. Len(f[n + 1]) = k + (n + 1) /\ Len(f[n + 1]) # 0
      BY <1>1, <2>1, <3>1, <3>2, <3>3
    <3>5. f[n + 1] # <<>>
      BY <3>4
    <3>6. QED
      BY <3>2, <3>3, <3>4, <3>5 DEF Log
  <2>7. ASSUME NEW i \in 1..(k + (n + 1)) PROVE f[n + 1][i] = e[i]
    <3> HIDE DEF T, k
    <3>1. i \in 1..(k + n) \/ i = k + n + 1
      <4>1. k \in Nat /\ n \in Nat
        BY <1>1, <2>1
      <4> HIDE DEF Prefix
      <4>2. QED
        BY <4>1
    <3>2. CASE i \in 1..(k + n)
      BY <2>1, <2>5, <2>6, <3>2
    <3>3. CASE i = k + n + 1
      BY <2>1, <2>3, <2>5, <2>6, <3>3
    <3>4. QED
      BY <3>1, <3>2, <3>3
  <2>8. QED
    BY <2>6, <2>7
<1>8. Prefix(f[Len(q)], Len(q))
  <2> HIDE DEF T, Prefix
  <2>1. T \in SUBSET Nat
    BY DEF T
  <2>2. T = Nat
    BY <1>6, <1>7, <2>1, Induct
  <2>3. Len(q) \in T
    BY <1>1, <2>2
  <2>4. QED
    BY <1>1, <2>3 DEF T
<1>9. f[Len(q)] = e
  BY <1>1, <1>8 DEF Log
<1>10. f[Len(p)] = Recorded(f[Len(q)], s)
  <2>1. Len(p) \in 1..Len(p) /\ Len(p) - 1 = Len(q) /\ p[Len(p)] = s
    BY <1>1, <1>4
  <2>2. QED
    BY <1>5, <2>1
<1>11. Recorded(e, s) = e
  BY <1>1, <1>2 DEF Recorded, Last
<1>12. QED
  BY <1>5, <1>9, <1>10, <1>11 DEF e, s, p
-----------------------------------------------------------------------------
(***************************************************************************)
(* The recorded history.                                                   *)
(***************************************************************************)
\* The history is faithful as long as it is expected to be, because what is
\* queued ends with what is shown, and what is shown is what the cache says.
HInv ==
    /\ IInv
    /\ TypeOK
    /\ shown = PrintStatus(cache)
    /\ expected # <<>> =>
          /\ intact
          /\ recorded \o queue = expected
          /\ Last(expected) = shown
          /\ StutterFree(expected)

LEMMA PrintStatusType ==
    ASSUME NEW c \in Partial
    PROVE  PrintStatus(c) \in PrintStatuses
BY DEF PrintStatus, Partial, PrintStatuses, Unset

LEMMA MergeType ==
    ASSUME NEW c \in Partial, NEW d \in Partial
    PROVE  DeepMerge(c, d) \in Partial
BY DEF DeepMerge, Over, Partial, PrintStatuses, Unset

\* The number and the status of a truthful frame are those of an event.
LEMMA FramesOnWire ==
    ASSUME NEW w \in Seq(Frame), NEW t \in Seq(States), Len(t) <= MaxEvents,
           \A i \in DOMAIN w : Truthful(w[i], t)
    PROVE  w \in Seq(Frames)
<1>1. \A i \in DOMAIN w : w[i] \in Frames
  <2> SUFFICES ASSUME NEW i \in DOMAIN w PROVE w[i] \in Frames
    OBVIOUS
  <2>1. w[i] \in Frame /\ w[i].n \in 1..Len(t) /\ Len(t) \in Nat
    BY DEF Truthful
  <2>2. w[i].n \in 1..MaxEvents
    BY <2>1, ConstantsAssumption
  <2>3. QED
    BY <2>1, <2>2 DEF Frame, Frames
<1>2. QED
  BY <1>1

\* The queue holds no more than it may, and an entry is lost only when it is
\* full.
LEMMA Enqueued ==
    ASSUME NEW q \in Seq(PrintStatuses), Len(q) <= QueueMax, NEW s \in PrintStatuses
    PROVE  /\ Enqueue(q, s) \in Seq(PrintStatuses) /\ Len(Enqueue(q, s)) <= QueueMax
           /\ Len(q) # QueueMax => Enqueue(q, s) = Append(q, s)
<1>1. QueueMax \in Nat \ {0} /\ Len(q) \in Nat
  BY ConstantsAssumption
<1>2. CASE Len(q) < QueueMax
  BY <1>1, <1>2 DEF Enqueue
<1>3. CASE ~(Len(q) < QueueMax)
  <2>1. q # <<>> /\ Len(q) = QueueMax
    BY <1>1, <1>3
  <2>2. Tail(q) \in Seq(PrintStatuses) /\ Len(Tail(q)) = Len(q) - 1
    BY <2>1
  <2>3. Enqueue(q, s) = Append(Tail(q), s)
    BY <1>3 DEF Enqueue
  <2>4. QED
    BY <1>1, <2>1, <2>2, <2>3
<1>4. QED
  BY <1>2, <1>3

\* A step that leaves the statuses, the queue and the history alone.
LEMMA HistoryUntouched ==
    ASSUME HInv, IInv', Now' <= MaxEvents, up' \in BOOLEAN,
           UNCHANGED <<cache, sequence, gaps, shown, queue, seen, intact, history>>
    PROVE  HInv'
<1>1. wire' \in Seq(Frames)
  BY FramesOnWire DEF IInv, StatusOK, Now
<1>2. truth' \in Seq(States) /\ Now' \in 1..MaxEvents /\ requests' \in Nat
  BY ConstantsAssumption DEF IInv, StatusOK, Now
<1>3. TypeOK'
  BY <1>1, <1>2 DEF HInv, TypeOK, history
<1>4. QED
  BY <1>3 DEF HInv, history

LEMMA HInvInit ==
    ASSUME Init
    PROVE  HInv
<1>1. PICK s \in States : truth = <<s>>
  BY DEF Init
<1>2. truth \in Seq(States) /\ Now \in 1..1 /\ wire \in Seq(Frames)
  BY <1>1 DEF Init, Now
<1>3. IInv
  BY IInvInit
<1>4. MaxEvents \in Nat \ {0} /\ QueueMax \in Nat /\ MaxNonContinuous \in Nat \ {0}
  BY ConstantsAssumption
<1>5. cache \in Partial /\ shown \in PrintStatuses /\ shown = PrintStatus(cache)
  <2>1. /\ cache = [sub_status |-> Unset, progress |-> Unset] /\ shown = "idle"
    BY DEF Init
  <2>2. QED
    BY <2>1 DEF Partial, PrintStatuses, PrintStatus
<1>6. /\ queue = <<>> /\ expected = <<>> /\ recorded = <<"idle">>
      /\ queue \in Seq(PrintStatuses) /\ Len(queue) <= QueueMax
      /\ expected \in Seq(PrintStatuses) /\ recorded \in Seq(PrintStatuses) \ {<<>>}
  <2>1. queue = <<>> /\ expected = <<>> /\ recorded = <<"idle">>
    BY DEF Init
  <2>2. QED
    BY <1>4, <2>1 DEF PrintStatuses
<1>7. /\ up \in BOOLEAN /\ requests \in Nat /\ sequence \in 0..MaxEvents
      /\ gaps \in 0..(MaxNonContinuous - 1) /\ seen \in 0..MaxEvents
      /\ intact \in BOOLEAN
  <2>1. up = FALSE /\ intact = FALSE /\ requests = 0 /\ sequence = 0 /\ gaps = 0 /\ seen = 0
    BY DEF Init
  <2>2. 0 \in 0..MaxEvents /\ 0 \in 0..(MaxNonContinuous - 1)
    BY <1>4
  <2>3. QED
    BY <2>1, <2>2
<1>8. QED
  BY <1>2, <1>3, <1>4, <1>5, <1>6, <1>7 DEF HInv, TypeOK

LEMMA ListenerKeepsHistory ==
    ASSUME HInv, IInv', HandleFullStatus \/ HandleDeltaStatus
    PROVE  HInv'
<1> DEFINE f == Head(wire)
<1>1. /\ f \in Frame /\ Truthful(f, truth) /\ f.n \in 1..Now
      /\ UNCHANGED <<truth, up, recorded>> /\ sequence' = f.n /\ seen' = f.n
      /\ UpdatePrinterStatus
  BY ReadFrame DEF HandleFullStatus, HandleDeltaStatus, HInv, Truthful, Now
<1>2. Now \in 1..MaxEvents /\ f.n \in 1..MaxEvents /\ MaxEvents \in Nat
  BY <1>1, ConstantsAssumption DEF HInv, TypeOK
<1>3. wire' \in Seq(Frames) /\ requests' \in Nat /\ intact' \in BOOLEAN
  BY <1>1, <1>2, FramesOnWire DEF IInv, StatusOK, Now
<1>4. cache' \in Partial
  <2>1. f.status \in Partial /\ cache \in Partial
    BY <1>1 DEF Frame, HInv, TypeOK
  <2>2. cache' = f.status \/ cache' = DeepMerge(cache, f.status)
    BY DEF HandleFullStatus, HandleDeltaStatus
  <2>3. QED
    BY <2>1, <2>2, MergeType
<1>5. shown' \in PrintStatuses /\ shown' = PrintStatus(cache')
  BY <1>1, <1>4, PrintStatusType DEF UpdatePrinterStatus
<1>6. /\ queue' \in Seq(PrintStatuses) /\ Len(queue') <= QueueMax
      /\ shown' = shown => queue' = queue
      /\ shown' # shown /\ ~Overflows => queue' = Append(queue, shown')
  BY <1>1, <1>5, Enqueued DEF UpdatePrinterStatus, Overflows, HInv, TypeOK
<1>7. gaps' \in 0..(MaxNonContinuous - 1)
  <2>1. gaps \in 0..(MaxNonContinuous - 1) /\ MaxNonContinuous \in Nat \ {0}
    BY ConstantsAssumption DEF HInv, TypeOK
  <2>2. gaps' = 0 \/ (gaps' = gaps + 1 /\ ~(gaps + 1 >= MaxNonContinuous))
    BY DEF HandleFullStatus, HandleDeltaStatus
  <2>3. QED
    BY <2>1, <2>2
<1>8. /\ expected' \in Seq(PrintStatuses)
      /\ expected' # <<>> =>
            /\ intact'
            /\ recorded' \o queue' = expected'
            /\ Last(expected') = shown'
            /\ StutterFree(expected')
  <2>1. CASE expected' = <<>>
    BY <2>1
  <2> SUFFICES ASSUME expected' # <<>>
               PROVE  /\ expected' \in Seq(PrintStatuses)
                      /\ intact'
                      /\ recorded' \o queue' = expected'
                      /\ Last(expected') = shown'
                      /\ StutterFree(expected')
    BY <2>1
  <2>2. /\ expected # <<>> => /\ intact
                             /\ recorded \o queue = expected
                             /\ Last(expected) = shown
                             /\ StutterFree(expected)
        /\ expected \in Seq(PrintStatuses)
        /\ recorded \in Seq(PrintStatuses) /\ queue \in Seq(PrintStatuses)
        /\ shown = PrintStatus(cache) /\ shown \in PrintStatuses
        /\ intact => cache = truth[seen]
    BY DEF HInv, IInv, TypeOK, CacheIsSnapshot
  <2>3. CASE HandleFullStatus
    <3>1. /\ expected' = expected /\ seen' = seen /\ ~Overflows
          /\ intact' /\ f.kind = "full" /\ cache' = f.status
      BY <2>3 DEF HandleFullStatus
    <3>2. cache' = cache
      BY <1>1, <2>2, <3>1 DEF Truthful
    <3>3. shown' = shown /\ queue' = queue
      BY <1>5, <1>6, <2>2, <3>2
    <3>4. QED
      BY <1>1, <2>2, <3>1, <3>3
  <2>4. CASE HandleDeltaStatus
    <3> DEFINE s == truth[seen'].sub_status
    <3>1. /\ expected # <<>> /\ intact' /\ ~Overflows
          /\ expected' = IF s = Last(expected) THEN expected ELSE Append(expected, s)
      BY <2>4 DEF HandleDeltaStatus
    <3>2. shown' = s
      <4>1. cache' = truth[seen'] /\ truth[seen'] \in States
        BY <1>1, <3>1 DEF IInv, StatusOK, CacheIsSnapshot, Now
      <4>2. s \in PrintStatuses /\ Unset \notin PrintStatuses
        BY <4>1 DEF States, PrintStatuses, Unset
      <4>3. QED
        BY <1>5, <4>1, <4>2 DEF PrintStatus
    <3> HIDE DEF s
    <3>3. CASE s = shown
      BY <1>1, <1>6, <2>2, <3>1, <3>2, <3>3
    <3>4. CASE s # shown
      <4>1. expected' = Append(expected, s) /\ queue' = Append(queue, s)
            /\ s \in PrintStatuses
        BY <1>5, <1>6, <2>2, <3>1, <3>2, <3>4
      <4>2. recorded \o Append(queue, s) = Append(recorded \o queue, s)
        BY <2>2, <4>1
      <4>3. expected' \in Seq(PrintStatuses) /\ Last(expected') = s
        BY <2>2, <4>1 DEF Last
      <4>4. StutterFree(expected')
        <5>1. \A i \in 1..(Len(expected) - 1) : expected[i] # expected[i + 1]
          BY <2>2, <3>1 DEF StutterFree
        <5>2. expected[Len(expected)] # s
          BY <2>2, <3>1, <3>4 DEF Last
        <5>3. QED
          BY <2>2, <4>1, <5>1, <5>2 DEF StutterFree
      <4>5. QED
        BY <1>1, <2>2, <3>1, <3>2, <4>1, <4>2, <4>3, <4>4
    <3>5. QED
      BY <3>3, <3>4
  <2>5. QED
    BY <2>3, <2>4
<1>9. TypeOK'
  <2>1. truth' \in Seq(States) /\ Now' \in 1..MaxEvents /\ up' \in BOOLEAN
        /\ recorded' \in Seq(PrintStatuses) \ {<<>>}
    BY <1>1 DEF HInv, TypeOK, Now
  <2>2. sequence' \in 0..MaxEvents /\ seen' \in 0..MaxEvents
    BY <1>1, <1>2
  <2>3. expected' \in Seq(PrintStatuses)
    BY <1>8
  <2>4. QED
    BY <1>3, <1>4, <1>5, <1>6, <1>7, <2>1, <2>2, <2>3 DEF TypeOK
<1>10. QED
  BY <1>5, <1>8, <1>9 DEF HInv

LEMMA PollKeepsHistory ==
    ASSUME HInv, IInv', Poll
    PROVE  HInv'
<1>1. /\ UNCHANGED <<truth, wire, up, requests, cache, sequence, gaps, shown, seen, intact>>
      /\ queue' = <<>>
  BY DEF Poll, printer
<1>2. /\ recorded \in Log /\ queue \in Seq(PrintStatuses)
      /\ expected \in Seq(PrintStatuses) /\ shown \in PrintStatuses
      /\ QueueMax \in Nat
  BY ConstantsAssumption DEF HInv, TypeOK, Log
<1>3. /\ recorded' \in Log /\ expected' \in Seq(PrintStatuses)
      /\ expected' # <<>> => /\ intact
                            /\ recorded' = expected'
                            /\ Last(expected') = shown
                            /\ StutterFree(expected')
  <2>1. CASE expected = <<>> /\ intact
    <3>1. recorded' = <<shown>> /\ expected' = <<shown>>
      BY <2>1 DEF Poll
    <3>2. <<shown>> \in Seq(PrintStatuses) /\ <<shown>> # <<>> /\ Len(<<shown>>) = 1
          /\ <<shown>>[1] = shown
      BY <1>2
    <3>3. QED
      BY <2>1, <3>1, <3>2 DEF Log, Last, StutterFree
  <2>2. CASE ~(expected = <<>> /\ intact)
    <3>1. recorded' = Record(recorded, Append(queue, shown)) /\ expected' = expected
      BY <2>2 DEF Poll
    <3>2. Append(queue, shown) \in Seq(PrintStatuses)
      BY <1>2
    <3>3. recorded' \in Log
      BY <1>2, <3>1, <3>2, RecordType
    <3>4. ASSUME expected # <<>> PROVE recorded' = expected
      <4>1. /\ recorded \o queue = expected
            /\ Last(expected) = shown /\ StutterFree(expected)
        BY <3>4 DEF HInv
      <4>2. StutterFree(recorded \o queue) /\ Last(recorded \o queue) = shown
        BY <4>1
      <4>3. Record(recorded, Append(queue, Last(recorded \o queue))) = recorded \o queue
        BY <1>2, <4>2, RecordAll
      <4>4. QED
        BY <3>1, <4>1, <4>2, <4>3
    <3>5. QED
      BY <1>2, <3>1, <3>3, <3>4 DEF HInv
  <2>3. QED
    BY <2>1, <2>2
<1>4. recorded' \o queue' = recorded'
  BY <1>1, <1>3 DEF Log
<1>5. TypeOK'
  <2>1. queue' \in Seq(PrintStatuses) /\ Len(queue') <= QueueMax
    BY <1>1, <1>2
  <2>2. QED
    BY <1>1, <1>3, <2>1 DEF HInv, TypeOK, Log, Now
<1>6. QED
  BY <1>1, <1>3, <1>4, <1>5 DEF HInv

\* A disconnect: what was queued will not be recorded, and nothing more is
\* expected unless the queue was empty.
LEMMA ForgetKeepsHistory ==
    ASSUME HInv, IInv', Forget, up' \in BOOLEAN,
           UNCHANGED <<truth, cache, sequence, gaps, shown, seen, intact, recorded>>
    PROVE  HInv'
<1>1. wire' \in Seq(Frames) /\ requests' \in Nat
  BY FramesOnWire DEF HInv, TypeOK, IInv, StatusOK, Now
<1>2. queue' = <<>> /\ (expected' = <<>> \/ (expected' = expected /\ queue = <<>>))
  BY DEF Forget
<1>3. queue' \in Seq(PrintStatuses) /\ Len(queue') <= QueueMax
      /\ expected' \in Seq(PrintStatuses)
  <2>1. QueueMax \in Nat /\ expected \in Seq(PrintStatuses)
    BY ConstantsAssumption DEF HInv, TypeOK
  <2>2. <<>> \in Seq(PrintStatuses) /\ Len(<<>>) <= QueueMax
    BY <2>1
  <2>3. QED
    BY <1>2, <2>1, <2>2
<1>4. TypeOK'
  BY <1>1, <1>3 DEF HInv, TypeOK, Now
<1>5. QED
  BY <1>2, <1>4 DEF HInv

LEMMA HInvKept ==
    ASSUME HInv, [Next]_vars
    PROVE  HInv'
<1>1. IInv'
  BY IInvKept DEF HInv
<1>2. Now <= MaxEvents /\ up \in BOOLEAN
  BY ConstantsAssumption DEF HInv, TypeOK
<1>3. CASE PrinterChanges
  <2>1. Now' = Now + 1 /\ Now < MaxEvents
    BY <1>3 DEF PrinterChanges, Now, HInv, IInv, StatusOK
  <2>2. Now \in Nat /\ MaxEvents \in Nat
    BY ConstantsAssumption DEF HInv, TypeOK
  <2>3. Now' <= MaxEvents
    BY <2>1, <2>2
  <2>4. QED
    BY <1>1, <1>2, <1>3, <2>3, HistoryUntouched DEF PrinterChanges, client
<1>4. CASE PrinterAnswers \/ RequestFails \/ Lose \/ LinkBreaks \/ UNCHANGED vars
  <2>1. UNCHANGED <<truth, cache, sequence, gaps, shown, queue, seen, intact, history>>
        /\ up' \in BOOLEAN
    BY <1>2, <1>4 DEF PrinterAnswers, RequestFails, Lose, LinkBreaks, vars, printer, client
  <2>2. Now' = Now
    BY <2>1 DEF Now
  <2>3. QED
    BY <1>1, <1>2, <2>1, <2>2, HistoryUntouched
<1>5. CASE DelayExpires \/ Reconnect
  <2>1. /\ Forget /\ up' \in BOOLEAN
        /\ UNCHANGED <<truth, cache, sequence, gaps, shown, seen, intact, recorded>>
    BY <1>2, <1>5 DEF DelayExpires, Reconnect, printer
  <2>2. QED
    BY <1>1, <2>1, ForgetKeepsHistory
<1>6. CASE HandleFullStatus \/ HandleDeltaStatus
  BY <1>1, <1>6, ListenerKeepsHistory
<1>7. CASE Poll
  BY <1>1, <1>7, PollKeepsHistory
<1>8. QED
  BY <1>3, <1>4, <1>5, <1>6, <1>7 DEF Next

\* Home Assistant records every print status the printer went through, each once
\* and in order, for any length of the queue and however rarely the coordinator
\* polls (HistoryFaithful).
THEOREM HistoryFaithfulTheorem == Spec => []HistoryFaithful
<1>1. HInv => HistoryFaithful
  BY DEF HInv, HistoryFaithful
<1>2. QED
  BY <1>1, HInvInit, HInvKept, PTL DEF Spec
=============================================================================
