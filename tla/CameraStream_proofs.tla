------------------------ MODULE CameraStream_proofs ------------------------
(***************************************************************************)
(* Proofs about CameraStream, for any number of viewers and any faults:    *)
(* the counters count the viewers, and no stream is left on unknown.       *)
(***************************************************************************)
EXTENDS CameraStream, SequenceTheorems, FiniteSetTheorems, WellFoundedInduction, TLAPS

Places == {"idle", "enabling", "opening", "viewing", "closing", "disabling", "done"}
Results == [task : Tasks, answered : BOOLEAN]

\* The counters never exceed the viewers, not even after a removal or a
\* cancelled request.
Counted ==
    /\ streams <= Cardinality(Watching("mjpeg"))
    /\ transient <= Cardinality(Watching("image"))
    /\ ~Removed /\ OnlyFaults(FaultKinds \ {"cancel"}) =>
          /\ streams = Cardinality(Watching("mjpeg"))
          /\ transient = Cardinality(Watching("image"))
    /\ \A v \in Viewers : pc[v] = "opening" => kind[v] = "mjpeg"

\* Task t waits for the reply to a command of this kind.
Waits(t, on) == pc[t] = IF on THEN "enabling" ELSE "disabling"

\* Somebody waits for each reply, but for that to a switch-off of a watchdog
\* that has been cancelled.
Waiting ==
    /\ \A i \in DOMAIN commands :
          IF commands[i].task = NoTask THEN ~commands[i].on
          ELSE Waits(commands[i].task, commands[i].on)
    /\ \A i \in DOMAIN ready : pc[ready[i].task] \in {"enabling", "disabling"}
    /\ pc["watchdog"] # "enabling"

\* Nobody waits for two replies.
OneWait ==
    /\ \A i, j \in DOMAIN commands :
          commands[i].task = commands[j].task /\ commands[i].task # NoTask => i = j
    /\ \A i, j \in DOMAIN ready : ready[i].task = ready[j].task => i = j
    /\ \A i \in DOMAIN commands, j \in DOMAIN ready : commands[i].task # ready[j].task

\* Once the tasks that are ready have run, _stream_enabled will be set: the last
\* answer they got, if any, is that to a switch-on.
SwitchesOn(i) == ready[i].answered => pc[ready[i].task] = "enabling"
WillBeEnabled ==
    \/ enabled /\ \A i \in DOMAIN ready : SwitchesOn(i)
    \/ \E i \in DOMAIN ready :
          ready[i].answered /\ \A j \in i..Len(ready) : SwitchesOn(j)

\* As long as commands are only lost, a video that is on is known to be.
Known ==
    /\ connected /\ success
    /\ Waiting /\ OneWait
    /\ video => WillBeEnabled

OnlyLost == OnlyFaults({"lose"})

IInv == TypeOK /\ Counted /\ (OnlyLost => Known)
-----------------------------------------------------------------------------
(***************************************************************************)
(* Sequences.                                                              *)
(***************************************************************************)
LEMMA AppendIs ==
    ASSUME NEW S, NEW s \in Seq(S), NEW e \in S
    PROVE  /\ Append(s, e) \in Seq(S) /\ Len(Append(s, e)) = Len(s) + 1 /\ Len(s) \in Nat
           /\ DOMAIN Append(s, e) = 1..(Len(s) + 1) /\ DOMAIN s = 1..Len(s)
           /\ \A i \in 1..Len(s) : Append(s, e)[i] = s[i]
           /\ Append(s, e)[Len(s) + 1] = e
OBVIOUS

LEMMA TailIs ==
    ASSUME NEW S, NEW s \in Seq(S), s # <<>>
    PROVE  /\ Tail(s) \in Seq(S) /\ Len(Tail(s)) = Len(s) - 1 /\ Len(s) \in Nat \ {0}
           /\ DOMAIN Tail(s) = 1..(Len(s) - 1) /\ DOMAIN s = 1..Len(s)
           /\ \A i \in 1..(Len(s) - 1) : Tail(s)[i] = s[i + 1]
           /\ Head(s) = s[1] /\ Head(s) \in S
OBVIOUS

LEMMA RemovedIs ==
    ASSUME NEW S, NEW s \in Seq(S), NEW i \in DOMAIN s
    PROVE  /\ RemoveAt(s, i) \in Seq(S) /\ Len(RemoveAt(s, i)) = Len(s) - 1
           /\ Len(s) \in Nat \ {0} /\ i \in 1..Len(s)
           /\ DOMAIN RemoveAt(s, i) = 1..(Len(s) - 1) /\ DOMAIN s = 1..Len(s)
           /\ \A j \in 1..(Len(s) - 1) : RemoveAt(s, i)[j] = IF j < i THEN s[j] ELSE s[j + 1]
<1> DEFINE a == SubSeq(s, 1, i - 1)
           b == SubSeq(s, i + 1, Len(s))
<1>1. Len(s) \in Nat /\ i \in Nat /\ 1 <= i /\ i <= Len(s) /\ DOMAIN s = 1..Len(s)
  OBVIOUS
<1>2. /\ a \in Seq(S) /\ Len(a) = i - 1
      /\ \A j \in 1..(i - 1) : a[j] = s[j]
  OBVIOUS
<1>3. /\ b \in Seq(S) /\ Len(b) = Len(s) - i
      /\ \A j \in 1..(Len(s) - i) : b[j] = s[i + j]
  OBVIOUS
<1>4. RemoveAt(s, i) = a \o b
  BY DEF RemoveAt
<1> HIDE DEF a, b
<1>5. /\ a \o b \in Seq(S) /\ Len(a \o b) = Len(a) + Len(b)
      /\ \A j \in 1..(Len(a) + Len(b)) :
             (a \o b)[j] = IF j <= Len(a) THEN a[j] ELSE b[j - Len(a)]
  BY <1>2, <1>3, ConcatProperties
<1>6. ASSUME NEW j \in 1..(Len(s) - 1)
      PROVE  (a \o b)[j] = IF j < i THEN s[j] ELSE s[j + 1]
  <2>1. CASE j < i
    BY <1>1, <1>2, <1>3, <1>5, <2>1
  <2>2. CASE ~(j < i)
    <3>1. j - (i - 1) \in 1..(Len(s) - i) /\ i + (j - (i - 1)) = j + 1
      BY <1>1, <2>2
    <3>2. (a \o b)[j] = b[j - (i - 1)]
      <4>1. j \in 1..(Len(a) + Len(b)) /\ ~(j <= Len(a)) /\ Len(a) = i - 1
        BY <1>1, <1>2, <1>3, <2>2
      <4>2. QED
        BY <1>5, <4>1
    <3>3. b[j - (i - 1)] = s[i + (j - (i - 1))]
      BY <1>3, <3>1
    <3>4. QED
      BY <2>2, <3>1, <3>2, <3>3
  <2>3. QED
    BY <2>1, <2>2
<1> DEFINE c == a \o b
<1>7. c \in Seq(S) /\ Len(c) = Len(s) - 1
  BY <1>1, <1>2, <1>3, <1>5
<1>8. \A j \in 1..(Len(s) - 1) : c[j] = IF j < i THEN s[j] ELSE s[j + 1]
  BY <1>6
<1> HIDE DEF c
<1>9. DOMAIN c = 1..(Len(s) - 1)
  BY <1>7
<1>10. RemoveAt(s, i) = c
  BY <1>4 DEF c
<1>11. Len(s) \in Nat \ {0} /\ i \in 1..Len(s)
  BY <1>1
<1>12. QED
  BY <1>1, <1>7, <1>8, <1>9, <1>10, <1>11

\* What becomes of a command, in the queue of tasks to resume.
LEMMA OutcomeIs ==
    ASSUME NEW s \in Seq(Results), NEW t \in Tasks \union {NoTask}, NEW ok \in BOOLEAN
    PROVE  /\ Outcome(t, ok) \in Seq(Results) /\ s \o Outcome(t, ok) \in Seq(Results)
           /\ t = NoTask => s \o Outcome(t, ok) = s
           /\ t # NoTask => s \o Outcome(t, ok) = Append(s, [task |-> t, answered |-> ok])
<1>1. CASE t = NoTask
  BY <1>1 DEF Outcome
<1>2. CASE t # NoTask
  <2>1. [task |-> t, answered |-> ok] \in Results
    BY <1>2 DEF Results
  <2>2. Outcome(t, ok) = <<[task |-> t, answered |-> ok]>>
    BY <1>2 DEF Outcome
  <2> DEFINE r == [task |-> t, answered |-> ok]
  <2> HIDE DEF r
  <2>3. r \in Results /\ Outcome(t, ok) = <<r>>
    BY <2>1, <2>2 DEF r
  <2>4. <<r>> \in Seq(Results) /\ s \o <<r>> = Append(s, r) /\ Append(s, r) \in Seq(Results)
    BY <2>3
  <2>5. QED
    BY <1>2, <2>3, <2>4 DEF r
<1>3. QED
  BY <1>1, <1>2

LEMMA AbandonIs ==
    ASSUME commands \in Seq(Commands), NEW t
    PROVE  /\ Abandon(t) \in Seq(Commands) /\ Len(Abandon(t)) = Len(commands)
           /\ DOMAIN Abandon(t) = DOMAIN commands
           /\ \A i \in DOMAIN commands :
                 /\ Abandon(t)[i].on = commands[i].on
                 /\ Abandon(t)[i].task = IF commands[i].task = t THEN NoTask
                                         ELSE commands[i].task
<1>1. \A i \in DOMAIN commands : commands[i] \in Commands
  OBVIOUS
<1>2. \A i \in DOMAIN commands :
          /\ Abandon(t)[i] \in Commands
          /\ Abandon(t)[i].on = commands[i].on
          /\ Abandon(t)[i].task = IF commands[i].task = t THEN NoTask ELSE commands[i].task
  BY <1>1 DEF Abandon, Commands
<1>3. DOMAIN Abandon(t) = DOMAIN commands
  BY DEF Abandon
<1>4. Abandon(t) = [i \in 1..Len(commands) |-> Abandon(t)[i]]
  BY DEF Abandon
<1>5. Len(commands) \in Nat /\ DOMAIN commands = 1..Len(commands)
  OBVIOUS
<1> DEFINE f == Abandon(t)
<1> HIDE DEF f
<1>6. f \in Seq(Commands) /\ Len(f) = Len(commands)
  BY <1>2, <1>3, <1>4, <1>5 DEF f
<1>7. QED
  BY <1>2, <1>3, <1>6 DEF f
-----------------------------------------------------------------------------
(***************************************************************************)
(* Induction over the naturals, from the well-foundedness of <, and what   *)
(* the recursive function inside Released computes.                        *)
(***************************************************************************)
LEMMA Least ==
    ASSUME NEW T, T \subseteq Nat, T # {}
    PROVE  \E x \in T : \A y \in T : ~(y < x)
<1>1. IsWellFoundedOn(OpToRel(<, Nat), Nat)
  BY NatLessThanWellFounded
<1>2. \E x \in T : \A y \in T : ~(<<y, x>> \in OpToRel(<, Nat))
  BY <1>1, WFMin
<1>3. QED
  BY <1>2 DEF OpToRel

LEMMA Induct ==
    ASSUME NEW S \in SUBSET Nat, 0 \in S, \A n \in S : n + 1 \in S
    PROVE  S = Nat
<1>1. SUFFICES ASSUME Nat \ S # {} PROVE FALSE
  OBVIOUS
<1>2. PICK x \in Nat \ S : \A y \in Nat \ S : ~(y < x)
  BY <1>1, Least
<1>3. x # 0 /\ x - 1 \in Nat /\ x - 1 < x
  BY <1>2
<1>4. x - 1 \in S
  BY <1>2, <1>3
<1>5. (x - 1) + 1 = x
  BY <1>2
<1>6. QED
  BY <1>2, <1>4, <1>5

LEMMA OutcomesAppended ==
    ASSUME NEW s \in Seq(Results), NEW cmd \in Commands
    PROVE  s \o Outcome(cmd.task, TRUE) \in Seq(Results)
BY OutcomeIs DEF Commands

Releasing(f, cmds) ==
    f = [n \in 0..Len(cmds) |-> IF n = 0 THEN <<>> ELSE f[n - 1] \o Outcome(cmds[n].task, TRUE)]

LEMMA ReleasingExists ==
    ASSUME NEW cmds \in Seq(Commands)
    PROVE  \E f \in [0..Len(cmds) -> Seq(Results)] : Releasing(f, cmds)
<1> DEFINE R == Seq(Results)
           Next_(r, n) == r \o Outcome(cmds[n].task, TRUE)
           Good(g, n) == g[0] = <<>> /\ \A m \in 1..n : g[m] = Next_(g[m - 1], m)
           Runs(n) == \E g \in [0..n -> R] : Good(g, n)
           T == {n \in Nat : n <= Len(cmds) => Runs(n)}
<1>1. Len(cmds) \in Nat /\ <<>> \in R /\ \A n \in 1..Len(cmds) : cmds[n] \in Commands
  OBVIOUS
<1>2. \A r \in R, n \in 1..Len(cmds) : Next_(r, n) \in R
  BY <1>1, OutcomesAppended
<1> HIDE DEF R, Next_
<1>3. 0 \in T
  <2> DEFINE g == [m \in 0..0 |-> <<>>]
  <2>1. g \in [0..0 -> R] /\ Good(g, 0)
    BY <1>1
  <2>2. QED
    BY <2>1
<1>4. ASSUME NEW n \in T
      PROVE  n + 1 \in T
  <2> SUFFICES ASSUME n + 1 <= Len(cmds)
               PROVE  Runs(n + 1)
    <3> HIDE DEF Runs
    <3>1. QED
      OBVIOUS
  <2>1. n \in Nat /\ n <= Len(cmds) /\ n + 1 \in 1..Len(cmds)
    BY <1>1
  <2>2. PICK g \in [0..n -> R] : Good(g, n)
    BY <2>1
  <2> DEFINE h == [m \in 0..(n + 1) |-> IF m = n + 1 THEN Next_(g[n], n + 1) ELSE g[m]]
  <2>3. g[n] \in R /\ Next_(g[n], n + 1) \in R
    BY <1>2, <2>1, <2>2
  <2>4. h \in [0..(n + 1) -> R]
    BY <2>1, <2>2, <2>3
  <2>5. \A m \in 0..n : h[m] = g[m]
    BY <2>1
  <2>6. h[n + 1] = Next_(h[n], n + 1)
    BY <2>1
  <2>7. ASSUME NEW m \in 1..(n + 1)
        PROVE  h[m] = Next_(h[m - 1], m)
    <3>1. CASE m = n + 1
      BY <2>1, <2>6, <3>1
    <3>2. CASE m # n + 1
      <4>1. m \in 1..n /\ m \in 0..n /\ m - 1 \in 0..n
        BY <2>1, <3>2
      <4>2. QED
        BY <2>2, <2>5, <4>1
    <3>3. QED
      BY <3>1, <3>2
  <2>8. h[0] = <<>>
    BY <2>1, <2>2, <2>5
  <2>9. QED
    BY <2>4, <2>7, <2>8
<1>5. Len(cmds) \in T
  <2> HIDE DEF T
  <2>1. T \subseteq Nat
    BY DEF T
  <2>2. T = Nat
    BY <1>3, <1>4, <2>1, Induct
  <2>3. QED
    BY <1>1, <2>2
<1>6. PICK g \in [0..Len(cmds) -> R] : Good(g, Len(cmds))
  BY <1>1, <1>5
<1>7. Releasing(g, cmds)
  <2>1. ASSUME NEW n \in 0..Len(cmds)
        PROVE  g[n] = IF n = 0 THEN <<>> ELSE g[n - 1] \o Outcome(cmds[n].task, TRUE)
    BY <1>1, <1>6 DEF Next_
  <2>2. QED
    BY <1>6, <2>1 DEF Releasing
<1>8. QED
  BY <1>6, <1>7 DEF R

\* Every solution of the recursive equation has the same values.
LEMMA ReleasingUnique ==
    ASSUME NEW cmds \in Seq(Commands), NEW f, Releasing(f, cmds), NEW g, Releasing(g, cmds)
    PROVE  f[Len(cmds)] = g[Len(cmds)]
<1> DEFINE T == {n \in Nat : n <= Len(cmds) => f[n] = g[n]}
<1>1. Len(cmds) \in Nat
  OBVIOUS
<1>2. 0 \in T
  <2>1. f[0] = <<>> /\ g[0] = <<>>
    BY <1>1 DEF Releasing
  <2>2. QED
    BY <2>1
<1>3. ASSUME NEW n \in T
      PROVE  n + 1 \in T
  <2> SUFFICES ASSUME n + 1 <= Len(cmds)
               PROVE  f[n + 1] = g[n + 1]
    OBVIOUS
  <2>1. n \in Nat /\ n + 1 \in 0..Len(cmds) /\ n + 1 # 0 /\ (n + 1) - 1 = n /\ f[n] = g[n]
    BY <1>1
  <2>2. /\ f[n + 1] = f[(n + 1) - 1] \o Outcome(cmds[n + 1].task, TRUE)
        /\ g[n + 1] = g[(n + 1) - 1] \o Outcome(cmds[n + 1].task, TRUE)
    BY <2>1 DEF Releasing
  <2>3. QED
    BY <2>1, <2>2
<1>4. T = Nat
  <2> HIDE DEF T
  <2>1. T \subseteq Nat
    BY DEF T
  <2>2. QED
    BY <1>2, <1>3, <2>1, Induct
<1>5. QED
  BY <1>1, <1>4

LEMMA ReleasedType ==
    ASSUME NEW cmds \in Seq(Commands)
    PROVE  Released(cmds) \in Seq(Results)
<1> DEFINE h == CHOOSE f : Releasing(f, cmds)
<1>1. PICK g \in [0..Len(cmds) -> Seq(Results)] : Releasing(g, cmds)
  BY ReleasingExists
<1>2. Releasing(h, cmds)
  BY <1>1
<1>3. Released(cmds) = h[Len(cmds)]
  BY DEF Released, Releasing
<1> HIDE DEF h
<1>4. h[Len(cmds)] = g[Len(cmds)]
  BY <1>1, <1>2, ReleasingUnique
<1>5. Len(cmds) \in 0..Len(cmds)
  OBVIOUS
<1>6. QED
  BY <1>1, <1>3, <1>4, <1>5
-----------------------------------------------------------------------------
(***************************************************************************)
(* Counting the viewers.                                                   *)
(***************************************************************************)
Looking(p, kinds, k) == {v \in Viewers : p[v] = "viewing" /\ kinds[v] = k}

LEMMA LookingMoves ==
    ASSUME NEW p, NEW p1, NEW kinds, NEW kinds1, NEW k, NEW v \in Viewers,
           \A u \in Viewers \ {v} : p1[u] = p[u] /\ kinds1[u] = kinds[u]
    PROVE  LET old == Looking(p, kinds, k)
               new == Looking(p1, kinds1, k)
           IN  /\ Cardinality(old) \in Nat /\ Cardinality(new) \in 0..Cardinality(Viewers)
               /\ Cardinality(Viewers) \in Nat
               /\ v \in old => Cardinality(old) > 0
               /\ (v \in old <=> v \in new) => Cardinality(new) = Cardinality(old)
               /\ v \in new /\ v \notin old => Cardinality(new) = Cardinality(old) + 1
               /\ v \in old /\ v \notin new => Cardinality(new) = Cardinality(old) - 1
<1> DEFINE old == Looking(p, kinds, k)
           new == Looking(p1, kinds1, k)
<1>1. old \in SUBSET Viewers /\ new \in SUBSET Viewers
  BY DEF Looking
<1>2. old \ {v} = new \ {v}
  BY DEF Looking
<1> HIDE DEF old, new
<1>3. /\ IsFiniteSet(old) /\ IsFiniteSet(new) /\ Cardinality(new) <= Cardinality(Viewers)
      /\ Cardinality(old) \in Nat /\ Cardinality(new) \in Nat /\ Cardinality(Viewers) \in Nat
  BY <1>1, ConstantsAssumption, FS_Subset, FS_CardinalityType
<1>4. Cardinality(old \ {v}) = IF v \in old THEN Cardinality(old) - 1 ELSE Cardinality(old)
  BY <1>3, FS_RemoveElement
<1>5. Cardinality(new \ {v}) = IF v \in new THEN Cardinality(new) - 1 ELSE Cardinality(new)
  BY <1>3, FS_RemoveElement
<1>6. v \in old => Cardinality(old) # 0
  BY <1>3, FS_EmptySet
<1>7. (IF v \in old THEN Cardinality(old) - 1 ELSE Cardinality(old)) =
      (IF v \in new THEN Cardinality(new) - 1 ELSE Cardinality(new))
  BY <1>2, <1>4, <1>5
<1>8. /\ (v \in old <=> v \in new) => Cardinality(new) = Cardinality(old)
      /\ v \in new /\ v \notin old => Cardinality(new) = Cardinality(old) + 1
      /\ v \in old /\ v \notin new => Cardinality(new) = Cardinality(old) - 1
  BY <1>3, <1>7
<1>9. (v \in old => Cardinality(old) > 0) /\ Cardinality(new) \in 0..Cardinality(Viewers)
  BY <1>3, <1>6
<1>10. QED
  BY <1>3, <1>8, <1>9 DEF old, new

\* A viewer comes or goes, and the counters follow.
Follows(n, n1, was, is) ==
    n1 = IF was = is THEN n ELSE IF was THEN Decrement(n) ELSE n + 1

IsLooking(v, k) == pc[v] = "viewing" /\ kind[v] = k

LEMMA FollowsIs ==
    ASSUME NEW n \in Nat, NEW n1, NEW was, NEW is, Follows(n, n1, was, is),
           was \in BOOLEAN, is \in BOOLEAN,
           NEW c \in Nat, NEW c1 \in Nat, n <= c,
           was => c > 0,
           (was <=> is) => c1 = c,
           is /\ ~was => c1 = c + 1,
           was /\ ~is => c1 = c - 1
    PROVE  n1 \in Nat /\ n1 <= c1 /\ (n = c => n1 = c1)
<1>1. CASE was = is
  <2>1. n1 = n /\ c1 = c
    BY <1>1 DEF Follows
  <2>2. QED
    BY <2>1
<1>2. CASE was /\ ~is
  <2>1. n1 = Decrement(n) /\ c1 = c - 1 /\ c > 0
    BY <1>2 DEF Follows
  <2>2. QED
    BY <2>1 DEF Decrement
<1>3. CASE is /\ ~was
  <2>1. n1 = n + 1 /\ c1 = c + 1
    BY <1>3 DEF Follows
  <2>2. QED
    BY <2>1
<1>4. QED
  BY <1>1, <1>2, <1>3

LEMMA Faulted ==
    ASSUME TypeOK, NEW F, faults' = faults \/ \E f \in FaultKinds : faults' = Append(faults, f),
           OnlyFaults(F)'
    PROVE  OnlyFaults(F)
<1>1. faults \in Seq(FaultKinds)
  <2>1. faults \in Troubles \/ faults = <<>>
    BY DEF TypeOK
  <2>2. <<>> \in Seq(FaultKinds)
    OBVIOUS
  <2>3. QED
    BY <2>1, <2>2, ConstantsAssumption
<1>2. CASE faults' = faults
  BY <1>2 DEF OnlyFaults
<1>3. CASE \E f \in FaultKinds : faults' = Append(faults, f)
  <2>1. PICK f \in FaultKinds : faults' = Append(faults, f)
    BY <1>3
  <2>2. QED
    BY <1>1, <2>1, AppendIs DEF OnlyFaults
<1>4. QED
  BY <1>2, <1>3

LEMMA CountsFollow ==
    ASSUME TypeOK, Counted, NEW v \in Viewers,
           \A u \in Viewers \ {v} : pc'[u] = pc[u] /\ kind'[u] = kind[u],
           pc'[v] = "opening" => kind'[v] = "mjpeg",
           pc'["removal"] = pc["removal"], UNCHANGED faults,
           Follows(streams, streams', IsLooking(v, "mjpeg"), IsLooking(v, "mjpeg")'),
           Follows(transient, transient', IsLooking(v, "image"), IsLooking(v, "image")')
    PROVE  /\ Counted'
           /\ streams' \in 0..Cardinality(Viewers) /\ transient' \in 0..Cardinality(Viewers)
<1> DEFINE O(k) == Looking(pc, kind, k)
           N(k) == Looking(pc', kind', k)
<1>1. \A k : Watching(k) = O(k)
  BY DEF Watching, Looking
<1>2. \A k : Watching(k)' = N(k)
  BY DEF Watching, Looking
<1>3. \A k : (IsLooking(v, k) <=> v \in O(k)) /\ (IsLooking(v, k)' <=> v \in N(k))
  BY DEF IsLooking, Looking
<1>4. \A k : /\ Cardinality(O(k)) \in Nat /\ Cardinality(N(k)) \in 0..Cardinality(Viewers)
             /\ Cardinality(Viewers) \in Nat
             /\ v \in O(k) => Cardinality(O(k)) > 0
             /\ (v \in O(k) <=> v \in N(k)) => Cardinality(N(k)) = Cardinality(O(k))
             /\ v \in N(k) /\ v \notin O(k) => Cardinality(N(k)) = Cardinality(O(k)) + 1
             /\ v \in O(k) /\ v \notin N(k) => Cardinality(N(k)) = Cardinality(O(k)) - 1
  BY LookingMoves
<1> HIDE DEF O, N
<1>5. streams \in Nat /\ transient \in Nat
  BY <1>4 DEF TypeOK
<1>6. /\ streams' \in Nat /\ streams' <= Cardinality(N("mjpeg"))
      /\ streams = Cardinality(O("mjpeg")) => streams' = Cardinality(N("mjpeg"))
  <2> DEFINE was == IsLooking(v, "mjpeg")
             is == IsLooking(v, "mjpeg")'
             c == Cardinality(O("mjpeg"))
             c1 == Cardinality(N("mjpeg"))
  <2>1. was \in BOOLEAN /\ is \in BOOLEAN /\ streams <= c
    BY <1>1 DEF IsLooking, Counted
  <2>2. /\ c \in Nat /\ c1 \in Nat /\ (was => c > 0) /\ ((was <=> is) => c1 = c)
        /\ (is /\ ~was => c1 = c + 1) /\ (was /\ ~is => c1 = c - 1)
    BY <1>3, <1>4
  <2>3. Follows(streams, streams', was, is)
    OBVIOUS
  <2> HIDE DEF was, is, c, c1
  <2>4. QED
    BY <1>5, <2>1, <2>2, <2>3, FollowsIs DEF c, c1
<1>7. /\ transient' \in Nat /\ transient' <= Cardinality(N("image"))
      /\ transient = Cardinality(O("image")) => transient' = Cardinality(N("image"))
  <2> DEFINE was == IsLooking(v, "image")
             is == IsLooking(v, "image")'
             c == Cardinality(O("image"))
             c1 == Cardinality(N("image"))
  <2>1. was \in BOOLEAN /\ is \in BOOLEAN /\ transient <= c
    BY <1>1 DEF IsLooking, Counted
  <2>2. /\ c \in Nat /\ c1 \in Nat /\ (was => c > 0) /\ ((was <=> is) => c1 = c)
        /\ (is /\ ~was => c1 = c + 1) /\ (was /\ ~is => c1 = c - 1)
    BY <1>3, <1>4
  <2>3. Follows(transient, transient', was, is)
    OBVIOUS
  <2> HIDE DEF was, is, c, c1
  <2>4. QED
    BY <1>5, <2>1, <2>2, <2>3, FollowsIs DEF c, c1
<1>8. /\ Removed' = Removed
      /\ OnlyFaults(FaultKinds \ {"cancel"})' = OnlyFaults(FaultKinds \ {"cancel"})
  BY DEF Removed, OnlyFaults
<1>9. \A u \in Viewers : pc'[u] = "opening" => kind'[u] = "mjpeg"
  BY DEF Counted
<1>10. Counted'
  BY <1>1, <1>2, <1>6, <1>7, <1>8, <1>9 DEF Counted
<1>11. QED
  BY <1>4, <1>6, <1>7, <1>10

\* A step that is not a viewer's: the counters are reset, or stay as they are.
LEMMA CountsStay ==
    ASSUME TypeOK, Counted,
           \A u \in Viewers : pc'[u] = pc[u] /\ kind'[u] = kind[u],
           faults' = faults \/ \E f \in FaultKinds : faults' = Append(faults, f),
           \/ pc'["removal"] = pc["removal"] /\ UNCHANGED <<streams, transient>>
           \/ /\ pc'["removal"] # "idle"
              /\ streams' \in {0, streams} /\ transient' \in {0, transient}
    PROVE  /\ Counted'
           /\ streams' \in 0..Cardinality(Viewers) /\ transient' \in 0..Cardinality(Viewers)
<1>1. \A k : Watching(k)' = Watching(k)
  BY DEF Watching
<1>2. OnlyFaults(FaultKinds \ {"cancel"})' => OnlyFaults(FaultKinds \ {"cancel"})
  BY Faulted
<1>3. \A k : Watching(k) \in SUBSET Viewers
  BY DEF Watching
<1>4. \A k : Cardinality(Watching(k)) \in Nat /\ Cardinality(Viewers) \in Nat
  BY <1>3, ConstantsAssumption, FS_Subset, FS_CardinalityType
<1> DEFINE m == Cardinality(Watching("mjpeg"))
           i == Cardinality(Watching("image"))
           c == Cardinality(Viewers)
<1>5. m \in Nat /\ i \in Nat /\ c \in Nat /\ streams \in 0..c /\ transient \in 0..c
  BY <1>4 DEF TypeOK
<1>6. streams <= m /\ transient <= i
  BY DEF Counted
<1>7. Cardinality(Watching("mjpeg"))' = m /\ Cardinality(Watching("image"))' = i
  BY <1>1
<1>8. (~Removed /\ OnlyFaults(FaultKinds \ {"cancel"})) => streams = m /\ transient = i
  BY DEF Counted
<1> HIDE DEF m, i, c
<1>9. Removed' \/ (Removed' = Removed /\ UNCHANGED <<streams, transient>>)
  BY DEF Removed
<1>10. streams' \in {0, streams} /\ transient' \in {0, transient}
  OBVIOUS
<1>11. streams' <= m /\ transient' <= i /\ streams' \in 0..c /\ transient' \in 0..c
  BY <1>5, <1>6, <1>10
<1>12. \A u \in Viewers : pc'[u] = "opening" => kind'[u] = "mjpeg"
  BY DEF Counted
<1>13. Counted'
  BY <1>2, <1>7, <1>8, <1>9, <1>11, <1>12 DEF Counted
<1>14. QED
  BY <1>11, <1>13 DEF c
-----------------------------------------------------------------------------
(***************************************************************************)
(* Each step keeps the types and the counts.                               *)
(***************************************************************************)
LEMMA Names ==
    /\ Viewers \subseteq Tasks
    /\ "native" \in Tasks /\ "watchdog" \in Tasks /\ "removal" \in Tasks
    /\ "native" \notin Viewers /\ "watchdog" \notin Viewers /\ "removal" \notin Viewers
    /\ NoTask \notin Tasks
BY ConstantsAssumption DEF Tasks

LEMMA Gone ==
    ASSUME TypeOK, NEW t \in Tasks, NEW where \in Places, Goto(t, where)
    PROVE  /\ pc' \in [Tasks -> Places] /\ pc'[t] = where
           /\ \A u \in Tasks \ {t} : pc'[u] = pc[u]
BY DEF TypeOK, Goto, Places

LEMMA Sent ==
    ASSUME TypeOK, NEW t \in Tasks, NEW on \in BOOLEAN, NEW where \in Places, Send(t, on, where)
    PROVE  /\ commands' \in Seq(Commands)
           /\ pc' \in [Tasks -> Places] /\ pc'[t] = where
           /\ \A u \in Tasks \ {t} : pc'[u] = pc[u]
<1>1. [task |-> t, on |-> on] \in Commands
  BY DEF Commands
<1>2. commands' \in Seq(Commands)
  BY <1>1, AppendIs DEF TypeOK, Send
<1>3. Goto(t, where)
  BY DEF Send
<1>4. QED
  BY <1>2, <1>3, Gone

LEMMA DisabledIfLast ==
    ASSUME TypeOK, NEW t \in Tasks, NEW next \in Places, DisableIfLast(t, next)
    PROVE  /\ commands' \in Seq(Commands)
           /\ pc' \in [Tasks -> Places] /\ pc'[t] \in {next, "disabling"}
           /\ \A u \in Tasks \ {t} : pc'[u] = pc[u]
<1>1. "disabling" \in Places /\ FALSE \in BOOLEAN
  BY DEF Places
<1>2. CASE Send(t, FALSE, "disabling")
  BY <1>1, <1>2, Sent
<1>3. CASE Goto(t, next) /\ UNCHANGED commands
  BY <1>3, Gone DEF TypeOK
<1>4. QED
  BY <1>2, <1>3 DEF DisableIfLast

LEMMA Resumed ==
    ASSUME TypeOK, NEW t \in Tasks, Resume(t)
    PROVE  /\ ready' \in Seq(Results)
           /\ EnabledAfterOn \in BOOLEAN /\ EnabledAfterOff \in BOOLEAN
<1>1. ready \in Seq(Results) /\ ready # <<>>
  BY DEF TypeOK, Resume, Results
<1>2. Head(ready) \in Results /\ Tail(ready) \in Seq(Results)
  BY <1>1, TailIs
<1>3. QED
  BY <1>2 DEF TypeOK, Results, Resume, EnabledAfterOn, EnabledAfterOff

LEMMA Forgotten ==
    ASSUME ready \in Seq(Results), NEW t, Forget(t)
    PROVE  ready' \in Seq(Results)
<1>1. CASE \E i \in DOMAIN ready : ready' = RemoveAt(ready, i)
  BY <1>1, RemovedIs
<1>2. CASE UNCHANGED ready
  BY <1>2
<1>3. QED
  BY <1>1, <1>2 DEF Forget

\* What is left of the type, for a step of a viewer ...
LEMMA ViewerTyped ==
    ASSUME TypeOK, Counted, NEW v \in Viewers,
           commands' \in Seq(Commands), ready' \in Seq(Results), enabled' \in BOOLEAN,
           kind' \in [Viewers -> {"mjpeg", "image"}], native' \in BOOLEAN, touched' \in BOOLEAN,
           pc' \in [Tasks -> Places], \A u \in Tasks \ {v} : pc'[u] = pc[u],
           \A u \in Viewers \ {v} : kind'[u] = kind[u],
           pc'[v] = "opening" => kind'[v] = "mjpeg",
           UNCHANGED printer,
           Follows(streams, streams', IsLooking(v, "mjpeg"), IsLooking(v, "mjpeg")'),
           Follows(transient, transient', IsLooking(v, "image"), IsLooking(v, "image")')
    PROVE  TypeOK' /\ Counted'
<1>1. UNCHANGED faults /\ pc'["removal"] = pc["removal"]
      /\ \A u \in Viewers \ {v} : pc'[u] = pc[u] /\ kind'[u] = kind[u]
  BY Names DEF printer
<1>2. /\ Counted'
      /\ streams' \in 0..Cardinality(Viewers) /\ transient' \in 0..Cardinality(Viewers)
  BY <1>1, CountsFollow
<1>3. TypeOK'
  BY <1>2 DEF TypeOK, printer, Places, Results
<1>4. QED
  BY <1>2, <1>3

\* ... and of anybody else.
LEMMA OtherTyped ==
    ASSUME TypeOK, Counted,
           video' \in BOOLEAN, connected' \in BOOLEAN, success' \in BOOLEAN,
           commands' \in Seq(Commands), ready' \in Seq(Results), enabled' \in BOOLEAN,
           native' \in BOOLEAN, touched' \in BOOLEAN, UNCHANGED kind,
           pc' \in [Tasks -> Places], \A u \in Viewers : pc'[u] = pc[u],
           \/ UNCHANGED faults
           \/ faults' \in Troubles /\ \E f \in FaultKinds : faults' = Append(faults, f),
           \/ pc'["removal"] = pc["removal"] /\ UNCHANGED <<streams, transient>>
           \/ /\ pc'["removal"] # "idle"
              /\ streams' \in {0, streams} /\ transient' \in {0, transient}
    PROVE  TypeOK' /\ Counted'
<1>1. /\ Counted'
      /\ streams' \in 0..Cardinality(Viewers) /\ transient' \in 0..Cardinality(Viewers)
  BY CountsStay
<1>2. faults' \in Troubles \union {<<>>}
  BY DEF TypeOK
<1>3. TypeOK'
  BY <1>1, <1>2 DEF TypeOK, Places, Results
<1>4. QED
  BY <1>1, <1>3
-----------------------------------------------------------------------------
LEMMA RepliesTyped ==
    ASSUME TypeOK, Counted, NEW ok \in BOOLEAN, Replies(ok), video' \in BOOLEAN,
           \/ UNCHANGED faults
           \/ faults' \in Troubles /\ \E f \in FaultKinds : faults' = Append(faults, f)
    PROVE  TypeOK' /\ Counted'
<1>1. commands \in Seq(Commands) /\ commands # <<>> /\ ready \in Seq(Results)
  BY DEF TypeOK, Replies, Results
<1>2. Tail(commands) \in Seq(Commands) /\ Head(commands) \in Commands
  BY <1>1, TailIs
<1>3. ready' \in Seq(Results) /\ commands' \in Seq(Commands)
  BY <1>1, <1>2, OutcomeIs DEF Replies, Commands
<1>4. QED
  BY <1>3, OtherTyped DEF Replies, TypeOK, counts, Places

LEMMA LinkBreaksTyped ==
    ASSUME TypeOK, Counted, LinkBreaks
    PROVE  TypeOK' /\ Counted'
<1>1. \A i \in DOMAIN commands : commands[i].on \in BOOLEAN
  <2>1. \A i \in DOMAIN commands : commands[i] \in Commands
    BY DEF TypeOK
  <2>2. QED
    BY <2>1 DEF Commands
<1>2. video' \in BOOLEAN
  BY <1>1 DEF TypeOK, LinkBreaks
<1>3. faults' \in Troubles /\ \E f \in FaultKinds : faults' = Append(faults, f)
  BY DEF LinkBreaks, Fault, FaultKinds
<1>4. QED
  BY <1>2, <1>3, OtherTyped DEF LinkBreaks, TypeOK, counts, Places, Results

LEMMA ReconnectTyped ==
    ASSUME TypeOK, Counted, Reconnect
    PROVE  TypeOK' /\ Counted'
<1>1. commands \in Seq(Commands) /\ ready \in Seq(Results)
  BY DEF TypeOK, Results
<1>2. Released(commands) \in Seq(Results)
  BY <1>1, ReleasedType
<1>3. ready' \in Seq(Results)
  BY <1>1, <1>2, ConcatProperties DEF Reconnect
<1>4. commands' \in Seq(Commands)
  BY DEF Reconnect
<1>5. QED
  BY <1>3, <1>4, OtherTyped DEF Reconnect, TypeOK, counts, Places

LEMMA TimeoutTyped ==
    ASSUME TypeOK, Counted, NEW i \in DOMAIN commands, CommandTimesOut(i)
    PROVE  TypeOK' /\ Counted'
<1>1. commands \in Seq(Commands) /\ ready \in Seq(Results) /\ commands[i] \in Commands
  BY DEF TypeOK, Results
<1>2. ready' \in Seq(Results)
  BY <1>1, OutcomeIs DEF Commands, CommandTimesOut
<1>3. [commands[i] EXCEPT !.task = NoTask] \in Commands
  BY <1>1 DEF Commands
<1>4. [commands EXCEPT ![i].task = NoTask] \in Seq(Commands)
  <2> DEFINE c == [commands[i] EXCEPT !.task = NoTask]
  <2>1. c \in Commands
    BY <1>3
  <2> HIDE DEF c
  <2>2. [commands EXCEPT ![i] = c] \in Seq(Commands)
    BY <1>1, <2>1
  <2>3. QED
    BY <2>2 DEF c
<1>5. RemoveAt(commands, i) \in Seq(Commands)
  BY <1>1, RemovedIs
<1>6. commands' \in Seq(Commands)
  BY <1>4, <1>5 DEF CommandTimesOut
<1>7. faults' \in Troubles /\ \E f \in FaultKinds : faults' = Append(faults, f)
  BY DEF CommandTimesOut, Fault, FaultKinds
<1>8. QED
  BY <1>2, <1>6, <1>7, OtherTyped DEF CommandTimesOut, TypeOK, counts, Places

\* A viewer that is let in: the image is counted, the stream not yet.
LEMMA EnterTyped ==
    ASSUME TypeOK, Counted, NEW v \in Viewers, NEW k \in {"mjpeg", "image"}, Enter(v, k),
           pc[v] # "viewing", kind' \in [Viewers -> {"mjpeg", "image"}], kind'[v] = k,
           \A u \in Viewers \ {v} : kind'[u] = kind[u],
           ready' \in Seq(Results), enabled' \in BOOLEAN
    PROVE  TypeOK' /\ Counted'
<1>1. v \in Tasks /\ {"idle", "viewing", "opening", "disabling"} \subseteq Places
  BY Names DEF Places
<1>2. CASE DisableIfLast(v, "idle") /\ UNCHANGED transient
  <2>1. /\ commands' \in Seq(Commands)
        /\ pc' \in [Tasks -> Places] /\ pc'[v] \in {"idle", "disabling"}
        /\ \A u \in Tasks \ {v} : pc'[u] = pc[u]
    BY <1>1, <1>2, DisabledIfLast
  <2>2. /\ Follows(streams, streams', IsLooking(v, "mjpeg"), IsLooking(v, "mjpeg")')
        /\ Follows(transient, transient', IsLooking(v, "image"), IsLooking(v, "image")')
    BY <1>2, <2>1 DEF Follows, IsLooking, Enter
  <2>3. QED
    BY <2>1, <2>2, ViewerTyped DEF Enter, TypeOK
<1>3. CASE /\ transient' = IF k = "image" THEN transient + 1 ELSE transient
           /\ Goto(v, IF k = "image" THEN "viewing" ELSE "opening")
           /\ UNCHANGED commands
  <2>1. /\ pc' \in [Tasks -> Places] /\ pc'[v] = IF k = "image" THEN "viewing" ELSE "opening"
        /\ \A u \in Tasks \ {v} : pc'[u] = pc[u]
    BY <1>1, <1>3, Gone
  <2>2. /\ Follows(streams, streams', IsLooking(v, "mjpeg"), IsLooking(v, "mjpeg")')
        /\ Follows(transient, transient', IsLooking(v, "image"), IsLooking(v, "image")')
    BY <1>3, <2>1 DEF Follows, IsLooking, Enter
  <2>3. QED
    BY <1>3, <2>1, <2>2, ViewerTyped DEF Enter, TypeOK
<1>4. QED
  BY <1>2, <1>3 DEF Enter

LEMMA ArriveTyped ==
    ASSUME TypeOK, Counted, NEW v \in Viewers, Arrive(v)
    PROVE  TypeOK' /\ Counted'
<1>1. PICK k \in {"mjpeg", "image"} :
          /\ kind' = [kind EXCEPT ![v] = k]
          /\ \/ Enter(v, k)
             \/ Send(v, TRUE, "enabling") /\ UNCHANGED <<printer, counts, touched>>
  BY DEF Arrive
<1>2. /\ kind' \in [Viewers -> {"mjpeg", "image"}] /\ kind'[v] = k
      /\ \A u \in Viewers \ {v} : kind'[u] = kind[u]
  BY <1>1 DEF TypeOK
<1>3. ready' \in Seq(Results) /\ enabled' \in BOOLEAN /\ pc[v] = "idle"
  BY DEF TypeOK, Results, Arrive
<1>4. CASE Enter(v, k)
  BY <1>2, <1>3, <1>4, EnterTyped
<1>5. CASE Send(v, TRUE, "enabling") /\ UNCHANGED <<printer, counts, touched>>
  <2>1. /\ commands' \in Seq(Commands)
        /\ pc' \in [Tasks -> Places] /\ pc'[v] = "enabling"
        /\ \A u \in Tasks \ {v} : pc'[u] = pc[u]
    BY <1>5, Names, Sent DEF Places
  <2>2. /\ Follows(streams, streams', IsLooking(v, "mjpeg"), IsLooking(v, "mjpeg")')
        /\ Follows(transient, transient', IsLooking(v, "image"), IsLooking(v, "image")')
    BY <1>3, <1>5, <2>1 DEF Follows, IsLooking, counts
  <2>3. QED
    BY <1>2, <1>3, <1>5, <2>1, <2>2, ViewerTyped DEF TypeOK, counts
<1>6. QED
  BY <1>1, <1>4, <1>5

LEMMA EnableReturnsTyped ==
    ASSUME TypeOK, Counted, NEW v \in Viewers, EnableReturns(v)
    PROVE  TypeOK' /\ Counted'
<1>1. ready' \in Seq(Results) /\ enabled' \in BOOLEAN
  BY Names, Resumed DEF EnableReturns
<1>2. QED
  BY <1>1, EnterTyped DEF EnableReturns, TypeOK

LEMMA OpenedTyped ==
    ASSUME TypeOK, Counted, NEW v \in Viewers, Opened(v)
    PROVE  TypeOK' /\ Counted'
<1>1. /\ pc' \in [Tasks -> Places] /\ pc'[v] = "viewing"
      /\ \A u \in Tasks \ {v} : pc'[u] = pc[u]
  BY Names, Gone DEF Opened, Places
<1>2. /\ Follows(streams, streams', IsLooking(v, "mjpeg"), IsLooking(v, "mjpeg")')
      /\ Follows(transient, transient', IsLooking(v, "image"), IsLooking(v, "image")')
  <2>1. kind[v] = "mjpeg" /\ pc[v] = "opening"
    BY DEF Counted, Opened
  <2>2. QED
    BY <1>1, <2>1 DEF Follows, IsLooking, Opened
<1>3. QED
  BY <1>1, <1>2, ViewerTyped DEF Opened, TypeOK, Results

LEMMA ClosedTyped ==
    ASSUME TypeOK, Counted, NEW v \in Viewers, Closed(v)
    PROVE  TypeOK' /\ Counted'
<1>1. /\ commands' \in Seq(Commands)
      /\ pc' \in [Tasks -> Places] /\ pc'[v] \in {"idle", "disabling"}
      /\ \A u \in Tasks \ {v} : pc'[u] = pc[u]
  BY Names, DisabledIfLast DEF Closed, Places
<1>2. /\ Follows(streams, streams', IsLooking(v, "mjpeg"), IsLooking(v, "mjpeg")')
      /\ Follows(transient, transient', IsLooking(v, "image"), IsLooking(v, "image")')
  BY <1>1 DEF Follows, IsLooking, Closed, counts
<1>3. QED
  BY <1>1, <1>2, ViewerTyped DEF Closed, TypeOK, Results, counts

LEMMA DisableReturnsTyped ==
    ASSUME TypeOK, Counted, NEW v \in Viewers, DisableReturns(v)
    PROVE  TypeOK' /\ Counted'
<1>1. /\ pc' \in [Tasks -> Places] /\ pc'[v] = "idle"
      /\ \A u \in Tasks \ {v} : pc'[u] = pc[u]
  BY Names, Gone DEF DisableReturns, Places
<1>2. ready' \in Seq(Results) /\ enabled' \in BOOLEAN
  BY Names, Resumed DEF DisableReturns
<1>3. /\ Follows(streams, streams', IsLooking(v, "mjpeg"), IsLooking(v, "mjpeg")')
      /\ Follows(transient, transient', IsLooking(v, "image"), IsLooking(v, "image")')
  BY <1>1 DEF Follows, IsLooking, DisableReturns, counts
<1>4. QED
  BY <1>1, <1>2, <1>3, ViewerTyped DEF DisableReturns, TypeOK, counts

LEMMA LeaveTyped ==
    ASSUME TypeOK, Counted, NEW v \in Viewers, Leave(v)
    PROVE  TypeOK' /\ Counted'
<1>1. /\ commands' \in Seq(Commands)
      /\ pc' \in [Tasks -> Places] /\ pc'[v] \in {"idle", "closing", "disabling"}
      /\ \A u \in Tasks \ {v} : pc'[u] = pc[u]
  <2>1. {"idle", "closing", "disabling"} \subseteq Places /\ v \in Tasks
    BY Names DEF Places
  <2>2. CASE Goto(v, "closing") /\ UNCHANGED commands
    BY <2>1, <2>2, Gone DEF TypeOK
  <2>3. CASE DisableIfLast(v, "idle")
    BY <2>1, <2>3, DisabledIfLast
  <2>4. QED
    BY <2>2, <2>3 DEF Leave
<1>2. /\ Follows(streams, streams', IsLooking(v, "mjpeg"), IsLooking(v, "mjpeg")')
      /\ Follows(transient, transient', IsLooking(v, "image"), IsLooking(v, "image")')
  BY <1>1 DEF Follows, IsLooking, Leave
<1>3. QED
  BY <1>1, <1>2, ViewerTyped DEF Leave, TypeOK, Results

\* A cancelled request may be counted out without having been counted in, so
\* only the upper bound on the counters is kept.
LEMMA CancelledTyped ==
    ASSUME TypeOK, Counted, NEW v \in Viewers, Cancelled(v)
    PROVE  TypeOK' /\ Counted'
<1>1. commands' \in Seq(Commands) /\ ready' \in Seq(Results)
  BY AbandonIs, Forgotten DEF Cancelled, TypeOK, Results
<1>2. /\ pc' \in [Tasks -> Places] /\ pc'[v] \in {"idle", "closing"} /\ pc[v] # "viewing"
      /\ \A u \in Tasks \ {v} : pc'[u] = pc[u]
  BY Names, Gone DEF Cancelled, Places
<1>3. \A k : Watching(k)' = Watching(k)
  BY <1>2, Names DEF Watching, Cancelled
<1>4. Cardinality(Watching("mjpeg"))' = Cardinality(Watching("mjpeg"))
      /\ Cardinality(Watching("image"))' = Cardinality(Watching("image"))
  BY <1>3
<1>5. streams' \in 0..Cardinality(Viewers) /\ streams' <= streams
  BY ConstantsAssumption, FS_CardinalityType DEF TypeOK, Cancelled, Decrement
<1>6. ~OnlyFaults(FaultKinds \ {"cancel"})'
  <2>1. faults \in Seq(FaultKinds)
    <3>1. faults \in Troubles \/ faults = <<>>
      BY DEF TypeOK
    <3>2. <<>> \in Seq(FaultKinds)
      OBVIOUS
    <3>3. QED
      BY <3>1, <3>2, ConstantsAssumption
  <2>2. faults' = Append(faults, "cancel") /\ "cancel" \in FaultKinds
    BY DEF Cancelled, Fault, FaultKinds
  <2>3. Len(faults) + 1 \in DOMAIN faults' /\ faults'[Len(faults) + 1] = "cancel"
    BY <2>1, <2>2, AppendIs
  <2>4. QED
    BY <2>3 DEF OnlyFaults
<1>7. \A u \in Viewers : pc'[u] = "opening" => kind'[u] = "mjpeg"
  BY <1>2, Names DEF Counted, Cancelled
<1>8. streams' <= Cardinality(Watching("mjpeg")) /\ transient' <= Cardinality(Watching("image"))
  <2>1. Cardinality(Watching("mjpeg")) \in Nat
    <3>1. Watching("mjpeg") \in SUBSET Viewers
      BY DEF Watching
    <3>2. QED
      BY <3>1, ConstantsAssumption, FS_Subset, FS_CardinalityType
  <2>2. Cardinality(Viewers) \in Nat
    BY ConstantsAssumption, FS_CardinalityType
  <2>3. streams <= Cardinality(Watching("mjpeg")) /\ transient <= Cardinality(Watching("image"))
    BY DEF Counted
  <2>4. QED
    BY <1>5, <2>1, <2>2, <2>3 DEF Cancelled, TypeOK
<1>9. Counted'
  BY <1>4, <1>6, <1>7, <1>8 DEF Counted
<1>10. faults' \in Troubles
  BY DEF Cancelled, Fault
<1>11. TypeOK'
  BY <1>1, <1>2, <1>5, <1>10 DEF TypeOK, Cancelled, Places, Results
<1>12. QED
  BY <1>9, <1>11
-----------------------------------------------------------------------------
LEMMA NativeTyped ==
    ASSUME TypeOK, Counted, StreamSource \/ NativeEnableReturns
    PROVE  TypeOK' /\ Counted'
<1>1. CASE StreamSource
  <2>1. CASE NativeOn(TRUE) /\ UNCHANGED <<commands, pc>>
    BY <1>1, <2>1, OtherTyped DEF StreamSource, NativeOn, TypeOK, Results, Places, printer
  <2>2. CASE Send("native", TRUE, "enabling") /\ UNCHANGED <<printer, counts, touched, kind>>
    <3>1. /\ commands' \in Seq(Commands) /\ pc' \in [Tasks -> Places]
          /\ \A u \in Tasks \ {"native"} : pc'[u] = pc[u]
      BY <2>2, Names, Sent DEF Places
    <3>2. (\A u \in Viewers : pc'[u] = pc[u]) /\ pc'["removal"] = pc["removal"]
      BY <3>1, Names, "native" # "removal"
    <3>3. QED
      BY <1>1, <2>2, <3>1, <3>2, OtherTyped DEF StreamSource, TypeOK, Results, printer, counts
  <2>3. QED
    BY <1>1, <2>1, <2>2 DEF StreamSource
<1>2. CASE NativeEnableReturns
  <2>1. /\ pc' \in [Tasks -> Places]
        /\ \A u \in Tasks \ {"native"} : pc'[u] = pc[u]
    BY <1>2, Names, Gone DEF NativeEnableReturns, Places
  <2>2. (\A u \in Viewers : pc'[u] = pc[u]) /\ pc'["removal"] = pc["removal"]
    BY <2>1, Names, "native" # "removal"
  <2>3. ready' \in Seq(Results) /\ enabled' \in BOOLEAN
    BY <1>2, Names, Resumed DEF NativeEnableReturns
  <2>4. native' \in BOOLEAN /\ touched' \in BOOLEAN
    BY <1>2, <2>3 DEF NativeEnableReturns, NativeOn, TypeOK
  <2>5. QED
    BY <1>2, <2>1, <2>2, <2>3, <2>4, OtherTyped
       DEF NativeEnableReturns, NativeOn, TypeOK, printer
<1>3. QED
  BY <1>1, <1>2

LEMMA WatchdogTyped ==
    ASSUME TypeOK, Counted, WatchdogTick \/ WatchdogDisableReturns
    PROVE  TypeOK' /\ Counted'
<1>1. CASE WatchdogTick
  <2>1. CASE ExpireNative /\ UNCHANGED <<commands, pc>>
    BY <1>1, <2>1, OtherTyped DEF WatchdogTick, ExpireNative, TypeOK, Results, Places, printer
  <2>2. CASE /\ Send("watchdog", FALSE, "disabling")
             /\ UNCHANGED <<printer, counts, touched, kind>>
    <3>1. /\ commands' \in Seq(Commands) /\ pc' \in [Tasks -> Places]
          /\ \A u \in Tasks \ {"watchdog"} : pc'[u] = pc[u]
      BY <2>2, Names, Sent DEF Places
    <3>2. (\A u \in Viewers : pc'[u] = pc[u]) /\ pc'["removal"] = pc["removal"]
      BY <3>1, Names, "watchdog" # "removal"
    <3>3. QED
      BY <1>1, <2>2, <3>1, <3>2, OtherTyped DEF WatchdogTick, TypeOK, Results, printer, counts
  <2>3. QED
    BY <1>1, <2>1, <2>2 DEF WatchdogTick
<1>2. CASE WatchdogDisableReturns
  <2>1. /\ pc' \in [Tasks -> Places]
        /\ \A u \in Tasks \ {"watchdog"} : pc'[u] = pc[u]
    BY <1>2, Names, Gone DEF WatchdogDisableReturns, Places
  <2>2. (\A u \in Viewers : pc'[u] = pc[u]) /\ pc'["removal"] = pc["removal"]
    BY <2>1, Names, "watchdog" # "removal"
  <2>3. ready' \in Seq(Results) /\ enabled' \in BOOLEAN
    BY <1>2, Names, Resumed DEF WatchdogDisableReturns
  <2>4. QED
    BY <1>2, <2>1, <2>2, <2>3, OtherTyped
       DEF WatchdogDisableReturns, ExpireNative, TypeOK, printer
<1>3. QED
  BY <1>1, <1>2

LEMMA RemovalTyped ==
    ASSUME TypeOK, Counted, RemoveStart \/ RemoveFinish \/ RemoveDisableReturns
    PROVE  TypeOK' /\ Counted'
<1>1. CASE RemoveStart
  <2>1. /\ pc' \in [Tasks -> Places] /\ pc'["removal"] = "closing"
        /\ \A u \in Tasks \ {"removal"} : pc'[u] = pc[u]
    BY <1>1, Names, Gone DEF RemoveStart, Places
  <2>2. (\A u \in Viewers : pc'[u] = pc[u]) /\ pc'["removal"] # "idle"
    BY <2>1, Names
  <2>3. QED
    BY <1>1, <2>1, <2>2, OtherTyped DEF RemoveStart, TypeOK, Results, printer, counts
<1>2. CASE RemoveFinish
  <2> DEFINE off == enabled /\ connected
  <2>1. /\ pc' \in [Tasks -> Places] /\ pc'["removal"] # "idle"
        /\ \A u \in Viewers : pc'[u] = pc[u]
    BY <1>2, Names DEF RemoveFinish, TypeOK, Places
  <2>2. ready' \in Seq(Results)
    BY <1>2, Forgotten DEF RemoveFinish, TypeOK, Results
  <2>3. Abandon("watchdog") \in Seq(Commands)
    BY AbandonIs DEF TypeOK
  <2>4. (IF off THEN <<[task |-> "removal", on |-> FALSE]>> ELSE <<>>) \in Seq(Commands)
    <3>1. [task |-> "removal", on |-> FALSE] \in Commands
      BY Names DEF Commands
    <3> DEFINE c == [task |-> "removal", on |-> FALSE]
    <3>2. c \in Commands
      BY <3>1
    <3> HIDE DEF c
    <3>3. <<c>> \in Seq(Commands) /\ <<>> \in Seq(Commands)
      BY <3>2
    <3>4. QED
      BY <3>3 DEF c
  <2>5. commands' \in Seq(Commands)
    <3> DEFINE s == IF off THEN <<[task |-> "removal", on |-> FALSE]>> ELSE <<>>
    <3>1. s \in Seq(Commands)
      BY <2>4
    <3>2. commands' = Abandon("watchdog") \o s
      BY <1>2 DEF RemoveFinish
    <3> HIDE DEF s
    <3>3. QED
      BY <2>3, <3>1, <3>2, ConcatProperties
  <2>6. QED
    BY <1>2, <2>1, <2>2, <2>5, OtherTyped DEF RemoveFinish, TypeOK, printer
<1>3. CASE RemoveDisableReturns
  <2>1. /\ pc' \in [Tasks -> Places] /\ pc'["removal"] = "done"
        /\ \A u \in Tasks \ {"removal"} : pc'[u] = pc[u]
    BY <1>3, Names, Gone DEF RemoveDisableReturns, Places
  <2>2. (\A u \in Viewers : pc'[u] = pc[u]) /\ pc'["removal"] # "idle"
    BY <2>1, Names
  <2>3. ready' \in Seq(Results) /\ enabled' \in BOOLEAN
    BY <1>3, Names, Resumed DEF RemoveDisableReturns
  <2>4. QED
    BY <1>3, <2>1, <2>2, <2>3, OtherTyped DEF RemoveDisableReturns, TypeOK, printer, counts
<1>4. QED
  BY <1>1, <1>2, <1>3

LEMMA CountedKept ==
    ASSUME TypeOK, Counted, [Next]_vars
    PROVE  TypeOK' /\ Counted'
<1>1. CASE PrinterObeys
  <2>1. Head(commands).on \in BOOLEAN
    <3>1. commands \in Seq(Commands) /\ commands # <<>>
      BY <1>1 DEF TypeOK, PrinterObeys, Replies
    <3>2. Head(commands) \in Commands
      BY <3>1, TailIs
    <3>3. QED
      BY <3>2 DEF Commands
  <2>2. QED
    BY <1>1, <2>1, RepliesTyped DEF PrinterObeys
<1>2. CASE PrinterRefuses
  <2>1. video' \in BOOLEAN /\ faults' \in Troubles
        /\ \E f \in FaultKinds : faults' = Append(faults, f)
    BY <1>2 DEF PrinterRefuses, Fault, FaultKinds, TypeOK
  <2>2. QED
    BY <1>2, <2>1, RepliesTyped DEF PrinterRefuses
<1>3. CASE LinkBreaks
  BY <1>3, LinkBreaksTyped
<1>4. CASE Reconnect
  BY <1>4, ReconnectTyped
<1>5. CASE \E i \in DOMAIN commands : CommandTimesOut(i)
  BY <1>5, TimeoutTyped
<1>6. CASE \E v \in Viewers : Arrive(v) \/ ViewerStep(v) \/ Leave(v) \/ Cancelled(v)
  BY <1>6, ArriveTyped, EnableReturnsTyped, OpenedTyped, ClosedTyped, DisableReturnsTyped,
     LeaveTyped, CancelledTyped DEF ViewerStep
<1>7. CASE StreamSource \/ NativeEnableReturns
  BY <1>7, NativeTyped
<1>8. CASE WatchdogTick \/ WatchdogDisableReturns
  BY <1>8, WatchdogTyped
<1>9. CASE RemoveStart \/ RemoveFinish \/ RemoveDisableReturns
  BY <1>9, RemovalTyped
<1>10. CASE UNCHANGED vars
  BY <1>10 DEF vars, printer, counts, TypeOK, Counted, Watching, Removed, OnlyFaults
<1>11. QED
  BY <1>1, <1>2, <1>3, <1>4, <1>5, <1>6, <1>7, <1>8, <1>9, <1>10 DEF Next
-----------------------------------------------------------------------------
(***************************************************************************)
(* What is known of the video while commands are only lost.                *)
(***************************************************************************)
LEMMA Typed ==
    ASSUME TypeOK
    PROVE  /\ commands \in Seq(Commands) /\ ready \in Seq(Results)
           /\ Len(commands) \in Nat /\ Len(ready) \in Nat
           /\ DOMAIN commands = 1..Len(commands) /\ DOMAIN ready = 1..Len(ready)
           /\ \A i \in 1..Len(commands) :
                 commands[i].task \in Tasks \union {NoTask} /\ commands[i].on \in BOOLEAN
           /\ \A i \in 1..Len(ready) : ready[i].task \in Tasks /\ ready[i].answered \in BOOLEAN
<1>1. commands \in Seq(Commands) /\ ready \in Seq(Results)
  BY DEF TypeOK, Results
<1>2. /\ Len(commands) \in Nat /\ Len(ready) \in Nat
      /\ DOMAIN commands = 1..Len(commands) /\ DOMAIN ready = 1..Len(ready)
      /\ \A i \in 1..Len(commands) : commands[i] \in Commands
      /\ \A i \in 1..Len(ready) : ready[i] \in Results
  BY <1>1
<1>3. QED
  BY <1>1, <1>2 DEF Commands, Results

LEMMA FaultIsLoss ==
    ASSUME TypeOK, NEW f \in FaultKinds, Fault(f), OnlyLost'
    PROVE  f = "lose"
<1>1. faults \in Seq(FaultKinds)
  <2>1. faults \in Troubles \/ faults = <<>>
    BY DEF TypeOK
  <2>2. <<>> \in Seq(FaultKinds)
    OBVIOUS
  <2>3. QED
    BY <2>1, <2>2, ConstantsAssumption
<1>2. Len(faults) + 1 \in DOMAIN faults' /\ faults'[Len(faults) + 1] = f
  BY <1>1, AppendIs DEF Fault
<1>3. QED
  BY <1>2 DEF OnlyLost, OnlyFaults

\* A task that waits for nothing goes on, and may send a command.
LEMMA GoesOn ==
    ASSUME TypeOK, Known, NEW t \in Tasks, NEW where, NEW on \in BOOLEAN,
           pc[t] \notin {"enabling", "disabling"}, pc'[t] = where,
           \A u \in Tasks \ {t} : pc'[u] = pc[u],
           t = "watchdog" => where # "enabling",
           \/ UNCHANGED commands
           \/ /\ commands' = Append(commands, [task |-> t, on |-> on])
              /\ where = IF on THEN "enabling" ELSE "disabling",
           UNCHANGED <<video, connected, success, ready, enabled>>
    PROVE  Known'
<1>1. /\ \A i \in DOMAIN commands : commands[i].task # t
      /\ \A i \in DOMAIN ready : ready[i].task # t
  BY Names DEF Known, Waiting, Waits
<1>2. \A i \in DOMAIN ready : pc'[ready[i].task] = pc[ready[i].task]
  BY <1>1, Typed
<1>3. \A i \in DOMAIN commands :
          commands[i].task # NoTask => pc'[commands[i].task] = pc[commands[i].task]
  BY <1>1, Typed
<1>4. video' => WillBeEnabled'
  <2>1. \A i \in DOMAIN ready : SwitchesOn(i)' <=> SwitchesOn(i)
    BY <1>2 DEF SwitchesOn
  <2>2. video => WillBeEnabled
    BY DEF Known
  <2>3. \A i \in DOMAIN ready : i..Len(ready) \subseteq DOMAIN ready
    BY Typed
  <2>4. QED
    BY <2>1, <2>2, <2>3 DEF WillBeEnabled
<1>5. pc'["watchdog"] # "enabling"
  BY Names DEF Known, Waiting
<1>6. CASE UNCHANGED commands
  <2>1. Waiting'
    BY <1>2, <1>3, <1>5, <1>6 DEF Known, Waiting, Waits
  <2>2. OneWait'
    BY <1>6 DEF Known, OneWait
  <2>3. QED
    BY <1>4, <2>1, <2>2 DEF Known
<1>7. CASE /\ commands' = Append(commands, [task |-> t, on |-> on])
           /\ where = IF on THEN "enabling" ELSE "disabling"
  <2>1. [task |-> t, on |-> on] \in Commands
    BY DEF Commands
  <2>2. /\ DOMAIN commands' = 1..(Len(commands) + 1) /\ DOMAIN commands = 1..Len(commands)
        /\ \A i \in 1..Len(commands) : commands'[i] = commands[i]
        /\ commands'[Len(commands) + 1].task = t /\ commands'[Len(commands) + 1].on = on
        /\ Len(commands) \in Nat
    BY <1>7, <2>1, AppendIs, Typed
  <2>3. Waiting'
    BY <1>2, <1>3, <1>5, <1>7, <2>2, Names DEF Known, Waiting, Waits
  <2>4. OneWait'
    BY <1>1, <2>2 DEF Known, OneWait
  <2>5. QED
    BY <1>4, <2>3, <2>4 DEF Known
<1>8. QED
  BY <1>6, <1>7

\* A task resumes with what its command came to, and may send another.
LEMMA Resumes ==
    ASSUME TypeOK, Known, NEW t \in Tasks, NEW where, Resume(t), pc'[t] = where,
           \A u \in Tasks \ {t} : pc'[u] = pc[u],
           where # "enabling",
           enabled' = IF pc[t] = "enabling" THEN EnabledAfterOn ELSE EnabledAfterOff,
           \/ UNCHANGED commands
           \/ /\ commands' = Append(commands, [task |-> t, on |-> FALSE])
              /\ where = "disabling",
           UNCHANGED <<video, connected, success>>
    PROVE  Known'
<1> DEFINE n == Len(ready)
<1>1. /\ n \in Nat \ {0} /\ DOMAIN ready = 1..n
      /\ DOMAIN ready' = 1..(n - 1) /\ Len(ready') = n - 1
      /\ \A i \in 1..(n - 1) : ready'[i] = ready[i + 1]
      /\ Head(ready) = ready[1] /\ ready[1].task = t
  BY Typed, TailIs DEF Resume
<1> HIDE DEF n
<1>2. /\ \A i \in DOMAIN commands : commands[i].task # t
      /\ \A i \in 2..n : ready[i].task # t
  BY <1>1 DEF Known, OneWait
<1>3. \A i \in 2..n : pc'[ready[i].task] = pc[ready[i].task]
  BY <1>1, <1>2, Typed DEF n
<1>4. \A i \in DOMAIN commands :
          commands[i].task # NoTask => pc'[commands[i].task] = pc[commands[i].task]
  BY <1>2, Typed
<1>5. pc'["watchdog"] # "enabling"
  BY Names DEF Known, Waiting
<1>6. \A i \in 1..(n - 1) : i + 1 \in 2..n /\ (SwitchesOn(i)' <=> SwitchesOn(i + 1))
                            /\ ready'[i].answered = ready[i + 1].answered
  BY <1>1, <1>3 DEF SwitchesOn
<1>7. pc[t] \in {"enabling", "disabling"} /\ success /\ enabled \in BOOLEAN
  BY <1>1 DEF Known, Waiting, TypeOK
<1>8. /\ ~ready[1].answered => enabled' = enabled
      /\ ready[1].answered /\ pc[t] = "enabling" => enabled'
  BY <1>1, <1>7, Typed DEF EnabledAfterOn, EnabledAfterOff, n
<1>9. video' => WillBeEnabled'
  <2> SUFFICES ASSUME video' PROVE WillBeEnabled'
    OBVIOUS
  <2>1. WillBeEnabled
    BY DEF Known
  <2>2. CASE enabled /\ \A i \in DOMAIN ready : SwitchesOn(i)
    <3>1. enabled'
      <4>1. 1 \in DOMAIN ready
        BY <1>1
      <4>2. ready[1].answered => pc[t] = "enabling"
        BY <1>1, <2>2, <4>1 DEF SwitchesOn
      <4>3. QED
        BY <1>8, <2>2, <4>2
    <3>2. \A i \in 1..(n - 1) : SwitchesOn(i)'
      BY <1>1, <1>6, <2>2
    <3>3. QED
      BY <1>1, <3>1, <3>2 DEF WillBeEnabled
  <2>3. CASE \E i \in DOMAIN ready :
                 ready[i].answered /\ \A j \in i..Len(ready) : SwitchesOn(j)
    <3>1. PICK i \in 1..n : ready[i].answered /\ \A j \in i..n : SwitchesOn(j)
      BY <1>1, <2>3 DEF n
    <3>2. CASE i = 1
      <4>1. enabled'
        BY <1>1, <1>8, <3>1, <3>2 DEF SwitchesOn
      <4>2. \A j \in 1..(n - 1) : SwitchesOn(j)'
        BY <1>1, <1>6, <3>1, <3>2
      <4>3. QED
        BY <1>1, <4>1, <4>2 DEF WillBeEnabled
    <3>3. CASE i # 1
      <4>1. i - 1 \in 1..(n - 1) /\ (i - 1) + 1 = i
        BY <1>1, <3>3
      <4>2. ready'[i - 1].answered
        BY <1>6, <3>1, <4>1
      <4>3. \A j \in (i - 1)..(n - 1) : SwitchesOn(j)'
        <5> TAKE j \in (i - 1)..(n - 1)
        <5>1. j \in 1..(n - 1) /\ j + 1 \in i..n
          BY <1>1, <4>1
        <5>2. QED
          BY <1>6, <3>1, <5>1
      <4>4. QED
        BY <1>1, <4>1, <4>2, <4>3 DEF WillBeEnabled
    <3>4. QED
      BY <3>2, <3>3
  <2>4. QED
    BY <2>1, <2>2, <2>3 DEF WillBeEnabled
<1>10. /\ \A i \in DOMAIN ready' : pc'[ready'[i].task] \in {"enabling", "disabling"}
       /\ \A i, j \in DOMAIN ready' : ready'[i].task = ready'[j].task => i = j
  <2>1. \A i \in 1..(n - 1) :
            i + 1 \in 2..n /\ i + 1 \in DOMAIN ready /\ ready'[i] = ready[i + 1]
    BY <1>1
  <2>2. \A i \in 1..(n - 1) : pc'[ready'[i].task] \in {"enabling", "disabling"}
    BY <1>3, <2>1 DEF Known, Waiting
  <2>3. ASSUME NEW i \in 1..(n - 1), NEW j \in 1..(n - 1), ready'[i].task = ready'[j].task
        PROVE  i = j
    <3>1. i + 1 = j + 1
      BY <2>1, <2>3 DEF Known, OneWait
    <3>2. QED
      BY <1>1, <3>1
  <2>4. QED
    BY <1>1, <2>2, <2>3
<1>11. \A j \in DOMAIN ready' :
           ready'[j].task # t /\ \E k \in DOMAIN ready : ready'[j] = ready[k]
  BY <1>1, <1>2, <1>6
<1>12. CASE UNCHANGED commands
  <2>1. Waiting'
    BY <1>4, <1>5, <1>10, <1>12 DEF Known, Waiting, Waits
  <2>2. OneWait'
    BY <1>10, <1>11, <1>12 DEF Known, OneWait
  <2>3. QED
    BY <1>9, <2>1, <2>2 DEF Known
<1>13. CASE commands' = Append(commands, [task |-> t, on |-> FALSE]) /\ where = "disabling"
  <2>1. [task |-> t, on |-> FALSE] \in Commands
    BY DEF Commands
  <2>2. /\ DOMAIN commands' = 1..(Len(commands) + 1) /\ DOMAIN commands = 1..Len(commands)
        /\ \A i \in 1..Len(commands) : commands'[i] = commands[i]
        /\ commands'[Len(commands) + 1].task = t /\ commands'[Len(commands) + 1].on = FALSE
        /\ Len(commands) \in Nat
    BY <1>13, <2>1, AppendIs, Typed
  <2>3. Waiting'
    BY <1>4, <1>5, <1>10, <1>13, <2>2, Names DEF Known, Waiting, Waits
  <2>4. OneWait'
    BY <1>2, <1>10, <1>11, <2>2 DEF Known, OneWait
  <2>5. QED
    BY <1>9, <2>3, <2>4 DEF Known
<1>14. QED
  BY <1>12, <1>13
-----------------------------------------------------------------------------
\* A command is over: the task that waits for it, if any, is ready.
LEMMA Answered ==
    ASSUME TypeOK, Known, NEW i \in DOMAIN commands, NEW ok \in BOOLEAN,
           commands' = RemoveAt(commands, i),
           ready' = ready \o Outcome(commands[i].task, ok),
           ok => video' = commands[i].on,
           ~ok => UNCHANGED video,
           connected', success', UNCHANGED <<pc, enabled>>
    PROVE  Known'
<1> DEFINE n == Len(commands)
           t == commands[i].task
<1>0. PICK m : m = Len(ready)
  OBVIOUS
<1>1. /\ n \in Nat \ {0} /\ i \in 1..n /\ DOMAIN commands = 1..n
      /\ DOMAIN commands' = 1..(n - 1)
      /\ \A j \in 1..(n - 1) : commands'[j] = IF j < i THEN commands[j] ELSE commands[j + 1]
  BY Typed, RemovedIs
<1>2. m \in Nat /\ DOMAIN ready = 1..m /\ ready \in Seq(Results) /\ t \in Tasks \union {NoTask}
  BY <1>0, <1>1, Typed
<1> DEFINE from(j) == IF j < i THEN j ELSE j + 1
<1>3. \A j \in 1..(n - 1) :
          from(j) \in 1..n /\ from(j) # i /\ commands'[j] = commands[from(j)]
  BY <1>1
<1>4. \A j, k \in 1..(n - 1) : from(j) = from(k) => j = k
  BY <1>1
<1> HIDE DEF n, t, from
<1>5. /\ \A j \in DOMAIN commands' :
            IF commands'[j].task = NoTask THEN ~commands'[j].on
            ELSE pc'[commands'[j].task] = IF commands'[j].on THEN "enabling" ELSE "disabling"
      /\ pc'["watchdog"] # "enabling"
  BY <1>1, <1>3 DEF Known, Waiting, Waits
<1>6. \A j, k \in DOMAIN commands' :
          commands'[j].task = commands'[k].task /\ commands'[j].task # NoTask => j = k
  <2> SUFFICES ASSUME NEW j \in 1..(n - 1), NEW k \in 1..(n - 1),
                      commands'[j].task = commands'[k].task, commands'[j].task # NoTask
               PROVE  j = k
    BY <1>1
  <2>1. from(j) = from(k)
    BY <1>1, <1>3 DEF Known, OneWait
  <2>2. QED
    BY <1>4, <2>1
<1>7. \A j \in DOMAIN commands', k \in DOMAIN ready : commands'[j].task # ready[k].task
  BY <1>1, <1>3 DEF Known, OneWait
<1>8. CASE t = NoTask
  <2>1. ready' = ready
    BY <1>2, <1>8, OutcomeIs DEF t
  <2>2. ok => ~video'
    BY <1>8 DEF t, Known, Waiting
  <2>3. video' => WillBeEnabled'
    <3>1. WillBeEnabled' <=> WillBeEnabled
      BY <2>1 DEF WillBeEnabled, SwitchesOn
    <3>2. QED
      BY <2>2, <3>1 DEF Known
  <2>4. Waiting' /\ OneWait'
    BY <1>5, <1>6, <1>7, <2>1 DEF Known, Waiting, Waits, OneWait
  <2>5. QED
    BY <2>3, <2>4 DEF Known
<1>9. CASE t # NoTask
  <2>1. ready' = Append(ready, [task |-> t, answered |-> ok])
    BY <1>2, <1>9, OutcomeIs DEF t
  <2>2. [task |-> t, answered |-> ok] \in Results
    BY <1>2, <1>9 DEF Results
  <2>3. /\ DOMAIN ready' = 1..(m + 1) /\ Len(ready') = m + 1
        /\ \A j \in 1..m : ready'[j] = ready[j]
        /\ ready'[m + 1].task = t /\ ready'[m + 1].answered = ok
    BY <1>0, <1>2, <2>1, <2>2, AppendIs
  <2>4. pc[t] = IF commands[i].on THEN "enabling" ELSE "disabling"
    BY <1>9 DEF t, Known, Waiting, Waits
  <2>5. /\ \A j \in DOMAIN ready : ready[j].task # t
        /\ \A j \in DOMAIN commands' : commands'[j].task # t
    BY <1>1, <1>3, <1>9 DEF t, Known, OneWait
  <2>6. Waiting'
    <3>1. \A j \in DOMAIN ready' : pc[ready'[j].task] \in {"enabling", "disabling"}
      BY <1>2, <2>3, <2>4 DEF Known, Waiting
    <3>2. QED
      BY <1>5, <3>1 DEF Waiting, Waits
  <2>7. OneWait'
    <3>1. ASSUME NEW j \in DOMAIN ready', NEW k \in DOMAIN ready',
                 ready'[j].task = ready'[k].task
          PROVE  j = k
      <4>1. /\ j \in 1..m \/ j = m + 1
            /\ k \in 1..m \/ k = m + 1
        BY <1>2, <2>3
      <4>2. CASE j \in 1..m /\ k \in 1..m
        <5>1. ready[j].task = ready[k].task /\ j \in DOMAIN ready /\ k \in DOMAIN ready
          BY <1>2, <2>3, <3>1, <4>2
        <5>2. QED
          BY <5>1 DEF Known, OneWait
      <4>3. CASE j = m + 1 /\ k \in 1..m
        BY <1>2, <2>3, <2>5, <3>1, <4>3
      <4>4. CASE j \in 1..m /\ k = m + 1
        BY <1>2, <2>3, <2>5, <3>1, <4>4
      <4>5. QED
        BY <4>1, <4>2, <4>3, <4>4
    <3>2. \A j \in DOMAIN commands', k \in DOMAIN ready' : commands'[j].task # ready'[k].task
      BY <1>2, <1>7, <2>3, <2>5
    <3>3. QED
      BY <1>6, <3>1, <3>2 DEF OneWait
  <2>8. \A j \in 1..m : SwitchesOn(j)' <=> SwitchesOn(j)
    BY <2>3 DEF SwitchesOn
  <2>9. (m + 1)..(m + 1) = {m + 1} /\ m + 1 \in DOMAIN ready'
    BY <1>2, <2>3
  <2>10. video' => WillBeEnabled'
    <3>1. CASE ok /\ commands[i].on
      <4>1. SwitchesOn(m + 1)'
        BY <2>3, <2>4, <3>1 DEF SwitchesOn
      <4>2. QED
        BY <2>3, <2>9, <3>1, <4>1 DEF WillBeEnabled
    <3>2. CASE ok /\ ~commands[i].on
      BY <3>2
    <3>3. CASE ~ok
      <4>1. SwitchesOn(m + 1)'
        BY <2>3, <3>3 DEF SwitchesOn
      <4>2. \A j \in 1..m : \A k \in j..(m + 1) : k \in j..m \/ k = m + 1
        BY <1>2
      <4>3. \A j \in DOMAIN ready :
                (\A k \in j..m : SwitchesOn(k)) => \A k \in j..(m + 1) : SwitchesOn(k)'
        <5> SUFFICES ASSUME NEW j \in 1..m, \A k \in j..m : SwitchesOn(k), NEW k \in j..(m + 1)
                     PROVE  SwitchesOn(k)'
          BY <1>2
        <5>1. CASE k \in j..m
          <6>1. k \in 1..m
            BY <1>2, <5>1
          <6>2. QED
            BY <2>8, <5>1, <6>1
        <5>2. QED
          BY <4>1, <4>2, <5>1
      <4>4. (\A k \in DOMAIN ready : SwitchesOn(k)) => \A k \in DOMAIN ready' : SwitchesOn(k)'
        <5>1. \A k \in DOMAIN ready' : k \in DOMAIN ready \/ k = m + 1
          BY <1>2, <2>3
        <5>2. QED
          BY <1>2, <2>8, <4>1, <5>1
      <4>5. \A j \in DOMAIN ready : j \in DOMAIN ready' /\ ready'[j] = ready[j]
        BY <1>2, <2>3
      <4>6. video' => WillBeEnabled
        BY <3>3 DEF Known
      <4>7. Len(ready) = m
        BY <1>0
      <4>8. QED
        BY <2>3, <4>3, <4>4, <4>5, <4>6, <4>7 DEF WillBeEnabled
    <3>4. QED
      BY <1>1, <3>1, <3>2, <3>3, Typed
  <2>11. QED
    BY <2>6, <2>7, <2>10 DEF Known
<1>10. QED
  BY <1>8, <1>9
-----------------------------------------------------------------------------
LEMMA TailIsRemoved ==
    ASSUME NEW S, NEW s \in Seq(S), s # <<>>
    PROVE  Tail(s) = RemoveAt(s, 1) /\ 1 \in DOMAIN s /\ Head(s) = s[1]
<1>1. /\ Tail(s) \in Seq(S) /\ Len(Tail(s)) = Len(s) - 1 /\ Len(s) \in Nat \ {0}
      /\ DOMAIN s = 1..Len(s) /\ \A i \in 1..(Len(s) - 1) : Tail(s)[i] = s[i + 1]
      /\ Head(s) = s[1]
  BY TailIs
<1>2. 1 \in DOMAIN s
  BY <1>1
<1>3. /\ RemoveAt(s, 1) \in Seq(S) /\ Len(RemoveAt(s, 1)) = Len(s) - 1
      /\ \A j \in 1..(Len(s) - 1) : RemoveAt(s, 1)[j] = IF j < 1 THEN s[j] ELSE s[j + 1]
  BY <1>2, RemovedIs
<1> DEFINE a == Tail(s)
           b == RemoveAt(s, 1)
<1>4. a \in Seq(S) /\ b \in Seq(S) /\ Len(a) = Len(b) /\ \A i \in 1..Len(a) : a[i] = b[i]
  BY <1>1, <1>3
<1> HIDE DEF a, b
<1>5. a = b
  BY <1>4, SeqEqual
<1>6. QED
  BY <1>1, <1>2, <1>5 DEF a, b

LEMMA KnownSame ==
    ASSUME Known, UNCHANGED <<video, connected, success, commands, ready, enabled, pc>>
    PROVE  Known'
BY DEF Known, Waiting, Waits, OneWait, WillBeEnabled, SwitchesOn

LEMMA PrinterObeysKnown ==
    ASSUME TypeOK, Known, PrinterObeys
    PROVE  Known'
<1>1. commands \in Seq(Commands) /\ commands # <<>>
  BY Typed DEF PrinterObeys, Replies
<1>2. /\ Tail(commands) = RemoveAt(commands, 1)
      /\ 1 \in DOMAIN commands /\ Head(commands) = commands[1]
  BY <1>1, TailIsRemoved
<1>3. QED
  BY <1>2, Answered DEF PrinterObeys, Replies

LEMMA TimeoutKnown ==
    ASSUME TypeOK, Known, NEW i \in DOMAIN commands, CommandTimesOut(i), OnlyLost'
    PROVE  Known'
<1>1. ~Fault("late")
  BY FaultIsLoss, "late" # "lose" DEF FaultKinds
<1>2. QED
  BY <1>1, Answered DEF CommandTimesOut, Known

\* A viewer without a command under way is let in, or turned away.
LEMMA EnteredKnown ==
    ASSUME TypeOK, Known, NEW v \in Viewers, NEW k, Enter(v, k), pc[v] = "idle",
           UNCHANGED <<ready, enabled>>
    PROVE  Known'
<1>1. CASE \E where \in {"viewing", "opening", "idle"} : Goto(v, where) /\ UNCHANGED commands
  <2>1. PICK where \in {"viewing", "opening", "idle"} : Goto(v, where) /\ UNCHANGED commands
    BY <1>1
  <2>2. pc'[v] = where /\ \A u \in Tasks \ {v} : pc'[u] = pc[u]
    BY <2>1, Names, Gone DEF Places
  <2>3. QED
    BY <2>1, <2>2, Names, GoesOn DEF Enter, printer
<1>2. CASE Send(v, FALSE, "disabling")
  <2>1. pc'[v] = "disabling" /\ \A u \in Tasks \ {v} : pc'[u] = pc[u]
    BY <1>2, Names, Sent DEF Places
  <2>2. commands' = Append(commands, [task |-> v, on |-> FALSE])
    BY <1>2 DEF Send
  <2>3. QED
    BY <2>1, <2>2, Names, GoesOn DEF Enter, printer
<1>3. QED
  BY <1>1, <1>2 DEF Enter, DisableIfLast

LEMMA ArriveKnown ==
    ASSUME TypeOK, Known, NEW v \in Viewers, Arrive(v)
    PROVE  Known'
<1>1. CASE \E k : Enter(v, k)
  BY <1>1, EnteredKnown DEF Arrive
<1>2. CASE Send(v, TRUE, "enabling") /\ UNCHANGED printer
  <2>1. pc'[v] = "enabling" /\ \A u \in Tasks \ {v} : pc'[u] = pc[u]
    BY <1>2, Names, Sent DEF Places
  <2>2. commands' = Append(commands, [task |-> v, on |-> TRUE])
    BY <1>2 DEF Send
  <2>3. v # "watchdog" /\ pc[v] = "idle"
    BY Names DEF Arrive
  <2>4. QED
    BY <1>2, <2>1, <2>2, <2>3, Names, GoesOn DEF Arrive, printer
<1>3. QED
  BY <1>1, <1>2 DEF Arrive

LEMMA EnableReturnsKnown ==
    ASSUME TypeOK, Known, NEW v \in Viewers, EnableReturns(v)
    PROVE  Known'
<1>1. CASE \E where \in {"viewing", "opening", "idle"} : Goto(v, where) /\ UNCHANGED commands
  <2>1. PICK where \in {"viewing", "opening", "idle"} : Goto(v, where) /\ UNCHANGED commands
    BY <1>1
  <2>2. pc'[v] = where /\ \A u \in Tasks \ {v} : pc'[u] = pc[u]
    BY <2>1, Names, Gone DEF Places
  <2>3. QED
    BY <2>1, <2>2, Names, Resumes DEF EnableReturns, Enter, printer
<1>2. CASE Send(v, FALSE, "disabling")
  <2>1. pc'[v] = "disabling" /\ \A u \in Tasks \ {v} : pc'[u] = pc[u]
    BY <1>2, Names, Sent DEF Places
  <2>2. commands' = Append(commands, [task |-> v, on |-> FALSE])
    BY <1>2 DEF Send
  <2>3. QED
    BY <2>1, <2>2, Names, Resumes DEF EnableReturns, Enter, printer
<1>3. QED
  BY <1>1, <1>2 DEF EnableReturns, Enter, DisableIfLast

LEMMA ViewerKnown ==
    ASSUME TypeOK, Known, NEW v \in Viewers, Opened(v) \/ Closed(v) \/ Leave(v)
    PROVE  Known'
<1>1. UNCHANGED <<video, connected, success, ready, enabled>> /\ v \in Tasks
      /\ pc[v] \notin {"enabling", "disabling"}
  BY Names DEF Opened, Closed, Leave, printer
<1>2. CASE \E where \in {"viewing", "closing", "idle"} : Goto(v, where) /\ UNCHANGED commands
  <2>1. PICK where \in {"viewing", "closing", "idle"} : Goto(v, where) /\ UNCHANGED commands
    BY <1>2
  <2>2. pc'[v] = where /\ \A u \in Tasks \ {v} : pc'[u] = pc[u]
    BY <1>1, <2>1, Gone DEF Places
  <2>3. QED
    BY <1>1, <2>1, <2>2, GoesOn
<1>3. CASE Send(v, FALSE, "disabling")
  <2>1. pc'[v] = "disabling" /\ \A u \in Tasks \ {v} : pc'[u] = pc[u]
    BY <1>3, Names, Sent DEF Places
  <2>2. commands' = Append(commands, [task |-> v, on |-> FALSE])
    BY <1>3 DEF Send
  <2>3. QED
    BY <1>1, <2>1, <2>2, GoesOn
<1>4. QED
  BY <1>2, <1>3 DEF Opened, Closed, Leave, DisableIfLast

\* A task that only waited for the end of its command.
LEMMA ReturnsKnown ==
    ASSUME TypeOK, Known, NEW t \in Tasks, NEW where \in {"idle", "done"},
           Resume(t), Goto(t, where),
           \/ pc[t] = "enabling" /\ enabled' = EnabledAfterOn
           \/ pc[t] = "disabling" /\ enabled' = EnabledAfterOff,
           UNCHANGED <<video, connected, success, commands>>
    PROVE  Known'
<1>1. pc'[t] = where /\ \A u \in Tasks \ {t} : pc'[u] = pc[u]
  BY Gone DEF Places
<1>2. enabled' = IF pc[t] = "enabling" THEN EnabledAfterOn ELSE EnabledAfterOff
  OBVIOUS
<1>3. QED
  BY <1>1, <1>2, Resumes

LEMMA CameraKnown ==
    ASSUME TypeOK, Known, StreamSource \/ WatchdogTick \/ RemoveStart
    PROVE  Known'
<1>1. CASE UNCHANGED <<video, connected, success, commands, ready, enabled, pc>>
  BY <1>1, KnownSame
<1>2. CASE /\ pc["native"] = "idle" /\ Send("native", TRUE, "enabling")
           /\ UNCHANGED <<printer, ready, enabled>>
  <2>1. pc'["native"] = "enabling" /\ \A u \in Tasks \ {"native"} : pc'[u] = pc[u]
    BY <1>2, Names, Sent DEF Places
  <2>2. commands' = Append(commands, [task |-> "native", on |-> TRUE]) /\ "native" # "watchdog"
    BY <1>2 DEF Send
  <2>3. QED
    BY <1>2, <2>1, <2>2, Names, GoesOn DEF printer
<1>3. CASE /\ pc["watchdog"] = "idle" /\ Send("watchdog", FALSE, "disabling")
           /\ UNCHANGED <<printer, ready, enabled>>
  <2>1. pc'["watchdog"] = "disabling" /\ \A u \in Tasks \ {"watchdog"} : pc'[u] = pc[u]
    BY <1>3, Names, Sent DEF Places
  <2>2. commands' = Append(commands, [task |-> "watchdog", on |-> FALSE])
    BY <1>3 DEF Send
  <2>3. QED
    BY <1>3, <2>1, <2>2, Names, GoesOn DEF printer
<1>4. CASE RemoveStart
  <2>1. pc'["removal"] = "closing" /\ \A u \in Tasks \ {"removal"} : pc'[u] = pc[u]
    BY <1>4, Names, Gone DEF RemoveStart, Places
  <2>2. QED
    BY <1>4, <2>1, Names, GoesOn DEF RemoveStart, Removed, printer
<1>5. QED
  BY <1>1, <1>2, <1>3, <1>4 DEF StreamSource, WatchdogTick, NativeOn, ExpireNative, printer
-----------------------------------------------------------------------------
\* What is left of the queue once a task has been forgotten, in its old places.
LEMMA ForgottenIs ==
    ASSUME TypeOK, OneWait, NEW t, Forget(t)
    PROVE  /\ DOMAIN ready' = 1..Len(ready') /\ Len(ready') \in Nat
           /\ \E f \in [DOMAIN ready' -> DOMAIN ready] :
                 /\ \A j \in DOMAIN ready' : ready'[j] = ready[f[j]] /\ ready[f[j]].task # t
                 /\ \A j, k \in DOMAIN ready' : j < k => f[j] < f[k]
                 /\ \A i \in DOMAIN ready : ready[i].task # t =>
                       \E j \in DOMAIN ready' : f[j] = i
<1>1. ready \in Seq(Results) /\ DOMAIN ready = 1..Len(ready) /\ Len(ready) \in Nat
  BY Typed
<1>2. CASE (\A i \in DOMAIN ready : ready[i].task # t) /\ UNCHANGED ready
  <2> DEFINE f == [j \in DOMAIN ready' |-> j]
  <2>1. /\ f \in [DOMAIN ready' -> DOMAIN ready]
        /\ \A j \in DOMAIN ready' : ready'[j] = ready[f[j]] /\ ready[f[j]].task # t
        /\ \A j, k \in DOMAIN ready' : j < k => f[j] < f[k]
        /\ \A i \in DOMAIN ready : ready[i].task # t => \E j \in DOMAIN ready' : f[j] = i
    BY <1>1, <1>2
  <2>2. DOMAIN ready' = 1..Len(ready') /\ Len(ready') \in Nat
    BY <1>1, <1>2
  <2> HIDE DEF f
  <2>3. QED
    BY <2>1, <2>2
<1>3. CASE \E i \in DOMAIN ready : ready[i].task = t /\ ready' = RemoveAt(ready, i)
  <2>1. PICK i \in DOMAIN ready : ready[i].task = t /\ ready' = RemoveAt(ready, i)
    BY <1>3
  <2>2. PICK n : n = Len(ready)
    OBVIOUS
  <2>3. /\ n \in Nat \ {0} /\ i \in 1..n /\ DOMAIN ready = 1..n
        /\ DOMAIN ready' = 1..(n - 1) /\ Len(ready') = n - 1
        /\ \A j \in 1..(n - 1) : ready'[j] = IF j < i THEN ready[j] ELSE ready[j + 1]
    BY <1>1, <2>1, <2>2, RemovedIs
  <2> DEFINE f == [j \in DOMAIN ready' |-> IF j < i THEN j ELSE j + 1]
  <2>4. \A j \in 1..(n - 1) : f[j] \in 1..n /\ f[j] # i /\ ready'[j] = ready[f[j]]
    BY <2>3
  <2>5. f \in [DOMAIN ready' -> DOMAIN ready]
    BY <2>3
  <2>6. \A j, k \in DOMAIN ready' : j < k => f[j] < f[k]
    BY <2>3
  <2>7. \A k \in 1..n : k # i => \E j \in DOMAIN ready' : f[j] = k
    <3> SUFFICES ASSUME NEW k \in 1..n, k # i PROVE \E j \in DOMAIN ready' : f[j] = k
      OBVIOUS
    <3>1. CASE k < i
      <4>1. k \in DOMAIN ready' /\ f[k] = k
        BY <2>3, <3>1
      <4>2. QED
        BY <4>1
    <3>2. CASE k > i
      <4>1. k - 1 \in DOMAIN ready' /\ f[k - 1] = k
        BY <2>3, <3>2
      <4>2. QED
        BY <4>1
    <3>3. QED
      BY <2>3, <3>1, <3>2
  <2> HIDE DEF f
  <2>8. \A j \in 1..(n - 1) : ready[f[j]].task # t
    BY <2>1, <2>3, <2>4 DEF OneWait
  <2>9. \A j \in DOMAIN ready' : ready'[j] = ready[f[j]] /\ ready[f[j]].task # t
    BY <2>3, <2>4, <2>8
  <2>10. \A k \in DOMAIN ready : ready[k].task # t => \E j \in DOMAIN ready' : f[j] = k
    BY <2>1, <2>3, <2>7
  <2>11. DOMAIN ready' = 1..Len(ready') /\ Len(ready') \in Nat
    BY <2>3
  <2>12. QED
    BY <2>5, <2>6, <2>9, <2>10, <2>11
<1>4. QED
  BY <1>2, <1>3 DEF Forget

LEMMA RemoveFinishKnown ==
    ASSUME TypeOK, Known, RemoveFinish
    PROVE  Known'
<1>1. PICK n : n = Len(commands)
  OBVIOUS
<1>2. n \in Nat /\ DOMAIN commands = 1..n /\ commands \in Seq(Commands)
  BY <1>1, Typed
<1> DEFINE a == Abandon("watchdog")
           s == IF enabled /\ connected THEN <<[task |-> "removal", on |-> FALSE]>> ELSE <<>>
<1>3. /\ a \in Seq(Commands) /\ Len(a) = n
      /\ \A i \in 1..n :
            /\ a[i].on = commands[i].on
            /\ a[i].task = IF commands[i].task = "watchdog" THEN NoTask ELSE commands[i].task
  BY <1>1, <1>2, AbandonIs
<1>4. /\ pc["removal"] = "closing" /\ pc'["watchdog"] = "done"
      /\ pc'["removal"] = IF enabled /\ connected THEN "disabling" ELSE "done"
      /\ \A u \in Tasks \ {"watchdog", "removal"} : pc'[u] = pc[u]
  BY Names, "watchdog" # "removal" DEF RemoveFinish, TypeOK
<1>5. \A i \in 1..n :
          commands[i].task # "removal" /\ (commands[i].task = "watchdog" => ~commands[i].on)
  BY <1>2, <1>4, Names DEF Known, Waiting, Waits
<1>6. commands' = a \o s
  BY DEF RemoveFinish
<1> HIDE DEF a
\* The commands that were under way, and the switch-off.
<1>7. PICK m \in {n, n + 1} :
          /\ DOMAIN commands' = 1..m
          /\ \A i \in 1..n : commands'[i] = a[i]
          /\ m = n + 1 => /\ commands'[m].task = "removal" /\ ~commands'[m].on
                          /\ pc'["removal"] = "disabling"
  <2>1. CASE enabled /\ connected
    <3> DEFINE c == [task |-> "removal", on |-> FALSE]
    <3>1. c \in Commands /\ c.task = "removal" /\ ~c.on
      BY Names DEF Commands
    <3>2. commands' = a \o <<c>>
      BY <1>6, <2>1
    <3> HIDE DEF c
    <3>3. commands' = Append(a, c)
      BY <1>3, <3>1, <3>2
    <3>4. /\ DOMAIN commands' = 1..(n + 1)
          /\ \A i \in 1..n : commands'[i] = a[i]
          /\ commands'[n + 1] = c
      BY <1>3, <3>1, <3>3, AppendIs
    <3>5. QED
      BY <1>4, <2>1, <3>1, <3>4
  <2>2. CASE ~(enabled /\ connected)
    <3>1. commands' = a
      BY <1>3, <1>6, <2>2
    <3>2. DOMAIN a = 1..n
      BY <1>3
    <3>3. n # n + 1
      BY <1>2
    <3>4. QED
      BY <3>1, <3>2, <3>3
  <2>3. QED
    BY <2>1, <2>2
<1>8. \A i \in 1..n : /\ commands'[i].on = commands[i].on
                      /\ commands'[i].task = IF commands[i].task = "watchdog" THEN NoTask
                                             ELSE commands[i].task
  BY <1>3, <1>7
<1>9. \A i \in 1..m : i \in 1..n \/ (i = m /\ m = n + 1)
  BY <1>2, <1>7
<1>10. PICK f \in [DOMAIN ready' -> DOMAIN ready] :
           /\ \A j \in DOMAIN ready' :
                 ready'[j] = ready[f[j]] /\ ready[f[j]].task # "watchdog"
           /\ \A j, k \in DOMAIN ready' : j < k => f[j] < f[k]
           /\ \A i \in DOMAIN ready :
                 ready[i].task # "watchdog" => \E j \in DOMAIN ready' : f[j] = i
  BY ForgottenIs DEF Known, RemoveFinish
<1>11. \A i \in DOMAIN ready : ready[i].task \in Tasks /\ ready[i].task # "removal"
  BY <1>4, Typed DEF Known, Waiting
<1>12. \A j \in DOMAIN ready' : pc'[ready'[j].task] = pc[ready[f[j]].task]
  BY <1>4, <1>10, <1>11
<1>13. Waiting'
  <2>1. \A i \in DOMAIN commands' :
            IF commands'[i].task = NoTask THEN ~commands'[i].on
            ELSE pc'[commands'[i].task] = IF commands'[i].on THEN "enabling" ELSE "disabling"
    <3> SUFFICES ASSUME NEW i \in 1..m
                 PROVE  IF commands'[i].task = NoTask THEN ~commands'[i].on
                        ELSE pc'[commands'[i].task] = IF commands'[i].on THEN "enabling"
                                                                         ELSE "disabling"
      BY <1>7
    <3>1. CASE i \in 1..n
      <4>1. commands[i].task \in Tasks \union {NoTask}
        BY <1>1, <3>1, Typed
      <4>2. CASE commands[i].task \in {NoTask, "watchdog"}
        BY <1>2, <1>5, <1>8, <3>1, <4>2 DEF Known, Waiting
      <4>3. CASE commands[i].task \notin {NoTask, "watchdog"}
        <5>1. pc'[commands[i].task] = pc[commands[i].task]
          BY <1>4, <1>5, <3>1, <4>1, <4>3
        <5>2. QED
          BY <1>2, <1>8, <3>1, <4>3, <5>1 DEF Known, Waiting, Waits
      <4>4. QED
        BY <4>2, <4>3
    <3>2. CASE i = m /\ m = n + 1
      BY <1>7, <3>2, Names
    <3>3. QED
      BY <1>9, <3>1, <3>2
  <2>2. \A j \in DOMAIN ready' : pc'[ready'[j].task] \in {"enabling", "disabling"}
    BY <1>10, <1>12 DEF Known, Waiting
  <2>3. QED
    BY <1>4, <2>1, <2>2 DEF Waiting, Waits
<1>14. OneWait'
  <2>1. \A i, j \in 1..m :
            commands'[i].task = commands'[j].task /\ commands'[i].task # NoTask => i = j
    <3>1. \A i, j \in 1..n :
              commands'[i].task = commands'[j].task /\ commands'[i].task # NoTask => i = j
      BY <1>2, <1>8 DEF Known, OneWait
    <3>2. \A i \in 1..n : commands'[i].task # "removal"
      BY <1>5, <1>8, Names
    <3>3. QED
      BY <1>7, <1>9, <3>1, <3>2
  <2>2. \A i, j \in DOMAIN ready' : ready'[i].task = ready'[j].task => i = j
    <3> SUFFICES ASSUME NEW i \in DOMAIN ready', NEW j \in DOMAIN ready',
                        ready'[i].task = ready'[j].task
                 PROVE  i = j
      OBVIOUS
    <3>1. f[i] = f[j]
      BY <1>10 DEF Known, OneWait
    <3>2. i \in Nat /\ j \in Nat /\ f[i] \in Nat
      <4>1. DOMAIN ready' = 1..Len(ready') /\ Len(ready') \in Nat
        BY ForgottenIs DEF Known, RemoveFinish
      <4>2. DOMAIN ready = 1..Len(ready) /\ Len(ready) \in Nat
        BY Typed
      <4>3. QED
        BY <1>10, <4>1, <4>2
    <3>3. ~(i < j) /\ ~(j < i)
      BY <1>10, <3>1, <3>2
    <3>4. QED
      BY <3>2, <3>3
  <2>3. \A i \in 1..m, j \in DOMAIN ready' : commands'[i].task # ready'[j].task
    <3>1. \A i \in 1..n, j \in DOMAIN ready' : commands'[i].task # ready'[j].task
      BY <1>2, <1>8, <1>10, <1>11, Names DEF Known, OneWait
    <3>2. QED
      BY <1>7, <1>9, <1>10, <1>11, <3>1
  <2>4. QED
    BY <1>7, <2>1, <2>2, <2>3 DEF OneWait
<1>15. video' => WillBeEnabled'
  <2>1. \A j \in DOMAIN ready' : SwitchesOn(j)' <=> SwitchesOn(f[j])
    BY <1>10, <1>12 DEF SwitchesOn
  <2>2. ~(pc["watchdog"] = "enabling")
    BY DEF Known, Waiting
  <2>3. ASSUME enabled, \A i \in DOMAIN ready : SwitchesOn(i)
        PROVE  WillBeEnabled'
    BY <1>10, <2>1, <2>3 DEF WillBeEnabled, RemoveFinish
  <2>4. ASSUME NEW i \in DOMAIN ready, ready[i].answered, \A j \in i..Len(ready) : SwitchesOn(j)
        PROVE  WillBeEnabled'
    <3>1. i \in 1..Len(ready) /\ i \in i..Len(ready) /\ Len(ready) \in Nat
          /\ DOMAIN ready = 1..Len(ready)
      BY Typed
    <3>2. ready[i].task # "watchdog"
      BY <2>2, <2>4, <3>1 DEF SwitchesOn
    <3>3. PICK k \in DOMAIN ready' : f[k] = i
      BY <1>10, <3>2
    <3>4. DOMAIN ready' = 1..Len(ready') /\ Len(ready') \in Nat
      BY ForgottenIs DEF Known, RemoveFinish
    <3>5. ASSUME NEW j \in k..Len(ready')
          PROVE  SwitchesOn(j)'
      <4>1. j \in DOMAIN ready' /\ f[j] \in 1..Len(ready)
        BY <1>10, <3>1, <3>3, <3>4
      <4>2. j = k \/ k < j
        BY <3>3, <3>4
      <4>3. f[j] \in i..Len(ready)
        BY <1>10, <3>1, <3>3, <4>1, <4>2
      <4>4. QED
        BY <2>1, <2>4, <4>1, <4>3
    <3>6. ready'[k].answered
      BY <1>10, <2>4, <3>3
    <3>7. QED
      BY <3>3, <3>5, <3>6 DEF WillBeEnabled
  <2>5. video' => WillBeEnabled
    BY DEF Known, RemoveFinish, printer
  <2>6. QED
    BY <2>3, <2>4, <2>5 DEF WillBeEnabled
<1>16. QED
  BY <1>13, <1>14, <1>15 DEF Known, RemoveFinish, printer

LEMMA KnownKept ==
    ASSUME TypeOK, Known, [Next]_vars, OnlyLost'
    PROVE  Known'
<1>1. CASE PrinterObeys
  BY <1>1, PrinterObeysKnown
<1>2. CASE PrinterRefuses \/ LinkBreaks \/ \E v \in Viewers : Cancelled(v)
  <2>1. ~Fault("refuse") /\ ~Fault("link") /\ ~Fault("cancel")
    BY FaultIsLoss DEF FaultKinds
  <2>2. QED
    BY <1>2, <2>1 DEF PrinterRefuses, LinkBreaks, Cancelled
<1>3. CASE Reconnect
  BY <1>3 DEF Reconnect, Known
<1>4. CASE \E i \in DOMAIN commands : CommandTimesOut(i)
  BY <1>4, TimeoutKnown
<1>5. ASSUME NEW v \in Viewers, Arrive(v) \/ ViewerStep(v) \/ Leave(v)
      PROVE  Known'
  <2>1. CASE DisableReturns(v)
    BY <2>1, Names, ReturnsKnown DEF DisableReturns, printer
  <2>2. QED
    BY <1>5, <2>1, ArriveKnown, EnableReturnsKnown, ViewerKnown DEF ViewerStep
<1>6. CASE StreamSource \/ WatchdogTick \/ RemoveStart
  BY <1>6, CameraKnown
<1>7. CASE NativeEnableReturns
  BY <1>7, Names, ReturnsKnown DEF NativeEnableReturns, NativeOn, printer
<1>8. CASE WatchdogDisableReturns
  BY <1>8, Names, ReturnsKnown DEF WatchdogDisableReturns, ExpireNative, printer
<1>9. CASE RemoveFinish
  BY <1>9, RemoveFinishKnown
<1>10. CASE RemoveDisableReturns
  BY <1>10, Names, ReturnsKnown DEF RemoveDisableReturns, printer
<1>11. CASE UNCHANGED vars
  BY <1>11, KnownSame DEF vars, printer
<1>12. QED
  BY <1>1, <1>2, <1>3, <1>4, <1>5, <1>6, <1>7, <1>8, <1>9, <1>10, <1>11 DEF Next
-----------------------------------------------------------------------------
LEMMA IInvInit == Init => IInv
<1> SUFFICES ASSUME Init PROVE IInv
  OBVIOUS
<1>1. Watching("mjpeg") = {} /\ Watching("image") = {}
  BY Names DEF Init, Watching
<1>2. Cardinality(Viewers) \in Nat /\ Cardinality(Watching("mjpeg")) = 0
      /\ Cardinality(Watching("image")) = 0
  BY <1>1, ConstantsAssumption, FS_CardinalityType, FS_EmptySet
<1>3. commands \in Seq(Commands) /\ ready \in Seq([task : Tasks, answered : BOOLEAN])
  BY DEF Init
<1>4. TypeOK
  <2>1. /\ video \in BOOLEAN /\ connected \in BOOLEAN /\ success \in BOOLEAN
        /\ enabled \in BOOLEAN
        /\ native \in BOOLEAN /\ touched \in BOOLEAN
    BY DEF Init
  <2>2. pc \in [Tasks -> Places]
    BY DEF Init, Places
  <2>3. faults \in Troubles \union {<<>>}
    BY DEF Init
  <2>4. kind \in [Viewers -> {"mjpeg", "image"}]
    BY DEF Init
  <2>5. streams \in 0..Cardinality(Viewers) /\ transient \in 0..Cardinality(Viewers)
    <3>1. streams = 0 /\ transient = 0
      BY DEF Init
    <3>2. QED
      BY <1>2, <3>1
  <2>6. QED
    BY <1>3, <2>1, <2>2, <2>3, <2>4, <2>5 DEF TypeOK, Places
<1>5. Counted
  BY <1>2, Names DEF Init, Counted
<1>6. DOMAIN commands = {} /\ DOMAIN ready = {}
  BY DEF Init
<1>7. Known
  BY <1>6, Names DEF Init, Known, Waiting, OneWait
<1>8. QED
  BY <1>4, <1>5, <1>7 DEF IInv

LEMMA FaultsGrow ==
    ASSUME TypeOK, [Next]_vars
    PROVE  faults' = faults \/ \E f \in FaultKinds : faults' = Append(faults, f)
BY DEF Next, vars, printer, PrinterObeys, PrinterRefuses, LinkBreaks, Reconnect,
   CommandTimesOut, Arrive, Enter, ViewerStep, EnableReturns, Opened, Closed, DisableReturns, Leave, Cancelled,
   StreamSource, NativeOn, NativeEnableReturns, WatchdogTick, ExpireNative,
   WatchdogDisableReturns, RemoveStart, RemoveFinish, RemoveDisableReturns, Fault, FaultKinds

LEMMA IInvKept == IInv /\ [Next]_vars => IInv'
<1> SUFFICES ASSUME IInv, [Next]_vars PROVE IInv'
  OBVIOUS
<1>1. TypeOK' /\ Counted'
  BY CountedKept DEF IInv
<1>2. OnlyLost' => OnlyLost
  BY FaultsGrow, Faulted DEF IInv, OnlyLost
<1>3. OnlyLost' => Known'
  BY <1>2, KnownKept DEF IInv
<1>4. QED
  BY <1>1, <1>3 DEF IInv

\* The counters count the viewers until the entity is removed, unless a request
\* was cancelled, for any number of viewers, commands and faults (CountsViewers;
\* the handlers of camera.py).
THEOREM CountsViewersTheorem == Spec => []CountsViewers
<1>1. IInv => CountsViewers
  BY DEF IInv, Counted, CountsViewers
<1>2. QED
  BY <1>1, IInvInit, IInvKept, PTL DEF Spec

\* However many commands are lost, a video that is on is known to be on once
\* everybody has gone, so the watchdog will switch it off (NoOrphanStream;
\* _ensure_stream_enabled and _disable_stream of camera.py).
THEOREM NoOrphanStreamTheorem == Spec => []NoOrphanStream
<1>1. IInv => NoOrphanStream
  BY DEF IInv, Known, OnlyLost, WillBeEnabled, NoOrphanStream
<1>2. QED
  BY <1>1, IInvInit, IInvKept, PTL DEF Spec
=============================================================================
