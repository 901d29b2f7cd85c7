----------------------------- MODULE Servers_proofs -----------------------------
(***************************************************************************)
(* Proofs about what the two servers of the integration pass on, for any   *)
(* clients, printers, messages and scripts.                                *)
(*                                                                         *)
(* MqttBroker: every subscriber gets what is published from its SUBACK on, *)
(* once and in order, whoever leaves, stalls or is reset meanwhile.        *)
(*                                                                         *)
(* ProxyRouting: a request goes to the printer it names, a script arrives  *)
(* whole and rewritten however it is cut, and a session's messages reach   *)
(* the printers they name, once and in order.                              *)
(*                                                                         *)
(* MqttFraming: what the broker cuts out of the bytes are the packets that *)
(* were sent, and what it writes is what the standard makes of its packets.*)
(***************************************************************************)
EXTENDS MqttBroker, ProxyRouting, MqttFraming, SequenceTheorems, FiniteSetTheorems, WellFoundedInduction, TLAPS

(***************************************************************************)
(* Induction over the naturals, from the well-foundedness of <, and what   *)
(* it says of functions that are defined by recursion, such as Only.       *)
(***************************************************************************)

LEMMA Least ==
    ASSUME NEW T, T \subseteq Nat, T # {}
    PROVE  \E x \in T : \A y \in T : ~(y < x)
<1>1. IsWellFoundedOn(OpToRel(<, Nat), Nat)
  BY NatLessThanWellFounded
<1>2. \E x \in T : \A y \in T : ~(<<y, x>> \in OpToRel(<, Nat))
  BY <1>1, WFMin
<1>3. QED
  BY <1>2 DEF OpToRel

LEMMA Induct ==
    ASSUME NEW S \in SUBSET Nat, 0 \in S, \A n \in S : n + 1 \in S
    PROVE  S = Nat
<1>1. SUFFICES ASSUME Nat \ S # {} PROVE FALSE
  OBVIOUS
<1>2. PICK x \in Nat \ S : \A y \in Nat \ S : ~(y < x)
  BY <1>1, Least
<1>3. x # 0 /\ x - 1 \in Nat /\ x - 1 < x
  BY <1>2
<1>4. x - 1 \in S
  BY <1>2, <1>3
<1>5. (x - 1) + 1 = x
  BY <1>2
<1>6. QED
  BY <1>2, <1>4, <1>5
\* Some function over 0..n starts with v and goes on as g says.
Recursive(n, V, v, g) ==
    \E f \in [0..n -> V] : f[0] = v /\ \A m \in 1..n : f[m] = g[f[m - 1]][m]

LEMMA Recursion ==
    ASSUME NEW n \in Nat, NEW V, NEW v \in V, NEW g,
           \A x \in V : \A m \in 1..n : g[x][m] \in V
    PROVE  Recursive(n, V, v, g)
<1> DEFINE Solved(k) == \E f \in [0..k -> V] : f[0] = v /\ \A m \in 1..k : f[m] = g[f[m - 1]][m]
           T == {k \in Nat : k <= n => Solved(k)}
<1>1. 0 \in T
  <2> DEFINE f == [m \in 0..0 |-> v]
  <2>1. f \in [0..0 -> V] /\ f[0] = v /\ \A m \in 1..0 : f[m] = g[f[m - 1]][m]
    OBVIOUS
  <2> HIDE DEF f
  <2>2. QED
    BY <2>1
<1>2. ASSUME NEW k \in T
      PROVE  k + 1 \in T
  <2> SUFFICES ASSUME k + 1 <= n
               PROVE  Solved(k + 1)
    <3> HIDE DEF Solved
    <3>1. QED
      OBVIOUS
  <2>1. k \in Nat /\ k <= n /\ k \in 0..k /\ k + 1 \in 1..n
    OBVIOUS
  <2>2. PICK f \in [0..k -> V] : f[0] = v /\ \A m \in 1..k : f[m] = g[f[m - 1]][m]
    BY <2>1
  <2> DEFINE h == [m \in 0..(k + 1) |-> IF m = k + 1 THEN g[f[k]][k + 1] ELSE f[m]]
  <2>3. f[k] \in V
    BY <2>1, <2>2
  <2>4. g[f[k]][k + 1] \in V
    BY <2>1, <2>3
  <2>5. h \in [0..(k + 1) -> V]
    BY <2>1, <2>2, <2>4
  <2>6. h[k + 1] = g[f[k]][k + 1] /\ \A m \in 0..k : h[m] = f[m]
    BY <2>1
  <2> HIDE DEF h
  <2>7. ASSUME NEW m \in 1..(k + 1)
        PROVE  h[m] = g[h[m - 1]][m]
    <3>1. CASE m = k + 1
      <4>1. m - 1 = k /\ h[k] = f[k]
        BY <2>1, <2>6, <3>1
      <4>2. QED
        BY <2>6, <3>1, <4>1
    <3>2. CASE m # k + 1
      <4>1. m \in 1..k /\ m \in 0..k /\ m - 1 \in 0..k
        BY <2>1, <3>2
      <4>2. h[m] = f[m] /\ h[m - 1] = f[m - 1]
        BY <2>6, <4>1
      <4>3. QED
        BY <2>2, <4>1, <4>2
    <3>3. QED
      BY <3>1, <3>2
  <2>8. h[0] = v
    BY <2>1, <2>2, <2>6
  <2>9. QED
    BY <2>5, <2>7, <2>8
<1>3. n \in T
  <2> HIDE DEF T
  <2>1. T \subseteq Nat
    BY DEF T
  <2>2. T = Nat
    BY <1>1, <1>2, <2>1, Induct
  <2>3. QED
    BY <2>2
<1>4. QED
  BY <1>3 DEF Recursive

\* What holds at the beginning and is kept by each step holds up to n.
LEMMA UpTo ==
    ASSUME NEW n \in Nat, NEW P, 0 \in P, \A m \in 0..(n - 1) : m \in P => m + 1 \in P
    PROVE  n \in P /\ \A m \in 0..n : m \in P
<1> DEFINE T == {m \in Nat : m <= n => m \in P}
<1>1. 0 \in T
  OBVIOUS
<1>2. ASSUME NEW m \in T
      PROVE  m + 1 \in T
  <2> SUFFICES ASSUME m + 1 <= n
               PROVE  m + 1 \in P
    OBVIOUS
  <2>1. m \in 0..(n - 1) /\ m \in P
    OBVIOUS
  <2>2. QED
    BY <2>1
<1>3. T = Nat
  <2>1. T \subseteq Nat
    OBVIOUS
  <2> HIDE DEF T
  <2>2. QED
    BY <1>1, <1>2, <2>1, Induct
<1>4. QED
  BY <1>3
-----------------------------------------------------------------------------
\* r, followed by e if that is in S.
Picked(r, e, S) == IF e \in S THEN Append(r, e) ELSE r

\* f tells what is in S of each beginning of s.
Picks(f, s, S) ==
    /\ f[0] = <<>>
    /\ \A m \in 1..Len(s) : f[m] = Picked(f[m - 1], s[m], S)

LEMMA OnlyIs ==
    ASSUME NEW V, NEW s \in Seq(V), NEW S
    PROVE  \E f \in [0..Len(s) -> Seq(V)] : Picks(f, s, S) /\ Only(s, S) = f[Len(s)]
<1> DEFINE Solves(f) == f = [n \in 0..Len(s) |->
                IF n = 0 THEN <<>> ELSE IF s[n] \in S THEN Append(f[n - 1], s[n]) ELSE f[n - 1]]
           h == CHOOSE f : Solves(f)
           g == [r \in Seq(V) |-> [m \in 1..Len(s) |-> Picked(r, s[m], S)]]
<1>0. Len(s) \in Nat /\ \A m \in 1..Len(s) : s[m] \in V
  OBVIOUS
<1>1. <<>> \in Seq(V)
  OBVIOUS
<1>2. ASSUME NEW r \in Seq(V), NEW m \in 1..Len(s)
      PROVE  Picked(r, s[m], S) \in Seq(V)
  BY <1>0 DEF Picked
<1>4. \A r \in Seq(V) : \A m \in 1..Len(s) : g[r][m] = Picked(r, s[m], S)
  OBVIOUS
<1> HIDE DEF g
<1>5. PICK f \in [0..Len(s) -> Seq(V)] :
            f[0] = <<>> /\ \A m \in 1..Len(s) : f[m] = g[f[m - 1]][m]
  <2> DEFINE W == Seq(V)
             v == <<>>
             n == Len(s)
  <2>1. n \in Nat /\ v \in W /\ \A x \in W : \A m \in 1..n : g[x][m] \in W
    BY <1>0, <1>1, <1>2, <1>4
  <2> HIDE DEF W, v, n, h
  <2>2. Recursive(n, W, v, g)
    BY <2>1, Recursion
  <2>3. QED
    BY <2>2 DEF Recursive, W, v, n
<1>6. ASSUME NEW m \in 1..Len(s)
      PROVE  f[m] = Picked(f[m - 1], s[m], S)
  <2>1. m - 1 \in 0..Len(s)
    BY <1>0
  <2>2. f[m - 1] \in Seq(V)
    BY <2>1
  <2>3. QED
    BY <1>4, <1>5, <2>2
<1>7. Solves(f)
  <2>1. ASSUME NEW n \in 0..Len(s)
        PROVE  f[n] = IF n = 0 THEN <<>>
                      ELSE IF s[n] \in S THEN Append(f[n - 1], s[n]) ELSE f[n - 1]
    <3>1. CASE n = 0
      BY <1>5, <3>1
    <3>2. CASE n # 0
      <4>1. n \in 1..Len(s)
        BY <3>2
      <4>2. QED
        BY <1>6, <3>2, <4>1 DEF Picked
    <3>3. QED
      BY <3>1, <3>2
  <2>2. QED
    BY <2>1
<1>8. Solves(h)
  BY <1>7
<1>9. Only(s, S) = h[Len(s)]
  BY DEF Only
<1> HIDE DEF h
<1>10. h[0] = <<>>
  BY <1>0, <1>8
<1>11. \A m \in 1..Len(s) : h[m] = Picked(h[m - 1], s[m], S)
  <2> SUFFICES ASSUME NEW m \in 1..Len(s)
               PROVE  h[m] = Picked(h[m - 1], s[m], S)
    OBVIOUS
  <2>1. m \in 0..Len(s) /\ m # 0
    BY <1>0
  <2>2. QED
    BY <1>8, <2>1 DEF Picked
<1>12. h \in [0..Len(s) -> Seq(V)]
  <2> DEFINE P == {m \in 0..Len(s) : h[m] \in Seq(V)}
  <2>1. 0 \in P
    <3>1. 0 \in 0..Len(s)
      BY <1>0
    <3>2. QED
      BY <1>1, <1>10, <3>1
  <2>2. ASSUME NEW m \in 0..(Len(s) - 1), m \in P
        PROVE  m + 1 \in P
    <3>1. m + 1 \in 1..Len(s) /\ m + 1 \in 0..Len(s) /\ (m + 1) - 1 = m /\ h[m] \in Seq(V)
      BY <1>0, <2>2
    <3>2. h[m + 1] = Picked(h[m], s[m + 1], S)
      BY <1>11, <3>1
    <3>3. QED
      BY <1>2, <3>1, <3>2
  <2>3. P \subseteq 0..Len(s) /\ \A m \in P : h[m] \in Seq(V)
    OBVIOUS
  <2> HIDE DEF P
  <2>4. \A m \in 0..Len(s) : h[m] \in Seq(V)
    BY <1>0, <2>1, <2>2, <2>3, UpTo
  <2>5. QED
    BY <1>8, <2>4
<1>13. QED
  BY <1>9, <1>10, <1>11, <1>12 DEF Picks
LEMMA OnlyType ==
    ASSUME NEW V, NEW s \in Seq(V), NEW S
    PROVE  Only(s, S) \in Seq(V)
<1>1. PICK f \in [0..Len(s) -> Seq(V)] : Picks(f, s, S) /\ Only(s, S) = f[Len(s)]
  BY OnlyIs
<1>2. QED
  BY <1>1

LEMMA OnlyEmpty ==
    ASSUME NEW S
    PROVE  Only(<<>>, S) = <<>>
<1> DEFINE s == <<>>
<1>1. s \in Seq({}) /\ Len(s) = 0
  OBVIOUS
<1> HIDE DEF s
<1>2. PICK f \in [0..Len(s) -> Seq({})] : Picks(f, s, S) /\ Only(s, S) = f[Len(s)]
  BY <1>1, OnlyIs
<1>3. Only(s, S) = <<>>
  BY <1>1, <1>2 DEF Picks
<1>4. QED
  BY <1>3 DEF s

\* Two sequences that begin alike, and two sets that agree on that beginning.
LEMMA PicksAgree ==
    ASSUME NEW V, NEW s \in Seq(V), NEW t \in Seq(V), NEW S, NEW U, Len(s) <= Len(t),
           \A i \in 1..Len(s) : s[i] = t[i] /\ (s[i] \in S <=> s[i] \in U),
           NEW f, Picks(f, s, S), NEW g, Picks(g, t, U)
    PROVE  f[Len(s)] = g[Len(s)]
<1> DEFINE P == {m \in 0..Len(s) : f[m] = g[m]}
<1>0. Len(s) \in Nat /\ Len(t) \in Nat
  OBVIOUS
<1>1. 0 \in P
  BY <1>0 DEF Picks
<1>2. ASSUME NEW m \in 0..(Len(s) - 1), m \in P
      PROVE  m + 1 \in P
  <2>1. m + 1 \in 1..Len(s) /\ m + 1 \in 1..Len(t) /\ (m + 1) - 1 = m /\ f[m] = g[m]
    BY <1>0, <1>2
  <2>2. f[m + 1] = Picked(f[m], s[m + 1], S) /\ g[m + 1] = Picked(g[m], t[m + 1], U)
    BY <2>1 DEF Picks
  <2>3. f[m + 1] = g[m + 1]
    BY <2>1, <2>2 DEF Picked
  <2>4. QED
    BY <2>1, <2>3
<1>3. \A m \in P : f[m] = g[m]
  OBVIOUS
<1> HIDE DEF P
<1>4. Len(s) \in P
  BY <1>0, <1>1, <1>2, UpTo
<1>5. QED
  BY <1>3, <1>4

LEMMA OnlySame ==
    ASSUME NEW V, NEW s \in Seq(V), NEW S, NEW U, \A i \in 1..Len(s) : s[i] \in S <=> s[i] \in U
    PROVE  Only(s, S) = Only(s, U)
<1>1. PICK f \in [0..Len(s) -> Seq(V)] : Picks(f, s, S) /\ Only(s, S) = f[Len(s)]
  BY OnlyIs
<1>2. PICK g \in [0..Len(s) -> Seq(V)] : Picks(g, s, U) /\ Only(s, U) = g[Len(s)]
  BY OnlyIs
<1>3. QED
  BY <1>1, <1>2, PicksAgree

LEMMA OnlyAppend ==
    ASSUME NEW V, NEW s \in Seq(V), NEW e \in V, NEW S
    PROVE  Only(Append(s, e), S) = Picked(Only(s, S), e, S)
<1> DEFINE t == Append(s, e)
<1>1. /\ t \in Seq(V) /\ Len(t) = Len(s) + 1 /\ t[Len(t)] = e
      /\ Len(s) \in Nat /\ \A i \in 1..Len(s) : t[i] = s[i]
  OBVIOUS
<1> HIDE DEF t
<1>2. PICK f \in [0..Len(s) -> Seq(V)] : Picks(f, s, S) /\ Only(s, S) = f[Len(s)]
  BY OnlyIs
<1>3. PICK g \in [0..Len(t) -> Seq(V)] : Picks(g, t, S) /\ Only(t, S) = g[Len(t)]
  BY <1>1, OnlyIs
<1>4. f[Len(s)] = g[Len(s)]
  <2>1. /\ Len(s) <= Len(t)
        /\ \A i \in 1..Len(s) : s[i] = t[i] /\ (s[i] \in S <=> s[i] \in S)
    BY <1>1
  <2>2. Picks(f, s, S) /\ Picks(g, t, S) /\ t \in Seq(V)
    BY <1>1, <1>2, <1>3
  <2>3. QED
    BY <2>1, <2>2, PicksAgree
<1>5. g[Len(t)] = Picked(g[Len(s)], e, S)
  <2>1. Len(t) \in 1..Len(t) /\ Len(t) - 1 = Len(s)
    BY <1>1
  <2>2. QED
    BY <1>1, <1>3, <2>1 DEF Picks
<1>6. QED
  BY <1>2, <1>3, <1>4, <1>5 DEF t

\* What holds of <<>> and is kept when an element is appended holds of every
\* sequence.
LEMMA SeqInduct ==
    ASSUME NEW V, NEW P, <<>> \in P,
           \A t \in Seq(V) : t \in P => \A e \in V : Append(t, e) \in P
    PROVE  \A t \in Seq(V) : t \in P
<1> SUFFICES ASSUME NEW t \in Seq(V)
             PROVE  t \in P
  OBVIOUS
<1> DEFINE Q == {m \in 0..Len(t) : SubSeq(t, 1, m) \in P}
<1>0. Len(t) \in Nat
  OBVIOUS
<1>1. 0 \in Q
  <2>1. SubSeq(t, 1, 0) = <<>>
    OBVIOUS
  <2>2. 0 \in 0..Len(t)
    BY <1>0
  <2>3. QED
    BY <2>1, <2>2
<1>2. ASSUME NEW m \in 0..(Len(t) - 1), m \in Q
      PROVE  m + 1 \in Q
  <2>1. /\ m \in Nat /\ m + 1 \in 1..Len(t) /\ m + 1 \in 0..Len(t)
        /\ SubSeq(t, 1, m) \in P
    BY <1>0, <1>2
  <2>2. t[m + 1] \in V /\ SubSeq(t, 1, m) \in Seq(V)
    BY <2>1
  <2>3. SubSeq(t, 1, m + 1) = Append(SubSeq(t, 1, m), t[m + 1])
    BY <2>1
  <2>4. QED
    BY <2>1, <2>2, <2>3
<1>3. \A m \in Q : SubSeq(t, 1, m) \in P
  OBVIOUS
<1> HIDE DEF Q
<1>4. Len(t) \in Q
  BY <1>0, <1>1, <1>2, UpTo
<1>5. SubSeq(t, 1, Len(t)) = t
  OBVIOUS
<1>6. QED
  BY <1>3, <1>4, <1>5

LEMMA RangeAppend ==
    ASSUME NEW V, NEW s \in Seq(V), NEW e \in V
    PROVE  Range(Append(s, e)) = Range(s) \union {e}
<1> DEFINE t == Append(s, e)
<1>1. /\ DOMAIN t = 1..(Len(s) + 1) /\ DOMAIN s = 1..Len(s) /\ Len(s) \in Nat
      /\ t[Len(s) + 1] = e /\ \A i \in 1..Len(s) : t[i] = s[i]
  OBVIOUS
<1> HIDE DEF t
<1>2. \A i \in DOMAIN t : t[i] \in Range(s) \union {e}
  BY <1>1 DEF Range
<1>3. \A i \in DOMAIN s : s[i] \in Range(t)
  BY <1>1 DEF Range
<1>4. e \in Range(t)
  BY <1>1 DEF Range
<1>5. QED
  BY <1>2, <1>3, <1>4 DEF Range, t

LEMMA RangeEmpty == Range(<<>>) = {}
BY DEF Range

LEMMA OnlyRange ==
    ASSUME NEW V, NEW s \in Seq(V), NEW S
    PROVE  Range(Only(s, S)) = Range(s) \intersect S
<1> DEFINE P == {t \in Seq(V) : Range(Only(t, S)) = Range(t) \intersect S}
<1>1. <<>> \in P
  <2>1. <<>> \in Seq(V)
    OBVIOUS
  <2>2. QED
    BY <2>1, OnlyEmpty, RangeEmpty
<1>2. ASSUME NEW t \in Seq(V), t \in P, NEW e \in V
      PROVE  Append(t, e) \in P
  <2>1. Append(t, e) \in Seq(V) /\ Range(Only(t, S)) = Range(t) \intersect S
    BY <1>2
  <2>2. Only(t, S) \in Seq(V) /\ Only(Append(t, e), S) = Picked(Only(t, S), e, S)
    BY OnlyType, OnlyAppend
  <2>3. Range(Append(t, e)) = Range(t) \union {e}
    BY RangeAppend
  <2>4. CASE e \in S
    <3>1. Range(Append(Only(t, S), e)) = Range(Only(t, S)) \union {e}
      BY <2>2, RangeAppend
    <3>2. QED
      BY <2>1, <2>2, <2>3, <2>4, <3>1 DEF Picked
  <2>5. CASE e \notin S
    BY <2>1, <2>2, <2>3, <2>5 DEF Picked
  <2>6. QED
    BY <2>4, <2>5
<1>3. \A t \in P : Range(Only(t, S)) = Range(t) \intersect S
  OBVIOUS
<1> HIDE DEF P
<1>4. QED
  BY <1>1, <1>2, <1>3, SeqInduct

LEMMA InjectiveAppend ==
    ASSUME NEW V, NEW s \in Seq(V), NEW e \in V
    PROVE  IsInjective(Append(s, e)) <=> IsInjective(s) /\ e \notin Range(s)
<1> DEFINE t == Append(s, e)
<1>1. /\ DOMAIN t = 1..(Len(s) + 1) /\ DOMAIN s = 1..Len(s) /\ Len(s) \in Nat
      /\ t[Len(s) + 1] = e /\ \A i \in 1..Len(s) : t[i] = s[i]
  OBVIOUS
<1> HIDE DEF t
<1>2. IsInjective(t) => IsInjective(s) /\ e \notin Range(s)
  BY <1>1 DEF IsInjective, Range
<1>3. IsInjective(s) /\ e \notin Range(s) => IsInjective(t)
  BY <1>1 DEF IsInjective, Range
<1>4. QED
  BY <1>2, <1>3 DEF t

LEMMA OnlyInjective ==
    ASSUME NEW V, NEW s \in Seq(V), NEW S, IsInjective(s)
    PROVE  IsInjective(Only(s, S))
<1> DEFINE P == {t \in Seq(V) : IsInjective(t) => IsInjective(Only(t, S))}
<1>1. <<>> \in P
  <2>1. <<>> \in Seq(V) /\ DOMAIN <<>> = {}
    OBVIOUS
  <2>2. QED
    BY <2>1, OnlyEmpty DEF IsInjective
<1>2. ASSUME NEW t \in Seq(V), t \in P, NEW e \in V
      PROVE  Append(t, e) \in P
  <2>1. Append(t, e) \in Seq(V)
    OBVIOUS
  <2> SUFFICES ASSUME IsInjective(Append(t, e))
               PROVE  IsInjective(Only(Append(t, e), S))
    BY <2>1
  <2>2. IsInjective(t) /\ e \notin Range(t)
    BY InjectiveAppend
  <2>3. IsInjective(Only(t, S))
    BY <1>2, <2>2
  <2>4. Only(t, S) \in Seq(V) /\ Only(Append(t, e), S) = Picked(Only(t, S), e, S)
    BY OnlyType, OnlyAppend
  <2>5. e \notin Range(Only(t, S))
    BY <2>2, OnlyRange
  <2>6. IsInjective(Append(Only(t, S), e))
    BY <2>3, <2>4, <2>5, InjectiveAppend
  <2>7. QED
    BY <2>3, <2>4, <2>6 DEF Picked
<1>3. \A t \in P : IsInjective(t) => IsInjective(Only(t, S))
  OBVIOUS
<1> HIDE DEF P
<1>4. QED
  BY <1>1, <1>2, <1>3, SeqInduct
-----------------------------------------------------------------------------
(***************************************************************************)
(* Sequences: prefixes, what is behind a position, and a queue that is     *)
(* joined at the end and left at the head.                                 *)
(***************************************************************************)
LEMMA PrefixSelf ==
    ASSUME NEW s \in Seq(Nat)
    PROVE  IsPrefix(s, s)
BY DEF IsPrefix

LEMMA PrefixAppend ==
    ASSUME NEW s \in Seq(Nat), NEW t \in Seq(Nat), IsPrefix(s, t), NEW e \in Nat
    PROVE  IsPrefix(s, Append(t, e))
<1>1. Len(s) <= Len(t) /\ SubSeq(s, 1, Len(s)) = SubSeq(t, 1, Len(s))
  BY DEF IsPrefix
<1>2. Len(Append(t, e)) = Len(t) + 1 /\ Len(s) \in Nat /\ Len(t) \in Nat
  OBVIOUS
<1>3. SubSeq(Append(t, e), 1, Len(s)) = SubSeq(t, 1, Len(s))
  BY <1>1, <1>2
<1>4. QED
  BY <1>1, <1>2, <1>3 DEF IsPrefix

LEMMA FrontAppend ==
    ASSUME NEW s \in Seq(Nat), NEW e \in Nat
    PROVE  Append(s, e) # <<>> /\ Front(Append(s, e)) = s
<1> DEFINE t == Append(s, e)
<1>1. /\ t \in Seq(Nat) /\ Len(t) = Len(s) + 1 /\ Len(s) \in Nat
      /\ \A i \in 1..Len(s) : t[i] = s[i]
  OBVIOUS
<1>2. t # <<>>
  BY <1>1
<1> HIDE DEF t
<1>3. SubSeq(t, 1, Len(s)) = s
  BY <1>1
<1>4. Len(t) - 1 = Len(s)
  BY <1>1
<1>5. QED
  BY <1>2, <1>3, <1>4 DEF Front, t

LEMMA BehindIs ==
    ASSUME NEW s \in Seq(Nat), NEW k \in Nat, k <= Len(s)
    PROVE  /\ SubSeq(s, k + 1, Len(s)) \in Seq(Nat)
           /\ Len(SubSeq(s, k + 1, Len(s))) = Len(s) - k
           /\ \A i \in 1..(Len(s) - k) : SubSeq(s, k + 1, Len(s))[i] = s[k + i]
<1> DEFINE b == SubSeq(s, k + 1, Len(s))
<1>0. Len(s) \in Nat /\ k \in Nat /\ k <= Len(s)
  OBVIOUS
<1>1. k + 1 \in Int /\ Len(s) \in Int /\ Len(s) - (k + 1) + 1 = Len(s) - k
  OBVIOUS
<1>2. \A i \in (k + 1)..Len(s) : s[i] \in Nat
  OBVIOUS
<1>3. /\ b \in Seq(Nat)
      /\ Len(b) = IF k + 1 <= Len(s) THEN Len(s) - (k + 1) + 1 ELSE 0
      /\ \A i \in 1..(Len(s) - (k + 1) + 1) : b[i] = s[k + 1 + i - 1]
  BY <1>1, <1>2, SubSeqProperties
<1> HIDE DEF b
<1>4. Len(b) = Len(s) - k
  <2>1. CASE k + 1 <= Len(s)
    <3>1. Len(b) = Len(s) - (k + 1) + 1
      BY <1>3, <2>1
    <3>2. QED
      BY <1>1, <3>1
  <2>2. CASE ~(k + 1 <= Len(s))
    <3>1. Len(b) = 0
      BY <1>3, <2>2
    <3>2. Len(s) = k
      BY <1>0, <2>2
    <3>3. k - k = 0
      BY <1>0
    <3>4. QED
      BY <3>1, <3>2, <3>3
  <2>3. QED
    BY <2>1, <2>2
<1>5. \A i \in 1..(Len(s) - k) : b[i] = s[k + i]
  <2> SUFFICES ASSUME NEW i \in 1..(Len(s) - k)
               PROVE  b[i] = s[k + i]
    OBVIOUS
  <2>1. i \in 1..(Len(s) - (k + 1) + 1) /\ k + 1 + i - 1 = k + i
    BY <1>1
  <2>2. QED
    BY <1>3, <2>1
<1>6. QED
  BY <1>3, <1>4, <1>5 DEF b

LEMMA BehindAppend ==
    ASSUME NEW s \in Seq(Nat), NEW k \in Nat, k <= Len(s), NEW e \in Nat
    PROVE  SubSeq(Append(s, e), k + 1, Len(Append(s, e))) = Append(SubSeq(s, k + 1, Len(s)), e)
<1> DEFINE t == Append(s, e)
           b == SubSeq(s, k + 1, Len(s))
           d == SubSeq(t, k + 1, Len(t))
           a == Append(b, e)
<1>1. /\ t \in Seq(Nat) /\ Len(t) = Len(s) + 1 /\ Len(s) \in Nat
      /\ \A i \in 1..Len(s) : t[i] = s[i]
      /\ t[Len(s) + 1] = e
  OBVIOUS
<1>2. /\ b \in Seq(Nat) /\ Len(b) = Len(s) - k
      /\ \A i \in 1..(Len(s) - k) : b[i] = s[k + i]
  BY BehindIs
<1> HIDE DEF t, b
<1>3. /\ d \in Seq(Nat) /\ Len(d) = Len(t) - k
      /\ \A i \in 1..(Len(t) - k) : d[i] = t[k + i]
  BY <1>1, BehindIs
<1>4. /\ a \in Seq(Nat) /\ Len(a) = Len(b) + 1 /\ a[Len(b) + 1] = e
      /\ \A i \in 1..Len(b) : a[i] = b[i]
  BY <1>2
<1> HIDE DEF d, a
<1>5. ASSUME NEW i \in 1..Len(d)
      PROVE  d[i] = a[i]
  <2>1. i \in Nat /\ i <= Len(t) - k /\ d[i] = t[k + i]
    BY <1>1, <1>3
  <2>2. CASE i = Len(b) + 1
    <3>1. k + i = Len(s) + 1
      BY <1>1, <1>2, <2>2
    <3>2. QED
      BY <1>1, <1>4, <2>1, <2>2, <3>1
  <2>3. CASE i <= Len(b)
    <3>1. k + i <= Len(s) /\ 1 <= k + i /\ k + i \in Nat
      BY <1>1, <1>2, <2>1, <2>3
    <3>2. t[k + i] = s[k + i]
      BY <1>1, <3>1
    <3>3. b[i] = s[k + i] /\ a[i] = b[i]
      BY <1>1, <1>2, <1>4, <2>3
    <3>4. QED
      BY <2>1, <3>2, <3>3
  <2>4. QED
    BY <1>1, <1>2, <2>1, <2>2, <2>3
<1>6. Len(d) = Len(a)
  BY <1>1, <1>2, <1>3, <1>4
<1>7. d = a
  BY <1>3, <1>4, <1>5, <1>6, SeqEqual
<1>8. QED
  BY <1>7 DEF a, b, d, t

In(l, c) == \E i \in DOMAIN l : l[i] = c

LEMMA Joins ==
    ASSUME NEW l \in Seq(Connections), IsInjective(l), NEW c \in Connections, ~In(l, c)
    PROVE  /\ Append(l, c) \in Seq(Connections) /\ IsInjective(Append(l, c))
           /\ Append(l, c) # <<>>
           /\ l # <<>> => Head(Append(l, c)) = Head(l)
           /\ \A d : In(Append(l, c), d) <=> In(l, d) \/ d = c
<1> DEFINE m == Append(l, c)
<1>1. /\ m \in Seq(Connections) /\ Len(m) = Len(l) + 1 /\ Len(l) \in Nat
      /\ DOMAIN m = 1..(Len(l) + 1) /\ DOMAIN l = 1..Len(l)
      /\ \A i \in 1..Len(l) : m[i] = l[i]
      /\ m[Len(l) + 1] = c
  OBVIOUS
<1>2. m # <<>> /\ (l # <<>> => Head(m) = Head(l))
  <2>1. m # <<>> /\ Head(m) = m[1]
    BY <1>1
  <2>2. ASSUME l # <<>> PROVE 1 \in 1..Len(l) /\ Head(l) = l[1]
    BY <2>2
  <2>3. QED
    BY <1>1, <2>1, <2>2
<1> HIDE DEF m
<1>3. \A i \in DOMAIN m : i = Len(l) + 1 \/ i \in DOMAIN l
  BY <1>1
<1>4. \A d : In(m, d) <=> In(l, d) \/ d = c
  <2> SUFFICES ASSUME NEW d PROVE In(m, d) <=> In(l, d) \/ d = c
    OBVIOUS
  <2>1. ASSUME In(m, d) PROVE In(l, d) \/ d = c
    BY <1>1, <1>3, <2>1 DEF In
  <2>2. ASSUME In(l, d) PROVE In(m, d)
    BY <1>1, <2>2 DEF In
  <2>3. In(m, c)
    <3>1. Len(l) + 1 \in DOMAIN m
      BY <1>1
    <3>2. QED
      BY <1>1, <3>1 DEF In
  <2>4. QED
    BY <2>1, <2>2, <2>3
<1>5. IsInjective(m)
  BY <1>1, <1>3 DEF IsInjective, In
<1>6. QED
  BY <1>1, <1>2, <1>4, <1>5 DEF m

LEMMA HeadLeaves ==
    ASSUME NEW l \in Seq(Connections), IsInjective(l), l # <<>>
    PROVE  /\ Tail(l) \in Seq(Connections) /\ IsInjective(Tail(l))
           /\ \A d : In(Tail(l), d) <=> In(l, d) /\ d # Head(l)
<1> DEFINE m == Tail(l)
<1>1. /\ m \in Seq(Connections) /\ Len(m) = Len(l) - 1 /\ Len(l) \in Nat \ {0}
      /\ DOMAIN m = 1..(Len(l) - 1) /\ DOMAIN l = 1..Len(l)
      /\ \A i \in 1..(Len(l) - 1) : m[i] = l[i + 1]
      /\ Head(l) = l[1]
  OBVIOUS
<1> HIDE DEF m
<1>2. IsInjective(m)
  <2> SUFFICES ASSUME NEW i \in DOMAIN m, NEW j \in DOMAIN m, m[i] = m[j]
               PROVE  i = j
    BY DEF IsInjective
  <2>1. i + 1 \in DOMAIN l /\ j + 1 \in DOMAIN l /\ l[i + 1] = l[j + 1]
    BY <1>1
  <2>2. i + 1 = j + 1
    BY <2>1 DEF IsInjective
  <2>3. QED
    BY <1>1, <2>2
<1>3. \A d : In(m, d) <=> In(l, d) /\ d # Head(l)
  <2> SUFFICES ASSUME NEW d PROVE In(m, d) <=> In(l, d) /\ d # Head(l)
    OBVIOUS
  <2>1. ASSUME In(m, d) PROVE In(l, d) /\ d # Head(l)
    <3>1. PICK i \in DOMAIN m : m[i] = d
      BY <2>1 DEF In
    <3>2. i + 1 \in DOMAIN l /\ l[i + 1] = d /\ i + 1 # 1 /\ 1 \in DOMAIN l
      BY <1>1, <3>1
    <3>3. QED
      BY <1>1, <3>2 DEF In, IsInjective
  <2>2. ASSUME In(l, d), d # Head(l) PROVE In(m, d)
    <3>1. PICK i \in DOMAIN l : l[i] = d
      BY <2>2 DEF In
    <3>2. i - 1 \in DOMAIN m /\ (i - 1) + 1 = i
      BY <1>1, <2>2, <3>1
    <3>3. m[i - 1] = d
      BY <1>1, <3>1, <3>2
    <3>4. QED
      BY <3>2, <3>3 DEF In
  <2>3. QED
    BY <2>1, <2>2
<1>4. QED
  BY <1>1, <1>2, <1>3 DEF m
-----------------------------------------------------------------------------
(***************************************************************************)
(* The inductive invariant.                                                *)
(***************************************************************************)
\* A handler is in the queue of the lock exactly while it waits for it or holds
\* it; the one that forwards is at its head.
Waiters == {"subscribing", "publishing", "forwarding", "cleaning"}
LockInv ==
    \A c \in Connections : /\ In(lock, c) <=> pc[c] \in Waiters
                           /\ pc[c] = "forwarding" => Holds(c)

\* Only a handler that forwards has targets, which are other subscribers.
TargetsInv ==
    \A c \in Connections : /\ pc[c] # "forwarding" => targets[c] = {}
                           /\ targets[c] \subseteq subs \ {c}

\* CONNECT and SUBSCRIBE are the first two packets of a connection: until the
\* subscription is registered, nothing is written to it but CONNACK.
Fresh(c) == got[c] = <<>> /\ c \notin subs
FreshAt(c) ==
    /\ link[c] = "new" => inbox[c] = <<>> /\ pc[c] = "none" /\ packet[c].kind = "connect"
    /\ \A i \in DOMAIN inbox[c] :
          inbox[c][i].kind \in {"connect", "subscribe"} => i = 1 /\ packet[c].kind = "connect"
    /\ packet[c].kind = "connect" => Fresh(c) /\ pc[c] # "subscribing"
    /\ pc[c] = "subscribing" => Fresh(c)
FreshInv == \A c \in Connections : FreshAt(c)

\* A client that has its SUBACK is in the registry until its handler has removed
\* it; one in the registry whose connection lives has its SUBACK.
AckInv ==
    \A c \in Connections :
        /\ Acked(c) => c \in subs \/ pc[c] = "done"
        /\ c \in subs /\ IsLive(c) => Acked(c)

\* The log, the packet waiting for the lock and those in the stream tell of
\* rising publications of each publisher.
SentBy(c) == {n \in DOMAIN publishedBy : publishedBy[n] = c}
PublishAt(c, i) == inbox[c][i].kind = "publish"
OrderAt(c) ==
    /\ \A i \in DOMAIN inbox[c] : PublishAt(c, i) =>
          /\ inbox[c][i].n \in SentBy(c)
          /\ \A j \in DOMAIN inbox[c] :
                i < j /\ PublishAt(c, j) => inbox[c][i].n < inbox[c][j].n
          /\ \A k \in DOMAIN log : log[k] \in SentBy(c) => log[k] < inbox[c][i].n
          /\ pc[c] = "publishing" => packet[c].n < inbox[c][i].n
    /\ pc[c] \in {"publishing", "forwarding"} => packet[c].n \in SentBy(c)
    /\ pc[c] = "publishing" =>
          \A k \in DOMAIN log : log[k] \in SentBy(c) => log[k] < packet[c].n
OrderInv ==
    /\ \A i \in DOMAIN log : log[i] \in DOMAIN publishedBy
    /\ PublisherOrder
    /\ \A c \in Connections : OrderAt(c)

\* What a subscriber still has to get is at most what is being forwarded to it.
Awaits(c) == \E f \in Connections : c \in targets[f] /\ DueTo(c) = Append(Received(c), packet[f].n)
LogAt(c) ==
    /\ since[c] <= Len(log)
    /\ IsPrefix(Received(c), DueTo(c))
    /\ IsLive(c) => \/ Awaits(c)
                    \/ (\A f \in Connections : c \notin targets[f]) /\ Received(c) = DueTo(c)
LogInv == \A c \in Connections : Acked(c) => LogAt(c)

BrokerInv == TypeOK /\ LockInv /\ TargetsInv /\ FreshInv /\ AckInv /\ OrderInv /\ LogInv
-----------------------------------------------------------------------------
(***************************************************************************)
(* Types.                                                                  *)
(***************************************************************************)
\* Whoever is at the head of the lock is in it.
LEMMA HolderIsIn ==
    ASSUME TypeOK, NEW c \in Connections, Holds(c)
    PROVE  In(lock, c)
<1>1. lock \in Seq(Connections) /\ lock # <<>> /\ Head(lock) = c
  BY DEF TypeOK, Holds
<1>2. 1 \in DOMAIN lock /\ lock[1] = c
  BY <1>1
<1>3. QED
  BY <1>2 DEF In

\* The log holds no publication twice, so it is no longer than their number.
LEMMA LogBounded ==
    ASSUME TypeOK, OrderInv
    PROVE  Len(log) \in 0..MaxPublish
<1>1. /\ log \in Seq(1..MaxPublish) /\ MaxPublish \in Nat /\ Len(log) \in Nat
      /\ DOMAIN log = 1..Len(log)
  BY ConstantsAssumption DEF TypeOK
<1>2. \A i, j \in DOMAIN log : i # j => log[i] # log[j]
  <2> SUFFICES ASSUME NEW i \in DOMAIN log, NEW j \in DOMAIN log, i < j
               PROVE  log[i] # log[j]
    BY <1>1
  <2>1. publishedBy[log[i]] = publishedBy[log[j]] => log[i] < log[j]
    BY DEF OrderInv, PublisherOrder
  <2>2. log[i] \in Nat
    BY <1>1
  <2>3. QED
    BY <2>1, <2>2
<1>3. log \in [1..Len(log) -> 1..MaxPublish]
  BY <1>1
<1>4. \A n \in Nat : IsFiniteSet(1..n) /\ Cardinality(1..n) = n
  <2> SUFFICES ASSUME NEW n \in Nat
               PROVE  IsFiniteSet(1..n) /\ Cardinality(1..n) = n
    OBVIOUS
  <2>1. 1 \in Int /\ n \in Int
    OBVIOUS
  <2>2. IsFiniteSet(1..n) /\ Cardinality(1..n) = IF 1 > n THEN 0 ELSE n - 1 + 1
    BY <2>1, FS_Interval
  <2>3. QED
    BY <2>2
<1>5. /\ IsFiniteSet(1..Len(log)) /\ Cardinality(1..Len(log)) = Len(log)
      /\ IsFiniteSet(1..MaxPublish) /\ Cardinality(1..MaxPublish) = MaxPublish
  BY <1>1, <1>4
<1>6. ~(MaxPublish < Len(log))
  <2> SUFFICES ASSUME MaxPublish < Len(log)
               PROVE  FALSE
    OBVIOUS
  <2>1. \E i, j \in 1..Len(log) : i # j /\ log[i] = log[j]
    BY <1>3, <1>5, FS_PigeonHole
  <2>2. QED
    BY <1>1, <1>2, <2>1
<1>7. QED
  BY <1>1, <1>6

LEMMA WriteType ==
    ASSUME TypeOK, NEW to \in Connections, NEW n \in 0..MaxPublish, Write(to, n)
    PROVE  got' \in [Connections -> Seq(0..MaxPublish)]
BY DEF TypeOK, Write
LEMMA InboxTruncated ==
    ASSUME TypeOK, NEW c \in Connections, NEW n \in 0..Len(inbox[c])
    PROVE  /\ SubSeq(inbox[c], 1, n) \in Seq(Packets)
           /\ Len(SubSeq(inbox[c], 1, n)) = n
           /\ \A i \in 1..n : SubSeq(inbox[c], 1, n)[i] = inbox[c][i]
<1>1. inbox[c] \in Seq(Packets)
  BY DEF TypeOK
<1>2. QED
  BY <1>1
-----------------------------------------------------------------------------
(***************************************************************************)
(* The lock.                                                               *)
(***************************************************************************)
LockOK == lock \in Seq(Connections) /\ IsInjective(lock)

LEMMA LockAcquired ==
    ASSUME TypeOK, LockInv, NEW c \in Connections, pc[c] \notin Waiters, Acquire(c),
           NEW where \in Waiters \ {"forwarding"}, Goto(c, where)
    PROVE  LockOK' /\ LockInv'
<1>1. /\ lock \in Seq(Connections) /\ IsInjective(lock) /\ lock' = Append(lock, c)
      /\ \A d \in Connections : pc'[d] = IF d = c THEN where ELSE pc[d]
  BY DEF TypeOK, Goto, Acquire
<1>2. ~In(lock, c)
  BY DEF LockInv
<1>3. LockOK'
  BY <1>1, <1>2, Joins DEF LockOK
<1>4. \A d \in Connections : In(lock', d) <=> pc'[d] \in Waiters
  BY <1>1, <1>2, Joins DEF LockInv
<1>5. \A d \in Connections : pc'[d] = "forwarding" => Holds(d)'
  BY <1>1, <1>2, Joins DEF LockInv, Holds
<1>6. QED
  BY <1>3, <1>4, <1>5 DEF LockInv

LEMMA LockReleased ==
    ASSUME TypeOK, LockInv, NEW c \in Connections, Holds(c), Release,
           NEW where, where \notin Waiters, Goto(c, where)
    PROVE  LockOK' /\ LockInv'
<1>1. /\ lock \in Seq(Connections) /\ IsInjective(lock) /\ lock # <<>> /\ Head(lock) = c
      /\ lock' = Tail(lock)
      /\ \A d \in Connections : pc'[d] = IF d = c THEN where ELSE pc[d]
  BY DEF TypeOK, Goto, Release, Holds
<1>2. LockOK'
  BY <1>1, HeadLeaves DEF LockOK
<1>3. \A d \in Connections : In(lock', d) <=> pc'[d] \in Waiters
  BY <1>1, HeadLeaves DEF LockInv
<1>4. \A d \in Connections : pc'[d] # "forwarding"
  BY <1>1 DEF LockInv, Holds, Waiters
<1>5. QED
  BY <1>2, <1>3, <1>4 DEF LockInv

LEMMA LockUntouched ==
    ASSUME LockInv, UNCHANGED lock,
           \A c \in Connections :
              /\ pc'[c] \in Waiters <=> pc[c] \in Waiters
              /\ pc'[c] = "forwarding" => pc[c] = "forwarding" \/ Holds(c)
    PROVE  LockInv'
BY DEF LockInv, Holds

LEMMA Moved ==
    ASSUME TypeOK, NEW c \in Connections, NEW where, Goto(c, where)
    PROVE  \A d \in Connections : pc'[d] = IF d = c THEN where ELSE pc[d]
BY DEF TypeOK, Goto

LEMMA LoopLeads ==
    ASSUME NEW c \in Connections, BackToLoop(c)
    PROVE  Goto(c, "reading") \/ Goto(c, "closing")
BY DEF BackToLoop

\* PUBACK, or none.
LEMMA AcknowledgeLeads ==
    ASSUME NEW c \in Connections, Acknowledge(c)
    PROVE  Goto(c, "draining") \/ Goto(c, "reading") \/ Goto(c, "closing")
BY LoopLeads DEF Acknowledge

\* A peer moves a handler only by connecting.
LEMMA PeersMove ==
    ASSUME FreshInv, NEW c \in Connections, ClientStep(c)
    PROVE  \/ UNCHANGED pc
           \/ pc[c] = "none" /\ Goto(c, "reading")
<1>1. ASSUME Opens(c) PROVE pc[c] = "none" /\ Goto(c, "reading")
  BY <1>1 DEF Opens, FreshInv, FreshAt
<1>2. QED
  BY <1>1 DEF ClientStep, Subscribes, Leaves, IsReset, SlowsDown, CatchesUp

LEMMA LockKept ==
    ASSUME BrokerInv, Next
    PROVE  LockOK' /\ LockInv'
<1> USE DEF Waiters
<1>1. TypeOK /\ LockInv
  BY DEF BrokerInv
<1>2. LockOK
  BY <1>1 DEF LockOK, TypeOK
<1>3. ASSUME NEW c \in Connections, ClientStep(c)
      PROVE  LockOK' /\ LockInv'
  <2>1. UNCHANGED lock
    BY <1>3 DEF ClientStep, Opens, Subscribes, Leaves, IsReset, SlowsDown, CatchesUp, broker
  <2>2. \/ UNCHANGED pc
        \/ pc[c] = "none" /\ Goto(c, "reading")
    BY <1>3, PeersMove DEF BrokerInv
  <2>3. QED
    BY <1>1, <1>2, <2>1, <2>2, LockUntouched, Moved DEF LockOK
<1>4. ASSUME NEW c \in Connections, HandlerStep(c)
      PROVE  LockOK' /\ LockInv'
  <2>1. CASE HandleSubscribe(c) \/ HandlePublish(c)
    <3>1. pc[c] \notin Waiters /\ Acquire(c) /\ (Goto(c, "subscribing") \/ Goto(c, "publishing"))
      BY <2>1 DEF HandleSubscribe, HandlePublish, Take
    <3>2. QED
      BY <1>1, <3>1, LockAcquired
  <2>2. CASE Register(c) \/ FinishForwarding(c) \/ Cleanup(c)
    <3>1. Holds(c)
      BY <1>1, <2>2 DEF Register, FinishForwarding, Cleanup, LockInv
    <3>2. Release /\ \/ Goto(c, "draining") \/ Goto(c, "reading")
                     \/ Goto(c, "closing") \/ Goto(c, "done")
      BY <2>2, AcknowledgeLeads DEF Register, FinishForwarding, Cleanup
    <3>3. QED
      BY <1>1, <3>1, <3>2, LockReleased
  <2>3. CASE Closed(c)
    <3>1. pc[c] \notin Waiters /\ \/ Goto(c, "failed") /\ UNCHANGED lock
                                  \/ Acquire(c) /\ Goto(c, "cleaning")
      BY <2>3 DEF Closed
    <3>2. QED
      BY <1>1, <1>2, <3>1, LockAcquired, LockUntouched, Moved DEF LockOK
  <2>4. CASE HandleConnect(c) \/ HandleDisconnect(c) \/ Resumes(c) \/ StreamEnds(c) \/ ReadFails(c)
    <3>1. pc[c] \notin Waiters /\ UNCHANGED lock
      BY <2>4 DEF HandleConnect, HandleDisconnect, Resumes, StreamEnds, ReadFails, Take
    <3>2. \/ Goto(c, "draining") \/ Goto(c, "reading") \/ Goto(c, "closing") \/ Goto(c, "failed")
      BY <2>4, LoopLeads DEF HandleConnect, HandleDisconnect, Resumes, StreamEnds, ReadFails
    <3>3. QED
      BY <1>1, <1>2, <3>1, <3>2, LockUntouched, Moved DEF LockOK
  <2>5. CASE StartForwarding(c)
    <3>1. pc[c] = "publishing" /\ Holds(c) /\ UNCHANGED lock /\ Goto(c, "forwarding")
      BY <2>5 DEF StartForwarding
    <3>2. QED
      BY <1>1, <1>2, <3>1, LockUntouched, Moved DEF LockOK
  <2>6. CASE Forward(c)
    BY <1>1, <1>2, <2>6, LockUntouched DEF Forward, LockOK
  <2>7. QED
    BY <1>4, <2>1, <2>2, <2>3, <2>4, <2>5, <2>6 DEF HandlerStep
<1>5. CASE (\E c \in Publishers : Publishes(c)) \/ Stop
  BY <1>1, <1>2, <1>5, LockUntouched DEF Publishes, Stop, broker, LockOK
<1>6. QED
  BY <1>3, <1>4, <1>5 DEF Next
-----------------------------------------------------------------------------
(***************************************************************************)
(* Types.                                                                  *)
(***************************************************************************)
LEMMA SendType ==
    ASSUME TypeOK, NEW c \in Connections, NEW p \in Packets, Send(c, p)
    PROVE  inbox' \in [Connections -> Seq(Packets)]
BY DEF TypeOK, Send

LEMMA TakeType ==
    ASSUME TypeOK, NEW c \in Connections, NEW k, Take(c, k)
    PROVE  inbox' \in [Connections -> Seq(Packets)] /\ packet' \in [Connections -> Packets]
<1>1. inbox[c] \in Seq(Packets) /\ inbox[c] # <<>>
  BY DEF TypeOK, Take
<1>2. Tail(inbox[c]) \in Seq(Packets) /\ Head(inbox[c]) \in Packets
  BY <1>1
<1>3. QED
  BY <1>2 DEF TypeOK, Take

LEMMA SentAreBounded ==
    ASSUME TypeOK, NEW c, NEW n \in SentBy(c)
    PROVE  n \in 1..MaxPublish
<1>1. /\ Len(publishedBy) \in Nat /\ Len(publishedBy) <= MaxPublish /\ MaxPublish \in Nat
      /\ DOMAIN publishedBy = 1..Len(publishedBy)
  BY ConstantsAssumption DEF TypeOK
<1>2. QED
  BY <1>1 DEF SentBy

Places == {"none", "reading", "draining", "subscribing",
           "publishing", "forwarding", "closing", "cleaning", "done", "failed"}

LEMMA GotoType ==
    ASSUME TypeOK, NEW c, NEW where \in Places, Goto(c, where)
    PROVE  pc' \in [Connections -> Places]
BY DEF TypeOK, Goto, Places

LEMMA PacketType ==
    ASSUME NEW k \in Kinds
    PROVE  Packet(k) \in Packets
BY ConstantsAssumption DEF Packet, Packets

LEMMA DrainType ==
    ASSUME TypeOK, NEW c, NEW to \in Connections, Drain(c, to)
    PROVE  draining' \in [Connections -> Connections \union {NoConnection}]
BY DEF TypeOK, Drain

LEMMA DrainsType ==
    ASSUME TypeOK, NEW c, Drains(c)
    PROVE  /\ draining' \in [Connections -> Connections \union {NoConnection}]
           /\ slow' \subseteq Connections
BY DEF TypeOK, Drains

LEMMA TypeKeptByPeers ==
    ASSUME BrokerInv, LockOK', NEW c \in Connections, ClientStep(c) \/ (c \in Publishers /\ Publishes(c))
    PROVE  TypeOK'
<1> USE DEF BrokerInv
<1>1. UNCHANGED broker /\ UNCHANGED got
  BY DEF ClientStep, Opens, Subscribes, Leaves, IsReset, SlowsDown, CatchesUp, Publishes
<1>2. pc' \in [Connections -> Places]
  <2>1. UNCHANGED pc \/ Goto(c, "reading")
    BY DEF ClientStep, Opens, Subscribes, Leaves, IsReset, SlowsDown, CatchesUp, Publishes
  <2>2. QED
    BY <2>1, GotoType DEF TypeOK, Places
<1>3. /\ draining' \in [Connections -> Connections \union {NoConnection}]
      /\ slow' \subseteq Connections
  <2>1. \/ UNCHANGED <<draining, slow>>
        \/ Drains(c)
        \/ UNCHANGED draining /\ slow' = slow \union {c}
    BY DEF ClientStep, Opens, Subscribes, Leaves, IsReset, SlowsDown, CatchesUp, Publishes
  <2>2. QED
    BY <2>1, DrainsType DEF TypeOK
<1>4. link' \in [Connections -> {"new", "up", "eof", "reset"}]
  <2>1. \/ UNCHANGED link
        \/ \E l \in {"up", "eof", "reset"} : link' = [link EXCEPT ![c] = l]
    BY DEF ClientStep, Opens, Subscribes, Leaves, IsReset, SlowsDown, CatchesUp, Publishes
  <2>2. QED
    BY <2>1 DEF TypeOK
<1>5. CASE Publishes(c) /\ c \in Publishers
  <2>1. publishedBy' = Append(publishedBy, c) /\ Len(publishedBy) < MaxPublish /\ MaxPublish \in Nat
    BY <1>5, ConstantsAssumption DEF Publishes
  <2>2. publishedBy' \in Seq(Publishers) /\ Len(publishedBy') <= MaxPublish /\ Len(publishedBy') \in Nat
    BY <1>5, <2>1 DEF TypeOK
  <2>3. [kind |-> "publish", n |-> Len(publishedBy'), qos |-> QosOf[c]] \in Packets
    BY <1>5, <2>1, <2>2, ConstantsAssumption DEF Packets, Kinds
  <2>4. inbox' \in [Connections -> Seq(Packets)]
    BY <1>5, <2>3, SendType DEF Publishes
  <2>5. QED
    BY <1>1, <1>2, <1>3, <1>4, <2>2, <2>4 DEF TypeOK, broker, LockOK, Places
<1>6. CASE ClientStep(c)
  <2>1. UNCHANGED publishedBy
    BY <1>6 DEF ClientStep, Opens, Subscribes, Leaves, IsReset, SlowsDown, CatchesUp
  <2>2. \/ UNCHANGED inbox
        \/ \E k \in Kinds : Send(c, Packet(k))
        \/ \E n \in 0..Len(inbox[c]) : inbox' = [inbox EXCEPT ![c] = SubSeq(@, 1, n)]
    BY <1>6 DEF ClientStep, Opens, Subscribes, Leaves, IsReset, SlowsDown, CatchesUp, Kinds
  <2>3. inbox' \in [Connections -> Seq(Packets)]
    <3>1. CASE UNCHANGED inbox
      BY <3>1 DEF TypeOK
    <3>2. CASE \E k \in Kinds : Send(c, Packet(k))
      BY <3>2, PacketType, SendType
    <3>3. CASE \E n \in 0..Len(inbox[c]) : inbox' = [inbox EXCEPT ![c] = SubSeq(@, 1, n)]
      <4>1. PICK n \in 0..Len(inbox[c]) : inbox' = [inbox EXCEPT ![c] = SubSeq(@, 1, n)]
        BY <3>3
      <4>2. SubSeq(inbox[c], 1, n) \in Seq(Packets)
        BY InboxTruncated
      <4>3. QED
        BY <4>1, <4>2 DEF TypeOK
    <3>4. QED
      BY <2>2, <3>1, <3>2, <3>3
  <2>4. QED
    BY <1>1, <1>2, <1>3, <1>4, <2>1, <2>3 DEF TypeOK, broker, LockOK, Places
<1>7. QED
  BY <1>5, <1>6

LEMMA TypeKeptByHandlers ==
    ASSUME BrokerInv, LockOK', NEW c \in Connections, HandlerStep(c)
    PROVE  TypeOK'
<1> USE DEF BrokerInv
<1>1. UNCHANGED <<link, slow, publishedBy, running>>
  BY DEF HandlerStep, HandleConnect, HandleSubscribe, HandlePublish, HandleDisconnect,
         Register, StartForwarding, Forward, FinishForwarding, Resumes, StreamEnds, ReadFails,
         Closed, Cleanup, Take, peers
<1>2. pc' \in [Connections -> Places]
  <2>1. UNCHANGED pc \/ \E where \in Places : Goto(c, where)
    BY LoopLeads, AcknowledgeLeads
       DEF Places, HandlerStep, HandleConnect, HandleSubscribe, HandlePublish, HandleDisconnect,
           Register, StartForwarding, Forward, FinishForwarding, Resumes, StreamEnds, ReadFails,
           Closed, Cleanup
  <2>2. QED
    BY <2>1, GotoType DEF TypeOK, Places
<1>3. inbox' \in [Connections -> Seq(Packets)] /\ packet' \in [Connections -> Packets]
  <2>1. UNCHANGED <<inbox, packet>> \/ \E k \in Kinds : Take(c, k)
    BY DEF Kinds, HandlerStep, HandleConnect, HandleSubscribe, HandlePublish, HandleDisconnect,
           Register, StartForwarding, Forward, FinishForwarding, Resumes, StreamEnds, ReadFails,
           Closed, Cleanup, peers
  <2>2. QED
    BY <2>1, TakeType DEF TypeOK
<1>4. draining' \in [Connections -> Connections \union {NoConnection}]
  <2>1. UNCHANGED draining \/ \E to \in Connections : Drain(c, to)
    BY DEF HandlerStep, HandleConnect, HandleSubscribe, HandlePublish, HandleDisconnect,
           Register, StartForwarding, Forward, FinishForwarding, Resumes, StreamEnds, ReadFails,
           Closed, Cleanup, Acknowledge, TypeOK
  <2>2. QED
    BY <2>1, DrainType DEF TypeOK
<1>5. clients' \in [ClientIds -> Connections \union {NoConnection}]
  <2>1. UNCHANGED clients \/ \E d \in Connections \union {NoConnection} :
                                clients' = [clients EXCEPT ![IdOf[c]] = d]
    BY DEF HandlerStep, HandleConnect, HandleSubscribe, HandlePublish, HandleDisconnect,
           Register, StartForwarding, Forward, FinishForwarding, Resumes, StreamEnds, ReadFails,
           Closed, Cleanup
  <2>2. QED
    BY <2>1 DEF TypeOK
<1>6. subs' \subseteq Connections /\ targets' \in [Connections -> SUBSET Connections]
  <2>1. subs' \in {subs, subs \union {c}, subs \ {c}}
    BY DEF HandlerStep, HandleConnect, HandleSubscribe, HandlePublish, HandleDisconnect,
           Register, StartForwarding, Forward, FinishForwarding, Resumes, StreamEnds, ReadFails,
           Closed, Cleanup
  <2>2. UNCHANGED targets \/ \E T \in SUBSET Connections : targets' = [targets EXCEPT ![c] = T]
    <3>1. ASSUME Forward(c)
          PROVE  \E T \in SUBSET Connections : targets' = [targets EXCEPT ![c] = T]
      <4>1. PICK s \in targets[c] : targets' = [targets EXCEPT ![c] = @ \ {s}]
        BY <3>1 DEF Forward
      <4>2. targets[c] \ {s} \in SUBSET Connections
        BY DEF TypeOK
      <4>3. QED
        BY <4>1, <4>2
    <3>2. ASSUME StartForwarding(c)
          PROVE  \E T \in SUBSET Connections : targets' = [targets EXCEPT ![c] = T]
      <4>1. subs \ {c} \in SUBSET Connections
        BY DEF TypeOK
      <4>2. QED
        BY <3>2, <4>1 DEF StartForwarding
    <3>3. QED
      BY <3>1, <3>2
         DEF HandlerStep, HandleConnect, HandleSubscribe, HandlePublish, HandleDisconnect,
             Register, FinishForwarding, Resumes, StreamEnds, ReadFails, Closed, Cleanup
  <2>3. subs' \subseteq Connections
    BY <2>1 DEF TypeOK
  <2>4. targets' \in [Connections -> SUBSET Connections]
    BY <2>2 DEF TypeOK
  <2>5. QED
    BY <2>3, <2>4
<1>7. /\ got' \in [Connections -> Seq(0..MaxPublish)] /\ log' \in Seq(1..MaxPublish)
      /\ since' \in [Connections -> 0..MaxPublish]
  <2>1. CASE Register(c)
    <3>1. 0 \in 0..MaxPublish /\ Len(log) \in 0..MaxPublish
      BY ConstantsAssumption, LogBounded
    <3>2. got' \in [Connections -> Seq(0..MaxPublish)]
      BY <2>1, <3>1, WriteType DEF Register, SubAck
    <3>3. QED
      BY <2>1, <3>1, <3>2 DEF Register, SubAck, TypeOK
  <2>2. CASE Forward(c)
    <3>1. PICK s \in targets[c] : Write(s, packet[c].n)
      BY <2>2 DEF Forward
    <3>2. s \in Connections /\ packet[c].n \in 0..MaxPublish
      BY DEF TypeOK, Packets
    <3>3. QED
      BY <2>2, <3>1, <3>2, WriteType DEF Forward, TypeOK
  <2>3. CASE StartForwarding(c)
    <3>1. packet[c].n \in 1..MaxPublish
      BY <2>3, SentAreBounded DEF StartForwarding, OrderInv, OrderAt
    <3>2. QED
      BY <2>3, <3>1 DEF StartForwarding, TypeOK
  <2>4. CASE UNCHANGED <<got, log, since>>
    BY <2>4 DEF TypeOK
  <2>5. QED
    BY <2>1, <2>2, <2>3, <2>4
       DEF HandlerStep, HandleConnect, HandleSubscribe, HandlePublish, HandleDisconnect,
           FinishForwarding, Resumes, StreamEnds, ReadFails, Closed, Cleanup
<1>8. QED
  BY <1>1, <1>2, <1>3, <1>4, <1>5, <1>6, <1>7 DEF TypeOK, LockOK, Places

LEMMA TypeKept ==
    ASSUME BrokerInv, LockOK', Next
    PROVE  TypeOK'
<1>1. CASE Stop
  BY <1>1 DEF BrokerInv, TypeOK, Stop, peers
<1>2. CASE \E c \in Publishers : Publishes(c)
  BY <1>2, ConstantsAssumption, TypeKeptByPeers
<1>3. QED
  BY <1>1, <1>2, TypeKeptByPeers, TypeKeptByHandlers DEF Next
-----------------------------------------------------------------------------
(***************************************************************************)
(* What packets and writes do to the sequences.                            *)
(***************************************************************************)
LEMMA Sent ==
    ASSUME TypeOK, NEW c \in Connections, NEW p \in Packets, Send(c, p)
    PROVE  /\ \A d \in Connections : d # c => inbox'[d] = inbox[d]
           /\ Len(inbox[c]) \in Nat /\ DOMAIN inbox[c] = 1..Len(inbox[c])
           /\ DOMAIN inbox'[c] = 1..(Len(inbox[c]) + 1)
           /\ \A i \in 1..Len(inbox[c]) : inbox'[c][i] = inbox[c][i]
           /\ inbox'[c][Len(inbox[c]) + 1] = p
<1>1. inbox[c] \in Seq(Packets) /\ inbox'[c] = Append(inbox[c], p)
      /\ \A d \in Connections : d # c => inbox'[d] = inbox[d]
  BY DEF TypeOK, Send
<1>2. QED
  BY <1>1

LEMMA Taken ==
    ASSUME TypeOK, NEW c \in Connections, NEW k, Take(c, k)
    PROVE  /\ \A d \in Connections : d # c => inbox'[d] = inbox[d] /\ packet'[d] = packet[d]
           /\ DOMAIN inbox'[c] \subseteq Nat /\ DOMAIN inbox[c] \subseteq Nat
           /\ \A i \in DOMAIN inbox'[c] : i + 1 \in DOMAIN inbox[c] /\ i + 1 # 1
                                          /\ inbox'[c][i] = inbox[c][i + 1]
           /\ 1 \in DOMAIN inbox[c] /\ packet'[c] = inbox[c][1] /\ inbox[c][1].kind = k
<1>1. /\ inbox[c] \in Seq(Packets) /\ inbox[c] # <<>> /\ Head(inbox[c]).kind = k
      /\ inbox'[c] = Tail(inbox[c]) /\ packet'[c] = Head(inbox[c])
      /\ \A d \in Connections : d # c => inbox'[d] = inbox[d] /\ packet'[d] = packet[d]
  BY DEF TypeOK, Take
<1>2. /\ Len(inbox[c]) \in Nat \ {0} /\ DOMAIN inbox[c] = 1..Len(inbox[c])
      /\ Head(inbox[c]) = inbox[c][1]
      /\ DOMAIN Tail(inbox[c]) = 1..(Len(inbox[c]) - 1)
      /\ \A i \in 1..(Len(inbox[c]) - 1) : Tail(inbox[c])[i] = inbox[c][i + 1]
  BY <1>1
<1>3. QED
  BY <1>1, <1>2

\* A write reaches a connection that lives.
LEMMA Written ==
    ASSUME TypeOK, NEW to \in Connections, NEW n \in 0..MaxPublish, Write(to, n)
    PROVE  \A d \in Connections :
              got'[d] = IF d = to /\ IsLive(to) THEN Append(got[d], n) ELSE got[d]
BY DEF TypeOK, Write, IsLive

LEMMA AckedAppend ==
    ASSUME NEW s \in Seq(0..MaxPublish), NEW n \in 0..MaxPublish
    PROVE  /\ 0 \in Range(Append(s, n)) <=> 0 \in Range(s) \/ n = 0
           /\ Append(s, n) # <<>>
<1> DEFINE t == Append(s, n)
<1>1. /\ Len(s) \in Nat /\ DOMAIN s = 1..Len(s) /\ DOMAIN t = 1..(Len(s) + 1)
      /\ t # <<>> /\ t[Len(s) + 1] = n /\ \A i \in 1..Len(s) : t[i] = s[i]
  OBVIOUS
<1> HIDE DEF t
<1>2. \A i \in DOMAIN t : i \in DOMAIN s \/ i = Len(s) + 1
  BY <1>1
<1>3. Len(s) + 1 \in DOMAIN t /\ \A i \in DOMAIN s : i \in DOMAIN t
  BY <1>1
<1>4. 0 \in Range(t) <=> 0 \in Range(s) \/ n = 0
  BY <1>1, <1>2, <1>3 DEF Range
<1>5. QED
  BY <1>1, <1>4 DEF t

LEMMA NotAckedEmpty == 0 \notin Range(<<>>)
BY DEF Range
-----------------------------------------------------------------------------
(***************************************************************************)
(* Who forwards, and who lives.                                            *)
(***************************************************************************)
LEMMA OneForwards ==
    ASSUME LockInv, NEW c \in Connections, Holds(c)
    PROVE  \A d \in Connections : d # c => pc[d] # "forwarding"
BY DEF LockInv, Holds

LEMMA LivesOn ==
    ASSUME BrokerInv, Next, NEW d \in Connections
    PROVE  /\ IsLive(d)' => IsLive(d)
           /\ pc[d] = "done" => pc'[d] = "done"
<1> USE DEF BrokerInv
<1>1. ASSUME NEW c \in Connections, ClientStep(c)
      PROVE  /\ IsLive(d)' => IsLive(d)
             /\ pc[d] = "done" => pc'[d] = "done"
  <2>1. CASE Opens(c)
    <3>1. link[c] = "new" /\ pc[c] = "none" /\ Goto(c, "reading") /\ \A e \in Connections : e # c => link'[e] = link[e]
      BY <2>1 DEF Opens, FreshInv, FreshAt, TypeOK
    <3>2. QED
      BY <3>1, Moved DEF IsLive, Over
  <2>2. CASE ~Opens(c)
    <3>1. UNCHANGED pc /\ \/ UNCHANGED link
                          \/ link[c] \in {"up", "eof"} /\ \E l : link' = [link EXCEPT ![c] = l]
      BY <1>1, <2>2 DEF ClientStep, Subscribes, Leaves, IsReset, SlowsDown, CatchesUp
    <3>2. QED
      BY <3>1 DEF IsLive, TypeOK
  <2>3. QED
    BY <2>1, <2>2
<1>2. ASSUME NEW c \in Connections, HandlerStep(c)
      PROVE  /\ IsLive(d)' => IsLive(d)
             /\ pc[d] = "done" => pc'[d] = "done"
  <2>1. UNCHANGED link
    BY <1>2 DEF HandlerStep, HandleConnect, HandleSubscribe, HandlePublish, HandleDisconnect,
           Register, StartForwarding, Forward, FinishForwarding, Resumes, StreamEnds, ReadFails,
           Closed, Cleanup, Take, peers
  <2>2. \/ UNCHANGED pc
        \/ pc[c] \notin Over /\ \E where : Goto(c, where)
        \/ pc[c] \in {"closing", "cleaning"} /\ \E where \in Over : Goto(c, where)
    BY <1>2, LoopLeads, AcknowledgeLeads
       DEF Over, HandlerStep, HandleConnect, HandleSubscribe, HandlePublish, HandleDisconnect,
           Register, StartForwarding, Forward, FinishForwarding, Resumes, StreamEnds, ReadFails,
           Closed, Cleanup, Take
  <2>3. QED
    BY <2>1, <2>2, Moved DEF IsLive, Over
<1>3. ASSUME (\E c \in Publishers : Publishes(c)) \/ Stop
      PROVE  UNCHANGED <<link, pc>>
  BY <1>3 DEF Publishes, Stop, peers
<1>4. QED
  BY <1>1, <1>2, <1>3 DEF Next, IsLive

LEMMA TargetsKept ==
    ASSUME BrokerInv, Next
    PROVE  TargetsInv'
<1> USE DEF BrokerInv
<1>1. ASSUME UNCHANGED <<targets, subs>>,
             \A d \in Connections : pc[d] = "forwarding" => pc'[d] = "forwarding"
      PROVE  TargetsInv'
  BY <1>1 DEF TargetsInv
<1>2. ASSUME NEW c \in Connections, ClientStep(c)
      PROVE  TargetsInv'
  <2>1. UNCHANGED <<targets, subs>>
    BY <1>2 DEF ClientStep, Opens, Subscribes, Leaves, IsReset, SlowsDown, CatchesUp, broker
  <2>2. \/ UNCHANGED pc
        \/ pc[c] = "none" /\ Goto(c, "reading")
    BY <1>2, PeersMove
  <2>3. QED
    BY <1>1, <2>1, <2>2, Moved
<1>3. ASSUME (\E c \in Publishers : Publishes(c)) \/ Stop
      PROVE  TargetsInv'
  BY <1>1, <1>3 DEF Publishes, Stop, broker
<1>4. ASSUME NEW c \in Connections, HandlerStep(c)
      PROVE  TargetsInv'
  <2>1. CASE Register(c)
    <3>1. /\ UNCHANGED targets /\ subs' = subs \union {c} /\ pc[c] = "subscribing"
          /\ Goto(c, "draining")
      BY <2>1 DEF Register
    <3>2. QED
      BY <3>1, Moved DEF TargetsInv
  <2>2. CASE StartForwarding(c)
    <3>1. /\ targets' = [targets EXCEPT ![c] = subs \ {c}] /\ UNCHANGED subs
          /\ pc[c] = "publishing" /\ Goto(c, "forwarding")
      BY <2>2 DEF StartForwarding
    <3>2. \A d \in Connections : targets'[d] = IF d = c THEN subs \ {c} ELSE targets[d]
      BY <3>1 DEF TypeOK
    <3>3. \A d \in Connections : pc'[d] = IF d = c THEN "forwarding" ELSE pc[d]
      BY <3>1, Moved
    <3>4. QED
      BY <3>1, <3>2, <3>3 DEF TargetsInv
  <2>3. CASE Forward(c)
    <3>1. PICK s \in targets[c] : targets' = [targets EXCEPT ![c] = @ \ {s}]
      BY <2>3 DEF Forward
    <3>2. UNCHANGED <<pc, subs>> /\ pc[c] = "forwarding"
      BY <2>3 DEF Forward
    <3>3. QED
      BY <3>1, <3>2 DEF TargetsInv, TypeOK
  <2>4. CASE FinishForwarding(c)
    <3>1. UNCHANGED <<targets, subs>> /\ targets[c] = {}
      BY <2>4 DEF FinishForwarding
    <3>2. \A d \in Connections : d # c => pc'[d] = pc[d]
      BY <2>4, AcknowledgeLeads, Moved DEF FinishForwarding
    <3>3. QED
      BY <3>1, <3>2 DEF TargetsInv
  <2>5. CASE Cleanup(c)
    <3>1. /\ UNCHANGED targets /\ subs' = subs \ {c} /\ Holds(c)
          /\ pc[c] = "cleaning" /\ Goto(c, "done")
      BY <2>5 DEF Cleanup
    <3>2. \A d \in Connections : targets[d] = {} /\ pc'[d] # "forwarding"
      BY <3>1, OneForwards, Moved DEF TargetsInv
    <3>3. QED
      BY <3>1, <3>2 DEF TargetsInv
  <2>6. CASE \/ HandleConnect(c) \/ HandleSubscribe(c) \/ HandlePublish(c) \/ HandleDisconnect(c)
             \/ Resumes(c) \/ StreamEnds(c) \/ ReadFails(c) \/ Closed(c)
    <3>1. UNCHANGED <<targets, subs>> /\ pc[c] # "forwarding"
      BY <2>6 DEF HandleConnect, HandleSubscribe, HandlePublish, HandleDisconnect, Resumes,
                  StreamEnds, ReadFails, Closed, Take
    <3>2. \E where : Goto(c, where)
      BY <2>6, LoopLeads
         DEF HandleConnect, HandleSubscribe, HandlePublish, HandleDisconnect, Resumes,
             StreamEnds, ReadFails, Closed
    <3>3. QED
      BY <1>1, <3>1, <3>2, Moved
  <2>7. QED
    BY <1>4, <2>1, <2>2, <2>3, <2>4, <2>5, <2>6 DEF HandlerStep
<1>5. QED
  BY <1>2, <1>3, <1>4 DEF Next
-----------------------------------------------------------------------------
(***************************************************************************)
(* A connection subscribes once.                                           *)
(***************************************************************************)
LEMMA FreshKeptByPeers ==
    ASSUME BrokerInv, NEW c \in Connections, ClientStep(c) \/ (c \in Publishers /\ Publishes(c))
    PROVE  FreshInv'
<1> USE DEF BrokerInv
<1>1. UNCHANGED <<got, subs, packet>>
  BY DEF ClientStep, Opens, Subscribes, Leaves, IsReset, SlowsDown, CatchesUp, Publishes, broker
<1>2. \A d \in Connections : d # c => link'[d] = link[d] /\ inbox'[d] = inbox[d] /\ pc'[d] = pc[d]
  BY DEF ClientStep, Opens, Subscribes, Leaves, IsReset, SlowsDown, CatchesUp, Publishes, Send,
         Goto, TypeOK
<1>3. \A d \in Connections : d # c => FreshAt(d)'
  BY <1>1, <1>2 DEF FreshAt, Fresh, FreshInv
<1>4. FreshAt(c)
  BY DEF FreshInv
<1>5. FreshAt(c)'
  <2>1. CASE Opens(c)
    <3>1. link[c] = "new" /\ link'[c] = "up" /\ Send(c, Packet("connect")) /\ pc'[c] = "reading"
      BY <2>1, Moved DEF Opens, TypeOK
    <3>2. inbox[c] = <<>> /\ packet[c].kind = "connect" /\ Fresh(c)
      BY <1>4, <3>1 DEF FreshAt
    <3>3. inbox'[c] = <<Packet("connect")>>
      BY <3>1, <3>2 DEF Send, TypeOK
    <3>4. DOMAIN inbox'[c] = {1}
      BY <3>3
    <3>5. QED
      BY <1>1, <3>1, <3>2, <3>4 DEF FreshAt, Fresh
  <2>2. CASE Subscribes(c)
    <3>1. /\ link[c] = "up" /\ UNCHANGED <<link, pc>> /\ pc[c] = "reading" /\ inbox[c] = <<>>
          /\ packet[c].kind = "connect" /\ Send(c, Packet("subscribe"))
      BY <2>2 DEF Subscribes
    <3>2. inbox'[c] = <<Packet("subscribe")>>
      BY <3>1 DEF Send, TypeOK
    <3>3. DOMAIN inbox'[c] = {1}
      BY <3>2
    <3>4. QED
      BY <1>1, <1>4, <3>1, <3>3 DEF FreshAt, Fresh
  <2>3. CASE \E p \in Packets : p.kind \in {"publish", "disconnect"} /\ Send(c, p)
                 /\ link[c] # "new" /\ link'[c] # "new" /\ pc'[c] = pc[c]
    <3>1. PICK p \in Packets : p.kind \in {"publish", "disconnect"} /\ Send(c, p)
                 /\ link[c] # "new" /\ link'[c] # "new" /\ pc'[c] = pc[c]
      BY <2>3
    <3>2. ASSUME NEW i \in DOMAIN inbox'[c], inbox'[c][i].kind \in {"connect", "subscribe"}
          PROVE  i \in DOMAIN inbox[c] /\ inbox'[c][i] = inbox[c][i]
      <4>1. i \in 1..Len(inbox[c]) \/ i = Len(inbox[c]) + 1
        BY <3>1, Sent
      <4>2. i # Len(inbox[c]) + 1
        BY <3>1, <3>2, Sent
      <4>3. QED
        BY <3>1, <4>1, <4>2, Sent
    <3>3. QED
      BY <1>1, <1>4, <3>1, <3>2 DEF FreshAt, Fresh
  <2>4. CASE \E n \in 0..Len(inbox[c]) : inbox' = [inbox EXCEPT ![c] = SubSeq(@, 1, n)]
                 /\ link[c] # "new" /\ link'[c] # "new" /\ pc'[c] = pc[c]
    <3>1. PICK n \in 0..Len(inbox[c]) : inbox' = [inbox EXCEPT ![c] = SubSeq(@, 1, n)]
                 /\ link[c] # "new" /\ link'[c] # "new" /\ pc'[c] = pc[c]
      BY <2>4
    <3>2. inbox'[c] = SubSeq(inbox[c], 1, n) /\ Len(inbox[c]) \in Nat
      BY <3>1 DEF TypeOK
    <3>3. DOMAIN inbox'[c] = 1..n /\ DOMAIN inbox[c] = 1..Len(inbox[c])
      BY <3>2, InboxTruncated DEF TypeOK
    <3>4. \A i \in DOMAIN inbox'[c] : i \in DOMAIN inbox[c] /\ inbox'[c][i] = inbox[c][i]
      BY <3>2, <3>3, InboxTruncated
    <3>5. QED
      BY <1>1, <1>4, <3>1, <3>4 DEF FreshAt, Fresh
  <2>5. CASE UNCHANGED inbox /\ pc'[c] = pc[c] /\ (link'[c] = link[c] \/ link'[c] # "new")
    BY <1>1, <1>4, <2>5 DEF FreshAt, Fresh
  <2>6. Packet("disconnect") \in Packets /\ Packet("disconnect").kind = "disconnect"
    BY PacketType DEF Kinds, Packet
  <2>7. ASSUME c \in Publishers, Publishes(c)
        PROVE  /\ [kind |-> "publish", n |-> Len(publishedBy'), qos |-> QosOf[c]] \in Packets
               /\ Send(c, [kind |-> "publish", n |-> Len(publishedBy'), qos |-> QosOf[c]])
    <3>1. publishedBy' = Append(publishedBy, c) /\ Len(publishedBy) < MaxPublish /\ MaxPublish \in Nat
      BY <2>7, ConstantsAssumption DEF Publishes
    <3>2. Len(publishedBy') <= MaxPublish /\ Len(publishedBy') \in Nat
      BY <2>7, <3>1 DEF TypeOK
    <3>3. QED
      BY <2>7, <3>2, ConstantsAssumption DEF Packets, Kinds, Publishes
  <2>8. ASSUME c \in Publishers, Publishes(c)
        PROVE  \E p \in Packets : p.kind \in {"publish", "disconnect"} /\ Send(c, p)
                 /\ link[c] # "new" /\ link'[c] # "new" /\ pc'[c] = pc[c]
    <3>1. link[c] = "up" /\ UNCHANGED <<link, pc>>
      BY <2>8 DEF Publishes
    <3>2. QED
      BY <2>7, <2>8, <3>1
  <2>9. CASE Leaves(c)
    <3>1. link[c] = "up" /\ link'[c] = "eof" /\ UNCHANGED pc
          /\ (Send(c, Packet("disconnect")) \/ UNCHANGED inbox)
      BY <2>9 DEF Leaves, TypeOK
    <3>2. QED
      BY <2>3, <2>5, <2>6, <3>1
  <2>10. CASE IsReset(c)
    <3>1. link[c] # "new" /\ link'[c] = "reset" /\ UNCHANGED pc
      BY <2>10 DEF IsReset, TypeOK
    <3>2. PICK n \in 0..Len(inbox[c]) : inbox' = [inbox EXCEPT ![c] = SubSeq(@, 1, n)]
      BY <2>10 DEF IsReset
    <3>3. QED
      BY <2>4, <3>1, <3>2
  <2>11. QED
    BY <2>1, <2>2, <2>3, <2>5, <2>8, <2>9, <2>10 DEF ClientStep, SlowsDown, CatchesUp
<1>6. QED
  BY <1>3, <1>5 DEF FreshInv

LEMMA FreshKeptByTake ==
    ASSUME BrokerInv, NEW c \in Connections, NEW k \in Kinds, Take(c, k), UNCHANGED <<got, subs>>,
           NEW where, where # "none", Goto(c, where), where = "subscribing" => k = "subscribe"
    PROVE  FreshInv'
<1> USE DEF BrokerInv
<1>1. \A d \in Connections : FreshAt(d)
  BY DEF FreshInv
<1>2. UNCHANGED link /\ pc[c] = "reading" /\ \A d \in Connections : pc'[d] = IF d = c THEN where ELSE pc[d]
  BY Moved DEF Take
<1>3. ASSUME NEW d \in Connections, d # c
      PROVE  FreshAt(d)'
  BY <1>1, <1>2, <1>3, Taken DEF FreshAt, Fresh
<1>4. \A i \in DOMAIN inbox'[c] : inbox'[c][i].kind \notin {"connect", "subscribe"}
  BY <1>1, Taken DEF FreshAt
<1>5. packet'[c].kind = k
  BY Taken
<1>6. k \in {"connect", "subscribe"} => Fresh(c)
  BY <1>1, Taken DEF FreshAt
<1>7. link[c] # "new"
  BY <1>1, <1>2 DEF FreshAt
<1>8. k = "connect" => where # "subscribing"
  OBVIOUS
<1>9. FreshAt(c)'
  BY <1>2, <1>4, <1>5, <1>6, <1>7, <1>8 DEF FreshAt, Fresh
<1>10. QED
  BY <1>3, <1>9 DEF FreshInv

LEMMA FreshKeptByHandlers ==
    ASSUME BrokerInv, NEW c \in Connections, HandlerStep(c)
    PROVE  FreshInv'
<1> USE DEF BrokerInv
<1>1. \A d \in Connections : FreshAt(d)
  BY DEF FreshInv
<1>2. CASE HandleConnect(c)
  BY <1>2, FreshKeptByTake DEF HandleConnect, Kinds
<1>3. CASE HandleSubscribe(c)
  BY <1>3, FreshKeptByTake DEF HandleSubscribe, Kinds
<1>4. CASE HandlePublish(c)
  BY <1>4, FreshKeptByTake DEF HandlePublish, Kinds
<1>5. CASE HandleDisconnect(c)
  BY <1>5, FreshKeptByTake DEF HandleDisconnect, Kinds
<1>6. CASE Register(c)
  <2>1. /\ UNCHANGED <<link, inbox, packet>> /\ pc[c] = "subscribing" /\ subs' = subs \union {c}
        /\ \A d \in Connections : pc'[d] = IF d = c THEN "draining" ELSE pc[d]
    BY <1>6, Moved DEF Register, peers
  <2>2. \A d \in Connections : d # c => got'[d] = got[d]
    BY <1>6, Written, ConstantsAssumption DEF Register, SubAck
  <2>3. link[c] # "new" /\ packet[c].kind # "connect"
    BY <1>1, <2>1 DEF FreshAt
  <2>4. QED
    BY <1>1, <2>1, <2>2, <2>3 DEF FreshAt, Fresh, FreshInv
<1>7. CASE Forward(c)
  <2>1. PICK s \in targets[c] : Write(s, packet[c].n)
    BY <1>7 DEF Forward
  <2>2. UNCHANGED <<link, inbox, packet, pc, subs>>
    BY <1>7 DEF Forward, peers
  <2>3. s \in subs /\ s \in Connections /\ packet[c].n \in 0..MaxPublish
    BY DEF TargetsInv, TypeOK, Packets
  <2>4. \A d \in Connections : d # s => got'[d] = got[d]
    BY <2>1, <2>3, Written
  <2>5. \A d \in Connections : d \notin subs => got'[d] = got[d]
    BY <2>3, <2>4
  <2>6. QED
    BY <1>1, <2>2, <2>5 DEF FreshAt, Fresh, FreshInv
<1>8. CASE \/ StartForwarding(c) \/ FinishForwarding(c) \/ Resumes(c) \/ StreamEnds(c)
           \/ ReadFails(c) \/ Closed(c) \/ Cleanup(c)
  <2>1. UNCHANGED <<link, inbox, packet, got>> /\ subs' \subseteq subs
    BY <1>8 DEF StartForwarding, FinishForwarding, Resumes, StreamEnds, ReadFails, Closed, Cleanup, peers
  <2>2. /\ pc[c] # "none"
        /\ \A d \in Connections : d # c => pc'[d] = pc[d]
        /\ pc'[c] \notin {"none", "subscribing"}
    <3>1. \E where \in Places : where \notin {"none", "subscribing"} /\ Goto(c, where)
      BY <1>8, LoopLeads, AcknowledgeLeads
         DEF Places, StartForwarding, FinishForwarding, Resumes, StreamEnds, ReadFails, Closed, Cleanup
    <3>2. pc[c] # "none"
      BY <1>8 DEF StartForwarding, FinishForwarding, Resumes, StreamEnds, ReadFails, Closed, Cleanup
    <3>3. QED
      BY <3>1, <3>2, Moved
  <2>3. QED
    BY <1>1, <2>1, <2>2 DEF FreshAt, Fresh, FreshInv
<1>9. QED
  BY <1>2, <1>3, <1>4, <1>5, <1>6, <1>7, <1>8 DEF HandlerStep

LEMMA FreshKept ==
    ASSUME BrokerInv, Next
    PROVE  FreshInv'
<1>1. CASE Stop
  BY <1>1 DEF Stop, peers, BrokerInv, FreshInv, FreshAt, Fresh
<1>2. CASE \E c \in Publishers : Publishes(c)
  BY <1>2, ConstantsAssumption, FreshKeptByPeers
<1>3. QED
  BY <1>1, <1>2, FreshKeptByPeers, FreshKeptByHandlers DEF Next
-----------------------------------------------------------------------------
(***************************************************************************)
(* SUBACK and the registry.                                                *)
(***************************************************************************)
LEMMA GotIs ==
    ASSUME TypeOK, NEW c \in Connections
    PROVE  got[c] \in Seq(0..MaxPublish)
BY DEF TypeOK

\* A step that writes nothing and leaves the registry alone.
LEMMA AckUntouched ==
    ASSUME BrokerInv, Next, UNCHANGED <<got, subs>>
    PROVE  AckInv'
BY LivesOn DEF BrokerInv, AckInv, Acked

LEMMA AckKept ==
    ASSUME BrokerInv, Next
    PROVE  AckInv'
<1> USE DEF BrokerInv
<1>1. ASSUME NEW c \in Connections, ClientStep(c)
      PROVE  AckInv'
  <2>1. UNCHANGED <<got, subs>>
    BY <1>1 DEF ClientStep, Opens, Subscribes, Leaves, IsReset, SlowsDown, CatchesUp, broker
  <2>2. QED
    BY <2>1, AckUntouched
<1>2. ASSUME (\E c \in Publishers : Publishes(c)) \/ Stop
      PROVE  AckInv'
  <2>1. UNCHANGED <<got, subs>>
    BY <1>2 DEF Publishes, Stop, broker
  <2>2. QED
    BY <2>1, AckUntouched
<1>3. ASSUME NEW c \in Connections, HandlerStep(c)
      PROVE  AckInv'
  <2>1. CASE Register(c)
    <3>1. subs' = subs \union {c} /\ Write(c, 0) /\ 0 \in 0..MaxPublish
      BY <2>1, ConstantsAssumption DEF Register, SubAck
    <3>2. \A d \in Connections :
             got'[d] = IF d = c /\ IsLive(c) THEN Append(got[d], 0) ELSE got[d]
      BY <3>1, Written
    <3>3. IsLive(c)' => Acked(c)'
      <4>1. IsLive(c)' => got'[c] = Append(got[c], 0)
        BY <3>2, LivesOn
      <4>2. 0 \in Range(Append(got[c], 0))
        BY <3>1, GotIs, AckedAppend
      <4>3. QED
        BY <4>1, <4>2 DEF Acked
    <3>4. \A d \in Connections : d # c => Acked(d)' = Acked(d)
      BY <3>2 DEF Acked
    <3>5. QED
      BY <3>1, <3>3, <3>4, LivesOn DEF AckInv
  <2>2. CASE Forward(c)
    <3>1. PICK s \in targets[c] : Write(s, packet[c].n)
      BY <2>2 DEF Forward
    <3>2. s \in subs /\ s \in Connections /\ packet[c].n \in 0..MaxPublish
      BY DEF TargetsInv, TypeOK, Packets
    <3>3. \A d \in Connections :
             got'[d] = IF d = s /\ IsLive(s) THEN Append(got[d], packet[c].n) ELSE got[d]
      BY <3>1, <3>2, Written
    <3>4. \A d \in Connections : Acked(d) => Acked(d)'
      <4>1. \A d \in Connections : Acked(d) => 0 \in Range(Append(got[d], packet[c].n))
        BY <3>2, GotIs, AckedAppend DEF Acked
      <4>2. QED
        BY <3>3, <4>1 DEF Acked
    <3>5. \A d \in Connections : Acked(d)' => Acked(d) \/ d \in subs
      BY <3>2, <3>3 DEF Acked
    <3>6. UNCHANGED <<subs, pc>>
      BY <2>2 DEF Forward
    <3>7. QED
      BY <3>4, <3>5, <3>6, LivesOn DEF AckInv
  <2>3. CASE Cleanup(c)
    <3>1. UNCHANGED got /\ subs' = subs \ {c} /\ pc'[c] = "done"
      BY <2>3, Moved DEF Cleanup
    <3>2. \A d \in Connections : Acked(d)' = Acked(d)
      BY <3>1 DEF Acked
    <3>3. QED
      BY <3>1, <3>2, LivesOn DEF AckInv
  <2>4. CASE UNCHANGED <<got, subs>>
    BY <2>4, AckUntouched
  <2>5. QED
    BY <1>3, <2>1, <2>2, <2>3, <2>4
       DEF HandlerStep, HandleConnect, HandleSubscribe, HandlePublish, HandleDisconnect,
           StartForwarding, FinishForwarding, Resumes, StreamEnds, ReadFails, Closed
<1>4. QED
  BY <1>1, <1>2, <1>3 DEF Next
-----------------------------------------------------------------------------
(***************************************************************************)
(* The order of publications.                                              *)
(***************************************************************************)
\* Packets are taken from the front, lost from the end, or none is a publication.
Behind(c, k) ==
    \A i \in DOMAIN inbox'[c] : PublishAt(c, i)' =>
        i + k \in DOMAIN inbox[c] /\ inbox'[c][i] = inbox[c][i + k]

LEMMA OrderCarried ==
    ASSUME TypeOK, TypeOK', OrderInv, UNCHANGED <<log, publishedBy>>,
           \A d \in Connections : \E k \in {0, 1} : Behind(d, k),
           \A d \in Connections : pc'[d] \in {"publishing", "forwarding"} =>
                                      pc'[d] = pc[d] /\ packet'[d].n = packet[d].n
    PROVE  OrderInv'
<1>1. ASSUME NEW d \in Connections
      PROVE  OrderAt(d)'
  <2>1. PICK k \in {0, 1} : Behind(d, k)
    OBVIOUS
  <2>2. OrderAt(d)
    BY DEF OrderInv
  <2>3. DOMAIN inbox'[d] \subseteq Nat
    BY DEF TypeOK
  <2>4. SentBy(d)' = SentBy(d)
    BY DEF SentBy
  <2>5. ASSUME NEW i \in DOMAIN inbox'[d], PublishAt(d, i)'
        PROVE  /\ inbox'[d][i].n \in SentBy(d)
               /\ \A j \in DOMAIN inbox'[d] :
                     i < j /\ PublishAt(d, j)' => inbox'[d][i].n < inbox'[d][j].n
               /\ \A m \in DOMAIN log : log[m] \in SentBy(d) => log[m] < inbox'[d][i].n
               /\ pc'[d] = "publishing" => packet'[d].n < inbox'[d][i].n
    <3>1. i + k \in DOMAIN inbox[d] /\ inbox'[d][i] = inbox[d][i + k] /\ PublishAt(d, i + k)
      BY <2>1, <2>5 DEF Behind, PublishAt
    <3>2. ASSUME NEW j \in DOMAIN inbox'[d], i < j, PublishAt(d, j)'
          PROVE  inbox'[d][i].n < inbox'[d][j].n
      <4>1. j + k \in DOMAIN inbox[d] /\ inbox'[d][j] = inbox[d][j + k] /\ PublishAt(d, j + k)
        BY <2>1, <3>2 DEF Behind, PublishAt
      <4>2. i + k < j + k
        BY <2>3, <3>2
      <4>3. QED
        BY <2>2, <3>1, <4>1, <4>2 DEF OrderAt
    <3>3. QED
      BY <2>2, <3>1, <3>2 DEF OrderAt
  <2>6. QED
    BY <2>2, <2>4, <2>5 DEF OrderAt
<1>2. \A i \in DOMAIN log' : log'[i] \in DOMAIN publishedBy'
  BY DEF OrderInv
<1>3. PublisherOrder'
  BY DEF OrderInv, PublisherOrder
<1>4. QED
  BY <1>1, <1>2, <1>3 DEF OrderInv

LEMMA BehindItself ==
    ASSUME TypeOK, NEW c \in Connections, inbox'[c] = inbox[c]
    PROVE  Behind(c, 0)
<1>1. DOMAIN inbox[c] \subseteq Nat
  BY DEF TypeOK
<1>2. \A i \in DOMAIN inbox[c] : i + 0 = i
  BY <1>1
<1>3. QED
  BY <1>2 DEF Behind

LEMMA BehindSent ==
    ASSUME TypeOK, NEW c \in Connections, NEW p \in Packets, Send(c, p), p.kind # "publish"
    PROVE  Behind(c, 0)
<1> SUFFICES ASSUME NEW i \in DOMAIN inbox'[c], PublishAt(c, i)'
             PROVE  i + 0 \in DOMAIN inbox[c] /\ inbox'[c][i] = inbox[c][i + 0]
  BY DEF Behind
<1>1. i \in 1..Len(inbox[c]) \/ i = Len(inbox[c]) + 1
  BY Sent
<1>2. i # Len(inbox[c]) + 1
  BY Sent DEF PublishAt
<1>3. i \in DOMAIN inbox[c] /\ inbox'[c][i] = inbox[c][i] /\ i + 0 = i
  BY <1>1, <1>2, Sent
<1>4. QED
  BY <1>3

LEMMA BehindTaken ==
    ASSUME TypeOK, NEW c \in Connections, NEW k, Take(c, k)
    PROVE  Behind(c, 1)
BY Taken DEF Behind

LEMMA BehindLoss ==
    ASSUME TypeOK, NEW c \in Connections, NEW n \in 0..Len(inbox[c]),
           inbox' = [inbox EXCEPT ![c] = SubSeq(@, 1, n)]
    PROVE  Behind(c, 0)
<1>1. inbox'[c] = SubSeq(inbox[c], 1, n) /\ Len(inbox[c]) \in Nat
  BY DEF TypeOK
<1>2. DOMAIN inbox'[c] = 1..n /\ DOMAIN inbox[c] = 1..Len(inbox[c])
  BY <1>1, InboxTruncated DEF TypeOK
<1>3. \A i \in DOMAIN inbox'[c] : i + 0 = i /\ i \in DOMAIN inbox[c] /\ inbox'[c][i] = inbox[c][i]
  BY <1>1, <1>2, InboxTruncated
<1>4. QED
  BY <1>3 DEF Behind

LEMMA OrderKeptByPeers ==
    ASSUME BrokerInv, TypeOK', NEW c \in Connections, ClientStep(c)
    PROVE  OrderInv'
<1> USE DEF BrokerInv
<1>1. UNCHANGED <<log, publishedBy, packet>>
  BY DEF ClientStep, Opens, Subscribes, Leaves, IsReset, SlowsDown, CatchesUp, broker
<1>2. \/ UNCHANGED inbox
      \/ \E k \in {"connect", "subscribe", "disconnect"} : Send(c, Packet(k))
      \/ \E n \in 0..Len(inbox[c]) : inbox' = [inbox EXCEPT ![c] = SubSeq(@, 1, n)]
  BY DEF ClientStep, Opens, Subscribes, Leaves, IsReset, SlowsDown, CatchesUp
<1>3. \A d \in Connections : d # c => inbox'[d] = inbox[d]
  BY <1>2 DEF Send, TypeOK
<1>4. \A k \in {"connect", "subscribe", "disconnect"} :
          Packet(k) \in Packets /\ Packet(k).kind # "publish"
  BY PacketType DEF Packet, Kinds
<1>5. Behind(c, 0)
  BY <1>2, <1>4, BehindItself, BehindSent, BehindLoss
<1>6. \A d \in Connections : \E k \in {0, 1} : Behind(d, k)
  BY <1>3, <1>5, BehindItself
<1>7. \A d \in Connections : pc'[d] \in {"publishing", "forwarding"} => pc'[d] = pc[d]
  BY PeersMove, Moved
<1>8. QED
  BY <1>1, <1>6, <1>7, OrderCarried

LEMMA PublishedNext ==
    ASSUME TypeOK, NEW c \in Publishers, publishedBy' = Append(publishedBy, c)
    PROVE  /\ Len(publishedBy) \in Nat /\ Len(publishedBy') = Len(publishedBy) + 1
           /\ DOMAIN publishedBy = 1..Len(publishedBy)
           /\ DOMAIN publishedBy' = 1..(Len(publishedBy) + 1)
           /\ \A n \in DOMAIN publishedBy : publishedBy'[n] = publishedBy[n]
           /\ publishedBy'[Len(publishedBy) + 1] = c
<1>1. publishedBy \in Seq(Publishers)
  BY DEF TypeOK
<1>2. QED
  BY <1>1

LEMMA OrderKeptByPublishes ==
    ASSUME BrokerInv, NEW c \in Publishers, Publishes(c)
    PROVE  OrderInv'
<1> USE DEF BrokerInv
<1> DEFINE L == Len(publishedBy)
           p == [kind |-> "publish", n |-> L + 1, qos |-> QosOf[c]]
<1>1. /\ publishedBy' = Append(publishedBy, c) /\ L < MaxPublish /\ MaxPublish \in Nat
      /\ UNCHANGED <<pc, packet, log>> /\ c \in Connections
  BY ConstantsAssumption DEF Publishes, broker
<1>2. /\ L \in Nat /\ Len(publishedBy') = L + 1
      /\ DOMAIN publishedBy = 1..L
      /\ DOMAIN publishedBy' = 1..(L + 1)
      /\ \A n \in DOMAIN publishedBy : publishedBy'[n] = publishedBy[n]
      /\ publishedBy'[L + 1] = c
  BY <1>1, PublishedNext
<1>3. p \in Packets /\ Send(c, p)
  <2>1. p \in Packets
    BY <1>1, <1>2, ConstantsAssumption DEF Packets, Kinds
  <2>2. QED
    BY <1>2, <2>1 DEF Publishes
<1> HIDE DEF L
<1>4. \A d \in Connections : \A n \in SentBy(d)' : n \in SentBy(d) \/ (d = c /\ n = L + 1)
  BY <1>2 DEF SentBy
<1>5. \A d \in Connections : \A n \in SentBy(d) : n \in SentBy(d)' /\ n < L + 1
  BY <1>2 DEF SentBy
<1>6. L + 1 \in SentBy(c)'
  BY <1>2 DEF SentBy
<1>7. \A k \in DOMAIN log : log[k] \in DOMAIN publishedBy /\ log[k] < L + 1 /\ log[k] # L + 1
  BY <1>2 DEF OrderInv
<1>8. \A d \in Connections, k \in DOMAIN log : log[k] \in SentBy(d)' => log[k] \in SentBy(d)
  BY <1>4, <1>7
<1>9. ASSUME NEW d \in Connections, d # c
      PROVE  OrderAt(d)'
  <2>1. inbox'[d] = inbox[d]
    BY <1>1, <1>3, <1>9, Sent
  <2>2. OrderAt(d)
    BY DEF OrderInv
  <2>3. QED
    BY <1>1, <1>5, <1>8, <2>1, <2>2 DEF OrderAt, PublishAt
<1>10. OrderAt(c)'
  <2>1. OrderAt(c)
    BY <1>1 DEF OrderInv
  <2> DEFINE m == Len(inbox[c])
  <2>2. /\ m \in Nat /\ DOMAIN inbox[c] = 1..m /\ DOMAIN inbox'[c] = 1..(m + 1)
        /\ \A i \in 1..m : inbox'[c][i] = inbox[c][i]
        /\ inbox'[c][m + 1].n = L + 1
    BY <1>1, <1>3, Sent
  <2> HIDE DEF m
  <2>3. \A i \in DOMAIN inbox'[c] : i = m + 1 \/ (i \in DOMAIN inbox[c] /\ i < m + 1)
    BY <2>2
  <2>4. ASSUME NEW i \in DOMAIN inbox'[c], PublishAt(c, i)'
        PROVE  /\ inbox'[c][i].n \in SentBy(c)'
               /\ \A j \in DOMAIN inbox'[c] :
                     i < j /\ PublishAt(c, j)' => inbox'[c][i].n < inbox'[c][j].n
               /\ \A k \in DOMAIN log : log[k] \in SentBy(c)' => log[k] < inbox'[c][i].n
               /\ pc'[c] = "publishing" => packet'[c].n < inbox'[c][i].n
    <3>1. CASE i = m + 1
      <4>1. \A j \in DOMAIN inbox'[c] : ~(i < j)
        BY <2>2, <3>1
      <4>2. inbox'[c][i].n = L + 1
        BY <2>2, <3>1
      <4>3. pc'[c] = "publishing" => packet'[c].n < L + 1
        BY <1>1, <1>5, <2>1 DEF OrderAt
      <4>4. QED
        BY <1>6, <1>7, <4>1, <4>2, <4>3
    <3>2. CASE i # m + 1
      <4>1. i \in DOMAIN inbox[c] /\ inbox'[c][i] = inbox[c][i] /\ PublishAt(c, i)
        BY <2>2, <2>3, <2>4, <3>2 DEF PublishAt
      <4>2. inbox[c][i].n \in SentBy(c)
        BY <2>1, <4>1 DEF OrderAt
      <4>3. ASSUME NEW j \in DOMAIN inbox'[c], i < j, PublishAt(c, j)'
            PROVE  inbox'[c][i].n < inbox'[c][j].n
        <5>1. CASE j = m + 1
          BY <1>1, <1>5, <2>2, <4>1, <4>2, <5>1
        <5>2. CASE j # m + 1
          <6>1. j \in DOMAIN inbox[c] /\ inbox'[c][j] = inbox[c][j] /\ PublishAt(c, j)
            BY <2>2, <2>3, <4>3, <5>2 DEF PublishAt
          <6>2. QED
            BY <2>1, <4>1, <4>3, <6>1 DEF OrderAt
        <5>3. QED
          BY <5>1, <5>2
      <4>4. QED
        BY <1>1, <1>5, <1>8, <2>1, <4>1, <4>2, <4>3 DEF OrderAt
    <3>3. QED
      BY <3>1, <3>2
  <2>5. QED
    BY <1>1, <1>5, <1>8, <2>1, <2>4 DEF OrderAt
<1>11. PublisherOrder'
  <2>1. \A k \in DOMAIN log : publishedBy'[log[k]] = publishedBy[log[k]]
    BY <1>2, <1>7
  <2>2. QED
    BY <1>1, <2>1 DEF OrderInv, PublisherOrder
<1>12. \A i \in DOMAIN log' : log'[i] \in DOMAIN publishedBy'
  BY <1>1, <1>2, <1>7
<1>13. QED
  BY <1>9, <1>10, <1>11, <1>12 DEF OrderInv

LEMMA OrderKeptByTake ==
    ASSUME BrokerInv, TypeOK', NEW c \in Connections, NEW k \in Kinds, Take(c, k), UNCHANGED log,
           NEW where, where \notin {"publishing", "forwarding"}, Goto(c, where)
    PROVE  OrderInv'
<1> USE DEF BrokerInv
<1>1. \A d \in Connections : \E j \in {0, 1} : Behind(d, j)
  BY Taken, BehindTaken, BehindItself
<1>2. \A d \in Connections : pc'[d] \in {"publishing", "forwarding"} =>
                                pc'[d] = pc[d] /\ packet'[d].n = packet[d].n
  BY Moved, Taken
<1>3. UNCHANGED publishedBy
  BY DEF Take
<1>4. QED
  BY <1>1, <1>2, <1>3, OrderCarried

LEMMA OrderKeptByHandlePublish ==
    ASSUME BrokerInv, NEW c \in Connections, HandlePublish(c)
    PROVE  OrderInv'
<1> USE DEF BrokerInv
<1>1. Take(c, "publish") /\ UNCHANGED <<log, publishedBy>> /\ pc[c] = "reading"
  BY DEF HandlePublish, Take
<1>2. \A d \in Connections : pc'[d] = IF d = c THEN "publishing" ELSE pc[d]
  BY Moved DEF HandlePublish
<1>3. \A d \in Connections : SentBy(d)' = SentBy(d)
  BY <1>1 DEF SentBy
<1>4. ASSUME NEW d \in Connections, d # c
      PROVE  OrderAt(d)'
  <2>1. inbox'[d] = inbox[d] /\ packet'[d] = packet[d] /\ pc'[d] = pc[d]
    BY <1>1, <1>2, <1>4, Taken
  <2>2. OrderAt(d)
    BY DEF OrderInv
  <2>3. QED
    BY <1>1, <1>3, <2>1, <2>2 DEF OrderAt, PublishAt
<1>5. OrderAt(c)'
  <2>1. OrderAt(c)
    BY DEF OrderInv
  <2>2. /\ DOMAIN inbox'[c] \subseteq Nat
        /\ \A i \in DOMAIN inbox'[c] : i + 1 \in DOMAIN inbox[c] /\ i + 1 # 1
                                       /\ inbox'[c][i] = inbox[c][i + 1]
        /\ 1 \in DOMAIN inbox[c] /\ packet'[c] = inbox[c][1] /\ PublishAt(c, 1)
    BY <1>1, Taken DEF PublishAt
  <2>3. /\ packet'[c].n \in SentBy(c)
        /\ \A m \in DOMAIN log : log[m] \in SentBy(c) => log[m] < packet'[c].n
    BY <2>1, <2>2 DEF OrderAt
  <2>4. ASSUME NEW i \in DOMAIN inbox'[c], PublishAt(c, i)'
        PROVE  /\ inbox'[c][i].n \in SentBy(c)
               /\ \A j \in DOMAIN inbox'[c] :
                     i < j /\ PublishAt(c, j)' => inbox'[c][i].n < inbox'[c][j].n
               /\ \A m \in DOMAIN log : log[m] \in SentBy(c) => log[m] < inbox'[c][i].n
               /\ packet'[c].n < inbox'[c][i].n
    <3>1. i + 1 \in DOMAIN inbox[c] /\ PublishAt(c, i + 1) /\ inbox'[c][i] = inbox[c][i + 1]
          /\ 1 < i + 1
      BY <2>2, <2>4 DEF PublishAt
    <3>2. ASSUME NEW j \in DOMAIN inbox'[c], i < j, PublishAt(c, j)'
          PROVE  inbox'[c][i].n < inbox'[c][j].n
      <4>1. j + 1 \in DOMAIN inbox[c] /\ PublishAt(c, j + 1) /\ inbox'[c][j] = inbox[c][j + 1]
            /\ i + 1 < j + 1
        BY <2>2, <3>2 DEF PublishAt
      <4>2. QED
        BY <2>1, <3>1, <4>1 DEF OrderAt
    <3>3. inbox[c][1].n < inbox[c][i + 1].n
      BY <2>1, <2>2, <3>1 DEF OrderAt
    <3>4. QED
      BY <2>1, <2>2, <3>1, <3>2, <3>3 DEF OrderAt
  <2>5. QED
    BY <1>1, <1>2, <1>3, <2>3, <2>4 DEF OrderAt
<1>6. PublisherOrder'
  BY <1>1 DEF OrderInv, PublisherOrder
<1>7. \A i \in DOMAIN log' : log'[i] \in DOMAIN publishedBy'
  BY <1>1 DEF OrderInv
<1>8. QED
  BY <1>4, <1>5, <1>6, <1>7 DEF OrderInv

LEMMA Logged ==
    ASSUME TypeOK, NEW n \in 1..MaxPublish, log' = Append(log, n)
    PROVE  /\ Len(log) \in Nat /\ DOMAIN log = 1..Len(log) /\ DOMAIN log' = 1..(Len(log) + 1)
           /\ \A i \in DOMAIN log : log'[i] = log[i]
           /\ log'[Len(log) + 1] = n
<1>1. log \in Seq(1..MaxPublish)
  BY DEF TypeOK
<1>2. QED
  BY <1>1

LEMMA OrderKeptByStartForwarding ==
    ASSUME BrokerInv, NEW c \in Connections, StartForwarding(c)
    PROVE  OrderInv'
<1> USE DEF BrokerInv
<1> DEFINE n == packet[c].n
           L == Len(log)
<1>1. /\ pc[c] = "publishing" /\ log' = Append(log, n)
      /\ UNCHANGED <<inbox, publishedBy, packet>>
  BY DEF StartForwarding, peers
<1>2. \A d \in Connections : pc'[d] = IF d = c THEN "forwarding" ELSE pc[d]
  BY Moved DEF StartForwarding
<1>3. \A d \in Connections : SentBy(d)' = SentBy(d)
  BY <1>1 DEF SentBy
<1>4. OrderAt(c)
  BY DEF OrderInv
<1>5. n \in SentBy(c) /\ n \in 1..MaxPublish
  BY <1>1, <1>4, SentAreBounded DEF OrderAt
<1>6. /\ L \in Nat /\ DOMAIN log = 1..L /\ DOMAIN log' = 1..(L + 1)
      /\ \A i \in DOMAIN log : log'[i] = log[i]
      /\ log'[L + 1] = n
  BY <1>1, <1>5, Logged
<1>7. \A k \in DOMAIN log : log[k] \in SentBy(c) => log[k] < n
  BY <1>1, <1>4 DEF OrderAt
<1>8. \A i \in DOMAIN inbox[c] : PublishAt(c, i) => n < inbox[c][i].n
  BY <1>1, <1>4 DEF OrderAt
<1> HIDE DEF n, L
<1>9. \A i \in DOMAIN log' : i = L + 1 \/ i \in DOMAIN log
  BY <1>6
<1>10. ASSUME NEW d \in Connections, d # c
       PROVE  OrderAt(d)'
  <2>1. OrderAt(d) /\ n \notin SentBy(d) /\ pc'[d] = pc[d]
    BY <1>2, <1>5, <1>10 DEF OrderInv, SentBy
  <2>2. \A k \in DOMAIN log' : log'[k] \in SentBy(d) => k \in DOMAIN log /\ log'[k] = log[k]
    BY <1>6, <1>9, <2>1
  <2>3. QED
    BY <1>1, <1>3, <2>1, <2>2 DEF OrderAt, PublishAt
<1>11. OrderAt(c)'
  <2>1. \A i \in DOMAIN inbox[c] : PublishAt(c, i) =>
           \A k \in DOMAIN log' : log'[k] \in SentBy(c) => log'[k] < inbox[c][i].n
    BY <1>4, <1>6, <1>8, <1>9 DEF OrderAt
  <2>2. pc'[c] = "forwarding" /\ packet'[c].n \in SentBy(c)
    BY <1>1, <1>2, <1>5 DEF n
  <2>3. QED
    BY <1>1, <1>3, <1>4, <2>1, <2>2 DEF OrderAt, PublishAt
<1>12. PublisherOrder'
  <2> SUFFICES ASSUME NEW i \in DOMAIN log', NEW j \in DOMAIN log', i < j,
                      publishedBy[log'[i]] = publishedBy[log'[j]]
               PROVE  log'[i] < log'[j]
    BY <1>1 DEF PublisherOrder
  <2>1. i \in DOMAIN log /\ log'[i] = log[i]
    BY <1>6
  <2>2. CASE j = L + 1
    <3>1. publishedBy[log[i]] = c /\ log[i] \in DOMAIN publishedBy
      BY <1>5, <1>6, <2>1, <2>2 DEF SentBy, OrderInv
    <3>2. log[i] \in SentBy(c)
      BY <3>1 DEF SentBy
    <3>3. QED
      BY <1>6, <1>7, <2>1, <2>2, <3>2
  <2>3. CASE j \in DOMAIN log
    BY <1>6, <2>1, <2>3 DEF OrderInv, PublisherOrder
  <2>4. QED
    BY <1>9, <2>2, <2>3
<1>13. \A i \in DOMAIN log' : log'[i] \in DOMAIN publishedBy'
  BY <1>1, <1>5, <1>6, <1>9 DEF OrderInv, SentBy
<1>14. QED
  BY <1>10, <1>11, <1>12, <1>13 DEF OrderInv

LEMMA OrderKept ==
    ASSUME BrokerInv, TypeOK', Next
    PROVE  OrderInv'
<1>1. TypeOK /\ OrderInv
  BY DEF BrokerInv
<1>2. ASSUME UNCHANGED <<inbox, log, publishedBy, packet>>,
             \A d \in Connections : pc'[d] \in {"publishing", "forwarding"} => pc'[d] = pc[d]
      PROVE  OrderInv'
  BY <1>1, <1>2, OrderCarried, BehindItself
<1>3. ASSUME NEW c \in Connections, HandlerStep(c)
      PROVE  OrderInv'
  <2>1. CASE HandleConnect(c)
    BY <2>1, OrderKeptByTake DEF HandleConnect, Kinds
  <2>2. CASE HandleSubscribe(c)
    BY <2>2, OrderKeptByTake DEF HandleSubscribe, Kinds
  <2>3. CASE HandleDisconnect(c)
    BY <2>3, OrderKeptByTake DEF HandleDisconnect, Kinds
  <2>4. CASE \/ Register(c) \/ Forward(c) \/ FinishForwarding(c) \/ Resumes(c) \/ StreamEnds(c)
             \/ ReadFails(c) \/ Closed(c) \/ Cleanup(c)
    <3>1. UNCHANGED <<inbox, log, publishedBy, packet>>
      BY <2>4 DEF Register, Forward, FinishForwarding, Resumes, StreamEnds, ReadFails, Closed,
                  Cleanup, peers
    <3>2. \/ UNCHANGED pc
          \/ \E where : where \notin {"publishing", "forwarding"} /\ Goto(c, where)
      BY <2>4, LoopLeads, AcknowledgeLeads
         DEF Register, Forward, FinishForwarding, Resumes, StreamEnds, ReadFails, Closed, Cleanup
    <3>3. QED
      BY <1>1, <1>2, <3>1, <3>2, Moved
  <2>5. QED
    BY <1>3, <2>1, <2>2, <2>3, <2>4, OrderKeptByHandlePublish, OrderKeptByStartForwarding
       DEF HandlerStep
<1>4. CASE Stop
  <2>1. UNCHANGED <<inbox, log, publishedBy, packet, pc>>
    BY <1>4 DEF Stop, peers
  <2>2. QED
    BY <1>2, <2>1
<1>5. QED
  BY <1>3, <1>4, OrderKeptByPeers, OrderKeptByPublishes DEF Next
-----------------------------------------------------------------------------
(***************************************************************************)
(* What subscribers get.                                                   *)
(***************************************************************************)
LEMMA Wider ==
    ASSUME NEW S, NEW T, S \subseteq T, NEW s \in Seq(S)
    PROVE  s \in Seq(T)
<1>1. Len(s) \in Nat /\ s \in [1..Len(s) -> T]
  OBVIOUS
<1>2. QED
  BY <1>1, SeqDef

LEMMA SeqsOfNat ==
    ASSUME TypeOK, NEW c \in Connections
    PROVE  /\ log \in Seq(Nat) /\ got[c] \in Seq(Nat) /\ since[c] \in Nat /\ Len(log) \in Nat
           /\ Received(c) \in Seq(Nat)
<1>1. got[c] \in Seq(0..MaxPublish) /\ log \in Seq(1..MaxPublish) /\ since[c] \in 0..MaxPublish
  BY DEF TypeOK
<1>2. 0..MaxPublish \subseteq Nat /\ 1..MaxPublish \subseteq Nat
  BY ConstantsAssumption
<1>3. log \in Seq(Nat) /\ got[c] \in Seq(Nat) /\ since[c] \in Nat /\ Len(log) \in Nat
  <2>1. log \in Seq(Nat) /\ got[c] \in Seq(Nat)
    BY <1>1, <1>2, Wider
  <2>2. QED
    BY <1>1, <1>2, <2>1
<1>4. QED
  BY <1>3, OnlyType DEF Received

LEMMA DueType ==
    ASSUME TypeOK, NEW c \in Connections, since[c] <= Len(log)
    PROVE  SubSeq(log, since[c] + 1, Len(log)) \in Seq(Nat) /\ DueTo(c) \in Seq(Nat)
<1>1. SubSeq(log, since[c] + 1, Len(log)) \in Seq(Nat)
  BY SeqsOfNat, BehindIs
<1>2. QED
  BY <1>1, OnlyType DEF DueTo

\* A step that writes nothing and after which the same is due.
LEMMA LogUntouched ==
    ASSUME BrokerInv, Next, UNCHANGED <<got, since, log, targets>>,
           \A d \in Connections : Acked(d) => DueTo(d)' = DueTo(d),
           \A f \in Connections : targets[f] # {} => packet'[f].n = packet[f].n
    PROVE  LogInv'
<1> SUFFICES ASSUME NEW d \in Connections, Acked(d)'
             PROVE  LogAt(d)'
  BY DEF LogInv
<1>1. Acked(d) /\ Received(d)' = Received(d)
  BY DEF Acked, Received
<1>2. LogAt(d) /\ DueTo(d)' = DueTo(d)
  BY <1>1 DEF BrokerInv, LogInv
<1>3. Awaits(d) => Awaits(d)'
  BY <1>1, <1>2 DEF Awaits
<1>4. IsLive(d)' => IsLive(d)
  BY LivesOn
<1>5. QED
  BY <1>1, <1>2, <1>3, <1>4 DEF LogAt

LEMMA LogKeptByPublishes ==
    ASSUME BrokerInv, Next, NEW c \in Publishers, Publishes(c)
    PROVE  LogInv'
<1>0. TypeOK /\ OrderInv /\ LogInv
  BY DEF BrokerInv
<1>1. publishedBy' = Append(publishedBy, c) /\ UNCHANGED <<got, since, log, targets, packet>>
  BY DEF Publishes, broker
<1>2. \A n \in DOMAIN publishedBy : n \in DOMAIN publishedBy' /\ publishedBy'[n] = publishedBy[n]
  BY <1>0, <1>1, PublishedNext
<1>3. ASSUME NEW d \in Connections, Acked(d)
      PROVE  DueTo(d)' = DueTo(d)
  <2> DEFINE b == SubSeq(log, since[d] + 1, Len(log))
  <2>1. since[d] <= Len(log)
    BY <1>0, <1>3 DEF LogInv, LogAt
  <2>2. /\ b \in Seq(Nat) /\ Len(b) = Len(log) - since[d]
        /\ \A i \in 1..Len(b) : b[i] = log[since[d] + i]
    <3>1. log \in Seq(Nat) /\ since[d] \in Nat
      BY <1>0, SeqsOfNat
    <3>2. /\ b \in Seq(Nat) /\ Len(b) = Len(log) - since[d]
          /\ \A i \in 1..(Len(log) - since[d]) : b[i] = log[since[d] + i]
      BY <2>1, <3>1, BehindIs
    <3>3. QED
      BY <3>2
  <2>3. \A i \in 1..Len(b) : since[d] + i \in DOMAIN log
    BY <1>0, <2>1, <2>2, SeqsOfNat
  <2>4. \A i \in 1..Len(b) : b[i] \in DOMAIN publishedBy
    BY <1>0, <2>2, <2>3 DEF OrderInv
  <2> HIDE DEF b
  <2>5. \A i \in 1..Len(b) : b[i] \in FromOthers(d)' <=> b[i] \in FromOthers(d)
    BY <1>2, <2>4 DEF FromOthers
  <2>6. Only(b, FromOthers(d)') = Only(b, FromOthers(d))
    BY <2>2, <2>5, OnlySame
  <2>7. QED
    BY <1>1, <2>6 DEF DueTo, b
<1>4. QED
  BY <1>1, <1>3, LogUntouched

LEMMA LogKeptByStartForwarding ==
    ASSUME BrokerInv, Next, NEW c \in Connections, StartForwarding(c)
    PROVE  LogInv'
<1> DEFINE n == packet[c].n
<1>0. TypeOK /\ LockInv /\ TargetsInv /\ AckInv /\ OrderInv /\ LogInv
  BY DEF BrokerInv
<1>1. /\ pc[c] = "publishing" /\ Holds(c) /\ log' = Append(log, n)
      /\ UNCHANGED <<got, since, publishedBy, packet>>
      /\ \A f \in Connections : targets'[f] = IF f = c THEN subs \ {c} ELSE targets[f]
  BY <1>0 DEF StartForwarding, peers, TypeOK
<1>2. n \in SentBy(c) /\ n \in 1..MaxPublish /\ n \in Nat
  <2>1. n \in SentBy(c)
    BY <1>0, <1>1 DEF OrderInv, OrderAt
  <2>2. QED
    BY <1>0, <2>1, SentAreBounded
<1> HIDE DEF n
<1>3. \A f \in Connections : targets[f] = {}
  BY <1>0, <1>1, OneForwards DEF TargetsInv
<1> SUFFICES ASSUME NEW d \in Connections, Acked(d)'
             PROVE  LogAt(d)'
  BY DEF LogInv
<1>4. Acked(d) /\ Received(d)' = Received(d) /\ FromOthers(d)' = FromOthers(d)
  BY <1>1 DEF Acked, Received, FromOthers
<1>5. /\ since[d] <= Len(log) /\ IsPrefix(Received(d), DueTo(d))
      /\ IsLive(d) => Received(d) = DueTo(d)
  BY <1>0, <1>3, <1>4 DEF LogInv, LogAt, Awaits
<1>6. Received(d) \in Seq(Nat) /\ DueTo(d) \in Seq(Nat)
  BY <1>0, <1>5, SeqsOfNat, DueType
<1>7. DueTo(d)' = Picked(DueTo(d), n, FromOthers(d))
  <2>1. SubSeq(Append(log, n), since[d] + 1, Len(Append(log, n)))
           = Append(SubSeq(log, since[d] + 1, Len(log)), n)
    BY <1>0, <1>2, <1>5, SeqsOfNat, BehindAppend
  <2>2. DueTo(d)' = Only(Append(SubSeq(log, since[d] + 1, Len(log)), n), FromOthers(d))
    BY <1>1, <1>4, <2>1 DEF DueTo
  <2>3. SubSeq(log, since[d] + 1, Len(log)) \in Seq(Nat)
    BY <1>0, <1>5, DueType
  <2>4. QED
    BY <1>2, <2>2, <2>3, OnlyAppend DEF DueTo
<1>8. n \in FromOthers(d) <=> d # c
  BY <1>2 DEF FromOthers, SentBy
<1>9. since'[d] <= Len(log')
  BY <1>0, <1>1, <1>2, <1>5, SeqsOfNat
<1>10. IsLive(d)' => IsLive(d)
  BY LivesOn
<1>11. CASE d = c
  <2>1. DueTo(d)' = DueTo(d)
    BY <1>7, <1>8, <1>11 DEF Picked
  <2>2. \A f \in Connections : d \notin targets'[f]
    BY <1>1, <1>3, <1>11
  <2>3. QED
    BY <1>4, <1>5, <1>9, <1>10, <2>1, <2>2 DEF LogAt
<1>12. CASE d # c
  <2>1. DueTo(d)' = Append(DueTo(d), n)
    BY <1>7, <1>8, <1>12 DEF Picked
  <2>2. IsPrefix(Received(d)', DueTo(d)')
    BY <1>2, <1>4, <1>5, <1>6, <2>1, PrefixAppend
  <2>3. IsLive(d) => d \in targets'[c]
    BY <1>0, <1>1, <1>4, <1>12 DEF AckInv, IsLive, Over
  <2>4. IsLive(d) => DueTo(d)' = Append(Received(d)', packet'[c].n)
    BY <1>1, <1>4, <1>5, <2>1 DEF n
  <2>5. QED
    BY <1>9, <1>10, <2>2, <2>3, <2>4 DEF LogAt, Awaits
<1>13. QED
  BY <1>11, <1>12

LEMMA LogKeptByRegister ==
    ASSUME BrokerInv, Next, NEW c \in Connections, Register(c)
    PROVE  LogInv'
<1>0. TypeOK /\ TargetsInv /\ FreshInv /\ LogInv
  BY DEF BrokerInv
<1>1. /\ UNCHANGED <<log, publishedBy, targets, packet>> /\ Write(c, 0) /\ 0 \in 0..MaxPublish
      /\ pc[c] = "subscribing"
      /\ \A d \in Connections : since'[d] = IF d = c THEN Len(log) ELSE since[d]
  BY <1>0, ConstantsAssumption DEF Register, SubAck, peers, TypeOK
<1>2. \A d \in Connections : got'[d] = IF d = c /\ IsLive(c) THEN Append(got[d], 0) ELSE got[d]
  BY <1>0, <1>1, Written
<1>3. got[c] = <<>> /\ c \notin subs
  BY <1>0, <1>1 DEF FreshInv, FreshAt, Fresh
<1> SUFFICES ASSUME NEW d \in Connections, Acked(d)'
             PROVE  LogAt(d)'
  BY DEF LogInv
<1>4. CASE d # c
  <2>1. Acked(d) /\ Received(d)' = Received(d) /\ DueTo(d)' = DueTo(d) /\ since'[d] = since[d]
    BY <1>1, <1>2, <1>4 DEF Acked, Received, DueTo, FromOthers
  <2>2. LogAt(d)
    BY <1>0, <2>1 DEF LogInv
  <2>3. Awaits(d) => Awaits(d)'
    BY <1>1, <2>1 DEF Awaits
  <2>4. IsLive(d)' => IsLive(d)
    BY LivesOn
  <2>5. QED
    BY <1>1, <2>1, <2>2, <2>3, <2>4 DEF LogAt
<1>5. CASE d = c
  <2>1. got'[c] = Append(<<>>, 0)
    <3>1. got'[c] # <<>>
      BY <1>5, NotAckedEmpty DEF Acked
    <3>2. QED
      BY <1>2, <1>3, <3>1
  <2>2. <<>> \in Seq(Nat) /\ 0 \in Nat /\ 0 \notin 1..MaxPublish
    OBVIOUS
  <2>3. Only(Append(<<>>, 0), 1..MaxPublish) = <<>>
    BY <2>2, OnlyAppend, OnlyEmpty DEF Picked
  <2>4. Received(c)' = <<>>
    BY <2>1, <2>3 DEF Received
  <2>5. Len(log) \in Nat
    BY <1>0, SeqsOfNat
  <2>6. SubSeq(log, Len(log) + 1, Len(log)) = <<>>
    <3>1. Len(log) + 1 \in Int /\ Len(log) \in Int /\ Len(log) < Len(log) + 1
      BY <2>5
    <3>2. QED
      BY <3>1, SubSeqEmpty
  <2>7. DueTo(c)' = <<>>
    BY <1>1, <2>6, OnlyEmpty DEF DueTo
  <2>8. IsPrefix(Received(c)', DueTo(c)')
    BY <2>2, <2>4, <2>7, PrefixSelf
  <2>9. \A f \in Connections : c \notin targets'[f]
    BY <1>0, <1>1, <1>3 DEF TargetsInv
  <2>10. since'[c] <= Len(log')
    BY <1>1, <2>5
  <2>11. QED
    BY <1>5, <2>4, <2>7, <2>8, <2>9, <2>10 DEF LogAt
<1>6. QED
  BY <1>4, <1>5

LEMMA LogKeptByForward ==
    ASSUME BrokerInv, Next, NEW c \in Connections, Forward(c)
    PROVE  LogInv'
<1>0. TypeOK /\ LockInv /\ TargetsInv /\ AckInv /\ OrderInv /\ LogInv
  BY DEF BrokerInv
<1>1. PICK s \in targets[c] : Write(s, packet[c].n) /\ targets' = [targets EXCEPT ![c] = @ \ {s}]
  BY DEF Forward
<1>2. UNCHANGED <<link, pc, log, since, publishedBy, packet>> /\ pc[c] = "forwarding"
  BY DEF Forward, peers
<1> DEFINE n == packet[c].n
<1>3. n \in 1..MaxPublish /\ n \in 0..MaxPublish /\ n \in Nat
  <2>1. n \in SentBy(c)
    BY <1>0, <1>2 DEF OrderInv, OrderAt
  <2>2. n \in 1..MaxPublish
    BY <1>0, <2>1, SentAreBounded
  <2>3. QED
    BY <2>2
<1>4. s \in Connections /\ s \in subs
  BY <1>0 DEF TypeOK, TargetsInv
<1>5. \A d \in Connections : got'[d] = IF d = s /\ IsLive(s) THEN Append(got[d], n) ELSE got[d]
  BY <1>0, <1>1, <1>3, <1>4, Written
<1>6. \A f \in Connections : targets'[f] = IF f = c THEN targets[c] \ {s} ELSE targets[f]
  BY <1>0, <1>1 DEF TypeOK
<1>7. \A f \in Connections : f # c => targets[f] = {}
  BY <1>0, <1>2, OneForwards DEF LockInv, TargetsInv
<1> SUFFICES ASSUME NEW d \in Connections, Acked(d)'
             PROVE  LogAt(d)'
  BY DEF LogInv
<1>8. DueTo(d)' = DueTo(d) /\ IsLive(d)' = IsLive(d)
  BY <1>2 DEF DueTo, FromOthers, IsLive
<1>9. CASE ~(d = s /\ IsLive(s))
  <2>1. Acked(d) /\ Received(d)' = Received(d)
    BY <1>5, <1>9 DEF Acked, Received
  <2>2. LogAt(d)
    BY <1>0, <2>1 DEF LogInv
  <2>3. CASE d # s
    <3>1. Awaits(d) => Awaits(d)'
      BY <1>2, <1>6, <1>8, <2>1, <2>3 DEF Awaits
    <3>2. \A f \in Connections : d \in targets'[f] => d \in targets[f]
      BY <1>6
    <3>3. QED
      BY <1>2, <1>8, <2>1, <2>2, <3>1, <3>2 DEF LogAt
  <2>4. CASE ~IsLive(d)
    BY <1>2, <1>8, <2>1, <2>2, <2>4 DEF LogAt
  <2>5. QED
    BY <1>9, <2>3, <2>4
<1>10. CASE d = s /\ IsLive(s)
  <2>1. LogAt(s)
    BY <1>0, <1>4, <1>10 DEF AckInv, LogInv
  <2>2. DueTo(s) = Append(Received(s), n)
    <3>1. PICK f \in Connections : s \in targets[f] /\ DueTo(s) = Append(Received(s), packet[f].n)
      BY <1>10, <2>1 DEF LogAt, Awaits
    <3>2. f = c
      BY <1>7, <3>1
    <3>3. QED
      BY <3>1, <3>2
  <2>3. Received(s)' = Append(Received(s), n)
    <3>1. got[s] \in Seq(Nat) /\ got'[s] = Append(got[s], n)
      BY <1>0, <1>4, <1>5, <1>10, SeqsOfNat
    <3>2. PICK g \in Seq(Nat), m \in Nat : g = got[s] /\ m = n
      BY <1>3, <3>1
    <3>3. Only(Append(g, m), 1..MaxPublish) = Picked(Only(g, 1..MaxPublish), m, 1..MaxPublish)
      BY OnlyAppend
    <3>4. Only(Append(g, m), 1..MaxPublish) = Append(Only(g, 1..MaxPublish), m)
      BY <1>3, <3>2, <3>3 DEF Picked
    <3>5. QED
      BY <3>1, <3>2, <3>4 DEF Received
  <2>4. Received(s)' = DueTo(s)' /\ DueTo(s)' \in Seq(Nat)
    BY <1>0, <1>4, <1>8, <1>10, <2>1, <2>2, <2>3, DueType DEF LogAt
  <2>5. IsPrefix(Received(s)', DueTo(s)')
    BY <2>4, PrefixSelf
  <2>6. \A f \in Connections : s \notin targets'[f]
    BY <1>6, <1>7
  <2>7. QED
    BY <1>2, <1>10, <2>1, <2>4, <2>5, <2>6 DEF LogAt
<1>11. QED
  BY <1>9, <1>10

LEMMA LogKept ==
    ASSUME BrokerInv, Next
    PROVE  LogInv'
<1>0. TypeOK /\ TargetsInv
  BY DEF BrokerInv
<1>1. ASSUME UNCHANGED <<got, since, log, publishedBy, targets>>,
             \A f \in Connections : targets[f] # {} => packet'[f].n = packet[f].n
      PROVE  LogInv'
  <2>1. \A d \in Connections : DueTo(d)' = DueTo(d)
    BY <1>1 DEF DueTo, FromOthers
  <2>2. QED
    BY <1>1, <2>1, LogUntouched
<1>2. ASSUME NEW c \in Connections, HandlerStep(c)
      PROVE  LogInv'
  <2>1. CASE HandleConnect(c) \/ HandleSubscribe(c) \/ HandlePublish(c) \/ HandleDisconnect(c)
    <3>1. /\ UNCHANGED <<got, since, log, publishedBy, targets>> /\ pc[c] = "reading"
          /\ \E k : Take(c, k)
      BY <2>1 DEF HandleConnect, HandleSubscribe, HandlePublish, HandleDisconnect, Take
    <3>2. \A f \in Connections : f # c => packet'[f] = packet[f]
      BY <1>0, <3>1, Taken
    <3>3. targets[c] = {}
      BY <1>0, <3>1 DEF TargetsInv
    <3>4. QED
      BY <1>1, <3>1, <3>2, <3>3
  <2>2. CASE FinishForwarding(c) \/ Resumes(c) \/ StreamEnds(c) \/ ReadFails(c) \/ Closed(c) \/ Cleanup(c)
    <3>1. UNCHANGED <<got, since, log, publishedBy, targets, packet>>
      BY <2>2 DEF FinishForwarding, Resumes, StreamEnds, ReadFails, Closed, Cleanup, peers
    <3>2. QED
      BY <1>1, <3>1
  <2>3. QED
    BY <1>2, <2>1, <2>2, LogKeptByRegister, LogKeptByStartForwarding, LogKeptByForward
       DEF HandlerStep
<1>3. ASSUME NEW c \in Connections, ClientStep(c)
      PROVE  LogInv'
  <2>1. UNCHANGED <<got, since, log, publishedBy, targets, packet>>
    BY <1>3 DEF ClientStep, Opens, Subscribes, Leaves, IsReset, SlowsDown, CatchesUp, broker
  <2>2. QED
    BY <1>1, <2>1
<1>4. CASE Stop
  <2>1. UNCHANGED <<got, since, log, publishedBy, targets, packet>>
    BY <1>4 DEF Stop, peers
  <2>2. QED
    BY <1>1, <2>1
<1>5. QED
  BY <1>2, <1>3, <1>4, LogKeptByPublishes DEF Next
-----------------------------------------------------------------------------
(***************************************************************************)
(* The invariant.                                                          *)
(***************************************************************************)
LEMMA BrokerInvInit == Init => BrokerInv
<1> SUFFICES ASSUME Init PROVE BrokerInv
  OBVIOUS
<1>1. TypeOK
  <2>1. <<>> \in Seq(Packets) /\ <<>> \in Seq(0..MaxPublish) /\ <<>> \in Seq(Publishers)
        /\ <<>> \in Seq(Connections) /\ <<>> \in Seq(1..MaxPublish)
        /\ Len(<<>>) = 0 /\ 0 \in 0..MaxPublish
    BY ConstantsAssumption
  <2>2. IsInjective(<<>>)
    BY DEF IsInjective
  <2>3. Packet("connect") \in Packets
    BY PacketType DEF Kinds
  <2>4. QED
    BY <2>1, <2>2, <2>3, ConstantsAssumption DEF Init, TypeOK
<1>2. LockInv /\ TargetsInv
  <2>1. \A c : ~In(<<>>, c)
    BY DEF In
  <2>2. QED
    BY <2>1 DEF Init, LockInv, TargetsInv, Waiters
<1>3. FreshInv
  BY DEF Init, FreshInv, FreshAt, Fresh, Packet
<1>4. \A c \in Connections : ~Acked(c)
  BY NotAckedEmpty DEF Init, Acked
<1>5. AckInv /\ LogInv
  BY <1>4 DEF Init, AckInv, LogInv
<1>6. OrderInv
  BY DEF Init, OrderInv, OrderAt, PublisherOrder
<1>7. QED
  BY <1>1, <1>2, <1>3, <1>5, <1>6 DEF BrokerInv

LEMMA BrokerInvKept == BrokerInv /\ [Next]_vars => BrokerInv'
<1> SUFFICES ASSUME BrokerInv, [Next]_vars PROVE BrokerInv'
  OBVIOUS
<1>1. CASE Next
  <2>1. LockOK' /\ LockInv'
    BY <1>1, LockKept
  <2>2. TypeOK'
    BY <1>1, <2>1, TypeKept
  <2>3. QED
    BY <1>1, <2>1, <2>2, TargetsKept, FreshKept, AckKept, OrderKept, LogKept DEF BrokerInv
<1>2. CASE UNCHANGED vars
  <2> USE <1>2 DEF vars, peers, BrokerInv
  <2>1. TypeOK'
    BY DEF TypeOK
  <2>2. LockInv' /\ TargetsInv'
    BY DEF LockInv, Holds, TargetsInv
  <2>3. FreshInv'
    BY DEF FreshInv, FreshAt, Fresh
  <2>4. AckInv'
    BY DEF AckInv, Acked, IsLive
  <2>5. OrderInv'
    BY DEF OrderInv, OrderAt, PublisherOrder, PublishAt, SentBy
  <2>6. LogInv'
    BY DEF LogInv, LogAt, Awaits, Received, DueTo, FromOthers, Acked, IsLive
  <2>7. QED
    BY <2>1, <2>2, <2>3, <2>4, <2>5, <2>6
<1>3. QED
  BY <1>1, <1>2

\* From its SUBACK on a subscriber gets every publication of the others, once,
\* in the order in which they are forwarded and each publisher sent its own.
THEOREM SubscribersServed == Spec => []SubscribersSeeTheLog
<1>1. BrokerInv => SubscribersSeeTheLog
  <2> SUFFICES ASSUME BrokerInv, NEW c \in Connections, Acked(c)
               PROVE  /\ IsPrefix(Received(c), DueTo(c))
                      /\ IsLive(c) =>
                            \/ Received(c) = DueTo(c)
                            \/ Forwarding /\ DueTo(c) # <<>> /\ Received(c) = Front(DueTo(c))
    BY DEF SubscribersSeeTheLog, BrokerInv, OrderInv
  <2>1. TypeOK /\ TargetsInv /\ OrderInv /\ LogAt(c)
    BY DEF BrokerInv, LogInv
  <2>2. ASSUME Awaits(c)
        PROVE  Forwarding /\ DueTo(c) # <<>> /\ Received(c) = Front(DueTo(c))
    <3>1. PICK f \in Connections : c \in targets[f] /\ DueTo(c) = Append(Received(c), packet[f].n)
      BY <2>2 DEF Awaits
    <3>2. pc[f] = "forwarding"
      BY <2>1, <3>1 DEF TargetsInv
    <3>3. packet[f].n \in Nat /\ Received(c) \in Seq(Nat)
      <4>1. packet[f].n \in 0..MaxPublish
        BY <2>1 DEF TypeOK, Packets
      <4>2. packet[f].n \in Nat
        BY <4>1, ConstantsAssumption
      <4>3. QED
        BY <2>1, <4>2, SeqsOfNat
    <3>4. QED
      BY <3>1, <3>2, <3>3, FrontAppend DEF Forwarding
  <2>3. QED
    BY <2>1, <2>2 DEF LogAt
<1>2. QED
  BY <1>1, BrokerInvInit, BrokerInvKept, PTL DEF Spec
-----------------------------------------------------------------------------
(***************************************************************************)
(* Texts: what Continued computes.                                         *)
(***************************************************************************)
LEMMA ConcatAppend ==
    ASSUME NEW V, NEW a \in Seq(V), NEW b \in Seq(V), NEW e \in V
    PROVE  /\ a \o Append(b, e) = Append(a \o b, e)
           /\ a \o b \in Seq(V)
<1>1. /\ Len(a) \in Nat /\ Len(b) \in Nat
      /\ Append(b, e) \in Seq(V) /\ Len(Append(b, e)) = Len(b) + 1
      /\ a \o b \in Seq(V) /\ Len(a \o b) = Len(a) + Len(b)
  OBVIOUS
<1>2. /\ a \o Append(b, e) \in Seq(V) /\ Len(a \o Append(b, e)) = Len(a) + Len(b) + 1
      /\ Append(a \o b, e) \in Seq(V) /\ Len(Append(a \o b, e)) = Len(a) + Len(b) + 1
  BY <1>1
<1>3. ASSUME NEW i \in 1..(Len(a) + Len(b) + 1)
      PROVE  (a \o Append(b, e))[i] = Append(a \o b, e)[i]
  <2>1. CASE i <= Len(a)
    BY <1>1, <2>1
  <2>2. CASE i > Len(a) /\ i <= Len(a) + Len(b)
    <3>1. i - Len(a) \in 1..Len(b)
      BY <1>1, <2>2
    <3>2. (a \o Append(b, e))[i] = Append(b, e)[i - Len(a)]
      BY <1>1, <2>2
    <3>3. Append(b, e)[i - Len(a)] = b[i - Len(a)]
      BY <3>1
    <3>4. Append(a \o b, e)[i] = (a \o b)[i]
      BY <1>1, <2>2
    <3>5. (a \o b)[i] = b[i - Len(a)]
      BY <1>1, <2>2
    <3>6. QED
      BY <3>2, <3>3, <3>4, <3>5
  <2>3. CASE i = Len(a) + Len(b) + 1
    <3>1. i - Len(a) = Len(b) + 1
      BY <1>1, <2>3
    <3>2. (a \o Append(b, e))[i] = Append(b, e)[i - Len(a)]
      BY <1>1, <2>3
    <3>3. Append(b, e)[Len(b) + 1] = e
      OBVIOUS
    <3>4. Append(a \o b, e)[i] = e
      BY <1>1, <2>3
    <3>5. QED
      BY <3>1, <3>2, <3>3, <3>4
  <2>4. QED
    BY <1>1, <2>1, <2>2, <2>3
<1>4. QED
  BY <1>1, <1>2, <1>3

LEMMA ConcatEmpty ==
    ASSUME NEW V, NEW a \in Seq(V)
    PROVE  a \o <<>> = a /\ <<>> \o a = a
<1>1. <<>> \in Seq(V)
  OBVIOUS
<1>2. QED
  BY <1>1

LEMMA ConcatAssociates ==
    ASSUME NEW V, NEW a \in Seq(V), NEW b \in Seq(V), NEW c \in Seq(V)
    PROVE  (a \o b) \o c = a \o (b \o c)
<1> DEFINE P == {t \in Seq(V) : (a \o b) \o t = a \o (b \o t)}
<1>1. <<>> \in P
  <2>1. <<>> \in Seq(V) /\ a \o b \in Seq(V)
    OBVIOUS
  <2>2. QED
    BY <2>1, ConcatEmpty
<1>2. ASSUME NEW t \in Seq(V), t \in P, NEW e \in V
      PROVE  Append(t, e) \in P
  <2>1. Append(t, e) \in Seq(V) /\ (a \o b) \o t = a \o (b \o t)
    BY <1>2
  <2>2. a \o b \in Seq(V) /\ b \o t \in Seq(V)
    OBVIOUS
  <2>3. (a \o b) \o Append(t, e) = Append((a \o b) \o t, e)
    <3>1. PICK u \in Seq(V) : u = a \o b
      BY <2>2
    <3>2. u \o Append(t, e) = Append(u \o t, e)
      BY ConcatAppend
    <3>3. QED
      BY <3>1, <3>2
  <2>4. a \o Append(b \o t, e) = Append(a \o (b \o t), e)
    <3>1. PICK u \in Seq(V) : u = b \o t
      BY <2>2
    <3>2. a \o Append(u, e) = Append(a \o u, e)
      BY ConcatAppend
    <3>3. QED
      BY <3>1, <3>2
  <2>5. b \o Append(t, e) = Append(b \o t, e)
    BY ConcatAppend
  <2>6. QED
    BY <2>1, <2>3, <2>4, <2>5
<1>3. \A t \in P : (a \o b) \o t = a \o (b \o t)
  OBVIOUS
<1> HIDE DEF P
<1>4. QED
  BY <1>1, <1>2, <1>3, SeqInduct

LEMMA RangeConcat ==
    ASSUME NEW V, NEW a \in Seq(V), NEW b \in Seq(V)
    PROVE  Range(a \o b) = Range(a) \union Range(b)
<1> DEFINE P == {t \in Seq(V) : Range(a \o t) = Range(a) \union Range(t)}
<1>1. <<>> \in P
  <2>1. <<>> \in Seq(V)
    OBVIOUS
  <2>2. QED
    BY <2>1, ConcatEmpty, RangeEmpty
<1>2. ASSUME NEW t \in Seq(V), t \in P, NEW e \in V
      PROVE  Append(t, e) \in P
  <2>1. Append(t, e) \in Seq(V) /\ Range(a \o t) = Range(a) \union Range(t)
    BY <1>2
  <2>2. a \o t \in Seq(V) /\ a \o Append(t, e) = Append(a \o t, e)
    BY ConcatAppend
  <2>3. Range(Append(a \o t, e)) = Range(a \o t) \union {e}
    <3> DEFINE y == a \o t
    <3>1. y \in Seq(V)
      BY <2>2
    <3> HIDE DEF y
    <3>2. Range(Append(y, e)) = Range(y) \union {e}
      BY <3>1, RangeAppend
    <3>3. QED
      BY <3>2 DEF y
  <2>4. Range(Append(t, e)) = Range(t) \union {e}
    BY RangeAppend
  <2>5. QED
    BY <2>1, <2>2, <2>3, <2>4
<1>3. \A t \in P : Range(a \o t) = Range(a) \union Range(t)
  OBVIOUS
<1> HIDE DEF P
<1>4. QED
  BY <1>1, <1>2, <1>3, SeqInduct

LEMMA EmptyText == <<>> \in Texts
BY DEF Texts

LEMMA TextAppend ==
    ASSUME NEW t \in Texts, NEW e \in Symbols
    PROVE  Append(t, e) \in Texts
BY DEF Texts

LEMMA TextInduct ==
    ASSUME NEW P, <<>> \in P,
           \A t \in Texts : t \in P => \A e \in Symbols : Append(t, e) \in P
    PROVE  \A t \in Texts : t \in P
BY SeqInduct DEF Texts

\* The text of a token is where it occurs.
LEMMA OccursIs ==
    ASSUME NEW t, NEW k
    PROVE  /\ Occurs(Address, t, k) <=>
                k \in 1..(Len(t) - 2) /\ t[k] = "p" /\ t[k + 1] = "q" /\ t[k + 2] = "r"
           /\ Occurs(Url, t, k) <=>
                k \in 1..(Len(t) - 2) /\ t[k] = "u" /\ t[k + 1] = "v" /\ t[k + 2] = "w"
<1>1. ASSUME k \in 1..(Len(t) - 2)
      PROVE  k + 1 - 1 = k /\ k + 2 - 1 = k + 1 /\ k + 3 - 1 = k + 2
  BY <1>1
<1>2. 1..3 = {1, 2, 3}
  OBVIOUS
<1>3. ASSUME NEW token, k \in 1..(Len(t) - 2)
      PROVE  (\A j \in 1..3 : t[k + j - 1] = token[j])
                <=> t[k] = token[1] /\ t[k + 1] = token[2] /\ t[k + 2] = token[3]
  <2> DEFINE S(j) == t[k + j - 1] = token[j]
  <2>1. (\A j \in 1..3 : S(j)) <=> S(1) /\ S(2) /\ S(3)
    <3> HIDE DEF S
    <3>1. QED
      BY <1>2
  <2>2. QED
    BY <1>1, <1>3, <2>1
<1>4. /\ Address[1] = "p" /\ Address[2] = "q" /\ Address[3] = "r"
      /\ Url[1] = "u" /\ Url[2] = "v" /\ Url[3] = "w"
  BY DEF Address, Url
<1>5. QED
  BY <1>3, <1>4 DEF Occurs

LEMMA JoinedType ==
    ASSUME NEW d \in Texts, NEW s \in Symbols, NEW l \in Texts
    PROVE  Joined(d, s, l) \in Texts
<1> DEFINE t == Append(d, s)
<1>1. t \in Texts
  BY TextAppend
<1> HIDE DEF t
<1>2. CASE Occurs(Address, t, Len(t) - 2)
  <2>1. Len(t) \in Nat /\ Len(t) >= 3
    BY <1>1, <1>2 DEF Occurs, Texts
  <2>2. SubSeq(t, 1, Len(t) - 3) \in Texts
    BY <1>1, <2>1 DEF Texts
  <2>3. SubSeq(t, 1, Len(t) - 3) \o l \in Texts
    BY <2>2 DEF Texts
  <2>4. QED
    BY <1>2, <2>3 DEF Joined, t
<1>3. CASE ~Occurs(Address, t, Len(t) - 2)
  BY <1>1, <1>3 DEF Joined, t
<1>4. QED
  BY <1>2, <1>3

\* f tells what each beginning of t adds to d.
Continues(f, d, t, l) ==
    /\ f[0] = d
    /\ \A m \in 1..Len(t) : f[m] = Joined(f[m - 1], t[m], l)

LEMMA ContinuedIs ==
    ASSUME NEW d \in Texts, NEW t \in Texts, NEW l \in Texts
    PROVE  \E f \in [0..Len(t) -> Texts] : Continues(f, d, t, l) /\ Continued(d, t, l) = f[Len(t)]
<1> DEFINE Solves(f) == f = [n \in 0..Len(t) |-> IF n = 0 THEN d ELSE Joined(f[n - 1], t[n], l)]
           h == CHOOSE f : Solves(f)
           g == [r \in Texts |-> [m \in 1..Len(t) |-> Joined(r, t[m], l)]]
           n == Len(t)
<1>0. n \in Nat /\ \A m \in 1..n : t[m] \in Symbols
  BY DEF Texts
<1>1. ASSUME NEW r \in Texts, NEW m \in 1..n
      PROVE  Joined(r, t[m], l) \in Texts
  BY <1>0, JoinedType
<1>2. \A r \in Texts : \A m \in 1..n : g[r][m] = Joined(r, t[m], l)
  OBVIOUS
<1> HIDE DEF g
<1>3. PICK f \in [0..n -> Texts] : f[0] = d /\ \A m \in 1..n : f[m] = g[f[m - 1]][m]
  <2>1. \A x \in Texts : \A m \in 1..n : g[x][m] \in Texts
    BY <1>1, <1>2
  <2> HIDE DEF n, h
  <2>2. Recursive(n, Texts, d, g)
    BY <1>0, <2>1, Recursion
  <2>3. QED
    BY <2>2 DEF Recursive
<1>4. ASSUME NEW m \in 1..n
      PROVE  f[m] = Joined(f[m - 1], t[m], l)
  <2>1. m - 1 \in 0..n
    BY <1>0
  <2>2. f[m - 1] \in Texts
    BY <2>1
  <2>3. QED
    BY <1>2, <1>3, <2>2
<1>5. Solves(f)
  <2>1. ASSUME NEW m \in 0..n
        PROVE  f[m] = IF m = 0 THEN d ELSE Joined(f[m - 1], t[m], l)
    <3>1. CASE m = 0
      BY <1>3, <3>1
    <3>2. CASE m # 0
      <4>1. m \in 1..n
        BY <3>2
      <4>2. QED
        BY <1>4, <3>2, <4>1
    <3>3. QED
      BY <3>1, <3>2
  <2>2. QED
    BY <2>1
<1>6. Solves(h)
  BY <1>5
<1>7. Continued(d, t, l) = h[n]
  BY DEF Continued
<1> HIDE DEF h
<1>8. h[0] = d
  BY <1>0, <1>6
<1>9. \A m \in 1..n : h[m] = Joined(h[m - 1], t[m], l)
  <2> SUFFICES ASSUME NEW m \in 1..n
               PROVE  h[m] = Joined(h[m - 1], t[m], l)
    OBVIOUS
  <2>1. m \in 0..n /\ m # 0
    BY <1>0
  <2>2. QED
    BY <1>6, <2>1
<1>10. h \in [0..n -> Texts]
  <2> DEFINE P == {m \in 0..n : h[m] \in Texts}
  <2>1. 0 \in P
    <3>1. 0 \in 0..n
      BY <1>0
    <3>2. QED
      BY <1>8, <3>1
  <2>2. ASSUME NEW m \in 0..(n - 1), m \in P
        PROVE  m + 1 \in P
    <3>1. m + 1 \in 1..n /\ m + 1 \in 0..n /\ (m + 1) - 1 = m /\ h[m] \in Texts
      BY <1>0, <2>2
    <3>2. h[m + 1] = Joined(h[m], t[m + 1], l)
      BY <1>9, <3>1
    <3>3. QED
      BY <1>1, <3>1, <3>2
  <2>3. P \subseteq 0..n /\ \A m \in P : h[m] \in Texts
    OBVIOUS
  <2> HIDE DEF P, n
  <2>4. \A m \in 0..n : h[m] \in Texts
    BY <1>0, <2>1, <2>2, <2>3, UpTo
  <2>5. QED
    BY <1>6, <2>4 DEF n
<1>11. QED
  BY <1>7, <1>8, <1>9, <1>10 DEF Continues

LEMMA ContinuedType ==
    ASSUME NEW d \in Texts, NEW t \in Texts, NEW l \in Texts
    PROVE  Continued(d, t, l) \in Texts
<1>1. PICK f \in [0..Len(t) -> Texts] : Continues(f, d, t, l) /\ Continued(d, t, l) = f[Len(t)]
  BY ContinuedIs
<1>2. Len(t) \in 0..Len(t)
  BY DEF Texts
<1>3. QED
  BY <1>1, <1>2

\* What is read of a text when the proxy's address has nothing of the printer's.
Localized(d, t) == Continued(d, t, <<"z">>)
Join(d, s) == Joined(d, s, <<"z">>)

LEMMA ProxyAddress == <<"z">> \in Texts /\ "z" \in Symbols
BY DEF Texts, Symbols

LEMMA LocalizedType ==
    ASSUME NEW d \in Texts, NEW t \in Texts
    PROVE  Localized(d, t) \in Texts
<1> DEFINE l == <<"z">>
<1>1. l \in Texts
  BY ProxyAddress
<1> HIDE DEF l
<1>2. Continued(d, t, l) \in Texts
  BY <1>1, ContinuedType
<1>3. QED
  BY <1>2 DEF Localized, l

LEMMA LocalizedEmpty ==
    ASSUME NEW d \in Texts
    PROVE  Localized(d, <<>>) = d
<1> DEFINE s == <<>>
           l == <<"z">>
<1>1. s \in Texts /\ Len(s) = 0 /\ l \in Texts
  BY ProxyAddress DEF Texts
<1> HIDE DEF s, l
<1>2. PICK f \in [0..Len(s) -> Texts] : Continues(f, d, s, l) /\ Continued(d, s, l) = f[Len(s)]
  BY <1>1, ContinuedIs
<1>3. Continued(d, s, l) = d
  BY <1>1, <1>2 DEF Continues
<1>4. QED
  BY <1>3 DEF Localized, s, l

LEMMA LocalizedAppend ==
    ASSUME NEW d \in Texts, NEW s \in Texts, NEW e \in Symbols
    PROVE  Localized(d, Append(s, e)) = Join(Localized(d, s), e)
<1> DEFINE t == Append(s, e)
           l == <<"z">>
<1>1. /\ t \in Texts /\ Len(t) = Len(s) + 1 /\ t[Len(t)] = e
      /\ Len(s) \in Nat /\ \A i \in 1..Len(s) : t[i] = s[i]
  BY DEF Texts
<1>0. l \in Texts
  BY ProxyAddress
<1> HIDE DEF t, l
<1>2. PICK f \in [0..Len(s) -> Texts] : Continues(f, d, s, l) /\ Continued(d, s, l) = f[Len(s)]
  BY <1>0, ContinuedIs
<1>3. PICK g \in [0..Len(t) -> Texts] : Continues(g, d, t, l) /\ Continued(d, t, l) = g[Len(t)]
  BY <1>0, <1>1, ContinuedIs
<1>4. f[Len(s)] = g[Len(s)]
  <2> DEFINE P == {m \in 0..Len(s) : f[m] = g[m]}
  <2>1. 0 \in P
    BY <1>1, <1>2, <1>3 DEF Continues
  <2>2. ASSUME NEW m \in 0..(Len(s) - 1), m \in P
        PROVE  m + 1 \in P
    <3>1. m + 1 \in 1..Len(s) /\ m + 1 \in 1..Len(t) /\ (m + 1) - 1 = m /\ f[m] = g[m]
      BY <1>1, <2>2
    <3>2. f[m + 1] = Joined(f[m], s[m + 1], l) /\ g[m + 1] = Joined(g[m], t[m + 1], l)
      BY <1>2, <1>3, <3>1 DEF Continues
    <3>3. f[m + 1] = g[m + 1]
      BY <1>1, <3>1, <3>2
    <3>4. QED
      BY <3>1, <3>3
  <2>3. \A m \in P : f[m] = g[m]
    OBVIOUS
  <2> HIDE DEF P
  <2>4. Len(s) \in P
    BY <1>1, <2>1, <2>2, UpTo
  <2>5. QED
    BY <2>3, <2>4
<1>5. g[Len(t)] = Joined(g[Len(s)], e, l)
  <2>1. Len(t) \in 1..Len(t) /\ Len(t) - 1 = Len(s)
    BY <1>1
  <2>2. QED
    BY <1>1, <1>3, <2>1 DEF Continues
<1>6. Continued(d, t, l) = Joined(Continued(d, s, l), e, l)
  BY <1>2, <1>3, <1>4, <1>5
<1>7. QED
  BY <1>6 DEF Localized, Join, t, l

LEMMA JoinType ==
    ASSUME NEW d \in Texts, NEW s \in Symbols
    PROVE  Join(d, s) \in Texts
<1> DEFINE l == <<"z">>
<1>1. l \in Texts
  BY ProxyAddress
<1> HIDE DEF l
<1>2. QED
  BY <1>1, JoinedType DEF Join, l

LEMMA LocalizedConcat ==
    ASSUME NEW d \in Texts, NEW a \in Texts, NEW b \in Texts
    PROVE  Localized(d, a \o b) = Localized(Localized(d, a), b)
<1> DEFINE P == {t \in Texts : Localized(d, a \o t) = Localized(Localized(d, a), t)}
<1>0. Localized(d, a) \in Texts
  BY LocalizedType
<1>1. <<>> \in P
  <2>1. a \o <<>> = a
    BY ConcatEmpty DEF Texts
  <2>2. QED
    BY <1>0, <2>1, LocalizedEmpty, EmptyText
<1>2. ASSUME NEW t \in Texts, t \in P, NEW e \in Symbols
      PROVE  Append(t, e) \in P
  <2>1. Append(t, e) \in Texts /\ Localized(d, a \o t) = Localized(Localized(d, a), t)
    BY <1>2, TextAppend
  <2>2. a \o t \in Texts /\ a \o Append(t, e) = Append(a \o t, e)
    BY ConcatAppend DEF Texts
  <2>3. Localized(d, Append(a \o t, e)) = Join(Localized(d, a \o t), e)
    BY <2>2, LocalizedAppend
  <2>4. Localized(Localized(d, a), Append(t, e)) = Join(Localized(Localized(d, a), t), e)
    BY <1>0, LocalizedAppend
  <2>5. QED
    BY <2>1, <2>2, <2>3, <2>4
<1>3. \A t \in P : Localized(d, a \o t) = Localized(Localized(d, a), t)
  OBVIOUS
<1> HIDE DEF P
<1>4. QED
  BY <1>1, <1>2, <1>3, TextInduct

\* The end of an address follows its beginning.
EndsAddress(d, s) ==
    s = "r" /\ Len(d) >= 2 /\ d[Len(d) - 1] = "p" /\ d[Len(d)] = "q"

LEMMA Appends ==
    ASSUME NEW f \in Texts, NEW e \in Symbols
    PROVE  /\ Append(f, e) \in Texts /\ Len(Append(f, e)) = Len(f) + 1 /\ Len(f) \in Nat
           /\ Append(f, e)[Len(f) + 1] = e
           /\ \A k \in 1..Len(f) : Append(f, e)[k] = f[k]
BY DEF Texts

\* Two texts are the same if they agree everywhere.
LEMMA SameText ==
    ASSUME NEW t \in Texts, NEW u \in Texts, Len(t) = Len(u),
           \A k \in 1..Len(t) : t[k] = u[k]
    PROVE  t = u
BY DEF Texts

LEMMA JoinIs ==
    ASSUME NEW d \in Texts, NEW s \in Symbols
    PROVE  IF EndsAddress(d, s)
           THEN \E f \in Texts : d = Append(Append(f, "p"), "q") /\ Join(d, s) = Append(f, "z")
           ELSE Join(d, s) = Append(d, s)
<1> DEFINE t == Append(d, s)
<1>1. /\ t \in Texts /\ Len(t) = Len(d) + 1 /\ Len(d) \in Nat /\ t[Len(d) + 1] = s
      /\ \A k \in 1..Len(d) : t[k] = d[k]
  BY Appends
<1> HIDE DEF t
<1>2. Occurs(Address, t, Len(t) - 2) <=> EndsAddress(d, s)
  <2>1. Len(t) - 2 = Len(d) - 1 /\ (Len(d) - 1) + 1 = Len(d) /\ (Len(d) - 1) + 2 = Len(d) + 1
    BY <1>1
  <2>2. Occurs(Address, t, Len(d) - 1) <=>
          /\ Len(d) - 1 \in 1..(Len(t) - 2)
          /\ t[Len(d) - 1] = "p" /\ t[(Len(d) - 1) + 1] = "q" /\ t[(Len(d) - 1) + 2] = "r"
    <3> DEFINE k == Len(d) - 1
    <3> HIDE DEF k
    <3>1. Occurs(Address, t, k) <=>
            k \in 1..(Len(t) - 2) /\ t[k] = "p" /\ t[k + 1] = "q" /\ t[k + 2] = "r"
      BY OccursIs
    <3>2. QED
      BY <3>1 DEF k
  <2>3. Len(d) - 1 \in 1..(Len(t) - 2) <=> Len(d) >= 2
    BY <1>1
  <2>4. CASE Len(d) >= 2
    <3>1. Len(d) - 1 \in 1..Len(d) /\ Len(d) \in 1..Len(d)
      BY <1>1, <2>4
    <3>2. t[Len(d) - 1] = d[Len(d) - 1] /\ t[Len(d)] = d[Len(d)]
      BY <1>1, <3>1
    <3>3. QED
      BY <1>1, <2>1, <2>2, <2>3, <2>4, <3>2 DEF EndsAddress
  <2>5. CASE ~(Len(d) >= 2)
    BY <2>1, <2>2, <2>3, <2>5 DEF EndsAddress
  <2>6. QED
    BY <2>4, <2>5
<1>3. CASE EndsAddress(d, s)
  <2> DEFINE f == SubSeq(t, 1, Len(t) - 3)
  <2>1. Len(d) >= 2 /\ d[Len(d) - 1] = "p" /\ d[Len(d)] = "q"
    BY <1>3 DEF EndsAddress
  <2>2. f \in Texts /\ Len(f) = Len(d) - 2 /\ \A k \in 1..(Len(d) - 2) : f[k] = d[k]
    <3>1. Len(t) - 3 = Len(d) - 2 /\ Len(d) - 2 \in 0..Len(t)
      BY <1>1, <2>1
    <3>2. f \in Texts /\ Len(f) = Len(d) - 2 /\ \A k \in 1..(Len(d) - 2) : f[k] = t[k]
      BY <1>1, <3>1 DEF Texts
    <3>3. QED
      BY <1>1, <3>2
  <2>3. Join(d, s) = f \o <<"z">>
    BY <1>2, <1>3 DEF Join, Joined, t
  <2> HIDE DEF f
  <2>4. f \o <<"z">> = Append(f, "z")
    BY <2>2, ProxyAddress DEF Texts
  <2>5. "p" \in Symbols /\ "q" \in Symbols
    BY DEF Symbols
  <2> DEFINE g == Append(f, "p")
             h == Append(g, "q")
  <2>6. g \in Texts /\ Len(g) = Len(f) + 1 /\ g[Len(f) + 1] = "p" /\ \A k \in 1..Len(f) : g[k] = f[k]
    BY <2>2, <2>5, Appends
  <2> HIDE DEF g
  <2>7. h \in Texts /\ Len(h) = Len(g) + 1 /\ h[Len(g) + 1] = "q" /\ \A k \in 1..Len(g) : h[k] = g[k]
    BY <2>5, <2>6, Appends
  <2> HIDE DEF h
  <2>8. Len(h) = Len(d)
    BY <1>1, <2>2, <2>6, <2>7
  <2>9. ASSUME NEW k \in 1..Len(d)
        PROVE  d[k] = h[k]
    <3>1. CASE k = Len(d)
      BY <1>1, <2>1, <2>2, <2>6, <2>7, <3>1
    <3>2. CASE k = Len(d) - 1
      <4>1. k \in 1..Len(g) /\ k = Len(f) + 1
        BY <1>1, <2>1, <2>2, <2>6, <3>2
      <4>2. QED
        BY <2>1, <2>6, <2>7, <3>2, <4>1
    <3>3. CASE k < Len(d) - 1
      <4>1. k \in 1..Len(f) /\ k \in 1..Len(g) /\ k \in 1..(Len(d) - 2)
        BY <1>1, <2>1, <2>2, <2>6, <3>3
      <4>2. QED
        BY <2>2, <2>6, <2>7, <4>1
    <3>4. k = Len(d) \/ k = Len(d) - 1 \/ k < Len(d) - 1
      BY <1>1
    <3>5. QED
      BY <3>1, <3>2, <3>3, <3>4
  <2>10. d = h
    BY <2>7, <2>8, <2>9, SameText
  <2>11. QED
    BY <1>3, <2>2, <2>3, <2>4, <2>10 DEF g, h
<1>4. CASE ~EndsAddress(d, s)
  BY <1>2, <1>4 DEF Join, Joined, t
<1>5. QED
  BY <1>3, <1>4

LEMMA JoinAddress ==
    ASSUME NEW f \in Texts
    PROVE  /\ Join(f, "p") = Append(f, "p") /\ Join(f, "z") = Append(f, "z")
           /\ Join(Append(f, "p"), "q") = Append(Append(f, "p"), "q")
           /\ Join(Append(Append(f, "p"), "q"), "r") = Append(f, "z")
<1>1. {"p", "q", "r", "z"} \subseteq Symbols
  BY DEF Symbols
<1>2. ASSUME NEW d \in Texts, NEW s \in {"p", "q", "z"}
      PROVE  Join(d, s) = Append(d, s)
  <2>1. ~EndsAddress(d, s)
    BY DEF EndsAddress
  <2>2. QED
    BY <1>1, <2>1, JoinIs
<1> DEFINE g == Append(f, "p")
           h == Append(g, "q")
<1>3. g \in Texts /\ Len(g) = Len(f) + 1 /\ Len(f) \in Nat /\ g[Len(f) + 1] = "p"
  BY <1>1, Appends
<1>4. SubSeq(g, 1, Len(f)) = f
  BY <1>1 DEF Texts
<1> HIDE DEF g
<1>5. /\ h \in Texts /\ Len(h) = Len(g) + 1 /\ h[Len(g) + 1] = "q"
      /\ \A k \in 1..Len(g) : h[k] = g[k]
  BY <1>1, <1>3, Appends
<1>6. SubSeq(h, 1, Len(g)) = g
  BY <1>1, <1>3 DEF Texts
<1> HIDE DEF h
<1>7. EndsAddress(h, "r")
  <2>1. Len(h) - 1 = Len(g) /\ Len(g) \in 1..Len(g) /\ Len(h) >= 2
    BY <1>3, <1>5
  <2>2. QED
    BY <1>3, <1>5, <2>1 DEF EndsAddress
<1>8. PICK f2 \in Texts : h = Append(Append(f2, "p"), "q") /\ Join(h, "r") = Append(f2, "z")
  BY <1>1, <1>5, <1>7, JoinIs
<1>9. f2 = f
  <2> DEFINE g2 == Append(f2, "p")
  <2>1. g2 \in Texts /\ Len(g2) = Len(f2) + 1 /\ Len(f2) \in Nat
        /\ \A k \in 1..Len(f2) : g2[k] = f2[k]
    BY <1>1, Appends
  <2> HIDE DEF g2
  <2>2. Len(h) = Len(g2) + 1 /\ \A k \in 1..Len(g2) : h[k] = g2[k]
    <3>1. h = Append(g2, "q")
      BY <1>8 DEF g2
    <3>2. QED
      BY <1>1, <2>1, <3>1, Appends
  <2>3. Len(f2) = Len(f) /\ Len(g2) = Len(g)
    BY <1>3, <1>5, <2>1, <2>2
  <2>4. \A k \in 1..Len(f) : g[k] = f[k]
    BY <1>1, Appends DEF g
  <2>5. ASSUME NEW k \in 1..Len(f2)
        PROVE  f2[k] = f[k]
    <3>1. k \in 1..Len(g) /\ k \in 1..Len(g2) /\ k \in 1..Len(f)
      BY <1>3, <2>1, <2>3
    <3>2. QED
      BY <1>5, <2>1, <2>2, <2>4, <3>1
  <2>6. QED
    BY <2>3, <2>5, SameText
<1>10. Join(f, "p") = Append(f, "p") /\ Join(f, "z") = Append(f, "z") /\ Join(g, "q") = h
  BY <1>2, <1>3 DEF h
<1>11. QED
  BY <1>8, <1>9, <1>10 DEF g, h

\* Addresses that have been replaced already make no difference to what follows.
LEMMA LocalizedReplaced ==
    ASSUME NEW d \in Texts, NEW t \in Texts
    PROVE  Localized(d, Localized(<<>>, t)) = Localized(d, t)
<1> DEFINE P == {u \in Texts : Localized(d, Localized(<<>>, u)) = Localized(d, u)}
<1>1. <<>> \in P
  BY EmptyText, LocalizedEmpty
<1>2. ASSUME NEW u \in Texts, u \in P, NEW e \in Symbols
      PROVE  Append(u, e) \in P
  <2> DEFINE D == Localized(<<>>, u)
  <2>1. Append(u, e) \in Texts /\ Localized(d, D) = Localized(d, u)
    BY <1>2, TextAppend
  <2>2. D \in Texts
    BY EmptyText, LocalizedType
  <2>3. Localized(<<>>, Append(u, e)) = Join(D, e)
    BY EmptyText, LocalizedAppend
  <2>4. Localized(d, Append(u, e)) = Join(Localized(d, D), e)
    BY <2>1, LocalizedAppend
  <2> HIDE DEF D
  <2>5. Localized(d, Join(D, e)) = Join(Localized(d, D), e)
    <3>1. CASE EndsAddress(D, e)
      <4>1. PICK f \in Texts : D = Append(Append(f, "p"), "q") /\ Join(D, e) = Append(f, "z")
        BY <2>2, <3>1, JoinIs
      <4>2. {"p", "q", "z"} \subseteq Symbols
        BY DEF Symbols
      <4> DEFINE X == Localized(d, f)
      <4>3. X \in Texts /\ Append(f, "p") \in Texts
        BY <4>2, LocalizedType, TextAppend
      <4>4. Localized(d, Append(f, "z")) = Join(X, "z") /\ Localized(d, Append(f, "p")) = Join(X, "p")
        BY <4>2, LocalizedAppend
      <4>5. Localized(d, Append(Append(f, "p"), "q")) = Join(Localized(d, Append(f, "p")), "q")
        BY <4>2, <4>3, LocalizedAppend
      <4> HIDE DEF X
      <4>6. /\ Join(X, "p") = Append(X, "p") /\ Join(X, "z") = Append(X, "z")
            /\ Join(Append(X, "p"), "q") = Append(Append(X, "p"), "q")
            /\ Join(Append(Append(X, "p"), "q"), "r") = Append(X, "z")
        BY <4>3, JoinAddress
      <4>7. e = "r"
        BY <3>1 DEF EndsAddress
      <4>8. QED
        BY <4>1, <4>4, <4>5, <4>6, <4>7
    <3>2. CASE ~EndsAddress(D, e)
      <4>1. Join(D, e) = Append(D, e)
        BY <2>2, <3>2, JoinIs
      <4>2. QED
        BY <2>2, <4>1, LocalizedAppend
    <3>3. QED
      BY <3>1, <3>2
  <2>6. QED
    BY <2>1, <2>3, <2>4, <2>5
<1>3. \A u \in P : Localized(d, Localized(<<>>, u)) = Localized(d, u)
  OBVIOUS
<1> HIDE DEF P
<1>4. QED
  BY <1>1, <1>2, <1>3, TextInduct

-----------------------------------------------------------------------------
(***************************************************************************)
(* What a text means: no replacement changes it.                           *)
(***************************************************************************)
PlainSymbol(e) == IF e = "i" THEN "w" ELSE e

LEMMA PlainType ==
    ASSUME NEW t \in Texts
    PROVE  /\ Plain(t) \in Texts /\ Len(Plain(t)) = Len(t) /\ Len(t) \in Nat
           /\ \A k \in 1..Len(t) : Plain(t)[k] = PlainSymbol(t[k])
<1>1. Len(t) \in Nat /\ DOMAIN t = 1..Len(t) /\ \A k \in 1..Len(t) : t[k] \in Symbols
  BY DEF Texts
<1>2. Plain(t) = [k \in 1..Len(t) |-> PlainSymbol(t[k])]
  BY <1>1 DEF Plain, PlainSymbol
<1>3. ASSUME NEW k \in 1..Len(t)
      PROVE  PlainSymbol(t[k]) \in Symbols
  BY <1>1 DEF PlainSymbol, Symbols
<1>4. [k \in 1..Len(t) |-> PlainSymbol(t[k])] \in Seq(Symbols)
  BY <1>1, <1>3
<1>5. Len([k \in 1..Len(t) |-> PlainSymbol(t[k])]) = Len(t)
  BY <1>1
<1>6. QED
  BY <1>1, <1>2, <1>4, <1>5 DEF Texts

LEMMA PlainSymbolType ==
    ASSUME NEW e \in Symbols
    PROVE  PlainSymbol(e) \in Symbols
BY DEF PlainSymbol, Symbols

LEMMA PlainEmpty == Plain(<<>>) = <<>>
<1>1. Plain(<<>>) \in Texts /\ Len(Plain(<<>>)) = 0
  <2>1. Len(<<>>) = 0
    OBVIOUS
  <2>2. QED
    BY <2>1, EmptyText, PlainType
<1>2. QED
  BY <1>1 DEF Texts

LEMMA PlainAppend ==
    ASSUME NEW t \in Texts, NEW e \in Symbols
    PROVE  Plain(Append(t, e)) = Append(Plain(t), PlainSymbol(e))
<1> DEFINE s == Append(t, e)
           u == Plain(t)
           v == Append(u, PlainSymbol(e))
<1>1. /\ s \in Texts /\ Len(s) = Len(t) + 1 /\ s[Len(t) + 1] = e /\ Len(t) \in Nat
      /\ \A k \in 1..Len(t) : s[k] = t[k]
  BY Appends
<1>2. u \in Texts /\ Len(u) = Len(t) /\ \A k \in 1..Len(t) : u[k] = PlainSymbol(t[k])
  BY PlainType
<1> HIDE DEF s, u
<1>3. Plain(s) \in Texts /\ Len(Plain(s)) = Len(s)
      /\ \A k \in 1..Len(s) : Plain(s)[k] = PlainSymbol(s[k])
  BY <1>1, PlainType
<1>4. PlainSymbol(e) \in Symbols
  BY PlainSymbolType
<1>5. /\ v \in Texts /\ Len(v) = Len(t) + 1 /\ v[Len(t) + 1] = PlainSymbol(e)
      /\ \A k \in 1..Len(t) : v[k] = u[k]
  BY <1>2, <1>4 DEF Texts
<1> HIDE DEF v
<1>6. ASSUME NEW k \in 1..Len(s)
      PROVE  Plain(s)[k] = v[k]
  <2>1. CASE k = Len(t) + 1
    BY <1>1, <1>3, <1>5, <2>1
  <2>2. CASE k # Len(t) + 1
    <3>1. k \in 1..Len(t)
      BY <1>1, <2>2
    <3>2. QED
      BY <1>1, <1>2, <1>3, <1>5, <3>1
  <2>3. QED
    BY <2>1, <2>2
<1>7. Plain(s) = v
  BY <1>1, <1>3, <1>5, <1>6, SameText
<1>8. QED
  BY <1>7 DEF s, u, v

LEMMA PlainConcat ==
    ASSUME NEW a \in Texts, NEW b \in Texts
    PROVE  Plain(a \o b) = Plain(a) \o Plain(b)
<1> DEFINE P == {t \in Texts : Plain(a \o t) = Plain(a) \o Plain(t)}
<1>0. Plain(a) \in Texts
  BY PlainType
<1>1. <<>> \in P
  <2>1. a \o <<>> = a /\ Plain(a) \o <<>> = Plain(a)
    BY <1>0, ConcatEmpty DEF Texts
  <2>2. QED
    BY <2>1, PlainEmpty, EmptyText
<1>2. ASSUME NEW t \in Texts, t \in P, NEW e \in Symbols
      PROVE  Append(t, e) \in P
  <2>1. Append(t, e) \in Texts /\ Plain(a \o t) = Plain(a) \o Plain(t)
    BY <1>2, TextAppend
  <2>2. a \o t \in Texts /\ a \o Append(t, e) = Append(a \o t, e)
    BY ConcatAppend DEF Texts
  <2>3. Plain(Append(a \o t, e)) = Append(Plain(a \o t), PlainSymbol(e))
    BY <2>2, PlainAppend
  <2>4. Plain(Append(t, e)) = Append(Plain(t), PlainSymbol(e))
    BY PlainAppend
  <2>5. Plain(t) \in Texts /\ PlainSymbol(e) \in Symbols
    BY PlainType, PlainSymbolType
  <2>6. Plain(a) \o Append(Plain(t), PlainSymbol(e))
          = Append(Plain(a) \o Plain(t), PlainSymbol(e))
    <3> DEFINE x == Plain(a)
               y == Plain(t)
               z == PlainSymbol(e)
    <3>1. x \in Seq(Symbols) /\ y \in Seq(Symbols) /\ z \in Symbols
      BY <1>0, <2>5 DEF Texts
    <3> HIDE DEF x, y, z
    <3>2. x \o Append(y, z) = Append(x \o y, z)
      BY <3>1, ConcatAppend
    <3>3. QED
      BY <3>2 DEF x, y, z
  <2>7. QED
    BY <2>1, <2>2, <2>3, <2>4, <2>6
<1>3. \A t \in P : Plain(a \o t) = Plain(a) \o Plain(t)
  OBVIOUS
<1> HIDE DEF P
<1>4. QED
  BY <1>1, <1>2, <1>3, TextInduct

LEMMA JoinPlain ==
    ASSUME NEW d \in Texts, NEW e \in Symbols
    PROVE  Plain(Join(d, e)) = Join(Plain(d), PlainSymbol(e))
<1> DEFINE u == Plain(d)
           m == PlainSymbol(e)
<1>1. /\ u \in Texts /\ Len(u) = Len(d) /\ Len(d) \in Nat
      /\ \A k \in 1..Len(d) : u[k] = PlainSymbol(d[k])
  BY PlainType
<1>2. m \in Symbols
  BY PlainSymbolType
<1>3. EndsAddress(u, m) <=> EndsAddress(d, e)
  <2>1. CASE Len(d) >= 2
    <3>1. Len(d) - 1 \in 1..Len(d) /\ Len(d) \in 1..Len(d)
      BY <1>1, <2>1
    <3>2. u[Len(d) - 1] = PlainSymbol(d[Len(d) - 1]) /\ u[Len(d)] = PlainSymbol(d[Len(d)])
      BY <1>1, <3>1
    <3> HIDE DEF u
    <3>3. QED
      BY <1>1, <3>2 DEF EndsAddress, PlainSymbol
  <2>2. CASE ~(Len(d) >= 2)
    BY <1>1, <2>2 DEF EndsAddress
  <2>3. QED
    BY <2>1, <2>2
<1> HIDE DEF m
<1>4. CASE EndsAddress(d, e)
  <2>1. PICK f \in Texts : d = Append(Append(f, "p"), "q") /\ Join(d, e) = Append(f, "z")
    BY <1>4, JoinIs
  <2>2. {"p", "q", "z"} \subseteq Symbols /\ PlainSymbol("p") = "p" /\ PlainSymbol("q") = "q"
        /\ PlainSymbol("z") = "z" /\ PlainSymbol("r") = "r"
    BY DEF Symbols, PlainSymbol
  <2>3. Append(f, "p") \in Texts /\ Plain(f) \in Texts
    BY <2>2, TextAppend, PlainType
  <2>4. u = Append(Append(Plain(f), "p"), "q")
    <3>1. Plain(Append(f, "p")) = Append(Plain(f), "p")
      BY <2>2, PlainAppend
    <3>2. Plain(Append(Append(f, "p"), "q")) = Append(Plain(Append(f, "p")), "q")
      BY <2>2, <2>3, PlainAppend
    <3>3. QED
      BY <2>1, <3>1, <3>2
  <2>5. Plain(Append(f, "z")) = Append(Plain(f), "z")
    BY <2>2, PlainAppend
  <2>6. m = "r"
    BY <1>3, <1>4 DEF EndsAddress
  <2>7. Join(u, m) = Append(Plain(f), "z")
    BY <2>3, <2>4, <2>6, JoinAddress
  <2>8. QED
    BY <2>1, <2>5, <2>7 DEF m
<1>5. CASE ~EndsAddress(d, e)
  <2>1. Join(d, e) = Append(d, e)
    BY <1>5, JoinIs
  <2>2. Join(u, m) = Append(u, m)
    BY <1>1, <1>2, <1>3, <1>5, JoinIs
  <2>3. QED
    BY <2>1, <2>2, PlainAppend DEF m
<1>6. QED
  BY <1>4, <1>5

LEMMA LocalizedPlain ==
    ASSUME NEW t \in Texts
    PROVE  Plain(Localized(<<>>, t)) = Localized(<<>>, Plain(t))
<1> DEFINE P == {s \in Texts : Plain(Localized(<<>>, s)) = Localized(<<>>, Plain(s))}
<1>1. <<>> \in P
  BY EmptyText, LocalizedEmpty, PlainEmpty
<1>2. ASSUME NEW s \in Texts, s \in P, NEW e \in Symbols
      PROVE  Append(s, e) \in P
  <2>1. Append(s, e) \in Texts /\ Plain(Localized(<<>>, s)) = Localized(<<>>, Plain(s))
    BY <1>2, TextAppend
  <2>2. Localized(<<>>, s) \in Texts /\ Plain(s) \in Texts /\ PlainSymbol(e) \in Symbols
    BY EmptyText, LocalizedType, PlainType, PlainSymbolType
  <2>3. Localized(<<>>, Append(s, e)) = Join(Localized(<<>>, s), e)
    BY EmptyText, LocalizedAppend
  <2>4. Plain(Join(Localized(<<>>, s), e)) = Join(Plain(Localized(<<>>, s)), PlainSymbol(e))
    BY <2>2, JoinPlain
  <2>5. Plain(Append(s, e)) = Append(Plain(s), PlainSymbol(e))
    BY PlainAppend
  <2>6. Localized(<<>>, Append(Plain(s), PlainSymbol(e))) = Join(Localized(<<>>, Plain(s)), PlainSymbol(e))
    BY <2>2, EmptyText, LocalizedAppend
  <2>7. QED
    BY <2>1, <2>3, <2>4, <2>5, <2>6
<1>3. \A s \in P : Plain(Localized(<<>>, s)) = Localized(<<>>, Plain(s))
  OBVIOUS
<1> HIDE DEF P
<1>4. QED
  BY <1>1, <1>2, <1>3, TextInduct

\* ReplaceUrls changes the last symbol of each URL, and nothing else.
LEMMA UrlsType ==
    ASSUME NEW t \in Texts
    PROVE  /\ ReplaceUrls(t) \in Texts /\ Len(ReplaceUrls(t)) = Len(t) /\ Len(t) \in Nat
           /\ \A k \in 1..Len(t) : ReplaceUrls(t)[k] = IF Occurs(Url, t, k - 2) THEN "i" ELSE t[k]
<1>1. Len(t) \in Nat /\ DOMAIN t = 1..Len(t) /\ \A k \in 1..Len(t) : t[k] \in Symbols
  BY DEF Texts
<1> DEFINE g(k) == IF Occurs(Url, t, k - 2) THEN "i" ELSE t[k]
<1>2. ReplaceUrls(t) = [k \in 1..Len(t) |-> g(k)]
  BY <1>1 DEF ReplaceUrls
<1>3. ASSUME NEW k \in 1..Len(t)
      PROVE  g(k) \in Symbols
  BY <1>1 DEF Symbols
<1>4. \A k \in 1..Len(t) : ReplaceUrls(t)[k] = g(k)
  BY <1>2
<1> HIDE DEF g
<1>5. [k \in 1..Len(t) |-> g(k)] \in Seq(Symbols)
  BY <1>1, <1>3
<1>6. Len([k \in 1..Len(t) |-> g(k)]) = Len(t)
  BY <1>1
<1>7. QED
  BY <1>1, <1>2, <1>4, <1>5, <1>6 DEF Texts, g

LEMMA UrlsKeepPlain ==
    ASSUME NEW t \in Texts
    PROVE  Plain(ReplaceUrls(t)) = Plain(t)
<1> DEFINE u == ReplaceUrls(t)
<1>1. /\ u \in Texts /\ Len(u) = Len(t) /\ Len(t) \in Nat
      /\ \A k \in 1..Len(t) : u[k] = IF Occurs(Url, t, k - 2) THEN "i" ELSE t[k]
  BY UrlsType
<1> HIDE DEF u
<1>2. /\ Plain(u) \in Texts /\ Len(Plain(u)) = Len(t)
      /\ \A k \in 1..Len(t) : Plain(u)[k] = PlainSymbol(u[k])
  BY <1>1, PlainType
<1>3. /\ Plain(t) \in Texts /\ Len(Plain(t)) = Len(t)
      /\ \A k \in 1..Len(t) : Plain(t)[k] = PlainSymbol(t[k])
  BY PlainType
<1>4. ASSUME NEW k \in 1..Len(t)
      PROVE  PlainSymbol(u[k]) = PlainSymbol(t[k])
  <2>1. CASE Occurs(Url, t, k - 2)
    <3>1. t[(k - 2) + 2] = "w"
      BY <2>1, OccursIs
    <3>2. (k - 2) + 2 = k
      BY <1>1
    <3>3. u[k] = "i" /\ t[k] = "w"
      BY <1>1, <2>1, <3>1, <3>2
    <3>4. QED
      BY <3>3 DEF PlainSymbol
  <2>2. CASE ~Occurs(Url, t, k - 2)
    BY <1>1, <2>2
  <2>3. QED
    BY <2>1, <2>2
<1>5. \A k \in 1..Len(t) : Plain(u)[k] = Plain(t)[k]
  BY <1>2, <1>3, <1>4
<1>6. Plain(u) = Plain(t)
  BY <1>2, <1>3, <1>5, SameText
<1>7. QED
  BY <1>6 DEF u

LEMMA MeaningIs ==
    ASSUME NEW t \in Texts
    PROVE  Meaning(t) = Plain(Localized(<<>>, t)) /\ Meaning(t) = Localized(<<>>, Plain(t))
BY LocalizedPlain DEF Meaning, ReplaceAddresses, Localized

LEMMA TextConcat ==
    ASSUME NEW a \in Texts, NEW b \in Texts
    PROVE  a \o b \in Texts
BY DEF Texts

LEMMA TextConcatAssociates ==
    ASSUME NEW a \in Texts, NEW b \in Texts, NEW c \in Texts
    PROVE  (a \o b) \o c = a \o (b \o c)
BY ConcatAssociates DEF Texts

\* The text a printer's script becomes, when the proxy's address does not clash.
Replaced(t) == Replace(t, <<"z">>)

LEMMA ReplacedIs ==
    ASSUME NEW t \in Texts
    PROVE  /\ Localized(<<>>, t) \in Texts /\ Replaced(t) \in Texts
           /\ "i" \in Range(Localized(<<>>, t)) => Replaced(t) = Localized(<<>>, t)
           /\ "i" \notin Range(Localized(<<>>, t)) => Replaced(t) = ReplaceUrls(Localized(<<>>, t))
<1>1. Localized(<<>>, t) \in Texts
  BY EmptyText, LocalizedType
<1>2. ReplaceUrls(Localized(<<>>, t)) \in Texts
  BY <1>1, UrlsType
<1>3. QED
  BY <1>1, <1>2 DEF Replaced, Replace, ReplaceAddresses, Localized

\* Replacing in a part does not change what the whole means.
LEMMA ReplaceKeepsMeaning ==
    ASSUME NEW a \in Texts, NEW t \in Texts, NEW b \in Texts
    PROVE  Meaning((a \o Replaced(t)) \o b) = Meaning((a \o t) \o b)
<1> DEFINE Y == Localized(<<>>, t)
           R == Replaced(t)
           A == Localized(<<>>, a)
<1>1. Y \in Texts /\ R \in Texts /\ A \in Texts /\ Localized(A, Y) = Localized(A, t)
  BY ReplacedIs, EmptyText, LocalizedType, LocalizedReplaced
<1>2. Plain(R) = Plain(Y)
  BY <1>1, ReplacedIs, UrlsKeepPlain
<1> HIDE DEF Y, R
<1>3. a \o R \in Texts /\ a \o Y \in Texts /\ a \o t \in Texts
  BY <1>1, TextConcat
<1>4. Meaning((a \o R) \o b) = Meaning((a \o Y) \o b)
  <2>1. (a \o R) \o b \in Texts /\ (a \o Y) \o b \in Texts
    BY <1>3, TextConcat
  <2>2. Plain((a \o R) \o b) = Plain((a \o Y) \o b)
    <3>1. Plain(a \o R) = Plain(a) \o Plain(R) /\ Plain(a \o Y) = Plain(a) \o Plain(Y)
      BY <1>1, PlainConcat
    <3>2. /\ Plain((a \o R) \o b) = Plain(a \o R) \o Plain(b)
          /\ Plain((a \o Y) \o b) = Plain(a \o Y) \o Plain(b)
      BY <1>3, PlainConcat
    <3>3. QED
      BY <1>2, <3>1, <3>2
  <2>3. QED
    BY <2>1, <2>2, MeaningIs
<1>5. Meaning((a \o Y) \o b) = Meaning((a \o t) \o b)
  <2>1. (a \o Y) \o b \in Texts /\ (a \o t) \o b \in Texts
    BY <1>3, TextConcat
  <2>2. Localized(<<>>, a \o Y) = Localized(A, Y) /\ Localized(<<>>, a \o t) = Localized(A, t)
    BY <1>1, EmptyText, LocalizedConcat
  <2>3. /\ Localized(<<>>, (a \o Y) \o b) = Localized(Localized(<<>>, a \o Y), b)
        /\ Localized(<<>>, (a \o t) \o b) = Localized(Localized(<<>>, a \o t), b)
    BY <1>3, EmptyText, LocalizedConcat
  <2>4. QED
    BY <1>1, <2>1, <2>2, <2>3, MeaningIs
<1>6. QED
  BY <1>4, <1>5 DEF Y, R

-----------------------------------------------------------------------------
(***************************************************************************)
(* What is left of addresses and URLs.                                     *)
(***************************************************************************)
Free(token, t) == \A k \in 1..(Len(t) - 2) : ~Occurs(token, t, k)

LEMMA LocalizedIsFree ==
    ASSUME NEW t \in Texts
    PROVE  Free(Address, Localized(<<>>, t))
<1> DEFINE P == {s \in Texts : Free(Address, Localized(<<>>, s))}
<1>1. <<>> \in P
  <2>1. Localized(<<>>, <<>>) = <<>>
    BY EmptyText, LocalizedEmpty
  <2>2. Free(Address, <<>>)
    BY DEF Free
  <2>3. QED
    BY <2>1, <2>2, EmptyText
<1>2. ASSUME NEW s \in Texts, s \in P, NEW e \in Symbols
      PROVE  Append(s, e) \in P
  <2> DEFINE D == Localized(<<>>, s)
  <2>1. Append(s, e) \in Texts /\ D \in Texts /\ Free(Address, D)
    BY <1>2, TextAppend, EmptyText, LocalizedType
  <2>2. Localized(<<>>, Append(s, e)) = Join(D, e)
    BY EmptyText, LocalizedAppend
  <2> HIDE DEF D
  <2>3. CASE EndsAddress(D, e)
    <3>1. PICK f \in Texts : D = Append(Append(f, "p"), "q") /\ Join(D, e) = Append(f, "z")
      BY <2>1, <2>3, JoinIs
    <3>2. {"p", "q", "z"} \subseteq Symbols
      BY DEF Symbols
    <3> DEFINE g == Append(f, "p")
               y == Append(f, "z")
    <3>3. /\ g \in Texts /\ Len(g) = Len(f) + 1 /\ Len(f) \in Nat
          /\ \A k \in 1..Len(f) : g[k] = f[k]
      BY <3>2, Appends
    <3>4. /\ y \in Texts /\ Len(y) = Len(f) + 1 /\ y[Len(f) + 1] = "z"
          /\ \A k \in 1..Len(f) : y[k] = f[k]
      BY <3>2, Appends
    <3>5. Len(D) = Len(g) + 1 /\ \A k \in 1..Len(g) : D[k] = g[k]
      <4> HIDE DEF g
      <4>1. D = Append(g, "q")
        BY <3>1 DEF g
      <4>2. QED
        BY <3>2, <3>3, <4>1, Appends
    <3> HIDE DEF g, y
    <3>6. ASSUME NEW k \in 1..(Len(y) - 2)
          PROVE  ~Occurs(Address, y, k)
      <4>1. CASE k + 2 = Len(f) + 1
        BY <3>4, <4>1, OccursIs
      <4>2. CASE k + 2 <= Len(f)
        <5>1. {k, k + 1, k + 2} \subseteq 1..Len(f) /\ {k, k + 1, k + 2} \subseteq 1..Len(g)
              /\ k \in 1..(Len(D) - 2)
          BY <3>3, <3>5, <4>2
        <5>2. y[k] = D[k] /\ y[k + 1] = D[k + 1] /\ y[k + 2] = D[k + 2]
          BY <3>3, <3>4, <3>5, <5>1
        <5>3. ~Occurs(Address, D, k)
          BY <2>1, <5>1 DEF Free
        <5>4. QED
          BY <5>1, <5>2, <5>3, OccursIs
      <4>3. QED
        BY <3>3, <3>4, <4>1, <4>2
    <3>7. Free(Address, Join(D, e))
      BY <3>1, <3>6 DEF Free, y
    <3>8. QED
      BY <2>1, <2>2, <3>7
  <2>4. CASE ~EndsAddress(D, e)
    <3> DEFINE y == Append(D, e)
    <3>1. /\ y \in Texts /\ Len(y) = Len(D) + 1 /\ y[Len(D) + 1] = e /\ Len(D) \in Nat
          /\ \A k \in 1..Len(D) : y[k] = D[k]
      BY <2>1, Appends
    <3>2. Join(D, e) = y
      BY <2>1, <2>4, JoinIs
    <3> HIDE DEF y
    <3>3. ASSUME NEW k \in 1..(Len(y) - 2)
          PROVE  ~Occurs(Address, y, k)
      <4>1. CASE k + 2 = Len(D) + 1
        <5>1. k = Len(D) - 1 /\ k + 1 = Len(D) /\ Len(D) >= 2
          BY <3>1, <4>1
        <5>2. k \in 1..Len(D) /\ k + 1 \in 1..Len(D)
          BY <3>1, <5>1
        <5>3. y[k] = D[Len(D) - 1] /\ y[k + 1] = D[Len(D)] /\ y[k + 2] = e
          BY <3>1, <4>1, <5>1, <5>2
        <5>4. QED
          BY <2>4, <5>1, <5>3, OccursIs DEF EndsAddress
      <4>2. CASE k + 2 <= Len(D)
        <5>1. {k, k + 1, k + 2} \subseteq 1..Len(D) /\ k \in 1..(Len(D) - 2)
          BY <3>1, <4>2
        <5>2. y[k] = D[k] /\ y[k + 1] = D[k + 1] /\ y[k + 2] = D[k + 2]
          BY <3>1, <5>1
        <5>3. ~Occurs(Address, D, k)
          BY <2>1, <5>1 DEF Free
        <5>4. QED
          BY <5>1, <5>2, <5>3, OccursIs
      <4>3. QED
        BY <3>1, <4>1, <4>2
    <3>4. Free(Address, Join(D, e))
      BY <3>2, <3>3 DEF Free
    <3>5. QED
      BY <2>1, <2>2, <3>4
  <2>5. QED
    BY <2>3, <2>4
<1>3. \A s \in P : Free(Address, Localized(<<>>, s))
  OBVIOUS
<1> HIDE DEF P
<1>4. QED
  BY <1>1, <1>2, <1>3, TextInduct

\* Up to the first address that was replaced, a text is as it was.
AsBefore(y, t) ==
    /\ \A m \in 1..Len(y) : (\A j \in 1..m : y[j] # "z")
                              => m <= Len(t) /\ \A j \in 1..m : t[j] = y[j]
    /\ (\A j \in 1..Len(y) : y[j] # "z") => y = t

LEMMA LocalizedAsBefore ==
    ASSUME NEW t \in Texts
    PROVE  AsBefore(Localized(<<>>, t), t)
<1> DEFINE P == {s \in Texts : AsBefore(Localized(<<>>, s), s)}
<1>1. <<>> \in P
  <2>1. Localized(<<>>, <<>>) = <<>>
    BY EmptyText, LocalizedEmpty
  <2>2. AsBefore(<<>>, <<>>)
    BY DEF AsBefore
  <2>3. QED
    BY <2>1, <2>2, EmptyText
<1>2. ASSUME NEW s \in Texts, s \in P, NEW e \in Symbols
      PROVE  Append(s, e) \in P
  <2> DEFINE D == Localized(<<>>, s)
             t2 == Append(s, e)
  <2>1. t2 \in Texts /\ D \in Texts /\ AsBefore(D, s)
    BY <1>2, TextAppend, EmptyText, LocalizedType
  <2>2. Localized(<<>>, t2) = Join(D, e)
    BY EmptyText, LocalizedAppend
  <2>3. /\ Len(t2) = Len(s) + 1 /\ t2[Len(s) + 1] = e /\ Len(s) \in Nat
        /\ \A k \in 1..Len(s) : t2[k] = s[k]
    BY Appends
  <2> HIDE DEF D
  <2>4. CASE EndsAddress(D, e)
    <3>1. PICK f \in Texts : D = Append(Append(f, "p"), "q") /\ Join(D, e) = Append(f, "z")
      BY <2>1, <2>4, JoinIs
    <3>2. {"p", "q", "z"} \subseteq Symbols
      BY DEF Symbols
    <3> DEFINE g == Append(f, "p")
               y == Append(f, "z")
    <3>3. /\ g \in Texts /\ Len(g) = Len(f) + 1 /\ Len(f) \in Nat
          /\ \A k \in 1..Len(f) : g[k] = f[k]
      BY <3>2, Appends
    <3>4. /\ y \in Texts /\ Len(y) = Len(f) + 1 /\ y[Len(f) + 1] = "z"
          /\ \A k \in 1..Len(f) : y[k] = f[k]
      BY <3>2, Appends
    <3>5. Len(D) = Len(g) + 1 /\ \A k \in 1..Len(g) : D[k] = g[k]
      <4> HIDE DEF g
      <4>1. D = Append(g, "q")
        BY <3>1 DEF g
      <4>2. QED
        BY <3>2, <3>3, <4>1, Appends
    <3> HIDE DEF g, y, t2
    <3>6. ASSUME NEW m \in 1..Len(y), \A j \in 1..m : y[j] # "z"
          PROVE  m <= Len(t2) /\ \A j \in 1..m : t2[j] = y[j]
      <4>1. m # Len(f) + 1
        <5>1. m \in 1..m
          OBVIOUS
        <5>2. y[m] # "z"
          BY <3>6, <5>1
        <5>3. QED
          BY <3>4, <5>2
      <4>2. m \in 1..Len(f) /\ m \in 1..Len(D) /\ m \in 1..Len(g)
        BY <3>3, <3>4, <3>5, <4>1
      <4>3. \A j \in 1..m : y[j] = D[j]
        <5> SUFFICES ASSUME NEW j \in 1..m
                     PROVE  y[j] = D[j]
          OBVIOUS
        <5>1. j \in 1..Len(f) /\ j \in 1..Len(g)
          BY <3>3, <4>2
        <5>2. QED
          BY <3>3, <3>4, <3>5, <5>1
      <4>4. m <= Len(s) /\ \A j \in 1..m : s[j] = D[j]
        BY <2>1, <3>6, <4>2, <4>3 DEF AsBefore
      <4>5. QED
        BY <2>3, <4>3, <4>4
    <3>7. ~(\A j \in 1..Len(y) : y[j] # "z")
      BY <3>3, <3>4
    <3>8. AsBefore(Join(D, e), t2)
      BY <3>1, <3>6, <3>7 DEF AsBefore, y
    <3>9. QED
      BY <2>1, <2>2, <3>8 DEF t2
  <2>5. CASE ~EndsAddress(D, e)
    <3> DEFINE y == Append(D, e)
    <3>1. /\ y \in Texts /\ Len(y) = Len(D) + 1 /\ y[Len(D) + 1] = e /\ Len(D) \in Nat
          /\ \A k \in 1..Len(D) : y[k] = D[k]
      BY <2>1, Appends
    <3>2. Join(D, e) = y
      BY <2>1, <2>5, JoinIs
    <3>3. (\A j \in 1..Len(y) : y[j] # "z") => y = t2
      <4> HIDE DEF y, t2
      <4> SUFFICES ASSUME \A j \in 1..Len(y) : y[j] # "z"
                   PROVE  y = t2
        OBVIOUS
      <4>1. \A j \in 1..Len(D) : D[j] # "z"
        <5> SUFFICES ASSUME NEW j \in 1..Len(D)
                     PROVE  D[j] # "z"
          OBVIOUS
        <5>1. j \in 1..Len(y) /\ y[j] = D[j]
          BY <3>1
        <5>2. QED
          BY <5>1
      <4>2. D = s
        BY <2>1, <4>1 DEF AsBefore
      <4>3. QED
        BY <4>2 DEF y, t2
    <3> HIDE DEF y, t2
    <3>4. ASSUME NEW m \in 1..Len(y), \A j \in 1..m : y[j] # "z"
          PROVE  m <= Len(t2) /\ \A j \in 1..m : t2[j] = y[j]
      <4>1. CASE m = Len(y)
        BY <3>3, <3>4, <4>1
      <4>2. CASE m # Len(y)
        <5>1. m \in 1..Len(D)
          BY <3>1, <4>2
        <5>2. \A j \in 1..m : y[j] = D[j]
          <6> SUFFICES ASSUME NEW j \in 1..m
                       PROVE  y[j] = D[j]
            OBVIOUS
          <6>1. j \in 1..Len(D)
            BY <3>1, <5>1
          <6>2. QED
            BY <3>1, <6>1
        <5>3. m <= Len(s) /\ \A j \in 1..m : s[j] = D[j]
          BY <2>1, <3>4, <5>1, <5>2 DEF AsBefore
        <5>4. QED
          BY <2>3, <5>2, <5>3
      <4>3. QED
        BY <4>1, <4>2
    <3>5. AsBefore(Join(D, e), t2)
      BY <3>2, <3>3, <3>4 DEF AsBefore
    <3>6. QED
      BY <2>1, <2>2, <3>5 DEF t2
  <2>6. QED
    BY <2>4, <2>5
<1>3. \A s \in P : AsBefore(Localized(<<>>, s), s)
  OBVIOUS
<1> HIDE DEF P
<1>4. QED
  BY <1>1, <1>2, <1>3, TextInduct

\* An id that a text has does not go.
LEMMA MarksStay ==
    ASSUME NEW t \in Texts, "i" \in Range(t)
    PROVE  "i" \in Range(Localized(<<>>, t))
<1> DEFINE P == {s \in Texts : "i" \in Range(s) => "i" \in Range(Localized(<<>>, s))}
<1>1. <<>> \in P
  BY EmptyText, RangeEmpty
<1>2. ASSUME NEW s \in Texts, s \in P, NEW e \in Symbols
      PROVE  Append(s, e) \in P
  <2> DEFINE D == Localized(<<>>, s)
  <2>1. Append(s, e) \in Texts /\ D \in Texts
    BY TextAppend, EmptyText, LocalizedType
  <2>2. Localized(<<>>, Append(s, e)) = Join(D, e)
    BY EmptyText, LocalizedAppend
  <2>3. Range(Append(s, e)) = Range(s) \union {e}
    BY RangeAppend DEF Texts
  <2>4. "i" \in Range(s) => "i" \in Range(D)
    BY <1>2
  <2> HIDE DEF D
  <2>5. "i" \in Range(D) \union {e} => "i" \in Range(Join(D, e))
    <3>1. CASE EndsAddress(D, e)
      <4>1. PICK f \in Texts : D = Append(Append(f, "p"), "q") /\ Join(D, e) = Append(f, "z")
        BY <2>1, <3>1, JoinIs
      <4>2. "p" \in Symbols /\ "q" \in Symbols /\ "z" \in Symbols /\ Append(f, "p") \in Texts
        BY TextAppend DEF Symbols
      <4>3. /\ Range(Append(f, "p")) = Range(f) \union {"p"}
            /\ Range(Append(f, "z")) = Range(f) \union {"z"}
        BY <4>2, RangeAppend DEF Texts
      <4>4. Range(D) = Range(Append(f, "p")) \union {"q"}
        <5>1. PICK g \in Texts : g = Append(f, "p")
          BY <4>2
        <5>2. Range(Append(g, "q")) = Range(g) \union {"q"}
          BY <4>2, RangeAppend DEF Texts
        <5>3. QED
          BY <4>1, <5>1, <5>2
      <4>5. e = "r"
        BY <3>1 DEF EndsAddress
      <4>6. QED
        BY <4>1, <4>3, <4>4, <4>5
    <3>2. CASE ~EndsAddress(D, e)
      <4>1. Join(D, e) = Append(D, e)
        BY <2>1, <3>2, JoinIs
      <4>2. Range(Append(D, e)) = Range(D) \union {e}
        BY <2>1, RangeAppend DEF Texts
      <4>3. QED
        BY <4>1, <4>2
    <3>3. QED
      BY <3>1, <3>2
  <2>6. "i" \in Range(Append(s, e)) => "i" \in Range(Localized(<<>>, Append(s, e)))
    BY <2>2, <2>3, <2>4, <2>5
  <2>7. QED
    BY <2>1, <2>6
<1>3. \A s \in P : "i" \in Range(s) => "i" \in Range(Localized(<<>>, s))
  OBVIOUS
<1> HIDE DEF P
<1>4. QED
  BY <1>1, <1>2, <1>3, TextInduct

\* A symbol of a token that is found after the URLs got their ids was there before.
LEMMA UrlsKeepTokens ==
    ASSUME NEW t \in Texts, NEW k \in 1..Len(t), ReplaceUrls(t)[k] # "i"
    PROVE  ReplaceUrls(t)[k] = t[k]
BY UrlsType

\* No address is left; and no URL, unless one has its id.
LEMMA ReplacedIsFree ==
    ASSUME NEW t \in Texts
    PROVE  /\ Free(Address, Replaced(t))
           /\ "i" \in Range(t) => "i" \in Range(Replaced(t))
           /\ "i" \notin Range(Replaced(t)) => Free(Url, Replaced(t))
<1> DEFINE Y == Localized(<<>>, t)
           R == Replaced(t)
           U == ReplaceUrls(Y)
<1>1. /\ Y \in Texts /\ R \in Texts /\ Free(Address, Y)
      /\ "i" \in Range(Y) => R = Y
      /\ "i" \notin Range(Y) => R = U
      /\ "i" \in Range(t) => "i" \in Range(Y)
  BY ReplacedIs, LocalizedIsFree, MarksStay
<1> HIDE DEF Y, R
<1>2. /\ U \in Texts /\ Len(U) = Len(Y) /\ Len(Y) \in Nat
      /\ \A k \in 1..Len(Y) : U[k] = IF Occurs(Url, Y, k - 2) THEN "i" ELSE Y[k]
  BY <1>1, UrlsType
<1> HIDE DEF U
<1>3. CASE "i" \in Range(Y)
  BY <1>1, <1>3 DEF Y, R
<1>4. CASE "i" \notin Range(Y)
  <2>1. Free(Address, U)
    <3> SUFFICES ASSUME NEW k \in 1..(Len(U) - 2), Occurs(Address, U, k)
                 PROVE  FALSE
      BY DEF Free
    <3>1. {k, k + 1, k + 2} \subseteq 1..Len(Y) /\ k \in 1..(Len(Y) - 2)
      BY <1>2
    <3>2. U[k] = "p" /\ U[k + 1] = "q" /\ U[k + 2] = "r"
      BY OccursIs
    <3>3. Y[k] = "p" /\ Y[k + 1] = "q" /\ Y[k + 2] = "r"
      BY <1>2, <3>1, <3>2
    <3>4. Occurs(Address, Y, k)
      BY <3>1, <3>3, OccursIs
    <3>5. QED
      BY <1>1, <3>1, <3>4 DEF Free
  <2>2. Free(Url, U)
    <3> SUFFICES ASSUME NEW k \in 1..(Len(U) - 2), Occurs(Url, U, k)
                 PROVE  FALSE
      BY DEF Free
    <3>1. {k, k + 1, k + 2} \subseteq 1..Len(Y) /\ k \in 1..(Len(Y) - 2) /\ (k + 2) - 2 = k
      BY <1>2
    <3>2. U[k] = "u" /\ U[k + 1] = "v" /\ U[k + 2] = "w"
      BY OccursIs
    <3>3. Y[k] = "u" /\ Y[k + 1] = "v" /\ Y[k + 2] = "w"
      BY <1>2, <3>1, <3>2
    <3>4. Occurs(Url, Y, k)
      BY <3>1, <3>3, OccursIs
    <3>5. U[k + 2] = "i"
      BY <1>2, <3>1, <3>4
    <3>6. QED
      BY <3>2, <3>5
  <2>3. "i" \notin Range(t)
    BY <1>1, <1>4
  <2>4. QED
    BY <1>1, <1>4, <2>1, <2>2, <2>3 DEF Y, R
<1>5. QED
  BY <1>3, <1>4

-----------------------------------------------------------------------------
(***************************************************************************)
(* The rewriting of a script on its way.                                   *)
(***************************************************************************)
LEMMA ConcatIs ==
    ASSUME NEW a \in Texts, NEW b \in Texts
    PROVE  /\ Len(a) \in Nat /\ Len(b) \in Nat /\ Len(a \o b) = Len(a) + Len(b)
           /\ \A k \in 1..Len(a) : (a \o b)[k] = a[k]
           /\ \A k \in 1..Len(b) : (a \o b)[Len(a) + k] = b[k]
<1>1. a \in Seq(Symbols) /\ b \in Seq(Symbols)
  BY DEF Texts
<1>2. Len(a) \in Nat /\ Len(b) \in Nat /\ Len(a \o b) = Len(a) + Len(b)
  BY <1>1
<1>3. \A k \in 1..Len(a) : (a \o b)[k] = a[k]
  BY <1>1
<1>4. ASSUME NEW k \in 1..Len(b)
      PROVE  (a \o b)[Len(a) + k] = b[k]
  <2>1. Len(a) + k \in 1..(Len(a) + Len(b)) /\ Len(a) + k > Len(a)
    BY <1>2
  <2>2. (a \o b)[Len(a) + k] = b[(Len(a) + k) - Len(a)]
    BY <1>1, <1>2, <2>1
  <2>3. (Len(a) + k) - Len(a) = k
    BY <1>2
  <2>4. QED
    BY <2>2, <2>3
<1>5. QED
  BY <1>2, <1>3, <1>4

LEMMA NotEmpty ==
    ASSUME NEW t \in Texts
    PROVE  /\ Len(t) \in Nat
           /\ t # <<>> <=> Len(t) >= 1
BY DEF Texts

LEMMA SplitAt ==
    ASSUME NEW t \in Texts, NEW k \in 0..Len(t)
    PROVE  /\ SubSeq(t, 1, k) \in Texts /\ Len(SubSeq(t, 1, k)) = k
           /\ SubSeq(t, k + 1, Len(t)) \in Texts /\ Len(SubSeq(t, k + 1, Len(t))) = Len(t) - k
           /\ SubSeq(t, 1, k) \o SubSeq(t, k + 1, Len(t)) = t
<1> DEFINE a == SubSeq(t, 1, k)
           b == SubSeq(t, k + 1, Len(t))
<1>0. Len(t) \in Nat /\ k \in Nat /\ k <= Len(t) /\ t \in Seq(Symbols)
  BY DEF Texts
<1>1. a \in Texts /\ Len(a) = k /\ \A i \in 1..k : a[i] = t[i]
  BY <1>0 DEF Texts
<1>2. b \in Texts /\ Len(b) = Len(t) - k /\ \A i \in 1..(Len(t) - k) : b[i] = t[k + i]
  <2>1. k + 1 \in 1..(Len(t) + 1) /\ Len(t) \in k..Len(t)
    BY <1>0
  <2>2. b \in Seq(Symbols)
    BY <1>0, <2>1
  <2>3. Len(b) = Len(t) - k
    <3>1. CASE k = Len(t)
      BY <1>0, <3>1
    <3>2. CASE k < Len(t)
      BY <1>0, <3>2
    <3>3. QED
      BY <1>0, <3>1, <3>2
  <2>4. ASSUME NEW i \in 1..(Len(t) - k)
        PROVE  b[i] = t[k + i]
    <3>1. b[i] = t[(k + 1) + i - 1] /\ (k + 1) + i - 1 = k + i
      BY <1>0
    <3>2. QED
      BY <3>1
  <2>5. QED
    BY <2>2, <2>3, <2>4 DEF Texts
<1> HIDE DEF a, b
<1>3. a \o b = t
  <2>1. a \o b \in Texts /\ Len(a \o b) = Len(t)
    <3>1. Len(a \o b) = k + (Len(t) - k)
      BY <1>1, <1>2, ConcatIs
    <3>2. QED
      BY <1>0, <1>1, <1>2, <3>1, TextConcat
  <2>2. ASSUME NEW i \in 1..Len(t)
        PROVE  (a \o b)[i] = t[i]
    <3>1. CASE i <= k
      <4>1. i \in 1..k
        BY <1>0, <3>1
      <4>2. QED
        BY <1>1, <1>2, <4>1, ConcatIs
    <3>2. CASE i > k
      <4> DEFINE m == i - k
      <4>1. m \in 1..(Len(t) - k) /\ i = k + m
        BY <1>0, <3>2
      <4> HIDE DEF m
      <4>2. (a \o b)[k + m] = b[m]
        BY <1>1, <1>2, <4>1, ConcatIs
      <4>3. QED
        BY <1>2, <4>1, <4>2
    <3>3. i <= k \/ i > k
      BY <1>0
    <3>4. QED
      BY <3>1, <3>2, <3>3
  <2>3. QED
    BY <2>1, <2>2, SameText
<1>4. QED
  BY <1>1, <1>2, <1>3 DEF a, b

LEMMA HalfIs ==
    ASSUME NEW n \in Nat, n >= 1
    PROVE  n \div 2 \in 0..n /\ n \div 2 < n
OBVIOUS

\* What is kept back of a rewritten chunk: half of it at least.
LEMMA Halved ==
    ASSUME NEW R \in Texts, R # <<>>
    PROVE  LET half == Len(R) \div 2
               u == SubSeq(R, 1, half)
               v == SubSeq(R, half + 1, Len(R))
           IN  u \in Texts /\ v \in Texts /\ v # <<>> /\ u \o v = R
<1> DEFINE half == Len(R) \div 2
           u == SubSeq(R, 1, half)
           v == SubSeq(R, half + 1, Len(R))
<1>1. Len(R) \in Nat /\ Len(R) >= 1
  BY NotEmpty
<1>2. half \in 0..Len(R) /\ half < Len(R)
  BY <1>1, HalfIs
<1> HIDE DEF half
<1>3. u \in Texts /\ v \in Texts /\ Len(v) = Len(R) - half /\ u \o v = R
  BY <1>2, SplitAt
<1>4. Len(v) >= 1
  BY <1>1, <1>2, <1>3
<1> HIDE DEF u, v
<1>5. v # <<>>
  BY <1>3, <1>4, NotEmpty
<1>6. QED
  BY <1>3, <1>5 DEF u, v, half


LEMMA Letters ==
    ASSUME NEW token \in {Address, Url}, NEW t, NEW k
    PROVE  Occurs(token, t, k) <=>
              /\ k \in 1..(Len(t) - 2)
              /\ t[k] = token[1] /\ t[k + 1] = token[2] /\ t[k + 2] = token[3]
              /\ t[k] \notin {"i", "z"} /\ t[k + 1] \notin {"i", "z"} /\ t[k + 2] \notin {"i", "z"}
BY OccursIs DEF Address, Url

\* What replacing left of the beginning of a text, was its beginning.
LEMMA HeadKept ==
    ASSUME NEW t \in Texts, NEW m \in 1..Len(Replaced(t)),
           \A j \in 1..m : Replaced(t)[j] \notin {"i", "z"}
    PROVE  m <= Len(t) /\ \A j \in 1..m : t[j] = Replaced(t)[j]
<1> DEFINE Y == Localized(<<>>, t)
           R == Replaced(t)
           U == ReplaceUrls(Y)
<1>1. /\ Y \in Texts /\ R \in Texts /\ AsBefore(Y, t)
      /\ "i" \in Range(Y) => R = Y
      /\ "i" \notin Range(Y) => R = U
  BY ReplacedIs, LocalizedAsBefore
<1>2. m \in 1..Len(R) /\ \A j \in 1..m : R[j] \notin {"i", "z"}
  OBVIOUS
<1> HIDE DEF Y, R
<1>3. /\ U \in Texts /\ Len(U) = Len(Y) /\ Len(Y) \in Nat
      /\ \A k \in 1..Len(Y) : U[k] = IF Occurs(Url, Y, k - 2) THEN "i" ELSE Y[k]
  BY <1>1, UrlsType
<1> HIDE DEF U
<1>4. m \in 1..Len(Y) /\ \A j \in 1..m : Y[j] = R[j]
  <2>1. CASE R = Y
    BY <1>2, <2>1
  <2>2. CASE R = U
    <3>1. m \in 1..Len(Y)
      BY <1>2, <1>3, <2>2
    <3>2. ASSUME NEW j \in 1..m
          PROVE  Y[j] = R[j]
      <4>1. j \in 1..Len(Y)
        BY <1>3, <3>1
      <4>2. R[j] # "i"
        BY <1>2
      <4>3. QED
        BY <1>3, <2>2, <4>1, <4>2
    <3>3. QED
      BY <3>1, <3>2
  <2>3. QED
    BY <1>1, <2>1, <2>2
<1>5. \A j \in 1..m : Y[j] # "z"
  BY <1>2, <1>4
<1>6. m <= Len(t) /\ \A j \in 1..m : t[j] = Y[j]
  BY <1>1, <1>4, <1>5 DEF AsBefore
<1>7. QED
  BY <1>4, <1>6 DEF R

\* Three symbols that begin in a text of n end in it or go one or two beyond it.
LEMMA NearTheEnd ==
    ASSUME NEW n \in Nat, NEW k \in 1..n
    PROVE  k + 2 <= n \/ k + 2 = n + 1 \/ k + 2 = n + 2
OBVIOUS

\* A token that begins in what was written and is there after replacing what was
\* kept back, was there before, or its end was still to come.
LEMMA Crosses ==
    ASSUME NEW w \in Texts, NEW t \in Texts, NEW x \in Texts, NEW token \in {Address, Url},
           NEW k \in 1..Len(w), Occurs(token, w \o Replaced(t), k)
    PROVE  Occurs(token, (w \o t) \o x, k)
<1> DEFINE R == Replaced(t)
           W == w \o R
           T == w \o t
           V == T \o x
           n == Len(w)
<1>0. R \in Texts
  BY ReplacedIs
<1>1. /\ n \in Nat /\ Len(R) \in Nat /\ Len(W) = n + Len(R)
      /\ \A i \in 1..n : W[i] = w[i]
      /\ \A i \in 1..Len(R) : W[n + i] = R[i]
  BY <1>0, ConcatIs
<1>2. /\ Len(t) \in Nat /\ Len(T) = n + Len(t) /\ T \in Texts
      /\ \A i \in 1..n : T[i] = w[i]
      /\ \A i \in 1..Len(t) : T[n + i] = t[i]
  BY ConcatIs, TextConcat
<1>3. Occurs(token, W, k)
  OBVIOUS
<1>h. ASSUME NEW m \in 1..Len(R), \A j \in 1..m : R[j] \notin {"i", "z"}
      PROVE  m <= Len(t) /\ \A j \in 1..m : t[j] = R[j]
  BY <1>h, HeadKept
<1> HIDE DEF R, W, T
<1>4. Len(x) \in Nat /\ Len(V) = Len(T) + Len(x) /\ \A i \in 1..Len(T) : V[i] = T[i]
  BY <1>2, ConcatIs
<1> HIDE DEF V
<1>5. /\ k \in 1..(Len(W) - 2)
      /\ W[k] = token[1] /\ W[k + 1] = token[2] /\ W[k + 2] = token[3]
      /\ W[k] \notin {"i", "z"} /\ W[k + 1] \notin {"i", "z"} /\ W[k + 2] \notin {"i", "z"}
  BY <1>3, Letters
<1>6. k \in 1..n
  OBVIOUS
<1> HIDE DEF n
<1>lengths. /\ n \in Nat /\ Len(R) \in Nat /\ Len(t) \in Nat /\ Len(x) \in Nat
            /\ Len(W) = n + Len(R) /\ Len(T) = n + Len(t) /\ Len(V) = n + Len(t) + Len(x)
  BY <1>1, <1>2, <1>4
<1>place. k \in 1..(Len(W) - 2)
  BY <1>5
<1>7. CASE k + 2 <= n
  <2>1. {k, k + 1, k + 2} \subseteq 1..n /\ {k, k + 1, k + 2} \subseteq 1..Len(T)
        /\ k \in 1..(Len(V) - 2)
    BY <1>lengths, <1>6, <1>7
  <2>2. V[k] = W[k] /\ V[k + 1] = W[k + 1] /\ V[k + 2] = W[k + 2]
    BY <1>1, <1>2, <1>4, <2>1
  <2>3. Occurs(token, V, k)
    BY <1>5, <2>1, <2>2, Letters
  <2>4. QED
    BY <2>3 DEF V, T
<1>8. CASE k + 2 = n + 1
  <2>1. 1 \in 1..Len(R) /\ k \in 1..n /\ k + 1 \in 1..n
    BY <1>lengths, <1>place, <1>6, <1>8
  <2>2. W[k + 2] = R[1]
    BY <1>1, <1>8, <2>1
  <2>3. \A j \in 1..1 : R[j] \notin {"i", "z"}
    BY <1>5, <2>2
  <2>4. 1 <= Len(t) /\ t[1] = R[1]
    BY <1>h, <2>1, <2>3
  <2>5. {k, k + 1, k + 2} \subseteq 1..Len(T) /\ k \in 1..(Len(V) - 2) /\ 1 \in 1..Len(t)
    BY <1>lengths, <1>6, <1>8, <2>4
  <2>6. V[k] = W[k] /\ V[k + 1] = W[k + 1]
    BY <1>1, <1>2, <1>4, <2>1, <2>5
  <2>7. V[k + 2] = W[k + 2]
    BY <1>2, <1>4, <1>8, <2>2, <2>4, <2>5
  <2>8. Occurs(token, V, k)
    BY <1>5, <2>5, <2>6, <2>7, Letters
  <2>9. QED
    BY <2>8 DEF V, T
<1>9. CASE k + 2 = n + 2
  <2>1. 1 \in 1..Len(R) /\ 2 \in 1..Len(R) /\ k \in 1..n /\ k = n
    BY <1>lengths, <1>place, <1>6, <1>9
  <2>2. W[k + 1] = R[1] /\ W[k + 2] = R[2]
    BY <1>1, <2>1
  <2>3. \A j \in 1..2 : R[j] \notin {"i", "z"}
    BY <1>5, <2>2
  <2>4. 2 <= Len(t) /\ t[1] = R[1] /\ t[2] = R[2]
    BY <1>h, <2>1, <2>3
  <2>5. {k, k + 1, k + 2} \subseteq 1..Len(T) /\ k \in 1..(Len(V) - 2)
        /\ 1 \in 1..Len(t) /\ 2 \in 1..Len(t)
    BY <1>lengths, <1>6, <2>1, <2>4
  <2>6. V[k] = W[k]
    BY <1>1, <1>2, <1>4, <2>1, <2>5
  <2>7. V[k + 1] = W[k + 1] /\ V[k + 2] = W[k + 2]
    BY <1>2, <1>4, <2>1, <2>2, <2>4, <2>5
  <2>8. Occurs(token, V, k)
    BY <1>5, <2>5, <2>6, <2>7, Letters
  <2>9. QED
    BY <2>8 DEF V, T
<1>10. k + 2 <= n \/ k + 2 = n + 1 \/ k + 2 = n + 2
  <2>1. n \in Nat
    BY <1>1
  <2>2. QED
    BY <1>6, <2>1, NearTheEnd
<1>11. QED
  BY <1>7, <1>8, <1>9, <1>10

\* No address is left, and no URL unless another one has its id.
Clean(t) == Free(Address, t) /\ (Free(Url, t) \/ "i" \in Range(t))

Uncut(w, p, x) == ~Cuts(Address, w, p, x) /\ ~Cuts(Url, w, p, x)

LEMMA ReplacedIsClean ==
    ASSUME NEW w \in Texts, NEW p \in Texts, NEW c \in Texts, NEW x \in Texts,
           w = <<>> \/ (Clean(w \o p) /\ Uncut(w, p, c \o x))
    PROVE  Clean(w \o Replaced(p \o c))
<1> DEFINE t == p \o c
           R == Replaced(t)
           q == w \o p
           y == c \o x
           W == w \o R
           n == Len(w)
<1>1. t \in Texts /\ y \in Texts /\ q \in Texts
  BY TextConcat
<1>2. (w \o t) \o x = q \o y
  <2>1. w \o t = q \o c
    BY TextConcatAssociates
  <2>2. PICK v \in Texts : v = q
    BY <1>1
  <2>3. (v \o c) \o x = v \o (c \o x)
    BY TextConcatAssociates
  <2>4. QED
    BY <2>1, <2>2, <2>3
<1>3. Range(t) = Range(p) \union Range(c) /\ Range(q) = Range(w) \union Range(p)
  BY RangeConcat DEF Texts
<1>4. /\ n \in Nat /\ Len(p) \in Nat /\ Len(q) = n + Len(p)
      /\ Len(y) \in Nat /\ Len(q \o y) = Len(q) + Len(y)
      /\ \A i \in 1..Len(q) : (q \o y)[i] = q[i]
  BY <1>1, ConcatIs
<1>5. w = <<>> \/ (Clean(q) /\ Uncut(w, p, y))
  OBVIOUS
<1>x. q = w \o p
  OBVIOUS
<1> HIDE DEF t, y, q
<1>6. /\ R \in Texts /\ Free(Address, R)
      /\ "i" \in Range(t) => "i" \in Range(R)
      /\ "i" \notin Range(R) => Free(Url, R)
  BY <1>1, ReplacedIs, ReplacedIsFree
<1>7. ASSUME NEW token \in {Address, Url}, NEW k \in 1..n, Occurs(token, W, k)
      PROVE  Clean(q) /\ k \in 1..(Len(q) - 2) /\ Occurs(token, q, k)
  <2>1. w # <<>>
    BY <1>4
  <2>2. Occurs(token, q \o y, k)
    BY <1>1, <1>2, <1>7, Crosses
  <2>3. ~Cuts(token, w, p, y)
    BY <1>5, <2>1 DEF Uncut
  <2>4. ~(k + 2 > Len(q))
    BY <1>7, <1>x, <2>2, <2>3 DEF Cuts
  <2>5. {k, k + 1, k + 2} \subseteq 1..Len(q) /\ k \in 1..(Len(q) - 2)
    BY <1>4, <2>4
  <2>6. Occurs(token, q, k)
    <3>1. PICK v \in Texts : v = q \o y
      BY <1>1, TextConcat
    <3>2. v[k] = q[k] /\ v[k + 1] = q[k + 1] /\ v[k + 2] = q[k + 2]
      BY <1>4, <2>5, <3>1
    <3>3. Occurs(token, v, k)
      BY <2>2, <3>1
    <3>4. QED
      BY <2>5, <3>2, <3>3, Letters
  <2>7. QED
    BY <1>5, <2>1, <2>5, <2>6
<1> HIDE DEF R
<1>8. /\ Len(R) \in Nat /\ Len(W) = n + Len(R)
      /\ \A i \in 1..Len(R) : W[n + i] = R[i]
  BY <1>6, ConcatIs
<1>9. Range(W) = Range(w) \union Range(R)
  BY <1>6, RangeConcat DEF Texts
<1> HIDE DEF W, n
<1>10. ASSUME NEW token \in {Address, Url}, NEW k \in 1..(Len(W) - 2), Occurs(token, W, k), ~(k <= n)
       PROVE  ~Free(token, R)
  <2> DEFINE m == k - n
  <2>1. m \in 1..(Len(R) - 2) /\ {m, m + 1, m + 2} \subseteq 1..Len(R)
        /\ k = n + m /\ k + 1 = n + (m + 1) /\ k + 2 = n + (m + 2)
    BY <1>4, <1>8, <1>10
  <2> HIDE DEF m
  <2>2. R[m] = W[k] /\ R[m + 1] = W[k + 1] /\ R[m + 2] = W[k + 2]
    BY <1>8, <2>1
  <2>3. Occurs(token, R, m)
    <3>1. /\ W[k] = token[1] /\ W[k + 1] = token[2] /\ W[k + 2] = token[3]
          /\ W[k] \notin {"i", "z"} /\ W[k + 1] \notin {"i", "z"} /\ W[k + 2] \notin {"i", "z"}
      BY <1>10, Letters
    <3>2. /\ R[m] = token[1] /\ R[m + 1] = token[2] /\ R[m + 2] = token[3]
          /\ R[m] \notin {"i", "z"} /\ R[m + 1] \notin {"i", "z"} /\ R[m + 2] \notin {"i", "z"}
      BY <2>2, <3>1
    <3>3. m \in 1..(Len(R) - 2)
      BY <2>1
    <3>4. QED
      BY <3>2, <3>3, Letters
  <2>4. QED
    BY <2>1, <2>3 DEF Free
<1>11. Free(Address, W)
  <2> SUFFICES ASSUME NEW k \in 1..(Len(W) - 2), Occurs(Address, W, k)
               PROVE  FALSE
    BY DEF Free
  <2>1. CASE k <= n
    <3>1. k \in 1..n
      BY <1>4, <2>1
    <3>2. Clean(q) /\ k \in 1..(Len(q) - 2) /\ Occurs(Address, q, k)
      BY <1>7, <3>1
    <3>3. QED
      BY <3>2 DEF Clean, Free
  <2>2. CASE ~(k <= n)
    BY <1>6, <1>10, <2>2
  <2>3. QED
    BY <2>1, <2>2
<1>12. ASSUME "i" \notin Range(W)
       PROVE  Free(Url, W)
  <2> SUFFICES ASSUME NEW k \in 1..(Len(W) - 2), Occurs(Url, W, k)
               PROVE  FALSE
    BY DEF Free
  <2>0. "i" \notin Range(w) /\ "i" \notin Range(R) /\ "i" \notin Range(p)
    BY <1>3, <1>6, <1>9, <1>12
  <2>1. CASE k <= n
    <3>1. k \in 1..n
      BY <1>4, <2>1
    <3>2. Clean(q) /\ k \in 1..(Len(q) - 2) /\ Occurs(Url, q, k)
      BY <1>7, <3>1
    <3>3. QED
      BY <1>3, <2>0, <3>2 DEF Clean, Free
  <2>2. CASE ~(k <= n)
    BY <1>6, <1>10, <2>0, <2>2
  <2>3. QED
    BY <2>1, <2>2
<1>13. QED
  BY <1>11, <1>12 DEF Clean, W, R, t

\* What the rewriting leaves of a body: the first chunk as it came; and from the
\* second chunk on a clean text, unless what was written ends inside a token.
Rewritten(b) ==
    /\ b.chunks = 0 => b.written = <<>> /\ b.previous = <<>>
    /\ b.chunks = 1 => b.written = <<>>
    /\ b.chunks >= 1 => b.previous # <<>>
    /\ b.chunks >= 1 /\ ~b.split => Uncut(b.written, b.previous, b.rest)
    /\ b.chunks >= 2 /\ ~b.split => Clean(b.written \o b.previous)

LEMMA PassedOn ==
    ASSUME NEW w \in Texts, NEW p \in Texts, NEW c \in Texts, NEW x \in Texts
    PROVE  Meaning((w \o Replaced(p \o c)) \o x) = Meaning((w \o p) \o (c \o x))
<1>1. PICK t \in Texts : t = p \o c
  BY TextConcat
<1>2. PICK q \in Texts : q = w \o p
  BY TextConcat
<1>3. w \o t = q \o c
  <2>1. (w \o p) \o c = w \o (p \o c)
    BY TextConcatAssociates
  <2>2. QED
    BY <1>1, <1>2, <2>1
<1>4. (q \o c) \o x = q \o (c \o x)
  BY TextConcatAssociates
<1>5. Meaning((w \o Replaced(t)) \o x) = Meaning((w \o t) \o x)
  BY ReplaceKeepsMeaning
<1>6. QED
  BY <1>1, <1>2, <1>3, <1>4, <1>5

LEMMA ReplacedNotEmpty ==
    ASSUME NEW t \in Texts, t # <<>>
    PROVE  Replaced(t) # <<>>
<1> DEFINE Y == Localized(<<>>, t)
<1>1. /\ Y \in Texts /\ AsBefore(Y, t) /\ Replaced(t) \in Texts
      /\ Replaced(t) = Y \/ Replaced(t) = ReplaceUrls(Y)
  BY ReplacedIs, LocalizedAsBefore
<1> HIDE DEF Y
<1>2. Y # <<>>
  <2> SUFFICES ASSUME Y = <<>> PROVE FALSE
    OBVIOUS
  <2>1. \A j \in 1..Len(Y) : Y[j] # "z"
    OBVIOUS
  <2>2. QED
    BY <1>1, <2>1 DEF AsBefore
<1>3. Len(Y) >= 1
  BY <1>1, <1>2, NotEmpty
<1>4. Len(ReplaceUrls(Y)) = Len(Y)
  BY <1>1, UrlsType
<1>5. Len(Replaced(t)) >= 1
  BY <1>1, <1>3, <1>4
<1>6. QED
  BY <1>1, <1>5, NotEmpty

LEMMA LocalIpType ==
    ASSUME NEW printer
    PROVE  LocalIp(printer) \in Texts
<1>1. Address \o <<"z">> \in Texts
  BY DEF Address, Texts, Symbols
<1>2. QED
  BY <1>1, ProxyAddress DEF LocalIp

LEMMA ReplaceType ==
    ASSUME NEW t \in Texts, NEW printer
    PROVE  Replace(t, LocalIp(printer)) \in Texts
<1>1. PICK l \in Texts : l = LocalIp(printer)
  BY LocalIpType
<1>2. Continued(<<>>, t, l) \in Texts
  BY EmptyText, ContinuedType
<1>3. ReplaceAddresses(t, l) \in Texts
  BY <1>2 DEF ReplaceAddresses
<1>4. ReplaceUrls(ReplaceAddresses(t, l)) \in Texts
  BY <1>3, UrlsType
<1>5. Replace(t, l) \in Texts
  BY <1>3, <1>4 DEF Replace
<1>6. QED
  BY <1>1, <1>5

\* A chunk leaves a text written and a text kept back, whatever the addresses are.
LEMMA RewriteType ==
    ASSUME body \in Bodies, NEW c \in Texts
    PROVE  \E w \in Texts, p \in Texts : Rewrite(c) = [body EXCEPT !.written = w, !.previous = p]
<1>0. /\ body.written \in Texts /\ body.previous \in Texts
      /\ body = [body EXCEPT !.written = body.written]
  BY DEF Bodies
<1>1. PICK w \in Texts : w = body.written
  BY <1>0
<1>2. PICK p \in Texts : p = body.previous
  BY <1>0
<1>3. CASE p = <<>>
  <2>1. Rewrite(c) = [body EXCEPT !.written = w, !.previous = c]
    BY <1>0, <1>1, <1>2, <1>3 DEF Rewrite, Bodies
  <2>2. QED
    BY <2>1
<1>4. CASE p # <<>>
  <2> DEFINE R == Replace(p \o c, LocalIp(http.target))
             half == Len(R) \div 2
             u == SubSeq(R, 1, half)
             v == SubSeq(R, half + 1, Len(R))
             wu == w \o u
  <2>1. Rewrite(c) = [body EXCEPT !.written = wu, !.previous = v]
    BY <1>0, <1>1, <1>2, <1>4 DEF Rewrite, Bodies
  <2>2. R \in Texts
    <3>1. PICK t \in Texts : t = p \o c
      BY TextConcat
    <3>2. QED
      BY <3>1, ReplaceType
  <2> HIDE DEF R
  <2>3. half \in 0..Len(R)
    BY <2>2, NotEmpty
  <2> HIDE DEF half
  <2>4. u \in Texts /\ v \in Texts
    BY <2>2, <2>3, SplitAt
  <2> HIDE DEF u, v
  <2>5. wu \in Texts
    BY <2>4, TextConcat
  <2> HIDE DEF wu
  <2>6. QED
    BY <2>1, <2>4, <2>5
<1>5. QED
  BY <1>3, <1>4

\* The step of the rewriting.
LEMMA RewriteKeeps ==
    ASSUME body \in Bodies, Rewritten(body), http.target \notin Clashing,
           NEW c \in Texts, c # <<>>, NEW x \in Texts, body.rest = c \o x
    PROVE  \E w \in Texts, p \in Texts :
           /\ Rewrite(c) = [body EXCEPT !.written = w, !.previous = p]
           /\ body.chunks = 0 => w = <<>>
           /\ p # <<>>
           /\ body.chunks >= 1 /\ ~body.split => Clean(w \o p)
           /\ Meaning((w \o p) \o x) = Meaning((body.written \o body.previous) \o (c \o x))
<1>0. /\ body.written \in Texts /\ body.previous \in Texts /\ body.chunks \in Nat
      /\ body = [body EXCEPT !.written = body.written]
  BY DEF Bodies
<1>1. PICK w \in Texts : w = body.written
  BY <1>0
<1>2. PICK p \in Texts : p = body.previous
  BY <1>0
<1>3. CASE p = <<>>
  <2>1. Rewrite(c) = [body EXCEPT !.written = w, !.previous = c]
    BY <1>0, <1>1, <1>2, <1>3 DEF Rewrite, Bodies
  <2>2. body.chunks = 0
    BY <1>0, <1>2, <1>3 DEF Rewritten
  <2>3. w = <<>>
    BY <1>1, <2>2 DEF Rewritten
  <2>4. ~(body.chunks >= 1)
    BY <2>2
  <2>5. w \o p = w
    BY <1>3, ConcatEmpty DEF Texts
  <2>6. Meaning((w \o c) \o x) = Meaning((body.written \o body.previous) \o (c \o x))
    <3>1. (w \o c) \o x = w \o (c \o x)
      BY TextConcatAssociates
    <3>2. body.written \o body.previous = w
      BY <1>1, <1>2, <2>5
    <3>3. QED
      BY <3>1, <3>2
  <2>7. QED
    BY <2>1, <2>3, <2>4, <2>6
<1>4. CASE p # <<>>
  <2> DEFINE t == p \o c
             R == Replaced(t)
             half == Len(R) \div 2
             u == SubSeq(R, 1, half)
             v == SubSeq(R, half + 1, Len(R))
             wu == w \o u
  <2>0. Replace(t, LocalIp(http.target)) = R
    BY DEF Replaced, LocalIp
  <2>1. Rewrite(c) = [body EXCEPT !.written = wu, !.previous = v]
    BY <1>0, <1>1, <1>2, <1>4, <2>0 DEF Rewrite, Bodies
  <2>2. t \in Texts /\ R \in Texts
    BY TextConcat, ReplacedIs
  <2>3. R # <<>>
    <3>1. Len(p) >= 1 /\ Len(c) \in Nat /\ Len(p) \in Nat
      BY <1>4, NotEmpty
    <3>2. Len(t) = Len(p) + Len(c)
      BY ConcatIs
    <3> HIDE DEF t
    <3>3. t # <<>>
      BY <2>2, <3>1, <3>2, NotEmpty
    <3>4. QED
      BY <2>2, <3>3, ReplacedNotEmpty
  <2> HIDE DEF R
  <2>4. u \in Texts /\ v \in Texts /\ v # <<>> /\ u \o v = R
    BY <2>2, <2>3, Halved
  <2> HIDE DEF u, v
  <2>5. wu \in Texts
    BY <2>4, TextConcat
  <2>6. wu \o v = w \o R
    <3>1. u \in Texts /\ v \in Texts
      BY <2>4
    <3>2. (w \o u) \o v = w \o (u \o v)
      BY <3>1, TextConcatAssociates
    <3>3. QED
      BY <2>4, <3>2
  <2>7. body.chunks >= 1
    BY <1>0, <1>2, <1>4 DEF Rewritten
  <2>8. ASSUME ~body.split
        PROVE  Clean(wu \o v)
    <3>1. w = <<>> \/ (Clean(w \o p) /\ Uncut(w, p, c \o x))
      <4>1. CASE body.chunks = 1
        BY <1>1, <4>1 DEF Rewritten
      <4>2. CASE body.chunks >= 2
        <5>1. Uncut(body.written, body.previous, body.rest) /\ Clean(body.written \o body.previous)
          BY <2>7, <2>8, <4>2 DEF Rewritten
        <5>2. body.rest = c \o x
          OBVIOUS
        <5>3. QED
          BY <1>1, <1>2, <5>1, <5>2
      <4>3. QED
        BY <1>0, <2>7, <4>1, <4>2
    <3>2. Clean(w \o Replaced(p \o c))
      BY <3>1, ReplacedIsClean
    <3>3. QED
      BY <2>6, <3>2 DEF R, t
  <2>9. Meaning((wu \o v) \o x) = Meaning((body.written \o body.previous) \o (c \o x))
    <3>1. Meaning((w \o R) \o x) = Meaning((w \o p) \o (c \o x))
      BY PassedOn DEF R, t
    <3>2. QED
      BY <1>1, <1>2, <2>6, <3>1
  <2>10. body.chunks # 0
    BY <2>7
  <2> HIDE DEF wu
  <2>11. QED
    BY <2>1, <2>4, <2>5, <2>8, <2>9, <2>10
<1>5. QED
  BY <1>3, <1>4
-----------------------------------------------------------------------------
(***************************************************************************)
(* Which printer a request goes to.                                        *)
(***************************************************************************)
\* The first registered one of some ids, when there is one.
LEMMA FirstIs ==
    ASSUME NEW ids, Len(ids) \in Nat, NEW k \in 1..Len(ids), Registered(ids[k])
    PROVE  \E j \in 1..Len(ids) :
              /\ FirstRegistered(ids) = ids[j] /\ Registered(ids[j])
              /\ \A m \in 1..Len(ids) : Registered(ids[m]) => j <= m
<1> DEFINE I == {i \in 1..Len(ids) : Registered(ids[i])}
<1>1. I \subseteq Nat /\ I # {}
  OBVIOUS
<1>2. PICK j \in I : \A y \in I : ~(y < j)
  <2> HIDE DEF I
  <2>1. QED
    BY <1>1, Least
<1>3. \A y \in I : j <= y
  BY <1>1, <1>2
<1>4. \A x \in I : (\A y \in I : x <= y) => x = j
  BY <1>1, <1>3
<1>5. Min(I) = j
  <2> HIDE DEF I
  <2>1. QED
    BY <1>2, <1>3, <1>4 DEF Min
<1>6. SelectInSeq(ids, Registered) = Min(I)
  BY <1>1 DEF SelectInSeq
<1>7. FirstRegistered(ids) = ids[j]
  BY <1>5, <1>6 DEF FirstRegistered
<1>8. QED
  BY <1>2, <1>3, <1>7

\* What a request names, in the order of the search.
Searched(request) ==
    <<request.query>> \o PathId(request.path) \o <<request.referer>> \o FallbackIds(request.path)

Names == Ids \union {NoId} \union Segments

LEMMA SearchedIs ==
    ASSUME RoutingAssumption, NEW request \in Requests
    PROVE  /\ Searched(request) \in Seq(Names)
           /\ Range(Searched(request))
                = {request.query, request.referer} \union Range(FallbackIds(request.path))
<1> DEFINE path == request.path
           q == <<request.query>>
           r == <<request.referer>>
           P == PathId(path)
           F == FallbackIds(path)
<1>1. request.query \in Names /\ request.referer \in Names /\ path \in Seq(Segments)
  BY DEF Requests, RoutingAssumption, MayBeId, Names
<1>2. q \in Seq(Names) /\ Range(q) = {request.query} /\ r \in Seq(Names) /\ Range(r) = {request.referer}
  BY <1>1 DEF Range
<1>3. path \in Seq(Names)
  BY <1>1 DEF Names
<1>4. F \in Seq(Names)
  BY <1>3 DEF FallbackIds
<1>5. P \in Seq(Names) /\ Range(P) \subseteq Range(F)
  <2>1. CASE P = <<>>
    BY <2>1 DEF Range
  <2>2. CASE P # <<>>
    <3>1. P = <<path[2]>> /\ Len(path) >= 2
      BY <1>1, <2>2 DEF PathId
    <3>2. F = path /\ 2 \in DOMAIN path /\ path[2] \in Names
      BY <1>3, <3>1 DEF FallbackIds
    <3>3. P \in Seq(Names) /\ Range(P) = {path[2]}
      BY <3>1, <3>2 DEF Range
    <3>4. path[2] \in Range(F)
      BY <3>2 DEF Range
    <3>5. QED
      BY <3>3, <3>4
  <2>3. QED
    BY <2>1, <2>2
<1> HIDE DEF path, q, r, P, F
<1> DEFINE a == q \o P
           b == a \o r
           c == b \o F
<1>6. a \in Seq(Names) /\ Range(a) = Range(q) \union Range(P)
  BY <1>2, <1>5, RangeConcat
<1> HIDE DEF a
<1>7. b \in Seq(Names) /\ Range(b) = Range(a) \union Range(r)
  BY <1>2, <1>6, RangeConcat
<1> HIDE DEF b
<1>8. c \in Seq(Names) /\ Range(c) = Range(b) \union Range(F)
  BY <1>4, <1>7, RangeConcat
<1>9. Searched(request) = c
  BY DEF Searched, a, b, q, r, P, F, path
<1> HIDE DEF c
<1>10. Range(c) = {request.query, request.referer} \union Range(F)
  BY <1>2, <1>5, <1>6, <1>7, <1>8
<1>11. QED
  BY <1>8, <1>9, <1>10 DEF F, path

\* A request goes to a registered printer, and to one it names if there is one.
LEMMA TargetIs ==
    ASSUME RoutingAssumption, registry \in Seq(Printers), registry # <<>>, NEW request \in Requests
    PROVE  /\ Target(request) \in Range(registry)
           /\ Named(request) # {} => Target(request) \in Named(request)
<1> DEFINE s == Searched(request)
           ids == s \o registry
<1>1. /\ s \in Seq(Names) /\ Len(s) \in Nat
      /\ Range(s) = {request.query, request.referer} \union Range(FallbackIds(request.path))
  BY SearchedIs
<1>2. registry \in Seq(Names) /\ Len(registry) \in Nat /\ Len(registry) >= 1
  BY DEF Names, Ids
<1>3. Target(request) = FirstRegistered(ids)
  BY DEF Target, Searched
<1>4. Named(request) = Range(s) \intersect Range(registry)
  BY <1>1 DEF Named
<1> HIDE DEF s
<1>5. /\ Len(ids) = Len(s) + Len(registry)
      /\ \A k \in 1..Len(s) : ids[k] = s[k]
      /\ \A k \in 1..Len(registry) : ids[Len(s) + k] = registry[k]
  BY <1>1, <1>2
<1> HIDE DEF ids
<1>6. Len(ids) \in Nat /\ Len(s) + 1 \in 1..Len(ids) /\ ids[Len(s) + 1] = registry[1]
  BY <1>1, <1>2, <1>5
<1>7. Registered(registry[1])
  BY <1>2 DEF Registered, Range
<1>8. PICK j \in 1..Len(ids) : /\ FirstRegistered(ids) = ids[j] /\ Registered(ids[j])
                               /\ \A m \in 1..Len(ids) : Registered(ids[m]) => j <= m
  BY <1>6, <1>7, FirstIs
<1>9. Target(request) \in Range(registry)
  BY <1>3, <1>8 DEF Registered
<1>10. ASSUME NEW p \in Named(request)
       PROVE  Target(request) \in Named(request)
  <2>1. PICK m \in 1..Len(s) : s[m] = p
    BY <1>1, <1>4, <1>10 DEF Range
  <2>2. m \in 1..Len(ids) /\ ids[m] = p /\ Registered(ids[m])
    BY <1>1, <1>2, <1>4, <1>5, <2>1, <1>10 DEF Registered
  <2>3. j <= m
    BY <1>8, <2>2
  <2>4. j \in 1..Len(s)
    BY <1>1, <1>6, <1>8, <2>1, <2>3
  <2>5. ids[j] \in Range(s)
    BY <1>1, <1>5, <2>4 DEF Range
  <2>6. QED
    BY <1>3, <1>4, <1>8, <1>9, <2>5
<1>11. QED
  BY <1>9, <1>10
-----------------------------------------------------------------------------
(***************************************************************************)
(* An exchange: what was asked for, and what has become of the script.     *)
(***************************************************************************)
\* Rewriting keeps what the script means, and what has been rewritten is clean.
BodyInv ==
    http.stage = "streaming" =>
        /\ http \in [stage : {"streaming"}, target : Printers, content : Contents, rewrites : BOOLEAN]
        /\ http.target \notin Clashing =>
              /\ Meaning(body.written \o body.previous \o body.rest) = Meaning(http.content)
              /\ IF http.rewrites THEN Rewritten(body) ELSE body.previous = <<>>

AskedInv ==
    http.stage = "asked" =>
        /\ http.target \in Printers /\ http.port \in {"http", "video"}
        /\ http.rewrites \in BOOLEAN

HttpStages == {"none", "announced", "asked", "streaming", "complete", "cut", "refused"}

HttpInv == body \in Bodies /\ http.stage \in HttpStages /\ AskedInv /\ BodyInv

\* How an exchange goes on: not at all, to its end, or by one of its steps.
LEMMA ExchangeGoesOn ==
    ASSUME [RoutingNext]_routingVars, BodyInv
    PROVE  \/ http' = http /\ body' = body
           \/ http'.stage \in {"none", "announced", "cut", "refused"} /\ body' \in {body, NoBody}
           \/ \E request \in Requests : Request(request)
           \/ \E content \in Contents : UpstreamAnswers(content)
           \/ \E n \in 1..Len(body.rest) : Chunk(n)
           \/ EndOfBody
<1>1. CASE UNCHANGED routingVars
  BY <1>1 DEF routingVars
<1>2. CASE SessionStep
  BY <1>2 DEF SessionStep, Dial, StartRouting, TakeMessage, SendToPrinter, MessageSent,
     ClientTaskEnds, CloseSession, PrinterTaskEnds, proxy
<1>3. CASE Environment
  <2>1. CASE \E p \in Printers : AddPrinter(p) \/ RemovePrinter(p) \/ PrinterCloses(p)
    BY <2>1 DEF AddPrinter, RemovePrinter, PrinterCloses, proxy
  <2>2. CASE StopServer \/ RateLimitEnds \/ ClientLeaves
    BY <2>2 DEF StopServer, RateLimitEnds, ClientLeaves, proxy
  <2>3. CASE DiscoveryRequest
    BY <2>3 DEF DiscoveryRequest
  <2>4. CASE \E id \in MayBeId : OpenSession(id)
    BY <2>4 DEF OpenSession, proxy
  <2>5. CASE \E id \in Ids : ClientSends(id)
    BY <2>5 DEF ClientSends, proxy
  <2>6. CASE Forget
    BY <2>6 DEF Forget, NoExchange
  <2>7. CASE \E request \in Requests : Request(request)
    BY <2>7
  <2>8. QED
    BY <1>3, <2>1, <2>2, <2>3, <2>4, <2>5, <2>6, <2>7 DEF Environment
<1>4. CASE Exchange
  <2>1. CASE UpstreamFails
    BY <2>1 DEF UpstreamFails
  <2>2. CASE StreamBreaks
    BY <2>2 DEF StreamBreaks, BodyInv
  <2>3. QED
    BY <1>4, <2>1, <2>2 DEF Exchange
<1>5. QED
  BY <1>1, <1>2, <1>3, <1>4 DEF RoutingNext

LEMMA NoBodyType == NoBody \in Bodies /\ Rewritten(NoBody)
<1>1. NoBody \in Bodies
  BY EmptyText DEF NoBody, Bodies
<1>2. Rewritten(NoBody)
  BY DEF NoBody, Rewritten
<1>3. QED
  BY <1>1, <1>2

LEMMA RequestKeeps ==
    ASSUME RoutingAssumption, RoutingTypeOK, NEW request \in Requests, Request(request)
    PROVE  HttpInv' /\ NamedPrinterIsServed' /\ http'.stage \notin {"streaming", "complete"}
<1>1. body' = body /\ body \in Bodies
  BY DEF Request, RoutingTypeOK
<1>2. CASE ~serving \/ registry = <<>>
  <2>1. http' = [stage |-> "refused"]
    BY <1>2 DEF Request
  <2>2. QED
    BY <1>1, <2>1 DEF HttpInv, HttpStages, AskedInv, BodyInv, NamedPrinterIsServed
<1>3. CASE serving /\ registry # <<>>
  <2>1. /\ http'.stage = "asked" /\ http'.target = Target(request)
        /\ http'.port = ForwardPort(request) /\ http'.named = Named(request)
        /\ http'.rewrites \in BOOLEAN
    <3>1. PICK b \in BOOLEAN : b <=> request.port = "http" /\ request.method = "GET"
      OBVIOUS
    <3>2. http' = [stage |-> "asked", target |-> Target(request),
                   path |-> Cleaned(request.path), port |-> ForwardPort(request),
                   named |-> Named(request), rewrites |-> b]
      BY <1>3, <3>1 DEF Request
    <3>3. QED
      BY <3>2
  <2>2. registry \in Seq(Printers)
    BY DEF RoutingTypeOK
  <2>3. /\ Target(request) \in Range(registry)
        /\ Named(request) # {} => Target(request) \in Named(request)
    BY <1>3, <2>2, TargetIs
  <2>4. Target(request) \in Printers
    BY <2>2, <2>3 DEF Range
  <2>5. ForwardPort(request) \in {"http", "video"}
    BY DEF ForwardPort
  <2>6. NamedPrinterIsServed'
    BY <2>1, <2>3 DEF NamedPrinterIsServed
  <2>7. QED
    BY <1>1, <2>1, <2>4, <2>5, <2>6 DEF HttpInv, HttpStages, AskedInv, BodyInv
<1>4. QED
  BY <1>2, <1>3

LEMMA UpstreamAnswersKeeps ==
    ASSUME RoutingAssumption, HttpInv, NEW content \in Contents, UpstreamAnswers(content)
    PROVE  HttpInv' /\ http'.stage = "streaming"
<1>1. http' = [stage |-> "streaming", target |-> http.target, content |-> content,
               rewrites |-> http.rewrites]
  BY DEF UpstreamAnswers
<1>2. http.rewrites \in BOOLEAN /\ http.target \in Printers
  BY DEF HttpInv, AskedInv, UpstreamAnswers
<1>3. content \in Texts
  BY DEF RoutingAssumption
<1>4. body' = [NoBody EXCEPT !.rest = content]
  BY DEF UpstreamAnswers
<1>5. /\ body' \in Bodies /\ body'.written = <<>> /\ body'.previous = <<>>
      /\ body'.rest = content /\ body'.chunks = 0
  BY <1>3, <1>4, EmptyText DEF NoBody, Bodies
<1>6. (<<>> \o <<>>) \o content = content
  BY <1>3 DEF Texts
<1>7. Rewritten(body')
  BY <1>5 DEF Rewritten
<1>8. Meaning(body'.written \o body'.previous \o body'.rest) = Meaning(content)
  BY <1>5, <1>6
<1>9. BodyInv'
  BY <1>1, <1>2, <1>5, <1>7, <1>8 DEF BodyInv
<1>10. QED
  BY <1>1, <1>5, <1>9 DEF HttpInv, HttpStages, AskedInv

\* What a chunk leaves of the body, once it is passed on.
Shortened(b, x) ==
    [b EXCEPT !.rest = x, !.chunks = @ + 1,
              !.split = @ \/ \E token \in {Address, Url} : Cuts(token, b.written, b.previous, x)]

LEMMA ShortenedIs ==
    ASSUME NEW b \in Bodies, NEW x \in Texts
    PROVE  /\ Shortened(b, x) \in Bodies
           /\ Shortened(b, x).written = b.written /\ Shortened(b, x).previous = b.previous
           /\ Shortened(b, x).rest = x /\ Shortened(b, x).chunks = b.chunks + 1
           /\ ~Shortened(b, x).split => ~b.split /\ Uncut(b.written, b.previous, x)
<1> DEFINE cut == \E token \in {Address, Url} : Cuts(token, b.written, b.previous, x)
<1>1. PICK e \in BOOLEAN : e <=> (b.split \/ cut)
  OBVIOUS
<1>2. /\ b.written \in Texts /\ b.previous \in Texts /\ b.chunks \in Nat /\ b.split \in BOOLEAN
  BY DEF Bodies
<1>3. ~cut => Uncut(b.written, b.previous, x)
  BY DEF Uncut
<1>4. Shortened(b, x) = [b EXCEPT !.rest = x, !.chunks = @ + 1, !.split = @ \/ cut]
  BY DEF Shortened
<1> HIDE DEF cut
<1>5. Shortened(b, x) = [rest |-> x, previous |-> b.previous, written |-> b.written,
                         chunks |-> b.chunks + 1, split |-> e]
  <2>1. (b.split \/ cut) = e
    BY <1>1, Zenon
  <2>2. Shortened(b, x) = [b EXCEPT !.rest = x, !.chunks = @ + 1, !.split = e]
    BY <1>4, <2>1, Zenon
  <2>3. QED
    BY <2>2 DEF Bodies
<1>6. Shortened(b, x).split = e
  BY <1>5
<1>7. ~Shortened(b, x).split => ~b.split /\ ~cut
  BY <1>1, <1>6, Zenon
<1>8. QED
  BY <1>2, <1>3, <1>5, <1>7 DEF Bodies

\* A chunk of a script whose addresses do not clash.
LEMMA ScriptChunk ==
    ASSUME HttpInv, http.stage = "streaming", http.target \notin Clashing,
           NEW c \in Texts, c # <<>>, NEW x \in Texts, c \o x = body.rest,
           body' = Shortened(IF http.rewrites THEN Rewrite(c) ELSE [body EXCEPT !.written = @ \o c], x)
    PROVE  /\ Meaning(body'.written \o body'.previous \o body'.rest) = Meaning(http.content)
           /\ IF http.rewrites THEN Rewritten(body') ELSE body'.previous = <<>>
<1>1. body \in Bodies
  BY DEF HttpInv
<1>2. /\ body.rest \in Texts /\ body.written \in Texts /\ body.previous \in Texts
      /\ body.chunks \in Nat /\ body.split \in BOOLEAN
  BY <1>1 DEF Bodies
<1>3. /\ Meaning(body.written \o body.previous \o body.rest) = Meaning(http.content)
      /\ IF http.rewrites THEN Rewritten(body) ELSE body.previous = <<>>
  BY DEF HttpInv, BodyInv
<1>4. CASE http.rewrites
  <2>1. PICK w \in Texts, p \in Texts :
           /\ Rewrite(c) = [body EXCEPT !.written = w, !.previous = p]
           /\ body.chunks = 0 => w = <<>>
           /\ p # <<>>
           /\ body.chunks >= 1 /\ ~body.split => Clean(w \o p)
           /\ Meaning((w \o p) \o x) = Meaning((body.written \o body.previous) \o (c \o x))
    BY <1>1, <1>3, <1>4, RewriteKeeps
  <2> DEFINE b == Rewrite(c)
  <2>2. b \in Bodies /\ b.written = w /\ b.previous = p /\ b.chunks = body.chunks /\ b.split = body.split
    BY <1>1, <2>1 DEF Bodies
  <2>3. body' = Shortened(b, x)
    BY <1>4
  <2> HIDE DEF b
  <2>4. /\ body'.written = w /\ body'.previous = p /\ body'.rest = x
        /\ body'.chunks = body.chunks + 1
        /\ ~body'.split => ~body.split /\ Uncut(w, p, x)
    <3>1. /\ Shortened(b, x).written = b.written /\ Shortened(b, x).previous = b.previous
          /\ Shortened(b, x).rest = x /\ Shortened(b, x).chunks = b.chunks + 1
          /\ ~Shortened(b, x).split => ~b.split /\ Uncut(b.written, b.previous, x)
      BY <2>2, ShortenedIs
    <3>2. body'.written = w /\ body'.previous = p /\ body'.rest = x
          /\ body'.chunks = body.chunks + 1
      BY <2>2, <2>3, <3>1
    <3>3. ~body'.split => ~body.split /\ Uncut(w, p, x)
      BY <2>2, <2>3, <3>1, Zenon
    <3>4. QED
      BY <3>2, <3>3
  <2>5. Rewritten(body')
    BY <1>2, <2>1, <2>4 DEF Rewritten
  <2>6. Meaning((w \o p) \o x) = Meaning((body.written \o body.previous) \o body.rest)
    BY <2>1
  <2>7. QED
    BY <1>3, <1>4, <2>4, <2>5, <2>6
<1>5. CASE ~http.rewrites
  <2> DEFINE w == body.written \o c
             b == [body EXCEPT !.written = w]
  <2>1. w \in Texts
    BY <1>2, TextConcat
  <2>2. b \in Bodies /\ b.written = w /\ b.previous = body.previous
    BY <1>1, <2>1 DEF Bodies
  <2>3. body' = Shortened(b, x)
    BY <1>5
  <2>4. w \o x = body.written \o body.rest
    <3>1. (body.written \o c) \o x = body.written \o (c \o x)
      BY <1>2, TextConcatAssociates
    <3>2. QED
      BY <3>1
  <2>5. body.written \o body.previous = body.written
    BY <1>2, <1>3, <1>5, ConcatEmpty DEF Texts
  <2> HIDE DEF w
  <2>6. w \o body.previous = w
    BY <1>2, <1>3, <1>5, <2>1, ConcatEmpty DEF Texts
  <2> HIDE DEF b
  <2>7. body'.written = w /\ body'.previous = body.previous /\ body'.rest = x
    BY <2>2, <2>3, ShortenedIs
  <2>8. QED
    BY <1>3, <1>5, <2>4, <2>5, <2>6, <2>7
<1>6. QED
  BY <1>4, <1>5

LEMMA ChunkKeeps ==
    ASSUME HttpInv, NEW n \in 1..Len(body.rest), Chunk(n)
    PROVE  HttpInv' /\ ScriptArrives' /\ http'.stage = "streaming"
<1>1. body \in Bodies /\ http.stage = "streaming" /\ http' = http
  BY DEF Chunk, HttpInv
<1>2. /\ body.rest \in Texts /\ body.written \in Texts /\ body.previous \in Texts
  BY <1>1 DEF Bodies
<1> DEFINE c == SubSeq(body.rest, 1, n)
           x == SubSeq(body.rest, n + 1, Len(body.rest))
<1>3. c \in Texts /\ Len(c) = n /\ x \in Texts /\ c \o x = body.rest
  <2>1. n \in 0..Len(body.rest)
    BY <1>2, NotEmpty
  <2>2. QED
    BY <1>2, <2>1, SplitAt
<1> DEFINE passed == IF http.rewrites THEN Rewrite(c) ELSE [body EXCEPT !.written = @ \o c]
<1>4. body' = Shortened(passed, x)
  BY DEF Chunk, Shortened
<1> HIDE DEF c, x
<1>5. c # <<>>
  BY <1>3, NotEmpty
<1>6. body' \in Bodies
  <2>1. passed \in Bodies
    <3>1. CASE http.rewrites
      <4>1. PICK w \in Texts, p \in Texts : Rewrite(c) = [body EXCEPT !.written = w, !.previous = p]
        BY <1>1, <1>3, RewriteType
      <4>2. QED
        BY <1>1, <3>1, <4>1 DEF Bodies
    <3>2. CASE ~http.rewrites
      <4>1. body.written \o c \in Texts
        BY <1>2, <1>3, TextConcat
      <4>2. QED
        BY <1>1, <3>2, <4>1 DEF Bodies
    <3>3. QED
      BY <3>1, <3>2
  <2> HIDE DEF passed
  <2>2. QED
    BY <1>3, <1>4, <2>1, ShortenedIs
<1>7. ASSUME http.target \notin Clashing
      PROVE  /\ Meaning(body'.written \o body'.previous \o body'.rest) = Meaning(http.content)
             /\ IF http.rewrites THEN Rewritten(body') ELSE body'.previous = <<>>
  BY <1>1, <1>3, <1>4, <1>5, <1>7, ScriptChunk
<1>8. http \in [stage : {"streaming"}, target : Printers, content : Contents, rewrites : BOOLEAN]
  BY <1>1 DEF HttpInv, BodyInv
<1>9. BodyInv'
  BY <1>1, <1>7, <1>8 DEF BodyInv
<1>10. ScriptArrives'
  BY <1>1, <1>7 DEF ScriptArrives
<1>11. QED
  BY <1>1, <1>6, <1>9, <1>10 DEF HttpInv, HttpStages, AskedInv

LEMMA CleanIs ==
    ASSUME NEW t \in Texts, Clean(t)
    PROVE  ~Includes(t, Address) /\ (Includes(t, Url) => "i" \in Range(t))
<1>1. ASSUME NEW token, Includes(t, token)
      PROVE  ~Free(token, t)
  BY <1>1 DEF Includes, Free, Occurs
<1>2. QED
  BY <1>1 DEF Clean

LEMMA EndOfBodyKeeps ==
    ASSUME HttpInv, EndOfBody
    PROVE  HttpInv' /\ ScriptArrives' /\ http'.stage = "complete"
<1>1. body \in Bodies /\ http.stage = "streaming" /\ body.rest = <<>>
  BY DEF EndOfBody, HttpInv
<1>2. /\ body.written \in Texts /\ body.previous \in Texts /\ body.chunks \in Nat
      /\ body.split \in BOOLEAN
  BY <1>1 DEF Bodies
<1>3. /\ http \in [stage : {"streaming"}, target : Printers, content : Contents, rewrites : BOOLEAN]
      /\ http.target \notin Clashing =>
            /\ Meaning(body.written \o body.previous \o body.rest) = Meaning(http.content)
            /\ IF http.rewrites THEN Rewritten(body) ELSE body.previous = <<>>
  BY <1>1 DEF HttpInv, BodyInv
<1> DEFINE w == body.written \o body.previous
<1>4. w \in Texts
  BY <1>2, TextConcat
<1>5. /\ body' = [body EXCEPT !.written = w, !.previous = <<>>]
      /\ http' = [http EXCEPT !.stage = "complete"]
  BY DEF EndOfBody
<1>6. /\ body' \in Bodies /\ body'.written = w /\ body'.chunks = body.chunks
      /\ body'.split = body.split /\ body'.previous = <<>> /\ body'.rest = <<>>
  BY <1>1, <1>4, <1>5, EmptyText DEF Bodies
<1>7. /\ http'.stage = "complete" /\ http'.content = http.content
      /\ http'.rewrites = http.rewrites /\ http'.target = http.target
  BY <1>3, <1>5
<1>8. ASSUME http.target \notin Clashing
      PROVE  Meaning(w \o body.rest) = Meaning(http.content)
  BY <1>3, <1>8
<1>9. ASSUME http.target \notin Clashing, http.rewrites, body.chunks > 1, ~body.split
      PROVE  ~Includes(w, Address) /\ (Includes(w, Url) => "i" \in Range(w))
  <2>1. Clean(w)
    BY <1>2, <1>3, <1>9 DEF Rewritten
  <2> HIDE DEF w
  <2>2. QED
    BY <1>4, <2>1, CleanIs
<1> HIDE DEF w
<1>10. w \o <<>> = w
  BY <1>4, ConcatEmpty DEF Texts
<1>11. body'.written \o body'.previous \o body'.rest = w
  BY <1>6, <1>10
<1>12. ScriptArrives'
  BY <1>1, <1>6, <1>7, <1>8, <1>9, <1>10, <1>11 DEF ScriptArrives
<1>13. QED
  BY <1>6, <1>7, <1>12 DEF HttpInv, HttpStages, AskedInv, BodyInv

\* The invariants of an exchange.
LEMMA ExchangeKept ==
    ASSUME RoutingAssumption, RoutingTypeOK, HttpInv, NamedPrinterIsServed, ScriptArrives,
           [RoutingNext]_routingVars
    PROVE  HttpInv' /\ NamedPrinterIsServed' /\ ScriptArrives'
<1>1. CASE http' = http /\ body' = body
  BY <1>1 DEF HttpInv, AskedInv, BodyInv, NamedPrinterIsServed, ScriptArrives
<1>2. CASE http'.stage \in {"none", "announced", "cut", "refused"} /\ body' \in {body, NoBody}
  BY <1>2, NoBodyType
     DEF HttpInv, AskedInv, BodyInv, HttpStages, NamedPrinterIsServed, ScriptArrives
<1>3. CASE \E request \in Requests : Request(request)
  <2>1. HttpInv' /\ NamedPrinterIsServed' /\ http'.stage \notin {"streaming", "complete"}
    BY <1>3, RequestKeeps
  <2>2. QED
    BY <2>1 DEF ScriptArrives, HttpInv, BodyInv
<1>4. CASE \E content \in Contents : UpstreamAnswers(content)
  <2>1. HttpInv' /\ http'.stage = "streaming"
    BY <1>4, UpstreamAnswersKeeps
  <2>2. QED
    BY <2>1 DEF ScriptArrives, NamedPrinterIsServed, HttpInv, BodyInv
<1>5. CASE \E n \in 1..Len(body.rest) : Chunk(n)
  <2>1. HttpInv' /\ ScriptArrives' /\ http'.stage = "streaming"
    BY <1>5, ChunkKeeps
  <2>2. QED
    BY <2>1 DEF ScriptArrives, NamedPrinterIsServed, HttpInv, BodyInv
<1>6. CASE EndOfBody
  <2>1. HttpInv' /\ ScriptArrives' /\ http'.stage = "complete"
    BY <1>6, EndOfBodyKeeps
  <2>2. QED
    BY <2>1 DEF NamedPrinterIsServed
<1>7. BodyInv
  BY DEF HttpInv
<1>8. QED
  BY <1>1, <1>2, <1>3, <1>4, <1>5, <1>6, <1>7, ExchangeGoesOn
-----------------------------------------------------------------------------
(***************************************************************************)
(* A session: its connections, the client's messages, and where they went. *)
(***************************************************************************)
\* t is the end of s, and what is before it.
Ends(t, s) ==
    /\ Len(t) <= Len(s)
    /\ \A k \in 1..Len(t) : t[k] = s[Len(s) - Len(t) + k]

Before(t, s) == SubSeq(s, 1, Len(s) - Len(t))

ConnsInv ==
    /\ ws.stage \in {"none", "closed"} => ws.conns = <<>>
    /\ ws.stage = "connecting" => Range(ws.conns) \subseteq ws.up
    /\ ws.stage = "open" => Range(ws.conns) \subseteq ws.started

\* The inbox is the end of the log, and nothing is sent before the session is open.
QueueInv ==
    /\ Ends(ws.inbox, ws.log)
    /\ ws.stage = "connecting" =>
          ws.log = <<>> /\ ws.client = "reading" /\ \A p \in Printers : ws.reached[p] = <<>>

\* The message being sent has reached the printer it names.
Delivered(p) == ws.client = "sending" /\ ws.to = <<>> /\ Head(ws.inbox).id = p

RoutedAt(p) ==
    /\ For(p, ws.reached[p]) = IF Delivered(p) THEN Append(For(p, Handled), Head(ws.inbox))
                               ELSE For(p, Handled)
    /\ \A q \in Range(ws.conns) \ {p} : For(q, ws.reached[p]) = <<>>

SendingInv ==
    ws.client = "sending" =>
        /\ ws.inbox # <<>>
        /\ Head(ws.inbox).id \in Range(ws.conns) => ws.to = <<>> \/ ws.to = <<Head(ws.inbox).id>>

RoutedInv ==
    ws.stage = "open" =>
        /\ SendingInv
        /\ ws.client # "ended" => \A p \in Range(ws.conns) : RoutedAt(p)

SessionInv == ws \in Sessions /\ ConnsInv /\ QueueInv /\ RoutedInv

LEMMA ForAppend ==
    ASSUME NEW s \in Seq(Messages), NEW m \in Messages, NEW p
    PROVE  For(p, Append(s, m)) = IF m.id = p THEN Append(For(p, s), m) ELSE For(p, s)
<1> DEFINE S == {x \in Messages : x.id = p}
<1>1. m \in S <=> m.id = p
  OBVIOUS
<1> HIDE DEF S
<1>2. Only(Append(s, m), S) = Picked(Only(s, S), m, S)
  BY OnlyAppend
<1>3. Only(Append(s, m), S) = IF m.id = p THEN Append(Only(s, S), m) ELSE Only(s, S)
  BY <1>1, <1>2 DEF Picked
<1>4. QED
  BY <1>3 DEF For, S

LEMMA ForEmpty == \A p : For(p, <<>>) = <<>>
BY OnlyEmpty DEF For

\* One message more of the log.
LEMMA HandledOne ==
    ASSUME NEW V, NEW s \in Seq(V), NEW n \in Nat, n < Len(s)
    PROVE  /\ SubSeq(s, 1, n) \in Seq(V) /\ s[n + 1] \in V
           /\ SubSeq(s, 1, n + 1) = Append(SubSeq(s, 1, n), s[n + 1])
<1> DEFINE a == SubSeq(s, 1, n)
           b == SubSeq(s, 1, n + 1)
<1>1. Len(s) \in Nat /\ n + 1 \in 1..Len(s)
  OBVIOUS
<1>2. a \in Seq(V) /\ Len(a) = n /\ \A i \in 1..n : a[i] = s[i]
  BY <1>1
<1>3. b \in Seq(V) /\ Len(b) = n + 1 /\ \A i \in 1..(n + 1) : b[i] = s[i]
  BY <1>1
<1> HIDE DEF a, b
<1>4. s[n + 1] \in V
  BY <1>1
<1>5. /\ Append(a, s[n + 1]) \in Seq(V) /\ Len(Append(a, s[n + 1])) = n + 1
      /\ \A i \in 1..n : Append(a, s[n + 1])[i] = a[i]
      /\ Append(a, s[n + 1])[n + 1] = s[n + 1]
  BY <1>2, <1>4
<1>6. \A i \in 1..(n + 1) : i \in 1..n \/ i = n + 1
  OBVIOUS
<1>7. b = Append(a, s[n + 1])
  BY <1>2, <1>3, <1>5, <1>6
<1>8. QED
  BY <1>2, <1>4, <1>7 DEF a, b

LEMMA Difference ==
    ASSUME NEW a \in Nat, NEW b \in Nat, b <= a
    PROVE  a - b \in 0..a
OBVIOUS

LEMMA EndsAppend ==
    ASSUME NEW V, NEW s \in Seq(V), NEW t \in Seq(V), NEW e \in V, Ends(t, s)
    PROVE  /\ Ends(Append(t, e), Append(s, e))
           /\ Before(Append(t, e), Append(s, e)) = Before(t, s)
<1> DEFINE u == Append(t, e)
           v == Append(s, e)
<1>1. PICK m \in Nat : m = Len(s)
  OBVIOUS
<1>2. PICK n \in Nat : n = Len(t)
  OBVIOUS
<1>3. n <= m /\ \A k \in 1..n : t[k] = s[m - n + k]
  BY <1>1, <1>2 DEF Ends
<1>4. /\ u \in Seq(V) /\ Len(u) = n + 1 /\ v \in Seq(V) /\ Len(v) = m + 1
      /\ \A k \in 1..m : v[k] = s[k]
      /\ \A k \in 1..n : u[k] = t[k]
      /\ u[n + 1] = e /\ v[m + 1] = e
  BY <1>1, <1>2
<1> HIDE DEF u, v
<1>5. Len(u) <= Len(v) /\ Len(v) - Len(u) = m - n
  BY <1>3, <1>4
<1>6. ASSUME NEW k \in 1..(n + 1)
      PROVE  u[k] = v[m - n + k]
  <2>1. CASE k = n + 1
    <3>1. m - n + k = m + 1
      BY <2>1
    <3>2. QED
      BY <1>4, <2>1, <3>1
  <2>2. CASE k \in 1..n
    <3>1. m - n + k \in 1..m
      BY <1>3, <2>2
    <3>2. QED
      BY <1>3, <1>4, <2>2, <3>1
  <2>3. QED
    BY <2>1, <2>2
<1>7. Ends(u, v)
  BY <1>4, <1>5, <1>6 DEF Ends
<1>8. SubSeq(v, 1, m - n) = SubSeq(s, 1, m - n)
  <2>1. PICK d \in 0..m : d = m - n
    BY <1>3
  <2>2. SubSeq(v, 1, d) = SubSeq(s, 1, d)
    BY <1>1, <1>4, <2>1
  <2>3. QED
    BY <2>1, <2>2
<1>9. Before(u, v) = Before(t, s)
  BY <1>1, <1>2, <1>5, <1>8 DEF Before
<1>10. QED
  BY <1>7, <1>9 DEF u, v

LEMMA EndsTail ==
    ASSUME NEW V, NEW s \in Seq(V), NEW t \in Seq(V), t # <<>>, Ends(t, s)
    PROVE  /\ Ends(Tail(t), s)
           /\ Before(Tail(t), s) = Append(Before(t, s), Head(t))
<1> DEFINE u == Tail(t)
<1>1. PICK m \in Nat : m = Len(s)
  OBVIOUS
<1>2. PICK n \in Nat : n = Len(t)
  OBVIOUS
<1>3. n <= m /\ (\A k \in 1..n : t[k] = s[m - n + k]) /\ n >= 1
  BY <1>1, <1>2 DEF Ends
<1>4. u \in Seq(V) /\ Len(u) = n - 1 /\ \A k \in 1..(n - 1) : u[k] = t[k + 1]
  BY <1>2, <1>3
<1> HIDE DEF u
<1>5. Len(s) - Len(u) = (m - n) + 1 /\ Len(u) <= Len(s) /\ m - n \in Nat /\ m - n < Len(s)
  BY <1>1, <1>3, <1>4
<1>6. ASSUME NEW k \in 1..(n - 1)
      PROVE  u[k] = s[(m - n) + 1 + k]
  <2>1. k + 1 \in 1..n /\ (m - n) + 1 + k = m - n + (k + 1)
    BY <1>3
  <2>2. t[k + 1] = s[m - n + (k + 1)]
    BY <1>3, <2>1
  <2>3. QED
    BY <1>4, <2>1, <2>2
<1>7. Ends(u, s)
  BY <1>4, <1>5, <1>6 DEF Ends
<1>8. Head(t) = s[(m - n) + 1]
  <2>1. t[1] = s[m - n + 1]
    BY <1>3
  <2>2. QED
    BY <1>3, <2>1
<1>9. SubSeq(s, 1, (m - n) + 1) = Append(SubSeq(s, 1, m - n), s[(m - n) + 1])
  <2>1. PICK d \in Nat : d = m - n
    BY <1>5
  <2>2. SubSeq(s, 1, d + 1) = Append(SubSeq(s, 1, d), s[d + 1])
    BY <1>5, <2>1, HandledOne
  <2>3. QED
    BY <2>1, <2>2
<1>10. Before(u, s) = SubSeq(s, 1, (m - n) + 1)
  BY <1>5 DEF Before
<1>11. Before(t, s) = SubSeq(s, 1, m - n)
  BY <1>1, <1>2 DEF Before
<1>12. QED
  BY <1>7, <1>8, <1>9, <1>10, <1>11 DEF u

LEMMA HandledType ==
    ASSUME ws \in Sessions, QueueInv
    PROVE  Handled \in Seq(Messages)
<1>1. ws.log \in Seq(Messages) /\ Len(ws.inbox) \in Nat /\ Len(ws.inbox) <= Len(ws.log)
  BY DEF Sessions, QueueInv, Ends
<1>2. PICK m \in Nat, n \in Nat : m = Len(ws.log) /\ n = Len(ws.inbox)
  BY <1>1
<1>3. m - n \in 0..m
  BY <1>1, <1>2, Difference
<1>4. SubSeq(ws.log, 1, m - n) \in Seq(Messages)
  BY <1>1, <1>2, <1>3
<1>5. QED
  BY <1>2, <1>4 DEF Handled

\* How a session goes on.
SessionGoesOn ==
    \/ ws' = ws \/ ws' = NoSession
    \/ \E id \in MayBeId : OpenSession(id)
    \/ Dial \/ StartRouting
    \/ \E id \in Ids : ClientSends(id)
    \/ ClientLeaves \/ \E p \in Printers : PrinterCloses(p) \/ PrinterTaskEnds(p)
    \/ TakeMessage \/ SendToPrinter \/ MessageSent \/ ClientTaskEnds \/ CloseSession

LEMMA SessionSteps ==
    ASSUME [RoutingNext]_routingVars
    PROVE  SessionGoesOn
<1>1. CASE UNCHANGED routingVars
  BY <1>1 DEF routingVars, SessionGoesOn
<1>2. CASE SessionStep
  BY <1>2 DEF SessionStep, SessionGoesOn
<1>3. CASE Environment
  BY <1>3 DEF Environment, AddPrinter, RemovePrinter, StopServer, DiscoveryRequest, RateLimitEnds,
     Forget, Request, SessionGoesOn
<1>4. CASE Exchange
  BY <1>4 DEF Exchange, UpstreamAnswers, Chunk, UpstreamFails, EndOfBody, StreamBreaks, SessionGoesOn
<1>5. QED
  BY <1>1, <1>2, <1>3, <1>4 DEF RoutingNext

LEMMA NoSessionType == NoSession \in Sessions
<1>1. <<>> \in Seq(Printers) /\ <<>> \in Seq(Messages)
  OBVIOUS
<1>2. QED
  BY <1>1 DEF NoSession, Sessions

\* A session that is not open is easily in order.
LEMMA NotOpen ==
    ASSUME ws' \in Sessions, ws'.stage # "open", ws'.inbox = <<>>,
           ws'.stage # "connecting" => ws'.conns = <<>>,
           ws'.stage = "connecting" =>
              /\ Range(ws'.conns) \subseteq ws'.up /\ ws'.log = <<>> /\ ws'.client = "reading"
              /\ \A p \in Printers : ws'.reached[p] = <<>>
    PROVE  SessionInv'
<1>1. Len(ws'.log) \in Nat /\ Len(ws'.inbox) = 0 /\ ws'.stage \in {"none", "connecting", "closed"}
  BY DEF Sessions
<1>2. QueueInv'
  BY <1>1 DEF QueueInv, Ends
<1>3. ConnsInv'
  BY <1>1 DEF ConnsInv
<1>4. RoutedInv'
  BY DEF RoutedInv
<1>5. QED
  BY <1>2, <1>3, <1>4 DEF SessionInv

LEMMA OpenSessionKeeps ==
    ASSUME registry \in Seq(Printers), NEW id \in MayBeId, OpenSession(id)
    PROVE  SessionInv'
<1> DEFINE d == IF id = NoId THEN registry ELSE IF Registered(id) THEN <<id>> ELSE <<>>
<1>1. d \in Seq(Printers)
  <2>1. Range(registry) \subseteq Printers
    BY DEF Range
  <2>2. QED
    BY <2>1 DEF Registered
<1>2. ws' = [NoSession EXCEPT !.stage = "connecting", !.dial = d]
  BY DEF OpenSession
<1> HIDE DEF d
<1>3. /\ ws' \in Sessions /\ ws'.stage = "connecting" /\ ws'.inbox = <<>> /\ ws'.conns = <<>>
      /\ ws'.log = <<>> /\ ws'.client = "reading" /\ ws'.reached = [p \in Printers |-> <<>>]
  BY <1>1, <1>2, NoSessionType DEF NoSession, Sessions
<1>4. Range(ws'.conns) = {}
  BY <1>3, RangeEmpty
<1>5. QED
  BY <1>3, <1>4, NotOpen

LEMMA DialKeeps ==
    ASSUME SessionInv, Dial
    PROVE  SessionInv'
<1>1. /\ ws \in Sessions /\ ws.stage = "connecting" /\ ws.dial # <<>> /\ ws.dial \in Seq(Printers)
      /\ ws.conns \in Seq(Printers) /\ ws.up \in SUBSET Printers
  BY DEF SessionInv, Dial, Sessions
<1>2. ws.inbox = <<>>
  <2>1. Len(ws.log) = 0 /\ Len(ws.inbox) <= Len(ws.log) /\ ws.inbox \in Seq(Messages)
    BY <1>1 DEF SessionInv, QueueInv, Ends, Sessions
  <2>2. QED
    BY <2>1
<1>3. /\ ws.log = <<>> /\ ws.client = "reading" /\ \A p \in Printers : ws.reached[p] = <<>>
      /\ Range(ws.conns) \subseteq ws.up
  BY <1>1 DEF SessionInv, QueueInv, ConnsInv
<1> DEFINE p == Head(ws.dial)
<1>4. p \in Printers /\ Tail(ws.dial) \in Seq(Printers)
  BY <1>1
<1>5. CASE ws' = [ws EXCEPT !.dial = Tail(@), !.conns = Append(@, p), !.up = @ \union {p}]
  <2> HIDE DEF p
  <2>1. Append(ws.conns, p) \in Seq(Printers) /\ ws.up \union {p} \in SUBSET Printers
    BY <1>1, <1>4
  <2>2. /\ ws' \in Sessions /\ ws'.stage = "connecting" /\ ws'.inbox = <<>>
        /\ ws'.conns = Append(ws.conns, p) /\ ws'.up = ws.up \union {p}
        /\ ws'.log = <<>> /\ ws'.client = "reading" /\ ws'.reached = ws.reached
    BY <1>1, <1>2, <1>3, <1>4, <1>5, <2>1 DEF Sessions
  <2>3. Range(ws'.conns) \subseteq ws'.up
    BY <1>1, <1>3, <1>4, <2>2, RangeAppend
  <2>4. QED
    BY <1>3, <2>2, <2>3, NotOpen
<1>6. CASE ws' = [ws EXCEPT !.dial = Tail(@)]
  <2>1. /\ ws' \in Sessions /\ ws'.stage = "connecting" /\ ws'.inbox = <<>>
        /\ ws'.conns = ws.conns /\ ws'.up = ws.up
        /\ ws'.log = <<>> /\ ws'.client = "reading" /\ ws'.reached = ws.reached
    BY <1>1, <1>2, <1>3, <1>4, <1>6 DEF Sessions
  <2>2. QED
    BY <1>3, <2>1, NotOpen
<1>7. QED
  BY <1>5, <1>6 DEF Dial

LEMMA CleanedUpKeeps ==
    ASSUME SessionInv, ws' = CleanedUp
    PROVE  SessionInv'
<1>1. <<>> \in Seq(Printers) /\ <<>> \in Seq(Messages)
  OBVIOUS
<1>2. ws' \in Sessions /\ ws'.stage = "closed" /\ ws'.inbox = <<>> /\ ws'.conns = <<>>
  BY <1>1 DEF SessionInv, CleanedUp, Sessions
<1>3. QED
  BY <1>2, NotOpen

LEMMA StartRoutingKeeps ==
    ASSUME SessionInv, StartRouting
    PROVE  SessionInv'
<1>1. /\ ws \in Sessions /\ ws.stage = "connecting" /\ ws.conns \in Seq(Printers)
      /\ ws.log \in Seq(Messages) /\ ws.inbox \in Seq(Messages)
  BY DEF SessionInv, StartRouting, Sessions
<1>2. CASE ws.conns = <<>>
  <2>1. ws' = CleanedUp
    BY <1>2 DEF StartRouting
  <2>2. QED
    BY <2>1, CleanedUpKeeps
<1>3. CASE ws.conns # <<>>
  <2>1. ws' = [ws EXCEPT !.stage = "open", !.started = Range(ws.conns)]
    BY <1>3 DEF StartRouting
  <2>2. Range(ws.conns) \in SUBSET Printers
    BY <1>1 DEF Range
  <2>3. /\ ws' \in Sessions /\ ws'.stage = "open" /\ ws'.started = Range(ws.conns)
        /\ ws'.conns = ws.conns /\ ws'.log = ws.log /\ ws'.inbox = ws.inbox
        /\ ws'.client = ws.client /\ ws'.reached = ws.reached
    BY <1>1, <2>1, <2>2 DEF Sessions
  <2>4. /\ ws.log = <<>> /\ ws.client = "reading" /\ \A p \in Printers : ws.reached[p] = <<>>
    BY <1>1 DEF SessionInv, QueueInv
  <2>5. Len(ws.log) = 0 /\ Len(ws.inbox) = 0
    <3>1. Len(ws.log) = 0 /\ Len(ws.inbox) <= Len(ws.log) /\ Len(ws.inbox) \in Nat
      BY <1>1, <2>4 DEF SessionInv, QueueInv, Ends
    <3>2. QED
      BY <3>1
  <2>6. ConnsInv' /\ QueueInv'
    BY <2>3, <2>5 DEF ConnsInv, QueueInv, Ends
  <2>7. Handled' = <<>>
    <3>1. Handled' = SubSeq(ws.log, 1, 0)
      BY <2>3, <2>5 DEF Handled
    <3>2. QED
      BY <1>1, <3>1
  <2>8. ASSUME NEW p \in Range(ws.conns)
        PROVE  RoutedAt(p)'
    <3>1. p \in Printers /\ ws'.reached[p] = <<>>
      BY <2>2, <2>3, <2>4
    <3>2. ~Delivered(p)'
      BY <2>3, <2>4 DEF Delivered
    <3>3. QED
      BY <2>7, <3>1, <3>2, ForEmpty DEF RoutedAt
  <2>9. RoutedInv'
    BY <2>3, <2>4, <2>8 DEF RoutedInv, SendingInv
  <2>10. QED
    BY <2>3, <2>6, <2>9 DEF SessionInv
<1>4. QED
  BY <1>2, <1>3
\* What an open session is made of.
LEMMA OpenSessionIs ==
    ASSUME SessionInv, ws.stage = "open"
    PROVE  /\ ws \in Sessions /\ ws.conns \in Seq(Printers) /\ Range(ws.conns) \subseteq Printers
           /\ Range(ws.conns) \subseteq ws.started /\ ws.started \in SUBSET Printers
           /\ ws.log \in Seq(Messages) /\ ws.inbox \in Seq(Messages) /\ ws.to \in Seq(Printers)
           /\ ws.reached \in [Printers -> Seq(Messages)] /\ ws.up \in SUBSET Printers
           /\ Handled \in Seq(Messages) /\ Ends(ws.inbox, ws.log) /\ SendingInv
           /\ ws.client # "ended" => \A p \in Range(ws.conns) : RoutedAt(p)
<1>1. ws \in Sessions /\ ConnsInv /\ QueueInv /\ RoutedInv
  BY DEF SessionInv
<1>2. /\ ws.conns \in Seq(Printers) /\ ws.started \in SUBSET Printers
      /\ ws.log \in Seq(Messages) /\ ws.inbox \in Seq(Messages) /\ ws.to \in Seq(Printers)
      /\ ws.reached \in [Printers -> Seq(Messages)] /\ ws.up \in SUBSET Printers
  BY <1>1 DEF Sessions
<1>3. Range(ws.conns) \subseteq Printers /\ Range(ws.conns) \subseteq ws.started
  BY <1>1, <1>2 DEF Range, ConnsInv
<1>4. Handled \in Seq(Messages)
  BY <1>1, HandledType
<1>5. QED
  BY <1>1, <1>2, <1>3, <1>4 DEF QueueInv, RoutedInv

\* A step of an open session that leaves its queue and its deliveries alone.
LEMMA QuietStep ==
    ASSUME SessionInv, ws.stage = "open", ws' \in Sessions, ws'.stage = "open",
           ws'.log = ws.log, ws'.inbox = ws.inbox, ws'.to = ws.to, ws'.reached = ws.reached,
           ws'.client = ws.client \/ ws'.client = "ended", ws'.started = ws.started,
           Range(ws'.conns) \subseteq Range(ws.conns)
    PROVE  SessionInv'
<1>1. /\ Range(ws.conns) \subseteq ws.started /\ QueueInv /\ SendingInv
      /\ ws.client # "ended" => \A p \in Range(ws.conns) : RoutedAt(p)
  BY OpenSessionIs DEF SessionInv
<1>2. ConnsInv' /\ QueueInv'
  BY <1>1 DEF ConnsInv, QueueInv
<1>3. SendingInv'
  BY <1>1 DEF SendingInv
<1>4. ASSUME ws'.client # "ended", NEW p \in Range(ws'.conns)
      PROVE  RoutedAt(p)'
  <2>1. RoutedAt(p) /\ ws'.client = ws.client
    BY <1>1, <1>4
  <2>2. Handled' = Handled /\ (Delivered(p)' <=> Delivered(p))
    BY <2>1 DEF Handled, Delivered
  <2>3. QED
    BY <2>1, <2>2 DEF RoutedAt
<1>5. RoutedInv'
  BY <1>3, <1>4 DEF RoutedInv
<1>6. QED
  BY <1>2, <1>5 DEF SessionInv

LEMMA ClientSendsKeeps ==
    ASSUME SessionInv, RoutingAssumption, NEW id \in Ids, ClientSends(id)
    PROVE  SessionInv'
<1>1. ws.stage = "open" /\ Len(ws.log) < MaxMessages
  BY DEF ClientSends
<1>2. /\ ws \in Sessions /\ Range(ws.conns) \subseteq ws.started
      /\ ws.log \in Seq(Messages) /\ ws.inbox \in Seq(Messages)
      /\ Ends(ws.inbox, ws.log) /\ SendingInv
      /\ ws.client # "ended" => \A p \in Range(ws.conns) : RoutedAt(p)
  BY <1>1, OpenSessionIs
<1> DEFINE m == [n |-> Len(ws.log) + 1, id |-> id]
           l == Append(ws.log, m)
           i == Append(ws.inbox, m)
<1>3. m \in Messages
  <2>1. PICK n \in Nat : n = Len(ws.log)
    BY <1>2
  <2>2. n + 1 \in 1..MaxMessages
    BY <1>1, <2>1 DEF RoutingAssumption
  <2>3. QED
    BY <2>1, <2>2 DEF Messages
<1>4. ws' = [ws EXCEPT !.log = l, !.inbox = i]
  BY DEF ClientSends
<1> HIDE DEF m
<1>5. l \in Seq(Messages) /\ i \in Seq(Messages)
  BY <1>2, <1>3
<1>6. Ends(i, l) /\ Before(i, l) = Before(ws.inbox, ws.log)
  BY <1>2, <1>3, EndsAppend
<1>7. ASSUME ws.inbox # <<>>
      PROVE  i # <<>> /\ Head(i) = Head(ws.inbox)
  BY <1>2, <1>3, <1>7
<1> HIDE DEF l, i
<1>8. /\ ws' \in Sessions /\ ws'.stage = "open" /\ ws'.log = l /\ ws'.inbox = i
      /\ ws'.conns = ws.conns /\ ws'.started = ws.started /\ ws'.to = ws.to
      /\ ws'.client = ws.client /\ ws'.reached = ws.reached
  BY <1>1, <1>2, <1>4, <1>5 DEF Sessions
<1>9. ConnsInv' /\ QueueInv'
  BY <1>2, <1>6, <1>8 DEF ConnsInv, QueueInv
<1>10. Handled' = Handled
  BY <1>6, <1>8 DEF Handled, Before
<1>11. SendingInv'
  BY <1>2, <1>7, <1>8 DEF SendingInv
<1>12. ASSUME ws.client # "ended", NEW p \in Range(ws.conns)
       PROVE  RoutedAt(p)'
  <2>1. RoutedAt(p)
    BY <1>2, <1>12
  <2>2. CASE ws.client = "sending"
    <3>1. Head(i) = Head(ws.inbox)
      BY <1>2, <1>7, <2>2 DEF SendingInv
    <3>2. Delivered(p)' <=> Delivered(p)
      BY <1>8, <3>1 DEF Delivered
    <3>3. QED
      BY <1>8, <1>10, <2>1, <3>1, <3>2 DEF RoutedAt
  <2>3. CASE ws.client # "sending"
    <3>1. ~Delivered(p)' /\ ~Delivered(p)
      BY <1>8, <2>3 DEF Delivered
    <3>2. QED
      BY <1>8, <1>10, <2>1, <3>1 DEF RoutedAt
  <2>4. QED
    BY <2>2, <2>3
<1>13. RoutedInv'
  BY <1>8, <1>11, <1>12 DEF RoutedInv
<1>14. QED
  BY <1>8, <1>9, <1>13 DEF SessionInv

\* Steps that only take connections away, or end a task.
LEMMA LeavesKeep ==
    ASSUME SessionInv, ClientLeaves \/ ClientTaskEnds \/ \E p \in Printers : PrinterCloses(p) \/ PrinterTaskEnds(p)
    PROVE  SessionInv'
<1>1. ws.stage = "open"
  BY DEF ClientLeaves, ClientTaskEnds, PrinterCloses, PrinterTaskEnds
<1>2. ws \in Sessions /\ ws.conns \in Seq(Printers) /\ ws.up \in SUBSET Printers
  BY <1>1, OpenSessionIs
<1>3. CASE ClientLeaves
  <2>1. ws' = [ws EXCEPT !.left = TRUE]
    BY <1>3 DEF ClientLeaves
  <2>2. QED
    BY <1>1, <1>2, <2>1, QuietStep DEF Sessions
<1>4. CASE ClientTaskEnds
  <2>1. ws' = [ws EXCEPT !.client = "ended"]
    BY <1>4 DEF ClientTaskEnds
  <2>2. QED
    BY <1>1, <1>2, <2>1, QuietStep DEF Sessions
<1>5. ASSUME NEW p \in Printers, PrinterCloses(p)
      PROVE  SessionInv'
  <2>1. ws' = [ws EXCEPT !.up = ws.up \ {p}]
    BY <1>5 DEF PrinterCloses
  <2>2. ws.up \ {p} \in SUBSET Printers
    BY <1>2
  <2>3. QED
    BY <1>1, <1>2, <2>1, <2>2, QuietStep DEF Sessions
<1>6. ASSUME NEW p \in Printers, PrinterTaskEnds(p)
      PROVE  SessionInv'
  <2> DEFINE c == Only(ws.conns, Printers \ {p})
  <2>1. ws' = [ws EXCEPT !.conns = c]
    BY <1>6 DEF PrinterTaskEnds
  <2>2. c \in Seq(Printers) /\ Range(c) \subseteq Range(ws.conns)
    BY <1>2, OnlyType, OnlyRange
  <2> HIDE DEF c
  <2>3. QED
    BY <1>1, <1>2, <2>1, <2>2, QuietStep DEF Sessions
<1>7. QED
  BY <1>3, <1>4, <1>5, <1>6

LEMMA TakeMessageKeeps ==
    ASSUME SessionInv, TakeMessage
    PROVE  SessionInv'
<1>1. ws.stage = "open" /\ ws.client = "reading" /\ ws.inbox # <<>>
  BY DEF TakeMessage
<1>2. /\ ws \in Sessions /\ Range(ws.conns) \subseteq ws.started /\ Range(ws.conns) \subseteq Printers
      /\ ws.conns \in Seq(Printers) /\ ws.inbox \in Seq(Messages) /\ QueueInv
      /\ \A p \in Range(ws.conns) : RoutedAt(p)
  BY <1>1, OpenSessionIs DEF SessionInv
<1> DEFINE h == Head(ws.inbox)
           d == Destinations(h)
<1>3. d \in Seq(Printers) /\ (h.id \in Range(ws.conns) => d = <<h.id>>)
  BY <1>2 DEF Destinations
<1>4. ws' = [ws EXCEPT !.client = "sending", !.to = d, !.snapshot = ws.conns]
  BY DEF TakeMessage
<1> HIDE DEF d
<1>5. /\ ws' \in Sessions /\ ws'.stage = "open" /\ ws'.log = ws.log /\ ws'.inbox = ws.inbox
      /\ ws'.conns = ws.conns /\ ws'.started = ws.started /\ ws'.to = d
      /\ ws'.client = "sending" /\ ws'.reached = ws.reached
  BY <1>1, <1>2, <1>3, <1>4 DEF Sessions
<1>6. ConnsInv' /\ QueueInv'
  BY <1>2, <1>5 DEF ConnsInv, QueueInv
<1>7. SendingInv'
  BY <1>1, <1>3, <1>5 DEF SendingInv
<1>8. ASSUME NEW p \in Range(ws.conns)
      PROVE  RoutedAt(p)'
  <2>1. RoutedAt(p) /\ ~Delivered(p)
    BY <1>1, <1>2 DEF Delivered
  <2>2. ~Delivered(p)'
    <3>1. h.id = p => d = <<h.id>>
      BY <1>3
    <3>2. <<h.id>> # <<>>
      OBVIOUS
    <3>3. QED
      BY <1>5, <3>1, <3>2 DEF Delivered
  <2>3. Handled' = Handled
    BY <1>5 DEF Handled
  <2>4. QED
    BY <1>5, <2>1, <2>2, <2>3 DEF RoutedAt
<1>9. RoutedInv'
  BY <1>5, <1>7, <1>8 DEF RoutedInv
<1>10. QED
  BY <1>5, <1>6, <1>9 DEF SessionInv

LEMMA SendToPrinterKeeps ==
    ASSUME SessionInv, SendToPrinter
    PROVE  SessionInv'
<1>1. ws.stage = "open" /\ ws.client = "sending" /\ ws.to # <<>>
  BY DEF SendToPrinter
<1>2. /\ ws \in Sessions /\ Range(ws.conns) \subseteq ws.started /\ Range(ws.conns) \subseteq Printers
      /\ ws.inbox \in Seq(Messages) /\ ws.to \in Seq(Printers) /\ QueueInv
      /\ ws.reached \in [Printers -> Seq(Messages)] /\ Handled \in Seq(Messages)
      /\ SendingInv /\ \A p \in Range(ws.conns) : RoutedAt(p)
  BY <1>1, OpenSessionIs DEF SessionInv
<1> DEFINE q == Head(ws.to)
           h == Head(ws.inbox)
<1>3. ws.inbox # <<>> /\ h \in Messages /\ q \in Printers /\ Tail(ws.to) \in Seq(Printers)
  BY <1>1, <1>2 DEF SendingInv
<1>4. CASE q \in ws.up
  <2> DEFINE r == [ws.reached EXCEPT ![q] = Append(@, h)]
             t == Tail(ws.to)
  <2>1. ws' = [ws EXCEPT !.to = t, !.reached = r]
    BY <1>4 DEF SendToPrinter
  <2>2. /\ r \in [Printers -> Seq(Messages)] /\ r[q] = Append(ws.reached[q], h)
        /\ \A p \in Printers : p # q => r[p] = ws.reached[p]
    <3>1. Append(ws.reached[q], h) \in Seq(Messages)
      BY <1>2, <1>3
    <3>2. QED
      BY <1>2, <1>3, <3>1
  <2>3. t \in Seq(Printers)
    BY <1>3
  <2>4. ASSUME h.id \in Range(ws.conns)
        PROVE  q = h.id /\ t = <<>>
    <3>1. ws.to = <<h.id>>
      BY <1>1, <1>2, <2>4 DEF SendingInv
    <3>2. QED
      BY <3>1
  <2> HIDE DEF r, t
  <2>5. /\ ws' \in Sessions /\ ws'.stage = "open" /\ ws'.log = ws.log /\ ws'.inbox = ws.inbox
        /\ ws'.conns = ws.conns /\ ws'.started = ws.started /\ ws'.to = t
        /\ ws'.client = "sending" /\ ws'.reached = r
    BY <1>1, <1>2, <2>1, <2>2, <2>3 DEF Sessions
  <2>6. ConnsInv' /\ QueueInv'
    BY <1>2, <2>5 DEF ConnsInv, QueueInv
  <2>7. SendingInv'
    BY <1>3, <2>4, <2>5 DEF SendingInv
  <2>8. ASSUME NEW p \in Range(ws.conns)
        PROVE  RoutedAt(p)'
    <3>1. RoutedAt(p) /\ ~Delivered(p) /\ p \in Printers
      BY <1>1, <1>2 DEF Delivered
    <3>2. For(p, ws.reached[p]) = For(p, Handled)
          /\ \A o \in Range(ws.conns) \ {p} : For(o, ws.reached[p]) = <<>>
      BY <3>1 DEF RoutedAt
    <3>3. Handled' = Handled
      BY <2>5 DEF Handled
    <3>4. ws.reached[p] \in Seq(Messages)
      BY <1>2, <3>1
    <3>5. CASE h.id = p
      <4>1. q = p /\ t = <<>>
        BY <2>4, <3>5
      <4>2. Delivered(p)'
        BY <2>5, <3>5, <4>1 DEF Delivered
      <4>3. r[p] = Append(ws.reached[p], h)
        BY <2>2, <4>1
      <4>4. For(p, r[p]) = Append(For(p, Handled), h)
        BY <1>3, <3>2, <3>4, <3>5, <4>3, ForAppend
      <4>5. ASSUME NEW o \in Range(ws.conns) \ {p}
            PROVE  For(o, r[p]) = <<>>
        <5>1. h.id # o
          BY <3>5
        <5>2. For(o, Append(ws.reached[p], h)) = For(o, ws.reached[p])
          BY <1>3, <3>4, <5>1, ForAppend
        <5>3. QED
          BY <3>2, <4>3, <5>2
      <4>6. QED
        BY <2>5, <3>3, <4>2, <4>4, <4>5 DEF RoutedAt
    <3>6. CASE h.id # p
      <4>1. ~Delivered(p)'
        BY <2>5, <3>6 DEF Delivered
      <4>2. ASSUME NEW o \in Range(ws.conns)
            PROVE  For(o, r[p]) = For(o, ws.reached[p])
        <5>1. CASE p = q
          <6>1. h.id # o
            <7>1. ASSUME h.id = o PROVE FALSE
              BY <2>4, <3>6, <5>1, <7>1
            <7>2. QED
              BY <7>1
          <6>2. For(o, Append(ws.reached[p], h)) = For(o, ws.reached[p])
            BY <1>3, <3>4, <6>1, ForAppend
          <6>3. r[p] = Append(ws.reached[p], h)
            BY <2>2, <5>1
          <6>4. QED
            BY <6>2, <6>3
        <5>2. CASE p # q
          <6>1. r[p] = ws.reached[p]
            BY <2>2, <3>1, <5>2
          <6>2. QED
            BY <6>1
        <5>3. QED
          BY <5>1, <5>2
      <4>3. QED
        BY <2>5, <3>2, <3>3, <4>1, <4>2 DEF RoutedAt
    <3>7. QED
      BY <3>5, <3>6
  <2>9. RoutedInv'
    BY <2>5, <2>7, <2>8 DEF RoutedInv
  <2>10. QED
    BY <2>5, <2>6, <2>9 DEF SessionInv
<1>5. CASE q \notin ws.up
  <2>1. ws' = [ws EXCEPT !.client = "ended", !.to = <<>>]
    BY <1>5 DEF SendToPrinter
  <2>2. <<>> \in Seq(Printers)
    OBVIOUS
  <2>3. /\ ws' \in Sessions /\ ws'.stage = "open" /\ ws'.log = ws.log /\ ws'.inbox = ws.inbox
        /\ ws'.conns = ws.conns /\ ws'.started = ws.started /\ ws'.client = "ended"
    BY <1>1, <1>2, <2>1, <2>2 DEF Sessions
  <2>4. ConnsInv' /\ QueueInv' /\ RoutedInv'
    BY <1>2, <2>3 DEF ConnsInv, QueueInv, RoutedInv, SendingInv
  <2>5. QED
    BY <2>3, <2>4 DEF SessionInv
<1>6. QED
  BY <1>4, <1>5

LEMMA MessageSentKeeps ==
    ASSUME SessionInv, MessageSent
    PROVE  SessionInv'
<1>1. ws.stage = "open" /\ ws.client = "sending" /\ ws.to = <<>>
  BY DEF MessageSent
<1>2. /\ ws \in Sessions /\ Range(ws.conns) \subseteq ws.started
      /\ ws.log \in Seq(Messages) /\ ws.inbox \in Seq(Messages) /\ Ends(ws.inbox, ws.log)
      /\ Handled \in Seq(Messages) /\ SendingInv /\ \A p \in Range(ws.conns) : RoutedAt(p)
  BY <1>1, OpenSessionIs
<1> DEFINE h == Head(ws.inbox)
           t == Tail(ws.inbox)
           c == IF Head(ws.inbox).id \notin Range(ws.snapshot) /\ ws.conns # ws.snapshot
                THEN "ended" ELSE "reading"
<1>3. ws.inbox # <<>> /\ h \in Messages /\ t \in Seq(Messages)
  BY <1>1, <1>2 DEF SendingInv
<1>4. ws' = [ws EXCEPT !.inbox = t, !.client = c]
  BY DEF MessageSent
<1>5. c \in {"reading", "ended"}
  OBVIOUS
<1>6. Ends(t, ws.log) /\ Before(t, ws.log) = Append(Before(ws.inbox, ws.log), h)
  BY <1>2, <1>3, EndsTail
<1> HIDE DEF c, t, h
<1>7. /\ ws' \in Sessions /\ ws'.stage = "open" /\ ws'.log = ws.log /\ ws'.inbox = t
      /\ ws'.conns = ws.conns /\ ws'.started = ws.started
      /\ ws'.client = c /\ ws'.reached = ws.reached
  BY <1>1, <1>2, <1>3, <1>4, <1>5 DEF Sessions
<1>8. ConnsInv' /\ QueueInv'
  BY <1>2, <1>6, <1>7 DEF ConnsInv, QueueInv
<1>9. Handled' = Append(Handled, h)
  BY <1>6, <1>7 DEF Handled, Before
<1>10. SendingInv'
  BY <1>5, <1>7 DEF SendingInv
<1>11. ASSUME NEW p \in Range(ws.conns)
       PROVE  RoutedAt(p)'
  <2>1. RoutedAt(p) /\ (Delivered(p) <=> h.id = p)
    BY <1>1, <1>2 DEF Delivered, h
  <2>2. ~Delivered(p)'
    BY <1>5, <1>7 DEF Delivered
  <2>3. PICK s \in Seq(Messages) : s = Handled
    BY <1>2
  <2>4. For(p, Append(s, h)) = IF h.id = p THEN Append(For(p, s), h) ELSE For(p, s)
    BY <1>3, ForAppend
  <2>5. For(p, ws.reached[p]) = For(p, Handled')
    BY <1>9, <2>1, <2>3, <2>4 DEF RoutedAt, h
  <2>6. QED
    BY <1>7, <2>1, <2>2, <2>5 DEF RoutedAt
<1>12. RoutedInv'
  BY <1>7, <1>10, <1>11 DEF RoutedInv
<1>13. QED
  BY <1>7, <1>8, <1>12 DEF SessionInv

LEMMA SessionKept ==
    ASSUME SessionInv, RoutingAssumption, registry \in Seq(Printers), [RoutingNext]_routingVars
    PROVE  SessionInv'
<1>1. SessionGoesOn
  BY SessionSteps
<1>2. CASE ws' = ws
  <2>1. ws' \in Sessions /\ ConnsInv' /\ QueueInv'
    BY <1>2 DEF SessionInv, ConnsInv, QueueInv
  <2>2. RoutedInv'
    BY <1>2 DEF SessionInv, RoutedInv, SendingInv, RoutedAt, Delivered, Handled
  <2>3. QED
    BY <2>1, <2>2 DEF SessionInv
<1>3. CASE ws' = NoSession
  <2>1. ws' \in Sessions /\ ws'.stage = "none" /\ ws'.inbox = <<>> /\ ws'.conns = <<>>
    BY <1>3, NoSessionType DEF NoSession
  <2>2. QED
    BY <2>1, NotOpen
<1>4. CASE \E id \in MayBeId : OpenSession(id)
  BY <1>4, OpenSessionKeeps
<1>5. CASE Dial \/ StartRouting \/ TakeMessage \/ SendToPrinter \/ MessageSent
  BY <1>5, DialKeeps, StartRoutingKeeps, TakeMessageKeeps, SendToPrinterKeeps, MessageSentKeeps
<1>6. CASE \E id \in Ids : ClientSends(id)
  BY <1>6, ClientSendsKeeps
<1>7. CASE ClientLeaves \/ ClientTaskEnds \/ \E p \in Printers : PrinterCloses(p) \/ PrinterTaskEnds(p)
  BY <1>7, LeavesKeep
<1>8. CASE CloseSession
  BY <1>8, CleanedUpKeeps DEF CloseSession
<1>9. QED
  BY <1>1, <1>2, <1>3, <1>4, <1>5, <1>6, <1>7, <1>8 DEF SessionGoesOn
-----------------------------------------------------------------------------
(***************************************************************************)
(* The invariant of the proxy's traffic, and the theorems.                 *)
(***************************************************************************)
RegistryInv ==
    /\ registry \in Seq(Printers) /\ IsInjective(registry)
    /\ serving \in BOOLEAN /\ quiet \in BOOLEAN

RoutingInv == RegistryInv /\ HttpInv /\ SessionInv /\ NamedPrinterIsServed /\ ScriptArrives

LEMMA RoutingTyped ==
    ASSUME RegistryInv, HttpInv, SessionInv
    PROVE  RoutingTypeOK
<1>1. ws \in Sessions /\ ws.conns \in Seq(Printers)
  BY DEF SessionInv, Sessions
<1>2. Range(ws.conns) \subseteq ws.started \union ws.up
  <2>1. CASE ws.stage \in {"none", "closed"}
    BY <2>1, RangeEmpty DEF SessionInv, ConnsInv
  <2>2. CASE ws.stage \in {"connecting", "open"}
    BY <2>2 DEF SessionInv, ConnsInv
  <2>3. ws.stage \in {"none", "connecting", "open", "closed"}
    BY <1>1 DEF Sessions
  <2>4. QED
    BY <2>1, <2>2, <2>3
<1>3. http.stage \in {"asked", "streaming"} => http.target \in Printers
  BY DEF HttpInv, AskedInv, BodyInv
<1>4. QED
  BY <1>1, <1>2, <1>3 DEF RoutingTypeOK, RegistryInv, HttpInv, HttpStages

LEMMA RegistryKept ==
    ASSUME RegistryInv, [RoutingNext]_routingVars
    PROVE  RegistryInv'
<1>1. CASE UNCHANGED <<registry, serving, quiet>>
  BY <1>1 DEF RegistryInv
<1>2. ASSUME NEW p \in Printers, AddPrinter(p)
      PROVE  RegistryInv'
  <2>1. Append(registry, p) \in Seq(Printers) /\ IsInjective(Append(registry, p))
    BY <1>2, InjectiveAppend DEF AddPrinter, RegistryInv
  <2>2. QED
    BY <1>2, <2>1 DEF AddPrinter, RegistryInv
<1>3. ASSUME NEW p \in Printers, RemovePrinter(p)
      PROVE  RegistryInv'
  <2> DEFINE r == Only(registry, Printers \ {p})
  <2>1. r \in Seq(Printers) /\ IsInjective(r)
    BY OnlyType, OnlyInjective DEF RegistryInv
  <2>2. QED
    BY <1>3, <2>1 DEF RemovePrinter, RegistryInv
<1>4. CASE StopServer \/ DiscoveryRequest \/ RateLimitEnds
  BY <1>4 DEF StopServer, DiscoveryRequest, RateLimitEnds, RegistryInv
<1>5. CASE SessionStep
  BY <1>1, <1>5 DEF SessionStep, Dial, StartRouting, TakeMessage, SendToPrinter, MessageSent,
     ClientTaskEnds, CloseSession, PrinterTaskEnds, proxy
<1>6. CASE Exchange
  BY <1>1, <1>6 DEF Exchange, UpstreamAnswers, Chunk, UpstreamFails, EndOfBody, StreamBreaks
<1>7. CASE Environment
  BY <1>1, <1>2, <1>3, <1>4, <1>7 DEF Environment, PrinterCloses, OpenSession, ClientSends,
     ClientLeaves, Forget, Request, proxy
<1>8. CASE UNCHANGED routingVars
  BY <1>1, <1>8 DEF routingVars
<1>9. QED
  BY <1>5, <1>6, <1>7, <1>8 DEF RoutingNext

LEMMA RoutingInvInit == RoutingInit => RoutingInv
<1> SUFFICES ASSUME RoutingInit PROVE RoutingInv
  OBVIOUS
<1>1. /\ registry = <<>> /\ serving = TRUE /\ quiet = FALSE
      /\ http = NoExchange /\ body = NoBody /\ ws = NoSession
  BY DEF RoutingInit
<1>2. RegistryInv
  <2>1. <<>> \in Seq(Printers) /\ IsInjective(<<>>)
    BY DEF IsInjective
  <2>2. QED
    BY <1>1, <2>1 DEF RegistryInv
<1>3. http.stage = "none"
  BY <1>1 DEF NoExchange
<1>4. HttpInv /\ NamedPrinterIsServed /\ ScriptArrives
  BY <1>1, <1>3, NoBodyType
     DEF HttpInv, HttpStages, AskedInv, BodyInv, NamedPrinterIsServed, ScriptArrives
<1>5. SessionInv
  <2>1. /\ ws \in Sessions /\ ws.stage = "none" /\ ws.conns = <<>> /\ ws.log = <<>> /\ ws.inbox = <<>>
    BY <1>1, NoSessionType DEF NoSession
  <2>2. Len(ws.log) = 0 /\ Len(ws.inbox) = 0
    BY <2>1
  <2>3. ConnsInv /\ QueueInv /\ RoutedInv
    BY <2>1, <2>2 DEF ConnsInv, QueueInv, Ends, RoutedInv
  <2>4. QED
    BY <2>1, <2>3 DEF SessionInv
<1>6. QED
  BY <1>2, <1>4, <1>5 DEF RoutingInv

LEMMA RoutingInvKept == RoutingInv /\ [RoutingNext]_routingVars => RoutingInv'
<1> SUFFICES ASSUME RoutingInv, [RoutingNext]_routingVars PROVE RoutingInv'
  OBVIOUS
<1>1. RoutingTypeOK /\ registry \in Seq(Printers)
  BY RoutingTyped DEF RoutingInv, RegistryInv
<1>2. RegistryInv'
  BY RegistryKept DEF RoutingInv
<1>3. HttpInv' /\ NamedPrinterIsServed' /\ ScriptArrives'
  BY <1>1, RoutingAssumption, ExchangeKept DEF RoutingInv
<1>4. SessionInv'
  BY <1>1, RoutingAssumption, SessionKept DEF RoutingInv
<1>5. QED
  BY <1>2, <1>3, <1>4 DEF RoutingInv

LEMMA SessionRouted == RoutingInv => SessionRouting
<1> SUFFICES ASSUME RoutingInv PROVE SessionRouting
  OBVIOUS
<1>1. RoutingTypeOK
  BY RoutingTyped DEF RoutingInv
<1>2. ASSUME ws.stage = "open", ws.client = "reading", NEW p \in Range(ws.conns)
      PROVE  /\ For(p, ws.reached[p]) = For(p, Handled)
             /\ \A q \in Range(ws.conns) \ {p} : For(q, ws.reached[p]) = <<>>
  <2>1. RoutedAt(p) /\ ~Delivered(p)
    BY <1>2 DEF RoutingInv, SessionInv, RoutedInv, Delivered
  <2>2. QED
    BY <2>1 DEF RoutedAt
<1>3. QED
  BY <1>1, <1>2 DEF SessionRouting

LEMMA RoutingInvariance == RoutingSpec => []RoutingInv
<1>1. QED
  BY RoutingInvInit, RoutingInvKept, PTL DEF RoutingSpec

(***************************************************************************)
(* Whatever printers, paths and ids there are: a request that names one    *)
(* registered printer, in its query, its path or its referer, is forwarded *)
(* to that one.                                                            *)
(***************************************************************************)
THEOREM NamedPrinterTheorem == RoutingSpec => []NamedPrinterIsServed
<1>1. RoutingInv => NamedPrinterIsServed
  BY DEF RoutingInv
<1>2. QED
  BY <1>1, RoutingInvariance, PTL

(***************************************************************************)
(* Whatever a script is, and wherever the printer's chunks end, inside an  *)
(* address or a URL too: what was written, what is kept back and what is   *)
(* still to come mean the script at every moment of its way.  When it has  *)
(* come in more than one chunk, every address is replaced and one URL at   *)
(* least has its id; unless the half that was written ended inside an      *)
(* address or a URL whose end had not come.  Printers with whose address   *)
(* the proxy's own begins are excepted.                                    *)
(***************************************************************************)
THEOREM ScriptTheorem == RoutingSpec => []ScriptArrives
<1>1. RoutingInv => ScriptArrives
  BY DEF RoutingInv
<1>2. QED
  BY <1>1, RoutingInvariance, PTL

(***************************************************************************)
(* Whatever printers leave a session, at whatever step of a message's way: *)
(* the state is well typed, and a printer that is still connected has got  *)
(* the messages that name it, once and in order, and no other printer's.   *)
(***************************************************************************)
THEOREM SessionRoutingTheorem == RoutingSpec => []SessionRouting
<1>1. QED
  BY SessionRouted, RoutingInvariance, PTL
-----------------------------------------------------------------------------
(***************************************************************************)
(* Length fields: what number they denote.                                 *)
(***************************************************************************)
LEMMA Remainder ==
    ASSUME NEW b \in Nat, b >= 2, NEW t \in Nat
    PROVE  /\ t % b \in 0..(b - 1) /\ t \div b \in Nat
           /\ t = b * (t \div b) + (t % b)
OBVIOUS

LEMMA Product ==
    ASSUME NEW b \in Nat, b >= 2, NEW x \in Nat
    PROVE  b * x \in Nat /\ (x >= 1 => b * x >= b)
OBVIOUS

LEMMA SameDigits ==
    ASSUME NEW b \in Nat, b >= 2, NEW x \in Nat, NEW y \in Nat,
           NEW q \in 0..(b - 1), NEW r \in 0..(b - 1), b * x + q = b * y + r
    PROVE  x = y /\ q = r
OBVIOUS

\* v tells what the last digits of d denote.
Values(v, d) ==
    /\ v[0] = 0
    /\ \A k \in 1..Len(d) : v[k] = (d[Len(d) - k + 1] % Base) + Base * v[k - 1]

LEMMA NumberIs ==
    ASSUME NEW d \in Seq(Bytes)
    PROVE  \E v \in [0..Len(d) -> Nat] : Values(v, d) /\ Number(d) = v[Len(d)]
<1> DEFINE Solves(f) == f = [k \in 0..Len(d) |->
                IF k = 0 THEN 0 ELSE (d[Len(d) - k + 1] % Base) + Base * f[k - 1]]
           h == CHOOSE f : Solves(f)
           g == [x \in Nat |-> [k \in 1..Len(d) |-> (d[Len(d) - k + 1] % Base) + Base * x]]
           n == Len(d)
<1>0. Base \in Nat /\ Base >= 2 /\ n \in Nat /\ 0 \in Nat
  BY FramingAssumption
<1>1. ASSUME NEW x \in Nat, NEW k \in 1..n
      PROVE  (d[n - k + 1] % Base) + Base * x \in Nat
  <2>1. n - k + 1 \in 1..Len(d)
    BY <1>0
  <2>2. d[n - k + 1] \in Nat
    BY <1>0, <2>1 DEF Bytes
  <2>3. d[n - k + 1] % Base \in Nat
    BY <1>0, <2>2, Remainder
  <2>4. Base * x \in Nat
    BY <1>0, Product
  <2>5. QED
    BY <2>3, <2>4
<1>2. \A x \in Nat : \A k \in 1..n : g[x][k] = (d[n - k + 1] % Base) + Base * x
  OBVIOUS
<1> HIDE DEF g
<1>3. PICK f \in [0..n -> Nat] : f[0] = 0 /\ \A k \in 1..n : f[k] = g[f[k - 1]][k]
  <2>1. \A x \in Nat : \A k \in 1..n : g[x][k] \in Nat
    BY <1>1, <1>2
  <2> HIDE DEF n, h
  <2>2. Recursive(n, Nat, 0, g)
    BY <1>0, <2>1, Recursion
  <2>3. QED
    BY <2>2 DEF Recursive
<1>4. ASSUME NEW k \in 1..n
      PROVE  f[k] = (d[n - k + 1] % Base) + Base * f[k - 1]
  <2>1. k - 1 \in 0..n
    BY <1>0
  <2>2. f[k - 1] \in Nat
    BY <2>1
  <2>3. QED
    BY <1>2, <1>3, <2>2
<1>5. Solves(f)
  <2>1. ASSUME NEW k \in 0..n
        PROVE  f[k] = IF k = 0 THEN 0 ELSE (d[Len(d) - k + 1] % Base) + Base * f[k - 1]
    <3>1. CASE k = 0
      BY <1>3, <3>1
    <3>2. CASE k # 0
      <4>1. k \in 1..n
        BY <3>2
      <4>2. QED
        BY <1>4, <3>2, <4>1
    <3>3. QED
      BY <3>1, <3>2
  <2>2. QED
    BY <2>1
<1>6. Solves(h)
  BY <1>5
<1>7. Number(d) = h[n]
  BY DEF Number
<1> HIDE DEF h
<1>8. h[0] = 0
  BY <1>0, <1>6
<1>9. \A k \in 1..n : h[k] = (d[n - k + 1] % Base) + Base * h[k - 1]
  <2> SUFFICES ASSUME NEW k \in 1..n
               PROVE  h[k] = (d[n - k + 1] % Base) + Base * h[k - 1]
    OBVIOUS
  <2>1. k \in 0..n /\ k # 0
    BY <1>0
  <2>2. QED
    BY <1>6, <2>1
<1>10. h \in [0..n -> Nat]
  <2> DEFINE P == {m \in 0..n : h[m] \in Nat}
  <2>1. 0 \in P
    <3>1. 0 \in 0..n
      BY <1>0
    <3>2. QED
      BY <1>8, <3>1
  <2>2. ASSUME NEW m \in 0..(n - 1), m \in P
        PROVE  m + 1 \in P
    <3>1. m + 1 \in 1..n /\ m + 1 \in 0..n /\ (m + 1) - 1 = m /\ h[m] \in Nat
      BY <1>0, <2>2
    <3>2. h[m + 1] = (d[n - (m + 1) + 1] % Base) + Base * h[m]
      BY <1>9, <3>1
    <3>3. QED
      BY <1>1, <3>1, <3>2
  <2>3. P \subseteq 0..n /\ \A m \in P : h[m] \in Nat
    OBVIOUS
  <2> HIDE DEF P, n
  <2>4. \A m \in 0..n : h[m] \in Nat
    BY <1>0, <2>1, <2>2, <2>3, UpTo
  <2>5. QED
    BY <1>6, <2>4 DEF n
<1>11. QED
  BY <1>7, <1>8, <1>9, <1>10 DEF Values

LEMMA Digit ==
    ASSUME NEW e \in Bytes
    PROVE  /\ e % Base \in 0..(Base - 1)
           /\ e % Base = IF e < Base THEN e ELSE e - Base
<1>0. Base \in Nat /\ Base >= 2 /\ e \in Nat /\ e <= 2 * Base - 1
  BY FramingAssumption DEF Bytes
<1>1. e % Base \in 0..(Base - 1) /\ e \div Base \in Nat /\ e = Base * (e \div Base) + (e % Base)
  BY <1>0, Remainder
<1>2. CASE e < Base
  <2>1. Base * 0 + e = Base * (e \div Base) + (e % Base) /\ e \in 0..(Base - 1)
    BY <1>0, <1>1, <1>2
  <2>2. e % Base = e
    BY <1>0, <1>1, <2>1, SameDigits
  <2>3. QED
    BY <1>1, <1>2, <2>2
<1>3. CASE e >= Base
  <2>1. Base * 1 + (e - Base) = Base * (e \div Base) + (e % Base) /\ e - Base \in 0..(Base - 1)
    BY <1>0, <1>1, <1>3
  <2>2. e % Base = e - Base
    BY <1>0, <1>1, <2>1, SameDigits
  <2>3. QED
    BY <1>0, <1>1, <1>3, <2>2
<1>4. QED
  BY <1>0, <1>2, <1>3

\* w tells what d denotes without its first digits.
Rests(w, d) ==
    /\ w[0] = Number(d) /\ w[Len(d)] = 0
    /\ \A j \in 1..Len(d) : w[j - 1] = (d[j] % Base) + Base * w[j]

LEMMA NumberRests ==
    ASSUME NEW d \in Seq(Bytes)
    PROVE  \E w \in [0..Len(d) -> Nat] : Rests(w, d)
<1> DEFINE n == Len(d)
<1>0. n \in Nat
  OBVIOUS
<1>1. PICK v \in [0..Len(d) -> Nat] : Values(v, d) /\ Number(d) = v[Len(d)]
  BY NumberIs
<1> DEFINE w == [j \in 0..n |-> v[n - j]]
<1>2. \A j \in 0..n : n - j \in 0..n /\ w[j] = v[n - j]
  BY <1>0
<1>3. w \in [0..n -> Nat]
  BY <1>1, <1>2
<1> HIDE DEF w
<1>4. w[0] = Number(d) /\ w[n] = 0
  <2>1. 0 \in 0..n /\ n \in 0..n /\ n - 0 = n /\ n - n = 0
    BY <1>0
  <2>2. QED
    BY <1>1, <1>2, <2>1 DEF Values
<1>5. ASSUME NEW j \in 1..n
      PROVE  w[j - 1] = (d[j] % Base) + Base * w[j]
  <2> DEFINE k == n - j + 1
  <2>1. /\ k \in 1..n /\ j \in 0..n /\ j - 1 \in 0..n
        /\ n - (j - 1) = k /\ k - 1 = n - j /\ n - k + 1 = j
    BY <1>0
  <2> HIDE DEF k
  <2>2. v[k] = (d[n - k + 1] % Base) + Base * v[k - 1]
    BY <1>1, <2>1 DEF Values
  <2>3. QED
    BY <1>2, <2>1, <2>2
<1>6. QED
  BY <1>3, <1>4, <1>5 DEF Rests

LEMMA NumberType ==
    ASSUME NEW d \in Seq(Bytes)
    PROVE  Number(d) \in Nat
<1>1. PICK w \in [0..Len(d) -> Nat] : Rests(w, d)
  BY NumberRests
<1>2. 0 \in 0..Len(d)
  OBVIOUS
<1>3. QED
  BY <1>1, <1>2 DEF Rests

LEMMA FieldIs ==
    ASSUME NEW d \in LengthFields
    PROVE  /\ d \in Seq(Bytes) /\ Len(d) \in 1..4
           /\ \A i \in 1..Len(d) : d[i] >= Base <=> i < Len(d)
           /\ Len(d) > 1 => d[Len(d)] # 0
<1>1. PICK k \in 1..4 : d \in [1..k -> Bytes]
  BY DEF LengthFields
<1>2. d \in Seq(Bytes) /\ Len(d) = k /\ DOMAIN d = 1..Len(d)
  BY <1>1
<1>3. QED
  BY <1>2 DEF LengthFields

LEMMA FieldIsOne ==
    ASSUME NEW d \in Seq(Bytes), Len(d) \in 1..4,
           \A i \in 1..Len(d) : d[i] >= Base <=> i < Len(d),
           Len(d) > 1 => d[Len(d)] # 0
    PROVE  d \in LengthFields
<1>1. d \in [1..Len(d) -> Bytes] /\ DOMAIN d = 1..Len(d)
  OBVIOUS
<1>2. d \in UNION {[1..k -> Bytes] : k \in 1..4}
  BY <1>1
<1>3. QED
  BY <1>1, <1>2 DEF LengthFields

\* No field is longer than need be: what its last digits denote is not 0.
LEMMA RestsArePositive ==
    ASSUME NEW d \in LengthFields, NEW w \in [0..Len(d) -> Nat], Rests(w, d)
    PROVE  \A j \in 0..(Len(d) - 1) : Len(d) > 1 => w[j] > 0
<1> DEFINE n == Len(d)
<1>0. Base \in Nat /\ Base >= 2 /\ n \in 1..4 /\ n \in Nat /\ d \in Seq(Bytes)
  BY FieldIs, FramingAssumption
<1> SUFFICES ASSUME n > 1
             PROVE  \A j \in 0..(n - 1) : w[j] > 0
  OBVIOUS
<1> DEFINE P == {i \in 0..(n - 1) : w[n - 1 - i] > 0}
<1>1. 0 \in P
  <2>1. d[n] \in Bytes /\ d[n] < Base /\ d[n] # 0
    <3>1. n \in 1..n /\ d[n] \in Bytes
      BY <1>0
    <3>2. ~(d[n] >= Base)
      BY <3>1, FieldIs
    <3>3. d[n] # 0
      BY FieldIs
    <3>4. QED
      BY <1>0, <3>1, <3>2, <3>3 DEF Bytes
  <2>2. d[n] % Base = d[n]
    BY <2>1, Digit
  <2>3. w[n - 1] = (d[n] % Base) + Base * w[n] /\ w[n] = 0
    BY <1>0 DEF Rests
  <2>4. d[n] \in Nat
    BY <1>0, <2>1 DEF Bytes
  <2>5. Base * 0 = 0
    BY <1>0
  <2>6. w[n - 1] > 0
    BY <2>1, <2>2, <2>3, <2>4, <2>5
  <2>7. n - 1 - 0 = n - 1 /\ 0 \in 0..(n - 1)
    BY <1>0
  <2>8. QED
    BY <2>6, <2>7
<1>2. ASSUME NEW i \in 0..((n - 1) - 1), i \in P
      PROVE  i + 1 \in P
  <2> DEFINE j == n - 1 - i
  <2>1. i + 1 \in 0..(n - 1) /\ j \in 1..n /\ n - 1 - (i + 1) = j - 1 /\ w[j] > 0 /\ j \in 0..n /\ j - 1 \in 0..n
    BY <1>0, <1>2
  <2> HIDE DEF j
  <2>2. w[j - 1] = (d[j] % Base) + Base * w[j] /\ w[j] \in Nat /\ d[j] \in Bytes
    BY <1>0, <2>1 DEF Rests
  <2>3. Base * w[j] \in Nat /\ Base * w[j] >= Base
    BY <1>0, <2>1, <2>2, Product
  <2>4. d[j] % Base \in Nat
    BY <1>0, <2>2, Digit
  <2>5. w[j - 1] > 0
    BY <1>0, <2>2, <2>3, <2>4
  <2>6. QED
    BY <2>1, <2>5
<1>3. P \subseteq 0..(n - 1) /\ \A i \in P : w[n - 1 - i] > 0
  OBVIOUS
<1> HIDE DEF P
<1>4. \A i \in 0..(n - 1) : i \in P
  <2>1. n - 1 \in Nat
    BY <1>0
  <2> DEFINE m == n - 1
  <2>2. \A i \in 0..(m - 1) : i \in P => i + 1 \in P
    BY <1>2
  <2> HIDE DEF m
  <2>3. m \in Nat
    BY <2>1 DEF m
  <2>4. \A i \in 0..m : i \in P
    BY <1>1, <2>2, <2>3, UpTo
  <2>5. QED
    BY <2>4 DEF m
<1>5. ASSUME NEW j \in 0..(n - 1)
      PROVE  w[j] > 0
  <2>1. n - 1 - j \in 0..(n - 1) /\ n - 1 - (n - 1 - j) = j
    BY <1>0
  <2>2. QED
    BY <1>3, <1>4, <2>1
<1>6. QED
  BY <1>5

\* l tells what is left of n after each digit.
Divides(l, n) ==
    /\ l[0] = n
    /\ \A i \in 1..(n + 1) : l[i] = l[i - 1] \div Base

Divided(n) ==
    CHOOSE l : l = [i \in 0..(n + 1) |-> IF i = 0 THEN n ELSE l[i - 1] \div Base]

LEMMA DividedIs ==
    ASSUME NEW n \in Nat
    PROVE  Divided(n) \in [0..(n + 1) -> Nat] /\ Divides(Divided(n), n)
<1> DEFINE Solves(f) == f = [i \in 0..(n + 1) |-> IF i = 0 THEN n ELSE f[i - 1] \div Base]
           h == CHOOSE f : Solves(f)
           g == [x \in Nat |-> [i \in 1..(n + 1) |-> x \div Base]]
           m == n + 1
<1>0. Base \in Nat /\ Base >= 2 /\ m \in Nat /\ 0 \in 0..m
  BY FramingAssumption
<1>1. \A x \in Nat : x \div Base \in Nat
  BY <1>0, Remainder
<1>2. \A x \in Nat : \A i \in 1..m : g[x][i] = x \div Base
  OBVIOUS
<1> HIDE DEF g
<1>3. PICK f \in [0..m -> Nat] : f[0] = n /\ \A i \in 1..m : f[i] = g[f[i - 1]][i]
  <2>1. \A x \in Nat : \A i \in 1..m : g[x][i] \in Nat
    BY <1>1, <1>2
  <2> HIDE DEF m, h
  <2>2. Recursive(m, Nat, n, g)
    BY <1>0, <2>1, Recursion
  <2>3. QED
    BY <2>2 DEF Recursive
<1>4. ASSUME NEW i \in 1..m
      PROVE  f[i] = f[i - 1] \div Base
  <2>1. i - 1 \in 0..m
    BY <1>0
  <2>2. f[i - 1] \in Nat
    BY <2>1
  <2>3. QED
    BY <1>2, <1>3, <2>2
<1>5. Solves(f)
  <2>1. ASSUME NEW i \in 0..m
        PROVE  f[i] = IF i = 0 THEN n ELSE f[i - 1] \div Base
    <3>1. CASE i = 0
      BY <1>3, <3>1
    <3>2. CASE i # 0
      <4>1. i \in 1..m
        BY <3>2
      <4>2. QED
        BY <1>4, <3>2, <4>1
    <3>3. QED
      BY <3>1, <3>2
  <2>2. QED
    BY <2>1
<1>6. Solves(h)
  BY <1>5
<1>7. Divided(n) = h
  BY DEF Divided
<1> HIDE DEF h
<1>8. h[0] = n
  BY <1>0, <1>6
<1>9. \A i \in 1..m : h[i] = h[i - 1] \div Base
  <2> SUFFICES ASSUME NEW i \in 1..m
               PROVE  h[i] = h[i - 1] \div Base
    OBVIOUS
  <2>1. i \in 0..m /\ i # 0
    BY <1>0
  <2>2. QED
    BY <1>6, <2>1
<1>10. h \in [0..m -> Nat]
  <2> DEFINE P == {i \in 0..m : h[i] \in Nat}
  <2>1. 0 \in P
    BY <1>0, <1>8
  <2>2. ASSUME NEW i \in 0..(m - 1), i \in P
        PROVE  i + 1 \in P
    <3>1. i + 1 \in 1..m /\ i + 1 \in 0..m /\ (i + 1) - 1 = i /\ h[i] \in Nat
      BY <1>0, <2>2
    <3>2. h[i + 1] = h[i] \div Base
      BY <1>9, <3>1
    <3>3. QED
      BY <1>1, <3>1, <3>2
  <2>3. P \subseteq 0..m /\ \A i \in P : h[i] \in Nat
    OBVIOUS
  <2> HIDE DEF P, m
  <2>4. \A i \in 0..m : h[i] \in Nat
    BY <1>0, <2>1, <2>2, <2>3, UpTo
  <2>5. QED
    BY <1>6, <2>4 DEF m
<1>11. QED
  BY <1>7, <1>8, <1>9, <1>10 DEF Divides

LEMMA Smaller ==
    ASSUME NEW b \in Nat, b >= 2, NEW x \in Nat
    PROVE  (x > 0 => x \div b < x) /\ (x = 0 => x \div b = 0)
<1>1. x \div b \in Nat /\ x % b \in 0..(b - 1) /\ x = b * (x \div b) + (x % b)
  BY Remainder
<1> DEFINE q == x \div b
           r == x % b
<1> HIDE DEF q, r
<1>2. q \in Nat /\ r \in Nat /\ x = b * q + r
  BY <1>1 DEF q, r
<1>3. b * q >= 2 * q
  BY <1>2
<1>4. (x > 0 => q < x) /\ (x = 0 => q = 0)
  BY <1>2, <1>3
<1>5. QED
  BY <1>4 DEF q

\* The loop ends: nothing is left after some digit.
LEMMA NothingIsLeft ==
    ASSUME NEW n \in Nat, NEW l \in [0..(n + 1) -> Nat], Divides(l, n)
    PROVE  \E s \in 1..(n + 1) : l[s] = 0 /\ \A j \in 1..(s - 1) : l[j] # 0
<1>0. Base \in Nat /\ Base >= 2 /\ n + 1 \in Nat
  BY FramingAssumption
<1> DEFINE P == {i \in 0..(n + 1) : l[i] = 0 \/ l[i] + i <= n}
           m == n + 1
<1>1. 0 \in P
  BY <1>0 DEF Divides
<1>2. ASSUME NEW i \in 0..(m - 1), i \in P
      PROVE  i + 1 \in P
  <2>1. i + 1 \in 1..(n + 1) /\ i + 1 \in 0..(n + 1) /\ (i + 1) - 1 = i /\ i \in 0..(n + 1) /\ (l[i] = 0 \/ l[i] + i <= n)
    BY <1>0, <1>2
  <2>2. l[i + 1] = l[i] \div Base /\ l[i] \in Nat /\ l[i + 1] \in Nat
    BY <2>1 DEF Divides
  <2>3. (l[i] > 0 => l[i + 1] < l[i]) /\ (l[i] = 0 => l[i + 1] = 0)
    BY <1>0, <2>2, Smaller
  <2>4. l[i + 1] = 0 \/ l[i + 1] + (i + 1) <= n
    BY <2>1, <2>2, <2>3
  <2>5. QED
    BY <2>1, <2>4
<1>3. \A i \in P : l[i] = 0 \/ l[i] + i <= n
  OBVIOUS
<1> HIDE DEF P
<1>4. n + 1 \in P
  <2> HIDE DEF m
  <2>1. m \in Nat
    BY <1>0 DEF m
  <2>2. m \in P
    BY <1>1, <1>2, <2>1, UpTo
  <2>3. QED
    BY <2>2 DEF m
<1>5. n + 1 \in 0..(n + 1) /\ n + 1 \in 1..(n + 1)
  BY <1>0
<1>6. l[n + 1] \in Nat
  BY <1>5
<1>7. l[n + 1] = 0
  BY <1>3, <1>4, <1>6
<1> DEFINE T == {i \in 1..(n + 1) : l[i] = 0}
<1>8. T \subseteq Nat /\ n + 1 \in T
  BY <1>0, <1>5, <1>7
<1> HIDE DEF T
<1>9. PICK s \in T : \A y \in T : ~(y < s)
  BY <1>8, Least
<1>10. s \in 1..(n + 1) /\ l[s] = 0
  BY <1>9 DEF T
<1>11. ASSUME NEW j \in 1..(s - 1)
       PROVE  l[j] # 0
  <2>1. j \in 1..(n + 1) /\ j < s
    BY <1>10
  <2>2. j \notin T
    BY <1>9, <2>1
  <2>3. QED
    BY <2>1, <2>2 DEF T
<1>12. QED
  BY <1>10, <1>11

\* What EncodeLength makes of n, of which l tells what is left: s digits.
Encodes(e, l, s) ==
    e = [i \in 1..s |-> (l[i - 1] % Base) + (IF i < s THEN Base ELSE 0)]

LEMMA EncodeIs ==
    ASSUME NEW n \in Nat
    PROVE  \E l \in [0..(n + 1) -> Nat] : \E s \in 1..(n + 1) :
              /\ Divides(l, n) /\ l[s] = 0 /\ \A j \in 1..(s - 1) : l[j] # 0
              /\ Encodes(EncodeLength[n], l, s)
<1> DEFINE l == Divided(n)
           Finished(i) == l[i] = 0 /\ \A j \in 1..(i - 1) : l[j] # 0
           s == CHOOSE i \in 1..(n + 1) : Finished(i)
<1>1. l \in [0..(n + 1) -> Nat] /\ Divides(l, n)
  BY DividedIs
<1>2. EncodeLength[n] = [i \in 1..s |-> (l[i - 1] % Base) + (IF i < s THEN Base ELSE 0)]
  BY DEF EncodeLength, Divided
<1> HIDE DEF l
<1>3. \E i \in 1..(n + 1) : Finished(i)
  BY <1>1, NothingIsLeft
<1>4. s \in 1..(n + 1) /\ Finished(s)
  BY <1>3
<1> HIDE DEF s
<1>5. QED
  BY <1>1, <1>2, <1>4 DEF Encodes

\* A length is written in one way.
LEMMA FieldIsEncoded ==
    ASSUME NEW d \in LengthFields
    PROVE  Number(d) \in Nat /\ EncodeLength[Number(d)] = d
<1> DEFINE n == Number(d)
           k == Len(d)
<1>0. /\ Base \in Nat /\ Base >= 2 /\ d \in Seq(Bytes) /\ k \in Nat /\ k >= 1
      /\ \A i \in 1..k : d[i] \in Bytes /\ (d[i] >= Base <=> i < k)
  BY FieldIs, FramingAssumption
<1>1. n \in Nat
  BY <1>0, NumberType
<1>2. PICK w \in [0..k -> Nat] : Rests(w, d)
  BY <1>0, NumberRests
<1>3. PICK l \in [0..(n + 1) -> Nat], s \in 1..(n + 1) :
              /\ Divides(l, n) /\ l[s] = 0 /\ \A j \in 1..(s - 1) : l[j] # 0
              /\ Encodes(EncodeLength[n], l, s)
  BY <1>1, EncodeIs
<1>4. \A j \in 0..(k - 1) : k > 1 => w[j] > 0
  BY <1>2, RestsArePositive
<1>5. w[0] = n /\ l[0] = n /\ w[k] = 0
  BY <1>2, <1>3 DEF Rests, Divides
<1> HIDE DEF n, k
\* The two go on alike, digit by digit.
<1>6. ASSUME NEW j \in 1..k, j <= s, w[j - 1] = l[j - 1]
      PROVE  w[j] = l[j] /\ d[j] % Base = l[j - 1] % Base
  <2>1. /\ j \in 0..k /\ j \in 1..(n + 1) /\ j \in 0..(n + 1) /\ j - 1 \in 0..(n + 1)
        /\ d[j] \in Bytes
    BY <1>0, <1>1, <1>6
  <2>2. w[j - 1] = (d[j] % Base) + Base * w[j]
    BY <1>2 DEF Rests, k
  <2>3. l[j] = l[j - 1] \div Base /\ l[j - 1] \in Nat /\ l[j] \in Nat /\ w[j] \in Nat
    BY <1>2, <1>3, <2>1 DEF Divides
  <2>4. l[j - 1] % Base \in 0..(Base - 1) /\ l[j - 1] = Base * l[j] + (l[j - 1] % Base)
    BY <1>0, <2>3, Remainder
  <2>5. d[j] % Base \in 0..(Base - 1)
    BY <2>1, Digit
  <2>6. Base * w[j] \in Nat /\ Base * l[j] \in Nat
    BY <1>0, <2>3, Product
  <2>7. Base * w[j] + (d[j] % Base) = Base * l[j] + (l[j - 1] % Base)
    BY <1>0, <1>6, <2>2, <2>4, <2>5, <2>6
  <2>8. PICK q \in 0..(Base - 1) : q = d[j] % Base
    BY <2>5
  <2>9. PICK r \in 0..(Base - 1) : r = l[j - 1] % Base
    BY <2>4
  <2>10. PICK x \in Nat : x = w[j]
    BY <2>3
  <2>11. PICK y \in Nat : y = l[j]
    BY <2>3
  <2>12. Base * x + q = Base * y + r
    BY <2>7, <2>8, <2>9, <2>10, <2>11
  <2>13. x = y /\ q = r
    <3>1. Base \in Nat /\ Base >= 2
      BY <1>0
    <3>2. QED
      BY <2>12, <3>1, SameDigits
  <2>14. QED
    BY <2>8, <2>9, <2>10, <2>11, <2>13
<1> DEFINE P == {j \in 0..k : j <= s => w[j] = l[j]}
<1>7. 0 \in P
  BY <1>0, <1>5
<1>8. ASSUME NEW j \in 0..(k - 1), j \in P
      PROVE  j + 1 \in P
  <2> SUFFICES ASSUME j + 1 <= s
               PROVE  w[j + 1] = l[j + 1]
    BY <1>0
  <2>1. j + 1 \in 1..k /\ (j + 1) - 1 = j /\ j <= s
    BY <1>0, <1>1
  <2>2. w[j] = l[j]
    BY <1>8, <2>1
  <2>3. QED
    BY <1>6, <2>1, <2>2
<1>9. \A j \in P : j <= s => w[j] = l[j]
  OBVIOUS
<1> HIDE DEF P
<1>10. \A j \in 0..k : j <= s => w[j] = l[j]
  BY <1>0, <1>7, <1>8, <1>9, UpTo
<1>11. k = s
  <2>1. CASE k < s
    <3>1. k \in 1..(s - 1) /\ k \in 0..k /\ k <= s
      BY <1>0, <1>1, <2>1
    <3>2. w[k] = l[k] /\ l[k] # 0
      BY <1>3, <1>10, <3>1
    <3>3. QED
      BY <1>5, <3>2
  <2>2. CASE s < k
    <3>1. s \in 0..(k - 1) /\ s \in 0..k /\ s <= s /\ k > 1
      BY <1>0, <1>1, <2>2
    <3>2. w[s] = l[s] /\ w[s] > 0
      BY <1>4, <1>10, <3>1
    <3>3. QED
      BY <1>3, <3>2
  <2>3. QED
    BY <1>0, <1>1, <2>1, <2>2
<1>12. ASSUME NEW j \in 1..k
       PROVE  d[j] = (l[j - 1] % Base) + (IF j < s THEN Base ELSE 0)
  <2>1. j - 1 \in 0..k /\ j - 1 <= s /\ j <= s /\ d[j] \in Bytes
    BY <1>0, <1>11
  <2>2. w[j - 1] = l[j - 1]
    BY <1>10, <2>1
  <2>3. d[j] % Base = l[j - 1] % Base
    BY <1>6, <2>1, <2>2
  <2>4. d[j] % Base = IF d[j] < Base THEN d[j] ELSE d[j] - Base
    BY <2>1, Digit
  <2>5. d[j] \in Nat
    BY <1>0, <2>1 DEF Bytes
  <2>6. CASE j < k
    <3>1. d[j] >= Base
      BY <1>0, <2>6
    <3>2. d[j] - Base = l[j - 1] % Base
      BY <1>0, <2>3, <2>4, <2>5, <3>1
    <3>3. QED
      BY <1>0, <1>11, <2>5, <2>6, <3>2
  <2>7. CASE ~(j < k)
    <3>1. ~(d[j] >= Base)
      BY <1>0, <2>7
    <3>2. d[j] = l[j - 1] % Base
      BY <1>0, <2>3, <2>4, <2>5, <3>1
    <3>3. QED
      BY <1>0, <1>11, <2>5, <2>7, <3>2
  <2>8. QED
    BY <2>6, <2>7
<1>13. d = [j \in 1..k |-> d[j]]
  BY <1>0 DEF k
<1>14. d = EncodeLength[n]
  BY <1>3, <1>11, <1>12, <1>13 DEF Encodes
<1>15. QED
  BY <1>1, <1>14 DEF n

\* The largest length that has a field is below this.
Limit == Base * (Base * (Base * Base))

LEMMA BelowProduct ==
    ASSUME NEW b \in Nat, b >= 2, NEW x \in Nat, NEW y \in Nat, NEW r \in 0..(b - 1)
    PROVE  r + b * x < b * y <=> x < y
<1>1. CASE x < y
  <2>1. x + 1 <= y
    BY <1>1
  <2>2. b * (x + 1) <= b * y
    BY <2>1
  <2>3. b * (x + 1) = b * x + b
    OBVIOUS
  <2>4. b * x \in Nat /\ b * y \in Nat
    BY Product
  <2>5. QED
    BY <1>1, <2>2, <2>3, <2>4
<1>2. CASE y <= x
  <2>1. b * y <= b * x
    BY <1>2
  <2>2. b * x \in Nat /\ b * y \in Nat
    BY Product
  <2>3. QED
    BY <1>2, <2>1, <2>2
<1>3. QED
  BY <1>1, <1>2

LEMMA QuotientBelow ==
    ASSUME NEW b \in Nat, b >= 2, NEW x \in Nat, NEW y \in Nat, x < b * y
    PROVE  x \div b < y
<1>1. x \div b \in Nat /\ x % b \in 0..(b - 1) /\ x = b * (x \div b) + (x % b)
  BY Remainder
<1> DEFINE q == x \div b
           r == x % b
<1> HIDE DEF q, r
<1>2. q \in Nat /\ r \in 0..(b - 1) /\ x = b * q + r
  BY <1>1 DEF q, r
<1>3. b * q \in Nat
  BY <1>2, Product
<1>4. r + b * q < b * y
  BY <1>2, <1>3
<1>5. QED
  BY <1>2, <1>4, BelowProduct DEF q

LEMMA FieldIsBelow ==
    ASSUME NEW d \in LengthFields
    PROVE  Number(d) < Limit
<1> DEFINE k == Len(d)
<1>0. /\ Base \in Nat /\ Base >= 2 /\ d \in Seq(Bytes) /\ k \in 1..4 /\ k \in Nat
      /\ \A i \in 1..k : d[i] \in Bytes
  BY FieldIs, FramingAssumption
<1>1. PICK w \in [0..k -> Nat] : Rests(w, d)
  BY <1>0, NumberRests
<1>2. w[0] = Number(d) /\ w[k] = 0
  BY <1>1 DEF Rests
<1>3. ASSUME NEW j \in 1..k, NEW y \in Nat, w[j] < y
      PROVE  w[j - 1] < Base * y
  <2>1. w[j - 1] = (d[j] % Base) + Base * w[j] /\ j \in 0..k
    BY <1>0, <1>1 DEF Rests
  <2>2. w[j] \in Nat /\ d[j] % Base \in 0..(Base - 1)
    BY <1>0, <1>1, <2>1, Digit
  <2>3. (d[j] % Base) + Base * w[j] < Base * y
    BY <1>0, <1>3, <2>2, BelowProduct
  <2>4. QED
    BY <2>1, <2>3
<1> DEFINE B2 == Base * Base
           B3 == Base * B2
           B4 == Base * B3
<1>4. B2 \in Nat /\ Base <= B2
  BY <1>0
<1> HIDE DEF B2
<1>5. B3 \in Nat /\ B2 <= B3
  BY <1>0, <1>4
<1> HIDE DEF B3
<1>6. B4 \in Nat /\ B3 <= B4
  BY <1>0, <1>5
<1>7. B4 = Limit
  BY DEF B2, B3, B4, Limit
<1> HIDE DEF B4, k
<1>8. w[k - 1] < Base
  <2>1. k \in 1..k /\ 1 \in Nat /\ w[k] < 1
    BY <1>0, <1>2
  <2>2. w[k - 1] < Base * 1
    BY <1>3, <2>1
  <2>3. QED
    BY <1>0, <2>2
<1>9. CASE k = 1
  BY <1>0, <1>2, <1>4, <1>5, <1>6, <1>7, <1>8, <1>9
<1>10. CASE k = 2
  <2>1. w[0] < B2
    <3>1. 1 \in 1..k /\ w[1] < Base
      BY <1>8, <1>10
    <3>2. w[1 - 1] < Base * Base
      BY <1>0, <1>3, <3>1
    <3>3. QED
      BY <3>2 DEF B2
  <2>2. w[0] \in Nat
    BY <1>0, <1>1
  <2>3. QED
    BY <1>0, <1>2, <1>4, <1>5, <1>6, <1>7, <2>1, <2>2
<1>11. CASE k = 3
  <2>1. w[1] < B2
    <3>1. 2 \in 1..k /\ w[2] < Base
      BY <1>8, <1>11
    <3>2. w[2 - 1] < Base * Base
      BY <1>0, <1>3, <3>1
    <3>3. QED
      BY <3>2 DEF B2
  <2>2. w[0] < B3
    <3>1. 1 \in 1..k
      BY <1>11
    <3>2. w[1 - 1] < Base * B2
      BY <1>3, <1>4, <2>1, <3>1
    <3>3. QED
      BY <3>2 DEF B3
  <2>3. w[0] \in Nat
    BY <1>0, <1>1
  <2>4. QED
    BY <1>0, <1>2, <1>4, <1>5, <1>6, <1>7, <2>2, <2>3
<1>12. CASE k = 4
  <2>1. w[2] < B2
    <3>1. 3 \in 1..k /\ w[3] < Base
      BY <1>8, <1>12
    <3>2. w[3 - 1] < Base * Base
      BY <1>0, <1>3, <3>1
    <3>3. QED
      BY <3>2 DEF B2
  <2>2. w[1] < B3
    <3>1. 2 \in 1..k
      BY <1>12
    <3>2. w[2 - 1] < Base * B2
      BY <1>3, <1>4, <2>1, <3>1
    <3>3. QED
      BY <3>2 DEF B3
  <2>3. w[0] < B4
    <3>1. 1 \in 1..k
      BY <1>12
    <3>2. w[1 - 1] < Base * B3
      BY <1>3, <1>5, <2>2, <3>1
    <3>3. QED
      BY <3>2 DEF B4
  <2>4. QED
    BY <1>2, <1>7, <2>3
<1>13. QED
  BY <1>0, <1>9, <1>10, <1>11, <1>12

\* Every length below the limit has a field, which EncodeLength writes.
LEMMA EncodedIsField ==
    ASSUME NEW n \in Nat, n < Limit
    PROVE  EncodeLength[n] \in LengthFields /\ Number(EncodeLength[n]) = n
<1> DEFINE e == EncodeLength[n]
<1>0. Base \in Nat /\ Base >= 2
  BY FramingAssumption
<1>1. PICK l \in [0..(n + 1) -> Nat], s \in 1..(n + 1) :
              /\ Divides(l, n) /\ l[s] = 0 /\ \A j \in 1..(s - 1) : l[j] # 0
              /\ Encodes(EncodeLength[n], l, s)
  BY EncodeIs
<1>2. e = [i \in 1..s |-> (l[i - 1] % Base) + (IF i < s THEN Base ELSE 0)]
  BY <1>1 DEF Encodes
<1> HIDE DEF e
<1>3. ASSUME NEW i \in 1..s
      PROVE  /\ l[i - 1] \in Nat /\ l[i] \in Nat
             /\ l[i - 1] % Base \in 0..(Base - 1)
             /\ l[i - 1] = Base * l[i] + (l[i - 1] % Base)
             /\ e[i] \in Bytes /\ (e[i] >= Base <=> i < s)
             /\ e[i] % Base = l[i - 1] % Base
  <2>1. i - 1 \in 0..(n + 1) /\ i \in 0..(n + 1) /\ i \in 1..(n + 1)
    OBVIOUS
  <2>2. l[i - 1] \in Nat /\ l[i] \in Nat /\ l[i] = l[i - 1] \div Base
    BY <1>1, <2>1 DEF Divides
  <2>3. l[i - 1] % Base \in 0..(Base - 1) /\ l[i - 1] = Base * l[i] + (l[i - 1] % Base)
    BY <1>0, <2>2, Remainder
  <2>4. e[i] = (l[i - 1] % Base) + (IF i < s THEN Base ELSE 0)
    BY <1>2
  <2>5. PICK r \in 0..(Base - 1) : r = l[i - 1] % Base
    BY <2>3
  <2>6. e[i] \in Bytes /\ (e[i] >= Base <=> i < s)
    BY <1>0, <2>4, <2>5 DEF Bytes
  <2>7. e[i] % Base = IF e[i] < Base THEN e[i] ELSE e[i] - Base
    BY <2>6, Digit
  <2>8. e[i] % Base = r
    BY <1>0, <2>4, <2>5, <2>7
  <2>9. QED
    BY <2>2, <2>3, <2>5, <2>6, <2>8
<1>4. s \in Nat /\ e \in Seq(Bytes) /\ Len(e) = s
  <2>1. DOMAIN e = 1..s /\ e = [i \in 1..s |-> e[i]] /\ \A i \in 1..s : e[i] \in Bytes
    <3>1. DOMAIN e = 1..s /\ e = [i \in 1..s |-> e[i]]
      BY <1>2
    <3>2. QED
      BY <1>3, <3>1
  <2>2. s \in Nat
    OBVIOUS
  <2>3. e \in [1..s -> Bytes]
    BY <2>1
  <2>4. QED
    BY <2>2, <2>3
<1>5. s <= 4
  <2> SUFFICES ASSUME s > 4
               PROVE  FALSE
    BY <1>4
  <2> DEFINE B2 == Base * Base
             B3 == Base * B2
  <2>1. B2 \in Nat
    BY <1>0
  <2> HIDE DEF B2
  <2>2. B3 \in Nat
    BY <1>0, <2>1
  <2>3. Limit = Base * B3
    BY DEF Limit, B2, B3
  <2> HIDE DEF B3
  <2>4. /\ 1 \in 1..(n + 1) /\ 2 \in 1..(n + 1) /\ 3 \in 1..(n + 1) /\ 4 \in 1..(n + 1)
        /\ 0 \in 0..(n + 1) /\ 1 \in 0..(n + 1) /\ 2 \in 0..(n + 1) /\ 3 \in 0..(n + 1) /\ 4 \in 0..(n + 1)
        /\ 4 \in 1..(s - 1)
    BY <1>4
  <2>5. l[0] = n /\ l[1] = l[0] \div Base /\ l[2] = l[1] \div Base /\ l[3] = l[2] \div Base /\ l[4] = l[3] \div Base
    <3>1. \A i \in 1..(n + 1) : l[i] = l[i - 1] \div Base
      BY <1>1 DEF Divides
    <3>2. l[1] = l[1 - 1] \div Base /\ l[2] = l[2 - 1] \div Base /\ l[3] = l[3 - 1] \div Base /\ l[4] = l[4 - 1] \div Base
      BY <2>4, <3>1
    <3>3. QED
      BY <1>1, <3>2 DEF Divides
  <2>6. l[1] \in Nat /\ l[2] \in Nat /\ l[3] \in Nat /\ l[4] \in Nat
    BY <2>4
  <2>7. l[1] < B3
    BY <1>0, <2>2, <2>3, <2>5, QuotientBelow
  <2>8. l[2] < B2
    BY <1>0, <2>1, <2>5, <2>6, <2>7, QuotientBelow DEF B3
  <2>9. l[3] < Base
    BY <1>0, <2>5, <2>6, <2>8, QuotientBelow DEF B2
  <2>10. l[4] < 1
    <3>1. l[3] < Base * 1 /\ 1 \in Nat
      BY <1>0, <2>9
    <3>2. QED
      BY <1>0, <2>5, <2>6, <3>1, QuotientBelow
  <2>11. QED
    BY <1>1, <2>4, <2>6, <2>10
<1>6. s > 1 => e[s] # 0
  <2> SUFFICES ASSUME s > 1
               PROVE  e[s] # 0
    OBVIOUS
  <2>1. s - 1 \in 1..(s - 1) /\ s \in 1..s
    BY <1>4
  <2>2. l[s - 1] # 0
    BY <1>1, <2>1
  <2>3. l[s - 1] = Base * l[s] + (l[s - 1] % Base) /\ l[s - 1] % Base \in 0..(Base - 1)
    BY <1>3, <2>1
  <2>4. Base * 0 = 0
    BY <1>0
  <2>5. l[s - 1] % Base # 0
    BY <1>1, <2>2, <2>3, <2>4
  <2>6. e[s] = (l[s - 1] % Base) + 0
    BY <1>2, <2>1
  <2>7. QED
    BY <2>3, <2>5, <2>6
<1>7. e \in LengthFields
  <2>1. Len(e) \in 1..4
    BY <1>4, <1>5
  <2>2. QED
    BY <1>3, <1>4, <1>6, <2>1, FieldIsOne
<1>8. PICK w \in [0..Len(e) -> Nat] : Rests(w, e)
  BY <1>4, NumberRests
<1> DEFINE P == {i \in 0..s : w[s - i] = l[s - i]}
<1>9. 0 \in P
  <2>1. s - 0 = s /\ 0 \in 0..s
    BY <1>4
  <2>2. w[s] = 0
    BY <1>4, <1>8 DEF Rests
  <2>3. QED
    BY <1>1, <2>1, <2>2
<1>10. ASSUME NEW i \in 0..(s - 1), i \in P
       PROVE  i + 1 \in P
  <2> DEFINE j == s - i
  <2>1. j \in 1..s /\ s - (i + 1) = j - 1 /\ i + 1 \in 0..s /\ w[j] = l[j]
    BY <1>4, <1>10
  <2> HIDE DEF j
  <2>2. w[j - 1] = (e[j] % Base) + Base * w[j]
    BY <1>4, <1>8, <2>1 DEF Rests
  <2>3. l[j] \in Nat /\ e[j] % Base = l[j - 1] % Base /\ l[j - 1] % Base \in 0..(Base - 1) /\ l[j - 1] = Base * l[j] + (l[j - 1] % Base)
    BY <1>3, <2>1
  <2>4. Base * l[j] \in Nat
    BY <1>0, <2>3, Product
  <2>5. w[j - 1] = l[j - 1]
    BY <2>1, <2>2, <2>3, <2>4
  <2>6. QED
    BY <2>1, <2>5
<1>11. \A i \in P : w[s - i] = l[s - i]
  OBVIOUS
<1> HIDE DEF P
<1>12. w[s - s] = l[s - s]
  BY <1>4, <1>9, <1>10, <1>11, UpTo
<1>13. Number(e) = n
  <2>1. s - s = 0
    BY <1>4
  <2>2. QED
    BY <1>1, <1>8, <1>12, <2>1 DEF Rests, Divides
<1>14. QED
  BY <1>7, <1>13 DEF e

LEMMA LengthFieldIs ==
    /\ DOMAIN LengthField = {n \in Nat : n < Limit}
    /\ \A n \in DOMAIN LengthField :
          LengthField[n] = EncodeLength[n] /\ LengthField[n] \in LengthFields
                                           /\ Number(LengthField[n]) = n
<1>1. DOMAIN LengthField = {Number(d) : d \in LengthFields}
  BY DEF LengthField
<1>2. ASSUME NEW n \in DOMAIN LengthField
      PROVE  n \in Nat /\ n < Limit
  <2>1. PICK d \in LengthFields : n = Number(d)
    BY <1>1
  <2>2. QED
    BY <2>1, FieldIsBelow, FieldIsEncoded
<1>3. ASSUME NEW n \in Nat, n < Limit
      PROVE  n \in DOMAIN LengthField
  BY <1>1, <1>3, EncodedIsField
<1>4. ASSUME NEW n \in DOMAIN LengthField
      PROVE  /\ LengthField[n] \in LengthFields /\ Number(LengthField[n]) = n
             /\ LengthField[n] = EncodeLength[n]
  <2> DEFINE c == CHOOSE digits \in LengthFields : Number(digits) = n
  <2>1. \E digits \in LengthFields : Number(digits) = n
    BY <1>1
  <2>2. c \in LengthFields /\ Number(c) = n
    BY <2>1
  <2>3. LengthField[n] = c
    BY <1>1 DEF LengthField
  <2> HIDE DEF c
  <2>4. c = EncodeLength[n]
    BY <2>2, FieldIsEncoded
  <2>5. QED
    BY <2>2, <2>3, <2>4
<1>5. QED
  BY <1>2, <1>3, <1>4

(***************************************************************************)
(* Bytes on a connection.                                                  *)
(***************************************************************************)
LEMMA BytesJoined ==
    ASSUME NEW a \in Seq(Bytes), NEW b \in Seq(Bytes)
    PROVE  /\ a \o b \in Seq(Bytes) /\ Len(a \o b) = Len(a) + Len(b)
           /\ \A i \in 1..Len(a) : (a \o b)[i] = a[i]
           /\ \A i \in 1..Len(b) : (a \o b)[Len(a) + i] = b[i]
<1> DEFINE c == a \o b
<1>1. /\ c \in Seq(Bytes) /\ Len(c) = Len(a) + Len(b)
      /\ \A i \in 1..Len(a) + Len(b) : c[i] = IF i <= Len(a) THEN a[i] ELSE b[i - Len(a)]
  BY ConcatProperties
<1> HIDE DEF c
<1>2. Len(a) \in Nat /\ Len(b) \in Nat
  OBVIOUS
<1>3. ASSUME NEW i \in 1..Len(a)
      PROVE  c[i] = a[i]
  BY <1>1, <1>2
<1>4. ASSUME NEW i \in 1..Len(b)
      PROVE  c[Len(a) + i] = b[i]
  <2>1. Len(a) + i \in 1..Len(a) + Len(b) /\ ~(Len(a) + i <= Len(a)) /\ (Len(a) + i) - Len(a) = i
    BY <1>2
  <2>2. QED
    BY <1>1, <2>1
<1>5. QED
  BY <1>1, <1>3, <1>4 DEF c

\* What is behind the first bytes of a.
LEMMA BytesBehind ==
    ASSUME NEW a \in Seq(Bytes), NEW k \in 0..Len(a)
    PROVE  /\ SubSeq(a, k + 1, Len(a)) \in Seq(Bytes)
           /\ Len(SubSeq(a, k + 1, Len(a))) = Len(a) - k
           /\ \A i \in 1..(Len(a) - k) : SubSeq(a, k + 1, Len(a))[i] = a[k + i]
<1> DEFINE b == SubSeq(a, k + 1, Len(a))
           n == Len(a)
<1>0. n \in Nat /\ k \in Nat /\ k <= n
  OBVIOUS
<1>1. k + 1 \in Int /\ n \in Int /\ n - (k + 1) + 1 = n - k
  BY <1>0
<1>2. \A i \in (k + 1)..n : a[i] \in Bytes
  BY <1>0
<1>3. /\ b \in Seq(Bytes)
      /\ Len(b) = IF k + 1 <= n THEN n - (k + 1) + 1 ELSE 0
      /\ \A i \in 1..(n - (k + 1) + 1) : b[i] = a[k + 1 + i - 1]
  BY <1>1, <1>2, SubSeqProperties
<1> HIDE DEF b, n
<1>4. Len(b) = n - k
  BY <1>0, <1>3
<1>5. ASSUME NEW i \in 1..(n - k)
      PROVE  b[i] = a[k + i]
  <2>1. i \in 1..(n - (k + 1) + 1) /\ k + 1 + i - 1 = k + i
    BY <1>0, <1>1
  <2>2. QED
    BY <1>3, <2>1
<1>6. QED
  BY <1>3, <1>4, <1>5 DEF b, n

LEMMA BytesEqual ==
    ASSUME NEW a \in Seq(Bytes), NEW b \in Seq(Bytes), Len(a) = Len(b),
           \A i \in 1..Len(a) : a[i] = b[i]
    PROVE  a = b
BY SeqEqual

LEMMA BytesCut ==
    ASSUME NEW a \in Seq(Bytes), NEW k \in 0..Len(a)
    PROVE  /\ SubSeq(a, 1, k) \in Seq(Bytes) /\ Len(SubSeq(a, 1, k)) = k
           /\ \A i \in 1..k : SubSeq(a, 1, k)[i] = a[i]
           /\ SubSeq(a, 1, k) \o SubSeq(a, k + 1, Len(a)) = a
<1>0. Len(a) \in Nat /\ k \in Nat /\ k <= Len(a)
  OBVIOUS
<1> DEFINE b == SubSeq(a, 1, k)
           c == SubSeq(a, k + 1, Len(a))
           d == b \o c
<1>1. b \in Seq(Bytes) /\ Len(b) = k /\ \A i \in 1..k : b[i] = a[i]
  <2>1. 1 \in Int /\ k \in Int /\ k - 1 + 1 = k
    BY <1>0
  <2>2. \A i \in 1..k : a[i] \in Bytes
    BY <1>0
  <2>3. /\ b \in Seq(Bytes) /\ Len(b) = (IF 1 <= k THEN k - 1 + 1 ELSE 0)
        /\ \A i \in 1..(k - 1 + 1) : b[i] = a[1 + i - 1]
    BY <2>1, <2>2, SubSeqProperties
  <2> HIDE DEF b
  <2>4. Len(b) = k
    BY <1>0, <2>3
  <2>5. ASSUME NEW i \in 1..k
        PROVE  b[i] = a[i]
    <3>1. i \in 1..(k - 1 + 1) /\ 1 + i - 1 = i
      BY <1>0, <2>1
    <3>2. QED
      BY <2>3, <3>1
  <2>6. QED
    BY <2>3, <2>4, <2>5
<1>2. c \in Seq(Bytes) /\ Len(c) = Len(a) - k /\ \A i \in 1..(Len(a) - k) : c[i] = a[k + i]
  BY BytesBehind
<1> HIDE DEF b, c
<1>3. /\ d \in Seq(Bytes) /\ Len(d) = Len(b) + Len(c)
      /\ \A i \in 1..Len(b) : d[i] = b[i]
      /\ \A i \in 1..Len(c) : d[Len(b) + i] = c[i]
  BY <1>1, <1>2, BytesJoined
<1> HIDE DEF d
<1>4. Len(d) = Len(a)
  BY <1>0, <1>1, <1>2, <1>3
<1>5. ASSUME NEW i \in 1..Len(d)
      PROVE  d[i] = a[i]
  <2>1. CASE i <= k
    <3>1. i \in 1..k /\ i \in 1..Len(b)
      BY <1>0, <1>1, <2>1
    <3>2. QED
      BY <1>1, <1>3, <3>1
  <2>2. CASE i > k
    <3>1. i - k \in 1..Len(c) /\ i - k \in 1..(Len(a) - k) /\ Len(b) + (i - k) = i /\ k + (i - k) = i
      BY <1>0, <1>1, <1>2, <1>4, <2>2
    <3>2. d[Len(b) + (i - k)] = c[i - k] /\ c[i - k] = a[k + (i - k)]
      BY <1>2, <1>3, <3>1
    <3>3. QED
      BY <3>1, <3>2
  <2>3. QED
    BY <1>0, <1>4, <2>1, <2>2
<1>6. d = a
  BY <1>3, <1>4, <1>5, BytesEqual
<1>7. QED
  BY <1>1, <1>6 DEF b, c, d

\* Two ways to cut the same bytes.
LEMMA TwoCuts ==
    ASSUME NEW a \in Seq(Bytes), NEW b \in Seq(Bytes), NEW c \in Seq(Bytes), NEW d \in Seq(Bytes),
           a \o b = c \o d
    PROVE  /\ Len(a) + Len(b) = Len(c) + Len(d)
           /\ \A i \in 1..Len(a) : i <= Len(c) => a[i] = c[i]
           /\ Len(c) <= Len(a) => SubSeq(a, Len(c) + 1, Len(a)) \o b = d
<1>0. Len(a) \in Nat /\ Len(b) \in Nat /\ Len(c) \in Nat /\ Len(d) \in Nat
  OBVIOUS
<1>1. Len(a) + Len(b) = Len(c) + Len(d)
  <2>1. Len(a \o b) = Len(a) + Len(b) /\ Len(c \o d) = Len(c) + Len(d)
    BY BytesJoined
  <2>2. QED
    BY <2>1
<1>2. ASSUME NEW i \in 1..Len(a), i <= Len(c)
      PROVE  a[i] = c[i]
  <2>1. i \in 1..Len(c)
    BY <1>0, <1>2
  <2>2. (a \o b)[i] = a[i] /\ (c \o d)[i] = c[i]
    BY <2>1, BytesJoined
  <2>3. QED
    BY <2>2
<1>3. ASSUME Len(c) <= Len(a)
      PROVE  SubSeq(a, Len(c) + 1, Len(a)) \o b = d
  <2> DEFINE r == SubSeq(a, Len(c) + 1, Len(a))
             f == SubSeq(a, 1, Len(c))
  <2>1. Len(c) \in 0..Len(a)
    BY <1>0, <1>3
  <2>2. r \in Seq(Bytes)
    BY <2>1, BytesBehind
  <2>3. f \in Seq(Bytes) /\ Len(f) = Len(c) /\ (\A i \in 1..Len(c) : f[i] = a[i]) /\ f \o r = a
    BY <2>1, BytesCut
  <2> HIDE DEF r, f
  <2>4. \A i \in 1..Len(f) : f[i] = c[i]
    BY <1>0, <1>2, <1>3, <2>3
  <2>5. f = c
    BY <2>3, <2>4, BytesEqual
  <2>6. (c \o r) \o b = c \o (r \o b)
    BY <2>2, ConcatAssociative
  <2>7. PICK x \in Seq(Bytes) : x = r \o b
    BY <2>2, BytesJoined
  <2>8. c \o x = c \o d
    BY <2>3, <2>5, <2>6, <2>7
  <2>9. x = d
    <3>1. Len(x) = Len(d)
      <4>1. Len(c \o x) = Len(c) + Len(x) /\ Len(c \o d) = Len(c) + Len(d)
        BY <2>7, BytesJoined
      <4>2. Len(x) \in Nat
        BY <2>7
      <4>3. QED
        BY <1>0, <2>8, <4>1, <4>2
    <3>2. ASSUME NEW i \in 1..Len(x)
          PROVE  x[i] = d[i]
      <4>1. i \in 1..Len(d)
        BY <3>1
      <4>2. (c \o x)[Len(c) + i] = x[i] /\ (c \o d)[Len(c) + i] = d[i]
        BY <2>7, <4>1, BytesJoined
      <4>3. QED
        BY <2>8, <4>2
    <3>3. QED
      BY <2>7, <3>1, <3>2, BytesEqual
  <2>10. QED
    BY <2>7, <2>9 DEF r
<1>4. QED
  BY <1>1, <1>2, <1>3

LEMMA BytesAssociate ==
    ASSUME NEW a \in Seq(Bytes), NEW b \in Seq(Bytes), NEW c \in Seq(Bytes)
    PROVE  (a \o b) \o c = a \o (b \o c)
BY ConcatAssociative

(***************************************************************************)
(* Packets that the standard can encode, one after the other.              *)
(***************************************************************************)
Whole == [head : Bytes, body : {b \in Seq(Bytes) : Len(b) \in DOMAIN LengthField}]

\* e is a first byte, the length field f, and the body b.
Joins3(e, h, f, b) ==
    /\ e \in Seq(Bytes) /\ Len(e) = 1 + Len(f) + Len(b)
    /\ e[1] = h
    /\ \A i \in 1..Len(f) : e[1 + i] = f[i]
    /\ \A i \in 1..Len(b) : e[1 + Len(f) + i] = b[i]

LEMMA JoinedThree ==
    ASSUME NEW h \in Bytes, NEW f \in Seq(Bytes), NEW b \in Seq(Bytes)
    PROVE  Joins3(<<h>> \o f \o b, h, f, b)
<1> DEFINE a == <<h>>
           c == a \o f
           e == c \o b
<1>0. Len(f) \in Nat /\ Len(b) \in Nat
  OBVIOUS
<1>1. a \in Seq(Bytes) /\ Len(a) = 1 /\ a[1] = h
  OBVIOUS
<1> HIDE DEF a
<1>2. /\ c \in Seq(Bytes) /\ Len(c) = Len(a) + Len(f)
      /\ \A i \in 1..Len(a) : c[i] = a[i]
      /\ \A i \in 1..Len(f) : c[Len(a) + i] = f[i]
  BY <1>1, BytesJoined
<1> HIDE DEF c
<1>3. /\ e \in Seq(Bytes) /\ Len(e) = Len(c) + Len(b)
      /\ \A i \in 1..Len(c) : e[i] = c[i]
      /\ \A i \in 1..Len(b) : e[Len(c) + i] = b[i]
  BY <1>2, BytesJoined
<1> HIDE DEF e
<1>4. Len(e) = 1 + Len(f) + Len(b) /\ Len(c) = 1 + Len(f)
  BY <1>0, <1>1, <1>2, <1>3
<1>5. e[1] = h
  <2>1. 1 \in 1..Len(c) /\ 1 \in 1..Len(a)
    BY <1>0, <1>1, <1>4
  <2>2. QED
    BY <1>1, <1>2, <1>3, <2>1
<1>6. ASSUME NEW i \in 1..Len(f)
      PROVE  e[1 + i] = f[i]
  <2>1. 1 + i \in 1..Len(c) /\ Len(a) + i = 1 + i
    BY <1>0, <1>1, <1>4
  <2>2. c[Len(a) + i] = f[i] /\ e[1 + i] = c[1 + i]
    BY <1>2, <1>3, <2>1
  <2>3. QED
    BY <2>1, <2>2
<1>7. \A i \in 1..Len(b) : e[1 + Len(f) + i] = b[i]
  BY <1>3, <1>4
<1>8. Joins3(e, h, f, b)
  BY <1>3, <1>4, <1>5, <1>6, <1>7 DEF Joins3
<1>9. QED
  BY <1>8 DEF a, c, e

LEMMA EncodingIs ==
    ASSUME NEW p \in Whole
    PROVE  \E f \in LengthFields :
              /\ f = LengthField[Len(p.body)] /\ Number(f) = Len(p.body)
              /\ Joins3(Encoding(p), p.head, f, p.body)
<1> DEFINE f == LengthField[Len(p.body)]
<1>1. p.head \in Bytes /\ p.body \in Seq(Bytes) /\ Len(p.body) \in DOMAIN LengthField
  BY DEF Whole
<1>2. f \in LengthFields /\ Number(f) = Len(p.body)
  BY <1>1, LengthFieldIs
<1>3. f \in Seq(Bytes)
  BY <1>2, FieldIs
<1>4. Encoding(p) = <<p.head>> \o f \o p.body
  BY DEF Encoding
<1> HIDE DEF f
<1>5. Joins3(Encoding(p), p.head, f, p.body)
  BY <1>1, <1>3, <1>4, JoinedThree
<1>6. QED
  BY <1>2, <1>5 DEF f

LEMMA EncodingType ==
    ASSUME NEW p \in Whole
    PROVE  Encoding(p) \in Seq(Bytes) /\ Len(Encoding(p)) >= 2
<1>1. PICK f \in LengthFields : Joins3(Encoding(p), p.head, f, p.body)
  BY EncodingIs
<1>2. PICK m \in 1..4 : m = Len(f)
  BY FieldIs
<1>3. PICK n \in Nat : n = Len(p.body)
  <2>1. p.body \in Seq(Bytes)
    BY DEF Whole
  <2>2. QED
    BY <2>1
<1>4. Encoding(p) \in Seq(Bytes) /\ Len(Encoding(p)) = 1 + m + n
  BY <1>1, <1>2, <1>3 DEF Joins3
<1>5. m \in Nat /\ m >= 1 /\ n \in Nat /\ n >= 0
  OBVIOUS
<1>6. QED
  <2>1. \A x, y \in Nat : x >= 1 => 1 + x + y >= 2
    OBVIOUS
  <2>2. 1 + m + n >= 2
    BY <1>5, <2>1
  <2>3. QED
    BY <1>4, <2>2

\* s tells the bytes of the first packets.
Streams(s, ps) ==
    /\ s[0] = <<>>
    /\ \A k \in 1..Len(ps) : s[k] = s[k - 1] \o Encoding(ps[k])

LEMMA StreamIs ==
    ASSUME NEW ps \in Seq(Whole)
    PROVE  \E s \in [0..Len(ps) -> Seq(Bytes)] : Streams(s, ps) /\ Stream(ps) = s[Len(ps)]
<1> DEFINE Solves(f) == f = [k \in 0..Len(ps) |-> IF k = 0 THEN <<>> ELSE f[k - 1] \o Encoding(ps[k])]
           h == CHOOSE f : Solves(f)
           g == [x \in Seq(Bytes) |-> [k \in 1..Len(ps) |-> x \o Encoding(ps[k])]]
           n == Len(ps)
<1>0. n \in Nat /\ \A k \in 1..n : ps[k] \in Whole
  OBVIOUS
<1>e. <<>> \in Seq(Bytes)
  OBVIOUS
<1>1. ASSUME NEW x \in Seq(Bytes), NEW k \in 1..n
      PROVE  x \o Encoding(ps[k]) \in Seq(Bytes)
  BY <1>0, EncodingType, BytesJoined
<1>2. \A x \in Seq(Bytes) : \A k \in 1..n : g[x][k] = x \o Encoding(ps[k])
  OBVIOUS
<1> HIDE DEF g
<1>3. PICK f \in [0..n -> Seq(Bytes)] : f[0] = <<>> /\ \A k \in 1..n : f[k] = g[f[k - 1]][k]
  <2> DEFINE V == Seq(Bytes)
             v == <<>>
  <2>1. v \in V /\ \A x \in V : \A k \in 1..n : g[x][k] \in V
    BY <1>e, <1>1, <1>2
  <2> HIDE DEF n, h, V, v
  <2>2. Recursive(n, V, v, g)
    BY <1>0, <2>1, Recursion
  <2>3. QED
    BY <2>2 DEF Recursive, V, v
<1>4. ASSUME NEW k \in 1..n
      PROVE  f[k] = f[k - 1] \o Encoding(ps[k])
  <2>1. k - 1 \in 0..n
    BY <1>0
  <2>2. f[k - 1] \in Seq(Bytes)
    BY <2>1
  <2>3. QED
    BY <1>2, <1>3, <2>2
<1>5. Solves(f)
  <2>1. ASSUME NEW k \in 0..n
        PROVE  f[k] = IF k = 0 THEN <<>> ELSE f[k - 1] \o Encoding(ps[k])
    <3>1. CASE k = 0
      BY <1>3, <3>1
    <3>2. CASE k # 0
      <4>1. k \in 1..n
        BY <3>2
      <4>2. QED
        BY <1>4, <3>2, <4>1
    <3>3. QED
      BY <3>1, <3>2
  <2>2. QED
    BY <2>1
<1>6. Solves(h)
  BY <1>5
<1>7. Stream(ps) = h[n]
  BY DEF Stream
<1> HIDE DEF h
<1>8. h[0] = <<>>
  BY <1>0, <1>6
<1>9. \A k \in 1..n : h[k] = h[k - 1] \o Encoding(ps[k])
  <2> SUFFICES ASSUME NEW k \in 1..n
               PROVE  h[k] = h[k - 1] \o Encoding(ps[k])
    OBVIOUS
  <2>1. k \in 0..n /\ k # 0
    BY <1>0
  <2>2. QED
    BY <1>6, <2>1
<1>10. h \in [0..n -> Seq(Bytes)]
  <2> DEFINE P == {k \in 0..n : h[k] \in Seq(Bytes)}
  <2>1. 0 \in P
    <3>1. 0 \in 0..n
      BY <1>0
    <3>2. QED
      BY <1>e, <1>8, <3>1
  <2>2. ASSUME NEW k \in 0..(n - 1), k \in P
        PROVE  k + 1 \in P
    <3>1. k + 1 \in 1..n /\ k + 1 \in 0..n /\ (k + 1) - 1 = k /\ h[k] \in Seq(Bytes)
      BY <1>0, <2>2
    <3>2. h[k + 1] = h[k] \o Encoding(ps[k + 1])
      BY <1>9, <3>1
    <3>3. QED
      BY <1>1, <3>1, <3>2
  <2>3. P \subseteq 0..n /\ \A k \in P : h[k] \in Seq(Bytes)
    OBVIOUS
  <2> HIDE DEF P, n
  <2>4. \A k \in 0..n : h[k] \in Seq(Bytes)
    BY <1>0, <2>1, <2>2, <2>3, UpTo
  <2>5. QED
    BY <1>6, <2>4 DEF n
<1>11. QED
  BY <1>7, <1>8, <1>9, <1>10 DEF Streams

LEMMA StreamType ==
    ASSUME NEW ps \in Seq(Whole)
    PROVE  Stream(ps) \in Seq(Bytes)
<1>1. PICK s \in [0..Len(ps) -> Seq(Bytes)] : Streams(s, ps) /\ Stream(ps) = s[Len(ps)]
  BY StreamIs
<1>2. Len(ps) \in 0..Len(ps)
  OBVIOUS
<1>3. QED
  BY <1>1, <1>2

LEMMA StreamEmpty == Stream(<<>>) = <<>>
<1> DEFINE ps == <<>>
<1>1. ps \in Seq(Whole) /\ Len(ps) = 0
  OBVIOUS
<1> HIDE DEF ps
<1>2. PICK s \in [0..Len(ps) -> Seq(Bytes)] : Streams(s, ps) /\ Stream(ps) = s[Len(ps)]
  BY <1>1, StreamIs
<1>3. Stream(ps) = <<>>
  BY <1>1, <1>2 DEF Streams
<1>4. QED
  BY <1>3 DEF ps

LEMMA StreamAppend ==
    ASSUME NEW ps \in Seq(Whole), NEW p \in Whole
    PROVE  Stream(Append(ps, p)) = Stream(ps) \o Encoding(p)
<1> DEFINE t == Append(ps, p)
<1>1. /\ t \in Seq(Whole) /\ Len(t) = Len(ps) + 1 /\ t[Len(t)] = p
      /\ Len(ps) \in Nat /\ \A i \in 1..Len(ps) : t[i] = ps[i]
  OBVIOUS
<1> HIDE DEF t
<1>2. PICK f \in [0..Len(ps) -> Seq(Bytes)] : Streams(f, ps) /\ Stream(ps) = f[Len(ps)]
  BY StreamIs
<1>3. PICK g \in [0..Len(t) -> Seq(Bytes)] : Streams(g, t) /\ Stream(t) = g[Len(t)]
  BY <1>1, StreamIs
<1>4. f[Len(ps)] = g[Len(ps)]
  <2> DEFINE P == {m \in 0..Len(ps) : f[m] = g[m]}
  <2>1. 0 \in P
    BY <1>1, <1>2, <1>3 DEF Streams
  <2>2. ASSUME NEW m \in 0..(Len(ps) - 1), m \in P
        PROVE  m + 1 \in P
    <3>1. m + 1 \in 1..Len(ps) /\ m + 1 \in 1..Len(t) /\ (m + 1) - 1 = m /\ f[m] = g[m] /\ m + 1 \in 0..Len(ps)
      <4>1. PICK n \in Nat : n = Len(ps) /\ Len(t) = n + 1
        BY <1>1
      <4>2. m \in 0..(n - 1)
        BY <4>1
      <4>3. m + 1 \in 1..n /\ m + 1 \in 1..(n + 1) /\ (m + 1) - 1 = m /\ m + 1 \in 0..n
        BY <4>2
      <4>4. f[m] = g[m]
        BY <2>2
      <4>5. QED
        BY <4>1, <4>3, <4>4
    <3>2. f[m + 1] = f[m] \o Encoding(ps[m + 1]) /\ g[m + 1] = g[m] \o Encoding(t[m + 1])
      BY <1>2, <1>3, <3>1 DEF Streams
    <3>3. f[m + 1] = g[m + 1]
      BY <1>1, <3>1, <3>2
    <3>4. QED
      BY <3>1, <3>3
  <2>3. \A m \in P : f[m] = g[m]
    OBVIOUS
  <2> HIDE DEF P
  <2>4. Len(ps) \in P
    BY <1>1, <2>1, <2>2, UpTo
  <2>5. QED
    BY <2>3, <2>4
<1>5. g[Len(t)] = g[Len(ps)] \o Encoding(p)
  <2>1. Len(t) \in 1..Len(t) /\ Len(t) - 1 = Len(ps)
    BY <1>1
  <2>2. QED
    BY <1>1, <1>3, <2>1 DEF Streams
<1>6. QED
  BY <1>2, <1>3, <1>4, <1>5 DEF t

\* Behind the first k packets of a stream comes the next one.
Follows(ps, k) ==
    \E r \in Seq(Bytes) : Stream(ps) = Stream(SubSeq(ps, 1, k)) \o (Encoding(ps[k + 1]) \o r)

LEMMA StreamNext ==
    ASSUME NEW ps \in Seq(Whole), NEW k \in 0..(Len(ps) - 1)
    PROVE  Follows(ps, k)
<1> DEFINE P == {t \in Seq(Whole) : \A m \in 0..(Len(t) - 1) : Follows(t, m)}
<1>1. <<>> \in P
  <2> DEFINE t == <<>>
  <2>1. t \in Seq(Whole) /\ Len(t) = 0
    OBVIOUS
  <2> HIDE DEF t
  <2>2. \A m \in 0..(Len(t) - 1) : Follows(t, m)
    BY <2>1
  <2>3. t \in P
    BY <2>1, <2>2
  <2>4. QED
    BY <2>3 DEF t
<1>2. ASSUME NEW t \in Seq(Whole), t \in P, NEW p \in Whole
      PROVE  Append(t, p) \in P
  <2> DEFINE u == Append(t, p)
  <2>1. /\ u \in Seq(Whole) /\ Len(u) = Len(t) + 1 /\ Len(t) \in Nat /\ u[Len(t) + 1] = p
        /\ \A i \in 1..Len(t) : u[i] = t[i]
    OBVIOUS
  <2>2. Stream(u) = Stream(t) \o Encoding(p)
    BY StreamAppend
  <2>3. \A m \in 0..Len(t) : SubSeq(u, 1, m) = SubSeq(t, 1, m)
    <3> SUFFICES ASSUME NEW m \in 0..Len(t)
                 PROVE  SubSeq(u, 1, m) = SubSeq(t, 1, m)
      OBVIOUS
    <3> HIDE DEF u
    <3>1. m \in Nat /\ m <= Len(t) /\ m <= Len(u)
      BY <2>1
    <3>2. QED
      BY <2>1, <3>1
  <2>4. SubSeq(t, 1, Len(t)) = t
    OBVIOUS
  <2>5. Stream(t) \in Seq(Bytes) /\ Encoding(p) \in Seq(Bytes)
    BY StreamType, EncodingType
  <2>6. \A m \in 0..(Len(t) - 1) : Follows(t, m)
    BY <1>2
  <2> HIDE DEF u, P
  <2>7. ASSUME NEW m \in 0..(Len(u) - 1)
        PROVE  Follows(u, m)
    <3>1. CASE m = Len(t)
      <4>1. SubSeq(u, 1, m) = t /\ u[m + 1] = p
        BY <2>1, <2>3, <2>4, <3>1
      <4>2. Encoding(p) \o <<>> = Encoding(p) /\ <<>> \in Seq(Bytes)
        BY <2>5, ConcatEmptySeq
      <4>3. Stream(u) = Stream(SubSeq(u, 1, m)) \o (Encoding(u[m + 1]) \o <<>>)
        BY <2>2, <4>1, <4>2
      <4>4. QED
        BY <4>2, <4>3 DEF Follows
    <3>2. CASE m # Len(t)
      <4>1. m \in 0..(Len(t) - 1) /\ m + 1 \in 1..Len(t) /\ m \in 0..Len(t)
        BY <2>1, <3>2
      <4>2. PICK r \in Seq(Bytes) : Stream(t) = Stream(SubSeq(t, 1, m)) \o (Encoding(t[m + 1]) \o r)
        BY <2>6, <4>1 DEF Follows
      <4>3. SubSeq(u, 1, m) = SubSeq(t, 1, m) /\ u[m + 1] = t[m + 1] /\ t[m + 1] \in Whole
        BY <2>1, <2>3, <4>1
      <4>4. SubSeq(t, 1, m) \in Seq(Whole)
        BY <2>1, <4>1
      <4>5. PICK a \in Seq(Bytes) : a = Stream(SubSeq(t, 1, m))
        BY <4>4, StreamType
      <4>6. PICK e \in Seq(Bytes) : e = Encoding(t[m + 1])
        BY <4>3, EncodingType
      <4>7. PICK f \in Seq(Bytes) : f = Encoding(p)
        BY <2>5
      <4>8. e \o r \in Seq(Bytes) /\ r \o f \in Seq(Bytes)
        BY BytesJoined
      <4>9. PICK x \in Seq(Bytes) : x = e \o r
        BY <4>8
      <4>10. (a \o x) \o f = a \o (x \o f) /\ x \o f = e \o (r \o f)
        <5>1. (a \o x) \o f = a \o (x \o f)
          BY BytesAssociate, ZenonT(30)
        <5>2. (e \o r) \o f = e \o (r \o f)
          BY BytesAssociate, ZenonT(30)
        <5>3. QED
          BY <4>9, <5>1, <5>2
      <4>11. Stream(u) = a \o (e \o (r \o f))
        BY <2>2, <4>2, <4>5, <4>6, <4>7, <4>9, <4>10
      <4>12. QED
        BY <4>3, <4>5, <4>6, <4>8, <4>11 DEF Follows
    <3>3. QED
      BY <3>1, <3>2
  <2>8. QED
    BY <2>1, <2>7 DEF P, u
<1>3. \A t \in P : \A m \in 0..(Len(t) - 1) : Follows(t, m)
  OBVIOUS
<1> HIDE DEF P
<1>4. ps \in P
  BY <1>1, <1>2, SeqInduct
<1>5. QED
  BY <1>3, <1>4

\* What an encoding is followed by does not matter for what it is read as.
LEMMA OneEncoding ==
    ASSUME NEW p \in Whole, NEW q \in Whole, NEW r \in Seq(Bytes), NEW t \in Seq(Bytes),
           Encoding(p) \o r = Encoding(q) \o t
    PROVE  p = q
<1>1. PICK f \in LengthFields :
              /\ f = LengthField[Len(p.body)] /\ Number(f) = Len(p.body)
              /\ Joins3(Encoding(p), p.head, f, p.body)
  BY EncodingIs
<1>2. PICK g \in LengthFields :
              /\ g = LengthField[Len(q.body)] /\ Number(g) = Len(q.body)
              /\ Joins3(Encoding(q), q.head, g, q.body)
  BY EncodingIs
<1> DEFINE d == Encoding(p)
           e == Encoding(q)
<1>3. d \in Seq(Bytes) /\ e \in Seq(Bytes)
  BY EncodingType
<1>4. \A i \in 1..Len(d) : i <= Len(e) => d[i] = e[i]
  BY <1>3, TwoCuts
<1> HIDE DEF d, e
<1>5. /\ f \in Seq(Bytes) /\ Len(f) \in 1..4 /\ \A i \in 1..Len(f) : f[i] >= Base <=> i < Len(f)
      /\ g \in Seq(Bytes) /\ Len(g) \in 1..4 /\ \A i \in 1..Len(g) : g[i] >= Base <=> i < Len(g)
  BY FieldIs
<1>6. p.body \in Seq(Bytes) /\ q.body \in Seq(Bytes) /\ p \in [head : Bytes, body : Seq(Bytes)]
      /\ q \in [head : Bytes, body : Seq(Bytes)]
  BY DEF Whole
<1>7. PICK m \in 1..4 : m = Len(f)
  BY <1>5
<1>8. PICK n \in 1..4 : n = Len(g)
  BY <1>5
<1>9. PICK x \in Nat : x = Len(p.body)
  BY <1>6
<1>10. PICK y \in Nat : y = Len(q.body)
  BY <1>6
<1>11. /\ Len(d) = 1 + m + x /\ d[1] = p.head
       /\ \A i \in 1..m : d[1 + i] = f[i]
       /\ \A i \in 1..x : d[1 + m + i] = p.body[i]
  BY <1>1, <1>7, <1>9 DEF Joins3, d
<1>12. /\ Len(e) = 1 + n + y /\ e[1] = q.head
       /\ \A i \in 1..n : e[1 + i] = g[i]
       /\ \A i \in 1..y : e[1 + n + i] = q.body[i]
  BY <1>2, <1>8, <1>10 DEF Joins3, e
<1>13. p.head = q.head
  <2>1. 1 \in 1..Len(d) /\ 1 <= Len(e)
    BY <1>11, <1>12
  <2>2. QED
    BY <1>4, <1>11, <1>12, <2>1
<1>14. ASSUME NEW i \in 1..m, i <= n
       PROVE  f[i] = g[i]
  <2>1. 1 + i \in 1..Len(d) /\ 1 + i <= Len(e) /\ i \in 1..n
    BY <1>11, <1>12, <1>14
  <2>2. QED
    BY <1>4, <1>11, <1>12, <2>1
<1>15. m = n
  <2>1. CASE m < n
    <3>1. m \in 1..m /\ m \in 1..n /\ m <= n
      BY <2>1
    <3>2. f[m] = g[m] /\ ~(f[m] >= Base) /\ g[m] >= Base
      BY <1>5, <1>7, <1>8, <1>14, <2>1, <3>1
    <3>3. QED
      BY <3>2
  <2>2. CASE n < m
    <3>1. n \in 1..m /\ n \in 1..n /\ n <= n
      BY <2>2
    <3>2. f[n] = g[n] /\ ~(g[n] >= Base) /\ f[n] >= Base
      BY <1>5, <1>7, <1>8, <1>14, <2>2, <3>1
    <3>3. QED
      BY <3>2
  <2>3. QED
    BY <2>1, <2>2
<1>16. f = g
  <2>1. \A i \in 1..Len(f) : f[i] = g[i]
    BY <1>7, <1>14, <1>15
  <2>2. QED
    BY <1>5, <1>7, <1>8, <1>15, <2>1, BytesEqual
<1>17. x = y
  BY <1>1, <1>2, <1>9, <1>10, <1>16
<1>18. ASSUME NEW i \in 1..x
       PROVE  p.body[i] = q.body[i]
  <2>1. 1 + m + i \in 1..Len(d) /\ 1 + m + i <= Len(e) /\ i \in 1..y /\ 1 + m + i = 1 + n + i
    BY <1>11, <1>12, <1>15, <1>17
  <2>2. QED
    BY <1>4, <1>11, <1>12, <2>1
<1>19. p.body = q.body
  BY <1>6, <1>9, <1>10, <1>17, <1>18, BytesEqual
<1>20. QED
  BY <1>6, <1>13, <1>19

\* What was sent as one sequence of packets can be read as no other.
THEOREM StreamIsUnambiguous ==
    ASSUME NEW a \in Seq(Whole), NEW b \in Seq(Whole), Stream(a) = Stream(b)
    PROVE  a = b
<1>0. Len(a) \in Nat /\ Len(b) \in Nat
  OBVIOUS
\* Where one ends, the other has to end.
<1>1. ASSUME NEW c \in Seq(Whole), NEW d \in Seq(Whole), Stream(c) = Stream(d),
             NEW k \in 0..(Len(c) - 1), k <= Len(d), SubSeq(c, 1, k) = SubSeq(d, 1, k)
      PROVE  k < Len(d) /\ c[k + 1] = d[k + 1]
  <2>0. Len(c) \in Nat /\ Len(d) \in Nat
    OBVIOUS
  <2>1. PICK r \in Seq(Bytes) : Stream(c) = Stream(SubSeq(c, 1, k)) \o (Encoding(c[k + 1]) \o r)
    BY StreamNext DEF Follows
  <2>2. k + 1 \in 1..Len(c) /\ c[k + 1] \in Whole /\ SubSeq(c, 1, k) \in Seq(Whole)
    BY <2>0
  <2>3. PICK s \in Seq(Bytes) : s = Stream(SubSeq(c, 1, k))
    BY <2>2, StreamType
  <2>4. PICK e \in Seq(Bytes) : e = Encoding(c[k + 1]) /\ Len(e) >= 2
    BY <2>2, EncodingType
  <2>5. PICK x \in Seq(Bytes) : x = e \o r /\ Len(x) = Len(e) + Len(r)
    BY BytesJoined
  <2>6. Stream(c) = s \o x
    BY <2>1, <2>3, <2>4, <2>5
  <2>7. CASE k = Len(d)
    <3>1. SubSeq(d, 1, k) = d
      BY <2>7
    <3>2. Stream(c) = s
      BY <1>1, <2>3, <3>1
    <3>3. Len(s \o x) = Len(s) + Len(x)
      BY BytesJoined
    <3>4. Len(s) \in Nat /\ Len(e) \in Nat /\ Len(r) \in Nat
      OBVIOUS
    <3>5. QED
      BY <2>4, <2>5, <2>6, <3>2, <3>3, <3>4
  <2>8. CASE k < Len(d)
    <3>1. k \in 0..(Len(d) - 1) /\ k + 1 \in 1..Len(d)
      BY <2>0, <2>8
    <3>2. PICK t \in Seq(Bytes) : Stream(d) = Stream(SubSeq(d, 1, k)) \o (Encoding(d[k + 1]) \o t)
      BY <3>1, StreamNext DEF Follows
    <3>3. d[k + 1] \in Whole
      BY <3>1
    <3>4. PICK g \in Seq(Bytes) : g = Encoding(d[k + 1])
      BY <3>3, EncodingType
    <3>5. PICK y \in Seq(Bytes) : y = g \o t
      BY BytesJoined
    <3>6. s \o x = s \o y
      BY <1>1, <2>3, <2>6, <3>2, <3>4, <3>5
    <3>7. Len(s) <= Len(s) /\ SubSeq(s, Len(s) + 1, Len(s)) = <<>>
      OBVIOUS
    <3>8. <<>> \o x = y
      BY <3>6, <3>7, TwoCuts
    <3>9. x = y
      BY <3>8, ConcatEmptySeq
    <3>10. c[k + 1] = d[k + 1]
      <4>1. PICK p \in Whole : p = c[k + 1]
        BY <2>2
      <4>2. PICK q \in Whole : q = d[k + 1]
        BY <3>3
      <4>3. Encoding(p) \o r = Encoding(q) \o t
        BY <2>4, <2>5, <3>4, <3>5, <3>9, <4>1, <4>2
      <4>4. p = q
        BY <4>3, OneEncoding
      <4>5. QED
        BY <4>1, <4>2, <4>4
    <3>11. QED
      BY <2>8, <3>10
  <2>9. QED
    BY <1>1, <2>0, <2>7, <2>8
<1> DEFINE P == {k \in 0..Len(a) : k <= Len(b) /\ SubSeq(a, 1, k) = SubSeq(b, 1, k)}
<1>2. 0 \in P
  <2>1. SubSeq(a, 1, 0) = <<>> /\ SubSeq(b, 1, 0) = <<>>
    OBVIOUS
  <2>2. QED
    BY <1>0, <2>1
<1>3. ASSUME NEW k \in 0..(Len(a) - 1), k \in P
      PROVE  k + 1 \in P
  <2>1. k < Len(b) /\ a[k + 1] = b[k + 1]
    BY <1>1, <1>3
  <2>2. k + 1 \in 1..Len(a) /\ k + 1 \in 1..Len(b) /\ k + 1 \in 0..Len(a)
    BY <1>0, <2>1
  <2>3. SubSeq(a, 1, k + 1) = Append(SubSeq(a, 1, k), a[k + 1])
    BY <2>2
  <2>4. SubSeq(b, 1, k + 1) = Append(SubSeq(b, 1, k), b[k + 1])
    BY <2>2
  <2>5. QED
    BY <1>0, <1>3, <2>1, <2>2, <2>3, <2>4
<1>4. \A k \in P : k <= Len(b) /\ SubSeq(a, 1, k) = SubSeq(b, 1, k)
  OBVIOUS
<1> HIDE DEF P
<1>5. Len(a) \in P
  BY <1>0, <1>2, <1>3, UpTo
<1>6. Len(a) <= Len(b) /\ SubSeq(a, 1, Len(a)) = SubSeq(b, 1, Len(a))
  BY <1>4, <1>5
<1>7. Len(a) = Len(b)
  <2> SUFFICES ASSUME Len(a) < Len(b)
               PROVE  FALSE
    BY <1>0, <1>6
  <2>1. Len(a) \in 0..(Len(b) - 1) /\ Len(a) <= Len(a)
    BY <1>0
  <2>2. Len(a) < Len(a)
    BY <1>1, <1>6, <2>1
  <2>3. QED
    BY <1>0, <2>2
<1>8. SubSeq(a, 1, Len(a)) = a /\ SubSeq(b, 1, Len(b)) = b
  OBVIOUS
<1>9. QED
  BY <1>6, <1>7, <1>8

(***************************************************************************)
(* Cutting: where the length field ends.                                   *)
(***************************************************************************)
LEMMA MultipleRemainder ==
    ASSUME NEW b \in Nat, b >= 2, NEW x \in Nat
    PROVE  (b * x) % b = 0
<1>1. PICK y \in Nat : y = b * x
  BY Product
<1>2. PICK q \in Nat, z \in 0..(b - 1) : q = y \div b /\ z = y % b /\ y = b * q + z
  BY Remainder
<1>3. 0 \in 0..(b - 1) /\ b * x + 0 = b * q + z
  BY <1>1, <1>2
<1>4. 0 = z
  BY <1>2, <1>3, SameDigits
<1>5. QED
  BY <1>1, <1>2, <1>4

LEMMA MinIs ==
    ASSUME NEW S, NEW i \in S, S \subseteq Nat, \A j \in S : i <= j
    PROVE  Min(S) = i
<1>1. ASSUME NEW m \in S, \A j \in S : m <= j
      PROVE  m = i
  <2>1. m <= i /\ i <= m /\ m \in Nat /\ i \in Nat
    BY <1>1
  <2>2. QED
    BY <2>1
<1>2. QED
  BY <1>1 DEF Min

LEMMA LengthBytesWhole ==
    ASSUME NEW b \in Seq(Bytes), NEW i \in 1..Len(b), b[i] < Base,
           \A j \in 1..(i - 1) : b[j] >= Base
    PROVE  LengthBytes(b) = SubSeq(b, 1, i)
<1> DEFINE S == {j \in DOMAIN b : b[j] < Base}
<1>0. Base \in Nat /\ DOMAIN b = 1..Len(b) /\ Len(b) \in Nat
  BY FramingAssumption
<1>1. i \in S /\ S \subseteq Nat /\ S # {}
  BY <1>0
<1>2. ASSUME NEW j \in S
      PROVE  i <= j
  <2>1. j \in 1..Len(b) /\ b[j] < Base /\ b[j] \in Bytes
    BY <1>0
  <2>2. CASE j < i
    <3>1. j \in 1..(i - 1)
      BY <1>0, <2>1, <2>2
    <3>2. b[j] >= Base
      BY <3>1
    <3>3. QED
      BY <1>0, <2>1, <3>2 DEF Bytes
  <2>3. QED
    BY <1>0, <2>1, <2>2
<1>3. LengthBytes(b) = SubSeq(b, 1, IF S = {} THEN Len(b) ELSE Min(S))
  BY DEF LengthBytes
<1> HIDE DEF S
<1>4. Min(S) = i
  BY <1>1, <1>2, MinIs
<1>5. QED
  BY <1>1, <1>3, <1>4

LEMMA LengthBytesPart ==
    ASSUME NEW b \in Seq(Bytes), \A j \in 1..Len(b) : b[j] >= Base
    PROVE  LengthBytes(b) = b
<1> DEFINE S == {j \in DOMAIN b : b[j] < Base}
<1>0. Base \in Nat /\ DOMAIN b = 1..Len(b) /\ \A j \in 1..Len(b) : b[j] \in Nat
  BY FramingAssumption DEF Bytes
<1>1. S = {}
  BY <1>0
<1>2. LengthBytes(b) = SubSeq(b, 1, IF S = {} THEN Len(b) ELSE Min(S))
  BY DEF LengthBytes
<1> HIDE DEF S
<1>3. LengthBytes(b) = SubSeq(b, 1, Len(b))
  BY <1>1, <1>2
<1>4. SubSeq(b, 1, Len(b)) = b
  OBVIOUS
<1>5. QED
  BY <1>3, <1>4

LEMMA TailIs ==
    ASSUME NEW b \in Seq(Bytes), Len(b) >= 1
    PROVE  /\ Tail(b) \in Seq(Bytes) /\ Len(Tail(b)) = Len(b) - 1
           /\ \A i \in 1..(Len(b) - 1) : Tail(b)[i] = b[1 + i]
<1>1. b # <<>>
  OBVIOUS
<1>2. /\ Tail(b) \in Seq(Bytes) /\ Len(Tail(b)) = Len(b) - 1
      /\ \A i \in 1..Len(Tail(b)) : Tail(b)[i] = b[i + 1]
  BY <1>1, HeadTailProperties
<1>3. ASSUME NEW i \in 1..(Len(b) - 1)
      PROVE  Tail(b)[i] = b[1 + i]
  <2>1. i + 1 = 1 + i
    OBVIOUS
  <2>2. QED
    BY <1>2, <2>1
<1>4. QED
  BY <1>2, <1>3

\* b starts like an encoding with length field f, and has that field whole.
LEMMA FieldFound ==
    ASSUME NEW b \in Seq(Bytes), NEW f \in LengthFields, Len(b) >= 1 + Len(f),
           \A i \in 1..Len(f) : b[1 + i] = f[i]
    PROVE  LengthBytes(Tail(b)) = f
<1>1. PICK m \in 1..4 : m = Len(f)
  BY FieldIs
<1>2. /\ Base \in Nat /\ f \in Seq(Bytes)
      /\ \A i \in 1..m : f[i] \in Nat /\ (f[i] >= Base <=> i < m)
  <2>1. f \in Seq(Bytes) /\ \A i \in 1..Len(f) : f[i] >= Base <=> i < Len(f)
    BY FieldIs
  <2>2. \A i \in 1..Len(f) : f[i] \in Bytes
    BY <2>1
  <2>3. QED
    BY <1>1, <2>1, <2>2, FramingAssumption DEF Bytes
<1>3. PICK t \in Seq(Bytes) : /\ t = Tail(b) /\ Len(t) = Len(b) - 1
                              /\ \A i \in 1..(Len(b) - 1) : t[i] = b[1 + i]
  <2>1. Len(b) >= 1
    BY <1>1
  <2>2. QED
    BY <2>1, TailIs
<1>4. PICK n \in Nat : n = Len(b)
  OBVIOUS
<1>5. n >= 1 + m /\ m \in 1..(n - 1) /\ Len(t) = n - 1
  BY <1>1, <1>3, <1>4
<1>6. \A i \in 1..m : t[i] = f[i]
  <2> SUFFICES ASSUME NEW i \in 1..m
               PROVE  t[i] = f[i]
    OBVIOUS
  <2>1. i \in 1..(n - 1) /\ i \in 1..Len(f)
    BY <1>1, <1>5
  <2>2. QED
    BY <1>3, <1>4, <2>1
<1>7. t[m] < Base /\ \A j \in 1..(m - 1) : t[j] >= Base
  <2>1. m \in 1..m /\ ~(m < m)
    BY <1>1
  <2>2. f[m] \in Nat /\ ~(f[m] >= Base)
    BY <1>2, <2>1
  <2>3. f[m] < Base
    BY <1>2, <2>2
  <2>4. ASSUME NEW j \in 1..(m - 1)
        PROVE  t[j] >= Base
    <3>1. j \in 1..m /\ j < m
      BY <1>1
    <3>2. QED
      BY <1>2, <1>6, <3>1
  <2>5. QED
    BY <1>6, <2>1, <2>3, <2>4
<1>8. m \in 1..Len(t) /\ m \in 0..Len(t)
  BY <1>5
<1>9. LengthBytes(t) = SubSeq(t, 1, m)
  BY <1>7, <1>8, LengthBytesWhole
<1>10. SubSeq(t, 1, m) \in Seq(Bytes) /\ Len(SubSeq(t, 1, m)) = m /\ \A i \in 1..m : SubSeq(t, 1, m)[i] = t[i]
  BY <1>8, BytesCut
<1>11. SubSeq(t, 1, m) = f
  <2> DEFINE c == SubSeq(t, 1, m)
  <2>1. c \in Seq(Bytes) /\ Len(c) = Len(f) /\ \A i \in 1..Len(c) : c[i] = f[i]
    BY <1>1, <1>6, <1>10
  <2> HIDE DEF c
  <2>2. c = f
    BY <1>2, <2>1, BytesEqual
  <2>3. QED
    BY <2>2 DEF c
<1>12. QED
  BY <1>3, <1>9, <1>11

\* b ends before that field does.
LEMMA FieldCutOff ==
    ASSUME NEW b \in Seq(Bytes), NEW f \in LengthFields, Len(b) >= 1, Len(b) < 1 + Len(f),
           \A i \in 1..(Len(b) - 1) : b[1 + i] = f[i]
    PROVE  /\ LengthBytes(Tail(b)) = Tail(b)
           /\ Len(b) >= 2 /\ Number(Tail(b)) = 0 => Number(f) > 0 /\ Number(f) % Base = 0
<1>1. PICK m \in 1..4 : m = Len(f)
  BY FieldIs
<1>2. /\ Base \in Nat /\ Base >= 2 /\ f \in Seq(Bytes)
      /\ \A i \in 1..m : f[i] >= Base <=> i < m
  BY <1>1, FieldIs, FramingAssumption
<1>3. PICK t \in Seq(Bytes) : /\ t = Tail(b) /\ Len(t) = Len(b) - 1
                              /\ \A i \in 1..(Len(b) - 1) : t[i] = b[1 + i]
  BY TailIs
<1>4. PICK n \in Nat : n = Len(t)
  OBVIOUS
<1>5. n < m /\ Len(b) = n + 1
  <2>1. Len(b) \in Nat
    OBVIOUS
  <2>2. QED
    BY <1>1, <1>3, <1>4, <2>1
<1>6. \A i \in 1..n : t[i] = f[i]
  BY <1>3, <1>4
<1>7. \A i \in 1..n : t[i] >= Base
  <2>1. \A i \in 1..n : i \in 1..m /\ i < m
    BY <1>5
  <2>2. QED
    BY <1>2, <1>6, <2>1
<1>8. LengthBytes(t) = t
  BY <1>4, <1>7, LengthBytesPart
<1>9. ASSUME n >= 1, Number(t) = 0
      PROVE  Number(f) > 0 /\ Number(f) % Base = 0
  <2>1. PICK v \in [0..n -> Nat] : Rests(v, t)
    BY <1>4, NumberRests
  <2>2. PICK w \in [0..m -> Nat] : Rests(w, f)
    BY <1>1, <1>2, NumberRests
  <2>3. m > 1 /\ 0 \in 0..(m - 1) /\ 1 \in 1..m /\ 1 \in 1..n /\ 0 \in 0..m /\ 1 \in 0..m /\ 1 \in 0..n /\ 1 - 1 = 0
    BY <1>5, <1>9
  <2>4. w[0] > 0 /\ w[0] = Number(f)
    <3>1. w[0] > 0
      BY <1>1, <2>2, <2>3, RestsArePositive
    <3>2. QED
      BY <2>2, <3>1 DEF Rests
  <2>5. v[0] = 0 /\ v[0] = (t[1] % Base) + Base * v[1]
    <3>1. v[1 - 1] = (t[1] % Base) + Base * v[1]
      BY <1>4, <2>1, <2>3 DEF Rests
    <3>2. v[0] = Number(t)
      BY <2>1 DEF Rests
    <3>3. QED
      BY <1>9, <2>3, <3>1, <3>2
  <2>6. w[0] = (f[1] % Base) + Base * w[1]
    <3>1. w[1 - 1] = (f[1] % Base) + Base * w[1]
      BY <1>1, <2>2, <2>3 DEF Rests
    <3>2. QED
      BY <2>3, <3>1
  <2>7. t[1] = f[1] /\ t[1] \in Bytes
    BY <1>4, <1>6, <2>3
  <2>8. PICK r \in 0..(Base - 1) : r = t[1] % Base
    BY <2>7, Digit
  <2>9. r = 0
    <3>1. v[1] \in Nat
      BY <2>1, <2>3
    <3>2. Base * v[1] \in Nat
      BY <1>2, <3>1, Product
    <3>3. PICK y \in Nat : y = Base * v[1]
      BY <3>2
    <3>4. 0 = r + y /\ r \in Nat
      BY <2>5, <2>7, <2>8, <3>3
    <3>5. QED
      BY <3>4
  <2>10. PICK x \in Nat : x = w[1]
    BY <2>2, <2>3
  <2>11. w[0] = Base * x
    <3>1. w[0] = 0 + Base * x /\ Base * x \in Nat
      BY <1>2, <2>6, <2>7, <2>8, <2>9, <2>10, Product
    <3>2. QED
      BY <3>1
  <2>12. (Base * x) % Base = 0
    BY <1>2, MultipleRemainder
  <2>13. QED
    BY <2>4, <2>11, <2>12
<1>10. QED
  <2>1. Len(b) >= 2 => n >= 1
    BY <1>5
  <2>2. QED
    BY <1>3, <1>8, <1>9, <2>1

(***************************************************************************)
(* Packets of clients, and what the broker writes for them.                *)
(***************************************************************************)
\* Those that the standard can encode.
Encodable == {p \in ClientPackets : Len(p.body) \in DOMAIN LengthField}

LEMMA ShortLengths == 0 < Limit /\ 1 < Limit /\ Limit \in Nat
<1>0. Base \in Nat /\ Base >= 2
  BY FramingAssumption
<1>1. PICK x \in Nat : x = Base * Base /\ x >= Base
  BY <1>0, Product
<1>2. PICK y \in Nat : y = Base * x /\ y >= Base
  <2>1. x >= 1
    BY <1>0, <1>1
  <2>2. Base * x \in Nat /\ Base * x >= Base
    BY <1>0, <2>1, Product
  <2>3. QED
    BY <2>2
<1>3. PICK z \in Nat : z = Base * y /\ z >= Base
  <2>1. y >= 1
    BY <1>0, <1>2
  <2>2. Base * y \in Nat /\ Base * y >= Base
    BY <1>0, <2>1, Product
  <2>3. QED
    BY <2>2
<1>4. Limit = z
  BY <1>1, <1>2, <1>3 DEF Limit
<1>5. QED
  BY <1>0, <1>3, <1>4

LEMMA PacketIs ==
    ASSUME NEW p \in ClientPackets
    PROVE  /\ p = [head |-> p.head, body |-> p.body]
           /\ p.head \in {0, 1, 2} /\ p.body \in Seq(Bytes)
           /\ p.head = Ping => p.body = <<>>
           /\ p.head = Publish => Len(p.body) >= 1
           /\ p.head = PublishQos1 => Len(p.body) >= 2
<1>0. 0 \in Bytes /\ 1 \in Bytes
  BY FramingAssumption DEF Bytes
<1>1. CASE p = [head |-> Ping, body |-> <<>>]
  BY <1>1 DEF Ping, Publish, PublishQos1
<1>2. ASSUME NEW c \in Payloads, p = [head |-> Publish, body |-> <<Topic>> \o c]
      PROVE  p.head = Publish /\ p.body \in Seq(Bytes) /\ Len(p.body) >= 1 /\ p = [head |-> p.head, body |-> p.body]
  <2>1. c \in Seq(Bytes)
    BY FramingAssumption
  <2>2. PICK a \in Seq(Bytes) : a = <<Topic>> /\ Len(a) = 1
    <3>1. <<Topic>> \in Seq(Bytes) /\ Len(<<Topic>>) = 1
      BY <1>0 DEF Topic
    <3>2. QED
      BY <3>1
  <2>3. a \o c \in Seq(Bytes) /\ Len(a \o c) = Len(a) + Len(c)
    BY <2>1, BytesJoined
  <2>4. Len(c) \in Nat
    BY <2>1
  <2>5. QED
    BY <1>2, <2>2, <2>3, <2>4
<1>3. ASSUME NEW c \in Payloads, p = [head |-> PublishQos1, body |-> <<Topic, Id>> \o c]
      PROVE  p.head = PublishQos1 /\ p.body \in Seq(Bytes) /\ Len(p.body) >= 2 /\ p = [head |-> p.head, body |-> p.body]
  <2>1. c \in Seq(Bytes)
    BY FramingAssumption
  <2>2. PICK a \in Seq(Bytes) : a = <<Topic, Id>> /\ Len(a) = 2
    <3>1. <<Topic, Id>> \in Seq(Bytes) /\ Len(<<Topic, Id>>) = 2
      BY <1>0 DEF Topic, Id
    <3>2. QED
      BY <3>1
  <2>3. a \o c \in Seq(Bytes) /\ Len(a \o c) = Len(a) + Len(c)
    BY <2>1, BytesJoined
  <2>4. Len(c) \in Nat
    BY <2>1
  <2>5. QED
    BY <1>3, <2>2, <2>3, <2>4
<1>4. QED
  BY <1>1, <1>2, <1>3 DEF ClientPackets, Ping, Publish, PublishQos1

LEMMA EncodableIs ==
    ASSUME NEW p \in Encodable
    PROVE  p \in ClientPackets /\ p \in Whole
<1>1. p \in ClientPackets /\ Len(p.body) \in DOMAIN LengthField
  BY DEF Encodable
<1>2. p.head \in Bytes
  <2>1. p.head \in {0, 1, 2} 
    BY <1>1, PacketIs
  <2>2. 0 \in Bytes /\ 1 \in Bytes /\ 2 \in Bytes
    BY FramingAssumption DEF Bytes
  <2>3. QED
    BY <2>1, <2>2
<1>3. p = [head |-> p.head, body |-> p.body] /\ p.body \in Seq(Bytes)
  BY <1>1, PacketIs
<1>4. QED
  BY <1>1, <1>2, <1>3 DEF Whole

\* The packet id and the payload of a publication are no longer than it.
LEMMA PacketIdIs ==
    ASSUME NEW p \in ClientPackets
    PROVE  PacketId(p) \in Seq(Bytes) /\ Len(PacketId(p)) \in DOMAIN LengthField
           /\ Len(PacketId(p)) = IF p.head = PublishQos1 THEN 1 ELSE 0
<1>1. 0 \in DOMAIN LengthField /\ 1 \in DOMAIN LengthField
  BY ShortLengths, LengthFieldIs
<1>2. CASE p.head = PublishQos1
  <2>1. p.body \in Seq(Bytes) /\ Len(p.body) >= 2
    BY <1>2, PacketIs
  <2>2. p.body[2] \in Bytes
    BY <2>1
  <2>3. PacketId(p) = <<p.body[2]>>
    BY <1>2 DEF PacketId
  <2>4. PICK x \in Bytes : x = p.body[2]
    BY <2>2
  <2>5. <<x>> \in Seq(Bytes) /\ Len(<<x>>) = 1
    OBVIOUS
  <2>6. QED
    BY <1>1, <1>2, <2>3, <2>4, <2>5
<1>3. CASE p.head # PublishQos1
  <2>1. PacketId(p) = <<>>
    BY <1>3 DEF PacketId
  <2>2. <<>> \in Seq(Bytes) /\ Len(<<>>) = 0
    OBVIOUS
  <2>3. QED
    BY <1>1, <1>3, <2>1, <2>2
<1>4. QED
  BY <1>2, <1>3

LEMMA PayloadIs ==
    ASSUME NEW p \in Encodable, p.head # Ping
    PROVE  Payload(p) \in Seq(Bytes) /\ Len(Payload(p)) \in DOMAIN LengthField
<1>1. p \in ClientPackets /\ Len(p.body) \in DOMAIN LengthField
  BY DEF Encodable
<1>2. PICK b \in Seq(Bytes) : b = p.body
  BY <1>1, PacketIs
<1>3. PICK n \in Nat : n = Len(b) /\ n < Limit
  BY <1>1, <1>2, LengthFieldIs
<1>4. PICK k \in {0, 1} : k = Len(PacketId(p)) /\ n >= 1 + k
  <2>1. p.head \in {0, 1, 2}
    BY <1>1, PacketIs
  <2>2. CASE p.head = PublishQos1
    <3>1. Len(PacketId(p)) = 1
      BY <1>1, <2>2, PacketIdIs
    <3>2. n >= 2
      BY <1>1, <1>2, <1>3, <2>2, PacketIs
    <3>3. QED
      BY <3>1, <3>2
  <2>3. CASE p.head = Publish
    <3>1. Len(PacketId(p)) = 0
      BY <1>1, <2>3, PacketIdIs DEF Publish, PublishQos1
    <3>2. n >= 1
      BY <1>1, <1>2, <1>3, <2>3, PacketIs
    <3>3. QED
      BY <3>1, <3>2
  <2>4. QED
    BY <2>1, <2>2, <2>3 DEF Ping, Publish, PublishQos1
<1>5. b[1] \in Bytes
  BY <1>3, <1>4
<1>6. PICK a \in Seq(Bytes) : a = <<b[1]>> /\ Len(a) = 1
  <2>1. PICK x \in Bytes : x = b[1]
    BY <1>5
  <2>2. <<x>> \in Seq(Bytes) /\ Len(<<x>>) = 1
    OBVIOUS
  <2>3. QED
    BY <2>1, <2>2
<1>7. PICK c \in Seq(Bytes) : c = SubSeq(b, 2 + k, n) /\ Len(c) = n - (1 + k)
  <2>1. 1 + k \in 0..Len(b) /\ (1 + k) + 1 = 2 + k
    BY <1>3, <1>4
  <2>2. SubSeq(b, (1 + k) + 1, Len(b)) \in Seq(Bytes) /\ Len(SubSeq(b, (1 + k) + 1, Len(b))) = Len(b) - (1 + k)
    BY <2>1, BytesBehind
  <2>3. QED
    BY <1>3, <2>1, <2>2
<1>8. Payload(p) = a \o c
  BY <1>2, <1>3, <1>4, <1>6, <1>7 DEF Payload
<1>9. a \o c \in Seq(Bytes) /\ Len(a \o c) = Len(a) + Len(c)
  BY BytesJoined
<1>10. 1 + (n - (1 + k)) \in Nat /\ 1 + (n - (1 + k)) < Limit
  BY <1>3, <1>4, ShortLengths
<1>11. Len(a \o c) \in DOMAIN LengthField
  BY <1>6, <1>7, <1>9, <1>10, LengthFieldIs
<1>12. QED
  BY <1>8, <1>9, <1>11

\* What _send_msg writes is what the standard makes of the packet.
LEMMA MsgIsEncoding ==
    ASSUME NEW h \in Bytes, NEW i \in Seq(Bytes), NEW c \in Seq(Bytes),
           Len(i) + Len(c) \in DOMAIN LengthField
    PROVE  Msg(h, i, c) = Encoding([head |-> h, body |-> i \o c])
<1> DEFINE p == [head |-> h, body |-> i \o c]
<1>1. PICK b \in Seq(Bytes) : b = i \o c /\ Len(b) = Len(i) + Len(c)
  BY BytesJoined
<1>2. PICK n \in DOMAIN LengthField : n = Len(i) + Len(c)
  OBVIOUS
<1>3. PICK f \in Seq(Bytes) : f = EncodeLength[n] /\ f = LengthField[n]
  <2>1. LengthField[n] = EncodeLength[n] /\ LengthField[n] \in LengthFields
    BY LengthFieldIs
  <2>2. LengthField[n] \in Seq(Bytes)
    BY <2>1, FieldIs
  <2>3. QED
    BY <2>1, <2>2
<1>4. PICK a \in Seq(Bytes) : a = <<h>>
  <2>1. <<h>> \in Seq(Bytes)
    OBVIOUS
  <2>2. QED
    BY <2>1
<1>5. Encoding(p) = (a \o f) \o b
  BY <1>1, <1>2, <1>3, <1>4 DEF Encoding
<1>6. Msg(h, i, c) = ((a \o f) \o i) \o c
  BY <1>2, <1>3, <1>4 DEF Msg
<1>7. PICK d \in Seq(Bytes) : d = a \o f
  BY BytesJoined
<1>8. (d \o i) \o c = d \o (i \o c)
  BY BytesAssociate
<1>9. QED
  BY <1>1, <1>5, <1>6, <1>7, <1>8

LEMMA OnlyIn ==
    ASSUME NEW V, NEW s \in Seq(V), NEW S
    PROVE  Only(s, S) \in Seq(V \cap S)
<1> DEFINE P == {t \in Seq(V) : Only(t, S) \in Seq(V \cap S)}
<1>1. <<>> \in P
  <2>1. <<>> \in Seq(V) /\ <<>> \in Seq(V \cap S)
    OBVIOUS
  <2>2. QED
    BY <2>1, OnlyEmpty
<1>2. ASSUME NEW t \in Seq(V), t \in P, NEW e \in V
      PROVE  Append(t, e) \in P
  <2>1. Append(t, e) \in Seq(V) /\ Only(Append(t, e), S) = Picked(Only(t, S), e, S)
    BY OnlyAppend
  <2>2. PICK r \in Seq(V \cap S) : r = Only(t, S)
    BY <1>2
  <2>3. Picked(r, e, S) \in Seq(V \cap S)
    <3>1. CASE e \in S
      <4>1. e \in V \cap S
        BY <3>1
      <4>2. Append(r, e) \in Seq(V \cap S)
        BY <4>1
      <4>3. QED
        BY <3>1, <4>2 DEF Picked
    <3>2. CASE e \notin S
      BY <3>2 DEF Picked
    <3>3. QED
      BY <3>1, <3>2
  <2>4. QED
    BY <2>1, <2>2, <2>3
<1>3. \A t \in P : Only(t, S) \in Seq(V \cap S)
  OBVIOUS
<1> HIDE DEF P
<1>4. s \in P
  BY <1>1, <1>2, SeqInduct
<1>5. QED
  BY <1>3, <1>4

LEMMA Grown ==
    ASSUME NEW V, NEW a \in Seq(V), NEW m \in Seq(V), Len(a) = Len(m) + 1,
           \A i \in 1..Len(m) : m[i] = a[i]
    PROVE  a = Append(m, a[Len(m) + 1])
<1> DEFINE e == a[Len(m) + 1]
           b == Append(m, e)
<1>0. Len(m) \in Nat /\ Len(a) \in Nat
  OBVIOUS
<1>1. e \in V
  BY <1>0
<1> HIDE DEF e
<1>2. /\ b \in Seq(V) /\ Len(b) = Len(m) + 1 /\ b[Len(m) + 1] = e
      /\ \A i \in 1..Len(m) : b[i] = m[i]
  BY <1>0, <1>1
<1> HIDE DEF b
<1>3. ASSUME NEW i \in 1..Len(a)
      PROVE  a[i] = b[i]
  <2>1. CASE i = Len(m) + 1
    BY <1>2, <2>1 DEF e
  <2>2. CASE i # Len(m) + 1
    <3>1. i \in 1..Len(m)
      BY <1>0, <2>2
    <3>2. QED
      BY <1>2, <3>1
  <2>3. QED
    BY <2>1, <2>2
<1>4. a = b
  BY <1>2, <1>3, SeqEqual
<1>5. QED
  BY <1>4 DEF b, e

\* What there is to be read, after these packets.
AnswersTo(s) == [i \in DOMAIN s |-> [head |-> Answer, body |-> PacketId(s[i])]]
ForwardsOf(s) == [i \in DOMAIN s |-> [head |-> Publish, body |-> Payload(s[i])]]
ToClient(ps) == Stream(AnswersTo(Only(ps, AskingPackets)))
ToSubscriber(ps) == Stream(ForwardsOf(Only(ps, PublishedPackets)))

LEMMA AnswerIsWhole ==
    ASSUME NEW p \in Encodable
    PROVE  Answer \in Bytes /\ [head |-> Answer, body |-> PacketId(p)] \in Whole
<1>1. Answer \in Bytes
  BY FramingAssumption DEF Bytes, Answer
<1>2. PacketId(p) \in Seq(Bytes) /\ Len(PacketId(p)) \in DOMAIN LengthField
  BY EncodableIs, PacketIdIs
<1>3. QED
  BY <1>1, <1>2 DEF Whole

LEMMA ForwardIsWhole ==
    ASSUME NEW p \in Encodable \cap PublishedPackets
    PROVE  Publish \in Bytes /\ [head |-> Publish, body |-> Payload(p)] \in Whole
<1>1. Publish \in Bytes
  BY FramingAssumption DEF Bytes, Publish
<1>2. Payload(p) \in Seq(Bytes) /\ Len(Payload(p)) \in DOMAIN LengthField
  BY PayloadIs DEF PublishedPackets
<1>3. QED
  BY <1>1, <1>2 DEF Whole

LEMMA AnswersToIs ==
    ASSUME NEW s \in Seq(Encodable)
    PROVE  /\ AnswersTo(s) \in Seq(Whole) /\ Len(AnswersTo(s)) = Len(s)
           /\ \A i \in 1..Len(s) : AnswersTo(s)[i] = [head |-> Answer, body |-> PacketId(s[i])]
<1> DEFINE m == AnswersTo(s)
<1>0. DOMAIN s = 1..Len(s) /\ Len(s) \in Nat
  OBVIOUS
<1>1. m = [i \in 1..Len(s) |-> [head |-> Answer, body |-> PacketId(s[i])]]
  BY <1>0 DEF AnswersTo
<1>2. ASSUME NEW i \in 1..Len(s)
      PROVE  [head |-> Answer, body |-> PacketId(s[i])] \in Whole
  <2>1. s[i] \in Encodable
    BY <1>0
  <2>2. QED
    BY <2>1, AnswerIsWhole
<1> HIDE DEF m
<1>3. m \in [1..Len(s) -> Whole]
  BY <1>1, <1>2
<1>4. m \in Seq(Whole) /\ Len(m) = Len(s)
  BY <1>0, <1>3
<1>5. QED
  BY <1>1, <1>4 DEF m

LEMMA AnswersToAppend ==
    ASSUME NEW s \in Seq(Encodable), NEW p \in Encodable
    PROVE  AnswersTo(Append(s, p)) = Append(AnswersTo(s), [head |-> Answer, body |-> PacketId(p)])
<1> DEFINE t == Append(s, p)
           m == AnswersTo(s)
           a == AnswersTo(t)
<1>1. /\ t \in Seq(Encodable) /\ Len(t) = Len(s) + 1 /\ t[Len(s) + 1] = p
      /\ Len(s) \in Nat /\ \A i \in 1..Len(s) : t[i] = s[i]
  OBVIOUS
<1>2. /\ m \in Seq(Whole) /\ Len(m) = Len(s)
      /\ \A i \in 1..Len(s) : m[i] = [head |-> Answer, body |-> PacketId(s[i])]
  BY AnswersToIs
<1> HIDE DEF t
<1>3. /\ a \in Seq(Whole) /\ Len(a) = Len(t)
      /\ \A i \in 1..Len(t) : a[i] = [head |-> Answer, body |-> PacketId(t[i])]
  BY <1>1, AnswersToIs
<1> HIDE DEF m, a
<1>4. ASSUME NEW i \in 1..Len(m)
      PROVE  m[i] = a[i]
  <2>1. i \in 1..Len(s) /\ i \in 1..Len(t) /\ t[i] = s[i]
    BY <1>1, <1>2
  <2>2. QED
    BY <1>2, <1>3, <2>1
<1>5. Len(a) = Len(m) + 1
  BY <1>1, <1>2, <1>3
<1>6. a = Append(m, a[Len(m) + 1])
  BY <1>2, <1>3, <1>4, <1>5, Grown
<1>7. a[Len(m) + 1] = [head |-> Answer, body |-> PacketId(p)]
  <2>1. Len(s) + 1 \in 1..Len(t)
    BY <1>1
  <2>2. QED
    BY <1>1, <1>2, <1>3, <2>1
<1>8. QED
  BY <1>6, <1>7 DEF t, m, a

LEMMA ForwardsOfIs ==
    ASSUME NEW s \in Seq(Encodable \cap PublishedPackets)
    PROVE  /\ ForwardsOf(s) \in Seq(Whole) /\ Len(ForwardsOf(s)) = Len(s)
           /\ \A i \in 1..Len(s) : ForwardsOf(s)[i] = [head |-> Publish, body |-> Payload(s[i])]
<1> DEFINE m == ForwardsOf(s)
<1>0. DOMAIN s = 1..Len(s) /\ Len(s) \in Nat
  OBVIOUS
<1>1. m = [i \in 1..Len(s) |-> [head |-> Publish, body |-> Payload(s[i])]]
  BY <1>0 DEF ForwardsOf
<1>2. ASSUME NEW i \in 1..Len(s)
      PROVE  [head |-> Publish, body |-> Payload(s[i])] \in Whole
  <2>1. s[i] \in Encodable \cap PublishedPackets
    BY <1>0
  <2>2. QED
    BY <2>1, ForwardIsWhole
<1> HIDE DEF m
<1>3. m \in [1..Len(s) -> Whole]
  BY <1>1, <1>2
<1>4. m \in Seq(Whole) /\ Len(m) = Len(s)
  BY <1>0, <1>3
<1>5. QED
  BY <1>1, <1>4 DEF m

LEMMA ForwardsOfAppend ==
    ASSUME NEW s \in Seq(Encodable \cap PublishedPackets), NEW p \in Encodable \cap PublishedPackets
    PROVE  ForwardsOf(Append(s, p)) = Append(ForwardsOf(s), [head |-> Publish, body |-> Payload(p)])
<1> DEFINE t == Append(s, p)
           m == ForwardsOf(s)
           a == ForwardsOf(t)
<1>1. /\ t \in Seq(Encodable \cap PublishedPackets) /\ Len(t) = Len(s) + 1 /\ t[Len(s) + 1] = p
      /\ Len(s) \in Nat /\ \A i \in 1..Len(s) : t[i] = s[i]
  OBVIOUS
<1>2. /\ m \in Seq(Whole) /\ Len(m) = Len(s)
      /\ \A i \in 1..Len(s) : m[i] = [head |-> Publish, body |-> Payload(s[i])]
  BY ForwardsOfIs
<1> HIDE DEF t
<1>3. /\ a \in Seq(Whole) /\ Len(a) = Len(t)
      /\ \A i \in 1..Len(t) : a[i] = [head |-> Publish, body |-> Payload(t[i])]
  BY <1>1, ForwardsOfIs
<1> HIDE DEF m, a
<1>4. ASSUME NEW i \in 1..Len(m)
      PROVE  m[i] = a[i]
  <2>1. i \in 1..Len(s) /\ i \in 1..Len(t) /\ t[i] = s[i]
    BY <1>1, <1>2
  <2>2. QED
    BY <1>2, <1>3, <2>1
<1>5. Len(a) = Len(m) + 1
  BY <1>1, <1>2, <1>3
<1>6. a = Append(m, a[Len(m) + 1])
  BY <1>2, <1>3, <1>4, <1>5, Grown
<1>7. a[Len(m) + 1] = [head |-> Publish, body |-> Payload(p)]
  <2>1. Len(s) + 1 \in 1..Len(t)
    BY <1>1
  <2>2. QED
    BY <1>1, <1>2, <1>3, <2>1
<1>8. QED
  BY <1>6, <1>7 DEF t, m, a

LEMMA ToClientAppend ==
    ASSUME NEW ps \in Seq(Encodable), NEW p \in Encodable
    PROVE  /\ ToClient(ps) \in Seq(Bytes) /\ Answers(p) \in Seq(Bytes)
           /\ ToClient(Append(ps, p)) = ToClient(ps) \o Answers(p)
<1> DEFINE s == Only(ps, AskingPackets)
           t == Only(Append(ps, p), AskingPackets)
<1>1. s \in Seq(Encodable) /\ t = Picked(s, p, AskingPackets)
  BY OnlyType, OnlyAppend
<1> HIDE DEF s, t
<1> DEFINE q == [head |-> Answer, body |-> PacketId(p)]
<1>2. AnswersTo(s) \in Seq(Whole) /\ AnswersTo(Append(s, p)) = Append(AnswersTo(s), q)
  BY <1>1, AnswersToIs, AnswersToAppend
<1>3. Answer \in Bytes /\ q \in Whole
  BY AnswerIsWhole
<1> HIDE DEF q
<1>4. ToClient(ps) = Stream(AnswersTo(s)) /\ ToClient(Append(ps, p)) = Stream(AnswersTo(t))
  BY DEF ToClient, s, t
<1>5. ToClient(ps) \in Seq(Bytes)
  BY <1>2, <1>4, StreamType
<1>6. p \in AskingPackets <=> p.head # Publish
  BY EncodableIs DEF AskingPackets
<1>7. CASE p.head = Publish
  <2>1. t = s /\ Answers(p) = <<>>
    BY <1>1, <1>6, <1>7 DEF Picked, Answers
  <2>2. ToClient(Append(ps, p)) = ToClient(ps) /\ <<>> \in Seq(Bytes)
    BY <1>4, <2>1
  <2>3. QED
    BY <1>5, <2>1, <2>2, ConcatEmptySeq
<1>8. CASE p.head # Publish
  <2>1. t = Append(s, p) /\ Answers(p) = Msg(Answer, PacketId(p), <<>>)
    BY <1>1, <1>6, <1>8 DEF Picked, Answers
  <2>2. PICK i \in Seq(Bytes) : i = PacketId(p) /\ Len(i) \in DOMAIN LengthField
    BY EncodableIs, PacketIdIs
  <2>3. PICK c \in Seq(Bytes) : c = <<>> /\ Len(c) = 0 /\ i \o c = i
    <3>1. <<>> \in Seq(Bytes) /\ Len(<<>>) = 0 /\ i \o <<>> = i
      BY ConcatEmptySeq
    <3>2. QED
      BY <3>1
  <2>4. Len(i) + Len(c) \in DOMAIN LengthField
    <3>1. Len(i) \in Nat /\ Len(i) + 0 = Len(i)
      OBVIOUS
    <3>2. QED
      BY <2>2, <2>3, <3>1
  <2>5. Msg(Answer, i, c) = Encoding([head |-> Answer, body |-> i])
    BY <1>3, <2>3, <2>4, MsgIsEncoding
  <2>6. Answers(p) = Encoding(q)
    BY <2>1, <2>2, <2>3, <2>5 DEF q
  <2>7. Answers(p) \in Seq(Bytes)
    BY <1>3, <2>6, EncodingType
  <2>8. Stream(Append(AnswersTo(s), q)) = Stream(AnswersTo(s)) \o Encoding(q)
    BY <1>2, <1>3, StreamAppend
  <2>9. QED
    BY <1>2, <1>4, <1>5, <2>1, <2>6, <2>7, <2>8
<1>9. QED
  BY <1>7, <1>8

LEMMA ToSubscriberAppend ==
    ASSUME NEW ps \in Seq(Encodable), NEW p \in Encodable
    PROVE  /\ ToSubscriber(ps) \in Seq(Bytes) /\ Forwards(p) \in Seq(Bytes)
           /\ ToSubscriber(Append(ps, p)) = ToSubscriber(ps) \o Forwards(p)
<1> DEFINE s == Only(ps, PublishedPackets)
           t == Only(Append(ps, p), PublishedPackets)
           q == [head |-> Publish, body |-> Payload(p)]
           U == Encodable \cap PublishedPackets
<1>1. s \in Seq(U) /\ t = Picked(s, p, PublishedPackets)
  BY OnlyIn, OnlyAppend
<1> HIDE DEF s, t
<1>2. ToSubscriber(ps) = Stream(ForwardsOf(s)) /\ ToSubscriber(Append(ps, p)) = Stream(ForwardsOf(t))
  BY DEF ToSubscriber, s, t
<1>3. p \in PublishedPackets <=> p.head # Ping
  BY EncodableIs DEF PublishedPackets
<1>4. p.head # Ping => p \in U
  BY <1>3
<1> HIDE DEF U
<1>5. p \in U => ForwardsOf(Append(s, p)) = Append(ForwardsOf(s), q)
  BY <1>1, ForwardsOfAppend DEF U, q
<1>6. ForwardsOf(s) \in Seq(Whole)
  BY <1>1, ForwardsOfIs DEF U
<1> HIDE DEF q
<1>7. ToSubscriber(ps) \in Seq(Bytes)
  BY <1>2, <1>6, StreamType
<1>8. CASE p.head = Ping
  <2>1. t = s /\ Forwards(p) = <<>>
    BY <1>1, <1>3, <1>8 DEF Picked, Forwards
  <2>2. ToSubscriber(Append(ps, p)) = ToSubscriber(ps) /\ <<>> \in Seq(Bytes)
    BY <1>2, <2>1
  <2>3. QED
    BY <1>7, <2>1, <2>2, ConcatEmptySeq
<1>9. CASE p.head # Ping
  <2>1. t = Append(s, p) /\ Forwards(p) = Msg(Publish, <<>>, Payload(p))
    BY <1>1, <1>3, <1>9 DEF Picked, Forwards
  <2>2. PICK c \in Seq(Bytes) : c = Payload(p) /\ Len(c) \in DOMAIN LengthField
    BY <1>9, PayloadIs
  <2>3. PICK i \in Seq(Bytes) : i = <<>> /\ Len(i) = 0 /\ i \o c = c
    <3>1. <<>> \in Seq(Bytes) /\ Len(<<>>) = 0 /\ <<>> \o c = c
      BY ConcatEmptySeq
    <3>2. QED
      BY <3>1
  <2>4. Len(i) + Len(c) \in DOMAIN LengthField
    <3>1. Len(c) \in Nat /\ 0 + Len(c) = Len(c)
      OBVIOUS
    <3>2. QED
      BY <2>2, <2>3, <3>1
  <2>5. Msg(Publish, i, c) = Encoding([head |-> Publish, body |-> c])
    <3>1. Publish \in Bytes
      BY FramingAssumption DEF Bytes, Publish
    <3>2. QED
      BY <2>3, <2>4, <3>1, MsgIsEncoding
  <2>6. p \in U /\ q \in Whole
    BY <1>4, <1>9, ForwardIsWhole DEF q, U
  <2>7. Forwards(p) = Encoding(q)
    BY <2>1, <2>2, <2>3, <2>5 DEF q
  <2>8. Forwards(p) \in Seq(Bytes)
    BY <2>6, <2>7, EncodingType
  <2>9. Stream(Append(ForwardsOf(s), q)) = Stream(ForwardsOf(s)) \o Encoding(q)
    BY <1>6, <2>6, StreamAppend
  <2>10. ForwardsOf(Append(s, p)) = Append(ForwardsOf(s), q)
    BY <1>5, <2>6
  <2>11. QED
    BY <1>2, <1>7, <2>1, <2>7, <2>8, <2>9, <2>10
<1>10. QED
  BY <1>8, <1>9

(***************************************************************************)
(* The invariant of MqttFraming.                                           *)
(***************************************************************************)
LEMMA BytesCancel ==
    ASSUME NEW a \in Seq(Bytes), NEW b \in Seq(Bytes), NEW c \in Seq(Bytes), a \o b = a \o c
    PROVE  b = c
<1>1. Len(a) <= Len(a) /\ SubSeq(a, Len(a) + 1, Len(a)) = <<>>
  OBVIOUS
<1>2. <<>> \o b = c
  BY <1>1, TwoCuts
<1>3. QED
  BY <1>2, ConcatEmptySeq

\* What has been taken, what is in the buffer and what is under way make up what
\* was sent, unless the handler has failed.
FramingInv ==
    /\ FramingTypeOK
    /\ sent \in Seq(Encodable)
    /\ IsPrefix(taken, sent)
    /\ state # "failed" => Stream(taken) \o (data \o wire) = Stream(sent)
    /\ state = "failed" => Len(taken) < Len(sent)
    /\ FailsAtZeroDigits
    /\ PeersCanRead

LEMMA PeersRead ==
    PeersCanRead <=> written["client"] = ToClient(taken) /\ written["subscriber"] = ToSubscriber(taken)
BY DEF PeersCanRead, ToClient, ToSubscriber, AnswersTo, ForwardsOf

LEMMA EncodablesAreWhole ==
    ASSUME NEW s \in Seq(Encodable)
    PROVE  s \in Seq(Whole)
<1>1. Encodable \subseteq Whole
  BY EncodableIs
<1>2. \A i \in 1..Len(s) : s[i] \in Whole
  BY <1>1
<1>3. QED
  BY <1>2

LEMMA TakenIs ==
    ASSUME FramingInv
    PROVE  /\ taken \in Seq(Encodable) /\ Len(taken) \in Nat /\ Len(sent) \in Nat
           /\ Len(taken) <= Len(sent) /\ taken = SubSeq(sent, 1, Len(taken))
<1>1. taken \in Seq(ClientPackets) /\ sent \in Seq(Encodable)
  BY DEF FramingInv, FramingTypeOK
<1>2. Len(taken) <= Len(sent) /\ SubSeq(taken, 1, Len(taken)) = SubSeq(sent, 1, Len(taken))
  BY DEF FramingInv, IsPrefix
<1>3. SubSeq(taken, 1, Len(taken)) = taken /\ Len(taken) \in Nat /\ Len(sent) \in Nat
  BY <1>1
<1>4. SubSeq(sent, 1, Len(taken)) \in Seq(Encodable)
  BY <1>1, <1>2, <1>3
<1>5. QED
  BY <1>2, <1>3, <1>4

\* The bytes that have not been taken start with the next packet that was sent.
Comes(p, r) ==
    /\ Len(taken) < Len(sent) /\ p = sent[Len(taken) + 1]
    /\ data \o wire = Encoding(p) \o r
    /\ (Stream(taken) \o Encoding(p)) \o r = Stream(sent)

LEMMA NextComes ==
    ASSUME FramingInv, state # "failed", Len(data) >= 1
    PROVE  \E p \in Encodable : \E r \in Seq(Bytes) : Comes(p, r)
<1>1. data \in Seq(Bytes) /\ wire \in Seq(Bytes) /\ sent \in Seq(Encodable)
  BY DEF FramingInv, FramingTypeOK
<1>2. /\ taken \in Seq(Encodable) /\ Len(taken) \in Nat /\ Len(sent) \in Nat
      /\ Len(taken) <= Len(sent) /\ taken = SubSeq(sent, 1, Len(taken))
  BY TakenIs
<1>3. sent \in Seq(Whole) /\ taken \in Seq(Whole)
  BY <1>1, <1>2, EncodablesAreWhole
<1>4. PICK s \in Seq(Bytes) : s = Stream(taken)
  BY <1>3, StreamType
<1>5. PICK x \in Seq(Bytes) : x = data \o wire /\ Len(x) = Len(data) + Len(wire)
  BY <1>1, BytesJoined
<1>6. s \o x = Stream(sent)
  BY <1>4, <1>5 DEF FramingInv
<1>7. Len(taken) < Len(sent)
  <2> SUFFICES ASSUME Len(taken) = Len(sent)
               PROVE  FALSE
    BY <1>2
  <2>1. SubSeq(sent, 1, Len(sent)) = sent
    BY <1>1
  <2>2. taken = sent
    BY <1>2, <2>1
  <2>3. s \o x = s
    BY <1>4, <1>6, <2>2
  <2>4. Len(s \o x) = Len(s) + Len(x)
    BY BytesJoined
  <2>5. Len(s) \in Nat /\ Len(data) \in Nat /\ Len(wire) \in Nat
    BY <1>1
  <2>6. QED
    BY <1>5, <2>3, <2>4, <2>5
<1>8. Len(taken) \in 0..(Len(sent) - 1) /\ Len(taken) + 1 \in 1..Len(sent)
  BY <1>2, <1>7
<1>9. PICK r \in Seq(Bytes) :
          Stream(sent) = Stream(SubSeq(sent, 1, Len(taken))) \o (Encoding(sent[Len(taken) + 1]) \o r)
  BY <1>3, <1>8, StreamNext DEF Follows
<1>10. PICK p \in Encodable : p = sent[Len(taken) + 1]
  BY <1>1, <1>8
<1>11. PICK e \in Seq(Bytes) : e = Encoding(p)
  BY EncodableIs, EncodingType
<1>12. PICK y \in Seq(Bytes) : y = e \o r
  BY BytesJoined
<1>13. Stream(sent) = s \o y
  BY <1>2, <1>4, <1>9, <1>10, <1>11, <1>12
<1>14. x = y
  BY <1>6, <1>13, BytesCancel
<1>15. (s \o e) \o r = s \o y
  BY <1>12, BytesAssociate
<1>16. Comes(p, r)
  BY <1>4, <1>5, <1>7, <1>10, <1>11, <1>12, <1>13, <1>14, <1>15 DEF Comes
<1>17. QED
  BY <1>16

\* What the handler cuts out when it takes a packet for complete: the packet, or
\* an empty one where the length of the packet starts with a zero digit.
CutWhole(p) ==
    /\ HeadLen + MsgLength = Len(Encoding(p)) /\ Len(Encoding(p)) <= Len(data)
    /\ Message = p
CutEmpty(p) ==
    /\ Message.head = p.head /\ Message.body = <<>> /\ p.head # Ping
    /\ Len(p.body) > 0 /\ Len(p.body) % Base = 0

LEMMA CutIs ==
    ASSUME data \in Seq(Bytes), wire \in Seq(Bytes), Complete,
           NEW p \in Encodable, NEW r \in Seq(Bytes), data \o wire = Encoding(p) \o r
    PROVE  CutWhole(p) \/ CutEmpty(p)
<1>1. PICK f \in LengthFields :
              /\ f = LengthField[Len(p.body)] /\ Number(f) = Len(p.body)
              /\ Joins3(Encoding(p), p.head, f, p.body)
  BY EncodableIs, EncodingIs
<1>2. PICK e \in Seq(Bytes) : e = Encoding(p)
  BY EncodableIs, EncodingType
<1>3. /\ p = [head |-> p.head, body |-> p.body] /\ p.body \in Seq(Bytes)
      /\ p.head = Ping => p.body = <<>>
  BY EncodableIs, PacketIs
<1>4. PICK m \in 1..4 : m = Len(f)
  BY FieldIs
<1>5. PICK n \in Nat : n = Len(data)
  OBVIOUS
<1>6. PICK k \in Nat : k = Len(p.body)
  BY <1>3
<1>7. /\ Len(e) = 1 + m + k /\ e[1] = p.head
      /\ \A i \in 1..m : e[1 + i] = f[i]
      /\ \A i \in 1..k : e[1 + m + i] = p.body[i]
  BY <1>1, <1>2, <1>4, <1>6 DEF Joins3
<1>8. \A i \in 1..n : i <= Len(e) => data[i] = e[i]
  BY <1>2, <1>5, TwoCuts
<1>9. n >= 2 /\ MsgLength + HeadLen <= n
  BY <1>5 DEF Complete
<1>10. data[1] = p.head
  <2>1. 1 \in 1..n /\ 1 <= Len(e)
    BY <1>7, <1>9
  <2>2. QED
    BY <1>7, <1>8, <2>1
<1>11. ASSUME NEW i \in 1..m, i < n
       PROVE  data[1 + i] = f[i]
  <2>1. 1 + i \in 1..n /\ 1 + i <= Len(e)
    BY <1>7, <1>11
  <2>2. QED
    BY <1>7, <1>8, <2>1
<1>12. CASE n >= 1 + m
  <2>1. LengthBytes(Tail(data)) = f
    <3>1. Len(data) >= 1 + Len(f)
      BY <1>4, <1>5, <1>12
    <3>2. \A i \in 1..Len(f) : i \in 1..m /\ i < n
      BY <1>4, <1>12
    <3>3. \A i \in 1..Len(f) : data[1 + i] = f[i]
      BY <1>11, <3>2
    <3>4. QED
      BY <3>1, <3>3, FieldFound
  <2>2. HeadLen = m + 1 /\ MsgLength = k
    BY <1>1, <1>4, <1>6, <2>1 DEF HeadLen, MsgLength
  <2>3. 1 + m + k <= n
    BY <1>9, <2>2
  <2>4. Message = [head |-> data[1], body |-> SubSeq(data, (m + 1) + 1, (m + 1) + k)]
    BY <2>2 DEF Message
  <2>5. SubSeq(data, (m + 1) + 1, (m + 1) + k) = p.body
    <3> DEFINE b == SubSeq(data, (m + 1) + 1, (m + 1) + k)
    <3>1. /\ (m + 1) + 1 \in Int /\ (m + 1) + k \in Int /\ ((m + 1) + k) - ((m + 1) + 1) + 1 = k
          /\ \A i \in ((m + 1) + 1)..((m + 1) + k) : i \in 1..n
          /\ \A i \in 1..k : ((m + 1) + 1) + i - 1 = 1 + m + i /\ 1 + m + i \in 1..n /\ 1 + m + i <= Len(e)
      BY <1>7, <2>3
    <3>2. \A i \in ((m + 1) + 1)..((m + 1) + k) : data[i] \in Bytes
      BY <1>5, <3>1
    <3>3. /\ b \in Seq(Bytes)
          /\ Len(b) = IF (m + 1) + 1 <= (m + 1) + k THEN ((m + 1) + k) - ((m + 1) + 1) + 1 ELSE 0
          /\ \A i \in 1..(((m + 1) + k) - ((m + 1) + 1) + 1) : b[i] = data[((m + 1) + 1) + i - 1]
      BY <3>1, <3>2, SubSeqProperties
    <3> HIDE DEF b
    <3>4. Len(b) = k
      <4>1. (m + 1) + 1 <= (m + 1) + k <=> k >= 1
        OBVIOUS
      <4>2. QED
        BY <3>1, <3>3, <4>1
    <3>5. ASSUME NEW i \in 1..Len(b)
          PROVE  b[i] = p.body[i]
      <4>1. i \in 1..k
        BY <3>4
      <4>2. b[i] = data[1 + m + i]
        BY <3>1, <3>3, <4>1
      <4>3. data[1 + m + i] = e[1 + m + i]
        BY <1>8, <3>1, <4>1
      <4>4. QED
        BY <1>7, <4>1, <4>2, <4>3
    <3>6. b = p.body
      BY <1>3, <1>6, <3>3, <3>4, <3>5, BytesEqual
    <3>7. QED
      BY <3>6 DEF b
  <2>6. Message = p
    BY <1>3, <1>10, <2>4, <2>5
  <2>7. HeadLen + MsgLength = Len(e)
    BY <1>7, <2>2
  <2>8. QED
    BY <1>2, <1>5, <1>7, <2>3, <2>6, <2>7 DEF CutWhole
<1>13. CASE n < 1 + m
  <2>1. /\ LengthBytes(Tail(data)) = Tail(data)
        /\ Len(data) >= 2 /\ Number(Tail(data)) = 0 => Number(f) > 0 /\ Number(f) % Base = 0
    <3>1. Len(data) >= 1 /\ Len(data) < 1 + Len(f)
      BY <1>4, <1>5, <1>9, <1>13
    <3>2. \A i \in 1..(Len(data) - 1) : i \in 1..m /\ i < n
      BY <1>5, <1>13
    <3>3. \A i \in 1..(Len(data) - 1) : data[1 + i] = f[i]
      BY <1>11, <3>2
    <3>4. QED
      BY <3>1, <3>3, FieldCutOff
  <2>2. Tail(data) \in Seq(Bytes) /\ Len(Tail(data)) = n - 1
    <3>1. Len(data) >= 1
      BY <1>5, <1>9
    <3>2. QED
      BY <1>5, <3>1, TailIs
  <2>3. PICK l \in Nat : l = Number(Tail(data))
    BY <2>2, NumberType
  <2>4. HeadLen = (n - 1) + 1 /\ MsgLength = l
    BY <2>1, <2>2, <2>3 DEF HeadLen, MsgLength
  <2>5. HeadLen = n /\ l = 0
    BY <1>9, <2>4
  <2>6. k > 0 /\ k % Base = 0
    BY <1>1, <1>5, <1>6, <1>9, <2>1, <2>3, <2>5
  <2>7. Message = [head |-> data[1], body |-> SubSeq(data, n + 1, n + 0)]
    BY <2>4, <2>5 DEF Message
  <2>8. SubSeq(data, n + 1, n + 0) = <<>>
    <3>1. n + 0 = n
      OBVIOUS
    <3>2. SubSeq(data, n + 1, n) = <<>>
      BY <1>5
    <3>3. QED
      BY <3>1, <3>2
  <2>9. p.head # Ping
    <3>1. Len(<<>>) = 0
      OBVIOUS
    <3>2. QED
      BY <1>3, <1>6, <2>6, <3>1
  <2>10. QED
    BY <1>6, <1>10, <2>6, <2>7, <2>8, <2>9 DEF CutEmpty
<1>14. QED
  BY <1>12, <1>13

LEMMA LengthBytesType ==
    ASSUME NEW b \in Seq(Bytes)
    PROVE  LengthBytes(b) \in Seq(Bytes)
<1> DEFINE S == {i \in DOMAIN b : b[i] < Base}
<1>1. LengthBytes(b) = SubSeq(b, 1, IF S = {} THEN Len(b) ELSE Min(S))
  BY DEF LengthBytes
<1>2. CASE S = {}
  <2>1. SubSeq(b, 1, Len(b)) \in Seq(Bytes)
    OBVIOUS
  <2>2. QED
    BY <1>1, <1>2, <2>1
<1>3. CASE S # {}
  <2>1. S \subseteq Nat /\ \A i \in S : i \in 1..Len(b)
    OBVIOUS
  <2> HIDE DEF S
  <2>2. PICK m \in S : \A i \in S : m <= i
    <3>1. PICK m \in S : \A i \in S : ~(i < m)
      BY <1>3, <2>1, Least
    <3>2. ASSUME NEW i \in S
          PROVE  m <= i
      <4>1. i \in Nat /\ m \in Nat /\ ~(i < m)
        BY <2>1, <3>1
      <4>2. QED
        BY <4>1
    <3>3. QED
      BY <3>2
  <2>3. Min(S) = m
    BY <2>1, <2>2, MinIs
  <2>4. m \in 0..Len(b)
    BY <2>1
  <2>5. SubSeq(b, 1, m) \in Seq(Bytes)
    BY <2>4, BytesCut
  <2>6. QED
    BY <1>1, <1>3, <2>3, <2>5
<1>4. QED
  BY <1>2, <1>3

\* The sequences stay in order when the same is appended to both, or to the longer.
LEMMA PrefixGrows ==
    ASSUME NEW V, NEW s \in Seq(V), NEW t \in Seq(V), NEW p \in V, IsPrefix(s, t)
    PROVE  IsPrefix(s, Append(t, p))
<1>1. Len(s) \in Nat /\ Len(t) \in Nat /\ Len(s) <= Len(t) /\ Len(Append(t, p)) = Len(t) + 1
  BY DEF IsPrefix
<1>2. SubSeq(Append(t, p), 1, Len(s)) = SubSeq(t, 1, Len(s))
  BY <1>1
<1>3. QED
  BY <1>1, <1>2 DEF IsPrefix

LEMMA PrefixFollows ==
    ASSUME NEW V, NEW s \in Seq(V), NEW t \in Seq(V), IsPrefix(s, t), Len(s) < Len(t)
    PROVE  IsPrefix(Append(s, t[Len(s) + 1]), t)
<1> DEFINE e == t[Len(s) + 1]
           a == Append(s, e)
<1>1. Len(s) \in Nat /\ Len(t) \in Nat /\ Len(s) + 1 <= Len(t)
  OBVIOUS
<1>2. e \in V
  BY <1>1
<1>3. \A i \in 1..Len(s) : s[i] = t[i]
  <2> SUFFICES ASSUME NEW i \in 1..Len(s)
               PROVE  s[i] = t[i]
    OBVIOUS
  <2>1. SubSeq(s, 1, Len(s)) = SubSeq(t, 1, Len(s))
    BY DEF IsPrefix
  <2>2. SubSeq(s, 1, Len(s))[i] = s[i] /\ SubSeq(t, 1, Len(s))[i] = t[i]
    BY <1>1
  <2>3. QED
    BY <2>1, <2>2
<1> HIDE DEF e
<1>4. /\ a \in Seq(V) /\ Len(a) = Len(s) + 1 /\ a[Len(s) + 1] = e
      /\ \A i \in 1..Len(s) : a[i] = s[i]
  BY <1>1, <1>2
<1> HIDE DEF a
<1> DEFINE b == SubSeq(t, 1, Len(s) + 1)
           c == SubSeq(a, 1, Len(a))
<1>5. c = a
  BY <1>4
<1>6. b \in Seq(V) /\ Len(b) = Len(s) + 1 /\ \A i \in 1..(Len(s) + 1) : b[i] = t[i]
  BY <1>1
<1> HIDE DEF b, c
<1>7. ASSUME NEW i \in 1..Len(a)
      PROVE  a[i] = b[i]
  <2>1. CASE i = Len(s) + 1
    BY <1>4, <1>6, <2>1 DEF e
  <2>2. CASE i # Len(s) + 1
    <3>1. i \in 1..Len(s) /\ i \in 1..(Len(s) + 1)
      BY <1>1, <1>4, <2>2
    <3>2. QED
      BY <1>3, <1>4, <1>6, <3>1
  <2>3. QED
    BY <2>1, <2>2
<1>8. a = b
  BY <1>4, <1>6, <1>7, SeqEqual
<1>9. IsPrefix(a, t)
  BY <1>1, <1>4, <1>5, <1>8 DEF IsPrefix, b, c
<1>10. QED
  BY <1>9 DEF a, e

LEMMA SendsKeeps ==
    ASSUME FramingInv, NEW p \in ClientPackets, Sends(p)
    PROVE  FramingInv'
<1>0. FramingTypeOK /\ sent \in Seq(Encodable) /\ wire \in Seq(Bytes) /\ data \in Seq(Bytes)
  BY DEF FramingInv, FramingTypeOK
<1>1. p \in Encodable
  BY DEF Sends, Encodable
<1>2. Encoding(p) \in Seq(Bytes) /\ p \in Whole
  BY <1>1, EncodableIs, EncodingType
<1>3. /\ Len(sent) < MaxPackets /\ sent' = Append(sent, p) /\ wire' = wire \o Encoding(p)
      /\ data' = data /\ state' = state /\ taken' = taken /\ written' = written
  BY DEF Sends
<1>4. /\ taken \in Seq(Encodable) /\ Len(taken) \in Nat /\ Len(sent) \in Nat
      /\ Len(taken) <= Len(sent)
  BY TakenIs
<1>5. /\ sent' \in Seq(Encodable) /\ Len(sent') = Len(sent) + 1
      /\ \A i \in 1..Len(sent) : sent'[i] = sent[i]
  BY <1>0, <1>1, <1>3
<1>6. FramingTypeOK'
  <2>1. wire' \in Seq(Bytes)
    BY <1>0, <1>2, <1>3, BytesJoined
  <2>2. sent' \in Seq(ClientPackets) /\ Len(sent') <= MaxPackets
    <3>1. sent \in Seq(ClientPackets)
      BY <1>0 DEF FramingTypeOK
    <3>2. MaxPackets \in Nat
      BY FramingAssumption
    <3>3. QED
      BY <1>3, <1>4, <1>5, <3>1, <3>2
  <2>3. QED
    BY <1>0, <1>3, <2>1, <2>2 DEF FramingTypeOK
<1>7. IsPrefix(taken', sent')
  <2>1. IsPrefix(taken, sent)
    BY DEF FramingInv
  <2>2. QED
    BY <1>0, <1>1, <1>3, <1>4, <2>1, PrefixGrows
<1>8. state' # "failed" => Stream(taken') \o (data' \o wire') = Stream(sent')
  <2> SUFFICES ASSUME state # "failed"
               PROVE  Stream(taken) \o (data \o wire') = Stream(sent')
    BY <1>3
  <2>1. sent \in Seq(Whole) /\ taken \in Seq(Whole)
    BY <1>0, <1>4, EncodablesAreWhole
  <2>2. PICK s \in Seq(Bytes) : s = Stream(taken)
    BY <2>1, StreamType
  <2>3. PICK x \in Seq(Bytes) : x = data \o wire
    BY <1>0, BytesJoined
  <2>4. PICK e \in Seq(Bytes) : e = Encoding(p)
    BY <1>2
  <2>5. Stream(sent') = (s \o x) \o e
    <3>1. Stream(Append(sent, p)) = Stream(sent) \o Encoding(p)
      BY <1>2, <2>1, StreamAppend
    <3>2. s \o x = Stream(sent)
      BY <2>2, <2>3 DEF FramingInv
    <3>3. QED
      BY <1>3, <2>4, <3>1, <3>2
  <2>6. (s \o x) \o e = s \o (x \o e)
    BY BytesAssociate
  <2>7. (data \o wire) \o e = data \o (wire \o e)
    BY <1>0, BytesAssociate, ZenonT(30)
  <2>8. x \o e = data \o wire'
    BY <1>3, <2>3, <2>4, <2>7
  <2>9. QED
    BY <2>2, <2>5, <2>6, <2>8
<1>9. state' = "failed" => Len(taken') < Len(sent')
  BY <1>3, <1>4, <1>5
<1>10. FailsAtZeroDigits'
  <2> SUFFICES ASSUME state = "failed"
               PROVE  LET length == Len(sent'[Len(taken) + 1].body) IN length > 0 /\ length % Base = 0
    BY <1>3 DEF FailsAtZeroDigits
  <2>1. Len(taken) < Len(sent)
    BY DEF FramingInv
  <2>2. Len(taken) + 1 \in 1..Len(sent)
    BY <1>4, <2>1
  <2>3. sent'[Len(taken) + 1] = sent[Len(taken) + 1]
    BY <1>5, <2>2
  <2>4. QED
    BY <2>3 DEF FramingInv, FailsAtZeroDigits
<1>11. PeersCanRead'
  <2>1. written["client"] = ToClient(taken) /\ written["subscriber"] = ToSubscriber(taken)
    BY PeersRead DEF FramingInv
  <2>2. QED
    BY <1>3 DEF FramingInv, PeersCanRead
<1>12. QED
  BY <1>5, <1>6, <1>7, <1>8, <1>9, <1>10, <1>11 DEF FramingInv

LEMMA ReadKeeps ==
    ASSUME FramingInv, NEW n \in 1..MaxRead, Read(n)
    PROVE  FramingInv'
<1>0. wire \in Seq(Bytes) /\ data \in Seq(Bytes) /\ FramingTypeOK
  BY DEF FramingInv, FramingTypeOK
<1>1. /\ state = "reading" /\ n <= Len(wire)
      /\ data' = data \o SubSeq(wire, 1, n)
      /\ wire' = SubSeq(wire, n + 1, Len(wire))
      /\ state' = "taking" /\ sent' = sent /\ taken' = taken /\ written' = written
  BY DEF Read
<1>2. n \in 0..Len(wire)
  <2>1. Len(wire) \in Nat
    BY <1>0
  <2>2. QED
    BY <1>1, <2>1
<1>3. PICK a \in Seq(Bytes) : a = SubSeq(wire, 1, n)
  BY <1>0, <1>2, BytesCut
<1>4. PICK b \in Seq(Bytes) : b = SubSeq(wire, n + 1, Len(wire))
  BY <1>0, <1>2, BytesBehind
<1>5. a \o b = wire
  BY <1>0, <1>2, <1>3, <1>4, BytesCut
<1>6. (data \o a) \o b = data \o (a \o b)
  BY <1>0, BytesAssociate
<1>7. data' \o wire' = data \o wire
  BY <1>1, <1>3, <1>4, <1>5, <1>6
<1>8. data' \in Seq(Bytes) /\ wire' \in Seq(Bytes)
  <2>1. data \o a \in Seq(Bytes)
    BY <1>0, BytesJoined
  <2>2. QED
    BY <1>1, <1>3, <1>4, <2>1
<1>9. FramingTypeOK'
  BY <1>0, <1>1, <1>8 DEF FramingTypeOK
<1>10. state # "failed" /\ state' # "failed"
  BY <1>1
<1>11. Stream(taken') \o (data' \o wire') = Stream(sent')
  BY <1>1, <1>7, <1>10 DEF FramingInv
<1>12. IsPrefix(taken', sent') /\ sent' \in Seq(Encodable) /\ PeersCanRead'
  BY <1>1 DEF FramingInv, PeersCanRead
<1>13. QED
  BY <1>9, <1>10, <1>11, <1>12 DEF FramingInv, FailsAtZeroDigits

LEMMA WaitForMoreKeeps ==
    ASSUME FramingInv, WaitForMore
    PROVE  FramingInv'
<1>1. /\ state = "taking" /\ state' = "reading" /\ sent' = sent /\ wire' = wire
      /\ data' = data /\ taken' = taken /\ written' = written
  BY DEF WaitForMore
<1>2. state # "failed" /\ state' # "failed"
  BY <1>1
<1>3. FramingTypeOK'
  BY <1>1 DEF FramingInv, FramingTypeOK
<1>4. Stream(taken') \o (data' \o wire') = Stream(sent')
  BY <1>1, <1>2 DEF FramingInv
<1>5. IsPrefix(taken', sent') /\ sent' \in Seq(Encodable) /\ PeersCanRead'
  BY <1>1 DEF FramingInv, PeersCanRead
<1>6. QED
  BY <1>2, <1>3, <1>4, <1>5 DEF FramingInv, FailsAtZeroDigits

LEMMA TakePacketKeeps ==
    ASSUME FramingInv, TakePacket
    PROVE  FramingInv'
<1>0. wire \in Seq(Bytes) /\ data \in Seq(Bytes) /\ FramingTypeOK /\ sent \in Seq(Encodable)
  BY DEF FramingInv, FramingTypeOK
<1>1. /\ state = "taking" /\ Complete /\ sent' = sent /\ wire' = wire
      /\ data' = SubSeq(data, HeadLen + MsgLength + 1, Len(data))
  BY DEF TakePacket
<1>2. Len(data) >= 2 /\ Len(data) \in Nat
  BY <1>0, <1>1 DEF Complete
<1>3. state # "failed" /\ Len(data) >= 1
  BY <1>1, <1>2
<1>4. PICK p \in Encodable, r \in Seq(Bytes) : Comes(p, r)
  BY <1>3, NextComes
<1>5. CutWhole(p) \/ CutEmpty(p)
  BY <1>0, <1>1, <1>4, CutIs DEF Comes
<1>6. /\ taken \in Seq(Encodable) /\ Len(taken) \in Nat /\ Len(sent) \in Nat
      /\ Len(taken) <= Len(sent)
  BY TakenIs
<1>7. Len(taken) < Len(sent) /\ p = sent[Len(taken) + 1]
  BY <1>4 DEF Comes
<1>8. written["client"] = ToClient(taken) /\ written["subscriber"] = ToSubscriber(taken)
  BY PeersRead DEF FramingInv
<1>9. p \in ClientPackets /\ p \in Whole
  BY EncodableIs
<1>10. CASE CutWhole(p)
  <2>1. /\ HeadLen + MsgLength = Len(Encoding(p)) /\ Len(Encoding(p)) <= Len(data)
        /\ Message = p
    BY <1>10 DEF CutWhole
  <2>2. p.body = <<>> => p.head = Ping
    <3>1. /\ p.head \in {0, 1, 2}
          /\ p.head = Publish => Len(p.body) >= 1
          /\ p.head = PublishQos1 => Len(p.body) >= 2
      BY <1>9, PacketIs
    <3>2. Len(<<>>) = 0
      OBVIOUS
    <3>3. QED
      BY <3>1, <3>2 DEF Ping, Publish, PublishQos1
  <2>3. /\ taken' = Append(taken, p) /\ state' = state
        /\ written' = [client |-> written["client"] \o Answers(p),
                       subscriber |-> written["subscriber"] \o Forwards(p)]
    BY <2>1, <2>2 DEF TakePacket
  <2>4. PICK e \in Seq(Bytes) : e = Encoding(p)
    BY <1>9, EncodingType
  <2>5. Len(e) \in 0..Len(data)
    BY <1>2, <2>1, <2>4
  <2>6. data' = SubSeq(data, Len(e) + 1, Len(data)) /\ data' \in Seq(Bytes)
    <3>1. data' = SubSeq(data, Len(e) + 1, Len(data))
      BY <1>1, <2>1, <2>4
    <3>2. QED
      BY <1>0, <2>5, <3>1, BytesBehind
  <2>7. data' \o wire' = r
    <3>1. data \o wire = e \o r
      BY <1>4, <2>4 DEF Comes
    <3>2. Len(e) <= Len(data)
      BY <2>1, <2>4
    <3>3. SubSeq(data, Len(e) + 1, Len(data)) \o wire = r
      BY <1>0, <3>1, <3>2, TwoCuts
    <3>4. QED
      BY <1>1, <2>6, <3>3
  <2>8. Stream(taken') \o (data' \o wire') = Stream(sent')
    <3>1. taken \in Seq(Whole)
      BY <1>6, EncodablesAreWhole
    <3>2. Stream(Append(taken, p)) = Stream(taken) \o Encoding(p)
      BY <1>9, <3>1, StreamAppend
    <3>3. (Stream(taken) \o Encoding(p)) \o r = Stream(sent)
      BY <1>4 DEF Comes
    <3>4. QED
      BY <1>1, <2>3, <2>7, <3>2, <3>3
  <2>9. IsPrefix(taken', sent')
    <3>1. IsPrefix(taken, sent)
      BY DEF FramingInv
    <3>2. QED
      BY <1>0, <1>1, <1>6, <1>7, <2>3, <3>1, PrefixFollows
  <2>10. /\ ToClient(taken') = ToClient(taken) \o Answers(p)
         /\ ToSubscriber(taken') = ToSubscriber(taken) \o Forwards(p)
         /\ ToClient(taken) \o Answers(p) \in Seq(Bytes)
         /\ ToSubscriber(taken) \o Forwards(p) \in Seq(Bytes)
    <3>1. /\ ToClient(taken) \in Seq(Bytes) /\ Answers(p) \in Seq(Bytes)
          /\ ToClient(Append(taken, p)) = ToClient(taken) \o Answers(p)
      BY <1>6, ToClientAppend
    <3>2. /\ ToSubscriber(taken) \in Seq(Bytes) /\ Forwards(p) \in Seq(Bytes)
          /\ ToSubscriber(Append(taken, p)) = ToSubscriber(taken) \o Forwards(p)
      BY <1>6, ToSubscriberAppend
    <3>3. QED
      BY <2>3, <3>1, <3>2, BytesJoined
  <2>11. written'["client"] = ToClient(taken') /\ written'["subscriber"] = ToSubscriber(taken')
    BY <1>8, <2>3, <2>10
  <2>12. PeersCanRead'
    BY <2>11 DEF PeersCanRead, ToClient, ToSubscriber, AnswersTo, ForwardsOf
  <2>13. FramingTypeOK'
    <3>1. taken' \in Seq(ClientPackets)
      <4>1. taken \in Seq(ClientPackets)
        BY <1>0 DEF FramingTypeOK
      <4>2. QED
        BY <1>9, <2>3, <4>1
    <3>2. written' \in [{"client", "subscriber"} -> Seq(Bytes)]
      <4>1. PICK x \in Seq(Bytes), y \in Seq(Bytes) :
                x = ToClient(taken) \o Answers(p) /\ y = ToSubscriber(taken) \o Forwards(p)
        BY <2>10
      <4>2. written' = [client |-> x, subscriber |-> y]
        BY <1>8, <2>3, <4>1
      <4>3. [client |-> x, subscriber |-> y] \in [{"client", "subscriber"} -> Seq(Bytes)]
        OBVIOUS
      <4>4. QED
        BY <4>2, <4>3
    <3>3. QED
      BY <1>0, <1>1, <2>3, <2>6, <3>1, <3>2 DEF FramingTypeOK
  <2>14. QED
    BY <1>0, <1>1, <1>3, <2>3, <2>8, <2>9, <2>12, <2>13 DEF FramingInv, FailsAtZeroDigits
<1>11. CASE CutEmpty(p)
  <2>1. /\ Message.head = p.head /\ Message.body = <<>> /\ p.head # Ping
        /\ Len(p.body) > 0 /\ Len(p.body) % Base = 0
    BY <1>11 DEF CutEmpty
  <2>2. state' = "failed" /\ taken' = taken /\ written' = written
    BY <2>1 DEF TakePacket
  <2>3. FailsAtZeroDigits'
    BY <1>1, <1>7, <2>1, <2>2 DEF FailsAtZeroDigits
  <2>4. data' \in Seq(Bytes)
    <3>1. HeadLen \in Nat /\ MsgLength \in Nat
      <4>1. LengthBytes(Tail(data)) \in Seq(Bytes)
        <5>1. Tail(data) \in Seq(Bytes)
          BY <1>0, <1>3, TailIs
        <5>2. QED
          BY <5>1, LengthBytesType
      <4>2. QED
        BY <4>1, NumberType DEF HeadLen, MsgLength
    <3>2. MsgLength + HeadLen <= Len(data)
      BY <1>1 DEF Complete
    <3>3. PICK k \in 0..Len(data) : k = HeadLen + MsgLength
      BY <1>2, <3>1, <3>2
    <3>4. QED
      BY <1>0, <1>1, <3>3, BytesBehind
  <2>5. FramingTypeOK'
    BY <1>0, <1>1, <2>2, <2>4 DEF FramingTypeOK
  <2>6. IsPrefix(taken', sent') /\ sent' \in Seq(Encodable) /\ PeersCanRead' /\ Len(taken') < Len(sent')
    BY <1>1, <1>7, <2>2 DEF FramingInv, PeersCanRead
  <2>7. QED
    BY <2>2, <2>3, <2>5, <2>6 DEF FramingInv
<1>12. QED
  BY <1>5, <1>10, <1>11

LEMMA FramingStarts ==
    ASSUME FramingInit
    PROVE  FramingInv
<1>1. /\ sent = <<>> /\ wire = <<>> /\ data = <<>> /\ taken = <<>> /\ state = "reading"
      /\ written = [to \in {"client", "subscriber"} |-> <<>>]
  BY DEF FramingInit
<1>2. <<>> \in Seq(Bytes) /\ <<>> \in Seq(Encodable) /\ <<>> \in Seq(ClientPackets) /\ Len(<<>>) = 0
  OBVIOUS
<1>3. FramingTypeOK
  <2>1. 0 <= MaxPackets
    BY FramingAssumption
  <2>2. QED
    BY <1>1, <1>2, <2>1 DEF FramingTypeOK
<1>4. IsPrefix(taken, sent)
  BY <1>1 DEF IsPrefix
<1>5. Stream(taken) \o (data \o wire) = Stream(sent)
  <2>1. <<>> \o <<>> = <<>>
    BY <1>2, ConcatEmptySeq
  <2>2. QED
    BY <1>1, <2>1, StreamEmpty
<1>6. PeersCanRead
  <2>1. \A S : Only(taken, S) = <<>>
    BY <1>1, OnlyEmpty
  <2>2. AnswersTo(<<>>) = <<>> /\ ForwardsOf(<<>>) = <<>>
    BY DEF AnswersTo, ForwardsOf
  <2>3. ToClient(taken) = <<>> /\ ToSubscriber(taken) = <<>>
    BY <2>1, <2>2, StreamEmpty DEF ToClient, ToSubscriber
  <2>4. written["client"] = <<>> /\ written["subscriber"] = <<>>
    BY <1>1
  <2>5. QED
    BY <2>3, <2>4, PeersRead
<1>7. QED
  BY <1>1, <1>2, <1>3, <1>4, <1>5, <1>6 DEF FramingInv, FailsAtZeroDigits

LEMMA FramingInvariance == FramingSpec => []FramingInv
<1>1. FramingInit => FramingInv
  BY FramingStarts
<1>2. FramingInv /\ [FramingNext]_framingVars => FramingInv'
  <2> SUFFICES ASSUME FramingInv, [FramingNext]_framingVars
               PROVE  FramingInv'
    OBVIOUS
  <2>1. ASSUME NEW p \in ClientPackets, Sends(p)
        PROVE  FramingInv'
    BY <2>1, SendsKeeps
  <2>2. ASSUME NEW n \in 1..MaxRead, Read(n)
        PROVE  FramingInv'
    BY <2>2, ReadKeeps
  <2>3. CASE WaitForMore
    BY <2>3, WaitForMoreKeeps
  <2>4. CASE TakePacket
    BY <2>4, TakePacketKeeps
  <2>5. CASE UNCHANGED framingVars
    BY <2>5 DEF framingVars, FramingInv, FramingTypeOK, FailsAtZeroDigits, PeersCanRead
  <2>6. QED
    BY <2>1, <2>2, <2>3, <2>4, <2>5 DEF FramingNext, Reading
<1>3. QED
  BY <1>1, <1>2, PTL DEF FramingSpec

\* However the bytes are split over reads, only whole packets are processed, in
\* the order they were sent, and the handler fails at zero digits alone.
THEOREM PacketsAreWholeTheorem == FramingSpec => []PacketsAreWhole
<1>1. FramingInv => PacketsAreWhole
  BY DEF FramingInv, PacketsAreWhole
<1>2. QED
  BY <1>1, FramingInvariance, PTL

\* What is written to the client and to the subscriber is what the standard makes
\* of the answers and of the publications.
THEOREM PeersCanReadTheorem == FramingSpec => []PeersCanRead
<1>1. FramingInv => PeersCanRead
  BY DEF FramingInv
<1>2. QED
  BY <1>1, FramingInvariance, PTL
=============================================================================
