------------------------ MODULE SharedServers_proofs ------------------------
(***************************************************************************)
(* Proofs about SharedServers, for any set of entries and any number of    *)
(* calls: a proxied entry has its server, and the broker is a shared       *)
(* resource.                                                               *)
(***************************************************************************)
EXTENDS SharedServers, SequenceTheorems, FiniteSetTheorems, TLAPS

Calls == {"life", "poll"}

\* What may be left of a setup, ...
Getting    == <<"get", "probe", "connect", "refresh">>
FirstProbe == <<"probe", "create", "connect", "refresh">>
Creating   == <<"create", "connect", "refresh">>
Probing    == <<"probe", "connect", "refresh">>
Connecting == <<"connect", "refresh">>
Refreshing == <<"refresh">>

\* ... of a setup that has failed, of an unload, ...
Failing      == <<"stop_broker", "stop_proxy">>
StoppingLast == <<"stop_proxy">>
Checking     == <<"has_reference">>
Removing     == <<"remove", "stop_broker">>
Leaving      == <<"drop", "stop_broker">>
Closing      == <<"stop_broker">>

\* ... of a reconnect, and of one that a setup has called.
Asking        == <<"ask", "relink">>
ProxyAsking   == <<"ask", "renew", "relink">>
Swapping      == <<"drop", "renew", "relink">>
Renewing      == <<"renew", "relink">>
Relinking     == <<"relink">>
Dropping      == <<"drop">>
AskingIn      == <<"ask", "relink", "stop_broker", "stop_proxy">>
ProxyAskingIn == <<"ask", "renew", "relink", "stop_broker", "stop_proxy">>
SwappingIn    == <<"drop", "renew", "relink", "stop_broker", "stop_proxy">>
RenewingIn    == <<"renew", "relink", "stop_broker", "stop_proxy">>
RelinkingIn   == <<"relink", "stop_broker", "stop_proxy">>
DroppingIn    == <<"drop", "stop_broker", "stop_proxy">>

Lives(k) ==
    {<<>>, Connecting, Refreshing, RelinkingIn, Failing, StoppingLast, Removing, Leaving, Closing}
    \union (CASE k = "proxy" -> {FirstProbe, Creating, ProxyAskingIn, SwappingIn, RenewingIn,
                                 DroppingIn, Checking, Dropping}
              [] k = "broker" -> {Getting, Probing, AskingIn}
              [] OTHER -> {Probing, AskingIn})

Polls(k) ==
    IF k = "proxy" THEN {<<>>, ProxyAsking, Swapping, Renewing, Relinking, Dropping}
                   ELSE {<<>>, Asking, Relinking}
-----------------------------------------------------------------------------
(***************************************************************************)
(* Short sequences.                                                        *)
(***************************************************************************)
LEMMA One ==
    ASSUME NEW S, NEW a \in S
    PROVE  /\ <<a>> \in Seq(S) /\ Len(<<a>>) = 1 /\ <<a>> # <<>>
           /\ Head(<<a>>) = a /\ Tail(<<a>>) = <<>> /\ Last(<<a>>) = a
BY DEF Last

LEMMA Two ==
    ASSUME NEW S, NEW a \in S, NEW b \in S
    PROVE  /\ <<a, b>> \in Seq(S) /\ Len(<<a, b>>) = 2 /\ <<a, b>> # <<>>
           /\ Head(<<a, b>>) = a /\ Tail(<<a, b>>) = <<b>> /\ Last(<<a, b>>) = b
BY DEF Last

LEMMA Three ==
    ASSUME NEW S, NEW a \in S, NEW b \in S, NEW c \in S
    PROVE  /\ <<a, b, c>> \in Seq(S) /\ Len(<<a, b, c>>) = 3 /\ <<a, b, c>> # <<>>
           /\ Head(<<a, b, c>>) = a /\ Tail(<<a, b, c>>) = <<b, c>> /\ Last(<<a, b, c>>) = c
BY DEF Last

LEMMA Four ==
    ASSUME NEW S, NEW a \in S, NEW b \in S, NEW c \in S, NEW d \in S
    PROVE  /\ <<a, b, c, d>> \in Seq(S) /\ Len(<<a, b, c, d>>) = 4 /\ <<a, b, c, d>> # <<>>
           /\ Head(<<a, b, c, d>>) = a /\ Tail(<<a, b, c, d>>) = <<b, c, d>>
           /\ Last(<<a, b, c, d>>) = d
<1>1. <<a, b, c, d>> \in Seq(S) /\ Len(<<a, b, c, d>>) = 4 /\ Last(<<a, b, c, d>>) = d
  BY DEF Last
<1>2. Head(<<a, b, c, d>>) = a /\ Tail(<<a, b, c, d>>) = <<b, c, d>> /\ <<a, b, c, d>> # <<>>
  OBVIOUS
<1>3. QED
  BY <1>1, <1>2

LEMMA Five ==
    ASSUME NEW S, NEW a \in S, NEW b \in S, NEW c \in S, NEW d \in S, NEW f \in S
    PROVE  /\ <<a, b, c, d, f>> \in Seq(S) /\ Len(<<a, b, c, d, f>>) = 5
           /\ <<a, b, c, d, f>> # <<>>
           /\ Head(<<a, b, c, d, f>>) = a /\ Tail(<<a, b, c, d, f>>) = <<b, c, d, f>>
           /\ Last(<<a, b, c, d, f>>) = f
<1>1. <<a, b, c, d, f>> \in Seq(S) /\ Len(<<a, b, c, d, f>>) = 5
  OBVIOUS
<1>2. Last(<<a, b, c, d, f>>) = f
  BY DEF Last
<1>3. /\ Head(<<a, b, c, d, f>>) = a /\ Tail(<<a, b, c, d, f>>) = <<b, c, d, f>>
      /\ <<a, b, c, d, f>> # <<>>
  OBVIOUS
<1>4. QED
  BY <1>1, <1>2, <1>3

\* A concatenation is the sequence with the elements of the one, then of the other.
LEMMA JoinIs ==
    ASSUME NEW S, NEW s \in Seq(S), NEW t \in Seq(S), NEW u \in Seq(S),
           Len(u) = Len(s) + Len(t),
           \A i \in 1..Len(s) : u[i] = s[i],
           \A i \in 1..Len(t) : u[Len(s) + i] = t[i]
    PROVE  s \o t = u
<1>1. /\ s \o t \in Seq(S) /\ Len(s \o t) = Len(s) + Len(t)
      /\ \A i \in 1..Len(u) : (s \o t)[i] = IF i <= Len(s) THEN s[i] ELSE t[i - Len(s)]
  BY ConcatProperties
<1>2. \A i \in 1..Len(u) : (s \o t)[i] = u[i]
  <2> TAKE i \in 1..Len(u)
  <2>1. CASE i <= Len(s)
    BY <1>1, <2>1
  <2>2. CASE i > Len(s)
    <3>1. i - Len(s) \in 1..Len(t) /\ Len(s) + (i - Len(s)) = i
      BY <2>2
    <3>2. QED
      BY <1>1, <2>2, <3>1
  <2>3. QED
    BY <2>1, <2>2
<1>3. QED
  BY <1>1, <1>2, SeqEqual

LEMMA OneAndOne ==
    ASSUME NEW S, NEW a \in S, NEW b \in S
    PROVE  <<a>> \o <<b>> = <<a, b>>
<1> DEFINE s == <<a>>
           t == <<b>>
           u == <<a, b>>
<1>1. /\ s \in Seq(S) /\ Len(s) = 1
      /\ t \in Seq(S) /\ Len(t) = 1
      /\ u \in Seq(S) /\ Len(u) = 2
  BY One, Two
<1>2. \A i \in 1..1 : u[i] = s[i]
  OBVIOUS
<1>3. \A i \in 1..1 : u[1 + i] = t[i]
  OBVIOUS
<1> HIDE DEF s, t, u
<1>4. /\ Len(u) = Len(s) + Len(t)
      /\ \A i \in 1..Len(s) : u[i] = s[i]
      /\ \A i \in 1..Len(t) : u[Len(s) + i] = t[i]
  BY <1>1, <1>2, <1>3
<1>5. s \o t = u
  BY <1>1, <1>4, JoinIs
<1>6. QED
  BY <1>5 DEF s, t, u

LEMMA OneAndTwo ==
    ASSUME NEW S, NEW a \in S, NEW b \in S, NEW c \in S
    PROVE  <<a>> \o <<b, c>> = <<a, b, c>>
<1> DEFINE s == <<a>>
           t == <<b, c>>
           u == <<a, b, c>>
<1>1. /\ s \in Seq(S) /\ Len(s) = 1
      /\ t \in Seq(S) /\ Len(t) = 2
      /\ u \in Seq(S) /\ Len(u) = 3
  BY One, Two, Three
<1>2. \A i \in 1..1 : u[i] = s[i]
  OBVIOUS
<1>3. \A i \in 1..2 : u[1 + i] = t[i]
  OBVIOUS
<1> HIDE DEF s, t, u
<1>4. /\ Len(u) = Len(s) + Len(t)
      /\ \A i \in 1..Len(s) : u[i] = s[i]
      /\ \A i \in 1..Len(t) : u[Len(s) + i] = t[i]
  BY <1>1, <1>2, <1>3
<1>5. s \o t = u
  BY <1>1, <1>4, JoinIs
<1>6. QED
  BY <1>5 DEF s, t, u

LEMMA OneAndFour ==
    ASSUME NEW S, NEW a \in S, NEW b \in S, NEW c \in S, NEW d \in S, NEW f \in S
    PROVE  <<a>> \o <<b, c, d, f>> = <<a, b, c, d, f>>
<1> DEFINE s == <<a>>
           t == <<b, c, d, f>>
           u == <<a, b, c, d, f>>
<1>1. /\ s \in Seq(S) /\ Len(s) = 1
      /\ t \in Seq(S) /\ Len(t) = 4
      /\ u \in Seq(S) /\ Len(u) = 5
  BY One, Four, Five
<1>2. \A i \in 1..1 : u[i] = s[i]
  OBVIOUS
<1>3. \A i \in 1..4 : u[1 + i] = t[i]
  OBVIOUS
<1> HIDE DEF s, t, u
<1>4. /\ Len(u) = Len(s) + Len(t)
      /\ \A i \in 1..Len(s) : u[i] = s[i]
      /\ \A i \in 1..Len(t) : u[Len(s) + i] = t[i]
  BY <1>1, <1>2, <1>3
<1>5. s \o t = u
  BY <1>1, <1>4, JoinIs
<1>6. QED
  BY <1>5 DEF s, t, u

LEMMA TwoAndOne ==
    ASSUME NEW S, NEW a \in S, NEW b \in S, NEW c \in S
    PROVE  <<a, b>> \o <<c>> = <<a, b, c>>
<1> DEFINE s == <<a, b>>
           t == <<c>>
           u == <<a, b, c>>
<1>1. /\ s \in Seq(S) /\ Len(s) = 2
      /\ t \in Seq(S) /\ Len(t) = 1
      /\ u \in Seq(S) /\ Len(u) = 3
  BY One, Two, Three
<1>2. \A i \in 1..2 : u[i] = s[i]
  OBVIOUS
<1>3. \A i \in 1..1 : u[2 + i] = t[i]
  OBVIOUS
<1> HIDE DEF s, t, u
<1>4. /\ Len(u) = Len(s) + Len(t)
      /\ \A i \in 1..Len(s) : u[i] = s[i]
      /\ \A i \in 1..Len(t) : u[Len(s) + i] = t[i]
  BY <1>1, <1>2, <1>3
<1>5. s \o t = u
  BY <1>1, <1>4, JoinIs
<1>6. QED
  BY <1>5 DEF s, t, u

LEMMA TwoAndTwo ==
    ASSUME NEW S, NEW a \in S, NEW b \in S, NEW c \in S, NEW d \in S
    PROVE  <<a, b>> \o <<c, d>> = <<a, b, c, d>>
<1> DEFINE s == <<a, b>>
           t == <<c, d>>
           u == <<a, b, c, d>>
<1>1. /\ s \in Seq(S) /\ Len(s) = 2
      /\ t \in Seq(S) /\ Len(t) = 2
      /\ u \in Seq(S) /\ Len(u) = 4
  BY Two, Four
<1>2. \A i \in 1..2 : u[i] = s[i]
  OBVIOUS
<1>3. \A i \in 1..2 : u[2 + i] = t[i]
  OBVIOUS
<1> HIDE DEF s, t, u
<1>4. /\ Len(u) = Len(s) + Len(t)
      /\ \A i \in 1..Len(s) : u[i] = s[i]
      /\ \A i \in 1..Len(t) : u[Len(s) + i] = t[i]
  BY <1>1, <1>2, <1>3
<1>5. s \o t = u
  BY <1>1, <1>4, JoinIs
<1>6. QED
  BY <1>5 DEF s, t, u

LEMMA ThreeAndTwo ==
    ASSUME NEW S, NEW a \in S, NEW b \in S, NEW c \in S, NEW d \in S, NEW f \in S
    PROVE  <<a, b, c>> \o <<d, f>> = <<a, b, c, d, f>>
<1> DEFINE s == <<a, b, c>>
           t == <<d, f>>
           u == <<a, b, c, d, f>>
<1>1. /\ s \in Seq(S) /\ Len(s) = 3
      /\ t \in Seq(S) /\ Len(t) = 2
      /\ u \in Seq(S) /\ Len(u) = 5
  BY Two, Three, Five
<1>2. \A i \in 1..3 : u[i] = s[i]
  OBVIOUS
<1>3. \A i \in 1..2 : u[3 + i] = t[i]
  OBVIOUS
<1> HIDE DEF s, t, u
<1>4. /\ Len(u) = Len(s) + Len(t)
      /\ \A i \in 1..Len(s) : u[i] = s[i]
      /\ \A i \in 1..Len(t) : u[Len(s) + i] = t[i]
  BY <1>1, <1>2, <1>3
<1>5. s \o t = u
  BY <1>1, <1>4, JoinIs
<1>6. QED
  BY <1>5 DEF s, t, u

-----------------------------------------------------------------------------
(***************************************************************************)
(* What is left of a call, as each step goes on.                           *)
(***************************************************************************)
LEMMA StepNames ==
    /\ "get" \in Steps /\ "probe" \in Steps /\ "create" \in Steps /\ "connect" \in Steps
    /\ "refresh" \in Steps /\ "ask" \in Steps /\ "renew" \in Steps /\ "relink" \in Steps
    /\ "drop" \in Steps /\ "has_reference" \in Steps /\ "remove" \in Steps
    /\ "stop_broker" \in Steps /\ "stop_proxy" \in Steps
BY DEF Steps, Reconnect

LEMMA LeftTyped ==
    /\ Refreshing \in Seq(Steps) /\ StoppingLast \in Seq(Steps) /\ Checking \in Seq(Steps)
    /\ Closing \in Seq(Steps) /\ Relinking \in Seq(Steps) /\ Dropping \in Seq(Steps)
    /\ Connecting \in Seq(Steps) /\ Failing \in Seq(Steps) /\ Removing \in Seq(Steps)
    /\ Leaving \in Seq(Steps) /\ Asking \in Seq(Steps) /\ Renewing \in Seq(Steps)
    /\ Creating \in Seq(Steps) /\ Probing \in Seq(Steps) /\ ProxyAsking \in Seq(Steps)
    /\ Swapping \in Seq(Steps) /\ RelinkingIn \in Seq(Steps) /\ DroppingIn \in Seq(Steps)
    /\ Getting \in Seq(Steps) /\ FirstProbe \in Seq(Steps) /\ AskingIn \in Seq(Steps)
    /\ RenewingIn \in Seq(Steps)
    /\ ProxyAskingIn \in Seq(Steps) /\ SwappingIn \in Seq(Steps)
    /\ <<>> \in Seq(Steps)
<1>1. /\ Refreshing \in Seq(Steps) /\ StoppingLast \in Seq(Steps) /\ Checking \in Seq(Steps)
      /\ Closing \in Seq(Steps) /\ Relinking \in Seq(Steps) /\ Dropping \in Seq(Steps)
  BY StepNames, One DEF Refreshing, StoppingLast, Checking, Closing, Relinking, Dropping
<1>2. /\ Connecting \in Seq(Steps) /\ Failing \in Seq(Steps) /\ Removing \in Seq(Steps)
      /\ Leaving \in Seq(Steps) /\ Asking \in Seq(Steps) /\ Renewing \in Seq(Steps)
  BY StepNames, Two DEF Connecting, Failing, Removing, Leaving, Asking, Renewing
<1>3. /\ Creating \in Seq(Steps) /\ Probing \in Seq(Steps) /\ ProxyAsking \in Seq(Steps)
      /\ Swapping \in Seq(Steps) /\ RelinkingIn \in Seq(Steps) /\ DroppingIn \in Seq(Steps)
  BY StepNames, Three DEF Creating, Probing, ProxyAsking, Swapping, RelinkingIn, DroppingIn
<1>4. /\ Getting \in Seq(Steps) /\ FirstProbe \in Seq(Steps) /\ AskingIn \in Seq(Steps)
      /\ RenewingIn \in Seq(Steps)
  BY StepNames, Four DEF Getting, FirstProbe, AskingIn, RenewingIn
<1>5. /\ ProxyAskingIn \in Seq(Steps) /\ SwappingIn \in Seq(Steps)
  BY StepNames, Five DEF ProxyAskingIn, SwappingIn
<1>6. QED
  BY <1>1, <1>2, <1>3, <1>4, <1>5

LEMMA Heads ==
    /\ Head(Getting) = "get" /\ Getting # <<>>
    /\ Head(FirstProbe) = "probe" /\ FirstProbe # <<>>
    /\ Head(Creating) = "create" /\ Creating # <<>>
    /\ Head(Probing) = "probe" /\ Probing # <<>>
    /\ Head(Connecting) = "connect" /\ Connecting # <<>>
    /\ Head(Refreshing) = "refresh" /\ Refreshing # <<>>
    /\ Head(Failing) = "stop_broker" /\ Failing # <<>>
    /\ Head(StoppingLast) = "stop_proxy" /\ StoppingLast # <<>>
    /\ Head(Checking) = "has_reference" /\ Checking # <<>>
    /\ Head(Removing) = "remove" /\ Removing # <<>>
    /\ Head(Leaving) = "drop" /\ Leaving # <<>>
    /\ Head(Closing) = "stop_broker" /\ Closing # <<>>
    /\ Head(Asking) = "ask" /\ Asking # <<>>
    /\ Head(ProxyAsking) = "ask" /\ ProxyAsking # <<>>
    /\ Head(Swapping) = "drop" /\ Swapping # <<>>
    /\ Head(Renewing) = "renew" /\ Renewing # <<>>
    /\ Head(Relinking) = "relink" /\ Relinking # <<>>
    /\ Head(Dropping) = "drop" /\ Dropping # <<>>
    /\ Head(AskingIn) = "ask" /\ AskingIn # <<>>
    /\ Head(ProxyAskingIn) = "ask" /\ ProxyAskingIn # <<>>
    /\ Head(SwappingIn) = "drop" /\ SwappingIn # <<>>
    /\ Head(RenewingIn) = "renew" /\ RenewingIn # <<>>
    /\ Head(RelinkingIn) = "relink" /\ RelinkingIn # <<>>
    /\ Head(DroppingIn) = "drop" /\ DroppingIn # <<>>
BY DEF Getting, FirstProbe, Creating, Probing, Connecting, Refreshing, Failing, StoppingLast,
       Checking, Removing, Leaving, Closing, Asking, ProxyAsking, Swapping, Renewing, Relinking,
       Dropping, AskingIn, ProxyAskingIn, SwappingIn, RenewingIn, RelinkingIn, DroppingIn

LEMMA Tails ==
    /\ Tail(Getting) = Probing
    /\ Tail(FirstProbe) = Creating
    /\ Tail(Creating) = Connecting
    /\ Tail(Probing) = Connecting
    /\ Tail(Connecting) = Refreshing
    /\ Tail(Refreshing) = <<>>
    /\ Tail(Failing) = StoppingLast
    /\ Tail(StoppingLast) = <<>>
    /\ Tail(Checking) = <<>>
    /\ Tail(Removing) = Closing
    /\ Tail(Leaving) = Closing
    /\ Tail(Closing) = <<>>
    /\ Tail(Asking) = Relinking
    /\ Tail(ProxyAsking) = Renewing
    /\ Tail(Swapping) = Renewing
    /\ Tail(Renewing) = Relinking
    /\ Tail(Relinking) = <<>>
    /\ Tail(Dropping) = <<>>
    /\ Tail(AskingIn) = RelinkingIn
    /\ Tail(ProxyAskingIn) = RenewingIn
    /\ Tail(SwappingIn) = RenewingIn
    /\ Tail(RenewingIn) = RelinkingIn
    /\ Tail(RelinkingIn) = Failing
    /\ Tail(DroppingIn) = Failing
BY DEF Getting, FirstProbe, Creating, Probing, Connecting, Refreshing, Failing, StoppingLast,
       Checking, Removing, Leaving, Closing, Asking, ProxyAsking, Swapping, Renewing, Relinking,
       Dropping, AskingIn, ProxyAskingIn, SwappingIn, RenewingIn, RelinkingIn, DroppingIn

LEMMA Lasts ==
    /\ Last(ProxyAskingIn) = "stop_proxy" /\ Last(AskingIn) = "stop_proxy"
    /\ Last(RenewingIn) = "stop_proxy" /\ Last(RelinkingIn) = "stop_proxy"
    /\ Last(ProxyAsking) = "relink" /\ Last(Asking) = "relink"
    /\ Last(Renewing) = "relink" /\ Last(Relinking) = "relink"
BY DEF Last, ProxyAskingIn, AskingIn, RenewingIn, RelinkingIn, ProxyAsking, Asking, Renewing, Relinking

LEMMA InLife ==
    ASSUME NEW k \in Kinds, NEW s \in Lives(k), s # <<>>
    PROVE  /\ Head(s) = "get" => k = "broker" /\ s = Getting
           /\ Head(s) = "probe" => s = IF k = "proxy" THEN FirstProbe ELSE Probing
           /\ Head(s) = "create" => k = "proxy" /\ s = Creating
           /\ Head(s) = "connect" => s = Connecting
           /\ Head(s) = "refresh" => s = Refreshing
           /\ Head(s) = "ask" => s = IF k = "proxy" THEN ProxyAskingIn ELSE AskingIn
           /\ Head(s) = "renew" => k = "proxy" /\ s = RenewingIn
           /\ Head(s) = "relink" => s = RelinkingIn
           /\ Head(s) = "drop" =>
                 \/ s = Leaving
                 \/ k = "proxy" /\ s \in {Dropping, DroppingIn, SwappingIn}
           /\ Head(s) = "stop_broker" => s \in {Failing, Closing}
           /\ Head(s) = "stop_proxy" => s = StoppingLast
           /\ Head(s) = "remove" => s = Removing
           /\ Head(s) = "has_reference" => k = "proxy" /\ s = Checking
BY Heads DEF Lives, Kinds

LEMMA InPoll ==
    ASSUME NEW k \in Kinds, NEW s \in Polls(k), s # <<>>
    PROVE  /\ Head(s) \in {"ask", "drop", "renew", "relink"}
           /\ Head(s) = "ask" => s = IF k = "proxy" THEN ProxyAsking ELSE Asking
           /\ Head(s) = "drop" => k = "proxy" /\ s \in {Dropping, Swapping}
           /\ Head(s) = "renew" => k = "proxy" /\ s = Renewing
           /\ Head(s) = "relink" => s = Relinking
BY Heads DEF Polls

LEMMA Joined ==
    /\ <<"get">> \o <<"probe">> \o <<>> \o <<"connect", "refresh">> = Getting
    /\ <<>> \o <<"probe">> \o <<"create">> \o <<"connect", "refresh">> = FirstProbe
    /\ <<>> \o <<"probe">> \o <<>> \o <<"connect", "refresh">> = Probing
    /\ <<"ask">> \o <<"renew">> \o <<"relink">> = ProxyAsking
    /\ <<"ask">> \o <<>> \o <<"relink">> = Asking
    /\ ProxyAsking \o Failing = ProxyAskingIn /\ Asking \o Failing = AskingIn
    /\ <<"drop">> \o Failing = DroppingIn
    /\ <<"drop">> \o Renewing = Swapping /\ <<"drop">> \o RenewingIn = SwappingIn
    /\ <<"drop">> \o Closing = Leaving
    /\ <<"drop">> \o <<>> = Dropping
    /\ <<>> \o <<"stop_broker">> = Closing
    /\ \A s \in Seq(Steps) : <<>> \o s = s
<1>1. \A s \in Seq(Steps) : <<>> \o s = s /\ s \o <<>> = s
  BY ConcatEmptySeq
<1>2. /\ <<"get">> \in Seq(Steps) /\ <<"probe">> \in Seq(Steps) /\ <<"drop">> \in Seq(Steps)
      /\ <<"ask">> \in Seq(Steps) /\ <<"stop_broker">> \in Seq(Steps)
      /\ <<"get", "probe">> \in Seq(Steps)
  BY StepNames, One, Two
<1>3. <<"get">> \o <<"probe">> \o <<>> \o <<"connect", "refresh">> = Getting
  <2>1. <<"get">> \o <<"probe">> = <<"get", "probe">>
    BY StepNames, OneAndOne
  <2>2. <<"get", "probe">> \o <<"connect", "refresh">> = Getting
    BY StepNames, TwoAndTwo DEF Getting
  <2>3. QED
    BY <1>1, <1>2, <2>1, <2>2
<1>4. <<>> \o <<"probe">> \o <<"create">> \o <<"connect", "refresh">> = FirstProbe
  <2>1. <<"probe">> \o <<"create">> = <<"probe", "create">>
    BY StepNames, OneAndOne
  <2>2. <<"probe", "create">> \o <<"connect", "refresh">> = FirstProbe
    BY StepNames, TwoAndTwo DEF FirstProbe
  <2>3. QED
    BY <1>1, <1>2, <2>1, <2>2
<1>5. <<>> \o <<"probe">> \o <<>> \o <<"connect", "refresh">> = Probing
  <2>1. <<"probe">> \o <<"connect", "refresh">> = Probing
    BY StepNames, OneAndTwo DEF Probing
  <2>2. QED
    BY <1>1, <1>2, <2>1
<1>6. <<"ask">> \o <<"renew">> \o <<"relink">> = ProxyAsking
  <2>1. <<"ask">> \o <<"renew">> = <<"ask", "renew">>
    BY StepNames, OneAndOne
  <2>2. <<"ask", "renew">> \o <<"relink">> = ProxyAsking
    BY StepNames, TwoAndOne DEF ProxyAsking
  <2>3. QED
    BY <2>1, <2>2
<1>7. <<"ask">> \o <<>> \o <<"relink">> = Asking
  <2>1. <<"ask">> \o <<"relink">> = Asking
    BY StepNames, OneAndOne DEF Asking
  <2>2. QED
    BY <1>1, <1>2, <2>1
<1>8. ProxyAsking \o Failing = ProxyAskingIn /\ Asking \o Failing = AskingIn
  BY StepNames, ThreeAndTwo, TwoAndTwo DEF ProxyAsking, Failing, ProxyAskingIn, Asking, AskingIn
<1>9. /\ <<"drop">> \o Failing = DroppingIn /\ <<"drop">> \o Renewing = Swapping
      /\ <<"drop">> \o Closing = Leaving
  BY StepNames, OneAndOne, OneAndTwo
     DEF Failing, DroppingIn, Renewing, Swapping, Closing, Leaving
<1>10. <<"drop">> \o RenewingIn = SwappingIn
  BY StepNames, OneAndFour DEF RenewingIn, SwappingIn
<1>11. <<"drop">> \o <<>> = Dropping /\ <<>> \o <<"stop_broker">> = Closing
  BY <1>1, <1>2 DEF Dropping, Closing
<1>12. QED
  BY <1>1, <1>3, <1>4, <1>5, <1>6, <1>7, <1>8, <1>9, <1>10, <1>11

-----------------------------------------------------------------------------
(***************************************************************************)
(* The inductive invariant.                                                *)
(***************************************************************************)
\* What is left of an entry's calls; a loaded entry is neither set up nor unloaded.
Ways(e) ==
    /\ todo[<<e, "life">>] \in Lives(kind[e]) /\ todo[<<e, "poll">>] \in Polls(kind[e])
    /\ e \in loaded => todo[<<e, "life">>] = <<>>

\* An MQTT entry has the broker from "get" on, until it gives it back.
BrokerHeld(e) ==
    kind[e] = "broker" =>
        /\ todo[<<e, "life">>] = Getting => e \notin held
        /\ todo[<<e, "life">>] \in {Probing, Connecting, Refreshing} => e \in held
        /\ e \in held => e \in loaded \/ todo[<<e, "life">>] \notin {<<>>, StoppingLast}

BrokerLocked ==
    /\ broker.lock = NoOne => broker.state \in {"none", "up", "dead"}
    /\ \A e \in Entries, c \in Calls : broker.lock = <<e, c>> =>
          /\ c = "life" /\ kind[e] = "broker"
          /\ \/ broker.state = "starting" /\ todo[<<e, c>>] = Getting
             \/ broker.state = "stopping" /\ e \in held /\ todo[<<e, c>>] \in {Failing, Closing}

ProxyLocked ==
    /\ proxy.lock = NoOne => proxy.state \in {"none", "up", "dead"}
    /\ \A e \in Entries, c \in Calls : proxy.lock = <<e, c>> =>
          \/ /\ proxy.state = "starting" /\ kind[e] = "proxy"
             /\ todo[<<e, c>>] \in {Creating, Renewing, RenewingIn}
          \/ /\ proxy.state = "stopping"
             /\ todo[<<e, c>>] \in {Leaving, Dropping, DroppingIn, Swapping, SwappingIn}

BrokerCounted ==
    /\ broker.refs >= Cardinality(BrokerUsers)
    /\ broker.state \in {"none", "starting", "stopping"} => broker.refs = 0

ProxyUsers == {e \in Entries : HasProxy(e) /\ ~Stopping(proxy, e)}

ProxyCounted ==
    /\ proxy.state = "dead" => "port" \in blame
    /\ blame \subseteq {"escape"} =>
          /\ proxy.refs >= Cardinality(ProxyUsers)
          /\ proxy.state \in {"none", "stopping"} => proxy.refs = 0
          /\ proxy.state = "starting" => ProxyUsers = {}
          /\ proxy.state \in {"starting", "up"} => proxy.refs >= 1
          /\ \A e \in loaded \intersect ProxyUsers : e \in registry
          /\ proxy.state = "starting" =>
                \A e \in loaded, c \in Calls : proxy.lock = <<e, c>> => e \in registry

IInv ==
    /\ TypeOK
    /\ \A e \in Entries : Ways(e) /\ BrokerHeld(e)
    /\ BrokerLocked /\ ProxyLocked /\ BrokerCounted /\ ProxyCounted
-----------------------------------------------------------------------------
(***************************************************************************)
(* What a step can be done on, and what it leaves alone.                   *)
(***************************************************************************)
LEMMA Doing ==
    ASSUME TypeOK, NEW e \in Entries, Ways(e), NEW c \in Calls
    PROVE  LET p == <<e, c>>
               s == todo[p]
           IN  /\ Do(p, "get") => c = "life" /\ kind[e] = "broker" /\ s = Getting
               /\ Do(p, "probe") =>
                     c = "life" /\ s = IF kind[e] = "proxy" THEN FirstProbe ELSE Probing
               /\ Do(p, "create") => c = "life" /\ kind[e] = "proxy" /\ s = Creating
               /\ Do(p, "connect") => c = "life" /\ s = Connecting
               /\ Do(p, "refresh") => c = "life" /\ s = Refreshing
               /\ Do(p, "ask") =>
                     \/ c = "life" /\ s = IF kind[e] = "proxy" THEN ProxyAskingIn ELSE AskingIn
                     \/ c = "poll" /\ s = IF kind[e] = "proxy" THEN ProxyAsking ELSE Asking
               /\ Do(p, "renew") =>
                     /\ kind[e] = "proxy"
                     /\ \/ c = "life" /\ s = RenewingIn
                        \/ c = "poll" /\ s = Renewing
               /\ Do(p, "relink") =>
                     \/ c = "life" /\ s = RelinkingIn
                     \/ c = "poll" /\ s = Relinking
               /\ Do(p, "drop") =>
                     \/ c = "life" /\ s = Leaving
                     \/ /\ kind[e] = "proxy"
                        /\ \/ c = "life" /\ s \in {Dropping, DroppingIn, SwappingIn}
                           \/ c = "poll" /\ s \in {Dropping, Swapping}
               /\ Do(p, "stop_broker") => c = "life" /\ s \in {Failing, Closing}
               /\ Do(p, "stop_proxy") => c = "life" /\ s = StoppingLast
               /\ Do(p, "remove") => c = "life" /\ s = Removing
               /\ Do(p, "has_reference") => c = "life" /\ kind[e] = "proxy" /\ s = Checking
<1>1. kind[e] \in Kinds
  BY DEF TypeOK
<1>2. CASE c = "life"
  <2> DEFINE s == todo[<<e, c>>]
  <2>1. s \in Lives(kind[e])
    BY <1>2 DEF Ways
  <2> HIDE DEF s
  <2>2. QED
    BY <1>1, <1>2, <2>1, InLife DEF Do, s
<1>3. CASE c = "poll"
  <2> DEFINE s == todo[<<e, c>>]
  <2>1. s \in Polls(kind[e])
    BY <1>3 DEF Ways
  <2> HIDE DEF s
  <2>2. QED
    BY <1>1, <1>3, <2>1, InPoll DEF Do, s
<1>4. QED
  BY <1>2, <1>3 DEF Calls

LEMMA Others ==
    ASSUME TypeOK, NEW e \in Entries, NEW c \in Calls, NEW t, Then(<<e, c>>, t)
    PROVE  \A f \in Entries, d \in Calls :
              todo'[<<f, d>>] = IF f = e /\ d = c THEN t ELSE todo[<<f, d>>]
BY DEF TypeOK, Then, Procs, Calls

\* What a step of e's call leaves of it must be a way to go on.
LEMMA WaysKept ==
    ASSUME TypeOK, \A f \in Entries : Ways(f) /\ BrokerHeld(f), kind' = kind,
           NEW e \in Entries, NEW c \in Calls, NEW t, Then(<<e, c>>, t),
           \A f \in Entries \ {e} : (f \in held' <=> f \in held) /\ (f \in loaded' <=> f \in loaded),
           c = "poll" => /\ t \in Polls(kind[e]) /\ loaded' = loaded
                         /\ kind[e] = "broker" => (e \in held' <=> e \in held),
           c = "life" => /\ t \in Lives(kind[e])
                         /\ e \in loaded' => t = <<>>
                         /\ kind[e] = "broker" =>
                              /\ t = Getting => e \notin held'
                              /\ t \in {Probing, Connecting, Refreshing} => e \in held'
                              /\ e \in held' => e \in loaded' \/ t \notin {<<>>, StoppingLast}
    PROVE  \A f \in Entries : Ways(f)' /\ BrokerHeld(f)'
<1> TAKE f \in Entries
<1>1. \A d \in Calls : todo'[<<f, d>>] = IF f = e /\ d = c THEN t ELSE todo[<<f, d>>]
  BY Others
<1>2. CASE f # e
  BY <1>1, <1>2 DEF Ways, BrokerHeld, Calls
<1>3. CASE f = e /\ c = "poll"
  BY <1>1, <1>3 DEF Ways, BrokerHeld, Calls
<1>4. CASE f = e /\ c = "life"
  BY <1>1, <1>4 DEF Ways, BrokerHeld, Calls
<1>5. QED
  BY <1>2, <1>3, <1>4 DEF Calls

LEMMA UsersFinite == IsFiniteSet(BrokerUsers) /\ IsFiniteSet(ProxyUsers)
BY ConstantsAssumption, FS_Subset DEF BrokerUsers, ProxyUsers

\* A step that leaves the broker and its users alone.
LEMMA BrokerKept ==
    ASSUME TypeOK, BrokerLocked, BrokerCounted, kind' = kind, broker' = broker,
           NEW e \in Entries, NEW c \in Calls, NEW t, Then(<<e, c>>, t), broker.lock # <<e, c>>,
           \A f \in Entries : kind[f] = "broker" => (f \in held' <=> f \in held)
    PROVE  BrokerLocked' /\ BrokerCounted' /\ BrokerUsers' = BrokerUsers
<1>1. ASSUME NEW f \in Entries, NEW d \in Calls
      PROVE  todo'[<<f, d>>] = IF f = e /\ d = c THEN t ELSE todo[<<f, d>>]
  BY Others
<1>2. BrokerLocked'
  BY <1>1 DEF BrokerLocked
<1>3. BrokerUsers' = BrokerUsers
  BY DEF BrokerUsers, HasBroker, Stopping
<1>4. BrokerCounted'
  BY <1>3 DEF BrokerCounted
<1>5. QED
  BY <1>2, <1>3, <1>4

\* A step that leaves the proxy server and its users alone.
LEMMA ProxyKept ==
    ASSUME TypeOK, ProxyLocked, ProxyCounted, kind' = kind, proxy' = proxy, blame \subseteq blame',
           NEW e \in Entries, NEW c \in Calls, NEW t, Then(<<e, c>>, t), proxy.lock # <<e, c>>,
           \A f \in Entries : kind[f] = "proxy" => (f \in held' <=> f \in held),
           \A f \in loaded' : f \in loaded \/ (kind[f] = "proxy" => f \in registry /\ proxy.state = "up"),
           registry' = registry, loaded' \subseteq Entries
    PROVE  ProxyLocked' /\ ProxyCounted'
<1>1. ASSUME NEW f \in Entries, NEW d \in Calls
      PROVE  todo'[<<f, d>>] = IF f = e /\ d = c THEN t ELSE todo[<<f, d>>]
  BY Others
<1>2. ProxyLocked'
  BY <1>1 DEF ProxyLocked
<1>3. ProxyUsers' = ProxyUsers
  BY DEF ProxyUsers, HasProxy, Stopping
<1>4. ProxyCounted'
  <2>1. ASSUME blame \subseteq {"escape"}, NEW f \in loaded' \intersect ProxyUsers
        PROVE  f \in registry
    BY <2>1 DEF ProxyCounted, ProxyUsers, HasProxy
  <2>2. ASSUME blame \subseteq {"escape"}, proxy.state = "starting", NEW f \in loaded',
               NEW d \in Calls, proxy.lock = <<f, d>>
        PROVE  f \in registry
    BY <2>2 DEF ProxyCounted, ProxyLocked
  <2>3. QED
    BY <1>3, <2>1, <2>2 DEF ProxyCounted
<1>5. QED
  BY <1>2, <1>4

\* Who holds a lock is at the step that took it.
LEMMA Holding ==
    ASSUME TypeOK, BrokerLocked, ProxyLocked, NEW e \in Entries, NEW c \in Calls
    PROVE  /\ broker.lock = <<e, c>> =>
                 /\ todo[<<e, c>>] # <<>>
                 /\ Head(todo[<<e, c>>]) = IF broker.state = "starting" THEN "get" ELSE "stop_broker"
           /\ proxy.lock = <<e, c>> =>
                 /\ todo[<<e, c>>] # <<>>
                 /\ IF proxy.state = "starting"
                    THEN Head(todo[<<e, c>>]) \in {"create", "renew"}
                    ELSE Head(todo[<<e, c>>]) = "drop"
BY Heads DEF BrokerLocked, ProxyLocked

LEMMA Whose ==
    ASSUME IInv, NEW e \in Entries
    PROVE  TypeOK /\ Ways(e) /\ BrokerHeld(e) /\ kind[e] \in Kinds
BY DEF IInv, TypeOK
-----------------------------------------------------------------------------
(***************************************************************************)
(* Each step keeps the invariant.                                          *)
(***************************************************************************)
LEMMA WaysTyped ==
    ASSUME NEW k \in Kinds
    PROVE  Lives(k) \subseteq Seq(Steps) /\ Polls(k) \subseteq Seq(Steps)
BY LeftTyped DEF Lives, Polls, Kinds

\* A step that changes no server.
LEMMA WalkKeeps ==
    ASSUME IInv, NEW e \in Entries, NEW c \in Calls, NEW t, Then(<<e, c>>, t),
           kind' = kind, held' = held, proxy' = proxy, registry' = registry, broker' = broker,
           blame' = blame, ops' \in 0..MaxOps, loaded' \subseteq Entries,
           broker.lock # <<e, c>>, proxy.lock # <<e, c>>,
           \A f \in Entries \ {e} : f \in loaded' <=> f \in loaded,
           e \in loaded' =>
               e \in loaded \/ (kind[e] = "proxy" => e \in registry /\ proxy.state = "up"),
           c = "poll" => t \in Polls(kind[e]) /\ loaded' = loaded,
           c = "life" => /\ t \in Lives(kind[e])
                         /\ e \in loaded' => t = <<>>
                         /\ kind[e] = "broker" =>
                              /\ t = Getting => e \notin held
                              /\ t \in {Probing, Connecting, Refreshing} => e \in held
                              /\ e \in held => e \in loaded' \/ t \notin {<<>>, StoppingLast}
    PROVE  IInv'
<1>1. TypeOK /\ <<e, c>> \in Procs /\ t \in Seq(Steps)
  BY WaysTyped DEF IInv, TypeOK, Procs, Calls
<1>2. TypeOK'
  BY <1>1 DEF TypeOK, Then
<1>3. \A f \in Entries : Ways(f)' /\ BrokerHeld(f)'
  BY <1>1, WaysKept DEF IInv
<1>4. BrokerLocked' /\ BrokerCounted'
  BY <1>1, BrokerKept DEF IInv
<1>5. ProxyLocked' /\ ProxyCounted'
  BY <1>1, ProxyKept DEF IInv, TypeOK
<1>6. QED
  BY <1>2, <1>3, <1>4, <1>5 DEF IInv

LEMMA CallKeeps ==
    ASSUME IInv, NEW e \in Entries, Setup(e) \/ PollReconnects(e) \/ Unload(e)
    PROVE  IInv'
<1>1. ASSUME NEW c \in Calls, NEW t, Call(<<e, c>>, t)
      PROVE  /\ Then(<<e, c>>, t) /\ kind' = kind /\ held' = held /\ blame' = blame
             /\ proxy' = proxy /\ broker' = broker /\ registry' = registry /\ ops' \in 0..MaxOps
             /\ loaded \subseteq Entries /\ broker.lock # <<e, c>> /\ proxy.lock # <<e, c>>
  BY <1>1, Holding, ConstantsAssumption DEF IInv, Call, TypeOK
<1>2. CASE Setup(e)
  <2> DEFINE t == When(kind[e] = "broker", "get") \o <<"probe">>
                    \o When(kind[e] = "proxy", "create") \o <<"connect", "refresh">>
  <2>1. t = CASE kind[e] = "proxy" -> FirstProbe [] kind[e] = "broker" -> Getting [] OTHER -> Probing
    BY Joined, Whose DEF When, Kinds
  <2>2. Call(<<e, "life">>, t) /\ loaded' = loaded /\ e \notin loaded
    BY <1>2 DEF Setup
  <2>3. t \in Lives(kind[e])
    BY <2>1, Whose DEF Lives, Kinds
  <2>4. kind[e] = "broker" =>
           t = Getting /\ e \notin held /\ t \notin {<<>>, StoppingLast, Probing, Connecting, Refreshing}
    BY <2>1, <2>2, Heads, Whose DEF BrokerHeld, Call
  <2> HIDE DEF t
  <2>5. QED
    BY <1>1, <2>2, <2>3, <2>4, WalkKeeps DEF Calls
<1>3. CASE PollReconnects(e)
  <2>1. ReconnectSteps(e) = IF kind[e] = "proxy" THEN ProxyAsking ELSE Asking
    BY Joined DEF ReconnectSteps, When
  <2>2. ReconnectSteps(e) \in Polls(kind[e])
    BY <2>1 DEF Polls
  <2>3. Call(<<e, "poll">>, ReconnectSteps(e)) /\ loaded' = loaded
    BY <1>3 DEF PollReconnects
  <2>4. QED
    BY <1>1, <2>2, <2>3, WalkKeeps DEF Calls
<1>4. CASE Unload(e)
  <2>1. Call(<<e, "life">>, Removing) /\ loaded' = loaded \ {e}
    BY <1>4 DEF Unload, Removing
  <2>2. Removing \in Lives(kind[e])
    BY DEF Lives
  <2>3. Removing \notin {<<>>, Getting, StoppingLast, Probing, Connecting, Refreshing}
    BY Heads
  <2>4. QED
    BY <1>1, <2>1, <2>2, <2>3, WalkKeeps DEF Calls
<1>5. QED
  BY <1>2, <1>3, <1>4

\* A step on none of the locks.
LEMMA Unlocked ==
    ASSUME IInv, NEW e \in Entries, NEW c \in Calls, todo[<<e, c>>] # <<>>,
           Head(todo[<<e, c>>]) \notin {"get", "create", "renew", "drop"},
           Head(todo[<<e, c>>]) = "stop_broker" => ~HasBroker(e)
    PROVE  broker.lock # <<e, c>> /\ proxy.lock # <<e, c>>
BY Holding DEF IInv, BrokerLocked, HasBroker, Calls

LEMMA ServerlessKeeps ==
    ASSUME IInv, NEW e \in Entries, NEW c \in Calls,
           NoBrokerToStop(e, <<e, c>>) \/ HasReference(e, <<e, c>>) \/ StopProxy(e, <<e, c>>)
    PROVE  IInv'
<1> DEFINE p == <<e, c>>
<1>1. /\ kind' = kind /\ held' = held /\ proxy' = proxy /\ registry' = registry
      /\ broker' = broker /\ blame' = blame /\ ops' \in 0..MaxOps /\ loaded' = loaded
      /\ loaded \subseteq Entries
  BY DEF NoBrokerToStop, HasReference, StopProxy, IInv, TypeOK
<1>2. broker.lock # p /\ proxy.lock # p
  BY Unlocked DEF NoBrokerToStop, HasReference, StopProxy, Do
<1>3. \E t : /\ Then(p, t) /\ c = "life" /\ t \in Lives(kind[e]) /\ e \notin loaded
             /\ kind[e] = "broker" => /\ e \notin held
                                      /\ t \notin {Getting, Probing, Connecting, Refreshing}
  <2>1. CASE NoBrokerToStop(e, p)
    <3>1. c = "life" /\ todo[p] \in {Failing, Closing}
      BY <2>1, Doing, Whose DEF NoBrokerToStop
    <3>2. Then(p, Tail(todo[p])) /\ Tail(todo[p]) \in {StoppingLast, <<>>}
      BY <2>1, <3>1, Tails DEF NoBrokerToStop, Rest
    <3>3. /\ e \notin loaded /\ (kind[e] = "broker" => e \notin held)
          /\ StoppingLast \in Lives(kind[e]) /\ <<>> \in Lives(kind[e])
      BY <2>1, <3>1, Heads, Whose DEF NoBrokerToStop, HasBroker, Lives, Ways
    <3>4. QED
      BY <3>1, <3>2, <3>3, Heads
  <2>2. CASE HasReference(e, p)
    <3>1. c = "life" /\ kind[e] = "proxy" /\ todo[p] = Checking
      BY <2>2, Doing, Whose DEF HasReference
    <3>2. \E t \in {Dropping, <<>>} : Then(p, t)
      BY <2>2 DEF HasReference, When, Dropping
    <3>3. QED
      BY <3>1, <3>2, Heads, Whose DEF Lives, Ways
  <2>3. CASE StopProxy(e, p)
    <3>1. c = "life" /\ todo[p] = StoppingLast
      BY <2>3, Doing, Whose DEF StopProxy
    <3>2. \/ kind[e] = "proxy" /\ Then(p, Dropping)
          \/ Then(p, <<>>)
      BY <2>3 DEF StopProxy, When, Dropping, HasProxy
    <3>3. e \notin loaded /\ (kind[e] = "broker" => e \notin held)
      BY <3>1, Heads, Whose DEF Ways, BrokerHeld
    <3>4. QED
      BY <3>1, <3>2, <3>3, Heads DEF Lives
  <2>4. QED
    BY <2>1, <2>2, <2>3
<1>4. QED
  BY <1>1, <1>2, <1>3, WalkKeeps, Heads

LEMMA ProbeKeeps ==
    ASSUME IInv, NEW e \in Entries, NEW c \in Calls,
           ProbeSucceeds(e, <<e, c>>) \/ ProbeFails(e, <<e, c>>)
    PROVE  IInv'
<1> DEFINE p == <<e, c>>
<1>1. /\ kind' = kind /\ held' = held /\ proxy' = proxy /\ registry' = registry
      /\ broker' = broker /\ blame' = blame /\ ops' \in 0..MaxOps /\ loaded' = loaded
      /\ loaded \subseteq Entries
  BY DEF ProbeSucceeds, ProbeFails, others, IInv, TypeOK
<1>2. broker.lock # p /\ proxy.lock # p
  BY Unlocked DEF ProbeSucceeds, ProbeFails, Do
<1>3. CASE Do(p, "probe")
  <2>1. c = "life" /\ todo[p] = (IF kind[e] = "proxy" THEN FirstProbe ELSE Probing)
    BY <1>3, Doing, Whose
  <2>2. e \notin loaded /\ (kind[e] = "broker" => e \in held)
    BY <2>1, Heads, Whose DEF Ways, BrokerHeld
  <2>3. ~Do(p, "ask")
    BY <1>3 DEF Do
  <2>4. CASE ProbeSucceeds(e, p)
    <3>1. Then(p, <<>> \o Tail(todo[p]))
      BY <2>3, <2>4 DEF ProbeSucceeds, When, Rest
    <3>2. Tail(todo[p]) = IF kind[e] = "proxy" THEN Creating ELSE Connecting
      BY <2>1, Tails
    <3>3. <<>> \o Tail(todo[p]) = Tail(todo[p])
      BY <3>2, Joined, LeftTyped
    <3>4. Then(p, IF kind[e] = "proxy" THEN Creating ELSE Connecting)
      BY <3>1, <3>2, <3>3
    <3>5. QED
      BY <1>1, <1>2, <2>1, <2>2, <3>4, Heads, Whose, WalkKeeps DEF Lives, Kinds
  <2>5. CASE ProbeFails(e, p)
    <3>1. Then(p, IF HasBroker(e) THEN Closing ELSE <<>>)
      BY <2>3, <2>5 DEF ProbeFails, When, Closing
    <3>2. QED
      BY <1>1, <1>2, <2>1, <2>2, <3>1, Heads, Whose, WalkKeeps DEF Lives, Kinds, HasBroker
  <2>6. QED
    BY <2>4, <2>5
<1>4. CASE Do(p, "ask")
  <2>1. ~Do(p, "probe")
    BY <1>4 DEF Do
  <2>2. CASE c = "life"
    <3>1. todo[p] = IF kind[e] = "proxy" THEN ProxyAskingIn ELSE AskingIn
      BY <1>4, <2>2, Doing, Whose
    <3>2. e \notin loaded
      BY <2>2, <3>1, Heads, Whose DEF Ways
    <3>3. CASE ProbeSucceeds(e, p)
      <4>1. \/ kind[e] = "proxy" /\ Then(p, <<"drop">> \o Tail(todo[p]))
            \/ Then(p, <<>> \o Tail(todo[p]))
        BY <1>4, <3>3 DEF ProbeSucceeds, When, Rest, HasProxy
      <4>2. Tail(todo[p]) = IF kind[e] = "proxy" THEN RenewingIn ELSE RelinkingIn
        BY <3>1, Tails
      <4>3. /\ <<>> \o Tail(todo[p]) = IF kind[e] = "proxy" THEN RenewingIn ELSE RelinkingIn
            /\ kind[e] = "proxy" => <<"drop">> \o Tail(todo[p]) = SwappingIn
        BY <4>2, Joined, LeftTyped
      <4>4. \/ kind[e] = "proxy" /\ Then(p, SwappingIn)
            \/ Then(p, IF kind[e] = "proxy" THEN RenewingIn ELSE RelinkingIn)
        BY <4>1, <4>3
      <4>5. QED
        BY <1>1, <1>2, <2>2, <3>2, <4>4, Heads, Whose, WalkKeeps DEF Lives, Kinds
    <3>4. CASE ProbeFails(e, p)
      <4>1. ReturnFromReconnect(p) = Failing
        BY <3>1, Lasts DEF ReturnFromReconnect, Failing
      <4>2. \/ kind[e] = "proxy" /\ Then(p, <<"drop">> \o Failing)
            \/ Then(p, <<>> \o Failing)
        BY <2>1, <3>4, <4>1 DEF ProbeFails, When, HasProxy
      <4>3. (kind[e] = "proxy" /\ Then(p, DroppingIn)) \/ Then(p, Failing)
        BY <4>2, Joined, LeftTyped
      <4>4. QED
        BY <1>1, <1>2, <2>2, <3>2, <4>3, Heads, Whose, WalkKeeps DEF Lives, Kinds
    <3>5. QED
      BY <3>3, <3>4
  <2>3. CASE c = "poll"
    <3>1. todo[p] = IF kind[e] = "proxy" THEN ProxyAsking ELSE Asking
      BY <1>4, <2>3, Doing, Whose
    <3>2. CASE ProbeSucceeds(e, p)
      <4>1. \/ kind[e] = "proxy" /\ Then(p, <<"drop">> \o Tail(todo[p]))
            \/ Then(p, <<>> \o Tail(todo[p]))
        BY <1>4, <3>2 DEF ProbeSucceeds, When, Rest, HasProxy
      <4>2. Tail(todo[p]) = IF kind[e] = "proxy" THEN Renewing ELSE Relinking
        BY <3>1, Tails
      <4>3. /\ <<>> \o Tail(todo[p]) = IF kind[e] = "proxy" THEN Renewing ELSE Relinking
            /\ kind[e] = "proxy" => <<"drop">> \o Tail(todo[p]) = Swapping
        BY <4>2, Joined, LeftTyped
      <4>4. \/ kind[e] = "proxy" /\ Then(p, Swapping)
            \/ Then(p, IF kind[e] = "proxy" THEN Renewing ELSE Relinking)
        BY <4>1, <4>3
      <4>5. QED
        BY <1>1, <1>2, <2>3, <4>4, Heads, WalkKeeps DEF Polls
    <3>3. CASE ProbeFails(e, p)
      <4>1. ReturnFromReconnect(p) = <<>>
        BY <3>1, Lasts DEF ReturnFromReconnect
      <4>2. \/ kind[e] = "proxy" /\ Then(p, <<"drop">> \o <<>>)
            \/ Then(p, <<>> \o <<>>)
        BY <2>1, <3>3, <4>1 DEF ProbeFails, When, HasProxy
      <4>3. (kind[e] = "proxy" /\ Then(p, Dropping)) \/ Then(p, <<>>)
        BY <4>2, Joined, LeftTyped
      <4>4. QED
        BY <1>1, <1>2, <2>3, <4>3, Heads, WalkKeeps DEF Polls
    <3>4. QED
      BY <3>2, <3>3
  <2>4. QED
    BY <2>2, <2>3 DEF Calls
<1>5. QED
  BY <1>3, <1>4 DEF ProbeSucceeds, ProbeFails

LEMMA ConnectKeeps ==
    ASSUME IInv, NEW e \in Entries, NEW c \in Calls,
           Connects(e, <<e, c>>) \/ ConnectFails(e, <<e, c>>)
    PROVE  IInv'
<1> DEFINE p == <<e, c>>
<1>1. /\ kind' = kind /\ held' = held /\ proxy' = proxy /\ registry' = registry
      /\ broker' = broker /\ blame' = blame /\ ops' \in 0..MaxOps /\ loaded' = loaded
      /\ loaded \subseteq Entries
  BY DEF Connects, ConnectFails, others, IInv, TypeOK
<1>2. broker.lock # p /\ proxy.lock # p
  BY Unlocked DEF Connects, ConnectFails, Do
<1>3. CASE Do(p, "connect")
  <2>1. c = "life" /\ todo[p] = Connecting /\ ~Do(p, "relink")
    BY <1>3, Doing, Whose DEF Do
  <2>2. e \notin loaded /\ (kind[e] = "broker" => e \in held)
    BY <2>1, Heads, Whose DEF Ways, BrokerHeld
  <2>3. CASE Connects(e, p)
    <3>1. Then(p, Refreshing)
      BY <2>1, <2>3, Tails DEF Connects, Rest
    <3>2. QED
      BY <1>1, <1>2, <2>1, <2>2, <3>1, Heads, WalkKeeps DEF Lives
  <2>4. CASE ConnectFails(e, p)
    <3>1. Then(p, When(HasProxy(e), "drop") \o When(HasBroker(e), "stop_broker"))
      BY <2>1, <2>4 DEF ConnectFails
    <3>2. When(HasProxy(e), "drop") \o When(HasBroker(e), "stop_broker")
             = IF HasProxy(e) THEN Dropping ELSE IF HasBroker(e) THEN Closing ELSE <<>>
      BY Joined, LeftTyped DEF When, HasProxy, HasBroker
    <3>3. \/ kind[e] = "proxy" /\ Then(p, Dropping)
          \/ kind[e] = "broker" /\ Then(p, Closing)
          \/ kind[e] # "broker" /\ Then(p, <<>>)
      BY <2>2, <3>1, <3>2 DEF HasProxy, HasBroker
    <3>4. QED
      BY <1>1, <1>2, <2>1, <2>2, <3>3, Heads, WalkKeeps DEF Lives
  <2>5. QED
    BY <2>3, <2>4
<1>4. CASE Do(p, "relink")
  <2>1. /\ ~Do(p, "connect")
        /\ \/ c = "life" /\ todo[p] = RelinkingIn
           \/ c = "poll" /\ todo[p] = Relinking
    BY <1>4, Doing, Whose DEF Do
  <2>2. Tail(todo[p]) = (IF c = "life" THEN Failing ELSE <<>>) /\ ReturnFromReconnect(p) = Tail(todo[p])
    BY <2>1, Tails, Lasts DEF ReturnFromReconnect, Failing
  <2>3. Then(p, IF c = "life" THEN Failing ELSE <<>>)
    BY <2>1, <2>2 DEF Connects, ConnectFails, Rest
  <2>4. c = "life" => e \notin loaded
    BY <2>1, Heads, Whose DEF Ways
  <2>5. QED
    BY <1>1, <1>2, <2>3, <2>4, Heads, WalkKeeps DEF Lives, Polls, Calls
<1>5. QED
  BY <1>3, <1>4 DEF Connects, ConnectFails

LEMMA RefreshKeeps ==
    ASSUME IInv, NEW e \in Entries, NEW c \in Calls,
           FirstRefresh(e, <<e, c>>) \/ FirstRefreshFails(e, <<e, c>>)
    PROVE  IInv'
<1> DEFINE p == <<e, c>>
<1>1. /\ kind' = kind /\ held' = held /\ proxy' = proxy /\ registry' = registry
      /\ broker' = broker /\ blame' = blame /\ ops' \in 0..MaxOps
      /\ loaded \subseteq Entries
  BY DEF FirstRefresh, FirstRefreshFails, others, IInv, TypeOK
<1>2. broker.lock # p /\ proxy.lock # p
  BY Unlocked DEF FirstRefresh, FirstRefreshFails, Do
<1>3. c = "life" /\ todo[p] = Refreshing
  BY Doing, Whose DEF FirstRefresh, FirstRefreshFails
<1>4. CASE FirstRefresh(e, p)
  <2>1. /\ Then(p, <<>>) /\ loaded' = loaded \union {e}
        /\ kind[e] = "proxy" => e \in registry /\ proxy.state = "up"
    BY <1>3, <1>4, Tails DEF FirstRefresh, Rest, ServerIsUp
  <2>2. QED
    BY <1>1, <1>2, <1>3, <2>1, Heads, WalkKeeps DEF Lives
<1>5. CASE FirstRefreshFails(e, p)
  <2>1. ReconnectSteps(e) = IF kind[e] = "proxy" THEN ProxyAsking ELSE Asking
    BY Joined DEF ReconnectSteps, When
  <2>2. PICK r \in {<<>>, ReconnectSteps(e)} : Then(p, r \o Failing)
    BY <1>5 DEF FirstRefreshFails, Failing
  <2>3. r \o Failing \in {Failing} \union (IF kind[e] = "proxy" THEN {ProxyAskingIn} ELSE {AskingIn})
    BY <2>1, <2>2, Joined, LeftTyped
  <2>4. e \notin loaded /\ loaded' = loaded
    BY <1>3, <1>5, Heads, Whose DEF FirstRefreshFails, Ways
  <2>5. r \o Failing \in Lives(kind[e])
    BY <2>3, Whose DEF Lives, Kinds
  <2>6. r \o Failing \notin {<<>>, StoppingLast, Getting, Probing, Connecting, Refreshing}
    BY <2>3, Heads
  <2>7. QED
    BY <1>1, <1>2, <1>3, <2>2, <2>4, <2>5, <2>6, WalkKeeps
<1>6. QED
  BY <1>4, <1>5
-----------------------------------------------------------------------------
(***************************************************************************)
(* The steps that change the broker.                                       *)
(***************************************************************************)
\* A step that changes the broker and what an MQTT entry holds of it.
LEMMA BrokerStepKeeps ==
    ASSUME IInv, NEW e \in Entries, NEW c \in Calls, NEW t, Then(<<e, c>>, t),
           kind' = kind, loaded' = loaded, proxy' = proxy, registry' = registry, ops' = ops,
           blame \subseteq blame', blame' \subseteq {"foreign", "port", "escape"},
           kind[e] = "broker", c = "life", e \notin loaded, proxy.lock # <<e, c>>,
           held' \in {held, held \union {e}, held \ {e}}, broker' \in Servers,
           t \in Lives(kind[e]),
           t = Getting => e \notin held',
           t \in {Probing, Connecting, Refreshing} => e \in held',
           e \in held' => t \notin {<<>>, StoppingLast},
           BrokerLocked', BrokerCounted'
    PROVE  IInv'
<1>1. TypeOK /\ <<e, c>> \in Procs /\ t \in Seq(Steps)
  BY WaysTyped DEF IInv, TypeOK, Procs, Calls
<1>2. TypeOK'
  BY <1>1 DEF TypeOK, Then
<1>3. \A f \in Entries : Ways(f)' /\ BrokerHeld(f)'
  BY <1>1, WaysKept DEF IInv
<1>4. ProxyLocked' /\ ProxyCounted'
  BY <1>1, ProxyKept DEF IInv, TypeOK
<1>5. QED
  BY <1>2, <1>3, <1>4 DEF IInv

LEMMA Same ==
    ASSUME TypeOK, NEW p \in Procs, todo' = todo
    PROVE  Then(p, todo[p])
BY DEF TypeOK, Then

\* Who gets the broker did not have it, and has it afterwards.
LEMMA Gets ==
    ASSUME IInv, NEW e \in Entries, NEW c \in Calls, Do(<<e, c>>, "get")
    PROVE  /\ c = "life" /\ kind[e] = "broker" /\ todo[<<e, c>>] = Getting
           /\ e \notin held /\ e \notin loaded /\ proxy.lock # <<e, c>>
           /\ Tail(todo[<<e, c>>]) = Probing /\ Probing \in Lives(kind[e])
           /\ Getting \in Lives(kind[e]) /\ <<>> \in Lives(kind[e])
<1>1. c = "life" /\ kind[e] = "broker" /\ todo[<<e, c>>] = Getting
  BY Doing, Whose
<1>2. e \notin held /\ e \notin loaded
  BY <1>1, Heads, Whose DEF Ways, BrokerHeld
<1>3. proxy.lock # <<e, c>>
  BY Holding DEF IInv, Do
<1>4. QED
  BY <1>1, <1>2, <1>3, Tails DEF Lives

LEMMA JoinBrokerStep ==
    ASSUME IInv, NEW e \in Entries, NEW c \in Calls, JoinBroker(e, <<e, c>>)
    PROVE  /\ IInv'
           /\ e \notin BrokerUsers /\ BrokerUsers' = BrokerUsers \union {e}
           /\ broker'.refs = broker.refs + 1 /\ broker'.state = broker.state
           /\ broker.state \in {"up", "dead"}
           /\ Cardinality(BrokerUsers') = Cardinality(BrokerUsers) + 1
<1> DEFINE p == <<e, c>>
<1>1. Do(p, "get") /\ broker.lock = NoOne /\ broker.state # "none" /\ TypeOK
  BY DEF JoinBroker, IInv
<1>2. /\ broker' = [broker EXCEPT !.refs = @ + 1] /\ broker' \in Servers
      /\ broker'.refs = broker.refs + 1 /\ broker'.state = broker.state /\ broker'.lock = NoOne
  BY <1>1 DEF JoinBroker, TypeOK, Servers
<1>3. broker.state \in {"up", "dead"}
  BY <1>1 DEF IInv, BrokerLocked
<1>4. /\ held' = held \union {e} /\ kind' = kind /\ Then(p, Probing)
  BY <1>1, Gets DEF JoinBroker, Rest
<1>5. e \notin BrokerUsers /\ BrokerUsers' = BrokerUsers \union {e}
  BY <1>1, <1>2, <1>3, <1>4, Gets DEF BrokerUsers, HasBroker, Stopping
<1>6. Cardinality(BrokerUsers') = Cardinality(BrokerUsers) + 1
  BY <1>5, UsersFinite, FS_AddElement
<1>7. BrokerCounted'
  BY <1>1, <1>2, <1>3, <1>6, UsersFinite, FS_CardinalityType DEF IInv, BrokerCounted, TypeOK, Servers
<1>8. BrokerLocked'
  BY <1>2, <1>3, ConstantsAssumption DEF BrokerLocked, Calls
<1>9. IInv'
  BY <1>1, <1>2, <1>4, <1>7, <1>8, Gets, Heads, BrokerStepKeeps DEF JoinBroker, TypeOK
<1>10. QED
  BY <1>2, <1>3, <1>5, <1>6, <1>9

LEMMA StartBrokerStep ==
    ASSUME IInv, NEW e \in Entries, NEW c \in Calls, StartBroker(e, <<e, c>>)
    PROVE  /\ IInv'
           /\ BrokerUsers' = BrokerUsers
           /\ broker'.refs = 0 /\ broker.refs = 0
           /\ broker.state = "none" /\ broker'.state = "starting"
<1> DEFINE p == <<e, c>>
<1>1. Do(p, "get") /\ broker.lock = NoOne /\ broker.state = "none" /\ TypeOK /\ p \in Procs
  BY DEF StartBroker, IInv, Procs, Calls
<1>2. /\ broker' = [refs |-> 0, state |-> "starting", lock |-> p] /\ broker' \in Servers
      /\ broker'.refs = 0 /\ broker'.state = "starting" /\ broker'.lock = p
  BY <1>1 DEF StartBroker, Servers, States
<1>3. broker.refs = 0
  BY <1>1 DEF IInv, BrokerCounted
<1>4. held' = held /\ kind' = kind /\ todo' = todo /\ Then(p, Getting)
  BY <1>1, Gets, Same DEF StartBroker
<1>5. BrokerUsers' = BrokerUsers
  BY <1>1, <1>2, <1>4 DEF BrokerUsers, HasBroker, Stopping
<1>6. BrokerCounted'
  BY <1>2, <1>3, <1>5 DEF IInv, BrokerCounted
<1>7. BrokerLocked'
  BY <1>1, <1>2, <1>4, ConstantsAssumption, Gets DEF BrokerLocked, Calls
<1>8. IInv'
  BY <1>1, <1>2, <1>4, <1>6, <1>7, Gets, Heads, BrokerStepKeeps DEF StartBroker, TypeOK
<1>9. QED
  BY <1>1, <1>2, <1>3, <1>5, <1>8

LEMMA BrokerStartedStep ==
    ASSUME IInv, NEW e \in Entries, NEW c \in Calls, BrokerStarted(e, <<e, c>>)
    PROVE  /\ IInv'
           /\ broker.state = "starting" /\ broker.refs = 0 /\ BrokerUsers = {}
           /\ \/ /\ broker'.state = "up" /\ broker'.refs = 1
                 /\ BrokerUsers' = {e} /\ Cardinality(BrokerUsers') = 1
              \/ broker'.state = "dead" /\ broker'.refs = 0 /\ BrokerUsers' = {}
<1> DEFINE p == <<e, c>>
<1>1. broker.lock = p /\ broker.state = "starting" /\ TypeOK
  BY DEF BrokerStarted, IInv
<1>2. Do(p, "get")
  BY <1>1, Holding DEF IInv, Do
<1>3. broker.refs = 0 /\ BrokerUsers = {}
  <2>1. broker.refs = 0 /\ Cardinality(BrokerUsers) <= 0
    BY <1>1 DEF IInv, BrokerCounted
  <2>2. QED
    BY <2>1, UsersFinite, FS_CardinalityType, FS_EmptySet
<1>4. CASE /\ broker' = [refs |-> 1, state |-> "up", lock |-> NoOne]
           /\ held' = held \union {e} /\ Then(p, Rest(p))
  <2>1. /\ broker' \in Servers /\ broker'.refs = 1 /\ broker'.state = "up" /\ broker'.lock = NoOne
        /\ Then(p, Probing) /\ kind' = kind
    BY <1>2, <1>4, Gets DEF Servers, States, Rest, BrokerStarted
  <2>2. BrokerUsers' = {e}
    <3>1. BrokerUsers' = BrokerUsers \union {e}
      BY <1>1, <1>2, <1>4, <2>1, Gets DEF BrokerUsers, HasBroker, Stopping
    <3>2. QED
      BY <1>3, <3>1
  <2>3. Cardinality(BrokerUsers') = 1
    BY <2>2, FS_Singleton
  <2>4. BrokerCounted' /\ BrokerLocked'
    BY <2>1, <2>3, ConstantsAssumption DEF BrokerCounted, BrokerLocked, Calls
  <2>5. IInv'
    BY <1>1, <1>2, <1>4, <2>1, <2>4, Gets, Heads, BrokerStepKeeps DEF BrokerStarted, TypeOK
  <2>6. QED
    BY <1>1, <1>3, <2>1, <2>2, <2>3, <2>5
<1>5. CASE /\ broker' = [refs |-> 0, state |-> "dead", lock |-> NoOne]
           /\ Then(p, <<>>) /\ held' = held
  <2>1. /\ broker' \in Servers /\ broker'.refs = 0 /\ broker'.state = "dead"
        /\ broker'.lock = NoOne /\ kind' = kind
    BY <1>5 DEF Servers, States, BrokerStarted
  <2>2. BrokerUsers' = {}
    <3>1. BrokerUsers' = BrokerUsers
      BY <1>1, <1>5, <2>1 DEF BrokerUsers, HasBroker, Stopping
    <3>2. QED
      BY <1>3, <3>1
  <2>3. Cardinality(BrokerUsers') = 0
    BY <2>2, FS_EmptySet
  <2>4. BrokerCounted' /\ BrokerLocked'
    BY <2>1, <2>3, ConstantsAssumption DEF BrokerCounted, BrokerLocked, Calls
  <2>5. IInv'
    BY <1>1, <1>2, <1>5, <2>1, <2>4, Gets, Heads, BrokerStepKeeps DEF BrokerStarted, TypeOK
  <2>6. QED
    BY <1>1, <1>3, <2>1, <2>2, <2>5
<1>6. QED
  BY <1>4, <1>5 DEF BrokerStarted

\* Who gives the broker back is neither loaded nor in a poll, and holds no proxy.
LEMMA GivesBack ==
    ASSUME IInv, NEW e \in Entries, NEW c \in Calls, Do(<<e, c>>, "stop_broker"), HasBroker(e)
    PROVE  /\ c = "life" /\ kind[e] = "broker" /\ e \in held /\ e \notin loaded
           /\ todo[<<e, c>>] \in {Failing, Closing} /\ proxy.lock # <<e, c>>
           /\ Failing \in Lives(kind[e]) /\ Closing \in Lives(kind[e])
           /\ todo[<<e, c>>] \notin {<<>>, StoppingLast, Getting, Probing, Connecting, Refreshing}
           /\ Tail(todo[<<e, c>>]) \in Lives(kind[e])
           /\ Tail(todo[<<e, c>>]) \notin {Getting, Probing, Connecting, Refreshing}
<1>1. c = "life" /\ todo[<<e, c>>] \in {Failing, Closing}
  BY Doing, Whose
<1>2. e \notin loaded
  BY <1>1, Heads, Whose DEF Ways
<1>3. proxy.lock # <<e, c>>
  BY Holding DEF IInv, Do
<1>4. /\ Failing \in Lives(kind[e]) /\ Closing \in Lives(kind[e])
      /\ StoppingLast \in Lives(kind[e]) /\ <<>> \in Lives(kind[e])
  BY DEF Lives
<1>5. /\ Tail(todo[<<e, c>>]) \in {StoppingLast, <<>>}
      /\ todo[<<e, c>>] \notin {<<>>, StoppingLast, Getting, Probing, Connecting, Refreshing}
      /\ \A s \in {StoppingLast, <<>>} : s \notin {Getting, Probing, Connecting, Refreshing}
  <2>1. /\ Tail(Failing) = StoppingLast /\ Tail(Closing) = <<>>
        /\ Head(Failing) = "stop_broker" /\ Head(Closing) = "stop_broker"
        /\ Failing # <<>> /\ Closing # <<>>
    BY Heads, Tails
  <2>2. /\ Getting # <<>> /\ Probing # <<>> /\ Connecting # <<>> /\ Refreshing # <<>>
        /\ Head(Getting) = "get" /\ Head(Probing) = "probe" /\ Head(Connecting) = "connect"
        /\ Head(Refreshing) = "refresh" /\ Head(StoppingLast) = "stop_proxy"
    BY Heads
  <2>3. QED
    BY <1>1, <2>1, <2>2
<1>6. QED
  BY <1>1, <1>2, <1>3, <1>4, <1>5 DEF HasBroker

LEMMA ReleaseBrokerStep ==
    ASSUME IInv, NEW e \in Entries, NEW c \in Calls, ReleaseBroker(e, <<e, c>>)
    PROVE  /\ IInv'
           /\ e \in BrokerUsers /\ BrokerUsers' = BrokerUsers \ {e}
           /\ Cardinality(BrokerUsers') = Cardinality(BrokerUsers) - 1
           /\ broker.state \in {"up", "dead"} /\ broker'.refs = broker.refs - 1
           /\ IF broker.refs > 1 THEN broker'.state = broker.state ELSE broker'.state = "stopping"
<1> DEFINE p == <<e, c>>
<1>1. /\ Do(p, "stop_broker") /\ HasBroker(e) /\ broker.lock = NoOne /\ TypeOK /\ p \in Procs
      /\ kind' = kind
  BY DEF ReleaseBroker, IInv, Procs, Calls
<1>2. broker.state \in {"none", "up", "dead"} /\ e \in BrokerUsers
  BY <1>1 DEF IInv, BrokerLocked, BrokerUsers, Stopping
<1>3. /\ Cardinality(BrokerUsers) \in Nat /\ Cardinality(BrokerUsers) >= 1
      /\ Cardinality(BrokerUsers \ {e}) = Cardinality(BrokerUsers) - 1
  <2>1. Cardinality(BrokerUsers) \in Nat /\ Cardinality(BrokerUsers) # 0
    BY <1>2, UsersFinite, FS_CardinalityType, FS_EmptySet
  <2>2. Cardinality(BrokerUsers \ {e}) = Cardinality(BrokerUsers) - 1
    BY <1>2, UsersFinite, FS_RemoveElement
  <2>3. QED
    BY <2>1, <2>2
<1>4. /\ broker.refs \in Nat /\ broker.refs >= Cardinality(BrokerUsers)
      /\ broker.state \in {"up", "dead"}
  <2>1. /\ broker.refs \in Nat /\ broker.refs >= Cardinality(BrokerUsers)
        /\ broker.state = "none" => broker.refs = 0
    BY DEF IInv, BrokerCounted, TypeOK, Servers
  <2>2. QED
    BY <1>2, <1>3, <2>1
<1>5. CASE broker.refs > 1
  <2>1. /\ broker' = [broker EXCEPT !.refs = @ - 1] /\ broker' \in Servers
        /\ broker'.refs = broker.refs - 1 /\ broker'.state = broker.state /\ broker'.lock = NoOne
    BY <1>1, <1>4, <1>5 DEF ReleaseBroker, TypeOK, Servers
  <2>2. held' = held \ {e} /\ Then(p, Tail(todo[p]))
    BY <1>5 DEF ReleaseBroker, Rest
  <2>3. BrokerUsers' = BrokerUsers \ {e}
    BY <1>1, <1>4, <2>1, <2>2 DEF BrokerUsers, HasBroker, Stopping
  <2>4. BrokerCounted'
    BY <1>3, <1>4, <2>1, <2>3 DEF BrokerCounted
  <2>5. BrokerLocked'
    BY <1>4, <2>1, ConstantsAssumption DEF BrokerLocked, Calls
  <2>6. IInv'
    BY <1>1, <2>1, <2>2, <2>4, <2>5, GivesBack, BrokerStepKeeps DEF ReleaseBroker, TypeOK
  <2>7. QED
    BY <1>2, <1>3, <1>4, <1>5, <2>1, <2>3, <2>6
<1>6. CASE ~(broker.refs > 1)
  <2>1. /\ broker' = [refs |-> 0, state |-> "stopping", lock |-> p] /\ broker' \in Servers
        /\ broker'.refs = 0 /\ broker'.state = "stopping" /\ broker'.lock = p
    BY <1>1, <1>6 DEF ReleaseBroker, Servers, States
  <2>2. held' = held /\ todo' = todo /\ Then(p, todo[p])
    BY <1>1, <1>6, Same DEF ReleaseBroker
  <2>3. BrokerUsers' = BrokerUsers \ {e}
    BY <1>1, <1>4, <2>1, <2>2 DEF BrokerUsers, HasBroker, Stopping, Calls
  <2>4. broker.refs = 1 /\ Cardinality(BrokerUsers) = 1
    BY <1>3, <1>4, <1>6
  <2>5. BrokerCounted'
    BY <1>3, <2>1, <2>3, <2>4 DEF BrokerCounted
  <2>6. BrokerLocked'
    BY <1>1, <2>1, <2>2, ConstantsAssumption, GivesBack DEF BrokerLocked, Calls
  <2>7. IInv'
    <3>1. /\ kind' = kind /\ loaded' = loaded /\ proxy' = proxy /\ registry' = registry
          /\ ops' = ops /\ blame' = blame /\ blame \subseteq {"foreign", "port", "escape"}
      BY <1>1 DEF ReleaseBroker, TypeOK
    <3>2. /\ c = "life" /\ kind[e] = "broker" /\ e \in held /\ e \notin loaded
          /\ proxy.lock # p /\ todo[p] \in Lives(kind[e])
          /\ todo[p] \notin {<<>>, StoppingLast, Getting, Probing, Connecting, Refreshing}
      BY <1>1, GivesBack
    <3>3. QED
      BY <1>1, <2>1, <2>2, <2>5, <2>6, <3>1, <3>2, BrokerStepKeeps
  <2>8. QED
    BY <1>2, <1>3, <1>4, <1>6, <2>1, <2>3, <2>4, <2>7
<1>7. QED
  BY <1>5, <1>6

LEMMA BrokerStoppedStep ==
    ASSUME IInv, NEW e \in Entries, NEW c \in Calls, BrokerStopped(e, <<e, c>>)
    PROVE  /\ IInv'
           /\ BrokerUsers' = BrokerUsers /\ broker.refs = 0 /\ broker'.refs = 0
           /\ broker.state = "stopping" /\ broker'.state = "none"
<1> DEFINE p == <<e, c>>
<1>1. broker.lock = p /\ broker.state = "stopping" /\ TypeOK /\ kind' = kind
  BY DEF BrokerStopped, IInv
<1>2. Do(p, "stop_broker") /\ HasBroker(e)
  BY <1>1, Holding DEF IInv, Do, BrokerLocked, HasBroker
<1>3. /\ broker' = [refs |-> 0, state |-> "none", lock |-> NoOne] /\ broker' \in Servers
      /\ broker'.refs = 0 /\ broker'.state = "none" /\ broker'.lock = NoOne
  BY DEF BrokerStopped, Servers, States, Absent
<1>4. held' = held \ {e} /\ Then(p, Tail(todo[p]))
  BY DEF BrokerStopped, Rest
<1>5. BrokerUsers' = BrokerUsers
  <2>1. ASSUME NEW f \in Entries
        PROVE  f \in BrokerUsers' <=> f \in BrokerUsers
    BY <1>1, <1>3, <1>4 DEF BrokerUsers, HasBroker, Stopping, Calls
  <2>2. QED
    BY <1>1, <2>1 DEF BrokerUsers
<1>6. broker.refs = 0
  BY <1>1 DEF IInv, BrokerCounted
<1>7. BrokerCounted'
  BY <1>3, <1>5, <1>6 DEF IInv, BrokerCounted
<1>8. BrokerLocked'
  BY <1>3, ConstantsAssumption DEF BrokerLocked, Calls
<1>9. IInv'
  BY <1>1, <1>2, <1>3, <1>4, <1>7, <1>8, GivesBack, BrokerStepKeeps DEF BrokerStopped, TypeOK
<1>10. QED
  BY <1>1, <1>3, <1>5, <1>6, <1>9

LEMMA ConnectRaisesStep ==
    ASSUME IInv, NEW e \in Entries, NEW c \in Calls, ConnectRaises(e, <<e, c>>)
    PROVE  /\ IInv'
           /\ e \in BrokerUsers /\ BrokerUsers' = BrokerUsers \ {e} /\ broker' = broker
           /\ Cardinality(BrokerUsers') = Cardinality(BrokerUsers) - 1
<1> DEFINE p == <<e, c>>
<1>1. /\ Do(p, "connect") /\ kind[e] = "broker" /\ held' = held \ {e} /\ Then(p, <<>>)
      /\ blame' = blame \union {"escape"} /\ broker' = broker /\ kind' = kind /\ TypeOK
  BY DEF ConnectRaises, others, IInv
<1>2. c = "life" /\ todo[p] = Connecting
  BY <1>1, Doing, Whose
<1>3. e \in held /\ e \notin loaded /\ broker.lock # p /\ proxy.lock # p
  BY <1>1, <1>2, Heads, Holding, Whose DEF BrokerHeld, Ways, IInv, Do
<1>4. e \in BrokerUsers
  <2>1. broker.lock # <<e, "poll">>
    BY DEF IInv, BrokerLocked, Calls
  <2>2. QED
    BY <1>1, <1>2, <1>3, <2>1 DEF BrokerUsers, HasBroker, Stopping
<1>5. BrokerUsers' = BrokerUsers \ {e}
  BY <1>1 DEF BrokerUsers, HasBroker, Stopping
<1>6. Cardinality(BrokerUsers') = Cardinality(BrokerUsers) - 1
  BY <1>4, <1>5, UsersFinite, FS_RemoveElement
<1>7. BrokerCounted'
  <2>1. /\ Cardinality(BrokerUsers) \in Nat /\ broker.refs \in Nat
        /\ broker.refs >= Cardinality(BrokerUsers)
    BY UsersFinite, FS_CardinalityType DEF IInv, BrokerCounted, TypeOK, Servers
  <2>2. QED
    BY <1>1, <1>6, <2>1 DEF IInv, BrokerCounted
<1>8. BrokerLocked'
  <2>1. ASSUME NEW f \in Entries, NEW d \in Calls
        PROVE  todo'[<<f, d>>] = IF f = e /\ d = c THEN <<>> ELSE todo[<<f, d>>]
    BY <1>1, Others
  <2>2. ASSUME NEW f \in Entries, NEW d \in Calls, broker.lock = <<f, d>>
        PROVE  f # e
    BY <1>2, <1>3, <2>2 DEF IInv, BrokerLocked
  <2>3. QED
    BY <1>1, <2>1, <2>2 DEF IInv, BrokerLocked
<1>9. IInv'
  BY <1>1, <1>2, <1>3, <1>7, <1>8, Heads, BrokerStepKeeps
     DEF ConnectRaises, others, Lives, TypeOK, IInv
<1>10. QED
  BY <1>1, <1>4, <1>5, <1>6, <1>9
-----------------------------------------------------------------------------
(***************************************************************************)
(* The steps that change the proxy server.                                 *)
(***************************************************************************)
LEMMA ProxyStepKeeps ==
    ASSUME IInv, NEW e \in Entries, NEW c \in Calls, NEW t, Then(<<e, c>>, t),
           kind' = kind, loaded' = loaded, broker' = broker, ops' = ops,
           blame' \subseteq {"foreign", "port", "escape"}, registry' \subseteq Entries,
           held' \in {held, held \union {e}, held \ {e}}, kind[e] = "proxy" \/ held' = held,
           proxy' \in Servers, broker.lock # <<e, c>>,
           c = "poll" => t \in Polls(kind[e]),
           c = "life" => /\ t \in Lives(kind[e])
                         /\ e \notin loaded
                         /\ kind[e] = "broker" =>
                              t \notin {<<>>, StoppingLast, Getting, Probing, Connecting, Refreshing},
           ProxyLocked', ProxyCounted'
    PROVE  IInv'
<1>1. TypeOK /\ <<e, c>> \in Procs /\ t \in Seq(Steps)
  BY WaysTyped DEF IInv, TypeOK, Procs, Calls
<1>2. TypeOK'
  BY <1>1 DEF TypeOK, Then
<1>3. \A f \in Entries : Ways(f)' /\ BrokerHeld(f)'
  <2>1. \A f \in Entries \ {e} : (f \in held' <=> f \in held) /\ (f \in loaded' <=> f \in loaded)
    OBVIOUS
  <2>2. c = "poll" => /\ t \in Polls(kind[e]) /\ loaded' = loaded
                      /\ kind[e] = "broker" => (e \in held' <=> e \in held)
    OBVIOUS
  <2>3. c = "life" => /\ t \in Lives(kind[e])
                      /\ e \in loaded' => t = <<>>
                      /\ kind[e] = "broker" =>
                           /\ t = Getting => e \notin held'
                           /\ t \in {Probing, Connecting, Refreshing} => e \in held'
                           /\ e \in held' => e \in loaded' \/ t \notin {<<>>, StoppingLast}
    OBVIOUS
  <2>4. QED
    BY <1>1, <2>1, <2>2, <2>3, WaysKept DEF IInv
<1>4. BrokerLocked' /\ BrokerCounted'
  <2>1. \A f \in Entries : kind[f] = "broker" => (f \in held' <=> f \in held)
    OBVIOUS
  <2>2. QED
    BY <1>1, <2>1, BrokerKept DEF IInv
<1>5. QED
  BY <1>2, <1>3, <1>4 DEF IInv

\* Who creates the proxy server is a proxied entry, and goes on to connect.
LEMMA Creator ==
    ASSUME IInv, NEW e \in Entries, NEW c \in Calls, Do(<<e, c>>, "create") \/ Do(<<e, c>>, "renew")
    PROVE  /\ kind[e] = "proxy" /\ broker.lock # <<e, c>>
           /\ todo[<<e, c>>] \in {Creating, Renewing, RenewingIn}
           /\ c = "life" => e \notin loaded
           /\ c = "life" => Tail(todo[<<e, c>>]) \in Lives(kind[e]) /\ todo[<<e, c>>] \in Lives(kind[e])
           /\ c = "poll" => Tail(todo[<<e, c>>]) \in Polls(kind[e]) /\ todo[<<e, c>>] \in Polls(kind[e])
<1>1. /\ kind[e] = "proxy"
      /\ \/ c = "life" /\ todo[<<e, c>>] \in {Creating, RenewingIn}
         \/ c = "poll" /\ todo[<<e, c>>] = Renewing
  BY Doing, Whose
<1>2. broker.lock # <<e, c>>
  BY Holding DEF IInv, Do
<1>3. c = "life" => e \notin loaded
  BY <1>1, Heads, Whose DEF Ways
<1>4. QED
  BY <1>1, <1>2, <1>3, Tails DEF Lives, Polls

\* Who releases a reference to it goes on to leave or to connect again.
LEMMA Releaser ==
    ASSUME IInv, NEW e \in Entries, NEW c \in Calls, Do(<<e, c>>, "drop")
    PROVE  /\ broker.lock # <<e, c>>
           /\ todo[<<e, c>>] \in {Leaving, Dropping, DroppingIn, Swapping, SwappingIn}
           /\ \A s \in {todo[<<e, c>>], Tail(todo[<<e, c>>])} :
                 /\ c = "poll" => s \in Polls(kind[e])
                 /\ c = "life" =>
                      /\ s \in Lives(kind[e]) /\ e \notin loaded
                      /\ kind[e] = "broker" =>
                           s \notin {<<>>, StoppingLast, Getting, Probing, Connecting, Refreshing}
<1>1. \/ c = "life" /\ todo[<<e, c>>] = Leaving
      \/ /\ kind[e] = "proxy"
         /\ \/ c = "life" /\ todo[<<e, c>>] \in {Dropping, DroppingIn, SwappingIn}
            \/ c = "poll" /\ todo[<<e, c>>] \in {Dropping, Swapping}
  BY Doing, Whose
<1>2. broker.lock # <<e, c>>
  BY Holding DEF IInv, Do
<1>3. c = "life" => e \notin loaded
  BY <1>1, Heads, Whose DEF Ways
<1>4. CASE c = "life" /\ todo[<<e, c>>] = Leaving
  <2>1. /\ Tail(todo[<<e, c>>]) = Closing
        /\ Leaving \in Lives(kind[e]) /\ Closing \in Lives(kind[e])
    BY <1>4, Tails DEF Lives
  <2>2. /\ Leaving \notin {<<>>, StoppingLast, Getting, Probing, Connecting, Refreshing}
        /\ Closing \notin {<<>>, StoppingLast, Getting, Probing, Connecting, Refreshing}
    BY Heads
  <2>3. QED
    BY <1>2, <1>3, <1>4, <2>1, <2>2
<1>5. CASE kind[e] = "proxy"
  BY <1>1, <1>2, <1>3, <1>5, Tails DEF Lives, Polls
<1>6. QED
  BY <1>1, <1>4, <1>5

LEMMA JoinProxyStep ==
    ASSUME IInv, NEW e \in Entries, NEW c \in Calls, JoinProxy(e, <<e, c>>)
    PROVE  IInv'
<1> DEFINE p == <<e, c>>
<1>1. /\ Do(p, "create") \/ Do(p, "renew")
      /\ proxy.lock = NoOne /\ proxy.state # "none" /\ TypeOK
  BY DEF JoinProxy, Creates, IInv
<1>2. /\ proxy' = [proxy EXCEPT !.refs = @ + 1] /\ proxy' \in Servers /\ proxy.refs \in Nat
      /\ proxy'.refs = proxy.refs + 1 /\ proxy'.state = proxy.state /\ proxy'.lock = NoOne
  BY <1>1 DEF JoinProxy, TypeOK, Servers
<1>3. proxy.state \in {"up", "dead"}
  BY <1>1 DEF IInv, ProxyLocked
<1>4. /\ held' = held \union {e} /\ kind' = kind /\ loaded' = loaded /\ blame' = blame
      /\ registry' = registry \union {e} /\ Then(p, Tail(todo[p]))
  BY DEF JoinProxy, Rest
<1>5. ProxyUsers' = ProxyUsers \union {e}
  BY <1>1, <1>2, <1>3, <1>4, Creator DEF ProxyUsers, HasProxy, Stopping
<1>6. Cardinality(ProxyUsers') <= Cardinality(ProxyUsers) + 1 /\ Cardinality(ProxyUsers) \in Nat
  <2>1. Cardinality(ProxyUsers) \in Nat
    BY UsersFinite, FS_CardinalityType
  <2>2. Cardinality(ProxyUsers \union {e})
           = IF e \in ProxyUsers THEN Cardinality(ProxyUsers) ELSE Cardinality(ProxyUsers) + 1
    BY UsersFinite, FS_AddElement
  <2>3. QED
    BY <1>5, <2>1, <2>2
<1>7. ProxyCounted'
  <2>1. Cardinality(ProxyUsers') \in Nat
    BY <1>5, UsersFinite, FS_AddElement, FS_CardinalityType
  <2>2. ASSUME blame \subseteq {"escape"}
        PROVE  /\ proxy.state = "up" /\ proxy.refs >= Cardinality(ProxyUsers)
               /\ \A f \in loaded \intersect ProxyUsers : f \in registry
    BY <1>3, <2>2 DEF IInv, ProxyCounted
  <2>3. ASSUME blame \subseteq {"escape"}
        PROVE  /\ proxy'.refs >= Cardinality(ProxyUsers') /\ proxy'.refs >= 1
               /\ \A f \in loaded' \intersect ProxyUsers' : f \in registry'
    BY <1>2, <1>4, <1>5, <1>6, <2>1, <2>2, <2>3
  <2>4. proxy.state = "dead" => "port" \in blame
    BY DEF IInv, ProxyCounted
  <2>5. QED
    BY <1>2, <1>4, <2>2, <2>3, <2>4 DEF ProxyCounted
<1>8. ProxyLocked'
  BY <1>2, <1>3, ConstantsAssumption DEF ProxyLocked, Calls
<1>9. QED
  <2>1. /\ broker' = broker /\ ops' = ops /\ blame' \subseteq {"foreign", "port", "escape"}
        /\ registry' \subseteq Entries
    BY <1>1, <1>4 DEF JoinProxy, TypeOK
  <2>2. QED
    BY <1>1, <1>2, <1>4, <1>7, <1>8, <2>1, Creator, ProxyStepKeeps

LEMMA NoProxyUsers ==
    ASSUME IInv, blame \subseteq {"escape"}, proxy.state \in {"none", "stopping"}
    PROVE  proxy.refs = 0 /\ ProxyUsers = {}
<1>1. proxy.refs = 0 /\ Cardinality(ProxyUsers) <= 0
  BY DEF IInv, ProxyCounted
<1>2. QED
  BY <1>1, UsersFinite, FS_CardinalityType, FS_EmptySet

LEMMA StartProxyStep ==
    ASSUME IInv, NEW e \in Entries, NEW c \in Calls, StartProxy(e, <<e, c>>)
    PROVE  IInv'
<1> DEFINE p == <<e, c>>
<1>1. /\ Do(p, "create") \/ Do(p, "renew")
      /\ proxy.lock = NoOne /\ proxy.state = "none" /\ TypeOK /\ p \in Procs
  BY DEF StartProxy, Creates, IInv, Procs, Calls
<1>2. /\ proxy' = [refs |-> 1, state |-> "starting", lock |-> p] /\ proxy' \in Servers
      /\ proxy'.refs = 1 /\ proxy'.state = "starting" /\ proxy'.lock = p
  BY <1>1 DEF StartProxy, Servers, States
<1>3. /\ held' = held /\ kind' = kind /\ loaded' = loaded /\ blame' = blame
      /\ registry' = {e} /\ todo' = todo /\ Then(p, todo[p])
  BY <1>1, Same DEF StartProxy
<1>4. ProxyUsers' = ProxyUsers
  BY <1>1, <1>2, <1>3 DEF ProxyUsers, HasProxy, Stopping
<1>5. ProxyCounted'
  <2>1. ASSUME blame \subseteq {"escape"}
        PROVE  ProxyUsers' = {} /\ Cardinality(ProxyUsers') = 0
    BY <1>1, <1>4, <2>1, NoProxyUsers, FS_EmptySet
  <2>2. \A f \in Entries, d \in Calls : proxy'.lock = <<f, d>> => f \in registry'
    BY <1>2, <1>3
  <2>3. QED
    BY <1>1, <1>2, <1>3, <2>1, <2>2 DEF ProxyCounted, TypeOK
<1>6. ProxyLocked'
  BY <1>1, <1>2, <1>3, Creator, ConstantsAssumption DEF ProxyLocked, Calls
<1>7. QED
  <2>1. /\ broker' = broker /\ ops' = ops /\ blame' \subseteq {"foreign", "port", "escape"}
        /\ registry' \subseteq Entries
    BY <1>1, <1>3 DEF StartProxy, TypeOK
  <2>2. QED
    BY <1>1, <1>2, <1>3, <1>5, <1>6, <2>1, Creator, ProxyStepKeeps

LEMMA ProxyStartedStep ==
    ASSUME IInv, NEW e \in Entries, NEW c \in Calls, ProxyStarted(e, <<e, c>>)
    PROVE  IInv'
<1> DEFINE p == <<e, c>>
<1>1. proxy.lock = p /\ proxy.state = "starting" /\ TypeOK
  BY DEF ProxyStarted, IInv
<1>2. Do(p, "create") \/ Do(p, "renew")
  BY <1>1, Holding DEF IInv, Do
<1>3. /\ proxy' = [proxy EXCEPT !.state = "up", !.lock = NoOne] /\ proxy' \in Servers
      /\ proxy'.refs = proxy.refs /\ proxy'.state = "up" /\ proxy'.lock = NoOne
  BY <1>1 DEF ProxyStarted, TypeOK, Servers, States
<1>4. /\ held' = held \union {e} /\ kind' = kind /\ loaded' = loaded /\ blame' = blame
      /\ registry' = registry /\ Then(p, Tail(todo[p])) /\ broker' = broker /\ ops' = ops
  BY DEF ProxyStarted, Rest
<1>5. ProxyUsers' = ProxyUsers \union {e}
  BY <1>1, <1>2, <1>3, <1>4, Creator DEF ProxyUsers, HasProxy, Stopping
<1>6. ProxyCounted'
  <2>1. ASSUME blame \subseteq {"escape"}
        PROVE  ProxyUsers = {} /\ proxy.refs >= 1 /\ (e \in loaded => e \in registry)
    BY <1>1, <2>1 DEF IInv, ProxyCounted
  <2>2. ASSUME blame \subseteq {"escape"}
        PROVE  ProxyUsers' = {e} /\ Cardinality(ProxyUsers') = 1
    BY <1>5, <2>1, <2>2, FS_Singleton
  <2>3. QED
    BY <1>3, <1>4, <2>1, <2>2 DEF ProxyCounted
<1>7. ProxyLocked'
  BY <1>3, ConstantsAssumption DEF ProxyLocked, Calls
<1>8. QED
  <2>1. blame' \subseteq {"foreign", "port", "escape"} /\ registry' \subseteq Entries
    BY <1>1, <1>4 DEF TypeOK
  <2>2. QED
    BY <1>2, <1>3, <1>4, <1>6, <1>7, <2>1, Creator, ProxyStepKeeps

LEMMA ProxyFailsStep ==
    ASSUME IInv, NEW e \in Entries, NEW c \in Calls, ProxyFails(e, <<e, c>>)
    PROVE  IInv'
<1> DEFINE p == <<e, c>>
           t == IF Do(p, "create") THEN <<"has_reference">> ELSE ReturnFromReconnect(p)
<1>1. proxy.lock = p /\ proxy.state = "starting" /\ TypeOK
  BY DEF ProxyFails, IInv
<1>2. Do(p, "create") \/ Do(p, "renew")
  BY <1>1, Holding DEF IInv, Do
<1>3. /\ proxy' = [proxy EXCEPT !.state = "dead", !.lock = NoOne] /\ proxy' \in Servers
      /\ proxy'.state = "dead" /\ proxy'.lock = NoOne
  BY <1>1 DEF ProxyFails, TypeOK, Servers, States
<1>4. /\ held' = held /\ kind' = kind /\ loaded' = loaded /\ blame' = blame \union {"port"}
      /\ registry' = registry /\ Then(p, t) /\ broker' = broker /\ ops' = ops
  BY DEF ProxyFails
<1>5. /\ kind[e] = "proxy"
      /\ t \in {Checking, Failing, <<>>}
      /\ c = "poll" => t = <<>>
  <2>1. CASE Do(p, "create")
    BY <2>1, Doing, Whose DEF Checking
  <2>2. CASE Do(p, "renew")
    <3>1. /\ kind[e] = "proxy"
          /\ \/ c = "life" /\ todo[p] = RenewingIn
             \/ c = "poll" /\ todo[p] = Renewing
      BY <2>2, Doing, Whose
    <3>2. ReturnFromReconnect(p) = IF c = "life" THEN Failing ELSE <<>>
      BY <3>1, Lasts DEF ReturnFromReconnect, Failing
    <3>3. ~Do(p, "create")
      BY <2>2 DEF Do
    <3>4. QED
      BY <3>1, <3>2, <3>3
  <2>3. QED
    BY <1>2, <2>1, <2>2
<1>6. t \in Lives(kind[e]) /\ <<>> \in Polls(kind[e])
  BY <1>5 DEF Lives, Polls
<1>7. ProxyCounted' /\ ProxyLocked'
  BY <1>3, <1>4, ConstantsAssumption DEF ProxyCounted, ProxyLocked, Calls
<1>8. blame' \subseteq {"foreign", "port", "escape"} /\ registry' \subseteq Entries
  BY <1>1, <1>4 DEF TypeOK
<1> HIDE DEF t
<1>9. QED
  BY <1>2, <1>3, <1>4, <1>5, <1>6, <1>7, <1>8, Creator, ProxyStepKeeps

LEMMA ReleaseProxyStep ==
    ASSUME IInv, NEW e \in Entries, NEW c \in Calls, ReleaseProxy(e, <<e, c>>)
    PROVE  IInv'
<1> DEFINE p == <<e, c>>
<1>1. Do(p, "drop") /\ proxy.lock = NoOne /\ TypeOK /\ p \in Procs /\ proxy.refs \in Nat
  BY DEF ReleaseProxy, Releases, IInv, Procs, Calls, TypeOK, Servers
<1>2. /\ kind' = kind /\ loaded' = loaded /\ registry' = registry /\ broker' = broker /\ ops' = ops
      /\ blame \subseteq blame' /\ blame' \subseteq {"foreign", "port", "escape"}
      /\ ~HasProxy(e) /\ proxy.refs > 0 => "foreign" \in blame'
      /\ registry \subseteq Entries
  BY <1>1 DEF ReleaseProxy, TypeOK
<1>3. proxy.state \in {"none", "up", "dead"} /\ (proxy.state = "dead" => "port" \in blame)
  BY <1>1 DEF IInv, ProxyLocked, ProxyCounted
<1>4. ASSUME blame' \subseteq {"escape"}
      PROVE  /\ blame \subseteq {"escape"} /\ proxy.state \in {"none", "up"}
             /\ proxy.refs >= Cardinality(ProxyUsers) /\ Cardinality(ProxyUsers) \in Nat
             /\ proxy.state = "none" => proxy.refs = 0
             /\ proxy.state = "up" => proxy.refs >= 1
             /\ \A f \in loaded \intersect ProxyUsers : f \in registry
             /\ IF HasProxy(e)
                THEN /\ e \in ProxyUsers /\ proxy.state = "up"
                     /\ Cardinality(ProxyUsers \ {e}) = Cardinality(ProxyUsers) - 1
                ELSE proxy.refs = 0 /\ proxy.state = "none"
  <2>1. /\ blame \subseteq {"escape"} /\ proxy.state \in {"none", "up"}
        /\ proxy.refs >= Cardinality(ProxyUsers) /\ Cardinality(ProxyUsers) \in Nat
        /\ proxy.state = "none" => proxy.refs = 0
        /\ proxy.state = "up" => proxy.refs >= 1
        /\ \A f \in loaded \intersect ProxyUsers : f \in registry
    BY <1>2, <1>3, <1>4, UsersFinite, FS_CardinalityType DEF IInv, ProxyCounted
  <2>2. ASSUME HasProxy(e)
        PROVE  /\ e \in ProxyUsers /\ proxy.state = "up"
               /\ Cardinality(ProxyUsers \ {e}) = Cardinality(ProxyUsers) - 1
    <3>1. e \in ProxyUsers
      BY <1>3, <2>2 DEF ProxyUsers, Stopping
    <3>2. proxy.state # "none"
      BY <2>1, <3>1, NoProxyUsers
    <3>3. Cardinality(ProxyUsers \ {e}) = Cardinality(ProxyUsers) - 1
      BY <3>1, UsersFinite, FS_RemoveElement
    <3>4. QED
      BY <2>1, <3>1, <3>2, <3>3
  <2>3. ASSUME ~HasProxy(e)
        PROVE  proxy.refs = 0 /\ proxy.state = "none"
    BY <1>1, <1>2, <1>4, <2>1, <2>3
  <2>4. QED
    BY <2>1, <2>2, <2>3
<1>5. CASE /\ proxy.refs <= 1 /\ proxy.state # "none"
           /\ proxy' = [refs |-> 0, state |-> "stopping", lock |-> p]
           /\ todo' = todo /\ held' = held
  <2>1. /\ proxy' \in Servers /\ proxy'.refs = 0 /\ proxy'.state = "stopping" /\ proxy'.lock = p
        /\ Then(p, todo[p])
    BY <1>1, <1>5, Same DEF Servers, States
  <2>2. ProxyUsers' = ProxyUsers \ {e}
    BY <1>2, <1>3, <1>5, <2>1 DEF ProxyUsers, HasProxy, Stopping, Calls
  <2>3. ProxyCounted'
    <3>1. ASSUME blame' \subseteq {"escape"}
          PROVE  Cardinality(ProxyUsers') <= 0 /\ \A f \in loaded' \intersect ProxyUsers' : f \in registry'
      BY <1>1, <1>2, <1>4, <1>5, <2>2, <3>1
    <3>2. QED
      BY <2>1, <3>1, UsersFinite, FS_CardinalityType DEF ProxyCounted
  <2>4. ProxyLocked'
    BY <1>1, <1>5, <2>1, Releaser, ConstantsAssumption DEF ProxyLocked, Calls
  <2>5. QED
    BY <1>1, <1>2, <1>5, <2>1, <2>3, <2>4, Releaser, ProxyStepKeeps
<1>6. CASE /\ proxy.refs > 1 \/ proxy.state = "none"
           /\ proxy' = [proxy EXCEPT !.refs = IF @ = 0 THEN 0 ELSE @ - 1]
           /\ LetGo(e) /\ Then(p, Rest(p))
  <2>1. /\ proxy' \in Servers /\ proxy'.refs = (IF proxy.refs = 0 THEN 0 ELSE proxy.refs - 1)
        /\ proxy'.state = proxy.state /\ proxy'.lock = NoOne /\ Then(p, Tail(todo[p]))
    <3>1. (IF proxy.refs = 0 THEN 0 ELSE proxy.refs - 1) \in Nat
      BY <1>1
    <3>2. QED
      BY <1>1, <1>6, <3>1 DEF TypeOK, Servers, Rest
  <2>2. held' = (IF kind[e] = "proxy" THEN held \ {e} ELSE held)
    BY <1>6 DEF LetGo
  <2>3. ProxyUsers' = ProxyUsers \ {e}
    BY <1>2, <1>3, <2>1, <2>2 DEF ProxyUsers, HasProxy, Stopping
  <2>4. ProxyCounted'
    <3>1. ASSUME blame' \subseteq {"escape"}
          PROVE  /\ proxy'.refs >= Cardinality(ProxyUsers')
                 /\ \A f \in loaded' \intersect ProxyUsers' : f \in registry'
                 /\ proxy.state = "none" => proxy'.refs = 0
                 /\ proxy.state = "up" => proxy'.refs >= 1
      <4>1. CASE HasProxy(e)
        BY <1>1, <1>2, <1>4, <1>6, <2>1, <2>3, <3>1, <4>1
      <4>2. CASE ~HasProxy(e)
        <5>1. ProxyUsers = {} /\ proxy.refs = 0 /\ proxy.state = "none"
          BY <1>4, <3>1, <4>2, NoProxyUsers
        <5>2. ProxyUsers' = {} /\ Cardinality(ProxyUsers') = 0
          BY <2>3, <5>1, FS_EmptySet
        <5>3. QED
          BY <2>1, <5>1, <5>2
      <4>3. QED
        BY <4>1, <4>2
    <3>2. QED
      BY <1>2, <1>3, <1>4, <2>1, <3>1 DEF ProxyCounted
  <2>5. ProxyLocked'
    BY <1>3, <2>1, ConstantsAssumption DEF ProxyLocked, Calls
  <2>6. QED
    BY <1>1, <1>2, <2>1, <2>2, <2>4, <2>5, Releaser, ProxyStepKeeps
<1>7. QED
  BY <1>5, <1>6 DEF ReleaseProxy

LEMMA ProxyStoppedStep ==
    ASSUME IInv, NEW e \in Entries, NEW c \in Calls, ProxyStopped(e, <<e, c>>)
    PROVE  IInv'
<1> DEFINE p == <<e, c>>
<1>1. proxy.lock = p /\ proxy.state = "stopping" /\ TypeOK
  BY DEF ProxyStopped, IInv
<1>2. Do(p, "drop")
  BY <1>1, Holding DEF IInv, Do
<1>3. /\ proxy' \in Servers /\ proxy'.refs = 0 /\ proxy'.state = "none" /\ proxy'.lock = NoOne
  BY DEF ProxyStopped, Absent, Servers, States
<1>4. /\ held' = (IF kind[e] = "proxy" THEN held \ {e} ELSE held) /\ Then(p, Tail(todo[p]))
      /\ kind' = kind /\ loaded' = loaded /\ blame' = blame /\ registry' = {}
      /\ broker' = broker /\ ops' = ops
  BY DEF ProxyStopped, Rest, LetGo
<1>5. ProxyUsers' = ProxyUsers
  <2>1. ASSUME NEW f \in Entries
        PROVE  f \in ProxyUsers' <=> f \in ProxyUsers
    BY <1>1, <1>3, <1>4 DEF ProxyUsers, HasProxy, Stopping, Calls
  <2>2. QED
    BY <2>1 DEF ProxyUsers
<1>6. ProxyCounted'
  <2>1. ASSUME blame \subseteq {"escape"}
        PROVE  ProxyUsers' = {} /\ Cardinality(ProxyUsers') = 0
    BY <1>1, <1>5, <2>1, NoProxyUsers, FS_EmptySet
  <2>2. QED
    BY <1>3, <1>4, <2>1 DEF ProxyCounted
<1>7. ProxyLocked'
  BY <1>3, ConstantsAssumption DEF ProxyLocked, Calls
<1>8. blame' \subseteq {"foreign", "port", "escape"} /\ registry' \subseteq Entries
  BY <1>1, <1>4 DEF TypeOK
<1>9. QED
  BY <1>2, <1>3, <1>4, <1>6, <1>7, <1>8, Releaser, ProxyStepKeeps

LEMMA RemovePrinterStep ==
    ASSUME IInv, NEW e \in Entries, NEW c \in Calls, RemovePrinter(e, <<e, c>>)
    PROVE  IInv'
<1> DEFINE p == <<e, c>>
<1>1. Do(p, "remove") /\ TypeOK
  BY DEF RemovePrinter, IInv
<1>2. c = "life" /\ todo[p] = Removing
  BY <1>1, Doing, Whose
<1>3. e \notin loaded /\ broker.lock # p /\ proxy.lock # p
  BY <1>1, <1>2, Heads, Whose, Holding DEF Ways, IInv, Do
<1>4. /\ kind' = kind /\ loaded' = loaded /\ proxy' = proxy /\ broker' = broker /\ blame' = blame
      /\ ops' = ops /\ registry' = registry \ {e} /\ proxy' \in Servers
      /\ blame' \subseteq {"foreign", "port", "escape"} /\ registry' \subseteq Entries
  BY <1>1 DEF RemovePrinter, TypeOK
<1>5. \E t \in {Leaving, Closing} : Then(p, t)
  BY <1>2, Tails, Joined DEF RemovePrinter, Rest
<1>6. held' \in {held, held \ {e}} /\ (kind[e] = "proxy" \/ held' = held)
  BY DEF RemovePrinter, LetGo
<1>7. ProxyUsers' \subseteq ProxyUsers
  BY <1>4, <1>6 DEF ProxyUsers, HasProxy, Stopping
<1>8. ProxyCounted'
  <2>1. Cardinality(ProxyUsers') <= Cardinality(ProxyUsers)
    BY <1>7, UsersFinite, FS_Subset
  <2>2. /\ Cardinality(ProxyUsers') \in Nat /\ Cardinality(ProxyUsers) \in Nat /\ proxy.refs \in Nat
    BY <1>1, <1>7, UsersFinite, FS_Subset, FS_CardinalityType DEF TypeOK, Servers
  <2>3. \A f \in loaded : f # e
    BY <1>3
  <2>4. QED
    BY <1>4, <1>7, <2>1, <2>2, <2>3 DEF IInv, ProxyCounted
<1>9. ProxyLocked'
  <2>1. ASSUME NEW f \in Entries, NEW d \in Calls, proxy.lock = <<f, d>>
        PROVE  todo'[<<f, d>>] = todo[<<f, d>>]
    BY <1>1, <1>3, <1>5, <2>1, Others
  <2>2. QED
    BY <1>4, <2>1 DEF IInv, ProxyLocked
<1>10. /\ Leaving \in Lives(kind[e]) /\ Closing \in Lives(kind[e])
       /\ Leaving \notin {<<>>, StoppingLast, Getting, Probing, Connecting, Refreshing}
       /\ Closing \notin {<<>>, StoppingLast, Getting, Probing, Connecting, Refreshing}
  BY Heads DEF Lives
<1>11. QED
  BY <1>2, <1>3, <1>4, <1>5, <1>6, <1>8, <1>9, <1>10, ProxyStepKeeps
-----------------------------------------------------------------------------
(***************************************************************************)
(* The invariant, and what it says.                                        *)
(***************************************************************************)
LEMMA IInvInit == Init => IInv
<1> SUFFICES ASSUME Init PROVE IInv
  OBVIOUS
<1>1. TypeOK
  BY LeftTyped, ConstantsAssumption DEF Init, TypeOK, Servers, States, Absent
<1>2. \A e \in Entries : todo[<<e, "life">>] = <<>> /\ todo[<<e, "poll">>] = <<>>
  BY DEF Init, Procs
<1>3. \A e \in Entries : Ways(e) /\ BrokerHeld(e)
  <2> TAKE e \in Entries
  <2>1. <<>> \in Lives(kind[e]) /\ <<>> \in Polls(kind[e])
    BY DEF Lives, Polls
  <2>2. <<>> \notin {Getting, Probing, Connecting, Refreshing}
    BY Heads
  <2>3. QED
    BY <1>2, <2>1, <2>2 DEF Init, Ways, BrokerHeld
<1>4. /\ proxy.lock = NoOne /\ proxy.state = "none" /\ proxy.refs = 0
      /\ broker.lock = NoOne /\ broker.state = "none" /\ broker.refs = 0
  BY DEF Init, Absent
<1>5. BrokerLocked /\ ProxyLocked
  BY <1>4, ConstantsAssumption DEF BrokerLocked, ProxyLocked, Calls
<1>6. BrokerUsers = {} /\ ProxyUsers = {} /\ Cardinality(BrokerUsers) = 0 /\ Cardinality(ProxyUsers) = 0
  BY FS_EmptySet DEF Init, BrokerUsers, ProxyUsers, HasBroker, HasProxy
<1>7. BrokerCounted /\ ProxyCounted
  BY <1>4, <1>6 DEF BrokerCounted, ProxyCounted
<1>8. QED
  BY <1>1, <1>3, <1>5, <1>7 DEF IInv

LEMMA StepKeeps ==
    ASSUME IInv, NEW e \in Entries, NEW c \in Calls, Step(e, <<e, c>>)
    PROVE  IInv'
<1> DEFINE p == <<e, c>>
<1>1. CASE JoinBroker(e, p) \/ StartBroker(e, p) \/ BrokerStarted(e, p)
  BY <1>1, JoinBrokerStep, StartBrokerStep, BrokerStartedStep
<1>2. CASE ReleaseBroker(e, p) \/ BrokerStopped(e, p)
  BY <1>2, ReleaseBrokerStep, BrokerStoppedStep
<1>3. CASE NoBrokerToStop(e, p) \/ HasReference(e, p) \/ StopProxy(e, p)
  BY <1>3, ServerlessKeeps
<1>4. CASE JoinProxy(e, p) \/ StartProxy(e, p) \/ ProxyStarted(e, p) \/ ProxyFails(e, p)
  BY <1>4, JoinProxyStep, StartProxyStep, ProxyStartedStep, ProxyFailsStep
<1>5. CASE ReleaseProxy(e, p) \/ ProxyStopped(e, p) \/ RemovePrinter(e, p)
  BY <1>5, ReleaseProxyStep, ProxyStoppedStep, RemovePrinterStep
<1>6. CASE ProbeSucceeds(e, p) \/ ProbeFails(e, p)
  BY <1>6, ProbeKeeps
<1>7. CASE Connects(e, p) \/ ConnectFails(e, p)
  BY <1>7, ConnectKeeps
<1>8. CASE ConnectRaises(e, p)
  BY <1>8, ConnectRaisesStep
<1>9. CASE FirstRefresh(e, p) \/ FirstRefreshFails(e, p)
  BY <1>9, RefreshKeeps
<1>10. QED
  BY <1>1, <1>2, <1>3, <1>4, <1>5, <1>6, <1>7, <1>8, <1>9 DEF Step

LEMMA IInvNext == IInv /\ [Next]_vars => IInv'
<1> SUFFICES ASSUME IInv, [Next]_vars PROVE IInv'
  OBVIOUS
<1>1. CASE Next
  BY <1>1, CallKeeps, StepKeeps DEF Next, Calls
<1>2. CASE UNCHANGED vars
  BY <1>2 DEF vars, IInv, TypeOK, Ways, BrokerHeld, BrokerLocked, ProxyLocked, BrokerCounted,
       ProxyCounted, BrokerUsers, ProxyUsers, HasBroker, HasProxy, Stopping
<1>3. QED
  BY <1>1, <1>2

\* The inductive invariant holds throughout.
THEOREM Invariance == Spec => []IInv
BY IInvInit, IInvNext, PTL DEF Spec

\* A loaded entry that has a proxy server is registered with it and the server
\* runs, unless somebody released a reference that was not theirs or joined an
\* instance that could not bind its ports: for any number of entries, however
\* their setups, reconnects and unloads overlap (api.py, proxy.py).
THEOREM ProxyServesTheorem == Spec => []ProxyServes
<1>1. ASSUME IInv
      PROVE  ProxyServes
  <2>1. ASSUME blame \subseteq {"escape"}, NEW e \in loaded, HasProxy(e), ~Stopping(proxy, e)
        PROVE  proxy.state = "up" /\ e \in registry
    <3>1. e \in loaded \intersect ProxyUsers
      BY <1>1, <2>1 DEF ProxyUsers, IInv, TypeOK
    <3>2. e \in registry /\ proxy.state \notin {"dead", "starting"}
      BY <1>1, <2>1, <3>1 DEF IInv, ProxyCounted
    <3>3. proxy.state \notin {"none", "stopping"}
      BY <1>1, <2>1, <3>1, NoProxyUsers
    <3>4. proxy.state \in States
      BY <1>1 DEF IInv, TypeOK, Servers
    <3>5. QED
      BY <3>2, <3>3, <3>4 DEF States
  <2>2. TypeOK
    BY <1>1 DEF IInv
  <2>3. QED
    BY <2>1, <2>2 DEF ProxyServes
<1>2. QED
  BY <1>1, Invariance, PTL
-----------------------------------------------------------------------------
(***************************************************************************)
(* The broker is a shared resource.                                        *)
(***************************************************************************)
LEMMA Unshared ==
    ASSUME TypeOK, kind' = kind, broker' = broker,
           \A f \in Entries : kind[f] = "broker" => (f \in held' <=> f \in held)
    PROVE  UNCHANGED Shared!vars
<1>1. BrokerUsers' = BrokerUsers
  BY DEF BrokerUsers, HasBroker, Stopping
<1>2. QED
  BY <1>1 DEF Shared!vars

LEMMA BrokerSteps ==
    ASSUME IInv, NEW e \in Entries, NEW c \in Calls, Step(e, <<e, c>>)
    PROVE  [Shared!Next]_(Shared!vars)
<1> DEFINE p == <<e, c>>
<1>1. broker.refs \in Nat /\ Cardinality(BrokerUsers) \in Nat /\ TypeOK
  BY UsersFinite, FS_CardinalityType DEF IInv, TypeOK, Servers
<1>2. CASE JoinBroker(e, p)
  <2>1. Shared!Acquire(e)
    BY <1>1, <1>2, JoinBrokerStep DEF Shared!Acquire
  <2>2. QED
    BY <2>1 DEF Shared!Next
<1>3. CASE StartBroker(e, p)
  BY <1>1, <1>3, StartBrokerStep DEF Shared!vars
<1>4. CASE BrokerStarted(e, p)
  <2>1. CASE broker'.state = "up"
    <3>1. Shared!Acquire(e)
      BY <1>1, <1>4, <2>1, BrokerStartedStep, FS_EmptySet DEF Shared!Acquire
    <3>2. QED
      BY <3>1 DEF Shared!Next
  <2>2. CASE broker'.state # "up"
    <3>1. Shared!FailToStart
      BY <1>1, <1>4, <2>2, BrokerStartedStep DEF Shared!FailToStart
    <3>2. QED
      BY <3>1 DEF Shared!Next
  <2>3. QED
    BY <2>1, <2>2
<1>5. CASE ReleaseBroker(e, p)
  <2>1. /\ Cardinality(BrokerUsers') = Cardinality(BrokerUsers) - 1
        /\ broker.refs >= Cardinality(BrokerUsers)
        /\ BrokerUsers' = {} <=> Cardinality(BrokerUsers) = 1
    <3>1. Cardinality(BrokerUsers') = Cardinality(BrokerUsers) - 1 /\ IsFiniteSet(BrokerUsers')
      BY <1>5, ReleaseBrokerStep, UsersFinite, FS_Subset
    <3>2. BrokerUsers' = {} <=> Cardinality(BrokerUsers') = 0
      BY <3>1, FS_EmptySet
    <3>3. QED
      BY <1>1, <3>1, <3>2 DEF IInv, BrokerCounted
  <2>2. Cardinality(BrokerUsers') \in Nat
    BY <1>5, ReleaseBrokerStep, UsersFinite, FS_Subset, FS_CardinalityType
  <2>3. broker'.refs - Cardinality(BrokerUsers') = broker.refs - Cardinality(BrokerUsers)
    BY <1>1, <1>5, <2>1, ReleaseBrokerStep
  <2>4. BrokerUsers' = {} /\ broker.refs - Cardinality(BrokerUsers) = 0 <=> ~(broker.refs > 1)
    BY <1>1, <2>1, <2>2
  <2>5. Shared!Release(e)
    BY <1>5, <2>3, <2>4, ReleaseBrokerStep DEF Shared!Release
  <2>6. QED
    BY <2>5 DEF Shared!Next
<1>6. CASE BrokerStopped(e, p)
  BY <1>1, <1>6, BrokerStoppedStep DEF Shared!vars
<1>7. CASE ConnectRaises(e, p)
  <2>1. Shared!GoAway(e)
    BY <1>1, <1>7, ConnectRaisesStep DEF Shared!GoAway
  <2>2. QED
    BY <2>1 DEF Shared!Next
<1>8. CASE \/ NoBrokerToStop(e, p) \/ HasReference(e, p) \/ StopProxy(e, p)
           \/ ProbeSucceeds(e, p) \/ ProbeFails(e, p) \/ Connects(e, p) \/ ConnectFails(e, p)
           \/ FirstRefresh(e, p) \/ FirstRefreshFails(e, p)
  <2>1. kind' = kind /\ broker' = broker /\ held' = held
    BY <1>8 DEF NoBrokerToStop, HasReference, StopProxy, ProbeSucceeds, ProbeFails, Connects,
                ConnectFails, FirstRefresh, FirstRefreshFails, others
  <2>2. QED
    BY <1>1, <2>1, Unshared
<1>9. CASE JoinProxy(e, p) \/ ProxyStarted(e, p)
  <2>1. Do(p, "create") \/ Do(p, "renew")
    BY <1>9, Holding DEF JoinProxy, Creates, ProxyStarted, IInv, Do
  <2>2. kind[e] = "proxy"
    BY <2>1, Creator
  <2>3. kind' = kind /\ broker' = broker /\ held' = held \union {e}
    BY <1>9 DEF JoinProxy, ProxyStarted
  <2>4. QED
    BY <1>1, <2>2, <2>3, Unshared
<1>10. CASE \/ StartProxy(e, p) \/ ProxyFails(e, p) \/ ReleaseProxy(e, p) \/ ProxyStopped(e, p)
            \/ RemovePrinter(e, p)
  <2>1. kind' = kind /\ broker' = broker /\ (held' = held \/ LetGo(e))
    BY <1>10 DEF StartProxy, ProxyFails, ReleaseProxy, ProxyStopped, RemovePrinter
  <2>2. QED
    BY <1>1, <2>1, Unshared DEF LetGo
<1>11. QED
  BY <1>2, <1>3, <1>4, <1>5, <1>6, <1>7, <1>8, <1>9, <1>10 DEF Step

\* The broker implements a shared resource: it starts with its first user and
\* stops only when no reference is left, whatever setups fail, raise or are
\* unloaded in between (get_instance and release_instance of mqtt/server.py).
THEOREM Refinement == Spec => BrokerIsShared
<1>1. ASSUME Init
      PROVE  Shared!Init
  <2>1. BrokerUsers = {} /\ Cardinality(BrokerUsers) = 0
    BY <1>1, FS_EmptySet DEF Init, BrokerUsers, HasBroker
  <2>2. broker.refs = 0 /\ broker.state = "none"
    BY <1>1 DEF Init, Absent
  <2>3. QED
    BY <2>1, <2>2 DEF Shared!Init
<1>2. ASSUME IInv, [Next]_vars
      PROVE  [Shared!Next]_(Shared!vars)
  <2>1. TypeOK
    BY <1>2 DEF IInv
  <2>2. CASE UNCHANGED vars
    BY <2>1, <2>2, Unshared DEF vars
  <2>3. ASSUME NEW e \in Entries, Setup(e) \/ PollReconnects(e) \/ Unload(e)
        PROVE  UNCHANGED Shared!vars
    BY <2>1, <2>3, Unshared DEF Setup, PollReconnects, Unload, Call
  <2>4. CASE Next
    BY <1>2, <2>3, <2>4, BrokerSteps DEF Next, Calls
  <2>5. QED
    BY <1>2, <2>2, <2>4
<1>3. QED
  BY <1>1, <1>2, Invariance, PTL DEF Spec, BrokerIsShared, Shared!Spec
=============================================================================
