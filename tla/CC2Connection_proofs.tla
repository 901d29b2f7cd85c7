------------------------ MODULE CC2Connection_proofs ------------------------
(***************************************************************************)
(* Proofs about CC2Connection, for any number of attempts, any length of   *)
(* the queue, with and without an access code: a connection that           *)
(* is_connected reports is supervised, and a healthy one is kept.          *)
(***************************************************************************)
EXTENDS CC2Connection, SequenceTheorems, TLAPS

\* Where connect_printer() is inside an attempt, and where a task is inside
\* disconnect().
InAttempt == {"entering", "subscribing", "registering", "attributes", "status", "failed"}
Teardown == {"joinBeat", "joinListener", "closing"}

\* There is one generation of objects at a time: what the client refers to
\* belongs to the latest attempt.
Numbers ==
    /\ client \in {0, attempts}
    /\ listenerTask \in {0, attempts}
    /\ heartbeatTask \in {0, attempts}
    /\ \A p \in Procs : pc[p] \in Teardown => awaiting[p] \in 1..attempts
    /\ pc["connector"] \in InAttempt => attempts > 0
    /\ attempts > 0 => gen > 0

\* There is a password for each attempt that connect_printer() begins.
Budget ==
    /\ pc["connector"] \in Teardown \union {"attempt"} =>
          attempts + Len(passwords) <= MaxAttempts
    /\ pc["connector"] \in InAttempt => attempts + Len(passwords) <= MaxAttempts + 1
    /\ pc["connector"] \in InAttempt \union {"attempt"} => passwords # <<>>

\* No task is alive that disconnect() would not find.
Found(a) ==
    /\ listener[a] \notin {"none", "done"} => listenerTask = a
    /\ beat[a] \notin {"none", "done"} => heartbeatTask = a
    /\ listener[a] = "running" => listenerGen[a] # 0
    /\ a > attempts => listener[a] = "none" /\ listenerGen[a] = 0 /\ beat[a] = "none"
NoStray == \A a \in Attempts : Found(a)

\* connect_printer() begins an attempt with nothing left of the one before.
CleanStart ==
    /\ pc["connector"] \in {"closing", "attempt", "entering", "subscribing"} =>
           listenerTask = 0 /\ heartbeatTask = 0
    /\ pc["connector"] \in {"joinListener", "registering", "failed"} => heartbeatTask = 0
    /\ pc["connector"] \in {"attempt", "entering", "subscribing"} => ~connected
    /\ pc["connector"] \in {"attempt", "entering", "subscribing", "registering",
          "failed"} =>
           ~registered
    /\ pc["connector"] \in {"entering", "subscribing"} => listener[attempts] = "none"
    /\ pc["connector"] \in {"entering", "subscribing", "registering"} =>
          beat[attempts] = "none"

\* What a task joins has been cancelled.
Target(p) ==
    /\ pc[p] = "joinBeat" => beat[awaiting[p]] \in {"cancelled", "done"}
    /\ pc[p] = "joinListener" => listener[awaiting[p]] \in {"cancelled", "done"}
Targets == \A p \in Procs : Target(p)

\* Task p has joined what it cancelled and waits for its turn.
Joined(p) ==
    \/ pc[p] = "joinBeat" /\ beat[awaiting[p]] = "done"
    \/ pc[p] = "joinListener" /\ listener[awaiting[p]] = "done"

\* A task that joins the listener or the heartbeat of an earlier attempt gets
\* its turn before connect_printer() goes on: when it resumes and clears the
\* reference, there is no new task yet that the reference could stand for.
Turn ==
    \A p \in Procs :
        pc[p] \in {"joinBeat", "joinListener"} /\ awaiting[p] # attempts =>
            /\ pc["connector"] = "entering"
            /\ Joined(p)
            /\ <<<<p, 0>>, <<"connector", 0>>>> \in passed

\* Unless somebody is inside disconnect(), nobody has called it since the
\* attempt that made the client.
Watched ==
    client # 0 /\ ~Disconnecting =>
        /\ listenerGen[client] \in {0, gen}
        /\ connected => listenerTask = client /\ listener[client] \in {"created", "running"}
        /\ connected /\ registered => heartbeatTask = client /\ beat[client] = "running"

\* All of it except whose turn it is.
Core == TypeOK /\ Numbers /\ Budget /\ NoStray /\ CleanStart /\ Targets /\ Watched

\* A heartbeat pings on the client of its own attempt.
OwnPings == \A x \in publishing : x[1] \in {0, x[2]}

IInv == Core /\ Turn /\ OwnPings

\* The part of the type that does not depend on what the step does to the rest.
PassedOK ==
    /\ passed \subseteq TaskNames \X TaskNames
    /\ publishing \subseteq (0..MaxAttempts) \X Attempts

\* Where a task may be suspended.
Places == {"idle", "scheduled", "joinBeat", "joinListener", "closing", "attempt",
"entering",
           "subscribing", "registering", "attributes", "status", "failed", "done"}

LEMMA Suspends ==
    ASSUME TypeOK, NEW p \in Procs, NEW where \in Places, NEW a \in 0..MaxAttempts,
           Suspend(p, where, a)
    PROVE  /\ pc' \in [Procs -> Places] /\ awaiting' \in [Procs -> 0..MaxAttempts]
           /\ pc'[p] = where /\ awaiting'[p] = a
           /\ \A q \in Procs \ {p} : pc'[q] = pc[q] /\ awaiting'[q] = awaiting[q]
BY DEF TypeOK, Suspend, Places

Codes == {"user", "empty", "default"}
LEMMA NoCode == <<>> \in Seq(Codes) /\ Len(<<>>) = 0
OBVIOUS

LEMMA NextCode ==
    ASSUME NEW q \in Seq(Codes), q # <<>>
    PROVE  /\ Head(q) \in Codes /\ Tail(q) \in Seq(Codes)
           /\ Len(q) \in Nat \ {0} /\ Len(Tail(q)) = Len(q) - 1
OBVIOUS

LEMMA Empty ==
    ASSUME NEW q \in Seq(Codes)
    PROVE  q = <<>> <=> Len(q) = 0
OBVIOUS

\* What a task inside disconnect() may change beside the flags and the tasks it
\* tears down.
TearsDown(p, next) ==
    /\ UNCHANGED <<accessCode, regResult, listenerGen, attempts>>
    /\ gen' \in {gen, gen + 1}
    /\ link' \in [Attempts -> Links]
    /\ delayTask' \in {"none", "sleeping", "finished"}
    /\ authFailure' \in BOOLEAN
    /\ passwords' \in Seq(Codes)
    /\ IF p = "connector"
       THEN attempts + Len(passwords') <= MaxAttempts /\ (next = "attempt" =>
           passwords' # <<>>)
       ELSE UNCHANGED passwords /\ next # "attempt"

\* Its reference to a task is cleared only when the task is over.
Clears ==
    /\ listenerTask' \in {0, listenerTask} /\ heartbeatTask' \in {0, heartbeatTask}
    /\ \A a \in Attempts : listener[a] \notin {"none", "done"} => listenerTask' = a
    /\ \A a \in Attempts : beat[a] \notin {"none", "done"} => heartbeatTask' = a

\* connect_printer fails between entering the client and the registration.
LEMMA FailedStep ==
    ASSUME IInv, PassedOK', pc["connector"] \in {"entering", "subscribing", "registering"},
           NEW auth_ \in BOOLEAN, Fail(auth_), regResult' \in {"none", "ok", "rejected"},
           link' \in [Attempts -> Links],
           UNCHANGED <<gen, flags, tasks, queue, accessCode, passwords, listener,
           listenerGen, beat, attempts>>
    PROVE  Core'
<1>1. TypeOK'
  BY ConstantsAssumption DEF IInv, Core, TypeOK, Procs, PassedOK, Fail, Suspend, flags,
     tasks
<1>2. Numbers'
  BY DEF IInv, Core, Numbers, InAttempt, Teardown, Fail, Suspend, flags, tasks
<1>3. Budget'
  BY DEF IInv, Core, Budget, InAttempt, Teardown, Fail, Suspend
<1>4. NoStray'
  BY DEF IInv, Core, NoStray, Found, tasks
<1>5. CleanStart'
  BY DEF IInv, Core, CleanStart, Fail, Suspend, flags, tasks
<1>6. Targets'
  BY DEF IInv, Core, Targets, Target, Fail, Suspend
<1>7. Watched'
  BY DEF IInv, Core, Watched, Disconnecting, Fail, Suspend, flags, tasks
<1>8. QED
  BY <1>1, <1>2, <1>3, <1>4, <1>5, <1>6, <1>7 DEF Core

\* connect_printer starts the listener of its attempt, or fails.
LEMMA ListeningStep ==
    ASSUME IInv, PassedOK', pc["connector"] \in {"entering", "subscribing"},
           StartListening, link' \in [Attempts -> Links],
           UNCHANGED <<gen, client, registered, heartbeatTask, delayTask, queue,
                       accessCode, passwords, listenerGen, beat, attempts>>
    PROVE  Core'
<1>1. TypeOK'
  <2>1. /\ attempts \in 1..MaxAttempts /\ "connector" \in Procs
        /\ MaxAttempts \in Nat
        /\ passwords \in Seq({"user", "empty", "default"}) /\ passwords # <<>>
    BY ConstantsAssumption DEF IInv, Core, TypeOK, Numbers, Budget, InAttempt, Procs
  <2>2. PICK where \in Places, a \in 0..MaxAttempts : Suspend("connector", where, a)
    <3>1. 0 \in 0..MaxAttempts /\ attempts \in 0..MaxAttempts
      BY <2>1
    <3>2. QED
      BY <3>1 DEF Places, StartListening, Fail
  <2>3. pc' \in [Procs -> Places] /\ awaiting' \in [Procs -> 0..MaxAttempts]
    BY <2>1, <2>2, Suspends DEF IInv, Core
  <2>4. listener' \in [Attempts -> {"none", "created", "running", "cancelled", "done"}]
        /\ connected' \in BOOLEAN /\ authFailure' \in BOOLEAN
              /\ listenerTask' \in 0..MaxAttempts
        /\ regResult' \in {"none", "ok", "rejected"}
    BY <2>1 DEF IInv, Core, TypeOK, Attempts, StartListening, Fail
  <2>5. /\ gen' \in Nat /\ client' \in 0..MaxAttempts /\ registered' \in BOOLEAN
        /\ accessCode' \in {"none", "user", "empty", "default"}
        /\ heartbeatTask' \in 0..MaxAttempts /\ queue' \in 0..MaxQueue
        /\ delayTask' \in {"none", "sleeping", "finished"}
    BY DEF IInv, Core, TypeOK
  <2>6. /\ passwords' \in Seq(Codes) /\ listenerGen' \in [Attempts -> Nat]
        /\ beat' \in [Attempts -> {"none", "running", "cancelled", "done"}]
        /\ attempts' \in 0..MaxAttempts
    BY DEF IInv, Core, TypeOK, Codes
  <2>7. /\ passed' \subseteq TaskNames \X TaskNames
        /\ publishing' \subseteq (0..MaxAttempts) \X Attempts
    BY DEF PassedOK
  <2>8. QED
    BY ZenonT(40), <2>3, <2>4, <2>5, <2>6, <2>7 DEF TypeOK, Places, Codes
<1>2. Numbers'
  BY DEF IInv, Core, TypeOK, Numbers, InAttempt, Teardown, StartListening, Fail, Suspend
<1>3. Budget'
  BY DEF IInv, Core, TypeOK, Procs, Budget, InAttempt, Teardown, StartListening, Fail,
     Suspend
<1>4. NoStray'
  BY DEF IInv, Core, Numbers, Attempts, NoStray, Found, Targets, StartListening
<1>5. CleanStart'
  BY DEF IInv, Core, TypeOK, Procs, CleanStart, StartListening, Fail, Suspend
<1>6. Targets'
  BY DEF IInv, Core, TypeOK, Procs, Targets, Target, CleanStart, StartListening, Fail,
     Suspend
<1>7. Watched'
  BY DEF IInv, Core, TypeOK, Numbers, Attempts, Watched, Disconnecting, CleanStart,
     StartListening, Suspend
<1>8. QED
  BY <1>1, <1>2, <1>3, <1>4, <1>5, <1>6, <1>7 DEF Core

\* The registration is accepted: heartbeat and requests follow.
LEMMA AcceptedStep ==
    ASSUME IInv, PassedOK', pc["connector"] = "registering",
           NEW where \in {"attributes", "idle"}, NEW by \in 0..MaxAttempts,
           Suspend("connector", where, by),
           registered' = TRUE, delayTask' = "none", heartbeatTask' = attempts,
           beat' = [beat EXCEPT ![attempts] = "running"], regResult' = "none",
           passwords' \in Seq({"user", "empty", "default"}), where = "attributes" =>
           passwords' = passwords,
           UNCHANGED <<gen, client, connected, listenerTask, queue, authFailure,
           accessCode, link,
                       listener, listenerGen, attempts>>
    PROVE  Core'
<1>1. TypeOK'
  BY DEF IInv, Core, TypeOK, PassedOK, Suspend
<1>2. Numbers'
  BY DEF IInv, Core, Numbers, InAttempt, Teardown, Suspend
<1>3. Budget'
  BY DEF IInv, Core, TypeOK, Procs, Budget, InAttempt, Teardown, Suspend
<1>4. NoStray'
  BY DEF IInv, Core, Numbers, Attempts, NoStray, Found
<1>5. CleanStart'
  BY DEF IInv, Core, TypeOK, Procs, CleanStart, Suspend
<1>6. Targets'
  BY DEF IInv, Core, Targets, Target, NoStray, Found, CleanStart, Suspend
<1>7. Watched'
  BY DEF IInv, Core, TypeOK, Numbers, Attempts, Watched, Disconnecting, Suspend
<1>8. QED
  BY <1>1, <1>2, <1>3, <1>4, <1>5, <1>6, <1>7 DEF Core

\* The first attributes came; the heartbeat has been started.
LEMMA AttributesDoneStep ==
    ASSUME IInv, PassedOK', AttributesDone
    PROVE  Core'
<1>1. TypeOK'
  <2>1. /\ attempts \in 1..MaxAttempts /\ "connector" \in Procs
        /\ MaxAttempts \in Nat
        /\ passwords \in Seq({"user", "empty", "default"}) /\ passwords # <<>>
    BY ConstantsAssumption DEF IInv, Core, TypeOK, Numbers, Budget, InAttempt, Procs,
       AttributesDone
  <2>2. PICK where \in Places, a \in 0..MaxAttempts : Suspend("connector", where, a)
    <3>1. 0 \in 0..MaxAttempts /\ attempts \in 0..MaxAttempts
      BY <2>1
    <3>2. QED
      BY <3>1 DEF Places, AttributesDone
  <2>3. pc' \in [Procs -> Places] /\ awaiting' \in [Procs -> 0..MaxAttempts]
    BY <2>1, <2>2, Suspends DEF IInv, Core
  <2>4. passwords' \in Seq({"user", "empty", "default"})
    BY <2>1, NoCode DEF Codes, AttributesDone
  <2>5. QED
    BY <2>3, <2>4 DEF IInv, Core, TypeOK, PassedOK, Places, AttributesDone, flags, tasks,
       peers
<1>2. Numbers'
  BY ConstantsAssumption DEF IInv, Core, TypeOK, Numbers, Procs, Attempts, InAttempt,
     Teardown, AttributesDone, IsConnected, Suspend, flags, tasks, peers
<1>3. Budget'
  BY DEF IInv, Core, TypeOK, Procs, Budget, InAttempt, Teardown, AttributesDone, Suspend
<1>4. NoStray'
  BY DEF IInv, Core, NoStray, Found, AttributesDone, tasks, peers
<1>5. CleanStart'
  BY SMTT(30), ConstantsAssumption DEF IInv, Core, TypeOK, Numbers, Procs, Attempts, CleanStart,
     NoStray, Found, Targets, Target, AttributesDone, IsConnected, Suspend, flags, tasks,
     peers
<1>6. Targets'
  <2>1. \A q \in Procs \ {"connector"} : pc'[q] = pc[q] /\ awaiting'[q] = awaiting[q]
    BY DEF IInv, Core, TypeOK, Procs, AttributesDone, Suspend, peers
  <2>2. pc'["connector"] \notin {"joinBeat", "joinListener"}
    BY DEF IInv, Core, TypeOK, Procs, AttributesDone, Suspend, peers
  <2>3. ASSUME NEW q \in Procs \ {"connector"} PROVE Target(q)'
    BY <2>1, <2>3 DEF IInv, Core, TypeOK, Numbers, Teardown, Targets, Target, CleanStart,
       AttributesDone, Suspend, peers
  <2>4. QED
    BY <2>2, <2>3 DEF Targets, Target
<1>7. Watched'
  BY DEF IInv, Core, TypeOK, Watched, Disconnecting, AttributesDone, Suspend, flags, tasks,
     peers
<1>8. QED
  BY <1>1, <1>2, <1>3, <1>4, <1>5, <1>6, <1>7 DEF Core

\* connect_printer returns with what it asked for.
LEMMA InitialDataDoneStep ==
    ASSUME IInv, PassedOK', InitialDataDone
    PROVE  Core'
<1>1. TypeOK'
  <2>1. /\ attempts \in 1..MaxAttempts /\ "connector" \in Procs
        /\ MaxAttempts \in Nat
        /\ passwords \in Seq({"user", "empty", "default"}) /\ passwords # <<>>
    BY ConstantsAssumption DEF IInv, Core, TypeOK, Numbers, Budget, InAttempt, Procs,
       InitialDataDone
  <2>2. PICK where \in Places, a \in 0..MaxAttempts : Suspend("connector", where, a)
    <3>1. 0 \in 0..MaxAttempts /\ attempts \in 0..MaxAttempts
      BY <2>1
    <3>2. QED
      BY <3>1 DEF Places, InitialDataDone, Succeed
  <2>3. pc' \in [Procs -> Places] /\ awaiting' \in [Procs -> 0..MaxAttempts]
    BY <2>1, <2>2, Suspends DEF IInv, Core
  <2>4. /\ passwords' \in Seq({"user", "empty", "default"}) /\ connected' \in BOOLEAN
        /\ accessCode' \in {"none", "user", "empty", "default"}
    BY <2>1, NoCode, NextCode DEF Codes, IInv, Core, TypeOK, InitialDataDone, Succeed
  <2>5. QED
    BY <2>3, <2>4 DEF IInv, Core, TypeOK, PassedOK, Places, InitialDataDone, flags, tasks,
       peers
<1>2. Numbers'
  BY DEF IInv, Core, Numbers, InAttempt, Teardown, InitialDataDone, Succeed, Suspend, tasks
<1>3. Budget'
  BY DEF IInv, Core, TypeOK, Procs, Budget, InAttempt, InitialDataDone, Succeed, Suspend
<1>4. NoStray'
  BY DEF IInv, Core, NoStray, Found, InitialDataDone, tasks, peers
<1>5. CleanStart'
  BY DEF CleanStart, InitialDataDone, Succeed, Suspend
<1>6. Targets'
  BY DEF IInv, Core, Targets, Target, InitialDataDone, Succeed, Suspend, peers
<1>7. Watched'
  BY DEF IInv, Core, Watched, Disconnecting, InitialDataDone, Succeed, Suspend, tasks, peers
<1>8. QED
  BY <1>1, <1>2, <1>3, <1>4, <1>5, <1>6, <1>7 DEF Core

\* A listener runs for the first time.
LEMMA ListenerStartsStep ==
    ASSUME IInv, PassedOK', NEW a \in Attempts, ListenerStarts(a)
    PROVE  Core'
<1>1. a = attempts /\ listenerTask = a /\ a \in Nat \ {0} /\ gen \in Nat \ {0}
      /\ listener[a] = "created" 
  <2>1. listener[a] = "created" /\ listenerTask = a
    BY DEF IInv, Core, NoStray, Found, ListenerStarts
  <2>2. a \in Nat \ {0} /\ listenerTask \in {0, attempts} /\ gen \in Nat
          /\ (attempts > 0 => gen > 0)
    BY ConstantsAssumption DEF IInv, Core, TypeOK, Numbers, Attempts
  <2>3. QED
    BY <2>1, <2>2
<1>2. /\ listener' \in [Attempts -> {"none", "created", "running", "cancelled", "done"}]
      /\ listenerGen' \in [Attempts -> Nat]
      /\ listener'[a] \in {"running", "done"} /\ (listener'[a] = "running" =>
            listenerGen'[a] # 0)
      /\ \A b \in Attempts \ {a} : listener'[b] = listener[b]
            /\ listenerGen'[b] = listenerGen[b]
  BY <1>1 DEF IInv, Core, TypeOK, ListenerStarts
<1>3. TypeOK'
  BY <1>1 DEF IInv, Core, TypeOK, PassedOK, ListenerStarts, flags, tasks, auth, control
<1>4. Numbers'
  BY DEF IInv, Core, Numbers, ListenerStarts, flags, tasks, control
<1>5. Budget'
  BY DEF IInv, Core, Budget, ListenerStarts, auth, control
<1>6. NoStray'
  <2>1. ASSUME NEW b \in Attempts PROVE Found(b)'
    <3>1. Found(b) /\ UNCHANGED <<attempts, listenerTask, heartbeatTask, beat>>
      BY DEF IInv, Core, NoStray, ListenerStarts, tasks, control
    <3>2. CASE b = a
      BY <1>1, <1>2, <3>1, <3>2 DEF Found
    <3>3. CASE b # a
      BY <1>1, <1>2, <3>1, <3>3 DEF Found
    <3>4. QED
      BY <3>2, <3>3
  <2>2. QED
    BY <2>1 DEF NoStray
<1>7. CleanStart'
  BY <1>1 DEF IInv, Core, CleanStart, ListenerStarts, flags, tasks, control
<1>8. Targets'
  <2>1. ASSUME NEW q \in Procs PROVE Target(q)'
    <3>1. Target(q) /\ UNCHANGED <<pc, awaiting, beat>>
      BY DEF IInv, Core, Targets, ListenerStarts, control
    <3>2. pc[q] = "joinListener" => awaiting[q] \in Attempts /\ awaiting[q] # a
      BY <1>1, <3>1, ConstantsAssumption DEF Target, IInv, Core, TypeOK, Numbers, Teardown,
         Attempts
    <3>3. QED
      BY <1>2, <3>1, <3>2 DEF Target
  <2>2. QED
    BY <2>1 DEF Targets
<1>9. Watched'
  BY <1>1, <1>2 DEF IInv, Core, Numbers, Watched, Disconnecting, ListenerStarts, flags,
     tasks, control
<1>10. QED
  BY <1>3, <1>4, <1>5, <1>6, <1>7, <1>8, <1>9 DEF Core

\* A running or cancelled listener ends.
LEMMA ListenerEndsStep ==
    ASSUME IInv, PassedOK', NEW a \in Attempts, listener[a] \in {"running", "cancelled"},
           ListenerEnds(a)
    PROVE  Core'
<1>1. TypeOK'
  BY DEF IInv, Core, TypeOK, PassedOK, ListenerEnds, auth, control
<1>2. Numbers'
  BY DEF IInv, Core, Numbers, ListenerEnds, control
<1>3. Budget'
  BY DEF IInv, Core, Budget, ListenerEnds, auth, control
<1>4. NoStray'
  BY DEF IInv, Core, NoStray, Found, ListenerEnds, control
<1>5. CleanStart'
  BY DEF IInv, Core, CleanStart, ListenerEnds, control
<1>6. Targets'
  BY DEF IInv, Core, Targets, Target, ListenerEnds, control
<1>7. Watched'
  BY DEF IInv, Core, Watched, Disconnecting, NoStray, Found, ListenerEnds, control
<1>8. QED
  BY <1>1, <1>2, <1>3, <1>4, <1>5, <1>6, <1>7 DEF Core

\* A listener is cancelled before it ran.
LEMMA ListenerNeverRanStep ==
    ASSUME IInv, PassedOK', NEW a \in Attempts, listener[a] = "cancelled",
           listener' = [listener EXCEPT ![a] = "done"],
           UNCHANGED <<gen, flags, tasks, queue, regResult, auth, link, listenerGen, beat,
           control>>
    PROVE  Core'
<1>1. TypeOK'
  BY DEF IInv, Core, TypeOK, PassedOK, flags, tasks, auth, control
<1>2. Numbers'
  BY DEF IInv, Core, Numbers, flags, tasks, control
<1>3. Budget'
  BY DEF IInv, Core, Budget, auth, control
<1>4. NoStray'
  BY DEF IInv, Core, NoStray, Found, tasks, control
<1>5. CleanStart'
  BY DEF IInv, Core, CleanStart, flags, tasks, control
<1>6. Targets'
  BY DEF IInv, Core, Targets, Target, control
<1>7. Watched'
  BY DEF IInv, Core, Watched, Disconnecting, NoStray, Found, flags, control
<1>8. QED
  BY <1>1, <1>2, <1>3, <1>4, <1>5, <1>6, <1>7 DEF Core

\* A heartbeat gives the connection up.
LEMMA HeartbeatFailsStep ==
    ASSUME IInv, PassedOK', NEW a \in Attempts, HeartbeatFails(a)
    PROVE  Core'
<1>1. pc' \in [Procs -> Places] /\ awaiting' \in [Procs -> 0..MaxAttempts]
  <2>1. "cleanup" \in Procs /\ "scheduled" \in Places /\ 0 \in 0..MaxAttempts
    BY ConstantsAssumption DEF Procs, Places
  <2>2. QED
    BY <2>1, Suspends DEF HeartbeatFails, GiveUp, IInv, Core
<1>2. TypeOK'
  BY <1>1 DEF IInv, Core, TypeOK, PassedOK, Places, HeartbeatFails, GiveUp, tasks, auth
<1>3. Numbers'
  BY DEF IInv, Core, Numbers, Teardown, HeartbeatFails, GiveUp, Suspend, tasks
<1>4. Budget'
  BY DEF IInv, Core, Budget, HeartbeatFails, GiveUp, Suspend, auth
<1>5. NoStray'
  BY DEF IInv, Core, NoStray, Found, HeartbeatFails, GiveUp, Suspend, tasks
<1>6. CleanStart'
  BY DEF IInv, Core, Attempts, CleanStart, NoStray, Found, Targets, HeartbeatFails, GiveUp, Suspend
<1>7. Targets'
  BY DEF IInv, Core, Targets, Target, HeartbeatFails, GiveUp, Suspend
<1>8. Watched'
  BY DEF IInv, Core, Watched, Disconnecting, HeartbeatFails, GiveUp, Suspend
<1>9. QED
  BY <1>2, <1>3, <1>4, <1>5, <1>6, <1>7, <1>8 DEF Core

\* A heartbeat ends.
LEMMA HeartbeatEndsStep ==
    ASSUME IInv, PassedOK', NEW a \in Attempts, HeartbeatEnds(a)
    PROVE  Core'
<1>1. TypeOK'
  BY DEF IInv, Core, TypeOK, PassedOK, HeartbeatEnds, flags, tasks, auth
<1>2. Numbers'
  BY DEF IInv, Core, Numbers, HeartbeatEnds, flags, tasks
<1>3. Budget'
  BY DEF IInv, Core, Budget, HeartbeatEnds, auth
<1>4. NoStray'
  BY DEF IInv, Core, NoStray, Found, HeartbeatEnds, tasks
<1>5. CleanStart'
  BY DEF IInv, Core, Attempts, CleanStart, NoStray, Found, Targets, Target, HeartbeatEnds
<1>6. Targets'
  BY DEF IInv, Core, Targets, Target, HeartbeatEnds
<1>7. Watched'
  BY DEF IInv, Core, Watched, Disconnecting, HeartbeatEnds, flags, tasks
<1>8. QED
  BY <1>1, <1>2, <1>3, <1>4, <1>5, <1>6, <1>7 DEF Core

\* A command that fails gives the connection up.
LEMMA CommandFailsStep ==
    ASSUME IInv, PassedOK', NEW a \in Attempts, CommandFails(a)
    PROVE  Core'
<1>1. TypeOK'
  BY DEF IInv, Core, TypeOK, PassedOK, Links, CommandFails, tasks, auth, peers
<1>2. Numbers'
  BY DEF IInv, Core, Numbers, CommandFails, tasks
<1>3. Budget'
  BY DEF IInv, Core, Budget, CommandFails, auth
<1>4. NoStray'
  BY DEF IInv, Core, NoStray, Found, CommandFails, tasks, peers
<1>5. CleanStart'
  BY DEF IInv, Core, CleanStart, CommandFails, tasks, peers
<1>6. Targets'
  BY DEF IInv, Core, Targets, Target, CommandFails, peers
<1>7. Watched'
  BY DEF IInv, Core, Watched, Disconnecting, CommandFails, peers
<1>8. QED
  BY <1>1, <1>2, <1>3, <1>4, <1>5, <1>6, <1>7 DEF Core

\* Messages, publishes, polls and timers leave what Core speaks of alone.
LEMMA QuietStep ==
    ASSUME IInv, PassedOK', queue' \in 0..MaxQueue, link' \in [Attempts -> Links],
           regResult' \in {"none", "ok", "rejected"},
           delayTask' \in {"none", "sleeping", "finished"},
           UNCHANGED <<gen, flags, listenerTask, heartbeatTask, auth, listener,
           listenerGen, beat, pc, awaiting, attempts>>
    PROVE  Core'
<1>1. TypeOK'
  BY DEF IInv, Core, TypeOK, PassedOK, flags, auth
<1>2. Numbers'
  BY DEF IInv, Core, Numbers, flags
<1>3. Budget'
  BY DEF IInv, Core, Budget, auth
<1>4. NoStray'
  BY DEF IInv, Core, NoStray, Found
<1>5. CleanStart'
  BY DEF IInv, Core, CleanStart, flags
<1>6. Targets'
  BY DEF IInv, Core, Targets, Target
<1>7. Watched'
  BY DEF IInv, Core, Watched, Disconnecting, flags
<1>8. QED
  BY <1>1, <1>2, <1>3, <1>4, <1>5, <1>6, <1>7 DEF Core

\* connect_printer begins an attempt.
LEMMA AttemptStartStep ==
    ASSUME IInv, PassedOK', AttemptStart
    PROVE  Core'
<1>1. /\ attempts \in 0..MaxAttempts /\ attempts + 1 \in 1..MaxAttempts
        /\ MaxAttempts \in Nat
      /\ pc["connector"] = "attempt" /\ passwords # <<>> /\ passwords \in Seq(Codes)
      /\ listenerTask = 0 /\ heartbeatTask = 0 /\ ~connected /\ ~registered
  <2>1. attempts \in 0..MaxAttempts /\ MaxAttempts \in Nat /\ passwords \in Seq(Codes)
        /\ pc["connector"] = "attempt"
    BY ConstantsAssumption DEF IInv, Core, TypeOK, AttemptStart, Codes
  <2>2. passwords # <<>> /\ attempts + Len(passwords) <= MaxAttempts
    BY <2>1 DEF IInv, Core, Budget
  <2>3. Len(passwords) \in Nat \ {0}
    BY <2>1, <2>2, NextCode
  <2>4. QED
    BY <2>1, <2>2, <2>3 DEF IInv, Core, CleanStart
<1>2. /\ pc' \in [Procs -> Places] /\ awaiting' \in [Procs -> 0..MaxAttempts]
      /\ pc'["connector"] = "entering" /\ awaiting'["connector"] = attempts + 1
      /\ \A q \in Procs \ {"connector"} : pc'[q] = pc[q] /\ awaiting'[q] = awaiting[q]
      /\ attempts' = attempts + 1 /\ gen' = gen + 1 /\ client' = attempts + 1
  <2>1. "connector" \in Procs /\ "entering" \in Places /\ attempts' \in 0..MaxAttempts
    BY <1>1 DEF Procs, Places, AttemptStart
  <2>2. Suspend("connector", "entering", attempts')
    BY DEF AttemptStart
  <2>3. QED
    BY <1>1, <2>1, <2>2, Suspends DEF AttemptStart, IInv, Core
<1>3. TypeOK'
  BY <1>1 DEF IInv, Core, TypeOK, Procs, Attempts, PassedOK, Links, AttemptStart, Suspend,
     tasks, auth
<1>4. Numbers'
  BY <1>1, <1>2 DEF IInv, Core, TypeOK, Numbers, Procs, AttemptStart, tasks
<1>5. Budget'
  BY <1>1, <1>2 DEF IInv, Core, Budget, Teardown, AttemptStart, auth
<1>6. NoStray'
  BY <1>1 DEF IInv, Core, Attempts, NoStray, Found, AttemptStart
<1>7. CleanStart'
  BY <1>1 DEF IInv, Core, Attempts, CleanStart, NoStray, Found, AttemptStart, tasks
<1>8. Targets'
  BY <1>2 DEF IInv, Core, Targets, Target, AttemptStart
<1>9. Watched'
  BY <1>1 DEF IInv, Core, Attempts, Watched, NoStray, Found, AttemptStart
<1>10. QED
  BY <1>3, <1>4, <1>5, <1>6, <1>7, <1>8, <1>9 DEF Core

\* disconnect() comes to its end.
LEMMA ClosedStep ==
    ASSUME IInv, PassedOK', NEW p \in Procs, NEW next \in {"idle", "attempt", "done"},
           TearsDown(p, next), Clears,
           p = "connector" => listenerTask' = 0 /\ heartbeatTask' = 0,
           Closed(p, next), UNCHANGED <<listener, beat>>
    PROVE  Core'
<1>1. /\ attempts \in 0..MaxAttempts /\ attempts' = attempts /\ MaxAttempts \in Nat
      /\ pc' \in [Procs -> Places] /\ awaiting' \in [Procs -> 0..MaxAttempts]
      /\ pc'[p] = next /\ awaiting'[p] = 0
      /\ \A q \in Procs \ {p} : pc'[q] = pc[q] /\ awaiting'[q] = awaiting[q]
  <2>1. /\ attempts \in 0..MaxAttempts /\ MaxAttempts \in Nat /\ 0 \in 0..MaxAttempts
        /\ next \in Places
    BY ConstantsAssumption DEF IInv, Core, TypeOK, Places
  <2>2. QED
    BY <2>1, Suspends DEF IInv, Core, TearsDown, Closed
<1>2. TypeOK'
  <2>1. client' \in 0..MaxAttempts /\ connected' \in BOOLEAN /\ registered' \in BOOLEAN
        /\ queue' \in 0..MaxQueue
    <3>1. 0 \in 0..MaxAttempts /\ 0 \in 0..MaxQueue
      BY ConstantsAssumption
    <3>2. QED
      BY <3>1 DEF Closed
  <2>2. listenerTask' \in 0..MaxAttempts /\ heartbeatTask' \in 0..MaxAttempts
    BY <1>1 DEF IInv, Core, TypeOK, Clears
  <2>3. QED
    BY <1>1, <2>1, <2>2 DEF IInv, Core, TypeOK, PassedOK, Codes, Places, TearsDown
<1>3. Numbers'
  BY ConstantsAssumption DEF IInv, Core, TypeOK, Numbers, InAttempt, Teardown, Closed,
     Suspend, TearsDown, Clears
<1>4. Budget'
  BY <1>1 DEF IInv, Core, Procs, Budget, InAttempt, TearsDown
<1>5. NoStray'
  BY DEF IInv, Core, NoStray, Found, Closed, Suspend, TearsDown, Clears
<1>6. CleanStart'
  BY <1>1 DEF IInv, Core, Procs, CleanStart, Closed, Clears
<1>7. Targets'
  BY <1>1 DEF IInv, Core, Targets, Target, CleanStart
<1>8. Watched'
  BY DEF Watched, Closed
<1>9. QED
  BY <1>2, <1>3, <1>4, <1>5, <1>6, <1>7, <1>8 DEF Core

\* disconnect() goes on to close the transport.
LEMMA ClosingStep ==
    ASSUME IInv, PassedOK', NEW p \in Procs, NEW next, TearsDown(p, next), Clears,
           p = "connector" => listenerTask' = 0 /\ heartbeatTask' = 0,
           client # 0, Suspend(p, "closing", client), UNCHANGED <<flags, queue, listener,
           beat>>
    PROVE  Core'
<1>1. /\ attempts \in 0..MaxAttempts /\ attempts' = attempts /\ MaxAttempts \in Nat
      /\ pc' \in [Procs -> Places] /\ awaiting' \in [Procs -> 0..MaxAttempts]
      /\ pc'[p] = "closing" /\ awaiting'[p] = client
      /\ \A q \in Procs \ {p} : pc'[q] = pc[q] /\ awaiting'[q] = awaiting[q]
  <2>1. /\ attempts \in 0..MaxAttempts /\ MaxAttempts \in Nat /\ client \in 0..MaxAttempts
        /\ "closing" \in Places
    BY ConstantsAssumption DEF IInv, Core, TypeOK, Places
  <2>2. QED
    BY <2>1, Suspends DEF IInv, Core, TearsDown
<1>2. TypeOK'
  BY SMTT(30), ConstantsAssumption, <1>1 DEF IInv, Core, TypeOK, Numbers, Procs, Attempts, PassedOK,
     Links, Codes, Places, Suspend, TearsDown, Clears, flags
<1>3. Numbers'
  BY ConstantsAssumption DEF IInv, Core, TypeOK, Numbers, Suspend, TearsDown, Clears, flags
<1>4. Budget'
  BY <1>1 DEF IInv, Core, Procs, Budget, InAttempt, TearsDown
<1>5. NoStray'
  BY DEF IInv, Core, NoStray, Found, Suspend, TearsDown, Clears
<1>6. CleanStart'
  BY <1>1 DEF IInv, Core, Procs, CleanStart, Clears, flags
<1>7. Targets'
  BY <1>1 DEF IInv, Core, Targets, Target, flags
<1>8. Watched'
  BY <1>1 DEF Watched, Disconnecting
<1>9. QED
  BY <1>2, <1>3, <1>4, <1>5, <1>6, <1>7, <1>8 DEF Core

\* disconnect() cancels the listener and waits for it.
LEMMA JoinListenerStep ==
    ASSUME IInv, PassedOK', NEW p \in Procs, NEW next, TearsDown(p, next), Clears,
           p = "connector" => heartbeatTask' = 0,
           listenerTask # 0, listener' = [listener EXCEPT ![listenerTask] = "cancelled"],
           Suspend(p, "joinListener", listenerTask), UNCHANGED <<listenerTask, flags,
           queue, beat>>
    PROVE  Core'
<1>1. /\ attempts \in 0..MaxAttempts /\ attempts' = attempts /\ MaxAttempts \in Nat
      /\ pc' \in [Procs -> Places] /\ awaiting' \in [Procs -> 0..MaxAttempts]
      /\ pc'[p] = "joinListener" /\ awaiting'[p] = listenerTask
      /\ \A q \in Procs \ {p} : pc'[q] = pc[q] /\ awaiting'[q] = awaiting[q]
  <2>1. /\ attempts \in 0..MaxAttempts /\ MaxAttempts \in Nat
          /\ listenerTask \in 0..MaxAttempts
        /\ "joinListener" \in Places
    BY ConstantsAssumption DEF IInv, Core, TypeOK, Places
  <2>2. QED
    BY <2>1, Suspends DEF IInv, Core, TearsDown
<1>2. TypeOK'
  BY SMTT(30), ConstantsAssumption, <1>1 DEF IInv, Core, TypeOK, Numbers, Procs, Attempts, PassedOK,
     Links, Codes, Places, Suspend, TearsDown, Clears, flags
<1>3. Numbers'
  BY DEF IInv, Core, TypeOK, Numbers, Suspend, TearsDown, Clears, flags
<1>4. Budget'
  BY <1>1 DEF IInv, Core, Procs, Budget, InAttempt, TearsDown
<1>5. NoStray'
  BY SMTT(30), ConstantsAssumption, <1>1 DEF IInv, Core, TypeOK, Numbers, Procs, Attempts, NoStray,
     Found, CleanStart, Turn, Targets, Target, Suspend, TearsDown, Clears, flags
<1>6. CleanStart'
  BY <1>1 DEF IInv, Core, Procs, CleanStart, Clears, flags
<1>7. Targets'
  <2>1. listener \in [Attempts -> {"none", "created", "running", "cancelled", "done"}]
        /\ listenerTask \in Attempts
    BY <1>1 DEF IInv, Core, TypeOK, Attempts
  <2>2. QED
    BY <1>1, <2>1 DEF IInv, Core, Targets, Target
<1>8. Watched'
  BY <1>1 DEF Watched, Disconnecting
<1>9. QED
  BY <1>2, <1>3, <1>4, <1>5, <1>6, <1>7, <1>8 DEF Core

\* disconnect() cancels the heartbeat and waits for it.
LEMMA JoinBeatStep ==
    ASSUME IInv, PassedOK', NEW p \in Procs, NEW next, TearsDown(p, next),
           heartbeatTask # 0, beat' = [beat EXCEPT ![heartbeatTask] = "cancelled"],
           Suspend(p, "joinBeat", heartbeatTask),
           UNCHANGED <<heartbeatTask, listenerTask, flags, queue, listener>>
    PROVE  Core'
<1>1. /\ attempts \in 0..MaxAttempts /\ attempts' = attempts /\ MaxAttempts \in Nat
      /\ pc' \in [Procs -> Places] /\ awaiting' \in [Procs -> 0..MaxAttempts]
      /\ pc'[p] = "joinBeat" /\ awaiting'[p] = heartbeatTask
      /\ \A q \in Procs \ {p} : pc'[q] = pc[q] /\ awaiting'[q] = awaiting[q]
  <2>1. /\ attempts \in 0..MaxAttempts /\ MaxAttempts \in Nat
          /\ heartbeatTask \in 0..MaxAttempts
        /\ "joinBeat" \in Places
    BY ConstantsAssumption DEF IInv, Core, TypeOK, Places
  <2>2. QED
    BY <2>1, Suspends DEF IInv, Core, TearsDown
<1>2. TypeOK'
  <2>1. beat \in [Attempts -> {"none", "running", "cancelled", "done"}] /\ gen \in Nat
    BY DEF IInv, Core, TypeOK
  <2>2. beat' \in [Attempts -> {"none", "running", "cancelled", "done"}]
    BY <2>1
  <2>3. gen' \in Nat
    BY <2>1 DEF TearsDown
  <2>4. QED
    BY <1>1, <2>2, <2>3 DEF IInv, Core, TypeOK, PassedOK, Codes, Places, TearsDown, flags
<1>3. Numbers'
  BY DEF IInv, Core, TypeOK, Numbers, Suspend, TearsDown, flags
<1>4. Budget'
  BY <1>1 DEF IInv, Core, Procs, Budget, InAttempt, TearsDown
<1>5. NoStray'
  BY DEF IInv, Core, Numbers, NoStray, Found, Suspend, TearsDown
<1>6. CleanStart'
  BY <1>1 DEF IInv, Core, Procs, CleanStart
<1>7. Targets'
  BY SMTT(30), <1>1 DEF IInv, Core, TypeOK, Numbers, Procs, Attempts, Targets, Target
<1>8. Watched'
  BY <1>1 DEF Watched, Disconnecting
<1>9. QED
  BY <1>2, <1>3, <1>4, <1>5, <1>6, <1>7, <1>8 DEF Core

\* connect_printer has no password left to try.
LEMMA GivesUpStep ==
    ASSUME IInv, PassedOK', pc["connector"] = "failed", passwords' = <<>>,
           Suspend("connector", "idle", 0),
           UNCHANGED <<gen, flags, tasks, queue, authFailure, accessCode, regResult, link,
           listener,
                       listenerGen, beat, attempts>>
    PROVE  Core'
<1>1. TypeOK'
  <2>1. "connector" \in Procs /\ "idle" \in Places /\ 0 \in 0..MaxAttempts
        /\ passwords' \in Seq({"user", "empty", "default"})
    BY NoCode, ConstantsAssumption DEF Procs, Places, Codes
  <2>2. pc' \in [Procs -> Places] /\ awaiting' \in [Procs -> 0..MaxAttempts]
    BY <2>1, Suspends DEF IInv, Core
  <2>3. QED
    BY <2>1, <2>2 DEF IInv, Core, TypeOK, PassedOK, Places, flags, tasks
<1>2. Numbers'
  BY DEF IInv, Core, Numbers, InAttempt, Teardown, Suspend, flags, tasks
<1>3. Budget'
  BY DEF IInv, Core, TypeOK, Procs, Budget, InAttempt, Suspend
<1>4. NoStray'
  BY DEF IInv, Core, NoStray, Found, tasks
<1>5. CleanStart'
  BY DEF IInv, Core, TypeOK, Procs, CleanStart, Suspend
<1>6. Targets'
  BY DEF IInv, Core, Targets, Target, Suspend
<1>7. Watched'
  BY DEF IInv, Core, Watched, Disconnecting, Suspend, flags, tasks
<1>8. QED
  BY <1>1, <1>2, <1>3, <1>4, <1>5, <1>6, <1>7 DEF Core

\* The client of the attempt has been entered.
LEMMA SubscribesStep ==
    ASSUME IInv, PassedOK', pc["connector"] = "entering", link' \in [Attempts -> Links],
           Suspend("connector", "subscribing", attempts),
           UNCHANGED <<gen, flags, tasks, queue, regResult, auth, listener, listenerGen,
           beat, attempts>>
    PROVE  Core'
<1>1. TypeOK'
  BY DEF IInv, Core, TypeOK, Procs, PassedOK, Suspend, flags, tasks, auth
<1>2. Numbers'
  BY DEF IInv, Core, TypeOK, Numbers, InAttempt, Suspend, flags, tasks
<1>3. Budget'
  BY DEF IInv, Core, Budget, InAttempt, Teardown, Suspend, auth
<1>4. NoStray'
  BY DEF IInv, Core, Attempts, NoStray, Found, CleanStart
<1>5. CleanStart'
  BY DEF IInv, Core, CleanStart, flags, tasks
<1>6. Targets'
  BY DEF IInv, Core, Targets, Target, Suspend
<1>7. Watched'
  BY DEF IInv, Core, Watched, Disconnecting, CleanStart, Suspend, flags
<1>8. QED
  BY <1>1, <1>2, <1>3, <1>4, <1>5, <1>6, <1>7 DEF Core

\* The client is gone between two subscriptions, which connect_printer does not catch.
LEMMA SubscribeRaisesStep ==
    ASSUME IInv, PassedOK', SubscribeRaises
    PROVE  Core'
<1>1. TypeOK'
  BY DEF IInv, Core, TypeOK, Procs, PassedOK, Links, SubscribeRaises, Suspend, flags,
     tasks, peers
<1>2. Numbers'
  BY DEF IInv, Core, Numbers, InAttempt, Teardown, SubscribeRaises, Suspend, flags, tasks
<1>3. Budget'
  BY DEF IInv, Core, TypeOK, Procs, Budget, InAttempt, SubscribeRaises, Suspend
<1>4. NoStray'
  BY DEF IInv, Core, Attempts, NoStray, Found, CleanStart, SubscribeRaises, peers
<1>5. CleanStart'
  BY DEF IInv, Core, TypeOK, Procs, CleanStart, SubscribeRaises, Suspend
<1>6. Targets'
  BY DEF IInv, Core, Targets, Target, SubscribeRaises, Suspend, peers
<1>7. Watched'
  BY DEF Watched, SubscribeRaises, flags
<1>8. QED
  BY <1>1, <1>2, <1>3, <1>4, <1>5, <1>6, <1>7 DEF Core
-----------------------------------------------------------------------------
(***************************************************************************)
(* disconnect().                                                           *)
(***************************************************************************)
LEMMA CloseTransportStep ==
    ASSUME IInv, PassedOK', NEW p \in Procs, NEW next \in {"idle", "attempt", "done"},
           TearsDown(p, next), Clears,
           p = "connector" => listenerTask' = 0 /\ heartbeatTask' = 0,
           CloseTransport(p, next), UNCHANGED <<listener, beat>>
    PROVE  Core'
<1>1. CASE Closed(p, next)
  BY <1>1, ClosedStep
<1>2. CASE client # 0 /\ Suspend(p, "closing", client) /\ UNCHANGED <<flags, queue>>
  BY <1>2, ClosingStep
<1>3. QED
  BY <1>1, <1>2 DEF CloseTransport

LEMMA StopListenerStep ==
    ASSUME IInv, PassedOK', NEW p \in Procs, NEW next \in {"idle", "attempt", "done"},
           NEW d,
           TearsDown(p, next), heartbeatTask' = 0, UNCHANGED beat,
           \A a \in Attempts : beat[a] \in {"none", "done"},
           StopListener(p, next, d)
    PROVE  Core'
<1>1. \A a \in Attempts : listener[a] \notin {"none", "done"} => listenerTask = a
  BY DEF IInv, Core, NoStray, Found
<1>2. CASE listenerTask # 0 /\ listener[listenerTask] # "done"
  <2>1. Clears
    BY <1>1, <1>2 DEF Clears, StopListener
  <2>2. QED
    BY <1>2, <2>1, JoinListenerStep DEF StopListener
<1>3. CASE ~(listenerTask # 0 /\ listener[listenerTask] # "done")
  <2>1. listenerTask' = 0 /\ UNCHANGED listener /\ CloseTransport(p, next)
    BY <1>3 DEF StopListener
  <2>2. \A a \in Attempts : listener[a] \in {"none", "done"}
    BY <1>1, <1>3, ConstantsAssumption DEF Attempts
  <2>3. Clears
    BY <2>1, <2>2 DEF Clears
  <2>4. QED
    BY <2>1, <2>3, CloseTransportStep
<1>4. QED
  BY <1>2, <1>3

LEMMA DisconnectKept ==
    ASSUME IInv, PassedOK', NEW p \in Procs, NEW next \in {"idle", "attempt", "done"},
           TearsDown(p, next), Disconnect(p, next)
    PROVE  Core'
<1>1. CASE heartbeatTask # 0 /\ beat[heartbeatTask] # "done"
  BY <1>1, JoinBeatStep DEF Disconnect
<1>2. CASE ~(heartbeatTask # 0 /\ beat[heartbeatTask] # "done")
  <2>1. heartbeatTask' = 0 /\ UNCHANGED beat /\ StopListener(p, next, "none")
    BY <1>2 DEF Disconnect
  <2>2. \A a \in Attempts : beat[a] \in {"none", "done"}
    BY <1>2, ConstantsAssumption DEF IInv, Core, NoStray, Found, Attempts
  <2>3. QED
    BY <2>1, <2>2, StopListenerStep
<1>3. QED
  BY <1>1, <1>2

\* What disconnect() leaves to do is an attempt only for connect_printer(), and
\* only if it has a password for it.
LEMMA AfterDisconnect ==
    ASSUME IInv, NEW p \in Procs, pc[p] \in Teardown
    PROVE  /\ After(p) \in {"idle", "attempt", "done"}
           /\ passwords \in Seq(Codes) /\ authFailure \in BOOLEAN
           /\ IF p = "connector"
              THEN attempts + Len(passwords) <= MaxAttempts
                   /\ (After(p) = "attempt" => passwords # <<>>)
              ELSE After(p) # "attempt"
<1>1. passwords \in Seq(Codes) /\ authFailure \in BOOLEAN
  BY DEF IInv, Core, TypeOK, Codes
<1>2. CASE p = "connector"
  BY <1>1, <1>2 DEF After, IInv, Core, Budget, Teardown
<1>3. CASE p # "connector"
  BY <1>1, <1>3 DEF After, Procs
<1>4. QED
  BY <1>2, <1>3

\* A task that has joined a heartbeat or a listener: no other one is alive.
LEMMA JoinedLast ==
    ASSUME IInv, NEW p \in Procs, Joined(p)
    PROVE  /\ pc[p] = "joinBeat" => \A a \in Attempts : beat[a] \in {"none", "done"}
           /\ pc[p] = "joinListener" => \A a \in Attempts : listener[a] \in {"none", "done"}
<1>1. /\ attempts \in 0..MaxAttempts /\ listenerTask \in {0, attempts}
      /\ heartbeatTask \in {0, attempts}
  BY DEF IInv, Core, TypeOK, Numbers
<1>2. \A a \in Attempts : /\ a # 0
                          /\ listener[a] \notin {"none", "done"} => listenerTask = a
                          /\ beat[a] \notin {"none", "done"} => heartbeatTask = a
  BY ConstantsAssumption DEF IInv, Core, NoStray, Found, Attempts
<1>3. CASE awaiting[p] = attempts
  BY <1>1, <1>2, <1>3 DEF Joined
<1>4. CASE awaiting[p] # attempts
  <2>1. listenerTask = 0 /\ heartbeatTask = 0
    BY <1>4 DEF Joined, IInv, Turn, Core, CleanStart
  <2>2. QED
    BY <1>2, <2>1
<1>5. QED
  BY <1>3, <1>4

LEMMA HeartbeatJoinedKept ==
    ASSUME IInv, PassedOK', NEW p \in Procs, HeartbeatJoined(p)
    PROVE  Core'
<1>1. pc[p] \in Teardown /\ Joined(p) /\ pc[p] = "joinBeat"
  BY DEF HeartbeatJoined, Teardown, Joined
<1>2. delayTask \in {"none", "sleeping", "finished"} /\ link \in [Attempts -> Links]
  BY DEF IInv, Core, TypeOK
<1>3. delayTask' \in {"none", "sleeping", "finished"}
  BY <1>2 DEF HeartbeatJoined, StopListener
<1>4. TearsDown(p, After(p))
  BY <1>1, <1>2, <1>3, AfterDisconnect DEF TearsDown, HeartbeatJoined, auth
<1>5. QED
  BY <1>1, <1>4, JoinedLast, AfterDisconnect, StopListenerStep DEF HeartbeatJoined

LEMMA ListenerJoinedKept ==
    ASSUME IInv, PassedOK', NEW p \in Procs, ListenerJoined(p)
    PROVE  Core'
<1>1. pc[p] \in Teardown /\ Joined(p) /\ pc[p] = "joinListener"
  BY DEF ListenerJoined, Teardown, Joined
<1>2. link \in [Attempts -> Links]
  BY DEF IInv, Core, TypeOK
<1>3. TearsDown(p, After(p))
  BY <1>1, <1>2, AfterDisconnect DEF TearsDown, ListenerJoined, auth, peers
<1>4. \A a \in Attempts : listener[a] \in {"none", "done"}
  BY <1>1, JoinedLast
<1>5. Clears
  BY <1>4 DEF Clears, ListenerJoined, IInv, Core, NoStray, Found
<1>6. p = "connector" => listenerTask' = 0 /\ heartbeatTask' = 0
  BY <1>1 DEF ListenerJoined, IInv, Core, CleanStart
<1>7. QED
  BY <1>1, <1>3, <1>5, <1>6, AfterDisconnect, CloseTransportStep DEF ListenerJoined, peers

LEMMA TransportClosedKept ==
    ASSUME IInv, PassedOK', NEW p \in Procs, TransportClosed(p)
    PROVE  Core'
<1>1. pc[p] \in Teardown /\ pc[p] = "closing"
  BY DEF TransportClosed, Teardown
<1>2. link' \in [Attempts -> Links] /\ delayTask \in {"none", "sleeping", "finished"}
  <2>1. link \in [Attempts -> Links] /\ delayTask \in {"none", "sleeping", "finished"}
    BY DEF IInv, Core, TypeOK
  <2>2. QED
    BY <2>1 DEF TransportClosed, Links
<1>3. TearsDown(p, After(p))
  BY <1>1, <1>2, AfterDisconnect DEF TearsDown, TransportClosed, auth, tasks
<1>4. Clears
  BY DEF Clears, TransportClosed, tasks, IInv, Core, NoStray, Found
<1>5. p = "connector" => listenerTask' = 0 /\ heartbeatTask' = 0
  BY <1>1 DEF TransportClosed, tasks, IInv, Core, CleanStart
<1>6. QED
  BY <1>1, <1>3, <1>4, <1>5, AfterDisconnect, ClosedStep DEF TransportClosed

\* The owner and the background task call disconnect().
LEMMA OthersDisconnect ==
    ASSUME IInv, PassedOK', OwnerDisconnects \/ CleanupRuns
    PROVE  Core'
<1>1. /\ link \in [Attempts -> Links] /\ delayTask \in {"none", "sleeping", "finished"}
      /\ passwords \in Seq(Codes) /\ authFailure \in BOOLEAN
  BY DEF IInv, Core, TypeOK, Codes
<1>2. delayTask' \in {"none", "sleeping", "finished"}
  BY <1>1 DEF OwnerDisconnects, CleanupRuns, Disconnect, StopListener
<1>3. PICK p \in {"owner", "cleanup"} : \E next \in {"idle", "done"} :
        Disconnect(p, next) /\ UNCHANGED <<regResult, auth, link, listenerGen, attempts>>
  BY DEF OwnerDisconnects, CleanupRuns
<1>4. PICK next \in {"idle", "done"} : Disconnect(p, next)
  BY <1>3
<1>5. TearsDown(p, next)
  BY <1>1, <1>2, <1>3, <1>4 DEF TearsDown, auth, Disconnect
<1>6. QED
  BY <1>4, <1>5, DisconnectKept DEF Procs

LEMMA ConnectStartKept ==
    ASSUME IInv, PassedOK', ConnectStart
    PROVE  Core'
<1>1. /\ link \in [Attempts -> Links] /\ delayTask \in {"none", "sleeping", "finished"}
      /\ accessCode \in {"none", "user", "empty", "default"}
  BY DEF IInv, Core, TypeOK
<1>2. delayTask' \in {"none", "sleeping", "finished"}
  BY <1>1 DEF ConnectStart, Disconnect, StopListener
<1>3. passwords' \in Seq(Codes) /\ passwords' # <<>>
  <2>1. <<"empty", "default">> \in Seq(Codes) /\ Len(<<"empty", "default">>) = 2
    BY DEF Codes
  <2>2. accessCode # "none" => <<accessCode>> \in Seq(Codes) /\ Len(<<accessCode>>) = 1
    BY <1>1 DEF Codes
  <2>3. passwords' \in Seq(Codes) /\ Len(passwords') # 0
    BY <2>1, <2>2 DEF ConnectStart
  <2>4. QED
    BY <2>3, Empty
<1>4. TearsDown("connector", "attempt")
  BY <1>1, <1>2, <1>3 DEF TearsDown, ConnectStart, Disconnect
<1>5. QED
  BY <1>4, DisconnectKept DEF Procs, ConnectStart

LEMMA AttemptFailedKept ==
    ASSUME IInv, PassedOK', AttemptFailed
    PROVE  Core'
<1>1. /\ link \in [Attempts -> Links] /\ delayTask \in {"none", "sleeping", "finished"}
      /\ passwords \in Seq(Codes) /\ passwords # <<>> /\ pc["connector"] = "failed"
      /\ attempts + Len(passwords) <= MaxAttempts + 1 /\ attempts \in Nat
            /\ MaxAttempts \in Nat
  BY ConstantsAssumption DEF IInv, Core, TypeOK, Codes, Budget, InAttempt, AttemptFailed
<1>2. CASE authFailure /\ accessCode # "none"
  BY <1>2, GivesUpStep DEF AttemptFailed
<1>3. CASE ~(authFailure /\ accessCode # "none")
  <2>1. PICK next \in {"idle", "attempt"} :
          Disconnect("connector", next) /\ (next = "attempt" => Len(passwords) # 1)
    BY <1>3 DEF AttemptFailed
  <2>2. passwords' = Tail(passwords) /\ authFailure' = FALSE
    BY <1>3 DEF AttemptFailed
  <2>3. delayTask' \in {"none", "sleeping", "finished"}
    BY <1>1, <2>1 DEF Disconnect, StopListener
  <2>4. /\ passwords' \in Seq(Codes) /\ attempts + Len(passwords') <= MaxAttempts
        /\ next = "attempt" => passwords' # <<>>
    <3>1. /\ passwords' \in Seq(Codes) /\ Len(passwords) \in Nat \ {0}
          /\ Len(passwords') = Len(passwords) - 1
      BY <1>1, <2>2, NextCode
    <3>2. Len(passwords) # 1 => passwords' # <<>>
      BY <3>1, Empty
    <3>3. QED
      BY <1>1, <2>1, <3>1, <3>2
  <2>5. TearsDown("connector", next)
    BY <1>1, <2>1, <2>2, <2>3, <2>4 DEF TearsDown, AttemptFailed, Disconnect
  <2>6. QED
    BY <2>1, <2>5, DisconnectKept DEF Procs
<1>4. QED
  BY <1>2, <1>3
-----------------------------------------------------------------------------
(***************************************************************************)
(* The steps that are made of the ones above.                              *)
(***************************************************************************)
LEMMA ConnectorKept ==
    ASSUME IInv, PassedOK', ConnectorStep
    PROVE  Core'
<1>1. /\ authFailure \in BOOLEAN /\ link \in [Attempts -> Links]
      /\ regResult \in {"none", "ok", "rejected"} /\ attempts \in 0..MaxAttempts
      /\ passwords \in Seq({"user", "empty", "default"}) /\ 0 \in 0..MaxAttempts
  BY ConstantsAssumption DEF IInv, Core, TypeOK
<1>2. CASE EnterFails
  <2>1. link' \in [Attempts -> Links]
    BY <1>1, <1>2 DEF EnterFails, Links
  <2>2. PICK auth_ \in BOOLEAN : Fail(auth_)
    BY <1>1, <1>2 DEF EnterFails
  <2>3. QED
    BY <1>1, <1>2, <2>1, <2>2, FailedStep DEF EnterFails
<1>3. CASE Entered
  <2>1. link' \in [Attempts -> Links]
    BY <1>1, <1>3 DEF Entered, Links
  <2>2. CASE client = 0
    BY <1>3, <2>1, <2>2, ListeningStep DEF Entered
  <2>3. CASE client # 0
    BY <1>1, <1>3, <2>1, <2>3, SubscribesStep DEF Entered, flags, tasks, auth
  <2>4. QED
    BY <2>2, <2>3
<1>4. CASE Subscribed
  BY <1>1, <1>4, ListeningStep DEF Subscribed
<1>5. CASE SubscribeFails
  BY <1>1, <1>5, FailedStep DEF SubscribeFails, peers
<1>6. CASE SubscribeRaises
  BY <1>6, SubscribeRaisesStep
<1>7. CASE RegistrationTimesOut
  BY <1>1, <1>7, FailedStep DEF RegistrationTimesOut, peers
<1>8. CASE RegistrationAnswered
  <2>1. CASE regResult = "rejected"
    BY <1>1, <1>8, <2>1, FailedStep DEF RegistrationAnswered, flags, tasks
  <2>2. CASE regResult # "rejected" /\ connected /\ client # 0
    BY <1>1, <1>8, <2>2, AcceptedStep DEF RegistrationAnswered
  <2>3. CASE regResult # "rejected" /\ ~(connected /\ client # 0)
    BY <1>1, <1>8, <2>3, NoCode, AcceptedStep DEF RegistrationAnswered, Codes
  <2>4. QED
    BY <2>1, <2>2, <2>3
<1>9. CASE AttributesDone
  BY <1>9, AttributesDoneStep
<1>10. CASE InitialDataDone
  BY <1>10, InitialDataDoneStep
<1>11. QED
  BY <1>2, <1>3, <1>4, <1>5, <1>6, <1>7, <1>8, <1>9, <1>10 DEF ConnectorStep

\* Steps that touch only the queue, a link, the answer to the registration or
\* the delay task.
LEMMA QuietKept ==
    ASSUME IInv, PassedOK',
           \/ Poll \/ DelayExpires \/ DelayDone \/ CommandStarts
           \/ \E a \in Attempts : LinkChanges(a) \/ StatusMessage(a) \/ RegisterMessage(a)
           \/ \E a \in Attempts : Publishes(a) \/ CommandsSent(a)
           \/ UNCHANGED vars
    PROVE  Core'
<1>1. /\ queue \in 0..MaxQueue /\ link \in [Attempts -> Links] /\ MaxQueue \in Nat
      /\ regResult \in {"none", "ok", "rejected"}
      /\ delayTask \in {"none", "sleeping", "finished"}
  BY ConstantsAssumption DEF IInv, Core, TypeOK
<1>2. CASE \E a \in Attempts : Publishes(a) \/ CommandsSent(a)
  BY <1>1, <1>2, QuietStep DEF Publishes, HeartbeatPings, PingSent, CommandsSent,
     flags, tasks, peers
<1>3. CASE \/ Poll \/ DelayExpires \/ DelayDone \/ UNCHANGED vars
           \/ \E a \in Attempts : LinkChanges(a) \/ StatusMessage(a) \/ RegisterMessage(a)
  <2>1. /\ queue' \in 0..MaxQueue
        /\ regResult' \in {"none", "ok", "rejected"}
        /\ delayTask' \in {"none", "sleeping", "finished"}
    BY <1>1, <1>3 DEF Poll, DelayExpires, DelayDone, LinkChanges, StatusMessage,
       RegisterMessage, vars, tasks
  <2>2. link' \in [Attempts -> Links]
    BY <1>1, <1>3 DEF Poll, DelayExpires, DelayDone, LinkChanges, StatusMessage,
       RegisterMessage, vars, peers, Links
  <2>3. UNCHANGED <<gen, flags, listenerTask, heartbeatTask, auth, listener, listenerGen,
                    beat, pc, awaiting, attempts>>
    BY <1>3 DEF Poll, DelayExpires, DelayDone, LinkChanges, StatusMessage, RegisterMessage,
       vars, peers, tasks, control
  <2>4. QED
    BY <2>1, <2>2, <2>3, QuietStep
<1>4. CASE CommandStarts
  BY <1>1, <1>4, QuietStep DEF CommandStarts, flags, tasks, peers
<1>5. QED
  BY <1>2, <1>3, <1>4

LEMMA ListenerKept ==
    ASSUME IInv, PassedOK', NEW a \in Attempts, ListenerStep(a) \/ Message(a)
    PROVE  Core'
<1>1. CASE ListenerStarts(a)
  BY <1>1, ListenerStartsStep
<1>2. CASE ListenerBreaks(a) \/ StaleMessage(a)
  BY <1>2, ListenerEndsStep DEF ListenerBreaks, StaleMessage
<1>3. CASE ListenerCancelled(a)
  BY <1>3, ListenerEndsStep, ListenerNeverRanStep DEF ListenerCancelled
<1>4. CASE StatusMessage(a) \/ RegisterMessage(a)
  BY <1>4, QuietKept
<1>5. QED
  BY <1>1, <1>2, <1>3, <1>4 DEF ListenerStep, Message

LEMMA HeartbeatKept ==
    ASSUME IInv, PassedOK', NEW a \in Attempts, HeartbeatStep(a)
    PROVE  Core'
BY HeartbeatFailsStep, HeartbeatEndsStep DEF HeartbeatStep

LEMMA CoreInit ==
    ASSUME Init
    PROVE  IInv
<1>1. TypeOK
  <2>1. MaxAttempts \in Nat /\ MaxQueue \in Nat /\ passwords \in Seq(Codes)
    BY ConstantsAssumption, NoCode DEF Init
  <2>2. /\ link \in [Attempts -> Links] /\ listenerGen \in [Attempts -> Nat]
        /\ listener \in [Attempts -> {"none", "created", "running", "cancelled", "done"}]
        /\ beat \in [Attempts -> {"none", "running", "cancelled", "done"}]
        /\ pc \in [Procs -> Places] /\ awaiting \in [Procs -> 0..MaxAttempts]
    BY <2>1 DEF Init, Links, Places
  <2>3. accessCode \in {"none", "user", "empty", "default"}
    BY DEF Init
  <2>4. /\ gen \in Nat /\ client \in 0..MaxAttempts /\ listenerTask \in 0..MaxAttempts
        /\ heartbeatTask \in 0..MaxAttempts /\ queue \in 0..MaxQueue
              /\ attempts \in 0..MaxAttempts
    BY <2>1 DEF Init
  <2>5. QED
    BY <2>1, <2>2, <2>3, <2>4 DEF Init, TypeOK, Places, Codes
<1>2. Numbers /\ Budget /\ CleanStart /\ Targets /\ Turn
  BY DEF Init, Numbers, Budget, CleanStart, Targets, Target, Turn, Procs, Teardown,
     InAttempt
<1>3. NoStray /\ Watched
  BY DEF Init, NoStray, Found, Watched
<1>4. OwnPings
  BY DEF Init, OwnPings
<1>5. QED
  BY <1>1, <1>2, <1>3, <1>4 DEF IInv, Core
-----------------------------------------------------------------------------
(***************************************************************************)
(* The event loop.                                                         *)
(***************************************************************************)
\* A task that has not joined anything of an earlier attempt does not start to,
\* what is over stays over, and connect_printer() does not move while a task
\* waits for its turn.
LEMMA TurnKept ==
    ASSUME IInv, NEW s, Passes(s) \/ UNCHANGED passed, UNCHANGED attempts,
           \A a \in Attempts : /\ beat[a] = "done" => beat'[a] = "done"
                               /\ listener[a] = "done" => listener'[a] = "done",
           \A p \in Procs : pc'[p] \in {"joinBeat", "joinListener"}
               /\ awaiting'[p] # attempts =>
               /\ pc'[p] = pc[p] /\ awaiting'[p] = awaiting[p]
               /\ pc'["connector"] = pc["connector"]
               /\ s # <<p, 0>>
    PROVE  Turn'
<1> SUFFICES ASSUME NEW p \in Procs,
                    pc'[p] \in {"joinBeat", "joinListener"}, awaiting'[p] # attempts
             PROVE  /\ pc'["connector"] = "entering"
                    /\ Joined(p)'
                    /\ <<<<p, 0>>, <<"connector", 0>>>> \in passed'
  BY DEF Turn
<1>1. /\ pc'[p] = pc[p] /\ awaiting'[p] = awaiting[p] /\ s # <<p, 0>>
      /\ pc["connector"] = "entering" /\ pc'["connector"] = "entering"
      /\ Joined(p) /\ <<<<p, 0>>, <<"connector", 0>>>> \in passed
  BY DEF IInv, Turn
<1>2. awaiting[p] \in Attempts
  BY <1>1, ConstantsAssumption DEF IInv, Core, TypeOK, Numbers, Teardown, Attempts
<1>3. Joined(p)'
  BY <1>1, <1>2 DEF Joined
<1>4. <<p, 0>> \in Ready'
  BY <1>3 DEF Ready, Joined
<1>5. <<<<p, 0>>, <<"connector", 0>>>> \in passed'
  BY <1>1, <1>4 DEF Passes
<1>6. QED
  BY <1>1, <1>3, <1>5

\* connect_printer() goes on only when nobody waits for their turn.
LEMMA ConnectorHasTurn ==
    ASSUME IInv, \A t \in Ready : <<t, <<"connector", 0>>>> \notin passed
    PROVE  \A p \in Procs : pc[p] \in {"joinBeat", "joinListener"} => awaiting[p] = attempts
<1> SUFFICES ASSUME NEW p \in Procs, pc[p] \in {"joinBeat", "joinListener"},
                    awaiting[p] # attempts
             PROVE  FALSE
  OBVIOUS
<1>1. Joined(p) /\ <<<<p, 0>>, <<"connector", 0>>>> \in passed
  BY DEF IInv, Turn
<1>2. <<p, 0>> \in Ready
  BY <1>1 DEF Ready, Joined
<1>3. QED
  BY <1>1, <1>2

\* A publish begins on the client there is, and a heartbeat that runs belongs to it.
LEMMA PublishingKept ==
    ASSUME IInv, [Next]_vars
    PROVE  OwnPings' /\ publishing' \subseteq (0..MaxAttempts) \X Attempts
<1>1. /\ publishing \subseteq (0..MaxAttempts) \X Attempts /\ OwnPings
      /\ client # 0 => client \in Attempts
      /\ Attempts \subseteq 0..MaxAttempts /\ 0 \in 0..MaxAttempts
  BY ConstantsAssumption DEF IInv, Core, TypeOK, Attempts
<1>2. ASSUME NEW a \in Attempts, HeartbeatPings(a)
      PROVE  /\ client = a
             /\ publishing' = publishing \union {<<a, client>>}
  <2>1. client # 0 /\ client \in {0, attempts} /\ heartbeatTask \in {0, attempts}
    BY <1>2 DEF HeartbeatPings, IInv, Core, Numbers
  <2>2. heartbeatTask = a /\ a # 0
    BY <1>2, ConstantsAssumption DEF HeartbeatPings, IInv, Core, NoStray, Found, Attempts
  <2>3. QED
    BY <1>2, <2>1, <2>2 DEF HeartbeatPings
<1>3. CASE CommandStarts
  BY <1>1, <1>3 DEF CommandStarts, IsConnected, OwnPings
<1>4. CASE \E a \in Attempts : HeartbeatPings(a)
  BY <1>1, <1>2, <1>4 DEF OwnPings
<1>5. CASE publishing' \subseteq publishing
  BY <1>1, <1>5 DEF OwnPings
<1>6. Continues \/ ConnectStart \/ ConnectorStep \/ Poll => UNCHANGED publishing
  BY DEF Continues, AttemptStart, AttemptFailed, ConnectStart, ConnectorStep, EnterFails,
     Entered, Subscribed, SubscribeFails, SubscribeRaises, RegistrationTimesOut,
     RegistrationAnswered, AttributesDone, InitialDataDone, Poll, control
<1>7. ASSUME NEW p \in Procs, DisconnectStep(p)
      PROVE  UNCHANGED publishing
  BY <1>7 DEF DisconnectStep, HeartbeatJoined, ListenerJoined, TransportClosed
<1>8. ASSUME NEW a \in Attempts,
             \/ ListenerStep(a) \/ Message(a) \/ HeartbeatStep(a) \/ PingSent(a)
             \/ CommandsSent(a) \/ CommandFails(a) \/ LinkChanges(a)
      PROVE  publishing' \subseteq publishing
  BY <1>8 DEF ListenerStep, ListenerStarts, ListenerBreaks, ListenerCancelled, ListenerEnds,
     Message, StaleMessage, StatusMessage, RegisterMessage, HeartbeatStep, HeartbeatFails,
     HeartbeatEnds, GiveUp, PingSent, CommandsSent, CommandFails, LinkChanges, control
<1>9. OwnerDisconnects \/ CleanupRuns \/ DelayExpires \/ DelayDone \/ UNCHANGED vars =>
          UNCHANGED publishing
  BY DEF OwnerDisconnects, CleanupRuns, DelayExpires, DelayDone, control, vars
<1>10. QED
  BY <1>3, <1>4, <1>5, <1>6, <1>7, <1>8, <1>9 DEF Next, Runs, Publishes

LEMMA PassedTyped ==
    ASSUME IInv, NEW s \in TaskNames, Passes(s) \/ UNCHANGED passed,
           publishing' \subseteq (0..MaxAttempts) \X Attempts
    PROVE  PassedOK'
<1>1. passed \subseteq TaskNames \X TaskNames
  BY DEF IInv, Core, TypeOK
<1>2. Ready' \subseteq TaskNames
  BY DEF Ready, TaskNames
<1>3. QED
  BY <1>1, <1>2 DEF Passes, PassedOK

\* What task p joins belongs to the latest attempt, and nobody else moves.
JoinsLatest(p) ==
    /\ pc'[p] \in {"joinBeat", "joinListener"} => awaiting'[p] = attempts
    /\ \A q \in Procs \ {p} : pc'[q] = pc[q] /\ awaiting'[q] = awaiting[q]
    /\ \A a \in Attempts : /\ beat[a] = "done" => beat'[a] = "done"
                           /\ listener[a] = "done" => listener'[a] = "done"

LEMMA ClosesNothingNew ==
    ASSUME IInv, NEW p \in Procs, NEW next \in {"idle", "attempt", "done"},
           CloseTransport(p, next) \/ Closed(p, next), UNCHANGED <<listener, beat>>
    PROVE  JoinsLatest(p)
BY DEF CloseTransport, Closed, Suspend, JoinsLatest, IInv, Core, TypeOK

LEMMA StopsLatest ==
    ASSUME IInv, NEW p \in Procs, NEW next \in {"idle", "attempt", "done"}, NEW d,
           StopListener(p, next, d), UNCHANGED beat
    PROVE  JoinsLatest(p)
<1>1. CASE listenerTask # 0 /\ listener[listenerTask] # "done"
  <2>1. listenerTask = attempts
    BY <1>1 DEF IInv, Core, Numbers
  <2>2. QED
    BY <1>1, <2>1 DEF StopListener, Suspend, JoinsLatest, IInv, Core, TypeOK
<1>2. CASE ~(listenerTask # 0 /\ listener[listenerTask] # "done")
  BY <1>2, ClosesNothingNew DEF StopListener
<1>3. QED
  BY <1>1, <1>2

LEMMA DisconnectsLatest ==
    ASSUME IInv, NEW p \in Procs, NEW next \in {"idle", "attempt", "done"}, Disconnect(p,
           next)
    PROVE  JoinsLatest(p)
<1>1. CASE heartbeatTask # 0 /\ beat[heartbeatTask] # "done"
  <2>1. heartbeatTask = attempts
    BY <1>1 DEF IInv, Core, Numbers
  <2>2. QED
    BY <1>1, <2>1 DEF Disconnect, Suspend, JoinsLatest, IInv, Core, TypeOK
<1>2. CASE ~(heartbeatTask # 0 /\ beat[heartbeatTask] # "done")
  BY <1>2, StopsLatest DEF Disconnect
<1>3. QED
  BY <1>1, <1>2

LEMMA DisconnectStepJoins ==
    ASSUME IInv, NEW p \in Procs, DisconnectStep(p)
    PROVE  JoinsLatest(p) /\ UNCHANGED attempts
<1>1. pc[p] \in Teardown
  BY DEF DisconnectStep, HeartbeatJoined, ListenerJoined, TransportClosed, Teardown
<1>2. After(p) \in {"idle", "attempt", "done"}
  BY <1>1, AfterDisconnect
<1>3. CASE HeartbeatJoined(p)
  BY <1>2, <1>3, StopsLatest DEF HeartbeatJoined
<1>4. CASE ListenerJoined(p)
  BY <1>2, <1>4, ClosesNothingNew DEF ListenerJoined, peers
<1>5. CASE TransportClosed(p)
  BY <1>2, <1>5, ClosesNothingNew DEF TransportClosed
<1>6. QED
  BY <1>3, <1>4, <1>5 DEF DisconnectStep

\* connect_printer() in an attempt joins nothing.
LEMMA ConnectorStepJoins ==
    ASSUME IInv, ConnectorStep
    PROVE  JoinsLatest("connector") /\ UNCHANGED attempts
<1>1. PICK where \in Places \ Teardown, a \in {0, attempts} : Suspend("connector", where, a)
  BY DEF ConnectorStep, EnterFails, Entered, Subscribed, StartListening, SubscribeFails,
     SubscribeRaises, RegistrationTimesOut, RegistrationAnswered, AttributesDone,
     InitialDataDone, Succeed, Fail, Places, Teardown
<1>2. UNCHANGED attempts
  BY DEF ConnectorStep, EnterFails, Entered, Subscribed, SubscribeFails,
     SubscribeRaises, RegistrationTimesOut, RegistrationAnswered, AttributesDone,
     InitialDataDone
<1>3. /\ "connector" \in Procs /\ where \in Places /\ a \in 0..MaxAttempts /\ TypeOK
  BY ConstantsAssumption DEF Procs, IInv, Core, TypeOK
<1>4. /\ pc'["connector"] = where /\ where \notin {"joinBeat", "joinListener"}
      /\ \A q \in Procs \ {"connector"} : pc'[q] = pc[q] /\ awaiting'[q] = awaiting[q]
  BY <1>1, <1>3, Suspends DEF Teardown
<1>5. \A b \in Attempts : beat[b] = "done" => beat'[b] = "done"
  <2>1. CASE RegistrationAnswered
    <3>1. beat[attempts] = "none"
            /\ beat \in [Attempts -> {"none", "running", "cancelled", "done"}]
      BY <2>1 DEF RegistrationAnswered, IInv, Core, TypeOK, CleanStart
    <3>2. UNCHANGED beat \/ beat' = [beat EXCEPT ![attempts] = "running"]
      BY <2>1 DEF RegistrationAnswered
    <3>3. QED
      BY <3>1, <3>2
  <2>2. CASE ~RegistrationAnswered
    BY <2>2 DEF ConnectorStep, EnterFails, Entered, Subscribed, SubscribeFails,
       SubscribeRaises, RegistrationTimesOut, AttributesDone, InitialDataDone, peers
  <2>3. QED
    BY <2>1, <2>2
<1>6. \A b \in Attempts : listener[b] = "done" => listener'[b] = "done"
  <2>1. CASE Entered \/ Subscribed
    <3>1. listener[attempts] = "none"
          /\ listener \in [Attempts -> {"none", "created", "running", "cancelled", "done"}]
      BY <2>1 DEF Entered, Subscribed, IInv, Core, TypeOK, CleanStart
    <3>2. UNCHANGED listener \/ listener' = [listener EXCEPT ![attempts] = "created"]
      BY <2>1 DEF Entered, Subscribed, StartListening
    <3>3. QED
      BY <3>1, <3>2
  <2>2. CASE ~(Entered \/ Subscribed)
    BY <2>2 DEF ConnectorStep, EnterFails, RegistrationAnswered, SubscribeFails,
       SubscribeRaises, RegistrationTimesOut, AttributesDone, InitialDataDone, peers
  <2>3. QED
    BY <2>1, <2>2
<1>7. QED
  BY <1>2, <1>4, <1>5, <1>6 DEF JoinsLatest

\* An attempt begins: whoever is still joining something of the attempt before has
\* joined it, since nothing of it is alive, and waits for its turn.
LEMMA AttemptStartTurn ==
    ASSUME IInv, AttemptStart, Passes(<<"connector", 0>>)
    PROVE  Turn'
<1> SUFFICES ASSUME NEW p \in Procs,
                    pc'[p] \in {"joinBeat", "joinListener"}, awaiting'[p] # attempts'
             PROVE  /\ pc'["connector"] = "entering"
                    /\ Joined(p)'
                    /\ <<<<p, 0>>, <<"connector", 0>>>> \in passed'
  BY DEF Turn
<1>1. pc["connector"] = "attempt" /\ UNCHANGED <<listener, beat>>
  BY DEF AttemptStart
<1>2. /\ pc'["connector"] = "entering" /\ p # "connector"
      /\ pc'[p] = pc[p] /\ awaiting'[p] = awaiting[p]
  BY DEF AttemptStart, Suspend, IInv, Core, TypeOK, Procs
<1>3. awaiting[p] = attempts /\ awaiting[p] \in Attempts
  BY <1>1, <1>2, ConstantsAssumption DEF IInv, Turn, Core, TypeOK, Numbers, Teardown,
     Attempts
<1>4. listenerTask = 0 /\ heartbeatTask = 0
  BY <1>1 DEF IInv, Core, CleanStart
<1>5. awaiting[p] # 0 /\ Found(awaiting[p]) /\ Target(p)
  BY <1>3, ConstantsAssumption DEF IInv, Core, NoStray, Targets, Attempts
<1>6. Joined(p)
  BY <1>2, <1>4, <1>5 DEF Found, Target, Joined
<1>7. Joined(p)'
  BY <1>1, <1>2, <1>6 DEF Joined
<1>8. <<p, 0>> \in Ready' /\ <<p, 0>> # <<"connector", 0>>
  BY <1>2, <1>7 DEF Ready, Joined
<1>9. <<<<p, 0>>, <<"connector", 0>>>> \in passed'
  BY <1>8 DEF Passes
<1>10. QED
  BY <1>2, <1>7, <1>9

\* A step of the tasks and of the network that lets no task enter or leave
\* disconnect().
LEMMA OthersTurn ==
    ASSUME IInv, NEW s, s \notin Procs \X {0}, Passes(s) \/ UNCHANGED passed,
           \/ \E a \in Attempts : ListenerStep(a) \/ Message(a) \/ HeartbeatStep(a)
           \/ \E a \in Attempts : Publishes(a) \/ LinkChanges(a)
           \/ \E a \in Attempts : CommandsSent(a) \/ CommandFails(a)
           \/ DelayExpires \/ DelayDone \/ CommandStarts \/ UNCHANGED vars
    PROVE  Turn'
<1>1. UNCHANGED attempts
  BY DEF ListenerStep, Message, HeartbeatStep, LinkChanges, ListenerStarts, ListenerBreaks,
     ListenerCancelled, ListenerEnds, StaleMessage, StatusMessage, RegisterMessage,
     HeartbeatFails, HeartbeatEnds, DelayExpires, DelayDone, Publishes, HeartbeatPings,
     PingSent, GiveUp, CommandStarts, CommandsSent, CommandFails, vars, control
<1>2. \A p \in Procs : pc'[p] \in {"joinBeat", "joinListener"} =>
          pc'[p] = pc[p] /\ awaiting'[p] = awaiting[p] /\ pc'["connector"] = pc["connector"]
  <2>1. CASE \E a \in Attempts : HeartbeatFails(a)
    BY <2>1 DEF HeartbeatFails, GiveUp, Suspend, IInv, Core, TypeOK, Procs
  <2>2. CASE ~(\E a \in Attempts : HeartbeatFails(a))
    BY <2>2 DEF ListenerStep, Message, HeartbeatStep, LinkChanges, ListenerStarts,
       ListenerBreaks, ListenerCancelled, ListenerEnds, StaleMessage, StatusMessage,
       RegisterMessage, HeartbeatEnds, DelayExpires, DelayDone, Publishes, HeartbeatPings,
     PingSent, GiveUp, CommandStarts, CommandsSent, CommandFails, vars, control
  <2>3. QED
    BY <2>1, <2>2
<1>3. \A a \in Attempts : /\ beat[a] = "done" => beat'[a] = "done"
                          /\ listener[a] = "done" => listener'[a] = "done"
  <2>1. /\ listener \in [Attempts -> {"none", "created", "running", "cancelled", "done"}]
        /\ beat \in [Attempts -> {"none", "running", "cancelled", "done"}]
    BY DEF IInv, Core, TypeOK
  <2>2. \/ UNCHANGED <<listener, beat>>
        \/ \E a \in Attempts : \/ listener[a] # "done" /\ UNCHANGED beat
                                  /\ \E l \in {"running", "done"} :
                                        listener' = [listener EXCEPT ![a] = l]
                               \/ beat' = [beat EXCEPT ![a] = "done"] /\ UNCHANGED listener
    BY DEF ListenerStep, Message, HeartbeatStep, LinkChanges, ListenerStarts,
       ListenerBreaks, ListenerCancelled, ListenerEnds, StaleMessage, StatusMessage,
       RegisterMessage, HeartbeatFails, HeartbeatEnds, DelayExpires, DelayDone, Publishes,
       HeartbeatPings, PingSent, GiveUp, CommandStarts, CommandsSent, CommandFails, vars,
       peers
  <2>3. QED
    BY <2>1, <2>2
<1>4. \A p \in Procs : s # <<p, 0>>
  OBVIOUS
<1>5. QED
  BY <1>1, <1>2, <1>3, <1>4, TurnKept

\* The same for a task inside connect_printer() or disconnect().
LEMMA ProcTurn ==
    ASSUME IInv, NEW p \in Procs, JoinsLatest(p), UNCHANGED attempts,
           Passes(<<p, 0>>),
           p = "connector" =>
               \A q \in Procs : pc[q] \in {"joinBeat", "joinListener"} =>
                   awaiting[q] = attempts
    PROVE  Turn'
<1>1. ASSUME NEW q \in Procs, pc'[q] \in {"joinBeat", "joinListener"},
        awaiting'[q] # attempts
      PROVE  /\ pc'[q] = pc[q] /\ awaiting'[q] = awaiting[q]
             /\ pc'["connector"] = pc["connector"] /\ <<p, 0>> # <<q, 0>>
  <2>1. q # p
    BY <1>1 DEF JoinsLatest
  <2>2. pc'[q] = pc[q] /\ awaiting'[q] = awaiting[q]
    BY <2>1 DEF JoinsLatest
  <2>3. p # "connector"
    BY <1>1, <2>2
  <2>4. QED
    BY <2>1, <2>2, <2>3 DEF JoinsLatest, Procs
<1>2. QED
  BY <1>1, TurnKept DEF JoinsLatest

LEMMA IInvKept ==
    ASSUME IInv, [Next]_vars
    PROVE  IInv'
<1>1. \A p \in Procs : <<p, 0>> \in TaskNames
  BY DEF TaskNames
<1>0. OwnPings' /\ publishing' \subseteq (0..MaxAttempts) \X Attempts
  BY PublishingKept
<1>2. CASE Continues
  <2>1. PassedOK' /\ Passes(<<"connector", 0>>)
    BY <1>1, <1>2, <1>0, PassedTyped DEF Continues, Procs
  <2>2. CASE AttemptStart
    BY <2>1, <2>2, <1>0, AttemptStartStep, AttemptStartTurn DEF IInv
  <2>3. CASE AttemptFailed
    <3>1. Core'
      BY <2>1, <2>3, AttemptFailedKept
    <3>2. \A q \in Procs : pc[q] \in {"joinBeat", "joinListener"} => awaiting[q] = attempts
      BY <2>3 DEF AttemptFailed, IInv, Turn
    <3>3. JoinsLatest("connector") /\ UNCHANGED attempts
      <4>1. CASE authFailure /\ accessCode # "none"
        BY <2>3, <4>1 DEF AttemptFailed, Suspend, JoinsLatest, IInv, Core, TypeOK
      <4>2. CASE ~(authFailure /\ accessCode # "none")
        <5>1. PICK next \in {"idle", "attempt"} : Disconnect("connector", next)
          BY <2>3, <4>2 DEF AttemptFailed
        <5>2. QED
          BY <2>3, <5>1, DisconnectsLatest DEF AttemptFailed, Procs
      <4>3. QED
        BY <4>1, <4>2
    <3>4. Turn'
      BY <2>1, <3>2, <3>3, ProcTurn DEF Procs
    <3>5. QED
      BY <1>0, <3>1, <3>4 DEF IInv
  <2>4. QED
    BY <1>2, <2>2, <2>3 DEF Continues
<1>3. CASE Runs(<<"connector", 0>>, ConnectStart \/ ConnectorStep \/ Poll)
  <2>1. PassedOK' /\ Passes(<<"connector", 0>>)
    BY <1>1, <1>3, <1>0, PassedTyped DEF Runs, Procs
  <2>2. \A q \in Procs : pc[q] \in {"joinBeat", "joinListener"} => awaiting[q] = attempts
    BY <1>3, ConnectorHasTurn DEF Runs
  <2>3. ConnectStart \/ ConnectorStep \/ Poll
    BY <1>3 DEF Runs
  <2>4. Core'
    BY <2>1, <2>3, ConnectStartKept, ConnectorKept, QuietKept
  <2>5. JoinsLatest("connector") /\ UNCHANGED attempts
    <3>1. CASE ConnectStart
      BY <3>1, DisconnectsLatest DEF ConnectStart, Procs
    <3>2. CASE ConnectorStep
      BY <3>2, ConnectorStepJoins
    <3>3. CASE Poll
      BY <2>2, <3>3 DEF Poll, JoinsLatest, control, peers, Procs
    <3>4. QED
      BY <2>3, <3>1, <3>2, <3>3
  <2>6. Turn'
    BY <2>1, <2>2, <2>5, ProcTurn DEF Procs
  <2>7. QED
    BY <1>0, <2>4, <2>6 DEF IInv
<1>4. CASE \/ Runs(<<"owner", 0>>, OwnerDisconnects)
           \/ Runs(<<"cleanup", 0>>, CleanupRuns)
  <2>1. PICK p \in {"owner", "cleanup"} : Passes(<<p, 0>>) /\ \E next \in {"idle", "done"} :
          Disconnect(p, next) /\ UNCHANGED attempts
    BY <1>4 DEF Runs, OwnerDisconnects, CleanupRuns
  <2>2. PassedOK' /\ p \in Procs /\ p # "connector"
    BY <1>1, <2>1, <1>0, PassedTyped DEF Procs
  <2>3. Core'
    BY <1>4, <2>2, OthersDisconnect DEF Runs
  <2>4. JoinsLatest(p) /\ UNCHANGED attempts
    BY <2>1, <2>2, DisconnectsLatest
  <2>5. Turn'
    BY <2>1, <2>2, <2>4, ProcTurn
  <2>6. QED
    BY <1>0, <2>3, <2>5 DEF IInv
<1>5. ASSUME NEW p \in Procs, Runs(<<p, 0>>, DisconnectStep(p))
      PROVE  IInv'
  <2>1. PassedOK' /\ Passes(<<p, 0>>) /\ DisconnectStep(p)
    BY <1>1, <1>5, <1>0, PassedTyped DEF Runs
  <2>2. Core'
    BY <2>1, HeartbeatJoinedKept, ListenerJoinedKept, TransportClosedKept DEF DisconnectStep
  <2>3. p = "connector" =>
          \A q \in Procs : pc[q] \in {"joinBeat", "joinListener"} => awaiting[q] = attempts
    BY <1>5, ConnectorHasTurn DEF Runs
  <2>4. Turn'
    BY <2>1, <2>3, DisconnectStepJoins, ProcTurn
  <2>5. QED
    BY <1>0, <2>2, <2>4 DEF IInv
<1>6. ASSUME NEW a \in Attempts,
             \/ Runs(<<"listener", a>>, ListenerStep(a) \/ Message(a))
             \/ Runs(<<"beat", a>>, HeartbeatStep(a) \/ Publishes(a))
             \/ Suspended /\ (CommandsSent(a) \/ CommandFails(a)) /\ UNCHANGED passed
             \/ LinkChanges(a) /\ UNCHANGED passed
      PROVE  IInv'
  <2>1. PICK s \in {<<"listener", a>>, <<"beat", a>>} : Passes(s) \/ UNCHANGED passed
    BY <1>6 DEF Runs
  <2>2. s \in TaskNames /\ s \notin Procs \X {0}
    BY DEF TaskNames, Procs
  <2>3. PassedOK'
    BY <2>1, <2>2, <1>0, PassedTyped
  <2>4. \/ ListenerStep(a) \/ Message(a) \/ HeartbeatStep(a) \/ Publishes(a)
        \/ LinkChanges(a) \/ CommandsSent(a) \/ CommandFails(a)
    BY <1>6 DEF Runs
  <2>5. Core'
    BY <2>3, <2>4, ListenerKept, HeartbeatKept, QuietKept, CommandFailsStep
  <2>6. Turn'
    BY <2>1, <2>2, <2>4, OthersTurn
  <2>7. QED
    BY <1>0, <2>5, <2>6 DEF IInv
<1>7. CASE \/ Runs(<<"delay", 0>>, DelayExpires \/ DelayDone)
           \/ Suspended /\ CommandStarts /\ UNCHANGED passed
           \/ UNCHANGED vars
  <2>1. Passes(<<"delay", 0>>) \/ UNCHANGED passed
    BY <1>7 DEF Runs, vars
  <2>2. <<"delay", 0>> \in TaskNames /\ <<"delay", 0>> \notin Procs \X {0}
    BY DEF TaskNames, Procs
  <2>3. PassedOK'
    BY <2>1, <2>2, <1>0, PassedTyped
  <2>4. DelayExpires \/ DelayDone \/ CommandStarts \/ UNCHANGED vars
    BY <1>7 DEF Runs
  <2>5. Core'
    BY <2>3, <2>4, QuietKept
  <2>6. Turn'
    BY <2>1, <2>2, <2>4, OthersTurn
  <2>7. QED
    BY <1>0, <2>5, <2>6 DEF IInv
<1>8. QED
  BY <1>2, <1>3, <1>4, <1>5, <1>6, <1>7 DEF Next
-----------------------------------------------------------------------------
LEMMA IInvSupervised ==
    ASSUME IInv
    PROVE  Supervised
<1>1. TypeOK
  BY DEF IInv, Core
<1>2. OneListener
  BY DEF IInv, Core, NoStray, Found, OneListener
<1>3. QED
  BY <1>1, <1>2 DEF Supervised, IInv, Core, Watched, IsConnected

\* A connection that is_connected reports has its own listener and its own
\* heartbeat, and no message is handled twice (Supervised; connect_printer, disconnect
\* and the heartbeat of cc2/client.py).
THEOREM SupervisedTheorem == Spec => []Supervised
<1>1. QED
  BY CoreInit, IInvKept, IInvSupervised, PTL DEF Spec

\* A connection over a working link is given up by disconnect(), or when the publish
\* of a command that waits on an earlier client fails, and by nothing else
\* (HealthyConnectionKept; the listener, the heartbeat and _send_command of
\* cc2/client.py).
THEOREM HealthyConnectionTheorem == Spec => HealthyConnectionKept
<1>1. IInv /\ [Next]_vars =>
        (IsConnected /\ link[client] = "open" /\ ~IsConnected' =>
            \/ Disconnecting \/ gen' # gen
            \/ \E a \in Attempts \ {client} : <<0, a>> \in publishing /\ link[a] # "open")
  <2> SUFFICES ASSUME IInv, [Next]_vars, IsConnected, link[client] = "open",
                      ~Disconnecting, gen' = gen,
                      \A a \in Attempts \ {client} :
                          <<0, a>> \in publishing => link[a] = "open"
               PROVE  IsConnected'
    OBVIOUS
  <2>1. /\ connected /\ registered /\ client = attempts /\ client \in Attempts
          /\ gen \in Nat
        /\ listenerTask = client /\ listener[client] \in {"created", "running"}
        /\ listenerGen[client] \in {0, gen}
    BY ConstantsAssumption DEF IsConnected, IInv, Core, TypeOK, Numbers, Watched, Attempts
  <2>2. \A p \in Procs : pc[p] \notin {"joinBeat", "joinListener", "closing"}
    BY DEF Disconnecting
  <2>3. ~AttemptStart /\ ~OwnerDisconnects /\ ~CleanupRuns /\ ~ConnectStart
    <3>1. gen + 1 # gen
      BY <2>1
    <3>2. AttemptStart \/ OwnerDisconnects \/ CleanupRuns => gen' = gen + 1
      BY DEF AttemptStart, OwnerDisconnects, CleanupRuns, Disconnect
    <3>3. ~ConnectStart
      BY DEF ConnectStart
    <3>4. QED
      BY <3>1, <3>2, <3>3
  <2>4. \A p \in Procs : ~DisconnectStep(p)
    BY <2>2 DEF DisconnectStep, HeartbeatJoined, ListenerJoined, TransportClosed
  <2>5. CASE AttemptFailed
    <3>1. gen + 1 # gen
      BY <2>1
    <3>2. gen' = gen + 1 \/ UNCHANGED flags
      BY <2>5 DEF AttemptFailed, Disconnect
    <3>3. QED
      BY <3>1, <3>2 DEF flags, IsConnected
  <2>6. CASE ConnectorStep
    BY <2>1, <2>6 DEF ConnectorStep, EnterFails, Entered, Subscribed, StartListening,
       SubscribeFails, SubscribeRaises, RegistrationTimesOut, RegistrationAnswered,
       AttributesDone, InitialDataDone, flags, IsConnected
  <2>7. ASSUME NEW a \in Attempts, ListenerStep(a) \/ Message(a)
        PROVE  IsConnected'
    <3>1. CASE UNCHANGED flags
      BY <2>1, <3>1 DEF flags, IsConnected
    <3>2. CASE listener[a] = "running" /\ ListenerEnds(a)
            /\ (ListenerBreaks(a) \/ StaleMessage(a))
      <4>1. a = client /\ listenerGen[a] = gen
        BY <2>1, <3>2 DEF IInv, Core, NoStray, Found
      <4>2. QED
        BY <3>2, <4>1 DEF ListenerBreaks, StaleMessage, Down
    <3>3. listener[a] = "cancelled" => FALSE
      BY <2>1 DEF IInv, Core, NoStray, Found
    <3>4. QED
      BY <2>7, <3>1, <3>2, <3>3 DEF ListenerStep, Message, ListenerStarts, ListenerBreaks,
         ListenerCancelled, StaleMessage, StatusMessage, RegisterMessage
  <2>8. ASSUME NEW a \in Attempts, HeartbeatStep(a)
        PROVE  IsConnected'
    <3>1. CASE HeartbeatFails(a)
      <4>1. beat[a] = "running" /\ client = a
        <5>1. beat[a] = "running" /\ heartbeatTask = a /\ a # 0
          BY <3>1, ConstantsAssumption DEF HeartbeatFails, IInv, Core, NoStray, Found,
             Attempts
        <5>2. QED
          BY <2>1, <5>1 DEF IInv, Core, Numbers
      <4>2. PICK x \in Pings(a) : link[x[2]] # "open"
        BY <3>1 DEF HeartbeatFails
      <4>3. x[1] = a /\ x[1] \in {0, x[2]} /\ a # 0
        BY ConstantsAssumption DEF Pings, IInv, OwnPings, Attempts
      <4>4. QED
        BY <4>1, <4>2, <4>3
    <3>2. CASE HeartbeatEnds(a)
      BY <2>1, <3>2 DEF HeartbeatEnds, flags, IsConnected
    <3>3. QED
      BY <2>8, <3>1, <3>2 DEF HeartbeatStep
  <2>9. ASSUME NEW a \in Attempts, CommandFails(a)
        PROVE  FALSE
    BY <2>9 DEF CommandFails
  <2>10. CASE \/ \E a \in Attempts : LinkChanges(a) \/ Publishes(a) \/ CommandsSent(a)
              \/ Poll \/ DelayExpires \/ DelayDone \/ CommandStarts \/ UNCHANGED vars
    BY <2>1, <2>10 DEF LinkChanges, Publishes, HeartbeatPings, PingSent, CommandsSent, Poll,
       DelayExpires, DelayDone, CommandStarts, vars, flags, IsConnected
  <2>11. QED
    BY <2>3, <2>4, <2>5, <2>6, <2>7, <2>8, <2>9, <2>10 DEF Next, Continues, Runs
<1>2. QED
  BY <1>1, CoreInit, IInvKept, PTL DEF Spec, HealthyConnectionKept
=============================================================================
