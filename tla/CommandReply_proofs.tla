-------------------------- MODULE CommandReply_proofs --------------------------
(***************************************************************************)
(* Both clients implement CommandReply.  For SdcpClient, for every set of  *)
(* callers, whatever they ask for, and every number of jobs: type          *)
(* correctness, the three safety invariants, and the refinement.  Behind   *)
(* that, the same for CC2Requests, for every set of calls and codes and    *)
(* every bound on the request ids.                                         *)
(***************************************************************************)
EXTENDS SdcpClient, CC2Requests, TLAPS

USE ConstantsAssumption

\* The flag is raised with the listener's start and lowered with its end.
FlagInv == isConnected => listening

\* The command of the unloading is not sent before the unloading begins, and
\* a caller that has not called has nothing yet.
IdleInv ==
    /\ unload = "idle" => cmd["unload"].step = "idle"
    /\ \A c \in Callers : cmd[c].step = "idle" =>
           cmd[c].woken = "no" /\ cmd[c].given = "nothing yet"

\* A caller has one frame on the way, or else its event is being set or set;
\* a reply on the way is what the printer gave.
FramesInv ==
    \A f \in frames : f.to \in Callers =>
        /\ f.to \notin waking /\ cmd[f.to].woken # "answer"
        /\ f.is = "ask" => cmd[f.to].given = "nothing yet"
        /\ f.is = "reply" => cmd[f.to].given = f.what
        /\ \A g \in frames : g.to = f.to => g = f

\* A caller whose event is being set or set by a reply was given that reply,
\* and what it brought is stored.
WokenInv ==
    \A c \in Callers : c \in waking \/ cmd[c].woken = "answer" =>
        /\ cmd[c].given \in Replies
        /\ cmd[c].given = "detail" => history = "detailed"

\* The inductive invariant: AnswerIsStored is about a caller that has been
\* woken, so it takes FramesInv and WokenInv to follow the reply from the
\* printer to the caller; NobodyWaitsUnheard and TypeOK are inductive together
\* with IdleInv.
IInv ==
    /\ TypeOK
    /\ FlagInv
    /\ IdleInv
    /\ FramesInv
    /\ WokenInv
    /\ NobodyWaitsUnheard

PollSteps == {"idle", "waiting", "dialing", "hello1", "hello2", "hello3"}
UnloadSteps == {"idle", "goodbye", "done"}
Command == [step : Outcomes, woken : {"no", "answer", "closed"},
            given : Replies \union {"nothing yet"}]


-----------------------------------------------------------------------------
\* A command's record with one field replaced.
LEMMA CommandUpdates ==
    ASSUME NEW r \in Command
    PROVE  /\ \A s \in Outcomes : [r EXCEPT !.step = s] \in Command
           /\ \A w \in {"no", "answer", "closed"} : [r EXCEPT !.woken = w] \in Command
           /\ \A g \in Replies : [r EXCEPT !.given = g] \in Command
  BY DEF Command

LEMMA FreshCommand == Fresh \in Command
  BY DEF Fresh, Command, Outcomes

LEMMA TypedCommands ==
    ASSUME TypeOK
    PROVE  /\ cmd \in [Senders -> Command]
           /\ \A p \in Senders : cmd[p] \in Command
  BY DEF TypeOK, Command

LEMMA UpdatedFields ==
    ASSUME NEW r \in Command, NEW x
    PROVE  /\ [r EXCEPT !.step = x].step = x
           /\ [r EXCEPT !.step = x].woken = r.woken
           /\ [r EXCEPT !.step = x].given = r.given
           /\ [r EXCEPT !.woken = x].step = r.step
           /\ [r EXCEPT !.woken = x].woken = x
           /\ [r EXCEPT !.woken = x].given = r.given
           /\ [r EXCEPT !.given = x].step = r.step
           /\ [r EXCEPT !.given = x].woken = r.woken
           /\ [r EXCEPT !.given = x].given = x
  BY DEF Command

\* A frame whose sender has given up.
LEMMA OrphanFrame ==
    ASSUME NEW g \in Frames
    PROVE  [g EXCEPT !.to = Nobody] \in Frames /\ [g EXCEPT !.to = Nobody].to = Nobody
  BY DEF Frames

LEMMA StepSet ==
    ASSUME NEW r \in Command, NEW q, NEW s \in Outcomes, q = [r EXCEPT !.step = s]
    PROVE  q \in Command /\ q.step = s /\ q.given = r.given /\ q.woken = r.woken
  BY ZenonT(60), CommandUpdates, UpdatedFields

LEMMA WokenSet ==
    ASSUME NEW r \in Command, NEW q, NEW w \in {"no", "answer", "closed"},
           q = [r EXCEPT !.woken = w]
    PROVE  q \in Command /\ q.step = r.step /\ q.given = r.given /\ q.woken = w
  BY ZenonT(60), CommandUpdates, UpdatedFields

LEMMA GivenSet ==
    ASSUME NEW r \in Command, NEW q, NEW g \in Replies, q = [r EXCEPT !.given = g]
    PROVE  q \in Command /\ q.step = r.step /\ q.given = g /\ q.woken = r.woken
  BY ZenonT(60), CommandUpdates, UpdatedFields

-----------------------------------------------------------------------------
\* What the steps of a command do to its record, and to nobody else's.
LEMMA FinishFacts ==
    ASSUME TypeOK, NEW p \in Callers \union {"poll"}, NEW how \in {"returned", "timeout"},
           Finish(p, how)
    PROVE  /\ cmd' \in [Senders -> Command]
           /\ \A q \in Senders : q # p => cmd'[q] = cmd[q]
           /\ cmd'[p].step # "waiting"
           /\ p \in Callers => /\ cmd'[p].step = how
                               /\ cmd'[p].woken = cmd[p].woken /\ cmd'[p].given = cmd[p].given
<1> DEFINE r == IF p \in Callers THEN [cmd[p] EXCEPT !.step = how] ELSE Fresh
<1> p \in Senders
  BY DEF Senders
<1>1. /\ r \in Command /\ r.step # "waiting"
      /\ p \in Callers => r.step = how /\ r.woken = cmd[p].woken /\ r.given = cmd[p].given
  <2>1. CASE p \in Callers
    <3>1. r = [cmd[p] EXCEPT !.step = how] /\ cmd[p] \in Command /\ how \in Outcomes
      BY <2>1, TypedCommands DEF Outcomes
    <3> HIDE DEF r
    <3>2. QED
      BY <3>1, StepSet
  <2>2. CASE p \notin Callers
    BY <2>2, FreshCommand DEF Fresh
  <2>3. QED
    BY <2>1, <2>2
<1> cmd' = [cmd EXCEPT ![p] = r]
  BY DEF Finish
<1> HIDE DEF r
<1>2. QED
  BY <1>1, TypedCommands

LEMMA RefusedFacts ==
    ASSUME TypeOK, NEW p \in Senders, Refused(p, "connection_error")
    PROVE  /\ cmd' \in [Senders -> Command] /\ frames' = frames /\ waking' = waking
           /\ \A q \in Senders : q # p => cmd'[q] = cmd[q]
           /\ cmd'[p].step = IF p \in Callers THEN "connection_error" ELSE "idle"
           /\ cmd'[p].woken = cmd[p].woken /\ cmd'[p].given = cmd[p].given
<1> DEFINE s == IF p \in Callers THEN "connection_error" ELSE "idle"
           r == [cmd[p] EXCEPT !.step = s]
<1>1. /\ r \in Command /\ r.step = s
      /\ r.woken = cmd[p].woken /\ r.given = cmd[p].given
  <2>1. cmd[p] \in Command
    BY TypedCommands
  <2>2. s \in Outcomes
    BY DEF Outcomes
  <2> HIDE DEF s
  <2>3. QED
    BY ZenonT(60), <2>1, <2>2, CommandUpdates, UpdatedFields
<1>2. cmd' = [cmd EXCEPT ![p] = r] /\ frames' = frames /\ waking' = waking
  BY DEF Refused
<1> HIDE DEF r
<1>3. QED
  BY <1>1, <1>2, TypedCommands

LEMMA PublishFacts ==
    ASSUME TypeOK, NEW p \in Senders, NEW what, Publish(p, what)
    PROVE  /\ cmd' \in [Senders -> Command] /\ waking' = waking
           /\ \A q \in Senders : q # p => cmd'[q] = cmd[q]
           /\ cmd'[p].step = "waiting"
           /\ cmd'[p].woken = cmd[p].woken /\ cmd'[p].given = cmd[p].given
<1> DEFINE r == [cmd[p] EXCEPT !.step = "waiting"]
<1>1. /\ r \in Command /\ r.step = "waiting"
      /\ r.woken = cmd[p].woken /\ r.given = cmd[p].given
  <2>1. cmd[p] \in Command
    BY TypedCommands
  <2>2. "waiting" \in Outcomes
    BY DEF Outcomes
  <2>3. QED
    BY ZenonT(60), <2>1, <2>2, CommandUpdates, UpdatedFields
<1>2. cmd' = [cmd EXCEPT ![p] = r] /\ waking' = waking
  BY DEF Publish
<1> HIDE DEF r
<1>3. QED
  BY <1>1, <1>2, TypedCommands

LEMMA ShutFacts ==
    ASSUME NEW STATE C, C \in [Senders -> Command], Shut(C), NEW p \in Senders
    PROVE  /\ cmd'[p] \in Command
           /\ cmd'[p].step = C[p].step /\ cmd'[p].given = C[p].given
           /\ cmd'[p].woken = C[p].woken \/ (C[p].step = "waiting" /\ cmd'[p].woken = "closed")
           /\ ~(cmd'[p].step = "waiting" /\ cmd'[p].woken = "no")
           /\ cmd'[p].step = "idle" => cmd'[p] = C[p]
<1>1. C[p] \in Command
  OBVIOUS
<1>2. CASE C[p].step = "waiting" /\ C[p].woken = "no"
  <2>1. cmd'[p] = [C[p] EXCEPT !.woken = "closed"]
    BY <1>2 DEF Shut, Release
  <2>2. QED
    BY <1>1, <1>2, <2>1, WokenSet
<1>3. CASE ~(C[p].step = "waiting" /\ C[p].woken = "no")
  <2>1. cmd'[p] = C[p]
    BY <1>3 DEF Shut, Release
  <2>2. QED
    BY <1>1, <1>3, <2>1
<1>4. QED
  BY <1>2, <1>3

\* Setting events: those that wait silently are woken, the rest is left alone.
LEMMA WakeFacts ==
    ASSUME TypeOK, NEW P, Wake(P), NEW p \in Senders
    PROVE  /\ cmd'[p] \in Command
           /\ cmd'[p].step = cmd[p].step /\ cmd'[p].given = cmd[p].given
           /\ cmd'[p].woken = IF p \in P /\ Silent(p) THEN "answer" ELSE cmd[p].woken
<1>1. cmd[p] \in Command
  BY TypedCommands
<1>2. CASE p \in P /\ Silent(p)
  <2>1. cmd'[p] = [cmd[p] EXCEPT !.woken = "answer"]
    BY <1>2 DEF Wake
  <2>2. QED
    BY <1>1, <1>2, <2>1, WokenSet
<1>3. CASE ~(p \in P /\ Silent(p))
  <2>1. cmd'[p] = cmd[p]
    BY <1>3 DEF Wake
  <2>2. QED
    BY <1>1, <1>3, <2>1
<1>4. QED
  BY <1>2, <1>3

-----------------------------------------------------------------------------
\* The end of a command forgets its event and leaves its frames to Nobody.
LEMMA FinishIInv ==
    ASSUME IInv, NEW p \in Callers \union {"poll"}, cmd[p].step = "waiting",
           NEW how \in {"returned", "timeout"}, Finish(p, how),
           poll' \in PollSteps, UNCHANGED <<wire, connection, history, unload, jobs>>
    PROVE  IInv'
<1> TypeOK /\ p \in Senders
  BY DEF IInv, Senders
<1>1. p \in Callers => /\ cmd'[p].step # "idle"
                       /\ cmd'[p].woken = cmd[p].woken /\ cmd'[p].given = cmd[p].given
  BY FinishFacts
<1>2. /\ cmd' \in [Senders -> Command] /\ cmd'[p].step # "waiting"
      /\ \A q \in Senders : q # p => cmd'[q] = cmd[q]
  BY FinishFacts
<1>3. \A f \in frames' : f \in Frames /\ (f.to # Nobody => f \in frames /\ f.to # p)
  <2> SUFFICES ASSUME NEW f \in frames'
               PROVE  f \in Frames /\ (f.to # Nobody => f \in frames /\ f.to # p)
    OBVIOUS
  <2>1. \/ f \in frames /\ f.to # p
        \/ \E g \in frames : f = [g EXCEPT !.to = Nobody]
    BY DEF Finish, Orphaned
  <2>2. frames \subseteq Frames
    BY DEF TypeOK
  <2>3. QED
    BY <2>1, <2>2, OrphanFrame
<1>4. TypeOK'
  <2>1. ASSUME NEW f \in frames', f.to # Nobody PROVE cmd'[f.to].step = "waiting"
    <3>1. f.to \in Senders /\ f.to # p /\ cmd[f.to].step = "waiting"
      BY <1>3, <2>1 DEF TypeOK, Frames
    <3>2. QED
      BY <1>2, <3>1
  <2>2. waking' \subseteq Senders /\ \A q \in waking' : cmd'[q].step = "waiting"
    BY <1>2 DEF TypeOK, Finish
  <2>3. QED
    BY <1>2, <1>3, <2>1, <2>2 DEF TypeOK, Command, PollSteps, connection, jobs
<1>5. IdleInv' /\ FlagInv'
  BY ZenonT(60), <1>1, <1>2 DEF IInv, IdleInv, FlagInv, Senders, connection
<1>6. FramesInv'
  <2> SUFFICES ASSUME NEW f \in frames', f.to \in Callers
               PROVE  /\ f.to \notin waking' /\ cmd'[f.to].woken # "answer"
                      /\ f.is = "ask" => cmd'[f.to].given = "nothing yet"
                      /\ f.is = "reply" => cmd'[f.to].given = f.what
                      /\ \A g \in frames' : g.to = f.to => g = f
    BY DEF FramesInv
  <2>1. f \in frames /\ f.to # p /\ cmd'[f.to] = cmd[f.to]
    BY <1>2, <1>3 DEF Senders
  <2>2. \A g \in frames' : g.to = f.to => g \in frames
    BY <1>3
  <2>3. waking' \subseteq waking
    BY DEF Finish
  <2>4. QED
    BY <2>1, <2>2, <2>3 DEF IInv, FramesInv
<1>7. WokenInv' /\ NobodyWaitsUnheard'
  BY <1>1, <1>2 DEF IInv, WokenInv, NobodyWaitsUnheard, Silent, Finish, Senders, connection
<1>8. QED
  BY <1>4, <1>5, <1>6, <1>7 DEF IInv

\* A command that raises before it was sent changes no table.
LEMMA RefusedIInv ==
    ASSUME IInv, NEW p \in Senders, cmd[p].step = "idle", Refused(p, "connection_error"),
           isConnected' \in BOOLEAN, isConnected' => isConnected,
           poll' \in PollSteps, unload' \in UnloadSteps, unload' = "idle" => unload = "idle",
           UNCHANGED <<wire, link, listening, history, jobs>>
    PROVE  IInv'
<1> TypeOK
  BY DEF IInv
<1>1. /\ cmd'[p].step = IF p \in Callers THEN "connection_error" ELSE "idle"
      /\ cmd'[p].woken = cmd[p].woken /\ cmd'[p].given = cmd[p].given
  BY RefusedFacts
<1>2. /\ cmd' \in [Senders -> Command] /\ frames' = frames /\ waking' = waking
      /\ \A q \in Senders : q # p => cmd'[q] = cmd[q]
  BY RefusedFacts
<1>3. (\A f \in frames : f.to # Nobody => f.to \in Senders /\ f.to # p) /\ p \notin waking
  BY DEF TypeOK, Frames
<1>4. TypeOK'
  <2>1. \A f \in frames' : f.to # Nobody => cmd'[f.to].step = "waiting"
    BY <1>2, <1>3 DEF TypeOK
  <2>2. \A q \in waking' : cmd'[q].step = "waiting"
    BY <1>2, <1>3 DEF TypeOK
  <2>3. QED
    BY <1>2, <2>1, <2>2 DEF TypeOK, Command, PollSteps, UnloadSteps, jobs
<1>5. IdleInv' /\ FlagInv'
  <2>1. unload' = "idle" => cmd'["unload"].step = "idle"
    BY <1>1, <1>2 DEF IInv, IdleInv, Senders
  <2>2. \A c \in Callers : cmd'[c].step = "idle" => cmd'[c] = cmd[c]
    BY <1>1, <1>2 DEF Senders
  <2>3. QED
    BY <2>1, <2>2 DEF IInv, IdleInv, FlagInv
<1>6. \A c \in Callers : cmd'[c].woken = cmd[c].woken /\ cmd'[c].given = cmd[c].given
  BY <1>1, <1>2 DEF Senders
<1>7. FramesInv'
  BY <1>2, <1>6 DEF IInv, FramesInv
<1>8. WokenInv'
  BY <1>2, <1>6 DEF IInv, WokenInv
<1>9. NobodyWaitsUnheard'
  BY <1>1, <1>2 DEF IInv, NobodyWaitsUnheard, Silent, Senders
<1>10. QED
  BY <1>4, <1>5, <1>7, <1>8, <1>9 DEF IInv

\* The frame of a new command is the only one of its sender.
LEMMA PublishIInv ==
    ASSUME IInv, NEW p \in Senders, cmd[p].step = "idle", NEW what \in Asks,
           Publish(p, what), link # "none",
           poll' \in PollSteps, unload' \in UnloadSteps,
           unload' = "idle" => unload = "idle" /\ p # "unload",
           UNCHANGED <<wire, history, jobs>>
    PROVE  IInv'
<1> TypeOK
  BY DEF IInv
<1> DEFINE f0 == [to |-> p, is |-> "ask", what |-> what]
<1>1. /\ cmd'[p].step = "waiting"
      /\ cmd'[p].woken = cmd[p].woken /\ cmd'[p].given = cmd[p].given
  BY PublishFacts
<1>2. /\ cmd' \in [Senders -> Command] /\ waking' = waking
      /\ \A q \in Senders : q # p => cmd'[q] = cmd[q]
  BY PublishFacts
<1>3. frames' \subseteq frames \union {f0}
  BY DEF Publish
<1>4. f0 \in Frames /\ f0.to = p /\ f0.is = "ask"
  BY DEF Frames, Replies
<1> HIDE DEF f0
<1>5. (\A f \in frames : f.to \in Callers => f.to # p) /\ p \notin waking
  BY DEF TypeOK
<1>6. TypeOK'
  <2>1. ASSUME NEW f \in frames'
        PROVE  f \in Frames /\ (f.to # Nobody => cmd'[f.to].step = "waiting")
    <3>1. CASE f = f0
      BY <1>1, <1>2, <1>4, <3>1
    <3>2. CASE f \in frames
      <4>1. f \in Frames /\ (f.to # Nobody => f.to \in Senders /\ cmd[f.to].step = "waiting")
        BY <3>2 DEF TypeOK, Frames
      <4>2. QED
        BY <1>1, <1>2, <4>1
    <3>3. QED
      BY <1>3, <3>1, <3>2
  <2>2. \A q \in waking' : cmd'[q].step = "waiting"
    BY <1>2, <1>5 DEF TypeOK
  <2>3. QED
    BY <1>2, <2>1, <2>2 DEF TypeOK, Command, PollSteps, UnloadSteps, Publish, connection, jobs
<1>7. IdleInv' /\ FlagInv'
  <2>1. unload' = "idle" => cmd'["unload"].step = "idle"
    BY <1>2 DEF IInv, IdleInv, Senders
  <2>2. \A c \in Callers : cmd'[c].step = "idle" => cmd'[c] = cmd[c]
    BY <1>1, <1>2 DEF Senders
  <2>3. QED
    BY <2>1, <2>2 DEF IInv, IdleInv, FlagInv, Publish, connection
<1>8. FramesInv'
  <2>1. p \in Callers => p \notin waking /\ cmd[p].woken = "no" /\ cmd[p].given = "nothing yet"
    BY <1>5 DEF IInv, IdleInv
  <2>2. \A c \in Callers : cmd'[c].woken = cmd[c].woken /\ cmd'[c].given = cmd[c].given
    BY <1>1, <1>2 DEF Senders
  <2> SUFFICES ASSUME NEW f \in frames', f.to \in Callers
               PROVE  /\ f.to \notin waking /\ cmd[f.to].woken # "answer"
                      /\ f.is = "ask" => cmd[f.to].given = "nothing yet"
                      /\ f.is = "reply" => cmd[f.to].given = f.what
                      /\ \A g \in frames' : g.to = f.to => g = f
    BY <1>2, <2>2 DEF FramesInv
  <2>3. CASE f = f0
    BY <1>3, <1>4, <1>5, <2>1, <2>3
  <2>4. CASE f \in frames
    BY <1>3, <1>4, <1>5, <2>4 DEF IInv, FramesInv
  <2>5. QED
    BY <1>3, <2>3, <2>4
<1>9. WokenInv' /\ NobodyWaitsUnheard'
  BY <1>1, <1>2 DEF IInv, WokenInv, NobodyWaitsUnheard, Senders, Publish, connection
<1>10. QED
  BY <1>6, <1>7, <1>8, <1>9 DEF IInv

\* Closing a connection releases everyone and leaves nothing on the way; the
\* command of the unloading may be reset first.
LEMMA ShutIInv ==
    ASSUME IInv, NEW STATE C, C \in [Senders -> Command], Shut(C),
           C = cmd \/ (C = [cmd EXCEPT !["unload"] = Fresh] /\ unload' # "idle"),
           poll' \in PollSteps, unload' \in UnloadSteps, unload' = "idle" => unload = "idle",
           UNCHANGED <<wire, history, jobs>>
    PROVE  IInv'
<1> TypeOK
  BY DEF IInv
<1>1. ASSUME NEW p \in Senders
      PROVE  /\ cmd'[p] \in Command
             /\ cmd'[p].step = C[p].step /\ cmd'[p].given = C[p].given
             /\ cmd'[p].woken = C[p].woken \/ cmd'[p].woken = "closed"
             /\ ~(cmd'[p].step = "waiting" /\ cmd'[p].woken = "no")
             /\ cmd'[p].step = "idle" => cmd'[p] = C[p]
  BY ShutFacts
<1>2. cmd' \in [Senders -> Command]
  BY <1>1 DEF Shut, Release
<1>3. TypeOK'
  BY <1>2 DEF TypeOK, Command, PollSteps, UnloadSteps, Shut, jobs
<1>4. \A c \in Callers : c \in Senders /\ c # "unload" /\ C[c] = cmd[c]
  BY ZenonT(60) DEF Senders, TypeOK
<1>5. FlagInv' /\ FramesInv'
  BY DEF FlagInv, FramesInv, Shut
<1>6. IdleInv'
  <2>1. unload' = "idle" => cmd'["unload"].step = "idle"
    BY <1>1 DEF IInv, IdleInv, Senders
  <2>2. \A c \in Callers : cmd'[c].step = "idle" => cmd'[c] = cmd[c] /\ cmd[c].step = "idle"
    BY <1>1, <1>4
  <2>3. QED
    BY <2>1, <2>2 DEF IInv, IdleInv
<1>7. WokenInv' /\ NobodyWaitsUnheard'
  BY <1>1, <1>4 DEF IInv, WokenInv, NobodyWaitsUnheard, Silent, Shut
<1>8. QED
  BY <1>3, <1>5, <1>6, <1>7 DEF IInv

LEMMA ShutAsIsIInv ==
    ASSUME IInv, Shut(cmd), poll' \in PollSteps, unload' \in UnloadSteps,
           unload' = "idle" => unload = "idle", UNCHANGED <<wire, history, jobs>>
    PROVE  IInv'
<1>1. cmd \in [Senders -> Command]
  BY TypedCommands DEF IInv
<1>2. QED
  BY <1>1, ShutIInv

\* A step that leaves the commands, the frames and the events alone.
LEMMA AsideIInv ==
    ASSUME IInv, isConnected' \in BOOLEAN, listening' \in BOOLEAN,
           link' \in {"none", "opening", "up", "down"}, isConnected' => listening',
           link' = "none" => link = "none",
           poll' \in PollSteps, job' \in Jobs,
           filament' \in [shown : Jobs, fetched : Jobs, tried : Jobs, recent : BOOLEAN,
                          fetching : SUBSET Jobs],
           UNCHANGED <<wire, commands, history, unload>>
    PROVE  IInv'
<1>1. TypeOK'
  BY DEF IInv, TypeOK, PollSteps, commands
<1>2. FlagInv' /\ IdleInv' /\ FramesInv' /\ WokenInv' /\ NobodyWaitsUnheard'
  BY DEF IInv, FlagInv, IdleInv, FramesInv, WokenInv, NobodyWaitsUnheard, Silent, commands
<1>3. QED
  BY <1>1, <1>2 DEF IInv

-----------------------------------------------------------------------------
\* The printer answers a command it has got; the reply takes the frame's place.
LEMMA PrinterRepliesIInv ==
    ASSUME IInv, NEW f \in frames, PrinterReplies(f)
    PROVE  IInv'
<1> TypeOK
  BY DEF IInv
<1>1. PICK what \in Replies :
        /\ frames' = (frames \ {f}) \union {[f EXCEPT !.is = "reply", !.what = what]}
        /\ cmd' = IF f.to = Nobody THEN cmd ELSE [cmd EXCEPT ![f.to].given = what]
  BY ZenonT(60) DEF PrinterReplies, TypeOK, Frames, Replies
<1> DEFINE h == [f EXCEPT !.is = "reply", !.what = what]
<1>2. f \in Frames /\ h \in Frames /\ h.to = f.to /\ h.is = "reply" /\ h.what = what
  BY ZenonT(60) DEF Frames, TypeOK
<1>3. f.is = "ask" /\ UNCHANGED <<wire, connection, waking, history, steps, jobs>>
  BY DEF PrinterReplies
<1> HIDE DEF h
<1>4. ASSUME NEW p \in Senders
      PROVE  /\ cmd'[p] \in Command
             /\ cmd'[p].step = cmd[p].step /\ cmd'[p].woken = cmd[p].woken
             /\ cmd'[p].given = IF p = f.to /\ p # Nobody THEN what ELSE cmd[p].given
  <2>1. cmd[p] \in Command
    BY TypedCommands
  <2>2. CASE p = f.to /\ p # Nobody
    <3>1. cmd'[p] = [cmd[p] EXCEPT !.given = what]
      BY <1>1, <2>2, TypedCommands
    <3>2. QED
      BY <2>1, <2>2, <3>1, GivenSet
  <2>3. CASE ~(p = f.to /\ p # Nobody)
    <3>1. cmd'[p] = cmd[p]
      BY <1>1, <2>3, TypedCommands
    <3>2. QED
      BY <2>1, <2>3, <3>1
  <2>4. QED
    BY <2>2, <2>3
<1>5. cmd' \in [Senders -> Command]
  BY <1>1, <1>4, TypedCommands
<1>6. frames' = (frames \ {f}) \union {h}
  BY <1>1 DEF h
<1>7. TypeOK'
  <2>1. ASSUME NEW g \in frames'
        PROVE  g \in Frames /\ (g.to # Nobody => cmd'[g.to].step = "waiting")
    <3>1. g \in Frames /\ (g = h \/ g \in frames)
      BY <1>2, <1>6 DEF TypeOK
    <3>2. g.to # Nobody => g.to \in Senders /\ cmd[g.to].step = "waiting"
      BY ZenonT(60), <1>2, <3>1 DEF TypeOK, Frames
    <3>3. QED
      BY <1>4, <3>1, <3>2
  <2>2. \A q \in waking' : cmd'[q].step = "waiting"
    BY <1>3, <1>4 DEF TypeOK
  <2>3. QED
    BY ZenonT(60), <1>3, <1>5, <2>1, <2>2 DEF TypeOK, Command, connection, steps, jobs
<1>8. FlagInv' /\ NobodyWaitsUnheard'
  BY <1>3, <1>4 DEF IInv, FlagInv, NobodyWaitsUnheard, Silent, Senders, connection
<1>9. IdleInv'
  <2>1. \A p \in Senders : p = f.to /\ p # Nobody => cmd[p].step = "waiting"
    BY DEF TypeOK
  <2>2. QED
    BY ZenonT(60), <1>3, <1>4, <2>1 DEF IInv, IdleInv, Senders, steps
<1>10. f.to \in Callers => f.to \notin waking /\ cmd[f.to].woken # "answer"
                           /\ \A g \in frames : g.to = f.to => g = f
  BY DEF IInv, FramesInv
<1>11. FramesInv'
  <2> SUFFICES ASSUME NEW g \in frames', g.to \in Callers
               PROVE  /\ g.to \notin waking' /\ cmd'[g.to].woken # "answer"
                      /\ g.is = "ask" => cmd'[g.to].given = "nothing yet"
                      /\ g.is = "reply" => cmd'[g.to].given = g.what
                      /\ \A k \in frames' : k.to = g.to => k = g
    BY DEF FramesInv
  <2>1. CASE g = h
    BY <1>2, <1>3, <1>4, <1>6, <1>10, <2>1 DEF Senders
  <2>2. CASE g \in frames /\ g # f
    <3>1. g.to # f.to
      BY <1>10, <2>2
    <3>2. QED
      BY ZenonT(60), <1>2, <1>3, <1>4, <1>6, <2>2, <3>1 DEF IInv, FramesInv, Senders
  <2>3. QED
    BY <1>6, <2>1, <2>2
<1>12. WokenInv'
  BY <1>3, <1>4, <1>10 DEF IInv, WokenInv, Senders
<1>13. QED
  BY <1>7, <1>8, <1>9, <1>11, <1>12 DEF IInv

\* The listener stores what came before anyone is woken by it.
LEMMA ReceiveIInv ==
    ASSUME IInv, NEW f \in frames, Receive(f)
    PROVE  IInv'
<1> TypeOK
  BY DEF IInv
<1>1. /\ f.is = "reply" /\ frames' = frames \ {f} /\ history' = Stored(f.what)
      /\ UNCHANGED <<wire, connection, steps, jobs>>
  BY DEF Receive
<1>2. f \in Frames
  BY DEF TypeOK
<1>3. /\ history' \in {"unknown", "listed", "detailed"}
      /\ f.what = "detail" \/ history = "detailed" => history' = "detailed"
  BY <1>1 DEF Stored, TypeOK
<1> DEFINE P == IF wire = "mqtt" THEN WokenBy(f) ELSE {}
<1>4. ASSUME NEW p \in Senders
      PROVE  /\ cmd'[p] \in Command
             /\ cmd'[p].step = cmd[p].step /\ cmd'[p].given = cmd[p].given
             /\ cmd'[p].woken = IF p \in P /\ Silent(p) THEN "answer" ELSE cmd[p].woken
  BY WakeFacts, TypedCommands DEF Receive
<1>5. cmd' \in [Senders -> Command]
  BY <1>4, TypedCommands DEF Receive, Wake
<1>6. waking' \subseteq Senders /\ waking \subseteq waking'
      /\ \A p \in waking' : p \in waking \/ (p = f.to /\ p # Nobody /\ Silent(p))
  <2>1. f.to # Nobody => f.to \in Senders
    BY <1>2 DEF Frames
  <2>2. waking' = waking \/ waking' = waking \union {p \in WokenBy(f) : Silent(p)}
    BY DEF Receive
  <2>3. \A p \in WokenBy(f) : p = f.to /\ p # Nobody
    BY DEF WokenBy
  <2>4. QED
    BY <2>1, <2>2, <2>3 DEF TypeOK
<1>7. TypeOK'
  <2>1. \A g \in frames' : g.to # Nobody => cmd'[g.to].step = "waiting"
    BY <1>1, <1>4 DEF TypeOK, Frames
  <2>2. \A p \in waking' : cmd'[p].step = "waiting"
    BY ZenonT(60), <1>4, <1>6 DEF TypeOK, Silent
  <2>3. QED
    BY ZenonT(60), <1>1, <1>3, <1>5, <1>6, <2>1, <2>2 DEF TypeOK, Command, connection, steps, jobs
<1>8. \A p \in P : p = f.to /\ p # Nobody
  BY DEF WokenBy
<1> HIDE DEF P
<1>9. FlagInv' /\ NobodyWaitsUnheard'
  BY <1>1, <1>4 DEF IInv, FlagInv, NobodyWaitsUnheard, Silent, Senders, connection
<1>10. IdleInv'
  BY <1>1, <1>4 DEF IInv, IdleInv, Senders, Silent, steps
<1>11. f.to \in Callers => /\ cmd[f.to].given = f.what
                           /\ \A g \in frames : g.to = f.to => g = f
  BY <1>1 DEF IInv, FramesInv
<1>12. FramesInv'
  <2> SUFFICES ASSUME NEW g \in frames', g.to \in Callers
               PROVE  /\ g.to \notin waking' /\ cmd'[g.to].woken # "answer"
                      /\ g.is = "ask" => cmd'[g.to].given = "nothing yet"
                      /\ g.is = "reply" => cmd'[g.to].given = g.what
                      /\ \A k \in frames' : k.to = g.to => k = g
    BY DEF FramesInv
  <2>1. g \in frames /\ g.to # f.to /\ g.to \in Senders
    BY <1>1, <1>11 DEF Senders
  <2>2. QED
    BY <1>1, <1>4, <1>6, <1>8, <2>1 DEF IInv, FramesInv
<1>13. WokenInv'
  <2> SUFFICES ASSUME NEW c \in Callers, c \in waking' \/ cmd'[c].woken = "answer"
               PROVE  cmd'[c].given \in Replies /\
                      (cmd'[c].given = "detail" => history' = "detailed")
    BY DEF WokenInv
  <2>1. cmd'[c].given = cmd[c].given
    BY <1>4 DEF Senders
  <2>2. CASE c = f.to
    BY <1>2, <1>3, <1>11, <2>1, <2>2 DEF Frames
  <2>3. CASE c # f.to
    BY <1>3, <1>4, <1>6, <1>8, <2>1, <2>3 DEF IInv, WokenInv, Senders
  <2>4. QED
    BY <2>2, <2>3
<1>14. QED
  BY <1>7, <1>9, <1>10, <1>12, <1>13 DEF IInv

\* The background task of the WebSocket client sets the event.
LEMMA SetEventIInv ==
    ASSUME IInv, NEW p \in Senders, SetEvent(p)
    PROVE  IInv'
<1> TypeOK
  BY DEF IInv
<1>1. /\ p \in waking /\ waking' = waking \ {p} /\ Wake({p})
      /\ UNCHANGED <<wire, connection, frames, history, steps, jobs>>
  BY DEF SetEvent
<1>2. ASSUME NEW q \in Senders
      PROVE  /\ cmd'[q] \in Command
             /\ cmd'[q].step = cmd[q].step /\ cmd'[q].given = cmd[q].given
             /\ cmd'[q].woken = IF q = p /\ Silent(p) THEN "answer" ELSE cmd[q].woken
  BY <1>1, WakeFacts
<1>3. cmd' \in [Senders -> Command]
  BY <1>1, <1>2 DEF Wake
<1>4. TypeOK'
  <2>1. \A g \in frames' : g.to # Nobody => cmd'[g.to].step = "waiting"
    BY <1>1, <1>2 DEF TypeOK, Frames
  <2>2. \A q \in waking' : cmd'[q].step = "waiting"
    BY <1>1, <1>2 DEF TypeOK
  <2>3. QED
    BY ZenonT(60), <1>1, <1>3, <2>1, <2>2 DEF TypeOK, Command, connection, steps, jobs
<1>5. FlagInv' /\ NobodyWaitsUnheard'
  BY <1>1, <1>2 DEF IInv, FlagInv, NobodyWaitsUnheard, Silent, Senders, connection
<1>6. IdleInv'
  BY <1>1, <1>2 DEF IInv, IdleInv, Senders, Silent, steps
<1>7. FramesInv' /\ WokenInv'
  BY ZenonT(60), <1>1, <1>2 DEF IInv, FramesInv, WokenInv, Senders
<1>8. QED
  BY <1>4, <1>5, <1>6, <1>7 DEF IInv

-----------------------------------------------------------------------------
\* Filament data with some of its fields replaced.
FilamentData == [shown : Jobs, fetched : Jobs, tried : Jobs, recent : BOOLEAN,
                 fetching : SUBSET Jobs]

LEMMA FilamentUpdates ==
    ASSUME NEW r \in FilamentData, NEW j \in Jobs, NEW k \in Jobs, NEW S \in SUBSET Jobs
    PROVE  /\ [r EXCEPT !.shown = k, !.fetched = 0, !.tried = j, !.recent = TRUE,
                        !.fetching = S] \in FilamentData
           /\ [r EXCEPT !.shown = j, !.fetched = j, !.fetching = S] \in FilamentData
           /\ [r EXCEPT !.fetching = S] \in FilamentData
           /\ [r EXCEPT !.recent = FALSE] \in FilamentData
<1> 0 \in Jobs
  BY DEF Jobs
<1>1. QED
  BY DEF FilamentData

LEMMA InitIInv == Init => IInv
<1> SUFFICES ASSUME Init PROVE IInv
  OBVIOUS
<1>1. cmd \in [Senders -> Command]
  BY FreshCommand DEF Init
<1>2. 0 \in Jobs
  BY DEF Jobs
<1>3. TypeOK
  BY <1>1, <1>2 DEF Init, TypeOK, Command
<1>4. FlagInv /\ FramesInv /\ WokenInv /\ IdleInv
  BY DEF Init, FlagInv, FramesInv, WokenInv, IdleInv, Fresh, Senders
<1>5. NobodyWaitsUnheard
  BY DEF Init, NobodyWaitsUnheard, Silent, Fresh, Senders
<1>6. QED
  BY <1>3, <1>4, <1>5 DEF IInv

LEMMA NextIInv == IInv /\ [Next]_vars => IInv'
<1> SUFFICES ASSUME IInv, [Next]_vars PROVE IInv'
  OBVIOUS
<1> TypeOK
  BY DEF IInv
<1>1. ASSUME NEW c \in Callers, NEW what \in {"detail", "list"}, Call(c, what) PROVE IInv'
  <2>1. c \in Senders /\ c # "unload" /\ cmd[c].step = "idle" /\ what \in Asks
    BY <1>1 DEF Call, Senders, Asks
  <2>2. UNCHANGED <<wire, history, steps, jobs>> /\ poll' \in PollSteps /\ unload' \in UnloadSteps
    BY <1>1 DEF Call, TypeOK, steps, PollSteps, UnloadSteps
  <2>3. CASE Refused(c, "connection_error") /\ UNCHANGED connection
    BY <2>1, <2>2, <2>3, RefusedIInv DEF connection, steps, TypeOK
  <2>4. CASE Connected /\ Publish(c, what)
    BY <2>1, <2>2, <2>4, PublishIInv DEF Connected, TransportOpen, steps
  <2>5. CASE PublishFails(c)
    BY <2>1, <2>2, <2>5, RefusedIInv DEF PublishFails, steps
  <2>6. QED
    BY <1>1, <2>3, <2>4, <2>5 DEF Call
<1>2. ASSUME NEW c \in Callers, Return(c) \/ TimesOut(c) PROVE IInv'
  BY <1>2, FinishIInv DEF Return, TimesOut, Woken, Silent, TypeOK, steps, PollSteps
<1>3. ASSUME NEW f \in frames, PrinterReplies(f) PROVE IInv'
  BY <1>3, PrinterRepliesIInv
<1>4. ASSUME NEW f \in frames, Receive(f) PROVE IInv'
  BY <1>4, ReceiveIInv
<1>5. ASSUME NEW p \in Senders, SetEvent(p) PROVE IInv'
  BY <1>5, SetEventIInv
<1>6. CASE LinkBreaks
  <2>1. TypeOK'
    BY <1>6 DEF LinkBreaks, TypeOK, steps, jobs
  <2>2. FlagInv' /\ IdleInv' /\ FramesInv' /\ WokenInv' /\ NobodyWaitsUnheard'
    BY <1>6 DEF LinkBreaks, IInv, FlagInv, IdleInv, FramesInv, WokenInv, NobodyWaitsUnheard,
                Silent, steps
  <2>3. QED
    BY <2>1, <2>2 DEF IInv
<1>7. CASE ListenerEnds
  BY <1>7, AsideIInv DEF ListenerEnds, TypeOK, steps, jobs, PollSteps
<1>8. CASE Connect
  <2>1. poll' \in PollSteps /\ unload' \in UnloadSteps /\ (unload' = "idle" => unload = "idle")
    BY <1>8 DEF Connect, TypeOK, PollSteps, UnloadSteps
  <2>2. QED
    BY <1>8, <2>1, ShutAsIsIInv DEF Connect
<1>9. CASE Open
  BY <1>9, AsideIInv DEF Open, TypeOK, IInv, FlagInv, jobs, PollSteps
<1>10. CASE DialSucceeds
  BY <1>10, AsideIInv DEF DialSucceeds, TypeOK, jobs, PollSteps
<1>11. CASE DialFails
  BY <1>11, ShutAsIsIInv DEF DialFails, TypeOK, PollSteps, UnloadSteps
<1>12. CASE Hello
  <2>1. "poll" \in Senders /\ cmd["poll"].step = "idle" /\ "other" \in Asks /\ "poll" # "unload"
    BY <1>12 DEF Hello, Senders, Asks
  <2>2. UNCHANGED <<wire, history, jobs>> /\ poll' \in PollSteps /\ unload' \in UnloadSteps
        /\ unload' = unload
    BY <1>12 DEF Hello, TypeOK, PollSteps, UnloadSteps
  <2>3. CASE Refused("poll", "connection_error") /\ UNCHANGED connection
    BY <2>1, <2>2, <2>3, RefusedIInv DEF connection, TypeOK
  <2>4. CASE Connected /\ Publish("poll", "other")
    BY <2>1, <2>2, <2>4, PublishIInv DEF Connected, TransportOpen
  <2>5. CASE PublishFails("poll")
    BY <2>1, <2>2, <2>5, RefusedIInv DEF PublishFails
  <2>6. QED
    BY <1>12, <2>3, <2>4, <2>5 DEF Hello
<1>13. CASE HelloAnswered
  BY <1>13, FinishIInv DEF HelloAnswered, Woken, NextHello, PollSteps
<1>14. CASE HelloTimesOut
  BY <1>14, FinishIInv DEF HelloTimesOut, Silent, PollSteps
<1>15. CASE Disconnect
  <2>1. "unload" \in Senders /\ cmd["unload"].step = "idle" /\ "other" \in Asks
    BY <1>15 DEF Disconnect, Senders, Asks, IInv, IdleInv
  <2>2. UNCHANGED <<wire, history, jobs>> /\ poll' \in PollSteps
        /\ unload' \in UnloadSteps /\ unload' # "idle"
    BY <1>15 DEF Disconnect, TypeOK, PollSteps, UnloadSteps
  <2>3. CASE link # "none" /\ Publish("unload", "other")
    BY <2>1, <2>2, <2>3, PublishIInv
  <2>4. CASE PublishFails("unload")
    BY <2>1, <2>2, <2>4, RefusedIInv DEF PublishFails
  <2>5. CASE Shut(cmd)
    BY <2>2, <2>5, ShutAsIsIInv
  <2>6. QED
    BY <1>15, <2>3, <2>4, <2>5 DEF Disconnect
<1>16. CASE Disconnected
  <2>1. [cmd EXCEPT !["unload"] = Fresh] \in [Senders -> Command]
    BY TypedCommands, FreshCommand
  <2>2. poll' \in PollSteps /\ unload' \in UnloadSteps /\ unload' # "idle"
    BY <1>16 DEF Disconnected, TypeOK, PollSteps, UnloadSteps
  <2>3. QED
    BY <1>16, <2>1, <2>2, ShutIInv DEF Disconnected
<1>17. ASSUME NEW j \in Jobs, Status(j) PROVE IInv'
  <2>1. filament \in FilamentData
    BY DEF TypeOK, FilamentData
  <2>2. 0 \in Jobs
    BY DEF Jobs
  <2>3. (IF filament.fetched # 0 THEN 0 ELSE filament.shown) \in Jobs
        /\ filament.fetching \union {j} \in SUBSET Jobs
    BY <2>1, <2>2 DEF FilamentData
  <2>4. LookUp(j) \in FilamentData
    BY <2>1, <2>3, FilamentUpdates DEF LookUp
  <2>5. filament' \in FilamentData /\ job' \in Jobs
    BY <1>17, <2>1, <2>4 DEF Status
  <2>6. QED
    BY <1>17, <2>5, AsideIInv
       DEF Status, TypeOK, IInv, FlagInv, connection, steps, PollSteps, FilamentData
<1>18. ASSUME NEW j \in Jobs, Fetched(j) PROVE IInv'
  <2>1. filament \in FilamentData
    BY DEF TypeOK, FilamentData
  <2>2. filament.fetching \ {j} \in SUBSET Jobs
    BY <2>1 DEF FilamentData
  <2>3. ProxyHas(j) \in FilamentData
    BY <2>1, <2>2, FilamentUpdates DEF ProxyHas
  <2>4. [filament EXCEPT !.fetching = @ \ {j}] \in FilamentData
    BY <2>1, <2>2, FilamentUpdates
  <2>5. filament' \in FilamentData
    BY <1>18, <2>3, <2>4 DEF Fetched
  <2>6. QED
    BY <1>18, <2>5, AsideIInv
       DEF Fetched, TypeOK, IInv, FlagInv, connection, steps, PollSteps, FilamentData
<1>19. CASE RetryIsDue
  <2>1. filament' \in FilamentData
    BY <1>19, FilamentUpdates DEF RetryIsDue, TypeOK, FilamentData
  <2>2. QED
    BY <1>19, <2>1, AsideIInv
       DEF RetryIsDue, TypeOK, IInv, FlagInv, connection, steps, PollSteps, FilamentData
<1>20. CASE UNCHANGED vars
  BY <1>20, AsideIInv DEF vars, TypeOK, IInv, FlagInv, connection, commands, steps, jobs, PollSteps
<1>21. QED
  BY <1>1, <1>2, <1>3, <1>4, <1>5, <1>6, <1>7, <1>8, <1>9, <1>10, <1>11, <1>12, <1>13,
     <1>14, <1>15, <1>16, <1>17, <1>18, <1>19, <1>20 DEF Next

THEOREM Invariance == Spec => []IInv
  BY InitIInv, NextIInv, PTL DEF Spec

-----------------------------------------------------------------------------
\* The declared types of every variable, and no frame or event under way for
\* a command that is over.
THEOREM TypeCorrect == Spec => []TypeOK
<1>1. IInv => TypeOK
  BY DEF IInv
<1>2. QED
  BY <1>1, Invariance, PTL

\* Someone listens on every connection that is_connected reports, also when
\* the connections of several polls and the unloading overlap.
THEOREM ConnectedIsHeardTheorem == Spec => []ConnectedIsHeard
<1>1. IInv => ConnectedIsHeard
  BY DEF IInv, FlagInv, ConnectedIsHeard, Connected
<1>2. QED
  BY <1>1, Invariance, PTL

\* A caller woken by its own reply finds there what the reply brought.
THEOREM AnswerIsStoredTheorem == Spec => []AnswerIsStored
<1>1. IInv => AnswerIsStored
  BY DEF IInv, WokenInv, AnswerIsStored
<1>2. QED
  BY <1>1, Invariance, PTL

\* Nobody waits for a reply on a connection that has been closed.
THEOREM NobodyWaitsUnheardTheorem == Spec => []NobodyWaitsUnheard
<1>1. IInv => NobodyWaitsUnheard
  BY DEF IInv
<1>2. QED
  BY <1>1, Invariance, PTL

-----------------------------------------------------------------------------
\* What the callers see does not change unless the step of a command does, or
\* what was given to it.
LEMMA Quiet ==
    ASSUME \A c \in Callers :
               /\ cmd'[c].step = cmd[c].step /\ cmd'[c].given = cmd[c].given
               /\ cmd[c].step # "waiting" => cmd'[c].woken = cmd[c].woken
    PROVE  UNCHANGED Reply!vars
<1>1. \A c \in Callers : Phase(c)' = Phase(c) /\ cmd'[c].given = cmd[c].given
  BY DEF Phase
<1>2. ASSUME NEW c \in Callers PROVE Outcome(c)' = Outcome(c)
  <2>1. CASE Phase(c) # "done"
    BY <1>1, <2>1 DEF Outcome
  <2>2. CASE Phase(c) = "done"
    <3>1. cmd'[c].step = cmd[c].step /\ cmd'[c].woken = cmd[c].woken
      BY <2>2 DEF Phase
    <3>2. QED
      BY <1>1, <3>1 DEF Outcome
  <2>3. QED
    BY <2>1, <2>2
<1>3. QED
  BY <1>1, <1>2 DEF Reply!vars

\* A caller's command that raises before it was sent has not been issued.
LEMMA RefusedQuiet ==
    ASSUME TypeOK, NEW c \in Callers, cmd[c].step = "idle", Refused(c, "connection_error")
    PROVE  UNCHANGED Reply!vars
<1>1. c \in Senders /\ \A d \in Callers : d \in Senders
  BY DEF Senders
<1>2. \A d \in Callers : Phase(d)' = Phase(d) /\ cmd'[d].given = cmd[d].given
  BY <1>1, RefusedFacts DEF Phase
<1>3. \A d \in Callers : Outcome(d)' = Outcome(d)
  BY <1>1, RefusedFacts DEF Phase, Outcome
<1>4. QED
  BY <1>2, <1>3 DEF Reply!vars

LEMMA PublishIssues ==
    ASSUME TypeOK, NEW c \in Callers, NEW what, cmd[c].step = "idle", Publish(c, what)
    PROVE  Reply!Issue(c)
<1>1. c \in Senders /\ \A d \in Callers : d \in Senders
  BY DEF Senders
<1>2. \A d \in Callers : /\ cmd'[d].given = cmd[d].given
                         /\ d # c => Phase(d)' = Phase(d)
                         /\ Phase(c) = "idle" /\ Phase(c)' = "open"
  BY <1>1, PublishFacts DEF Phase
<1>3. \A d \in Callers : Outcome(d)' = Outcome(d)
  BY <1>1, PublishFacts DEF Phase, Outcome
<1>4. QED
  BY <1>2, <1>3 DEF Reply!Issue

\* A command that ends completes in the abstract specification.
LEMMA FinishCompletes ==
    ASSUME IInv, NEW c \in Callers, cmd[c].step = "waiting",
           NEW how \in {"returned", "timeout"}, Finish(c, how),
           how = "returned" => cmd[c].woken # "no"
    PROVE  Reply!Complete(c)
<1> TypeOK /\ c \in Senders /\ \A d \in Callers : d \in Senders
  BY DEF IInv, Senders
<1>1. /\ cmd'[c].step = how
      /\ cmd'[c].woken = cmd[c].woken /\ cmd'[c].given = cmd[c].given
      /\ \A d \in Callers : d # c => cmd'[d] = cmd[d]
  BY FinishFacts
<1>2. /\ Phase(c) = "open" /\ Phase(c)' = "done"
      /\ \A d \in Callers : d # c => Phase(d)' = Phase(d) /\ Outcome(d)' = Outcome(d)
  <2>1. Phase(c) = "open" /\ Phase(c)' = "done"
    BY <1>1 DEF Phase
  <2>2. ASSUME NEW d \in Callers, d # c
        PROVE  Phase(d)' = Phase(d) /\ Outcome(d)' = Outcome(d)
    <3>1. cmd'[d] = cmd[d]
      BY <1>1, <2>2
    <3>2. QED
      BY <3>1 DEF Phase, Outcome
  <2>3. QED
    BY <2>1, <2>2
<1>3. \A d \in Callers : cmd'[d].given = cmd[d].given
  BY <1>1
<1>4. Outcome(c)' \in {Reply!Answer(c, code) : code \in {cmd[c].given} \intersect Replies}
                      \union Reply!Failures
  <2>1. CASE how = "timeout"
    BY <1>1, <1>2, <2>1 DEF Outcome, Reply!Failures, Reply!Failure
  <2>2. CASE how = "returned" /\ cmd[c].woken = "closed"
    BY <1>1, <1>2, <2>2 DEF Outcome, Reply!Failures, Reply!Failure
  <2>3. CASE how = "returned" /\ cmd[c].woken = "answer"
    <3>1. cmd[c].given \in Replies
      BY <2>3 DEF IInv, WokenInv
    <3>2. Outcome(c)' = Reply!Answer(c, cmd[c].given)
      BY <1>1, <1>2, <2>3 DEF Outcome, Reply!Answer
    <3>3. QED
      BY <3>1, <3>2
  <2>4. QED
    BY <2>1, <2>2, <2>3 DEF TypeOK
<1>5. QED
  BY <1>2, <1>3, <1>4 DEF Reply!Complete

\* The reply a caller is given is one of the printer's answers to it.
LEMMA RepliesAnswer ==
    ASSUME IInv, NEW f \in frames, PrinterReplies(f), f.to \in Callers
    PROVE  \E what \in Replies : Reply!PrinterAnswers(f.to, what)
<1> TypeOK /\ \A d \in Callers : d \in Senders
  BY DEF IInv, Senders
<1>1. PICK what \in Replies : cmd' = [cmd EXCEPT ![f.to].given = what]
  BY ZenonT(60) DEF PrinterReplies, TypeOK, Frames, Replies
<1>2. cmd[f.to].step = "waiting" /\ cmd[f.to].given = "nothing yet"
  BY DEF PrinterReplies, TypeOK, IInv, FramesInv
<1>3. /\ cmd'[f.to].step = "waiting" /\ cmd'[f.to].given = what
      /\ \A d \in Callers : d # f.to => cmd'[d] = cmd[d]
  <2>1. cmd[f.to] \in Command /\ cmd'[f.to] = [cmd[f.to] EXCEPT !.given = what]
    BY <1>1, TypedCommands
  <2>2. cmd'[f.to].step = cmd[f.to].step /\ cmd'[f.to].given = what
    BY <2>1, GivenSet
  <2>3. \A d \in Callers : d # f.to => cmd'[d] = cmd[d]
    BY <1>1, TypedCommands
  <2>4. QED
    BY <1>2, <2>2, <2>3
<1>4. ASSUME NEW d \in Callers PROVE Phase(d)' = Phase(d) /\ Outcome(d)' = Outcome(d)
  <2>1. CASE d = f.to
    <3>1. Phase(d) = "open" /\ Phase(d)' = "open"
      BY <1>2, <1>3, <2>1 DEF Phase
    <3>2. QED
      BY <3>1 DEF Outcome
  <2>2. CASE d # f.to
    <3>1. cmd'[d] = cmd[d]
      BY <1>3, <2>2
    <3>2. QED
      BY <3>1 DEF Phase, Outcome
  <2>3. QED
    BY <2>1, <2>2
<1>5. Phase(f.to) = "open"
  BY <1>2 DEF Phase
<1>6. "nothing yet" \notin Replies
  BY DEF Replies, Asks
<1>7. \A d \in Callers : {cmd'[d].given} \intersect Replies =
         IF d = f.to THEN ({cmd[d].given} \intersect Replies) \union {what}
                     ELSE {cmd[d].given} \intersect Replies
  BY ZenonT(60), <1>2, <1>3, <1>6
<1>8. Reply!PrinterAnswers(f.to, what)
  BY <1>4, <1>5, <1>7 DEF Reply!PrinterAnswers
<1>9. QED
  BY <1>8

\* Every step of the client is a step of CommandReply, or leaves what the
\* callers see unchanged.
LEMMA StepRefines == IInv /\ [Next]_vars => [Reply!Next]_(Reply!vars)
<1> SUFFICES ASSUME IInv, [Next]_vars PROVE [Reply!Next]_(Reply!vars)
  OBVIOUS
<1> TypeOK /\ \A d \in Callers : d \in Senders
  BY DEF IInv, Senders
<1>1. ASSUME NEW c \in Callers, NEW what \in {"detail", "list"}, Call(c, what)
      PROVE  Reply!Issue(c) \/ UNCHANGED Reply!vars
  BY <1>1, RefusedQuiet, PublishIssues DEF Call, PublishFails
<1>2. ASSUME NEW c \in Callers, Return(c) \/ TimesOut(c) PROVE Reply!Complete(c)
  BY <1>2, FinishCompletes DEF Return, TimesOut, Woken, Silent
<1>3. ASSUME NEW f \in frames, PrinterReplies(f)
      PROVE  \/ UNCHANGED Reply!vars
             \/ \E c \in Callers : \E what \in Replies : Reply!PrinterAnswers(c, what)
  <2>1. CASE f.to \in Callers
    BY <1>3, <2>1, RepliesAnswer
  <2>2. CASE f.to \notin Callers
    BY <1>3, <2>2, Quiet, TypedCommands DEF PrinterReplies
  <2>3. QED
    BY <2>1, <2>2
<1>4. ASSUME NEW f \in frames, Receive(f) PROVE UNCHANGED Reply!vars
  <2>1. CASE wire = "mqtt"
    BY <1>4, <2>1, WakeFacts, Quiet DEF Receive, Silent
  <2>2. CASE wire # "mqtt"
    BY <1>4, <2>2, Quiet DEF Receive
  <2>3. QED
    BY <2>1, <2>2
<1>5. ASSUME NEW p \in Senders, SetEvent(p) PROVE UNCHANGED Reply!vars
  BY <1>5, WakeFacts, Quiet DEF SetEvent, Silent
<1>6. CASE LinkBreaks \/ ListenerEnds \/ Open \/ DialSucceeds \/ RetryIsDue
  BY <1>6, Quiet DEF LinkBreaks, ListenerEnds, Open, DialSucceeds, RetryIsDue, commands
<1>7. ASSUME Shut(cmd) PROVE UNCHANGED Reply!vars
  BY <1>7, ShutFacts, TypedCommands, Quiet
<1>8. CASE Connect \/ DialFails
  BY <1>7, <1>8 DEF Connect, DialFails
<1>9. ASSUME NEW p \in {"poll", "unload"}, NEW what,
             Refused(p, "connection_error") \/ Publish(p, what)
      PROVE  UNCHANGED Reply!vars
  <2>1. p \in Senders /\ p \notin Callers
    BY DEF Senders
  <2>2. \A d \in Callers : cmd'[d] = cmd[d]
    BY <1>9, <2>1, RefusedFacts, PublishFacts
  <2>3. QED
    BY <2>2, Quiet
<1>10. CASE Hello
  BY <1>9, <1>10 DEF Hello, PublishFails
<1>11. CASE HelloAnswered \/ HelloTimesOut
  <2>1. \A d \in Callers : cmd'[d] = cmd[d]
    BY <1>11, FinishFacts DEF HelloAnswered, HelloTimesOut
  <2>2. QED
    BY <2>1, Quiet
<1>12. CASE Disconnect
  BY <1>7, <1>9, <1>12 DEF Disconnect, PublishFails
<1>13. CASE Disconnected
  <2> DEFINE C == [cmd EXCEPT !["unload"] = Fresh]
  <2>1. C \in [Senders -> Command] /\ Shut(C)
    BY <1>13, TypedCommands, FreshCommand DEF Disconnected
  <2>2. \A d \in Callers : C[d] = cmd[d]
    BY TypedCommands
  <2> HIDE DEF C
  <2>3. \A d \in Callers :
          /\ cmd'[d].step = C[d].step /\ cmd'[d].given = C[d].given
          /\ C[d].step # "waiting" => cmd'[d].woken = C[d].woken
    BY <2>1, ShutFacts
  <2>4. QED
    BY <2>2, <2>3, Quiet
<1>14. ASSUME NEW j \in Jobs, Status(j) \/ Fetched(j) PROVE UNCHANGED Reply!vars
  BY <1>14, Quiet DEF Status, Fetched, commands
<1>15. CASE UNCHANGED vars
  BY <1>15, Quiet DEF vars, commands
<1>16. QED
  BY <1>1, <1>2, <1>3, <1>4, <1>5, <1>6, <1>8, <1>10, <1>11, <1>12, <1>13, <1>14, <1>15
     DEF Next, Reply!Next

\* The SDCP client implements the promise of CommandReply: each command that
\* was sent ends once, with the printer's reply to it or a failure.
THEOREM Refinement == Spec => RepliesAreOwn
<1>1. Init => Reply!Init
  <2>1. ASSUME Init, NEW c \in Callers
        PROVE  /\ Phase(c) = "idle" /\ Outcome(c) = Reply!Failure("pending")
               /\ {cmd[c].given} \intersect Replies = {}
    BY <2>1 DEF Init, Fresh, Phase, Outcome, Reply!Failure, Replies, Asks, Senders
  <2>2. QED
    BY <2>1 DEF Reply!Init
<1>2. QED
  BY <1>1, StepRefines, Invariance, PTL DEF Spec, RepliesAreOwn, Reply!Spec

-----------------------------------------------------------------------------
(***************************************************************************)
(* The CC2 client's request table.                                         *)
(***************************************************************************)
USE NoCallAssumption, MaxIdAssumption

\* Request ids are handed out once: a call that was issued has an id of its
\* own, at most the counter.
CC2IdInv ==
    /\ \A c \in Calls : (phase[c] = "idle") <=> (id[c] = 0)
    /\ \A c \in Calls : id[c] <= counter
    /\ \A c, d \in Calls : id[c] # 0 /\ id[c] = id[d] => c = d

\* What is registered under an id is the call with that id, still waiting.
CC2RegistryInv ==
    \A i \in Ids : registry[i] # NoCall =>
        /\ id[registry[i]] = i
        /\ phase[registry[i]] \in {"publishing", "waiting"}

\* What is stored under an id is an answer to the call registered there, and
\* that call has been woken.
CC2DataInv ==
    \A i \in Ids : data[i] # None =>
        /\ registry[i] # NoCall
        /\ data[i].call = registry[i]
        /\ data[i].code \in answered[registry[i]]
        /\ registry[i] \in signalled

\* What travels to the listener carries the id of the call it answers.
CC2InflightInv ==
    \A m \in inflight :
        /\ m.id = id[m.answer.call]
        /\ m.answer.code \in answered[m.answer.call]

\* A call that lost its registration has been woken.
CC2WokenInv ==
    \A c \in Calls :
        phase[c] \in {"publishing", "waiting"} /\ registry[id[c]] # c => c \in signalled

\* The inductive invariant: OwnAnswer is not inductive by itself, because what
\* a call returns is decided by what HandleResponse stored, which is decided
\* by which call the id belonged to.
CC2IInv ==
    /\ RequestsTypeOK
    /\ CC2IdInv
    /\ CC2RegistryInv
    /\ CC2DataInv
    /\ CC2InflightInv
    /\ CC2WokenInv
    /\ OwnAnswer

-----------------------------------------------------------------------------
\* Failures are not answers: they name no call.
LEMMA CC2FailureNoCall ==
    ASSUME NEW f
    PROVE  /\ Failure(f).call = NoCall
           /\ Failure(f) \notin Answers
BY DEF Failure, Answers

\* The initial state satisfies the invariant.
LEMMA CC2InitIInv == RequestsInit => CC2IInv
<1> SUFFICES ASSUME RequestsInit PROVE CC2IInv
  OBVIOUS
<1>1. RequestsTypeOK
  <2>1. counter \in 0..MaxId /\ id \in [Calls -> 0..MaxId]
    BY DEF RequestsInit
  <2>2. phase \in [Calls -> Phases] /\ session \in Sessions
    BY DEF RequestsInit, Phases, Sessions
  <2>3. QED
    BY <2>1, <2>2 DEF RequestsInit, RequestsTypeOK
<1>2. CC2IdInv /\ CC2RegistryInv /\ CC2InflightInv /\ CC2WokenInv
  BY DEF RequestsInit, CC2IdInv, CC2RegistryInv, CC2InflightInv, CC2WokenInv
<1>3. CC2DataInv
  BY DEF RequestsInit, CC2DataInv
<1>4. OwnAnswer
  BY CC2FailureNoCall DEF RequestsInit, OwnAnswer, Pending
<1>5. QED
  BY <1>1, <1>2, <1>3, <1>4 DEF CC2IInv

\* Issuing a command takes an id no other call has.
LEMMA CC2StartIInv ==
    ASSUME CC2IInv, NEW c \in Calls, Start(c)
    PROVE  CC2IInv'
<1> USE DEF CC2IInv
<1> DEFINE new == counter + 1
<1>1. new \in Ids /\ new # 0 /\ id[c] = 0 /\ \A d \in Calls : id[d] # new
  BY DEF RequestsTypeOK, CC2IdInv, Start, Ids
<1>2. RequestsTypeOK'
  BY <1>1 DEF RequestsTypeOK, Start, Phases, Ids
<1>3. CC2IdInv'
  BY <1>1 DEF RequestsTypeOK, Start, CC2IdInv
<1>4. CC2RegistryInv' 
  <2> SUFFICES ASSUME NEW i \in Ids, registry'[i] # NoCall
               PROVE  /\ id'[registry'[i]] = i
                      /\ phase'[registry'[i]] \in {"publishing", "waiting"}
    BY DEF CC2RegistryInv
  <2>1. CASE i = new
    BY <2>1, <1>1 DEF RequestsTypeOK, Start
  <2>2. CASE i # new
    <3>1. registry'[i] = registry[i] /\ registry[i] \in Calls
      BY <2>2 DEF RequestsTypeOK, Start
    <3>2. registry[i] # c
      BY <3>1, <1>1 DEF CC2RegistryInv, Ids
    <3>3. QED
      BY <3>1, <3>2 DEF CC2RegistryInv, Start, RequestsTypeOK
  <2>3. QED
    BY <2>1, <2>2
<1>5. CC2DataInv'
  BY <1>1 DEF CC2DataInv, Start, RequestsTypeOK, CC2RegistryInv
<1>6. CC2InflightInv'
  BY <1>1 DEF CC2InflightInv, Start, RequestsTypeOK, Messages, Answers, Ids
<1>7. CC2WokenInv'
  BY <1>1 DEF CC2WokenInv, Start, RequestsTypeOK, CC2IdInv, Phases
<1>8. OwnAnswer'
  BY DEF OwnAnswer, Start
<1>9. QED
  BY <1>2, <1>3, <1>4, <1>5, <1>6, <1>7, <1>8

\* What a call may end with: a failure, or an answer to itself.
CC2Honest(c, o) ==
    \/ o \in Failures
    \/ o \in Answers /\ o.call = c /\ o.code \in answered[c]

\* The finally clause of _send_command keeps the invariant, whatever the call
\* returns or raises, as long as it is honest.
LEMMA CC2FinishIInv ==
    ASSUME CC2IInv, NEW c \in Calls, phase[c] \in {"publishing", "waiting"},
           NEW o, CC2Honest(c, o), Leave(c, o),
           connected' \in BOOLEAN, UNCHANGED <<session, answered, inflight>>
    PROVE  CC2IInv'
<1> USE DEF CC2IInv
<1>1. id[c] \in Ids /\ \A d \in Calls : d # c => id[d] # id[c]
  BY DEF RequestsTypeOK, CC2IdInv, Ids
<1>2. RequestsTypeOK'
  <2>1. o \in Answers \union Failures
    BY DEF CC2Honest
  <2>2. QED
    BY <2>1, <1>1 DEF RequestsTypeOK, Leave, Phases
<1>3. CC2IdInv'
  BY <1>1 DEF RequestsTypeOK, Leave, CC2IdInv, Ids
<1>4. CC2RegistryInv'
  <2> SUFFICES ASSUME NEW i \in Ids, registry'[i] # NoCall
               PROVE  /\ id'[registry'[i]] = i
                      /\ phase'[registry'[i]] \in {"publishing", "waiting"}
    BY DEF CC2RegistryInv
  <2>1. i # id[c] /\ registry'[i] = registry[i] /\ registry[i] \in Calls
    BY <1>1 DEF RequestsTypeOK, Leave
  <2>2. registry[i] # c
    BY <2>1 DEF CC2RegistryInv
  <2>3. QED
    BY <2>1, <2>2 DEF CC2RegistryInv, Leave, RequestsTypeOK
<1>5. CC2DataInv'
  BY <1>1 DEF CC2DataInv, Leave, RequestsTypeOK, CC2RegistryInv
<1>6. CC2InflightInv'
  BY DEF CC2InflightInv, Leave, RequestsTypeOK
<1>7. CC2WokenInv'
  BY <1>1 DEF CC2WokenInv, Leave, RequestsTypeOK, CC2IdInv, Ids
<1>8. OwnAnswer'
  BY DEF OwnAnswer, Leave, CC2Honest, Failures, Failure, RequestsTypeOK
<1>9. QED
  BY <1>2, <1>3, <1>4, <1>5, <1>6, <1>7, <1>8

\* What the waiter reads from _response_data is honest: None, or the answer to
\* the command of this very call.
LEMMA CC2ReadHonest ==
    ASSUME CC2IInv, NEW c \in Calls, phase[c] = "waiting"
    PROVE  CC2Honest(c, data[id[c]])
<1> USE DEF CC2IInv
<1>1. id[c] \in Ids
  BY DEF RequestsTypeOK, CC2IdInv, Ids
<1>2. CASE data[id[c]] = None
  BY <1>2 DEF CC2Honest, None, Failures
<1>3. CASE data[id[c]] # None
  <2>1. registry[id[c]] \in Calls /\ id[registry[id[c]]] = id[c]
    BY <1>1, <1>3 DEF CC2DataInv, CC2RegistryInv, RequestsTypeOK
  <2>2. registry[id[c]] = c
    BY <2>1, <1>1 DEF CC2IdInv, Ids
  <2>3. QED
    BY <2>2, <1>1, <1>3 DEF CC2DataInv, RequestsTypeOK, CC2Honest
<1>4. QED
  BY <1>2, <1>3

\* The printer's answers and their delivery keep the invariant.
LEMMA CC2AnswerIInv ==
    ASSUME CC2IInv, NEW c \in Calls, NEW code \in Codes, PrinterAnswers(c, code)
    PROVE  CC2IInv'
<1> USE DEF CC2IInv
<1> DEFINE m == [id |-> id[c], answer |-> Answer(c, code)]
<1>1. m \in Messages /\ m.id = id[c] /\ m.answer.call = c /\ m.answer.code = code
  BY DEF PrinterAnswers, RequestsTypeOK, CC2IdInv, Messages, Answers, Answer, Ids
<1>2. inflight' \subseteq inflight \union {m}
  BY DEF PrinterAnswers
<1>3. /\ UNCHANGED <<counter, registry, data, signalled, phase, id, outcome>>
      /\ UNCHANGED <<connected, session>>
      /\ answered' = [answered EXCEPT ![c] = @ \union {code}]
  BY DEF PrinterAnswers, clientVars
<1>4. \A d \in Calls : answered[d] \subseteq answered'[d]
  BY <1>3 DEF RequestsTypeOK
<1>5. RequestsTypeOK'
  BY <1>1, <1>2, <1>3 DEF RequestsTypeOK
<1>6. CC2IdInv' /\ CC2RegistryInv' /\ CC2WokenInv'
  BY <1>3 DEF CC2IdInv, CC2RegistryInv, CC2WokenInv
<1>7. CC2DataInv'
  BY <1>3, <1>4 DEF CC2DataInv, RequestsTypeOK
<1>8. CC2InflightInv'
  BY <1>1, <1>2, <1>3, <1>4 DEF CC2InflightInv, RequestsTypeOK, Messages, Answers
<1>9. OwnAnswer'
  BY <1>3, <1>4 DEF OwnAnswer
<1>10. QED
  BY <1>5, <1>6, <1>7, <1>8, <1>9

LEMMA CC2HandleResponseIInv ==
    ASSUME CC2IInv, NEW m \in inflight, HandleResponse(m)
    PROVE  CC2IInv'
<1> USE DEF CC2IInv
<1>1. m.id \in Ids /\ m.answer \in Answers /\ m.answer.call \in Calls
  BY DEF RequestsTypeOK, Messages, Answers
<1>2. CASE registry[m.id] = NoCall
  BY <1>1, <1>2 DEF HandleResponse, RequestsTypeOK, CC2IdInv, CC2RegistryInv, CC2DataInv,
     CC2InflightInv, CC2WokenInv, OwnAnswer
<1>3. CASE registry[m.id] # NoCall
  <2>1. registry[m.id] \in Calls /\ id[registry[m.id]] = m.id
    BY <1>1, <1>3 DEF RequestsTypeOK, CC2RegistryInv
  <2>2. registry[m.id] = m.answer.call
    BY <1>1, <2>1 DEF CC2InflightInv, CC2IdInv, Ids
  <2>3. /\ data' = [data EXCEPT ![m.id] = m.answer]
        /\ signalled' = signalled \union {registry[m.id]}
        /\ inflight' \subseteq inflight
        /\ UNCHANGED <<counter, registry, phase, id, outcome, connected,
                       session, answered>>
    BY <1>3 DEF HandleResponse
  <2>4. RequestsTypeOK'
    BY <1>1, <2>1, <2>3 DEF RequestsTypeOK
  <2>5. CC2IdInv' /\ CC2RegistryInv' /\ CC2InflightInv' /\ CC2WokenInv' /\ OwnAnswer'
    BY <2>3 DEF CC2IdInv, CC2RegistryInv, CC2InflightInv, CC2WokenInv, OwnAnswer
  <2>6. CC2DataInv'
    BY <1>1, <1>3, <2>2, <2>3 DEF CC2DataInv, CC2InflightInv, RequestsTypeOK
  <2>7. QED
    BY <2>4, <2>5, <2>6
<1>4. QED
  BY <1>2, <1>3

\* Releasing the waiters wakes every call whose registration it drops.
LEMMA CC2ReleaseIInv ==
    ASSUME CC2IInv, ReleaseWaiters, connected' \in BOOLEAN, session' \in Sessions,
           inflight' \subseteq inflight,
           UNCHANGED <<counter, phase, id, outcome, answered>>
    PROVE  CC2IInv'
<1> USE DEF CC2IInv
<1>1. /\ registry' = [i \in Ids |-> NoCall]
      /\ data' = [i \in Ids |-> None]
      /\ signalled \subseteq signalled'
      /\ \A i \in Ids : registry[i] # NoCall => registry[i] \in signalled'
  BY DEF ReleaseWaiters
<1>2. signalled' \subseteq Calls
  BY DEF ReleaseWaiters, RequestsTypeOK
<1>3. RequestsTypeOK'
  BY <1>1, <1>2 DEF RequestsTypeOK
<1>4. CC2IdInv' /\ CC2RegistryInv' /\ CC2DataInv' /\ CC2InflightInv' /\ OwnAnswer'
  BY <1>1 DEF CC2IdInv, CC2RegistryInv, CC2DataInv, CC2InflightInv, OwnAnswer
<1>5. CC2WokenInv'
  <2> SUFFICES ASSUME NEW c \in Calls, phase[c] \in {"publishing", "waiting"}
               PROVE  c \in signalled'
    BY DEF CC2WokenInv
  <2>1. id[c] \in Ids
    BY DEF RequestsTypeOK, CC2IdInv, Ids
  <2>2. CASE registry[id[c]] = c
    BY <1>1, <2>1, <2>2
  <2>3. CASE registry[id[c]] # c
    BY <1>1, <2>3 DEF CC2WokenInv
  <2>4. QED
    BY <2>2, <2>3
<1>6. QED
  BY <1>3, <1>4, <1>5

-----------------------------------------------------------------------------
\* Every step of the client, the printer and the network keeps the invariant.
LEMMA CC2NextIInv == CC2IInv /\ [RequestsNext]_requestVars => CC2IInv'
<1> SUFFICES ASSUME CC2IInv, [RequestsNext]_requestVars PROVE CC2IInv'
  OBVIOUS
<1> USE DEF CC2IInv
<1>1. ASSUME NEW c \in Calls, Start(c) PROVE CC2IInv'
  BY <1>1, CC2StartIInv
<1>2. ASSUME NEW c \in Calls, Published(c) PROVE CC2IInv'
  BY <1>2 DEF Published, RequestsTypeOK, CC2IdInv, CC2RegistryInv, CC2DataInv, CC2InflightInv,
     CC2WokenInv, OwnAnswer, Phases
<1>3. ASSUME NEW c \in Calls, PublishRaises(c) PROVE CC2IInv'
  BY <1>3, CC2FinishIInv DEF PublishRaises, CC2Honest, Failures
<1>4. ASSUME NEW c \in Calls, Resume(c) PROVE CC2IInv'
  BY <1>4, CC2ReadHonest, CC2FinishIInv DEF Resume, RequestsTypeOK
<1>5. ASSUME NEW c \in Calls, Timeout(c) PROVE CC2IInv'
  BY <1>5, CC2FinishIInv DEF Timeout, CC2Honest, Failures, RequestsTypeOK
<1>6. ASSUME NEW c \in Calls, NEW code \in Codes, PrinterAnswers(c, code) PROVE CC2IInv'
  BY <1>6, CC2AnswerIInv
<1>7. ASSUME NEW m \in inflight, HandleResponse(m) PROVE CC2IInv'
  BY <1>7, CC2HandleResponseIInv
<1>8. CASE DisconnectStart
  BY <1>8, CC2ReleaseIInv DEF DisconnectStart, RequestsTypeOK, Sessions
<1>9. CASE DisconnectEnd
  BY ZenonT(60), <1>9 DEF DisconnectEnd, clientVars, RequestsTypeOK, Sessions, CC2IdInv, CC2RegistryInv,
     CC2DataInv, CC2InflightInv, CC2WokenInv, OwnAnswer
<1>10. CASE Reconnect
  BY <1>10, CC2ReleaseIInv DEF Reconnect, Sessions
<1>11. CASE ListenerStops
  BY ZenonT(60), <1>11 DEF ListenerStops, clientVars, RequestsTypeOK, Sessions, CC2IdInv, CC2RegistryInv,
     CC2DataInv, CC2InflightInv, CC2WokenInv, OwnAnswer
<1>12. CASE UNCHANGED requestVars
  BY <1>12 DEF requestVars, clientVars, RequestsTypeOK, CC2IdInv, CC2RegistryInv, CC2DataInv,
     CC2InflightInv, CC2WokenInv, OwnAnswer
<1>13. QED
  BY <1>1, <1>2, <1>3, <1>4, <1>5, <1>6, <1>7, <1>8, <1>9, <1>10, <1>11, <1>12
     DEF RequestsNext

\* The inductive invariant holds in every reachable state.
THEOREM CC2Invariance == RequestsSpec => []CC2IInv
BY CC2InitIInv, CC2NextIInv, PTL DEF RequestsSpec

\* Every variable keeps its type, for any number of calls.
THEOREM CC2TypeCorrect == RequestsSpec => []RequestsTypeOK
<1>1. CC2IInv => RequestsTypeOK
  BY DEF CC2IInv
<1>2. QED
  BY <1>1, CC2Invariance, PTL

\* No call of _send_command ever returns the answer to another command.
THEOREM CC2OwnAnswerTheorem == RequestsSpec => []OwnAnswer
<1>1. CC2IInv => OwnAnswer
  BY DEF CC2IInv
<1>2. QED
  BY <1>1, CC2Invariance, PTL

\* Neither dictionary keeps an entry whose request is over.
THEOREM CC2NoResidueTheorem == RequestsSpec => []NoResidue
<1>1. CC2IInv => NoResidue
  BY DEF CC2IInv, NoResidue, CC2RegistryInv, CC2DataInv
<1>2. QED
  BY <1>1, CC2Invariance, PTL

\* No waiter is left asleep after its answer was stored or its registration
\* dropped.
THEOREM CC2NoLostWakeupTheorem == RequestsSpec => []NoLostWakeup
<1>1. CC2IInv => NoLostWakeup
  <2> SUFFICES ASSUME CC2IInv, NEW c \in Calls, phase[c] = "waiting",
                      registry[id[c]] # c \/ data[id[c]] # None
               PROVE  c \in signalled
    BY DEF NoLostWakeup
  <2>1. id[c] \in Ids
    BY DEF CC2IInv, RequestsTypeOK, CC2IdInv, Ids
  <2>2. CASE registry[id[c]] # c
    BY <2>2 DEF CC2IInv, CC2WokenInv
  <2>3. CASE registry[id[c]] = c
    BY <2>1, <2>3 DEF CC2IInv, CC2DataInv
  <2>4. QED
    BY <2>2, <2>3
<1>2. QED
  BY <1>1, CC2Invariance, PTL

-----------------------------------------------------------------------------
\* Ending a call completes it in the abstract specification.
LEMMA CC2FinishCompletes ==
    ASSUME CC2IInv, NEW c \in Calls, phase[c] \in {"publishing", "waiting"},
           NEW o, CC2Honest(c, o), Leave(c, o), UNCHANGED answered
    PROVE  Promised!Complete(c)
<1>1. o \in {Promised!Answer(c, code) : code \in answered[c]} \union Promised!Failures
  <2>1. CASE o \in Failures
    BY <2>1 DEF Failures, Failure, Promised!Failures, Promised!Failure
  <2>2. CASE o \in Answers /\ o.call = c /\ o.code \in answered[c]
    <3>1. o = Promised!Answer(c, o.code)
      BY <2>2 DEF Answers, Promised!Answer
    <3>2. QED
      BY <3>1, <2>2
  <2>3. QED
    BY <2>1, <2>2 DEF CC2Honest
<1>2. QED
  BY <1>1 DEF Promised!Complete, Leave, CC2IInv, RequestsTypeOK

\* Every step of the request table is a step of CommandReply or leaves what
\* the callers see unchanged.
LEMMA CC2StepRefines == CC2IInv /\ [RequestsNext]_requestVars => [Promised!Next]_(Promised!vars)
<1> SUFFICES ASSUME CC2IInv, [RequestsNext]_requestVars PROVE [Promised!Next]_(Promised!vars)
  OBVIOUS
<1>1. ASSUME NEW c \in Calls, Start(c) PROVE Promised!Issue(c)
  BY <1>1 DEF Start, Promised!Issue, CC2IInv, RequestsTypeOK
<1>2. ASSUME NEW c \in Calls, Published(c) PROVE UNCHANGED Promised!vars
  BY <1>2 DEF Published, Promised!vars, CC2IInv, RequestsTypeOK
<1>3. ASSUME NEW c \in Calls, PublishRaises(c) PROVE Promised!Complete(c)
  BY <1>3, CC2FinishCompletes DEF PublishRaises, CC2Honest, Failures
<1>4. ASSUME NEW c \in Calls, Resume(c) PROVE Promised!Complete(c)
  BY <1>4, CC2ReadHonest, CC2FinishCompletes DEF Resume
<1>5. ASSUME NEW c \in Calls, Timeout(c) PROVE Promised!Complete(c)
  BY <1>5, CC2FinishCompletes DEF Timeout, CC2Honest, Failures
<1>6. ASSUME NEW c \in Calls, NEW code \in Codes, PrinterAnswers(c, code)
      PROVE  Promised!PrinterAnswers(c, code)
  BY <1>6 DEF PrinterAnswers, clientVars, Promised!PrinterAnswers, CC2IInv, RequestsTypeOK
<1>7. ASSUME NEW m \in inflight, HandleResponse(m) PROVE UNCHANGED Promised!vars
  BY <1>7 DEF HandleResponse, Promised!vars
<1>8. CASE DisconnectStart \/ Reconnect
  BY <1>8 DEF DisconnectStart, Reconnect, Promised!vars
<1>9. CASE DisconnectEnd \/ ListenerStops
  BY <1>9 DEF DisconnectEnd, ListenerStops, clientVars, Promised!vars
<1>10. CASE UNCHANGED requestVars
  BY <1>10 DEF requestVars, clientVars, Promised!vars
<1>11. QED
  BY <1>1, <1>2, <1>3, <1>4, <1>5, <1>6, <1>7, <1>8, <1>9, <1>10
     DEF RequestsNext, Promised!Next

\* The request table of the client implements the promise of CommandReply:
\* each call completes once, with an answer to itself or a failure.
THEOREM CC2Refinement == RequestsSpec => ImplementsReply
<1>1. RequestsInit => Promised!Init
  BY DEF RequestsInit, Promised!Init, Pending, Failure, Promised!Failure
<1>2. QED
  BY <1>1, CC2StepRefines, CC2Invariance, PTL DEF RequestsSpec, ImplementsReply, Promised!Spec
=============================================================================
