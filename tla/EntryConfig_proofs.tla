-------------------------- MODULE EntryConfig_proofs --------------------------
(***************************************************************************)
(* Proofs about EntryConfig, for any printers, addresses and flows, and    *)
(* any number of changes and moves: one entry per printer, a settled entry *)
(* runs at its configured address, and an old entry's entities keep their  *)
(* history.                                                                *)
(***************************************************************************)
EXTENDS EntryConfig, TLAPS

FlowRecord ==
    [step : {"none", "pick", "manual", "auth", "code", "options", "testing"},
     p : Printers \union {NoPrinter}, ip : Addresses \union {Unset},
     id : Printers \union {NoPrinter},
     form : {"none", "pick", "manual", "auth", "code", "options"}]
CallRecord == [step : {"waiting", "reloading", "done"}, p : Printers, ip : Addresses,
               ok : BOOLEAN]

Types ==
    /\ TypeOK
    /\ flow \in [Flows -> FlowRecord]
    /\ call = NoCall \/ call \in CallRecord
    /\ naming \in {"distinct", "same", "prefix"}

\* An entry that is set up has been migrated.
Versions ==
    \A p \in Printers :
        /\ state[p] # "off" => version[p] # 0
        /\ state[p] \in {"setting up", "retry", "loaded"} => version[p] \in {4, 5}

\* A set-up has read the options, unless they were changed since.
OptionsRead ==
    \A p \in Printers : state[p] = "setting up" /\ p \notin missed =>
        options[p] \in {Unset, config[p]}

\* The old entry's entities are renamed when its version is raised.
Names ==
    /\ \A p \in Printers \ {Oldest} : version[p] \in {0, 4, 5}
    /\ naming # "prefix" =>
          /\ \A i \in DOMAIN Entities : uid[i] \in {"old", "new"}
          /\ naming = "same" \/ version[Oldest] \in {0, 4, 5} =>
                \A i \in DOMAIN Entities : uid[i] = "new"

IInv == Types /\ Versions /\ OptionsRead /\ RunsAsConfigured /\ Names /\ copies = {}

LEMMA CallStep ==
    ASSUME NEW c, c = NoCall \/ c \in CallRecord
    PROVE  c.step \in {"none", "waiting", "reloading", "done"}
BY DEF NoCall, CallRecord

LEMMA OldestIsPrinter == Oldest \in Printers
BY ConstantsAssumption DEF Oldest
-----------------------------------------------------------------------------
(***************************************************************************)
(* Migration and set-up.                                                   *)
(***************************************************************************)
\* Either nothing conflicts and all is renamed, or the version stays 3.
LEMMA RenamedAll ==
    ASSUME IInv, naming # "prefix", Renames, Conflicts = {}
    PROVE  \A i \in DOMAIN Entities : uid'[i] = "new"
BY DEF IInv, Names, Renames, Renamed, Old

LEMMA RenamedSome ==
    ASSUME IInv, Renames
    PROVE  /\ \A i \in DOMAIN Entities : uid'[i] \in {"old", "new", "twice"}
           /\ naming # "prefix" => \A i \in DOMAIN Entities : uid'[i] \in {"old", "new"}
BY DEF IInv, Types, TypeOK, Names, Renames, Renamed, Old

LEMMA MigrateFacts ==
    ASSUME IInv, NEW p \in Printers, Migrate(p), UNCHANGED <<options, naming>>
    PROVE  /\ version' \in [Printers -> 0..5] /\ version'[p] # 0
           /\ \A q \in Printers : q # p => version'[q] = version[q]
           /\ data' \in [Printers -> Addresses \union {Unset}]
           /\ \A q \in Printers : q # p => data'[q] = data[q]
           /\ \A i \in DOMAIN Entities : uid'[i] \in {"old", "new", "twice"}
           /\ Names'
<1>1. /\ version \in [Printers -> 0..5] /\ data \in [Printers -> Addresses \union {Unset}]
      /\ options \in [Printers -> Addresses \union {Unset}]
      /\ \A i \in DOMAIN Entities : uid[i] \in {"old", "new", "twice"}
      /\ naming \in {"distinct", "same", "prefix"} /\ Names
  BY DEF IInv, Types, TypeOK
<1>2. CASE version[p] = 1 /\ UNCHANGED <<version, uid, data>>
  BY <1>1, <1>2 DEF Names
<1>3. CASE version[p] \in 4..5 /\ version' = [version EXCEPT ![p] = 5] /\ UNCHANGED <<uid, data>>
  BY <1>1, <1>3 DEF Names
<1>4. CASE /\ version[p] \in 1..3 /\ MovesToId(p)
           /\ data' = IF version[p] = 1 THEN [data EXCEPT ![p] = Effective(p)] ELSE data
  <2>1. p = Oldest
    BY <1>1, <1>4 DEF Names
  <2>2. /\ data' \in [Printers -> Addresses \union {Unset}]
        /\ \A q \in Printers : q # p => data'[q] = data[q]
    BY <1>1, <1>4 DEF Effective
  <2>3. CASE naming = "same" /\ version' = [version EXCEPT ![p] = 4] /\ UNCHANGED uid
    BY <1>1, <2>1, <2>2, <2>3 DEF Names
  <2>4. CASE /\ naming # "same" /\ Renames
             /\ version' = [version EXCEPT ![p] = IF Conflicts = {} THEN 5 ELSE 3]
    <3>1. /\ version' \in [Printers -> 0..5] /\ version'[p] # 0
          /\ \A q \in Printers : q # p => version'[q] = version[q]
          /\ version'[p] \in {0, 4, 5} => Conflicts = {}
      BY <1>1, <2>4
    <3>2. Names'
      BY <1>1, <2>1, <2>4, <3>1, RenamedAll, RenamedSome DEF Names
    <3>3. QED
      BY <2>2, <2>4, <3>1, <3>2, RenamedSome
  <2>5. QED
    BY <1>4, <2>3, <2>4 DEF MovesToId
<1>5. QED
  BY <1>2, <1>3, <1>4 DEF Migrate

\* A set-up or reload reads the configuration, whoever asks for it.
LEMMA SetUpStep ==
    ASSUME IInv, NEW p \in Printers, SetUp(p), reloads' \subseteq Printers,
           reloads \ {p} \subseteq reloads',
           call' = NoCall \/ call' \in CallRecord,
           \/ call' = call
           \/ call.p = p
    PROVE  IInv'
<1>1. /\ version' \in [Printers -> 0..5] /\ version'[p] # 0
      /\ \A q \in Printers : q # p => version'[q] = version[q]
      /\ data' \in [Printers -> Addresses \union {Unset}]
      /\ \A q \in Printers : q # p => data'[q] = data[q]
      /\ \A i \in DOMAIN Entities : uid'[i] \in {"old", "new", "twice"}
      /\ Names'
  BY MigrateFacts DEF SetUp
<1>2. /\ state' = [state EXCEPT ![p] = IF version'[p] >= 4 THEN "setting up"
                                        ELSE "migration failed"]
      /\ config' = [config EXCEPT ![p] = Effective(p)]
      /\ at' = [at EXCEPT ![p] = Unset] /\ missed' = missed \ {p}
      /\ UNCHANGED <<kind, addr, options, naming, taken, flow, copies>>
  BY DEF SetUp, ReadsConfig
<1>3. /\ options \in [Printers -> Addresses \union {Unset}]
      /\ data \in [Printers -> Addresses \union {Unset}]
      /\ state \in [Printers -> {"off", "setting up", "loaded", "retry", "migration failed"}]
      /\ config \in [Printers -> Addresses \union {Unset}]
      /\ at \in [Printers -> Addresses \union {Unset}]
  BY DEF IInv, Types, TypeOK
<1>4. /\ state'[p] \in {"setting up", "migration failed"}
      /\ state'[p] = "setting up" => version'[p] \in {4, 5}
      /\ \A q \in Printers : q # p => state'[q] = state[q]
      /\ state' \in [Printers -> {"off", "setting up", "loaded", "retry", "migration failed"}]
  <2>1. version'[p] \in 0..5 /\ (version'[p] >= 4 => version'[p] \in {4, 5})
    BY <1>1
  <2>2. state'[p] = IF version'[p] >= 4 THEN "setting up" ELSE "migration failed"
    BY <1>2, <1>3
  <2>3. QED
    BY <1>2, <1>3, <2>1, <2>2
<1>5. /\ config'[p] = Effective(p) /\ \A q \in Printers : q # p => config'[q] = config[q]
      /\ config' \in [Printers -> Addresses \union {Unset}]
      /\ at' \in [Printers -> Addresses \union {Unset}]
      /\ \A q \in Printers : q # p => at'[q] = at[q]
  BY <1>2, <1>3 DEF Effective
<1>6. Types'
  <2>1. call'.step \in {"none", "waiting", "reloading", "done"}
    BY CallStep
  <2>2. missed' \subseteq Printers
    BY <1>2 DEF IInv, Types, TypeOK
  <2>3. \A q \in Printers : state'[q] = "loaded" => version'[q] \in {4, 5} /\ at'[q] \in Addresses
    BY <1>1, <1>4, <1>5 DEF IInv, Types, TypeOK
  <2>4. QED
    BY <1>1, <1>2, <1>4, <1>5, <2>1, <2>2, <2>3 DEF IInv, Types, TypeOK
<1>7. Versions'
  BY <1>1, <1>4 DEF IInv, Versions
<1>8. OptionsRead'
  BY ZenonT(60), <1>2, <1>4, <1>5 DEF IInv, OptionsRead, Effective
<1>9. RunsAsConfigured'
  <2> SUFFICES ASSUME NEW q \in Printers, Settled(q)'
               PROVE  at'[q] = Effective(q)'
    BY DEF RunsAsConfigured
  <2>1. q # p
    BY <1>4 DEF Settled
  <2>2. Settled(q)
    BY <1>2, <1>4, <2>1 DEF Settled
  <2>3. QED
    BY <1>1, <1>2, <1>5, <2>1, <2>2 DEF IInv, RunsAsConfigured, Effective
<1>10. QED
  BY <1>1, <1>2, <1>6, <1>7, <1>8, <1>9 DEF IInv
-----------------------------------------------------------------------------
(***************************************************************************)
(* The steps that leave the entries' versions and entities alone.          *)
(***************************************************************************)
\* What no such step disturbs.
LEMMA NamesKept ==
    ASSUME IInv, UNCHANGED <<version, naming, uid>>
    PROVE  Names'
BY DEF IInv, Names

LEMMA CallFindsFacts ==
    ASSUME IInv, NEW p, NEW ok \in BOOLEAN, CallFinds(p, ok)
    PROVE  /\ call' = NoCall \/ call' \in CallRecord
           /\ call' = call \/ (call.p = p /\ call'.step = "done")
<1>1. call = NoCall \/ call \in CallRecord
  BY DEF IInv, Types
<1>2. CASE call.step = "reloading" /\ call.p = p
  <2>1. call \in CallRecord
    BY <1>1, <1>2 DEF NoCall
  <2>2. call' = [call EXCEPT !.step = "done", !.ok = ok]
    BY <1>2 DEF CallFinds
  <2>3. QED
    BY <1>2, <2>1, <2>2 DEF CallRecord
<1>3. CASE ~(call.step = "reloading" /\ call.p = p)
  BY <1>1, <1>3 DEF CallFinds
<1>4. QED
  BY <1>2, <1>3

LEMMA SucceedsStep ==
    ASSUME IInv, NEW p \in Printers, SetUpSucceeds(p)
    PROVE  IInv'
<1>1. /\ state[p] = "setting up"
      /\ state' = [state EXCEPT ![p] = "loaded"] /\ at' = [at EXCEPT ![p] = config[p]]
      /\ data' = [data EXCEPT ![p] = config[p]]
      /\ UNCHANGED <<kind, addr, version, options, config, reloads, missed, naming, uid, flow,
                     copies>>
  BY DEF SetUpSucceeds, registry
<1>2. /\ call' = NoCall \/ call' \in CallRecord
      /\ call' = call \/ (call.p = p /\ call'.step = "done")
  BY CallFindsFacts DEF SetUpSucceeds
<1>3. config[p] \in Addresses
  BY DEF IInv, Types, TypeOK, SetUpSucceeds, Answers
<1>4. /\ state \in [Printers -> {"off", "setting up", "loaded", "retry", "migration failed"}]
      /\ at \in [Printers -> Addresses \union {Unset}]
      /\ data \in [Printers -> Addresses \union {Unset}]
      /\ version[p] \in {4, 5}
  BY <1>1 DEF IInv, Types, TypeOK, Versions
<1>5. /\ state' \in [Printers -> {"off", "setting up", "loaded", "retry", "migration failed"}]
      /\ at' \in [Printers -> Addresses \union {Unset}]
      /\ data' \in [Printers -> Addresses \union {Unset}]
      /\ state'[p] = "loaded" /\ at'[p] = config[p] /\ data'[p] = config[p]
      /\ \A q \in Printers : q # p =>
             state'[q] = state[q] /\ at'[q] = at[q] /\ data'[q] = data[q]
  BY <1>1, <1>3, <1>4
<1>6. Types'
  <2>1. call'.step \in {"none", "waiting", "reloading", "done"}
    BY <1>2, CallStep
  <2>2. \A q \in Printers : state'[q] = "loaded" => version'[q] \in {4, 5} /\ at'[q] \in Addresses
    <3> SUFFICES ASSUME NEW q \in Printers, state'[q] = "loaded"
                 PROVE  version[q] \in {4, 5} /\ at'[q] \in Addresses
      BY <1>1
    <3>1. CASE q = p
      BY <1>3, <1>4, <1>5, <3>1
    <3>2. CASE q # p
      BY <1>5, <3>2 DEF IInv, Types, TypeOK
    <3>3. QED
      BY <3>1, <3>2
  <2>3. QED
    BY <1>1, <1>2, <1>5, <2>1, <2>2 DEF IInv, Types, TypeOK
<1>7. Versions' /\ OptionsRead'
  BY <1>1, <1>4, <1>5 DEF IInv, Versions, OptionsRead
<1>8. RunsAsConfigured'
  <2> SUFFICES ASSUME NEW q \in Printers, Settled(q)'
               PROVE  at'[q] = Effective(q)'
    BY DEF RunsAsConfigured
  <2>1. CASE q = p
    <3>1. options[p] \in {Unset, config[p]}
      BY <1>1, <2>1 DEF IInv, OptionsRead, Settled
    <3>2. QED
      BY <1>1, <1>5, <2>1, <3>1 DEF Effective
  <2>2. CASE q # p
    <3>1. Settled(q)
      BY <1>1, <1>2, <1>5, <2>2 DEF Settled
    <3>2. QED
      BY <1>1, <1>5, <2>2, <3>1 DEF IInv, RunsAsConfigured, Effective
  <2>3. QED
    BY <2>1, <2>2
<1>9. QED
  BY <1>1, <1>6, <1>7, <1>8, NamesKept DEF IInv

LEMMA FailsStep ==
    ASSUME IInv, NEW p \in Printers, SetUpFails(p)
    PROVE  IInv'
<1>1. /\ state[p] = "setting up" /\ state' = [state EXCEPT ![p] = "retry"]
      /\ UNCHANGED <<kind, addr, version, data, options, config, at, reloads, missed, naming,
                     uid, flow, copies>>
  BY DEF SetUpFails, registry, stored
<1>2. /\ call' = NoCall \/ call' \in CallRecord
      /\ call' = call \/ (call.p = p /\ call'.step = "done")
  BY CallFindsFacts DEF SetUpFails
<1>3. state \in [Printers -> {"off", "setting up", "loaded", "retry", "migration failed"}]
  BY DEF IInv, Types, TypeOK
<1>4. /\ state' \in [Printers -> {"off", "setting up", "loaded", "retry", "migration failed"}]
      /\ state'[p] = "retry" /\ \A q \in Printers : q # p => state'[q] = state[q]
  BY <1>1, <1>3
<1>5. Types'
  <2>1. call'.step \in {"none", "waiting", "reloading", "done"}
    BY <1>2, CallStep
  <2>2. \A q \in Printers : state'[q] = "loaded" => version'[q] \in {4, 5} /\ at'[q] \in Addresses
    BY <1>1, <1>4 DEF IInv, Types, TypeOK
  <2>3. QED
    BY <1>1, <1>2, <1>4, <2>1, <2>2 DEF IInv, Types, TypeOK
<1>6. Versions' /\ OptionsRead'
  BY <1>1, <1>4 DEF IInv, Versions, OptionsRead
<1>7. RunsAsConfigured'
  <2> SUFFICES ASSUME NEW q \in Printers, Settled(q)'
               PROVE  at'[q] = Effective(q)'
    BY DEF RunsAsConfigured
  <2>1. q # p /\ Settled(q)
    BY <1>1, <1>2, <1>4 DEF Settled
  <2>2. QED
    BY <1>1, <2>1 DEF IInv, RunsAsConfigured, Effective
<1>8. QED
  BY <1>1, <1>5, <1>6, <1>7, NamesKept DEF IInv

\* The client and the update_ip service write the data and tell the listener; the
\* service also has a reload of its own under way.
LEMMA WritesData ==
    ASSUME IInv, NEW p \in Printers, NEW a \in Addresses, state[p] # "off",
           data' = [data EXCEPT ![p] = a],
           UNCHANGED <<kind, addr, version, options, state, config, at, missed, naming, uid,
                       flow, copies>>,
           reloads' \subseteq Printers, reloads \subseteq reloads',
           call' = NoCall \/ call' \in CallRecord,
           state[p] = "loaded" /\ a # data[p] => p \in reloads',
           \/ call' = call
           \/ call.step \in {"none", "done"}
    PROVE  IInv'
<1>1. /\ data' \in [Printers -> Addresses \union {Unset}]
      /\ data'[p] = a /\ \A q \in Printers : q # p => data'[q] = data[q]
  BY DEF IInv, Types, TypeOK
<1>2. Types'
  <2>1. call'.step \in {"none", "waiting", "reloading", "done"}
    BY CallStep
  <2>2. QED
    BY <1>1, <2>1 DEF IInv, Types, TypeOK
<1>3. Versions' /\ OptionsRead'
  BY DEF IInv, Versions, OptionsRead
<1>4. RunsAsConfigured'
  <2> SUFFICES ASSUME NEW q \in Printers, Settled(q)'
               PROVE  at'[q] = Effective(q)'
    BY DEF RunsAsConfigured
  <2>1. Settled(q)
    BY DEF Settled
  <2>2. data'[q] = data[q]
    BY <1>1 DEF Settled
  <2>3. QED
    BY <2>1, <2>2 DEF IInv, RunsAsConfigured, Effective
<1>5. QED
  BY <1>2, <1>3, <1>4, NamesKept DEF IInv

LEMMA SavesOptionsStep ==
    ASSUME IInv, NEW p \in Printers, NEW a \in Addresses, SavesOptions(p, a)
    PROVE  IInv'
<1>1. /\ options' = [options EXCEPT ![p] = a]
      /\ reloads' = reloads \union {q \in {p} : state[q] = "loaded" /\ a # options[q]}
      /\ missed' = missed \union {q \in {p} : state[q] = "setting up"}
      /\ UNCHANGED <<kind, addr, version, data, state, config, at, naming, uid, flow, copies,
                     call>>
  BY DEF SavesOptions, registry
<1>2. /\ options' \in [Printers -> Addresses \union {Unset}]
      /\ options'[p] = a /\ \A q \in Printers : q # p => options'[q] = options[q]
  BY <1>1 DEF IInv, Types, TypeOK
<1>3. Types'
  BY <1>1, <1>2 DEF IInv, Types, TypeOK
<1>4. Versions' /\ OptionsRead'
  BY <1>1, <1>2 DEF IInv, Versions, OptionsRead
<1>5. RunsAsConfigured'
  <2> SUFFICES ASSUME NEW q \in Printers, Settled(q)'
               PROVE  at'[q] = Effective(q)'
    BY DEF RunsAsConfigured
  <2>1. Settled(q)
    BY <1>1 DEF Settled
  <2>2. options'[q] = options[q]
    BY <1>1, <1>2 DEF Settled
  <2>3. QED
    BY <1>1, <2>1, <2>2 DEF IInv, RunsAsConfigured, Effective
<1>6. QED
  BY <1>1, <1>3, <1>4, <1>5, NamesKept DEF IInv

LEMMA RestartStep ==
    ASSUME IInv, Restart
    PROVE  IInv'
<1>1. /\ state' = [p \in Printers |-> "off"] /\ at' = [p \in Printers |-> Unset]
      /\ config' = at' /\ reloads' = {} /\ missed' = {}
      /\ flow' = [f \in Flows |-> NoFlow] /\ call' = NoCall
      /\ UNCHANGED <<kind, addr, version, data, options, naming, uid, copies>>
  BY DEF Restart, stored
<1>2. Types'
  <2>1. NoFlow \in FlowRecord
    BY DEF NoFlow, FlowRecord
  <2>2. call'.step = "none"
    BY <1>1 DEF NoCall
  <2>3. QED
    BY <1>1, <2>1, <2>2 DEF IInv, Types, TypeOK, NoFlow
<1>3. Versions' /\ OptionsRead' /\ RunsAsConfigured'
  BY <1>1 DEF Versions, OptionsRead, RunsAsConfigured, Settled
<1>4. QED
  BY <1>1, <1>2, <1>3, NamesKept DEF IInv

LEMMA RaisesStep ==
    ASSUME IInv, UpdateIpRaises
    PROVE  IInv'
<1>1. /\ call.step = "waiting" /\ state[call.p] = "migration failed" /\ call' = NoCall
      /\ UNCHANGED <<kind, addr, version, data, options, state, config, at, reloads, missed,
                     naming, uid, flow, copies>>
  BY DEF UpdateIpRaises, stored, running, registry
<1>2. Types'
  BY <1>1, CallStep DEF IInv, Types, TypeOK
<1>3. Versions' /\ OptionsRead'
  BY <1>1 DEF IInv, Versions, OptionsRead
<1>4. RunsAsConfigured'
  <2>1. \A q \in Printers : Settled(q)' => Settled(q)
    BY <1>1 DEF Settled
  <2>2. QED
    BY <1>1, <2>1 DEF IInv, RunsAsConfigured, Effective
<1>5. QED
  BY <1>1, <1>2, <1>3, <1>4, NamesKept DEF IInv

\* A step that changes a printer's address, a flow, or nothing.
LEMMA OutsideStep ==
    ASSUME IInv, UNCHANGED <<kind, stored, running, registry, copies, call>>,
           addr' \in [Printers -> Addresses], flow' \in [Flows -> FlowRecord]
    PROVE  IInv'
<1>1. UNCHANGED <<version, data, options, state, config, at, reloads, missed, naming, uid>>
  BY DEF stored, running, registry
<1>2. Types'
  <2>1. \A f \in Flows : flow'[f].step \in
           {"none", "pick", "manual", "auth", "code", "options", "testing"}
    BY DEF FlowRecord
  <2>2. QED
    BY <1>1, <2>1 DEF IInv, Types, TypeOK
<1>3. Versions' /\ OptionsRead'
  BY <1>1 DEF IInv, Versions, OptionsRead
<1>4. RunsAsConfigured'
  BY <1>1 DEF IInv, RunsAsConfigured, Settled, Effective
<1>5. QED
  BY <1>1, <1>2, <1>3, <1>4, NamesKept DEF IInv
-----------------------------------------------------------------------------
(***************************************************************************)
(* The config flow.                                                        *)
(***************************************************************************)
LEMMA FlowGoes ==
    ASSUME IInv, NEW f \in Flows, NEW next \in FlowRecord, Goes(f, next)
    PROVE  flow' \in [Flows -> FlowRecord]
BY DEF IInv, Types, Goes

LEMMA NoFlowType == NoFlow \in FlowRecord
BY DEF NoFlow, FlowRecord

\* The one step that creates an entry: the printer has none, so none is lost.
LEMMA CreateStep ==
    ASSUME IInv, NEW f \in Flows, NEW p \in Printers \union {NoPrinter},
           NEW ip \in Addresses \union {Unset}, ~Configured(p), Create(f, p, ip),
           UNCHANGED <<kind, addr, running, registry, call>>
    PROVE  IInv'
<1>1. /\ version' = [version EXCEPT ![p] = 5] /\ data' = [data EXCEPT ![p] = ip]
      /\ options' = [options EXCEPT ![p] = Unset] /\ Goes(f, NoFlow)
      /\ UNCHANGED <<state, config, at, reloads, missed, naming, uid>>
  BY DEF Create, running, registry
<1>2. copies' = {}
  BY DEF IInv, Create
<1>3. flow' \in [Flows -> FlowRecord]
  BY <1>1, FlowGoes, NoFlowType
<1>4. /\ version' \in [Printers -> 0..5]
      /\ data' \in [Printers -> Addresses \union {Unset}]
      /\ options' \in [Printers -> Addresses \union {Unset}]
      /\ \A q \in Printers : q # p =>
             version'[q] = version[q] /\ data'[q] = data[q] /\ options'[q] = options[q]
      /\ p \in Printers => version[p] = 0 /\ version'[p] = 5
  <2>1. /\ version \in [Printers -> 0..5]
        /\ data \in [Printers -> Addresses \union {Unset}]
        /\ options \in [Printers -> Addresses \union {Unset}]
    BY DEF IInv, Types, TypeOK
  <2>2. p \in Printers => version[p] = 0
    BY <2>1 DEF Configured
  <2>3. version' \in [Printers -> 0..5]
    <3>1. \A q \in Printers : version'[q] = IF q = p THEN 5 ELSE version[q]
      BY <1>1, <2>1
    <3>2. version' = [q \in Printers |-> version'[q]]
      BY <1>1, <2>1
    <3>3. \A q \in Printers : version'[q] \in 0..5
      BY <2>1, <3>1
    <3>4. QED
      BY <3>2, <3>3
  <2>4. /\ data' \in [Printers -> Addresses \union {Unset}]
        /\ options' \in [Printers -> Addresses \union {Unset}]
    BY <1>1, <2>1
  <2>5. \A q \in Printers : q # p =>
             version'[q] = version[q] /\ data'[q] = data[q] /\ options'[q] = options[q]
    BY <1>1, <2>1
  <2>6. p \in Printers => version'[p] = 5
    BY <1>1, <2>1
  <2>7. QED
    BY <2>2, <2>3, <2>4, <2>5, <2>6
<1>5. p \in Printers => state[p] = "off"
  BY <1>4 DEF IInv, Versions
<1>6. Types'
  <2>1. \A g \in Flows : flow'[g].step \in
           {"none", "pick", "manual", "auth", "code", "options", "testing"}
    BY <1>3 DEF FlowRecord
  <2>2. \A q \in Printers : state[q] = "loaded" => version'[q] \in {4, 5} /\ at[q] \in Addresses
    BY <1>4, <1>5 DEF IInv, Types, TypeOK
  <2>3. QED
    BY <1>1, <1>3, <1>4, <2>1, <2>2 DEF IInv, Types, TypeOK
<1>7. Versions' /\ OptionsRead'
  BY <1>1, <1>4, <1>5 DEF IInv, Versions, OptionsRead
<1>8. RunsAsConfigured'
  <2> SUFFICES ASSUME NEW q \in Printers, Settled(q)'
               PROVE  at'[q] = Effective(q)'
    BY DEF RunsAsConfigured
  <2>1. Settled(q) /\ q # p
    BY <1>1, <1>5 DEF Settled
  <2>2. QED
    BY <1>1, <1>4, <2>1 DEF IInv, RunsAsConfigured, Effective
<1>9. Names'
  <2>1. \A q \in Printers \ {Oldest} : version'[q] \in {0, 4, 5}
    BY <1>4 DEF IInv, Names
  <2>2. version'[Oldest] \in {0, 4, 5} => version[Oldest] \in {0, 4, 5}
    BY <1>4, OldestIsPrinter
  <2>3. QED
    BY <1>1, <2>1, <2>2 DEF IInv, Names
<1>10. QED
  BY <1>2, <1>6, <1>7, <1>8, <1>9 DEF IInv

LEMMA CreateOnceStep ==
    ASSUME IInv, NEW f \in Flows, NEW p \in Printers \union {NoPrinter},
           NEW ip \in Addresses \union {Unset}, CreateOnce(f, p, ip),
           UNCHANGED <<kind, addr, running, registry, call>>
    PROVE  IInv'
<1>1. CASE ~Configured(p) /\ Create(f, p, ip)
  BY <1>1, CreateStep
<1>2. CASE Goes(f, NoFlow) /\ UNCHANGED <<stored, copies>>
  BY <1>2, FlowGoes, NoFlowType, OutsideStep DEF IInv, Types, TypeOK
<1>3. QED
  BY <1>1, <1>2 DEF CreateOnce

LEMMA AskStep ==
    ASSUME IInv, NEW f \in Flows, NEW p \in Printers \union {NoPrinter},
           NEW ip \in Addresses \union {Unset}, NEW id \in Printers \union {NoPrinter},
           NEW step \in {"pick", "manual", "auth", "options"}, Ask(f, p, ip, id, step),
           UNCHANGED <<kind, addr, running, registry, call>>
    PROVE  IInv'
<1>1. [step |-> step, p |-> p, ip |-> ip, id |-> id, form |-> step] \in FlowRecord
  BY DEF FlowRecord
<1>2. flow' \in [Flows -> FlowRecord]
  BY <1>1, FlowGoes DEF Ask
<1>3. QED
  BY <1>2, OutsideStep DEF Ask, IInv, Types, TypeOK

LEMMA FlowSteps ==
    ASSUME IInv, NEW f \in Flows,
           \/ Discover(f) \/ Pick(f) \/ AsksForCode(f) \/ Submit(f)
           \/ TestSucceeds(f) \/ TestFails(f) \/ UserCloses(f)
    PROVE  IInv'
<1>1. /\ flow[f] \in FlowRecord /\ addr \in [Printers -> Addresses]
      /\ Form(flow[f].p) \in {"pick", "manual", "auth", "options"}
  BY DEF IInv, Types, TypeOK, Form
<1>2. /\ flow[f].p \in Printers \union {NoPrinter} /\ flow[f].ip \in Addresses \union {Unset}
      /\ flow[f].form \in {"none", "pick", "manual", "auth", "code", "options"}
  BY <1>1 DEF FlowRecord
<1>3. ASSUME NEW next \in FlowRecord, Goes(f, next),
             UNCHANGED <<kind, addr, stored, running, registry, copies, call>>
      PROVE  IInv'
  BY <1>1, <1>3, FlowGoes, OutsideStep
<1>4. CASE Discover(f)
  BY <1>1, <1>4, AskStep DEF Discover
<1>5. CASE Pick(f)
  BY <1>1, <1>2, <1>5, AskStep, CreateOnceStep DEF Pick
<1>6. CASE AsksForCode(f)
  <2>1. [flow[f] EXCEPT !.step = "code", !.form = "code"] \in FlowRecord
    BY <1>1 DEF FlowRecord
  <2>2. QED
    BY <1>3, <1>6, <2>1 DEF AsksForCode
<1>7. CASE Submit(f)
  <2>1. [flow[f] EXCEPT !.step = "testing"] \in FlowRecord
    BY <1>1 DEF FlowRecord
  <2>2. QED
    BY <1>3, <1>7, <2>1 DEF Submit
<1>8. CASE TestSucceeds(f)
  BY <1>2, <1>8, CreateOnceStep DEF TestSucceeds
<1>9. CASE TestFails(f)
  <2>1. [flow[f] EXCEPT !.step = flow[f].form] \in FlowRecord
    BY <1>1, <1>2 DEF FlowRecord
  <2>2. QED
    BY <1>3, <1>9, <2>1 DEF TestFails
<1>10. CASE UserCloses(f)
  BY <1>3, <1>10, NoFlowType DEF UserCloses
<1>11. QED
  BY <1>4, <1>5, <1>6, <1>7, <1>8, <1>9, <1>10

LEMMA EnterIpStep ==
    ASSUME IInv, NEW f \in Flows, NEW p \in Printers, EnterIp(f, p)
    PROVE  IInv'
<1>1. addr[p] \in Addresses /\ Form(p) \in {"auth", "options"}
  BY DEF IInv, Types, TypeOK, Form
<1>2. QED
  BY <1>1, AskStep, CreateOnceStep DEF EnterIp
-----------------------------------------------------------------------------
(***************************************************************************)
(* The theorems.                                                           *)
(***************************************************************************)
LEMMA IInvInit ==
    ASSUME Init
    PROVE  IInv
<1>1. PICK v \in 0..5 :
         /\ v = 3 \/ (naming = "distinct" /\ taken = {})
         /\ version = [p \in Printers |-> IF p = Oldest THEN v ELSE 0]
         /\ data = [p \in Printers |-> IF p = Oldest /\ v > 0 THEN addr[p] ELSE Unset]
         /\ uid = [i \in DOMAIN Entities |-> IF v \in 1..3 /\ naming # "same" THEN "old" ELSE "new"]
  BY DEF Init
<1>2. /\ kind \in [Printers -> {"sdcp", "mqtt", "cc2"}] /\ addr \in [Printers -> Addresses]
      /\ naming \in {"distinct", "same", "prefix"}
      /\ options = [p \in Printers |-> Unset] /\ state = [p \in Printers |-> "off"]
      /\ config = [p \in Printers |-> Unset] /\ at = [p \in Printers |-> Unset]
      /\ reloads = {} /\ missed = {} /\ flow = [f \in Flows |-> NoFlow]
      /\ copies = {} /\ call = NoCall
  BY DEF Init
<1>3. version \in [Printers -> 0..5] /\ data \in [Printers -> Addresses \union {Unset}]
  BY <1>1, <1>2
<1>4. /\ flow \in [Flows -> FlowRecord] /\ \A f \in Flows : flow[f].step = "none"
      /\ call.step = "none"
  BY <1>2, NoFlowType DEF NoFlow, NoCall
<1>5. Types
  <2>1. \A i \in DOMAIN Entities : uid[i] \in {"old", "new", "twice"}
    BY <1>1
  <2>2. QED
    BY <1>2, <1>3, <1>4, <2>1 DEF Types, TypeOK
<1>6. Versions /\ OptionsRead /\ RunsAsConfigured
  BY <1>2 DEF Versions, OptionsRead, RunsAsConfigured, Settled
<1>7. Names
  BY <1>1, <1>2, OldestIsPrinter DEF Names
<1>8. QED
  BY <1>2, <1>5, <1>6, <1>7 DEF IInv

LEMMA IInvKept ==
    ASSUME IInv, [Next]_vars
    PROVE  IInv'
<1>1. /\ call = NoCall \/ call \in CallRecord
      /\ reloads \subseteq Printers /\ addr \in [Printers -> Addresses]
      /\ flow \in [Flows -> FlowRecord]
  BY DEF IInv, Types, TypeOK
<1>2. CASE Restart
  BY <1>2, RestartStep
<1>3. CASE UpdateIpReloads
  <2>1. call \in CallRecord
    BY <1>1, <1>3 DEF UpdateIpReloads, NoCall
  <2>2. call.p \in Printers /\ [call EXCEPT !.step = "reloading"] \in CallRecord
    BY <2>1 DEF CallRecord
  <2>3. QED
    BY <1>1, <1>3, <2>2, SetUpStep DEF UpdateIpReloads
<1>4. CASE UpdateIpRaises
  BY <1>4, RaisesStep
<1>5. ASSUME NEW p \in Printers,
             \/ SetsUp(p) \/ ListenerReloads(p) \/ SetUpSucceeds(p) \/ SetUpFails(p)
             \/ PollReconnects(p)
      PROVE  IInv'
  <2>1. CASE SetsUp(p)
    BY <1>1, <2>1, SetUpStep DEF SetsUp
  <2>2. CASE ListenerReloads(p)
    BY <1>1, <2>2, SetUpStep DEF ListenerReloads
  <2>3. CASE PollReconnects(p)
    <3>1. at[p] \in Addresses
      BY <2>3 DEF PollReconnects, IInv, Types, TypeOK
    <3>2. QED
      BY <1>1, <2>3, <3>1, WritesData DEF PollReconnects, registry
  <2>4. QED
    BY <1>5, <2>1, <2>2, <2>3, SucceedsStep, FailsStep
<1>6. ASSUME NEW p \in Printers, NEW a \in Addresses,
             Moves(p, a) \/ SavesOptions(p, a) \/ UpdateIp(p, a)
      PROVE  IInv'
  <2>1. CASE Moves(p, a)
    <3>1. addr' \in [Printers -> Addresses]
      BY <1>1, <2>1 DEF Moves
    <3>2. QED
      BY <1>1, <2>1, <3>1, OutsideStep DEF Moves
  <2>2. CASE UpdateIp(p, a)
    <3>1. [step |-> "waiting", p |-> p, ip |-> a, ok |-> FALSE] \in CallRecord
      BY DEF CallRecord
    <3>2. QED
      BY <1>1, <2>2, <3>1, WritesData DEF UpdateIp, Changes, registry
  <2>3. QED
    BY <1>6, <2>1, <2>2, SavesOptionsStep
<1>7. CASE UNCHANGED vars
  BY <1>1, <1>7, OutsideStep DEF vars
<1>8. QED
  BY <1>2, <1>3, <1>4, <1>5, <1>6, <1>7, FlowSteps, EnterIpStep DEF Next

\* A printer has at most one entry, however many flows there are
\* (OneEntryPerPrinter): what a flow checked before an await is checked again where
\* the entry is created.
THEOREM OneEntryTheorem == Spec => []OneEntryPerPrinter
<1>1. IInv => OneEntryPerPrinter
  BY DEF IInv, Types, OneEntryPerPrinter
<1>2. QED
  BY <1>1, IInvInit, IInvKept, PTL DEF Spec

\* A settled entry talks to its configured address (RunsAsConfigured).
THEOREM RunsAsConfiguredTheorem == Spec => []RunsAsConfigured
<1>1. IInv => RunsAsConfigured
  BY DEF IInv
<1>2. QED
  BY <1>1, IInvInit, IInvKept, PTL DEF Spec

\* A loaded old entry's entities have their new unique ids, in whatever order and
\* after however many attempts they were renamed (EntitiesKeepTheirHistory).
THEOREM EntitiesTheorem == Spec => []EntitiesKeepTheirHistory
<1>1. IInv => EntitiesKeepTheirHistory
  BY OldestIsPrinter DEF IInv, Versions, Names, EntitiesKeepTheirHistory
<1>2. QED
  BY <1>1, IInvInit, IInvKept, PTL DEF Spec
=============================================================================
