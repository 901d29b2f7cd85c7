----------------------------- MODULE EntryConfig -----------------------------
(***************************************************************************)
(* The configuration of the entries: the config flow that creates them,    *)
(* the migration of old ones, the options flow, the update_ip service and  *)
(* the client itself, which all write an entry's data or options; and the  *)
(* reloads after which a printer is contacted at the address stored.       *)
(*                                                                         *)
(* The settings in effect are data overlaid with options.  Of the settings *)
(* only the address is kept: data[p], options[p] (Unset until the options  *)
(* flow has run) and at[p], the address the loaded client uses.  Home      *)
(* Assistant runs one setup of an entry at a time and aborts a second flow *)
(* for a unique id; what it does is taken from its documented behaviour.   *)
(***************************************************************************)
EXTENDS Naturals, Sequences, FiniteSets, SequencesExt

CONSTANTS
    Printers,
    Addresses,
    Unset,          \* no address
    Flows,          \* config flows
    Entities,       \* an old entry's entities, in the registry's order
    MaxChanges,     \* bound: user's changes of an entry
    MaxMoves        \* bound: changes of a printer's address

ASSUME ConstantsAssumption ==
    /\ Printers # {} /\ Unset \notin Addresses
    /\ Entities \in Seq(STRING)
    /\ MaxChanges \in Nat /\ MaxMoves \in Nat

NoPrinter == "none"
ASSUME NoPrinterAssumption == NoPrinter \notin Printers

VARIABLES
    kind,       \* "sdcp", "mqtt" or "cc2"
    addr,       \* where each printer is
    moves, changes,
    \* the entries
    version,    \* 0: there is no entry
    data, options,
    state,      \* "off", "setting up", "loaded", "retry" or "migration failed"
    config,     \* the address a setup has read
    at,
    reloads,    \* entries whose update listener has asked for a reload
    missed,     \* ghost: entries whose options changed during their setup
    \* an old entry's entities
    naming,     \* the relation of the old prefix of unique ids to the new
    uid,        \* the prefix of each entity's unique id: "old", "new" or "twice"
    taken,      \* entities whose new unique id another entity has
    \* flows and the service call
    flow,
    copies,     \* ghost: printers given a second entry
    call

stored == <<version, data, options>>
running == <<state, config, at, reloads, missed>>
registry == <<naming, uid, taken>>
vars == <<kind, addr, moves, changes, stored, running, registry, flow, copies, call>>

Effective(p) == IF options[p] # Unset THEN options[p] ELSE data[p]
NoFlow == [step |-> "none", p |-> NoPrinter, ip |-> Unset, id |-> NoPrinter, form |-> "none"]
NoCall == [step |-> "none"]

TypeOK ==
    /\ kind \in [Printers -> {"sdcp", "mqtt", "cc2"}]
    /\ addr \in [Printers -> Addresses]
    /\ version \in [Printers -> 0..5]
    /\ data \in [Printers -> Addresses \union {Unset}]
    /\ options \in [Printers -> Addresses \union {Unset}]
    /\ state \in [Printers -> {"off", "setting up", "loaded", "retry", "migration failed"}]
    /\ config \in [Printers -> Addresses \union {Unset}]
    /\ at \in [Printers -> Addresses \union {Unset}]
    /\ \A p \in Printers : state[p] = "loaded" => version[p] \in {4, 5} /\ at[p] \in Addresses
    /\ reloads \subseteq Printers /\ missed \subseteq Printers
    /\ \A i \in DOMAIN Entities : uid[i] \in {"old", "new", "twice"}
    /\ \A f \in Flows : flow[f].step \in
         {"none", "pick", "manual", "auth", "code", "options", "testing"}
    /\ call.step \in {"none", "waiting", "reloading", "done"}

Oldest == CHOOSE p \in Printers : TRUE     \* the one that may have an old entry

Init ==
    /\ kind \in [Printers -> {"sdcp", "mqtt", "cc2"}]
    /\ addr \in [Printers -> Addresses] /\ IsInjective(addr)
    /\ moves = 0 /\ changes = 0
    /\ naming \in {"distinct", "same", "prefix"}
    /\ taken \in SUBSET ToSet(Entities)
    /\ \E v \in 0..5 :
          /\ v > 0 => kind[Oldest] # "mqtt"
          /\ v = 3 \/ (naming = "distinct" /\ taken = {})
          /\ version = [p \in Printers |-> IF p = Oldest THEN v ELSE 0]
          /\ data = [p \in Printers |-> IF p = Oldest /\ v > 0 THEN addr[p] ELSE Unset]
          /\ uid = [i \in DOMAIN Entities |-> IF v \in 1..3 /\ naming # "same" THEN "old" ELSE "new"]
    /\ options = [p \in Printers |-> Unset]
    /\ state = [p \in Printers |-> "off"]
    /\ config = [p \in Printers |-> Unset] /\ at = [p \in Printers |-> Unset]
    /\ reloads = {} /\ missed = {}
    /\ flow = [f \in Flows |-> NoFlow] /\ copies = {} /\ call = NoCall
-----------------------------------------------------------------------------
(***************************************************************************)
(* Printers.  An SDCP printer is known by its address only; a CC2 or MQTT  *)
(* printer answers under its own serial number.                            *)
(***************************************************************************)
Answers(p, a) ==
    \E q \in Printers : addr[q] = a /\ (q = p \/ (kind[p] = "sdcp" /\ kind[q] = "sdcp"))

Moves(p, a) ==
    /\ moves < MaxMoves /\ \A q \in Printers : addr[q] # a
    /\ moves' = moves + 1
    /\ addr' = [addr EXCEPT ![p] = a]
    /\ UNCHANGED <<kind, changes, stored, running, registry, flow, copies, call>>
-----------------------------------------------------------------------------
(***************************************************************************)
(* Migration, on every set-up of an entry of an older version.             *)
(***************************************************************************)
\* 1 -> 2 wants an SDCP or MQTT printer to answer discovery at the address.
CanBeRead(p) == \E q \in Printers : kind[q] # "cc2" /\ addr[q] = Effective(p)

\* Entities are renamed in order; the registry raises at a unique id in use.
Old(i) == uid[i] = "old" \/ (naming = "prefix" /\ uid[i] = "new")
Renamed(i) == IF ~Old(i) THEN uid[i] ELSE IF uid[i] = "old" THEN "new" ELSE "twice"
Conflicts == {i \in DOMAIN Entities : Old(i) /\ Entities[i] \in taken}
Renames ==
    uid' = [i \in DOMAIN Entities |->
              IF \E j \in Conflicts : j <= i THEN uid[i] ELSE Renamed(i)]

\* Mutant: the version is raised although an entity could not be renamed.
MovesToIdAnyway(p) == version' = [version EXCEPT ![p] = 5] /\ Renames
\* 3 -> 4 and 5.
MovesToId(p) ==
    \/ /\ naming = "same"        \* returns at once, at version 4
       /\ version' = [version EXCEPT ![p] = 4] /\ UNCHANGED uid
    \/ /\ naming # "same"        \* a conflict fails it, at version 3
       /\ version' = [version EXCEPT ![p] = IF Conflicts = {} THEN 5 ELSE 3]
       /\ Renames

Migrate(p) ==
    \/ /\ version[p] = 1 /\ ~CanBeRead(p)
       /\ UNCHANGED <<version, uid, data>>
    \/ /\ version[p] \in 1..3 /\ (version[p] = 1 => CanBeRead(p))
       /\ data' = IF version[p] = 1 THEN [data EXCEPT ![p] = Effective(p)] ELSE data
       /\ MovesToId(p)
    \/ /\ version[p] \in 4..5
       /\ version' = [version EXCEPT ![p] = 5] /\ UNCHANGED <<uid, data>>
-----------------------------------------------------------------------------
(***************************************************************************)
(* Set-up and reload.                                                      *)
(***************************************************************************)
ReadsConfig(p) == config' = [config EXCEPT ![p] = Effective(p)]

\* An entry whose migration fails is not set up.
SetUp(p) ==
    /\ Migrate(p)
    /\ state' = [state EXCEPT ![p] =
                    IF version'[p] >= 4 THEN "setting up" ELSE "migration failed"]
    /\ ReadsConfig(p)
    /\ at' = [at EXCEPT ![p] = Unset]
    /\ missed' = missed \ {p}
    /\ UNCHANGED <<kind, addr, moves, changes, options, naming, taken, flow, copies>>

\* At the start of Home Assistant, after an entry is created, or at a retry.
SetsUp(p) ==
    /\ version[p] > 0 /\ state[p] \in {"off", "retry"}
    /\ SetUp(p)
    /\ UNCHANGED <<reloads, call>>

\* The update listener's reload; an entry whose migration failed has no listener.
ListenerReloads(p) ==
    /\ p \in reloads /\ state[p] \in {"loaded", "retry"}
    /\ reloads' = reloads \ {p}
    /\ SetUp(p)
    /\ UNCHANGED call

\* What a waiting update_ip call returns: whether its reload has loaded the entry.
CallFinds(p, ok) ==
    call' = IF call.step = "reloading" /\ call.p = p
            THEN [call EXCEPT !.step = "done", !.ok = ok] ELSE call

\* The client has connected, and writes its address to the data.
SetUpSucceeds(p) ==
    /\ state[p] = "setting up" /\ Answers(p, config[p])
    /\ state' = [state EXCEPT ![p] = "loaded"]
    /\ at' = [at EXCEPT ![p] = config[p]]
    /\ data' = [data EXCEPT ![p] = config[p]]
    /\ CallFinds(p, TRUE)
    /\ UNCHANGED <<kind, addr, moves, changes, version, options, config, reloads,
                   missed, registry, flow, copies>>

\* The printer is not found, or any of the steps of the connection fails.
SetUpFails(p) ==
    /\ state[p] = "setting up"
    /\ state' = [state EXCEPT ![p] = "retry"]
    /\ CallFinds(p, FALSE)
    /\ UNCHANGED <<kind, addr, moves, changes, stored, config, at, reloads, missed,
                   registry, flow, copies>>

\* The coordinator's poll fails and the client connects again.
PollReconnects(p) ==
    /\ state[p] = "loaded" /\ Answers(p, at[p]) /\ data[p] # at[p]
    /\ data' = [data EXCEPT ![p] = at[p]]
    /\ reloads' = reloads \union {p}
    /\ UNCHANGED <<kind, addr, moves, changes, version, options, state, config, at,
                   missed, registry, flow, copies, call>>

\* Home Assistant restarts; the user may have freed the unique ids.
Restart ==
    /\ state' = [p \in Printers |-> "off"]
    /\ at' = [p \in Printers |-> Unset] /\ config' = at'
    /\ reloads' = {} /\ missed' = {}
    /\ taken' \in {taken, {}}
    /\ flow' = [f \in Flows |-> NoFlow] /\ call' = NoCall
    /\ UNCHANGED <<kind, addr, moves, changes, stored, naming, uid, copies>>
-----------------------------------------------------------------------------
(***************************************************************************)
(* The options flow and the update_ip service.                             *)
(***************************************************************************)
Changes(p) ==
    /\ changes < MaxChanges /\ changes' = changes + 1
    /\ version[p] > 0 /\ state[p] # "off"

\* Mutant: the options are saved and no listener is told.
SavesQuietly(p, a) ==
    /\ Changes(p)
    /\ kind[p] = "sdcp" => Answers(p, a)
    /\ options' = [options EXCEPT ![p] = a]
    /\ missed' = missed \union {q \in {p} : state[q] = "setting up"}
    /\ UNCHANGED <<kind, addr, moves, version, data, state, config, at, reloads,
                   registry, flow, copies, call>>

\* An SDCP printer is tested at the new address first.
SavesOptions(p, a) ==
    /\ Changes(p)
    /\ kind[p] = "sdcp" => Answers(p, a)
    /\ options' = [options EXCEPT ![p] = a]
    /\ reloads' = reloads \union {q \in {p} : state[q] = "loaded" /\ a # options[q]}
    /\ missed' = missed \union {q \in {p} : state[q] = "setting up"}
    /\ UNCHANGED <<kind, addr, moves, version, data, state, config, at, registry, flow,
                   copies, call>>

UpdateIp(p, a) ==
    /\ call.step \in {"none", "done"} /\ Changes(p)
    /\ data' = [data EXCEPT ![p] = a]
    /\ reloads' = reloads \union {q \in {p} : state[q] = "loaded" /\ a # data[q]}
    /\ call' = [step |-> "waiting", p |-> p, ip |-> a, ok |-> FALSE]
    /\ UNCHANGED <<kind, addr, moves, version, options, state, config, at, missed,
                   registry, flow, copies>>

\* The explicit reload, once a set-up in progress has released its lock.
UpdateIpReloads ==
    /\ call.step = "waiting" /\ state[call.p] \in {"loaded", "retry"}
    /\ call' = [call EXCEPT !.step = "reloading"]
    /\ SetUp(call.p)
    /\ UNCHANGED reloads

\* An entry whose migration failed cannot be reloaded: the call raises.
UpdateIpRaises ==
    /\ call.step = "waiting" /\ state[call.p] = "migration failed"
    /\ call' = NoCall
    /\ UNCHANGED <<kind, addr, moves, changes, stored, running, registry, flow, copies>>
-----------------------------------------------------------------------------
(***************************************************************************)
(* The config flow.  A flow keeps the printer selected, the address it was *)
(* discovered at, and the unique id it has claimed.                        *)
(***************************************************************************)
Goes(f, next) == flow' = [flow EXCEPT ![f] = next]
Configured(p) == version[p] > 0
Claimed(f, p) == \E g \in Flows \ {f} : flow[g].id = p

Create(f, p, ip) ==
    /\ version' = [version EXCEPT ![p] = 5]
    /\ data' = [data EXCEPT ![p] = ip] /\ options' = [options EXCEPT ![p] = Unset]
    /\ copies' = copies \union {q \in {p} : Configured(q)}
    /\ Goes(f, NoFlow)
\* async_set_unique_id and _abort_if_unique_id_configured, then the entry.
CreateOnce(f, p, ip) ==
    \/ /\ ~Configured(p) /\ ~Claimed(f, p) /\ Create(f, p, ip)
    \/ /\ Configured(p) \/ Claimed(f, p)
       /\ Goes(f, NoFlow) /\ UNCHANGED <<stored, copies>>

Ask(f, p, ip, id, step) ==
    /\ Goes(f, [step |-> step, p |-> p, ip |-> ip, id |-> id, form |-> step])
    /\ UNCHANGED <<stored, copies>>
Form(p) == IF kind[p] = "cc2" THEN "auth" ELSE "options"

\* Any of the printers may answer, and the user will pick one of those that do.
Discover(f) ==
    /\ flow[f].step = "none"
    /\ \/ \E p \in Printers : Ask(f, p, addr[p], NoPrinter, "pick")
       \/ Ask(f, NoPrinter, Unset, NoPrinter, "manual")
    /\ UNCHANGED <<kind, addr, moves, changes, running, registry, call>>

\* Mutant: an MQTT printer gets its entry at once.
PickUnchecked(f) ==
    LET p == flow[f].p IN
    /\ flow[f].step = "pick"
    /\ \/ Ask(f, NoPrinter, Unset, NoPrinter, "manual")
       \/ /\ kind[p] = "mqtt" /\ Create(f, p, flow[f].ip)
       \/ /\ kind[p] # "mqtt" /\ Ask(f, p, flow[f].ip, NoPrinter, Form(p))
    /\ UNCHANGED <<kind, addr, moves, changes, running, registry, call>>

Pick(f) ==
    LET p == flow[f].p IN
    /\ flow[f].step = "pick"
    /\ \/ Ask(f, NoPrinter, Unset, NoPrinter, "manual")
       \/ /\ kind[p] = "mqtt" /\ CreateOnce(f, p, flow[f].ip)
       \/ /\ kind[p] # "mqtt" /\ Ask(f, p, flow[f].ip, NoPrinter, Form(p))
    /\ UNCHANGED <<kind, addr, moves, changes, running, registry, call>>

\* The printer at the address answers; when none does the form is shown again.
EnterIp(f, p) ==
    /\ flow[f].step = "manual"
    /\ \/ /\ kind[p] = "mqtt" \/ Configured(p) \/ Claimed(f, p)
          /\ CreateOnce(f, p, addr[p])
       \/ /\ kind[p] # "mqtt" /\ ~Configured(p) /\ ~Claimed(f, p)
          /\ Ask(f, p, addr[p], p, Form(p))
    /\ UNCHANGED <<kind, addr, moves, changes, running, registry, call>>

AsksForCode(f) ==
    /\ flow[f].step = "auth"
    /\ Goes(f, [flow[f] EXCEPT !.step = "code", !.form = "code"])
    /\ UNCHANGED <<kind, addr, moves, changes, stored, running, registry, copies, call>>

Submit(f) ==
    /\ flow[f].step \in {"auth", "code", "options"}
    /\ Goes(f, [flow[f] EXCEPT !.step = "testing"])
    /\ UNCHANGED <<kind, addr, moves, changes, stored, running, registry, copies, call>>

TestSucceeds(f) ==
    /\ flow[f].step = "testing" /\ Answers(flow[f].p, flow[f].ip)
    /\ CreateOnce(f, flow[f].p, flow[f].ip)
    /\ UNCHANGED <<kind, addr, moves, changes, running, registry, call>>

TestFails(f) ==
    /\ flow[f].step = "testing"
    /\ Goes(f, [flow[f] EXCEPT !.step = flow[f].form])
    /\ UNCHANGED <<kind, addr, moves, changes, stored, running, registry, copies, call>>

UserCloses(f) ==
    /\ flow[f].step # "none"
    /\ Goes(f, NoFlow)
    /\ UNCHANGED <<kind, addr, moves, changes, stored, running, registry, copies, call>>
-----------------------------------------------------------------------------
Next ==
    \/ Restart \/ UpdateIpReloads \/ UpdateIpRaises
    \/ \E p \in Printers :
          \/ SetsUp(p) \/ ListenerReloads(p) \/ SetUpSucceeds(p) \/ SetUpFails(p)
          \/ PollReconnects(p)
          \/ \E a \in Addresses : Moves(p, a) \/ SavesOptions(p, a) \/ UpdateIp(p, a)
          \/ \E f \in Flows : EnterIp(f, p)
    \/ \E f \in Flows :
          \/ Discover(f) \/ Pick(f) \/ AsksForCode(f) \/ Submit(f)
          \/ TestSucceeds(f) \/ TestFails(f) \/ UserCloses(f)

Spec == Init /\ [][Next]_vars
-----------------------------------------------------------------------------
(***************************************************************************)
(* Properties.                                                             *)
(***************************************************************************)
\* However two flows for a printer interleave with each other and with an older
\* entry, discovered or entered by address, a printer has at most one entry
\* (config_flow.py, every path to async_create_entry).
\* The state is well typed.
OneEntryPerPrinter == TypeOK /\ copies = {}

\* A loaded entry with no reload under way talks to the address that its data
\* and options give, whatever the user, the update_ip service and the client
\* itself have written and in what order; but for options saved while the entry
\* was being set up, of which no listener is told (async_setup_entry).
Settled(p) ==
    /\ state[p] = "loaded" /\ p \notin reloads \union missed
    /\ call.step \in {"waiting", "reloading"} => call.p # p
RunsAsConfigured == \A p \in Printers : Settled(p) => at[p] = Effective(p)

\* Once an old entry has loaded, every entity of it has its new unique id, also
\* when the migration failed half-way and was repeated after restarts; but when
\* the new ids begin with the old prefix (async_migrate_entry 3 -> 4).
EntitiesKeepTheirHistory ==
    naming # "prefix" /\ state[Oldest] = "loaded" => \A i \in DOMAIN Entities : uid[i] = "new"

\* The docstring of update_ip: it "writes the new address into the entry data,
\* reloads the entry so the integration reconnects at the new address"
\* (__init__.py:98-100).  False even when nobody overwrites the data meanwhile:
\* the set-up lets the options, saved once, hide it.
UpdateIpConnectsThere ==
    [][call.step = "waiting" /\ call'.step = "reloading" /\ data[call.p] = call.ip
         => config'[call.p] = call.ip]_vars
=============================================================================
