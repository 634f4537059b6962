------------------------------- MODULE Startup ------------------------------
(***************************************************************************)
(* Starting seedwright: the enabled extensions and their declared          *)
(* dependencies are checked and ordered (internal/extdep), their schemas   *)
(* migrated, the extensions initialized and, after core's sync, synced     *)
(* (ext.RegisterAll, ext.SyncAll).  A stop can fall between any two steps; *)
(* only cache.db survives it.                                              *)
(***************************************************************************)
EXTENDS Naturals, Sequences, SequencesExt

CONSTANTS
    Keys,           \* the bundled extensions, in the order of Bundled (a sequence)
    Unknown,        \* a key that is not bundled
    Alters,         \* the extensions whose Migrate adds columns to a core table
    None,
    MaxLaunches

Bundled == ToSet(Keys)

\* What the proofs ask of the constants (ExtensionsProofs).
StartupConstants ==
    /\ Keys \in Seq(Bundled) /\ MaxLaunches \in Nat
    /\ None \notin {"order", "migrate"}

Dependency == [key : Bundled \cup {Unknown}, required : BOOLEAN]

VARIABLES
    stage,          \* where RegisterAll and its callers have got to
    decls,          \* g.decls of the enabled extensions: their declared dependency, if any
    enabled,
    order,          \* the ordered extensions
    turn,           \* the extension the migrations or initializations have reached
    initd,
    columns,        \* extensions whose columns cache.db has
    recorded,       \* extensions with a row in extensions_metadata
    launches,
    \* History:
    why,            \* the step that ended the last start
    torn            \* a start stopped between a column and its row, in this cache.db

startVars == <<stage, decls, enabled, order, turn, initd, columns, recorded, launches, why, torn>>
graph == <<decls, enabled>>
cache == <<columns, recorded, torn>>

TypeOK ==
    /\ stage \in {"down", "register", "validate", "order", "migrate", "record", "initialize", "sync", "up"}
    /\ decls \in [Bundled -> {None} \cup Dependency]
    /\ enabled \subseteq Bundled
    /\ order \in Seq(Bundled) /\ IsInjective(order)
    /\ turn \in 1..(Len(order) + 1)
    /\ initd \subseteq Bundled /\ columns \subseteq Alters /\ recorded \subseteq Alters
    /\ launches \in 0..MaxLaunches
    /\ torn \in BOOLEAN

Init ==
    /\ stage = "down"
    /\ decls = [k \in Bundled |-> None] /\ enabled = {}
    /\ order = <<>> /\ turn = 1 /\ initd = {}
    /\ columns = {} /\ recorded = {}
    /\ launches = 0 /\ why = None /\ torn = FALSE

\* The process exits; what was decided in memory goes with it.
Exit(reason) ==
    /\ stage' = "down" /\ why' = reason
    /\ decls' = [k \in Bundled |-> None] /\ enabled' = {}
    /\ order' = <<>> /\ turn' = 1 /\ initd' = {}

\* Bootstrap: the configuration, the enforcer, cache.db or the storage may be refused.
\* CREATE TABLE IF NOT EXISTS changes nothing that is modelled.
Bootstrap ==
    /\ stage = "down"
    /\ launches < MaxLaunches
    /\ launches' = launches + 1
    /\ \/ stage' = "register" /\ why' = None /\ UNCHANGED <<graph, order, turn, initd>>
       \/ Exit("bootstrap")
    /\ UNCHANGED cache

\* resolveEnabled and Register: the configuration says which extensions run; one whose
\* section cannot be read ends the start.
ResolveEnabled ==
    /\ stage = "register"
    /\ \/ /\ \E E \in SUBSET Bundled :
                 /\ enabled' = E
                 /\ \E d \in [E -> {None} \cup Dependency] :
                        decls' = [k \in Bundled |-> IF k \in E THEN d[k] ELSE None]
          /\ stage' = "validate"
          /\ UNCHANGED <<order, turn, initd, why>>
       \/ Exit("config")
    /\ UNCHANGED <<cache, launches>>

Declares(k) == decls[k] # None
Requires(k) == Declares(k) /\ decls[k].required

\* Some extensions depend on each other in a ring.
Ring == \E S \in SUBSET enabled \ {{}} : \A k \in S : Declares(k) /\ decls[k].key \in S

\* Mutant: the declared dependencies are not searched for a cycle.
ValidateNoCycleCheck ==
    /\ \A k \in enabled : Declares(k) => decls[k].key \in Bundled
    /\ \A k \in enabled : Requires(k) => decls[k].key \in enabled

Validate ==
    /\ \A k \in enabled : Declares(k) => decls[k].key \in Bundled
    /\ ~Ring
    /\ \A k \in enabled : Requires(k) => decls[k].key \in enabled

ValidateGraph ==
    /\ stage = "validate"
    /\ IF Validate
       THEN stage' = "order" /\ UNCHANGED <<graph, order, turn, initd, why>>
       ELSE Exit("graph")
    /\ UNCHANGED <<cache, launches>>

Placed == ToSet(order)

\* Mutant: an optional dependency is waited for and a required one is not.
ReadyKindSwapped(k) ==
    Declares(k) /\ ~decls[k].required /\ decls[k].key \in enabled => decls[k].key \in Placed

\* indeg[k] = 0 for an extension that is not placed yet.
Ready(k) == Requires(k) /\ decls[k].key \in enabled => decls[k].key \in Placed

\* One round of Kahn's algorithm: the earliest key that is ready.
PlaceNext ==
    /\ stage = "order"
    /\ LET waiting == {i \in DOMAIN Keys : Keys[i] \in enabled \ Placed}
           ready == {i \in waiting : Ready(Keys[i])}
       IN  IF waiting = {}
           THEN stage' = "migrate" /\ UNCHANGED <<graph, order, turn, initd, why>>
           ELSE IF ready = {} THEN Exit("order")
           ELSE /\ order' = Append(order, Keys[CHOOSE i \in ready : \A j \in ready : i <= j])
                /\ UNCHANGED <<stage, graph, turn, initd, why>>
    /\ UNCHANGED <<cache, launches>>

AtEnd == turn > Len(order)

\* Migrate of one extension up to its columns: skipped when they are recorded, refused by
\* the database when they are there and are not.  The three of photobooth are one step: what
\* remains of some of them is refused like all of them.
AlterTable ==
    /\ stage = "migrate"
    /\ ~AtEnd
    /\ LET k == order[turn]
       IN  IF k \notin Alters \/ k \in recorded
           THEN turn' = turn + 1 /\ UNCHANGED <<stage, graph, order, initd, why, columns>>
           ELSE IF k \in columns THEN Exit("migrate") /\ UNCHANGED columns
           ELSE /\ columns' = columns \cup {k}
                /\ stage' = "record"
                /\ UNCHANGED <<graph, order, turn, initd, why>>
    /\ UNCHANGED <<recorded, torn, launches>>

\* INSERT OR IGNORE INTO extensions_metadata.
RecordMigration ==
    /\ stage = "record"
    /\ recorded' = recorded \cup {order[turn]}
    /\ stage' = "migrate" /\ turn' = turn + 1
    /\ UNCHANGED <<graph, order, initd, columns, torn, launches, why>>

\* A statement of a migration fails, with some of the columns made or none.
MigrationFails ==
    /\ stage \in {"migrate", "record"}
    /\ ~AtEnd
    /\ order[turn] \in Alters \ recorded
    /\ Exit("database")
    /\ columns' \in {columns, columns \cup {order[turn]}}
    /\ torn' = (torn \/ order[turn] \in columns')
    /\ UNCHANGED <<recorded, launches>>

StartInitializing ==
    /\ stage = "migrate"
    /\ AtEnd
    /\ stage' = "initialize" /\ turn' = 1
    /\ UNCHANGED <<graph, order, initd, cache, launches, why>>

\* Initialize and MarkInitialized of one extension; one that fails ends the start.
Initialize ==
    /\ stage = "initialize"
    /\ \/ /\ ~AtEnd
          /\ \/ initd' = initd \cup {order[turn]} /\ turn' = turn + 1
                /\ UNCHANGED <<stage, graph, order, why>>
             \/ Exit("initialize")
       \/ /\ AtEnd
          /\ stage' = "sync"
          /\ UNCHANGED <<graph, order, turn, initd, why>>
    /\ UNCHANGED <<cache, launches>>

\* SyncAndCleanup and SyncAll, of which Gallery and the extensions' modules have the
\* steps; then Serve.
SyncEverything ==
    /\ stage = "sync"
    /\ \/ stage' = "up" /\ UNCHANGED <<graph, order, turn, initd, why>>
       \/ Exit("sync")
    /\ UNCHANGED <<cache, launches>>

\* The process is stopped, wherever it is.
StopProcess ==
    /\ stage # "down"
    /\ torn' = (torn \/ stage = "record")
    /\ Exit("stopped")
    /\ UNCHANGED <<columns, recorded, launches>>

\* "SQLite is disposable": the operator removes cache.db.
RemoveCache ==
    /\ stage = "down"
    /\ columns # {}
    /\ columns' = {} /\ recorded' = {} /\ torn' = FALSE
    /\ why' = None
    /\ UNCHANGED <<stage, graph, order, turn, initd, launches>>

Next ==
    \/ Bootstrap \/ ResolveEnabled \/ ValidateGraph \/ PlaceNext
    \/ AlterTable \/ RecordMigration \/ MigrationFails \/ StartInitializing
    \/ Initialize \/ SyncEverything
    \/ StopProcess \/ RemoveCache

Spec == Init /\ [][Next]_startVars

-----------------------------------------------------------------------------
(* Properties *)

\* "With dependency-first construction a required dependency is always initialized
\* before the dependent runs" (extdep.go, IsInitialized), through chains of them; an
\* extension declares one dependency at most here.
DependencyFirst ==
    \A k \in initd : Requires(k) => decls[k].key \in initd

\* A start that Validate has passed never fails on the order of the extensions; and it
\* finds columns in its way only when an earlier one ended between the columns and their
\* row, and cache.db was kept.
StartsUnlessTorn == why # "order" /\ (why = "migrate" => torn)
-----------------------------------------------------------------------------
(* The inductive invariant behind them (ExtensionsProofs). *)

\* Each extension comes after what it requires.
RequiredFirst ==
    \A i \in DOMAIN order :
        Requires(order[i]) => \E j \in 1..(i - 1) : order[j] = decls[order[i]].key

\* What is ordered was validated.
Placing ==
    /\ decls \in [Bundled -> {None} \cup Dependency] /\ enabled \subseteq Bundled
    /\ order \in Seq(enabled)
    /\ IF stage \in {"down", "register", "validate"} THEN order = <<>> ELSE Validate
    /\ RequiredFirst

\* The initialized extensions are the first ones of the order.
Initialized ==
    /\ turn \in 1..(Len(order) + 1)
    /\ stage \in {"down", "register", "validate", "order"} => turn = 1
    /\ initd = IF stage \in {"initialize", "sync", "up"} THEN {order[i] : i \in 1..(turn - 1)} ELSE {}

\* Columns have their row, but for those of the migration under way and of a torn one.
Migrated ==
    /\ StartsUnlessTorn
    /\ stage = "record" => turn <= Len(order)
    /\ torn \/ columns \subseteq recorded \cup (IF stage = "record" THEN {order[turn]} ELSE {})

StartInv == Placing /\ Initialized /\ Migrated
=============================================================================
