--------------------------- MODULE SchemaBootstrap ---------------------------
(***************************************************************************)
(* The publication of a database schema (bootstrapSchema and its helpers   *)
(* in schemaBootstrap.ts, schemaModulePlan.ts, seedApplier.ts): the apps   *)
(* of a machine share one database, each brings the platform's tables and  *)
(* those of its own client project, and a publication drops and makes      *)
(* again the modules whose hash is not the recorded one.  No transaction   *)
(* and no lock is held: every statement commits, two publications may run  *)
(* at a time and one may die between any two statements.                   *)
(*                                                                         *)
(* The tables of a module are one element, its hash a version.  Which      *)
(* prefix a module's name makes is the relation Prefixed; a module whose   *)
(* tables were generated without its own prefix is not in it with itself.  *)
(* Left out: forceRebuild (the reset of a local database), views,          *)
(* DynamoDB, test rows, rows recorded before the table of states had a     *)
(* project, and tables that a version gives up outside the prefix.         *)
(***************************************************************************)
EXTENDS Integers, FiniteSets

CONSTANTS
  App,        \* apps that publish; each is named like its client project
  Master,     \* the project that owns the platform's modules
  Module,     \* modules, each of one project
  Owner,      \* project of each module
  Rank,       \* place of each module when they are sorted
  Prefixed,   \* pairs <<m, n>> of a project: names of n's tables begin with m's prefix
  Shadowed,   \* pairs <<m, n>>: n is of the platform, a table of it has a name that one
              \* of m's has without its prefix
  Release,    \* registries that may be deployed: a version of each module, 0 for none
  HasSeeds,   \* modules with initial rows
  Log,        \* the table _schema_migrations
  NoTable,    \* what it says when it is not there
  NoRow,      \* and when it is empty
  MaxVersion, \* bound: versions of a module
  MaxRuns,    \* bound: publications
  MaxFailures \* bound: publications that die, queries that fail

ASSUME SchemaAssumption ==
  /\ Master \notin App
  /\ Owner \in [Module -> App \union {Master}]
  /\ Rank \in [Module -> Nat]
  /\ Prefixed \subseteq {p \in Module \X Module : Owner[p[1]] = Owner[p[2]]}
  /\ Shadowed \subseteq {p \in Module \X Module : Owner[p[1]] # Master /\ Owner[p[2]] = Master}
  /\ HasSeeds \subseteq Module
  /\ Release \subseteq [Module -> 0 .. MaxVersion]
  /\ Log \notin Module /\ NoTable # NoRow
  /\ {NoTable, NoRow} \intersect [Module -> 0 .. MaxVersion] = {}
  /\ {MaxVersion, MaxRuns, MaxFailures} \subseteq Nat

Version    == 0 .. MaxVersion   \* 0: no such module, table or row
Platform   == {m \in Module : Owner[m] = Master}
Registries == [Module -> Version]

\* What an app may bring: modules of the platform, none of another app's project.
RegistriesOf(a) ==
  {r \in Release : \A m \in Module \ Platform : Owner[m] # a => r[m] = 0}

VARIABLES
  table,     \* version of each module's tables
  seeded,    \* modules with their initial rows
  state,     \* _schema_module_state: the version recorded for each module
  last,      \* newest row of _schema_migrations: a registry, NoRow or NoTable
  run,       \* the publication of each app
  runs, failures,
  doubt      \* history: what may be wrong with a module (see below)

database == <<table, seeded, state, last>>
bootstrapVars == <<database, run, runs, failures, doubt>>

(***************************************************************************)
(* Doubts about a module.                                                  *)
(*   torn:      a publication touched its tables and has not recorded it,  *)
(*              as it never does when it drops them for another's prefix   *)
(*   forgotten: its row of state was deleted and is not back               *)
(*   orphaned:  its row was deleted for good and its tables stay: they are *)
(*              not under its own prefix, or the platform's and the app    *)
(*              that published has no such module                          *)
(*   mixed:     it is the platform's and two publications were under way,  *)
(*              and none that was alone and is logged has made it again    *)
(***************************************************************************)
Doubt == {"torn", "forgotten", "orphaned", "mixed"}

\* Its tables were not touched, whatever became of its row.
Intact(m) == doubt[m] \subseteq {"forgotten", "orphaned"}

Absent == [m \in Module |-> 0]
Idle   == [pc |-> "idle", reg |-> Absent, last |-> NoRow, mode |-> "none",
           blind |-> FALSE, rebuild |-> {}, removed |-> {}, todo |-> {}]

BootstrapInit ==
  /\ table = Absent /\ seeded = {} /\ state = Absent /\ last = NoTable
  /\ run = [a \in App |-> Idle]
  /\ runs = 0 /\ failures = 0
  /\ doubt = [m \in Module |-> {}]

Failure == failures < MaxFailures /\ failures' = failures + 1

Reached(a, pc) == run[a].pc = pc
UnderWay(a)    == run[a].pc \notin {"idle", "done"}
Alone(a)       == \A b \in App \ {a} : ~UnderWay(b)
Defined(r)     == {m \in Module : r[m] # 0}
Projects(r)    == {Owner[m] : m \in Defined(r)}
OwnModules(r)  == {m \in Module : Owner[m] \in Projects(r)}

\* bootstrapSchema starts: the registry of the code that is deployed.
Begin(a) == \E r \in RegistriesOf(a) :
  /\ ~UnderWay(a) /\ runs < MaxRuns
  /\ run' = [run EXCEPT ![a] = [Idle EXCEPT !.pc = "last", !.reg = r]]
  /\ runs' = runs + 1
  /\ doubt' = [m \in Module |->
                 doubt[m] \union IF m \in Platform /\ ~Alone(a) THEN {"mixed"} ELSE {}]
  /\ UNCHANGED <<database, failures>>

\* A query that fails (there is no such table, or any other reason) says the
\* same as a table without rows.
readLastAppliedSnapshotId(a) ==
  /\ Reached(a, "last")
  /\ \E found \in {last, NoTable} :
       /\ run' = [run EXCEPT ![a].pc = "plan",
                            ![a].last = IF found = NoTable THEN NoRow ELSE found]
       /\ IF found = last THEN UNCHANGED failures ELSE Failure
  /\ UNCHANGED <<database, runs, doubt>>

(***************************************************************************)
(* readAppliedModuleHashes and planModuleRebuild.  An app without a row of *)
(* its client project is taken for one that was never published here, and  *)
(* so is every app whose query of the state fails.                         *)
(***************************************************************************)
hasClientState(r) == \E m \in OwnModules(r) \ Platform : state[m] # 0

\* A faulty variant: any change of the registry counts for all its modules.
ChangedTogether(r) == {m \in Defined(r) : \E n \in Defined(r) : state[n] # r[n]}

Changed(r) == {m \in Defined(r) : state[m] # r[m]}
Removed(r) == {m \in OwnModules(r) \ Platform : state[m] # 0 /\ r[m] = 0}

planModuleRebuild(a) == \E blind \in BOOLEAN :
  LET r     == run[a].reg
      known == hasClientState(r) /\ ~blind
      Plan(pc, mode, rebuild, removed) ==
        run' = [run EXCEPT ![a].pc = pc, ![a].mode = mode, ![a].blind = blind,
                           ![a].rebuild = rebuild, ![a].removed = removed]
  IN /\ Reached(a, "plan")
     /\ IF blind THEN hasClientState(r) /\ Failure ELSE UNCHANGED failures
     /\ \/ ~known /\ run[a].last = r /\ Plan("forget", "recordOnly", {}, {})
        \/ ~known /\ run[a].last # r /\ Plan("list", "full", Defined(r), {})
        \/ /\ known
           /\ IF Changed(r) \union Removed(r) = {}
              THEN Plan("apply", "none", {}, {})
              ELSE Plan("list", "modules", Changed(r), Removed(r))
     /\ UNCHANGED <<database, runs, doubt>>

(***************************************************************************)
(* rebuildPostgresSchema.                                                  *)
(***************************************************************************)

\* A faulty variant: definitions only, so that nothing that was removed is dropped.
OwnedByDefinitions(u) == u.rebuild

\* ownedNamesFor: names of definitions, with and without their prefix, and every
\* name under a prefix, be it of the project or of a module.
Named(u)   == u.rebuild \union {n \in Module : \E m \in u.rebuild : <<m, n>> \in Shadowed}
UnderPrefix(u) ==
  {n \in OwnModules(u.reg) \ Platform :
     u.mode = "full" \/ \E m \in u.rebuild \union u.removed : <<m, n>> \in Prefixed}
Owned(u) == Named(u) \union UnderPrefix(u)

tablesToCreate(u) == u.rebuild

ListTables(a) ==
  LET found == {m \in Owned(run[a]) : table[m] # 0}
      log   == IF run[a].mode = "full" /\ last # NoTable THEN {Log} ELSE {}
  IN /\ Reached(a, "list")
     /\ run' = [run EXCEPT ![a].pc = "drop", ![a].todo = found \union log]
     /\ UNCHANGED <<database, runs, failures, doubt>>

\* DROP TABLE IF EXISTS, in the order the catalogue lists them.
DropTable(a) == \E m \in run[a].todo \intersect Module :
  /\ Reached(a, "drop")
  /\ run' = [run EXCEPT ![a].todo = @ \ {m}]
  /\ table' = [table EXCEPT ![m] = 0]
  /\ seeded' = seeded \ {m}
  /\ doubt' = [doubt EXCEPT ![m] = @ \union {"torn"}]
  /\ UNCHANGED <<state, last, runs, failures>>

DropLog(a) ==
  /\ Reached(a, "drop") /\ Log \in run[a].todo
  /\ run' = [run EXCEPT ![a].todo = @ \ {Log}]
  /\ last' = NoTable
  /\ UNCHANGED <<table, seeded, state, runs, failures, doubt>>

DropsDone(a) ==
  /\ Reached(a, "drop") /\ run[a].todo = {}
  /\ run' = [run EXCEPT ![a].pc = "create", ![a].todo =
       tablesToCreate(run[a]) \union IF run[a].mode = "full" THEN {Log} ELSE {}]
  /\ UNCHANGED <<database, runs, failures, doubt>>

\* _schema_migrations comes first; CREATE TABLE refuses a table that is there.
CreateLog(a) ==
  /\ Reached(a, "create") /\ Log \in run[a].todo /\ last = NoTable
  /\ run' = [run EXCEPT ![a].todo = @ \ {Log}]
  /\ last' = NoRow
  /\ UNCHANGED <<table, seeded, state, runs, failures, doubt>>

\* insertSnapshot is decided on what the log said at the start.
insertSnapshot(u) == u.last # u.reg
WillBeLogged(a)   == insertSnapshot(run[a]) \/ last = run[a].reg

CreateTable(a) == \E m \in run[a].todo :
  /\ Reached(a, "create") /\ Log \notin run[a].todo /\ table[m] = 0
  /\ run' = [run EXCEPT ![a].todo = @ \ {m}]
  /\ table' = [table EXCEPT ![m] = run[a].reg[m]]
  /\ doubt' = [doubt EXCEPT ![m] =
       (@ \union {"torn"}) \ IF Alone(a) /\ WillBeLogged(a) THEN {"mixed"} ELSE {}]
  /\ UNCHANGED <<seeded, state, last, runs, failures>>

InsertSnapshot(a) ==
  /\ Reached(a, "create") /\ run[a].todo = {}
  /\ run' = [run EXCEPT ![a].pc = "forget"]
  /\ IF insertSnapshot(run[a])
     THEN last # NoTable /\ last' = run[a].reg
     ELSE UNCHANGED last
  /\ UNCHANGED <<table, seeded, state, runs, failures, doubt>>

(***************************************************************************)
(* writeModuleState: the rows of all its projects go, then come one by     *)
(* one.  With its row, the absence of a module is recorded too.            *)
(***************************************************************************)
ForgetStates(a) ==
  LET u    == run[a]
      own  == OwnModules(u.reg)
      gone == own \ Defined(u.reg)
      over == IF u.mode \in {"full", "modules"} THEN gone \intersect Owned(u) ELSE {}
      left == {m \in gone : m \in Platform \/ <<m, m>> \notin Prefixed \/ u.blind}
  IN /\ Reached(a, "forget")
     /\ state' = [m \in Module |-> IF m \in own THEN 0 ELSE state[m]]
     /\ run' = [run EXCEPT ![a].pc = "record", ![a].todo = Defined(u.reg)]
     /\ doubt' = [m \in Module |->
          (doubt[m] \union
             (IF m \in own \ gone /\ state[m] # 0 THEN {"forgotten"} ELSE {}) \union
             (IF m \in left /\ state[m] # 0 THEN {"orphaned"} ELSE {}))
            \ (IF m \in over THEN {"torn", "forgotten", "orphaned"} ELSE {})]
     /\ UNCHANGED <<table, seeded, last, runs, failures>>

\* A plain INSERT: it refuses a row that is there.
RecordState(a) == \E m \in run[a].todo :
  /\ Reached(a, "record") /\ state[m] = 0
  /\ \A n \in run[a].todo : Rank[m] <= Rank[n]
  /\ run' = [run EXCEPT ![a].todo = @ \ {m}]
  /\ state' = [state EXCEPT ![m] = run[a].reg[m]]
  /\ doubt' = [doubt EXCEPT ![m] =
       @ \ ({"forgotten", "orphaned"} \union IF m \in run[a].rebuild THEN {"torn"} ELSE {})]
  /\ UNCHANGED <<table, seeded, last, runs, failures>>

(***************************************************************************)
(* applySeedRows: the initial rows of every module, rebuilt or not, with   *)
(* ON CONFLICT DO NOTHING.  Whether rows fit tables of another version is  *)
(* left open.                                                              *)
(***************************************************************************)
\* A faulty variant: only the modules that were rebuilt.
seedsOfRebuilt(u) == u.rebuild \intersect HasSeeds

seedsOf(u) == Defined(u.reg) \intersect HasSeeds

StartSeeds(a) ==
  /\ \/ Reached(a, "apply")
     \/ Reached(a, "record") /\ run[a].todo = {}
  /\ run' = [run EXCEPT ![a].pc = "seed", ![a].todo = seedsOf(run[a])]
  /\ UNCHANGED <<database, runs, failures, doubt>>

SeedTable(a) == \E m \in run[a].todo :
  /\ Reached(a, "seed") /\ table[m] # 0
  /\ run' = [run EXCEPT ![a].todo = @ \ {m}]
  /\ seeded' = seeded \union {m}
  /\ UNCHANGED <<table, state, last, runs, failures, doubt>>

Finish(a) ==
  /\ Reached(a, "seed") /\ run[a].todo = {}
  /\ run' = [run EXCEPT ![a] = [Idle EXCEPT !.pc = "done"]]
  /\ UNCHANGED <<database, runs, failures, doubt>>

\* A statement the database refuses ends the publication.
StatementFails(a) ==
  /\ \/ Reached(a, "create") /\ Log \in run[a].todo /\ last # NoTable
     \/ Reached(a, "create") /\ Log \notin run[a].todo /\ \E m \in run[a].todo : table[m] # 0
     \/ Reached(a, "create") /\ run[a].todo = {} /\ insertSnapshot(run[a]) /\ last = NoTable
     \/ Reached(a, "record") /\ \E m \in run[a].todo : state[m] # 0
     \/ Reached(a, "seed") /\ \E m \in run[a].todo : table[m] # run[a].reg[m]
  /\ run' = [run EXCEPT ![a] = Idle]
  /\ UNCHANGED <<database, runs, failures, doubt>>

Crash(a) ==
  /\ UnderWay(a) /\ Failure
  /\ run' = [run EXCEPT ![a] = Idle]
  /\ UNCHANGED <<database, runs, doubt>>

bootstrapSchema(a) ==
  \/ Begin(a) \/ readLastAppliedSnapshotId(a) \/ planModuleRebuild(a)
  \/ ListTables(a) \/ DropTable(a) \/ DropLog(a) \/ DropsDone(a)
  \/ CreateLog(a) \/ CreateTable(a) \/ InsertSnapshot(a)
  \/ ForgetStates(a) \/ RecordState(a)
  \/ StartSeeds(a) \/ SeedTable(a) \/ Finish(a)
  \/ StatementFails(a) \/ Crash(a)

BootstrapNext == \E a \in App : bootstrapSchema(a)

BootstrapSpec == BootstrapInit /\ [][BootstrapNext]_bootstrapVars

-----------------------------------------------------------------------------
TypeOK ==
  /\ table \in Registries /\ state \in Registries
  /\ seeded \subseteq Module
  /\ last \in Registries \union {NoRow, NoTable}
  /\ run \in [App -> [pc : {"idle", "done", "last", "plan", "list", "drop", "create",
                            "forget", "record", "apply", "seed"},
                      reg : Registries, last : Registries \union {NoRow},
                      mode : {"none", "recordOnly", "full", "modules"}, blind : BOOLEAN,
                      rebuild : SUBSET Module, removed : SUBSET Module,
                      todo : SUBSET (Module \union {Log})]]
  /\ runs \in 0 .. MaxRuns /\ failures \in 0 .. MaxFailures
  /\ doubt \in [Module -> SUBSET Doubt]

(***************************************************************************)
(* What _schema_module_state says of a module is true of its tables, at    *)
(* every step of every publication: else a later plan leaves wrong tables  *)
(* "untouched" for ever.  But for modules in doubt.  A row that is missing *)
(* says that there are no tables, unless it was deleted and they stay      *)
(* (forgotten, orphaned).                                                  *)
(***************************************************************************)
StateIsTrue == \A m \in Module :
  Intact(m) => state[m] \in {table[m]} \union IF doubt[m] = {} THEN {} ELSE {0}

(***************************************************************************)
(* Tables, and with them what users wrote, go only with a change of their  *)
(* module: a publication drops those of a module only for another version  *)
(* of it or for a registry without it.  The exceptions are what the code   *)
(* does: a module in doubt, a module under the prefix of one that changed  *)
(* or with a table named like one of its, the platform's when an app       *)
(* without recorded state is published, and all of an app's when it could  *)
(* not read what is recorded.                                              *)
(***************************************************************************)
TablesKept == [][\A m \in Module : table[m] # 0 /\ table'[m] = 0 => \E a \in App :
  LET u == run[a]
  IN /\ u.pc = "drop"
     /\ \/ u.reg[m] # table[m]
        \/ doubt[m] # {}
        \/ \E n \in u.rebuild \union u.removed : n # m /\ <<n, m>> \in Prefixed \union Shadowed
        \/ u.mode = "full" /\ (m \in Platform \/ u.blind)]_bootstrapVars

(***************************************************************************)
(* A publication that ends well leaves the schema it brought: every module *)
(* of its registry in its version with its initial rows, whatever died     *)
(* before it, but for modules that are torn or mixed.                      *)
(***************************************************************************)
PublishedSchema == [][\A a \in App :
  run[a].pc # "done" /\ run'[a].pc = "done" =>
    \A m \in Defined(run[a].reg) :
      Intact(m) => table[m] = run[a].reg[m] /\ (m \in HasSeeds => m \in seeded)]_bootstrapVars
=============================================================================
