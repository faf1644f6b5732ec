---------------------------- MODULE Installation ----------------------------
(***************************************************************************)
(* SearchEnhancementRepository.initialize: every web and worker process    *)
(* runs it when it starts, on a new database, on one of the current        *)
(* version or on one made before there were publication targets, whose     *)
(* documents are in the connector without a row saying so.  The steps are  *)
(* transactions under one advisory lock; a process may die between any two *)
(* and its successor finds the tables it created.                          *)
(*                                                                         *)
(* legacy documents: those with an external_item_id (external).            *)
(***************************************************************************)
EXTENDS Naturals, FiniteSets

CONSTANTS
    Processes,     \* web and worker processes
    Items,         \* documents
    NoProcess,     \* the advisory lock is free
    MaxDeaths      \* bound: processes that die while they initialise

ASSUME InstallAssumption == NoProcess \notin Processes /\ MaxDeaths \in Nat

VARIABLES
    tables,        \* "none", "legacy" or "current"
    origin,        \* what the database was when the behaviour began
    marker,        \* the legacy_publication_migration setting
    target,        \* the transition row's targets, or "none"
    external,      \* documents with an external_item_id
    connectorRows, \* documents with a row for the connector
    holder,        \* who holds the initialisation lock
    at,            \* where each process is in initialize()
    existing,      \* existing_install or migration_pending, as inspected
    deaths

installVars == <<tables, origin, marker, target, external, connectorRows, holder, at,
                 existing, deaths>>

InstallPhases == {"off", "inspect", "mark", "create", "ensure", "backfill", "clear", "running"}

InstallTypeOK ==
    /\ tables \in {"none", "legacy", "current"} /\ origin \in {"none", "legacy"}
    /\ marker \in BOOLEAN
    /\ target \in {"none", "unset", "connector"}
    /\ external \subseteq Items /\ connectorRows \subseteq Items
    /\ holder \in Processes \cup {NoProcess}
    /\ at \in [Processes -> InstallPhases]
    /\ existing \in [Processes -> [install : BOOLEAN, pending : BOOLEAN]]
    /\ deaths \in 0..MaxDeaths

InstallInit ==
    /\ origin \in {"none", "legacy"}
    /\ tables = origin
    /\ marker = FALSE
    /\ target = "none"
    /\ external \in SUBSET (IF origin = "legacy" THEN Items ELSE {})
    /\ connectorRows = {}
    /\ holder = NoProcess
    /\ at = [p \in Processes |-> "off"]
    /\ existing = [p \in Processes |-> [install |-> FALSE, pending |-> FALSE]]
    /\ deaths = 0

At(p, phase)  == at[p] = phase
Move(p, phase) == at' = [at EXCEPT ![p] = phase]

\* pg_advisory_lock, for the session.
StartProcess(p) ==
    /\ At(p, "off")
    /\ holder = NoProcess
    /\ holder' = p
    /\ Move(p, "inspect")
    /\ UNCHANGED <<tables, origin, marker, target, external, connectorRows, existing, deaths>>

\* What the database looks like before anything is created.
Inspect(p) ==
    /\ At(p, "inspect")
    /\ existing' = [existing EXCEPT ![p] = [install |-> tables = "legacy", pending |-> marker]]
    /\ Move(p, IF tables = "legacy" THEN "mark" ELSE "create")
    /\ UNCHANGED <<tables, origin, marker, target, external, connectorRows, holder, deaths>>

MarkMigration(p) ==
    /\ At(p, "mark")
    /\ marker' = TRUE
    /\ Move(p, "create")
    /\ UNCHANGED <<tables, origin, target, external, connectorRows, holder, existing, deaths>>

CreateTables(p) ==
    /\ At(p, "create")
    /\ tables' = "current"
    /\ Move(p, "ensure")
    /\ UNCHANGED <<origin, marker, target, external, connectorRows, holder, existing, deaths>>

\* Mutant: only what this process inspected itself counts.
ExistedForThisProcess(p) == existing[p].install \/ external # {}

ExistedBefore(p) == existing[p].install \/ existing[p].pending \/ external # {}

\* _ensure_publication_transition: the row that is there is kept.
EnsureTransition(p) ==
    /\ At(p, "ensure")
    /\ target' = IF target # "none" THEN target
                 ELSE IF ExistedBefore(p) THEN "connector" ELSE "unset"
    /\ Move(p, "backfill")
    /\ UNCHANGED <<tables, origin, marker, external, connectorRows, holder, existing, deaths>>

\* Mutant: the rows are made by the process that found the old tables.
BackfillOnce(p) ==
    /\ At(p, "backfill")
    /\ connectorRows' = IF existing[p].install THEN connectorRows \cup external
                                               ELSE connectorRows
    /\ Move(p, "clear")
    /\ UNCHANGED <<tables, origin, marker, target, external, holder, existing, deaths>>

\* ON CONFLICT DO NOTHING, at every start.
Backfill(p) ==
    /\ At(p, "backfill")
    /\ connectorRows' = connectorRows \cup external
    /\ Move(p, "clear")
    /\ UNCHANGED <<tables, origin, marker, target, external, holder, existing, deaths>>

ClearMarker(p) ==
    /\ At(p, "clear")
    /\ marker' = FALSE
    /\ holder' = NoProcess
    /\ Move(p, "running")
    /\ UNCHANGED <<tables, origin, target, external, connectorRows, existing, deaths>>

\* Mutant: a lock that a row holds and not the session.
DieHoldingTheLock(p) ==
    /\ deaths < MaxDeaths
    /\ at[p] # "off"
    /\ Move(p, "off")
    /\ deaths' = deaths + 1
    /\ UNCHANGED <<tables, origin, marker, target, external, connectorRows, holder, existing>>

\* The process dies, or loses its connection, with which the lock goes.
ProcessDies(p) ==
    /\ deaths < MaxDeaths
    /\ at[p] # "off"
    /\ Move(p, "off")
    /\ holder' = IF holder = p THEN NoProcess ELSE holder
    /\ deaths' = deaths + 1
    /\ UNCHANGED <<tables, origin, marker, target, external, connectorRows, existing>>

\* A process that runs publishes through the connector and withdraws again: the
\* row and the item id come and go together (remove_publication_record).
ServeItem(p, d) ==
    /\ At(p, "running")
    /\ target = "connector"
    /\ IF d \in connectorRows
       THEN connectorRows' = connectorRows \ {d} /\ external' = external \ {d}
       ELSE connectorRows' = connectorRows \cup {d} /\ external' = external \cup {d}
    /\ UNCHANGED <<tables, origin, marker, target, holder, at, existing, deaths>>

InstallStep(p) ==
    \/ StartProcess(p)
    \/ Inspect(p)
    \/ MarkMigration(p)
    \/ CreateTables(p)
    \/ EnsureTransition(p)
    \/ Backfill(p)
    \/ ClearMarker(p)

InstallNext ==
    \E p \in Processes :
        \/ InstallStep(p)
        \/ ProcessDies(p)
        \/ \E d \in Items : ServeItem(p, d)

\* A process that is started is started again by the platform, and runs.
InstallFairness == \A p \in Processes : WF_installVars(InstallStep(p))

InstallSpec == InstallInit /\ [][InstallNext]_installVars /\ InstallFairness

-----------------------------------------------------------------------------
(* Properties. *)

\* An installation that served its documents through the connector goes on to,
\* even when it had none yet and the migration was cut off after the tables
\* were made; a new one has no target until the administrator names one.
UpgradeKeepsTheConnector ==
    target # "none" => (target = "connector" <=> origin = "legacy")

\* Once a process runs, every document the connector serves has its row: what
\* is in the connector can be found, and removed, through the table.
ServedDocumentsHaveRows ==
    (\E p \in Processes : At(p, "running")) => external \subseteq connectorRows

\* An upgrade loses nothing of what was served, and guesses nothing of what was not
\* (database.initialize), wherever processes died on the way.
UpgradeIsComplete == UpgradeKeepsTheConnector /\ ServedDocumentsHaveRows

-----------------------------------------------------------------------------
(* The inductive invariant of both. *)

\* Whoever is inside initialize() holds the lock.
LockInv ==
    \A p \in Processes : at[p] \notin {"off", "running"} => holder = p

\* What the tables and the marker tell of the database as it was.
DatabaseInv ==
    /\ tables = "none" => origin = "none"
    /\ tables = "legacy" => origin = "legacy" /\ target = "none"
    /\ marker => origin = "legacy"
    /\ external # {} /\ target = "none" => origin = "legacy"
    /\ tables = "current" /\ origin = "legacy" /\ target = "none" => marker
    /\ UpgradeKeepsTheConnector

\* What a process found, and what it has done since.
ProcessInv(p) ==
    /\ existing[p].install \/ existing[p].pending => origin = "legacy"
    /\ at[p] = "mark" => tables = "legacy" /\ existing[p].install
    /\ at[p] = "create" /\ tables = "legacy" => marker
    /\ at[p] \in {"create", "ensure"} /\ origin = "legacy" /\ target = "none" =>
         existing[p].install \/ existing[p].pending
    /\ at[p] \in {"ensure", "backfill", "clear", "running"} => tables = "current"
    /\ at[p] \in {"backfill", "clear", "running"} => target # "none"
    /\ at[p] \in {"clear", "running"} => external \subseteq connectorRows

InstallInv ==
    /\ InstallTypeOK
    /\ LockInv
    /\ DatabaseInv
    /\ \A p \in Processes : ProcessInv(p)

-----------------------------------------------------------------------------
(* Liveness. *)

\* Every process gets through, whoever died with the lock.
EveryProcessRuns == \A p \in Processes : []<>(At(p, "running"))
=============================================================================
