----------------------------- MODULE WorkerLoop -----------------------------
(***************************************************************************)
(* The loop around the jobs: a worker prepares its storage, takes commands *)
(* and jobs, reconciles when the interval is over, backs off while the     *)
(* database is away, and ends on any error the loop does not know.  The    *)
(* platform starts it again.  Graph calls are retried a few times.         *)
(*                                                                         *)
(* Jobs themselves are in JobQueue: here run_once succeeds, is cut off by  *)
(* an outage, or raises because the command list cannot be read.           *)
(***************************************************************************)
EXTENDS Naturals

CONSTANTS
    Sources,         \* the enabled documents
    InitialBackoff,  \* db_retry_initial_seconds
    MaxBackoff,      \* db_retry_max_seconds
    GraphAttempts,   \* graph_max_attempts
    MaxOutages,      \* bound: how often the database goes away
    MaxChanges       \* bound: how often sources change or disappear

\* _positive_environment; nothing relates the two delays.
ASSUME LoopAssumption ==
    /\ InitialBackoff \in Nat \ {0} /\ MaxBackoff \in Nat \ {0} /\ GraphAttempts \in Nat \ {0}
    /\ MaxOutages \in Nat /\ MaxChanges \in Nat

VARIABLES
    loop,       \* where the worker is
    database,   \* "up", or the error its connections raise
    backoff,    \* the delay after the next transient error
    due,        \* the reconciliation interval is over
    enabled,    \* documents that are Ready and wanted
    loopTodo,   \* what the pass has still to look at
    tries,      \* attempts of the Graph call under way
    changed,    \* sources that differ from what was processed
    missing,    \* sources that were deleted
    refused,    \* sources that are refused with another answer than 404
    ended,      \* what ended the worker last
    outages,
    changes

loopVars == <<loop, database, backoff, due, enabled, loopTodo, tries, changed, missing,
              refused, ended, outages, changes>>

DbErrors   == {"operational", "interface", "invalidated"}
Phases     == {"prepare", "work", "list", "call", "rest", "backoff", "exited"}

\* From the first delay towards the limit.
Delays == {InitialBackoff, MaxBackoff} \cup (InitialBackoff..MaxBackoff)

LoopTypeOK ==
    /\ loop \in Phases
    /\ database \in DbErrors \cup {"up"}
    /\ backoff \in Delays
    /\ due \in BOOLEAN
    /\ loopTodo \subseteq Sources /\ enabled \subseteq Sources
    /\ tries \in 0..GraphAttempts
    /\ changed \subseteq Sources /\ missing \subseteq Sources /\ refused \subseteq Sources
    /\ ended \in {"none", "graph", "database"}
    /\ outages \in 0..MaxOutages /\ changes \in 0..MaxChanges

LoopInit ==
    /\ loop = "prepare"
    /\ database = "up"
    /\ backoff = InitialBackoff
    /\ due = FALSE
    /\ enabled = Sources
    /\ loopTodo = {}
    /\ tries = 0
    /\ changed = {} /\ missing = {}
    /\ refused \in SUBSET Sources
    /\ ended = "none"
    /\ outages = 0 /\ changes = 0

environment == <<database, changed, missing, refused, outages, changes>>

-----------------------------------------------------------------------------
(* Around the worker. *)

DatabaseFails(error) ==
    /\ database = "up"
    /\ outages < MaxOutages
    /\ database' = error
    /\ outages' = outages + 1
    /\ UNCHANGED <<loop, backoff, due, enabled, loopTodo, tries, changed, missing, refused,
                   ended, changes>>

DatabaseReturns ==
    /\ database # "up"
    /\ database' = "up"
    /\ UNCHANGED <<loop, backoff, due, enabled, loopTodo, tries, changed, missing, refused,
                   ended, outages, changes>>

SourceChanges(d) ==
    /\ changes < MaxChanges
    /\ d \in enabled \ missing
    /\ \/ changed' = changed \cup {d} /\ UNCHANGED missing
       \/ missing' = missing \cup {d} /\ UNCHANGED changed
    /\ changes' = changes + 1
    /\ UNCHANGED <<loop, database, backoff, due, enabled, loopTodo, tries, refused, ended,
                   outages>>

IntervalPasses ==
    /\ ~due
    /\ loop \notin {"prepare", "exited"}
    /\ due' = TRUE
    /\ UNCHANGED <<loop, backoff, enabled, loopTodo, tries, ended, environment>>

Restart ==
    /\ loop = "exited"
    /\ loop' = "prepare"
    /\ backoff' = InitialBackoff
    /\ UNCHANGED <<due, enabled, loopTodo, tries, ended, environment>>

-----------------------------------------------------------------------------
(* The worker. *)

Doubled(limit) == IF 2 * backoff < limit THEN 2 * backoff ELSE limit

\* Mutant: a connection lost in the middle of a statement is not counted.
IsConnectionRefused(error) == error = "operational"

IsTransient(error) == error \in {"operational", "interface", "invalidated"}

\* run_with_db_retry has no limit of attempts, and no limit of the delay below the
\* first; the loop's own delay starts over.
PrepareStorage ==
    /\ loop = "prepare"
    /\ IF database = "up"
       THEN /\ loop' = "work"
            /\ due' = TRUE
            /\ backoff' = InitialBackoff
            /\ UNCHANGED ended
       ELSE /\ loop' = IF IsTransient(database) THEN "prepare" ELSE "exited"
            /\ ended' = IF IsTransient(database) THEN ended ELSE "database"
            /\ backoff' = Doubled(IF MaxBackoff < InitialBackoff THEN InitialBackoff
                                                                ELSE MaxBackoff)
            /\ UNCHANGED due
    /\ UNCHANGED <<enabled, loopTodo, tries, environment>>

\* Commands, jobs and the publication transition.
RunOnce ==
    /\ loop = "work"
    /\ database = "up"
    /\ loop' = IF due THEN "list" ELSE "rest"
    /\ loopTodo' = IF due THEN enabled ELSE {}
    /\ UNCHANGED <<backoff, due, enabled, tries, ended, environment>>

\* list_commands raises: the error is nobody's.
CommandsFail ==
    /\ loop = "work"
    /\ loop' = "exited"
    /\ ended' = "graph"
    /\ UNCHANGED <<backoff, due, enabled, loopTodo, tries, environment>>

Outage ==
    /\ loop \in {"work", "call"}
    /\ database # "up"
    /\ IF IsTransient(database) THEN loop' = "backoff" /\ UNCHANGED ended
                                ELSE loop' = "exited" /\ ended' = "database"
    /\ loopTodo' = {}
    /\ tries' = 0
    /\ UNCHANGED <<backoff, due, enabled, environment>>

Wait ==
    /\ loop = "backoff"
    /\ loop' = "work"
    /\ backoff' = Doubled(MaxBackoff)
    /\ UNCHANGED <<due, enabled, loopTodo, tries, ended, environment>>

\* get_drive_item of some document of the list.
Ask ==
    /\ loop = "list"
    /\ loopTodo # {}
    /\ loop' = "call"
    /\ tries' = 1
    /\ UNCHANGED <<backoff, due, enabled, loopTodo, ended, environment>>

\* 429, 5xx or a lost connection: again, and for the last time an error.
CallFails ==
    /\ loop = "call"
    /\ tries > 0
    /\ IF tries < GraphAttempts
       THEN tries' = tries + 1 /\ UNCHANGED <<loop, loopTodo, ended>>
       ELSE tries' = 0 /\ loop' = "exited" /\ loopTodo' = {} /\ ended' = "graph"
    /\ UNCHANGED <<backoff, due, enabled, environment>>

\* Another refusal than 404, or a source that cannot be decrypted.
CallRefused(d) ==
    /\ loop = "call"
    /\ tries > 0
    /\ d \in loopTodo \cap refused
    /\ loop' = "exited"
    /\ tries' = 0
    /\ loopTodo' = {}
    /\ ended' = "graph"
    /\ UNCHANGED <<backoff, due, enabled, environment>>

\* Mutant: the answer 404 is passed over.
ReconcileOnlyChanged(d) ==
    /\ loop = "call"
    /\ tries > 0
    /\ d \in loopTodo \ refused
    /\ database = "up"
    /\ changed' = changed \ {d}
    /\ loopTodo' = loopTodo \ {d}
    /\ tries' = 0
    /\ loop' = "list"
    /\ UNCHANGED <<database, backoff, due, enabled, missing, refused, ended, outages, changes>>

\* Removed when it is gone, requested again when it changed.
Reconcile(d) ==
    /\ loop = "call"
    /\ tries > 0
    /\ d \in loopTodo \ refused
    /\ database = "up"
    /\ enabled' = IF d \in missing THEN enabled \ {d} ELSE enabled
    /\ missing' = missing \ {d}
    /\ changed' = changed \ {d}
    /\ loopTodo' = loopTodo \ {d}
    /\ tries' = 0
    /\ loop' = "list"
    /\ UNCHANGED <<database, backoff, due, refused, ended, outages, changes>>

\* next_reconciliation moves on only here, after a whole pass.
PassEnds ==
    /\ loop = "list"
    /\ loopTodo = {}
    /\ due' = FALSE
    /\ loop' = "rest"
    /\ UNCHANGED <<backoff, enabled, loopTodo, tries, ended, environment>>

Sleep ==
    /\ loop = "rest"
    /\ loop' = "work"
    /\ backoff' = InitialBackoff
    /\ UNCHANGED <<due, enabled, loopTodo, tries, ended, environment>>

LoopStep ==
    \/ PrepareStorage
    \/ RunOnce
    \/ CommandsFail
    \/ Outage
    \/ Wait
    \/ Ask
    \/ CallFails
    \/ \E d \in Sources : CallRefused(d) \/ Reconcile(d)
    \/ PassEnds
    \/ Sleep

LoopNext ==
    \/ LoopStep
    \/ \E error \in DbErrors : DatabaseFails(error)
    \/ DatabaseReturns
    \/ \E d \in Sources : SourceChanges(d)
    \/ IntervalPasses
    \/ Restart

\* The worker runs, the interval passes, an outage ends, the platform restarts
\* the container, and Graph answers again and again.
LoopFairness ==
    /\ WF_loopVars(LoopStep)
    /\ WF_loopVars(DatabaseReturns)
    /\ WF_loopVars(IntervalPasses)
    /\ WF_loopVars(Restart)
    /\ SF_loopVars(RunOnce)
    /\ \A d \in Sources : SF_loopVars(Reconcile(d))

LoopSpec == LoopInit /\ [][LoopNext]_loopVars /\ LoopFairness

-----------------------------------------------------------------------------
(* Properties. *)

\* A database that is away ends no worker, whatever its driver raises: only
\* Graph does.
OutageEndsNoWorker == ended # "database"

\* Only a pass has documents left to look at, they are among the enabled ones, and it
\* stays due until it has looked at all of them: cut off anywhere, it is begun anew.
PassIsDue ==
    /\ loop \in {"list", "call"} => due
    /\ loop = "call" => loopTodo # {}
    /\ loop \notin {"list", "call"} => loopTodo = {}
    /\ loop # "call" => tries = 0
    /\ loopTodo \subseteq enabled

\* What changed or was deleted and is not found yet is a document every pass lists.
ChangesAreListed == changed \cup missing \subseteq enabled

\* While the storage is prepared the delay is never below the first one.
FirstDelayIsKept == loop = "prepare" => InitialBackoff <= backoff

LoopInv ==
    LoopTypeOK /\ OutageEndsNoWorker /\ PassIsDue /\ ChangesAreListed /\ FirstDelayIsKept

\* While no document is refused, a source that changed or was deleted is found,
\* through outages in the middle of a pass, throttling and restarts.
EveryChangeIsFound ==
    \A d \in Sources :
        refused = {} /\ d \in changed \cup missing ~> d \notin changed \cup missing
=============================================================================
