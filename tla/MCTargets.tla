------------------------------ MODULE MCTargets ------------------------------
(* The safety run of the two ways a document reaches its readers: the          *)
(* publications, and the control columns in SharePoint.  A behaviour is of one *)
(* part; the variables of the other stay where they began.                     *)
EXTENDS PublicationInvariant, TLC

CONSTANTS
    Uploads,
    MaxListCommands      \* both of SharePointControl

VARIABLES
    part,
    colDocs, colJobs, colRequest, colFaults,      \* of SharePointControl
    pc, job, attempt, seen, tryouts, control, merges, batch, listed

Columns == INSTANCE SharePointControl WITH
    docs <- colDocs, jobs <- colJobs, lastRequest <- colRequest, faults <- colFaults

\* Sound: no definition picks one worker.
WorkerSymmetry == Permutations(Workers)

\* The bounds of the publications are spent on a first installation, on a fault
\* around one switch, or on switches, two with two requests between them or three
\* with one; those of the columns on two requests without a fault, or on the faults
\* around one.
PublicationParts == {"install", "faults", "switches"}
ColumnParts      == {"requests", "crashes"}

columnVars == <<colDocs, colJobs, colRequest, colFaults, pc, job, attempt, seen,
                tryouts, control, merges, batch, listed>>

TargetsInit ==
    /\ part \in PublicationParts \cup ColumnParts
    /\ WorkersIdle
    /\ IF part = "install" THEN FreshStore ELSE PublishedStore
    /\ Columns!ControlInit

PublicationStep ==
    /\ part \in PublicationParts
    /\ Next
    /\ faults' <= (IF part = "faults" THEN 1 ELSE 0)
    /\ \A j \in JobIds : jobs'[j].attempts <= 2
    /\ part = "switches" => transition'.generation + lastRequest' <= 5
    /\ part # "switches" => transition'.generation <= 1 /\ lastRequest' <= 2
    /\ UNCHANGED <<part, columnVars>>

ColumnStep ==
    /\ part \in ColumnParts
    /\ Columns!ControlNext
    /\ part = "requests" => colFaults' = 0 /\ \A j \in JobIds : colJobs'[j].attempts <= 1
    /\ colRequest' <= (IF part = "requests" THEN 2 ELSE 1)
    /\ UNCHANGED <<part, vars>>

TargetsSpec ==
    TargetsInit /\ [][PublicationStep \/ ColumnStep]_<<part, vars, columnVars>>

-----------------------------------------------------------------------------
(* The properties of SharePointControl, for its part. *)

\* The columns satisfy their inductive invariant, and whatever they say and whenever
\* they are read, an enhancement is only committed for the document's request at
\* that moment, by a worker whose claim of that request's job is current
\* (record_success after a poll that went back).
EnhancedByCurrentClaim ==
    []Columns!ControlInv /\ Columns!EnhancedByCurrentClaim
=============================================================================
