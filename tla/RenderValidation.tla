-------------------------- MODULE RenderValidation --------------------------
(***************************************************************************)
(* The rendering validation (rhwp_render_validation.py): the controlled    *)
(* corpus is rendered by three backends one document after another, the    *)
(* archive is swept by a pool of threads, all inside one container that a  *)
(* run starts and stops.  results.json is rewritten as documents finish    *)
(* and is what --resume goes by; --limit leaves the first documents only.  *)
(* A run may be killed between two steps.                                  *)
(*                                                                         *)
(* The two archives are the same set of documents here.  What a command    *)
(* wrote is its page count and whether the inspection accepts it.          *)
(***************************************************************************)
EXTENDS Naturals

CONSTANTS
    Renderable,     \* the documents of the corpus and of the archive
    Limited,        \* documents[:limit], for every --limit and for none
    Batch,          \* the sweep saves after this many documents
    Torn,           \* a results.json that cannot be parsed
    MaxKills        \* bound: kills, exceptions, commands of Docker that fail

ASSUME RenderAssumption ==
    /\ Limited \subseteq SUBSET Renderable
    /\ Batch \in Nat \ {0} /\ MaxKills \in Nat
    /\ Torn \notin [{"controlled", "sweep"} ->
                        SUBSET [doc : Renderable, status : {"success", "failed"}]]

VARIABLES
    place,          \* where run_controlled or run_sweep is
    mode,
    resumed,        \* --resume
    documents,      \* those that --limit leaves
    loaded,         \* results.json as the run found it
    rows,           \* records, in memory
    saved,          \* results.json
    submitted,      \* futures that are not done
    completed,      \* futures that are done
    containers,     \* containers that run, the run's own included
    kills,
    leaks           \* kills, start timeouts and failed stops: nobody cleans up after them

renderVars == <<place, mode, resumed, documents, loaded, rows, saved, submitted, completed,
                containers, kills, leaks>>

Modes       == {"controlled", "sweep"}
RowStatuses == {"success", "failed"}
Row         == [doc : Renderable, status : RowStatuses]
Successes(S) == {r \in S : r.status = "success"}
DocsOf(S)    == {r.doc : r \in S}
NoRows       == [k \in Modes |-> {}]

RenderTypeOK ==
    /\ place \in {"idle", "load", "start", "version", "work", "overwrite", "write",
                  "raising", "stop", "final", "final_write", "finished"}
    /\ mode \in Modes /\ resumed \in BOOLEAN /\ documents \subseteq Renderable
    /\ loaded \in [Modes -> SUBSET Row] /\ rows \subseteq Row
    /\ saved \in [Modes -> SUBSET Row] \cup {Torn}
    /\ submitted \subseteq Renderable
    /\ completed \in Nat
    /\ containers \in 0..(MaxKills + 1)
    /\ kills \in 0..MaxKills /\ leaks \in 0..MaxKills

RenderInit ==
    /\ place = "idle" /\ mode = "controlled" /\ resumed = FALSE
    /\ documents = {}
    /\ loaded = NoRows /\ rows = {}
    /\ saved = NoRows
    /\ submitted = {} /\ completed = 0
    /\ containers = 0 /\ kills = 0 /\ leaks = 0

Goto(p) == place' = p

\* The records that count as done.
Existing == Successes(loaded[mode])
\* The locals of a run that ended are gone.
Forget  == loaded' = NoRows /\ rows' = {} /\ submitted' = {} /\ completed' = 0
Mishap   == kills < MaxKills /\ kills' = kills + 1

-----------------------------------------------------------------------------
(* The container. *)

StartValidation ==
    /\ place \in {"idle", "finished"}
    /\ Goto("load")
    /\ mode' \in Modes
    /\ resumed' \in BOOLEAN
    /\ documents' \in Limited
    /\ Forget
    /\ UNCHANGED <<saved, containers, kills, leaks>>

\* Mutant: a resumed sweep starts from nothing, as the controlled run does.
RetainedNothing == {}

\* The sweep takes over what it does not render again, among the documents it is
\* about; the controlled run meets its records again one by one.
Retained ==
    IF resumed /\ mode = "sweep" THEN {r \in Successes(saved[mode]) : r.doc \in documents}
                                 ELSE {}

\* Mutant: what is retained is rendered again.
PendingAll == documents

Pending == documents \ DocsOf(Retained)

\* _load_results; a file that was cut off raises.
LoadResults ==
    /\ place = "load"
    /\ saved # Torn
    /\ loaded' = saved
    /\ rows' = Retained
    /\ submitted' = Pending
    /\ Goto("start")
    /\ UNCHANGED <<mode, resumed, documents, saved, completed, containers, kills, leaks>>

LoadFails ==
    /\ place = "load"
    /\ saved = Torn
    /\ Goto("idle")
    /\ Forget
    /\ UNCHANGED <<mode, resumed, documents, saved, containers, kills, leaks>>

StartContainer ==
    /\ place = "start"
    /\ containers' = containers + 1
    /\ Goto("version")
    /\ UNCHANGED <<mode, resumed, documents, loaded, rows, saved, submitted, completed,
                   kills, leaks>>

Stops == containers' = containers - 1 /\ UNCHANGED leaks
Leaks == leaks' = leaks + 1 /\ UNCHANGED containers

\* docker run fails, or exceeds its time: the container comes up and nobody knows.
StartFails ==
    /\ place = "start"
    /\ Mishap
    /\ \/ containers' = containers + 1 /\ leaks' = leaks + 1
       \/ UNCHANGED <<containers, leaks>>
    /\ Goto("idle")
    /\ Forget
    /\ UNCHANGED <<mode, resumed, documents, saved>>

VersionShown ==
    /\ place = "version"
    /\ Goto(IF submitted = {} THEN "stop" ELSE "work")
    /\ UNCHANGED <<mode, resumed, documents, loaded, rows, saved, submitted, completed,
                   containers, kills, leaks>>

\* Mutant: the container of a program that cannot be executed is left.
VersionFailsLeaving ==
    /\ place = "version"
    /\ Mishap
    /\ Goto("idle")
    /\ Forget
    /\ UNCHANGED <<mode, resumed, documents, saved, containers, leaks>>

\* __enter__ calls __exit__ before it raises, whose docker stop may fail too.
VersionFails ==
    /\ place = "version"
    /\ Mishap
    /\ Stops \/ Leaks
    /\ Goto("idle")
    /\ Forget
    /\ UNCHANGED <<mode, resumed, documents, saved>>

-----------------------------------------------------------------------------
(* One document. *)

\* _backend_status.
BackendStatus(command, valid) ==
    IF command # "success" THEN command
    ELSE IF valid THEN "success" ELSE "invalid-output"

BackendOutcome == [command : {"success", "error", "timeout"}, valid : BOOLEAN, pages : 0..1]
Succeeded(b)   == BackendStatus(b.command, b.valid) = "success"

\* run_controlled_document: three backends that agree on the pages.
ControlledStatus(svg, pdf, png) ==
    IF /\ Succeeded(svg) /\ Succeeded(pdf) /\ Succeeded(png)
       /\ svg.pages = pdf.pages /\ pdf.pages = png.pages
    THEN "success" ELSE "failed"

\* run_sweep_document: the text and the first page.
SweepStatus(text, png) == IF Succeeded(text) /\ Succeeded(png) THEN "success" ELSE "failed"

PossibleStatuses ==
    IF mode = "controlled"
    THEN {ControlledStatus(a, b, c) : a, b, c \in BackendOutcome}
    ELSE {SweepStatus(a, b) : a, b \in BackendOutcome}

\* Mutant: a document that failed is not recorded.
ControlledSuccess(d) ==
    /\ place = "work" /\ mode = "controlled"
    /\ d \in submitted
    /\ \E status \in PossibleStatuses :
         rows' = rows \cup Successes({[doc |-> d, status |-> status]})
    /\ submitted' = submitted \ {d}
    /\ Goto("overwrite")
    /\ UNCHANGED <<mode, resumed, documents, loaded, saved, completed, containers, kills,
                   leaks>>

\* The document is rendered, unless --resume finds it among the successes; every
\* one is saved at once.
ControlledDocument(d) ==
    /\ place = "work" /\ mode = "controlled"
    /\ d \in submitted
    /\ \E status \in PossibleStatuses :
         /\ resumed /\ d \in DocsOf(Existing) => status = "success"
         /\ rows' = rows \cup {[doc |-> d, status |-> status]}
    /\ submitted' = submitted \ {d}
    /\ Goto("overwrite")
    /\ UNCHANGED <<mode, resumed, documents, loaded, saved, completed, containers, kills,
                   leaks>>

\* A future that the pool works on is done; every Batch of them, and the last,
\* are followed by a save.
FutureDone(d) ==
    /\ place = "work" /\ mode = "sweep"
    /\ d \in submitted
    /\ \E status \in PossibleStatuses : rows' = rows \cup {[doc |-> d, status |-> status]}
    /\ submitted' = submitted \ {d}
    /\ completed' = completed + 1
    /\ Goto(IF completed' % Batch = 0 \/ submitted' = {} THEN "overwrite" ELSE "work")
    /\ UNCHANGED <<mode, resumed, documents, loaded, saved, containers, kills, leaks>>

\* A future raised: the pool still finishes what was submitted, and nothing of it
\* is kept.
FutureRaises ==
    /\ place = "work"
    /\ Mishap
    /\ Goto("raising")
    /\ UNCHANGED <<mode, resumed, documents, loaded, rows, saved, submitted, completed,
                   containers, leaks>>

\* _save_results: write_text empties the file before it writes.
OverwriteRows ==
    /\ place \in {"overwrite", "final"}
    /\ saved' = Torn
    /\ Goto(IF place = "final" THEN "final_write" ELSE "write")
    /\ UNCHANGED <<mode, resumed, documents, loaded, rows, submitted, completed, containers,
                   kills, leaks>>

\* The other half of the payload is as it was loaded.
WriteRows ==
    /\ place \in {"write", "final_write"}
    /\ saved' = [k \in Modes |-> IF k = mode THEN rows ELSE loaded[k]]
    /\ Goto(CASE place = "final_write" -> "finished"
              [] place = "write" /\ submitted = {} -> "stop"
              [] OTHER -> "work")
    /\ UNCHANGED <<mode, resumed, documents, loaded, rows, submitted, completed, containers,
                   kills, leaks>>

\* __exit__ does not look at how docker stop ended, nor whether it did within its
\* time; the sweep saves once more after it.
StopContainer ==
    /\ place \in {"stop", "raising"}
    /\ (Stops /\ UNCHANGED kills) \/ (Leaks /\ Mishap)
    /\ IF place = "stop" /\ mode = "sweep"
       THEN Goto("final") /\ UNCHANGED <<loaded, rows, submitted, completed>>
       ELSE Goto(IF place = "stop" THEN "finished" ELSE "idle") /\ Forget
    /\ UNCHANGED <<mode, resumed, documents, saved>>

\* The process is killed: no __exit__, and perhaps half a results.json.
Kill ==
    /\ place \notin {"idle", "finished"}
    /\ Mishap
    /\ Leaks
    /\ Goto("idle")
    /\ Forget
    /\ UNCHANGED <<mode, resumed, documents, saved>>

RenderStep ==
    \/ StartValidation
    \/ LoadResults
    \/ LoadFails
    \/ StartContainer
    \/ VersionShown
    \/ \E d \in Renderable : ControlledDocument(d) \/ FutureDone(d)
    \/ OverwriteRows
    \/ WriteRows
    \/ StopContainer

RenderNext ==
    \/ RenderStep
    \/ StartFails
    \/ VersionFails
    \/ FutureRaises
    \/ Kill

RenderSpec == RenderInit /\ [][RenderNext]_renderVars

-----------------------------------------------------------------------------

InRun == place \notin {"idle", "finished", "load"}

\* A sweep that is resumed never loses what earlier runs achieved with the documents
\* it is about: whatever is saved while it runs has the successes it found of them.
ResumedSweepKeepsSuccesses ==
    InRun /\ mode = "sweep" /\ resumed /\ saved # Torn =>
        {r \in Existing : r.doc \in documents} \subseteq saved["sweep"]

OneRow(S) == \A r, s \in S : r.doc = s.doc => r = s

\* A document has one row, retained or rendered.
OneRowEach == saved # Torn => \A k \in Modes : OneRow(saved[k])

\* A validation that finished has a row of every document it was about.
FinishedIsSaved ==
    place = "finished" => saved # Torn /\ documents \subseteq DocsOf(saved[mode])

\* Containers are left over only by a kill, a start that timed out or a stop that failed.
ContainersAreStopped ==
    containers <= leaks + (IF InRun /\ place \notin {"final", "final_write"} THEN 1 ELSE 0)

\* Whatever runs were killed before, and whatever --limit they had: a resumed sweep
\* keeps every success of its documents, a document has one row, a validation that
\* finished has a row of each of its documents, and nothing but a kill and a failed
\* command of Docker leaves a container (rhwp_render_validation.py).
ValidationIsTrue ==
    ResumedSweepKeepsSuccesses /\ OneRowEach /\ FinishedIsSaved /\ ContainersAreStopped

-----------------------------------------------------------------------------
(* The inductive invariant of ValidationIsTrue. *)

\* What is rendered and what is to be rendered are the documents, without overlap.
ProgressInv ==
    InRun =>
        /\ OneRow(rows)
        /\ \A k \in Modes : OneRow(loaded[k])
        /\ DocsOf(rows) \cap submitted = {}
        /\ DocsOf(rows) \cup submitted = documents
        /\ mode = "sweep" /\ resumed => {r \in Existing : r.doc \in documents} \subseteq rows

\* What a run has reached where it is; nothing is saved before there is a container.
PlaceInv ==
    /\ place \in {"stop", "final", "final_write"} => submitted = {}
    /\ place \in {"start", "version"} => saved = loaded /\ (mode = "controlled" => rows = {})
    /\ place = "stop" /\ mode = "controlled" =>
         saved # Torn /\ documents \subseteq DocsOf(saved[mode])

HasContainer == place \in {"version", "work", "overwrite", "write", "raising", "stop"}

ContainerInv ==
    /\ leaks <= kills
    /\ containers <= leaks + (IF HasContainer THEN 1 ELSE 0)
    /\ HasContainer => containers >= 1

RenderInv == RenderTypeOK /\ ProgressInv /\ PlaceInv /\ ContainerInv /\ ValidationIsTrue
=============================================================================
