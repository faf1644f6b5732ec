------------------------------ MODULE Services ------------------------------
(***************************************************************************)
(* The components that share no state with the queue, nor with one         *)
(* another: what a job does with a document, what the worker does between  *)
(* jobs, the installation, the portal, and the tools beside the service.   *)
(* A behaviour is of one part; the variables of the others stay where they *)
(* began.                                                                  *)
(***************************************************************************)
EXTENDS SampleArchive, RenderValidation, Installation, DocumentPipeline, Decryption,
        StatusPage, WordPages, WorkbookPages, ParserBenchmark, WorkerLoop, Reconciliation

VARIABLE part

Parts == {"archive", "bench", "render", "loop", "install", "pipe", "sync", "decrypt",
          "web", "word", "book"}

servicesVars ==
    <<part, vars, benchVars, renderVars, loopVars, installVars, pipelineVars, syncVars,
      decryptVars, webVars, wordVars, bookVars>>

ServicesInit ==
    /\ part \in Parts
    /\ Init /\ BenchInit /\ RenderInit /\ LoopInit
    /\ InstallInit /\ PipelineInit /\ SyncInit
    /\ DecryptInit /\ WebInit /\ WordInit /\ BookInit

OtherPartsStill ==
    /\ UNCHANGED part
    /\ IF part = "archive" THEN TRUE ELSE UNCHANGED vars
    /\ IF part = "bench"   THEN TRUE ELSE UNCHANGED benchVars
    /\ IF part = "render"  THEN TRUE ELSE UNCHANGED renderVars
    /\ IF part = "loop"    THEN TRUE ELSE UNCHANGED loopVars
    /\ IF part = "install" THEN TRUE ELSE UNCHANGED installVars
    /\ IF part = "pipe"    THEN TRUE ELSE UNCHANGED pipelineVars
    /\ IF part = "sync"    THEN TRUE ELSE UNCHANGED syncVars
    /\ IF part = "decrypt" THEN TRUE ELSE UNCHANGED decryptVars
    /\ IF part = "web"     THEN TRUE ELSE UNCHANGED webVars
    /\ IF part = "word"    THEN TRUE ELSE UNCHANGED wordVars
    /\ IF part = "book"    THEN TRUE ELSE UNCHANGED bookVars

ServicesNext ==
    /\ \/ part = "archive" /\ Next
       \/ part = "bench"   /\ BenchNext
       \/ part = "render"  /\ RenderNext
       \/ part = "loop"    /\ LoopNext
       \/ part = "install" /\ InstallNext
       \/ part = "pipe"    /\ PipelineStep
       \/ part = "sync"    /\ SyncNext
       \/ part = "decrypt" /\ DecryptNext
       \/ part = "web"     /\ WebNext
       \/ part = "word"    /\ WordStep
       \/ part = "book"    /\ BookStep
    /\ OtherPartsStill

ServicesSpec == ServicesInit /\ [][ServicesNext]_servicesVars

-----------------------------------------------------------------------------
(* The invariant. *)

\* The inductive invariants of the components; in the pipeline, that every request is
\* counted and no page is asked about too often, besides.  What the passes of the
\* reconciliation promise is a liveness property, and only their types are here.
ServicesInv ==
    /\ ArchiveInv /\ RenderInv /\ InstallInv
    /\ PipelineInv /\ RequestsAreCounted /\ RequestsAreBounded
    /\ GuideInv /\ WebInv /\ WordInv /\ BookInv /\ BenchInv
    /\ LoopInv /\ SyncTypeOK
=============================================================================
