------------------------------ MODULE MCServices ------------------------------
(* The run of the components that share no state with the queue, nor with one  *)
(* another.                                                                    *)
EXTENDS Services

CONSTANTS p1, p2, p3, b1, b2, b3

-----------------------------------------------------------------------------
(* The instances. *)

Plain(b)      == [blob |-> b, lfs |-> None]
Pointer(b, o) == [blob |-> b, lfs |-> o]

\* The second commit changes one document, drops one and adds a copy of another.
TwoCommits ==
    <<[p \in {p1, p2} |-> IF p = p1 THEN Plain(b1) ELSE Pointer(b2, b3)],
      [p \in {p1, p3} |-> IF p = p1 THEN Plain(b3) ELSE Pointer(b2, b3)]>>

\* What --limit 0 and --limit 1 leave, and a run without it.
FirstOnes == {{}, {"d1"}, {"d1", "d2"}}

\* One document that both engines read and one that the first alone reads.  They
\* find the same, different words, or one of them nothing.
Found(x, y) == [e \in {"e1", "e2"} |-> IF e = "e1" THEN x ELSE y]

EngineReads == {<<"e1", "d1">>, <<"e1", "d2">>, <<"e2", "d1">>}

FoundWords == {Found({"t1"}, {"t2"}), Found({"t1", "t2"}, {"t1"}), Found({}, {"t1"})}

\* The first sheet shows anything; the other is a short form or a long list.
ShownBy == [n \in 1..2 |-> IF n = 1 THEN Signals ELSE {{"small"}, {"structure", "large"}}]

\* The first sheet has up to four rows of any kind.
RowsIn ==
    [n \in 1..2 |->
        IF n = 1
        THEN UNION {[1..k -> RowKinds] : k \in 1..4}
        ELSE {<<"single", "words", "words", "numbers">>,
              <<"banded", "numbers", "empty", "single">>}]

-----------------------------------------------------------------------------
(* One of them at a time. *)

\* What a part that is not run begins with, where it may begin in several ways.
Pinned ==
    /\ part # "bench"   => vocabulary = Found({}, {"t1"})
    /\ part # "loop"    => refused = {}
    /\ part # "install" => origin = "none"
    /\ part # "pipe"    => ~corrected /\ ~lowTier
    /\ part # "decrypt" => ~toggle /\ tenant = "nothing" /\ tool = "unset" /\ ~file.protected
    /\ part # "word"    => ~wordLowTier
    /\ part # "book"    => ~bookLowTier

\* The fairness of each module, of its part alone.
ServicesFairness ==
    /\ WF_vars(part = "archive" /\ CollectorStep)
    /\ WF_benchVars(part = "bench" /\ RunStep)
    /\ WF_loopVars(part = "loop" /\ LoopStep)
    /\ WF_loopVars(part = "loop" /\ DatabaseReturns)
    /\ WF_loopVars(part = "loop" /\ IntervalPasses)
    /\ WF_loopVars(part = "loop" /\ Restart)
    /\ SF_loopVars(part = "loop" /\ RunOnce)
    /\ \A d \in {"s1", "s2"} : SF_loopVars(part = "loop" /\ Reconcile(d))
    /\ \A p \in {"web", "worker"} :
          WF_installVars(part = "install" /\ InstallStep(p))
    /\ WF_pipelineVars(part = "pipe" /\ PipelineStep)
    /\ WF_syncVars(part = "sync" /\ JobStep)
    /\ WF_syncVars(part = "sync" /\ PassStep)
    /\ WF_syncVars(part = "sync" /\ PassBreaks)
    /\ WF_webVars(part = "web" /\ RunEnds /\ ~ran)
    /\ \A t \in Tabs : WF_webVars(part = "web" /\ TabStep(t))

MCInit == ServicesInit /\ Pinned

MCSpec == MCInit /\ [][ServicesNext]_servicesVars /\ ServicesFairness

-----------------------------------------------------------------------------
(* The properties of the instances. *)

\* A database that is away ends no worker, whatever its driver raises, and a source
\* that changed or was deleted is found through outages, throttling and restarts
\* (worker.run_forever, worker.reconcile_once, db_resilience.py).
OutagesAreSurvived == []OutageEndsNoWorker /\ EveryChangeIsFound

\* What is started comes to its end: a collection unless its archive was cut off, a
\* benchmark, every process whoever died with the lock of initialize(), and a run
\* however often the model answers nonsense.
EveryServiceFinishes ==
    /\ part = "archive" => CollectionEnds
    /\ part = "bench"   => BenchmarkFinishes
    /\ part = "install" => EveryProcessRuns
    /\ part = "pipe"    => EveryRunEnds

\* Once the source is left alone, the external item becomes and stays what it is
\* (worker.process and worker.reconcile_once).
ItemsFollowTheirSources == part = "sync" => ItemFollowsSource

\* Every tab comes to show its page, and there the end of the run (status.py).
PagesTellTheEnd == part = "web" => EveryPageTellsTheEnd
=============================================================================
