--------------------------- MODULE ParserBenchmark ---------------------------
(***************************************************************************)
(* The HWP parser benchmark (hwp_parser_benchmark.py): a pinned corpus is  *)
(* fetched, every engine is run on every document it reads, and the scores *)
(* are written to results.json.  With --resume the successes of the last   *)
(* complete results of the same manifest are taken over, their artifacts   *)
(* read back from disk.  A run may die anywhere, and a file it was writing *)
(* is cut off; the manifest and the installed engines are others from one  *)
(* run to the next, and may be the old ones again.                         *)
(*                                                                         *)
(* A manifest is a number and so is what a file of it holds.  The tokens   *)
(* an engine finds are fixed for a behaviour, the time it takes is not.    *)
(* A run is one of all the engines; the remaining metrics and the two      *)
(* reports are left out.                                                   *)
(***************************************************************************)
EXTENDS Integers, FiniteSets, FiniteSetsExt

CONSTANTS
    Engines,
    CorpusDocs,
    Reads,           \* ENGINE_FORMATS: the pairs of an engine and a document it reads
    Tokens,
    Vocabularies,    \* bound: what the engines may find, [Engines -> SUBSET Tokens]
    NoFile,          \* a file that is absent or, cut between characters, is no JSON
    Cut,             \* a file cut inside a character, which cannot be decoded
    MaxManifest,     \* bound: corpus manifests
    MaxSeconds,      \* bound: the time one engine takes
    MaxBreaks        \* bound: crashes, damaged files, refused downloads, failing engines

ASSUME BenchAssumption ==
    /\ Reads \subseteq Engines \X CorpusDocs
    /\ IsFiniteSet(Engines) /\ IsFiniteSet(CorpusDocs) /\ IsFiniteSet(Tokens)
    /\ Vocabularies \subseteq [Engines -> SUBSET Tokens]
    /\ MaxManifest \in Nat \ {0} /\ MaxSeconds \in Nat /\ MaxBreaks \in Nat

VARIABLES
    benchStage,      \* where run_benchmark is
    resuming,        \* --resume
    manifestNow,     \* --manifest
    corpus,          \* which manifest's content a corpus file holds
    installed,       \* whether the tools of each engine are there
    vocabulary,      \* the tokens each engine finds
    pairsLeft,       \* compatible_pairs still to be run
    runRecords,      \* records
    raw,             \* raw/<engine>/<document>.json
    results,         \* results.json
    strayArtifacts,  \* a run of another manifest than that of results.json died over
                     \* the artifacts these name
    benchBreaks

benchVars == <<benchStage, resuming, manifestNow, corpus, installed, vocabulary, pairsLeft,
               runRecords, raw, results, strayArtifacts, benchBreaks>>

Manifests == 1..MaxManifest
Statuses  == {"success", "unavailable", "timeout", "error"}
Artifact  == [content : Manifests, tokens : SUBSET Tokens]
NoOutput  == [content |-> 0, tokens |-> {}]
RunRecord == [status : Statuses, output : Artifact \cup {NoOutput},
              seconds : 0..MaxSeconds]
ResultsFile == [manifest : Manifests, runs : [Reads -> RunRecord]]

ASSUME FilesAssumption == {NoFile, Cut} \cap (ResultsFile \cup Artifact) = {} /\ NoFile # Cut

Readable(file) == file \notin {NoFile, Cut}

BenchTypeOK ==
    /\ benchStage \in {"idle", "fetch", "pairs", "overwrite", "write", "finished"}
    /\ resuming \in BOOLEAN
    /\ manifestNow \in Manifests
    /\ corpus \in [CorpusDocs -> 0..MaxManifest]
    /\ installed \in [Engines -> BOOLEAN]
    /\ vocabulary \in [Engines -> SUBSET Tokens]
    /\ pairsLeft \subseteq Reads
    /\ runRecords \in [Reads -> RunRecord \cup {NoFile}]
    /\ raw \in [Reads -> Artifact \cup {NoFile, Cut}]
    /\ results \in ResultsFile \cup {NoFile, Cut}
    /\ strayArtifacts \in BOOLEAN
    /\ benchBreaks \in 0..MaxBreaks

NoRecords == [p \in Reads |-> NoFile]

BenchInit ==
    /\ benchStage = "idle" /\ resuming = FALSE /\ manifestNow = 1
    /\ corpus = [d \in CorpusDocs |-> 0]
    /\ installed = [e \in Engines |-> FALSE]
    /\ vocabulary \in Vocabularies
    /\ pairsLeft = {} /\ runRecords = NoRecords /\ raw = NoRecords
    /\ results = NoFile /\ strayArtifacts = FALSE /\ benchBreaks = 0

Break == benchBreaks < MaxBreaks /\ benchBreaks' = benchBreaks + 1
Rest  == benchStage \in {"idle", "finished"}

-----------------------------------------------------------------------------
(* fetch_corpus. *)

StartRun ==
    /\ Rest
    /\ benchStage' = "fetch"
    /\ resuming' \in BOOLEAN
    /\ runRecords' = NoRecords
    /\ UNCHANGED <<manifestNow, corpus, installed, vocabulary, pairsLeft, raw, results,
                   strayArtifacts, benchBreaks>>

\* Mutant: a file of another size or hash is refused and kept.
FetchKeepingDamaged(d) ==
    /\ benchStage = "fetch"
    /\ corpus[d] = 0
    /\ corpus' = [corpus EXCEPT ![d] = manifestNow]
    /\ UNCHANGED <<benchStage, resuming, manifestNow, installed, vocabulary, pairsLeft,
                   runRecords, raw, results, strayArtifacts, benchBreaks>>

\* A file that does not validate is unlinked and downloaded; the download goes to
\* a .part file that replaces it, so that it is whole or absent.
FetchDocument(d) ==
    /\ benchStage = "fetch"
    /\ corpus[d] # manifestNow
    /\ corpus' = [corpus EXCEPT ![d] = manifestNow]
    /\ UNCHANGED <<benchStage, resuming, manifestNow, installed, vocabulary, pairsLeft,
                   runRecords, raw, results, strayArtifacts, benchBreaks>>

\* What came is too large, cut off or another file: the second validation, or
\* the limit, ends the run.
FetchFails(d) ==
    /\ benchStage = "fetch"
    /\ corpus[d] # manifestNow
    /\ Break
    /\ corpus' = [corpus EXCEPT ![d] = 0]
    /\ benchStage' = "idle"
    /\ UNCHANGED <<resuming, manifestNow, installed, vocabulary, pairsLeft, runRecords, raw,
                   results, strayArtifacts>>

Fetched == benchStage = "fetch" /\ \A d \in CorpusDocs : corpus[d] = manifestNow

\* _load_resume_records catches a file it cannot open and one that is no JSON.
CorpusFetched ==
    /\ Fetched
    /\ resuming => results # Cut
    /\ benchStage' = "pairs"
    /\ pairsLeft' = Reads
    /\ UNCHANGED <<resuming, manifestNow, corpus, installed, vocabulary, runRecords, raw,
                   results, strayArtifacts, benchBreaks>>

\* It does not catch the error of one that cannot be decoded, and the run ends.
ResultsUndecodable ==
    /\ Fetched
    /\ resuming /\ results = Cut
    /\ benchStage' = "idle"
    /\ UNCHANGED <<resuming, manifestNow, corpus, installed, vocabulary, pairsLeft,
                   runRecords, raw, results, strayArtifacts, benchBreaks>>

-----------------------------------------------------------------------------
(* run_benchmark: one pair of an engine and a document. *)

\* The pairs are run one after another, in an order that never changes.
IsNext(p) == benchStage = "pairs" /\ pairsLeft # {} /\ p = CHOOSE q \in pairsLeft : TRUE

\* Mutant: the results of any manifest are resumed.
NamedByAny(p) == resuming /\ Readable(results) /\ results.runs[p].status = "success"

\* _load_resume_records: the pair is a success of the same manifest.
Named(p) ==
    /\ resuming
    /\ Readable(results) /\ results.manifest = manifestNow
    /\ results.runs[p].status = "success"

\* _resume_output: which manifest's document an artifact was read from is not asked.
Resumable(p) == Named(p) /\ Readable(raw[p])

\* There is nothing to resume; an artifact that cannot be decoded ends the run.
IsToRun(p) == Named(p) => raw[p] = NoFile

AddRecord(p, record) ==
    /\ runRecords' = [runRecords EXCEPT ![p] = record]
    /\ pairsLeft' = pairsLeft \ {p}

\* The artifact is what counts; only the duration is the old record's.
ResumePair(p) ==
    /\ IsNext(p)
    /\ Resumable(p)
    /\ AddRecord(p, [status |-> "success", output |-> raw[p],
                     seconds |-> results.runs[p].seconds])
    /\ UNCHANGED <<benchStage, resuming, manifestNow, corpus, installed, vocabulary, raw,
                   results, strayArtifacts, benchBreaks>>

\* As of results.json: the error is not caught.
ArtifactUndecodable(p) ==
    /\ IsNext(p)
    /\ Named(p) /\ raw[p] = Cut
    /\ benchStage' = "idle" /\ pairsLeft' = {} /\ runRecords' = NoRecords
    /\ UNCHANGED <<resuming, manifestNow, corpus, installed, vocabulary, raw, results,
                   strayArtifacts, benchBreaks>>

SkipUnavailable(p) ==
    /\ IsNext(p)
    /\ IsToRun(p)
    /\ ~installed[p[1]]
    /\ AddRecord(p, [status |-> "unavailable", output |-> NoOutput, seconds |-> 0])
    /\ UNCHANGED <<benchStage, resuming, manifestNow, corpus, installed, vocabulary, raw,
                   results, strayArtifacts, benchBreaks>>

\* Mutant: the artifact of an earlier run is not replaced.
PairSucceedsOnce(p) ==
    /\ IsNext(p)
    /\ IsToRun(p)
    /\ installed[p[1]]
    /\ LET output == [content |-> corpus[p[2]], tokens |-> vocabulary[p[1]]]
       IN /\ raw' = [raw EXCEPT ![p] = IF raw[p] = NoFile THEN output ELSE raw[p]]
          /\ AddRecord(p, [status |-> "success", output |-> output, seconds |-> 1])
    /\ UNCHANGED <<benchStage, resuming, manifestNow, corpus, installed, vocabulary, results,
                   strayArtifacts, benchBreaks>>

\* The adapter ends with a valid result on its output; the artifact is written.
PairSucceeds(p) ==
    /\ IsNext(p)
    /\ IsToRun(p)
    /\ installed[p[1]]
    /\ LET output == [content |-> corpus[p[2]], tokens |-> vocabulary[p[1]]]
       IN /\ raw' = [raw EXCEPT ![p] = output]
          /\ \E seconds \in 1..MaxSeconds :
               AddRecord(p, [status |-> "success", output |-> output, seconds |-> seconds])
    /\ UNCHANGED <<benchStage, resuming, manifestNow, corpus, installed, vocabulary, results,
                   strayArtifacts, benchBreaks>>

\* It exceeds its time, cannot be started, ends with a code, or writes no result:
\* an artifact of an earlier run stays where it is.
PairFails(p, status) ==
    /\ IsNext(p)
    /\ IsToRun(p)
    /\ installed[p[1]]
    /\ Break
    /\ AddRecord(p, [status |-> status, output |-> NoOutput, seconds |-> MaxSeconds])
    /\ UNCHANGED <<benchStage, resuming, manifestNow, corpus, installed, vocabulary, raw,
                   results, strayArtifacts>>

PairsDone ==
    /\ benchStage = "pairs" /\ pairsLeft = {}
    /\ benchStage' = "overwrite"
    /\ UNCHANGED <<resuming, manifestNow, corpus, installed, vocabulary, pairsLeft,
                   runRecords, raw, results, strayArtifacts, benchBreaks>>

\* write_text empties results.json before it writes.
OverwriteResults ==
    /\ benchStage = "overwrite"
    /\ results' = NoFile
    /\ benchStage' = "write"
    /\ UNCHANGED <<resuming, manifestNow, corpus, installed, vocabulary, pairsLeft,
                   runRecords, raw, strayArtifacts, benchBreaks>>

\* A run that resumed nothing leaves no stray artifact behind.
WriteResults ==
    /\ benchStage = "write"
    /\ results' = [manifest |-> manifestNow, runs |-> runRecords]
    /\ strayArtifacts' = (strayArtifacts /\ resuming)
    /\ benchStage' = "finished"
    /\ UNCHANGED <<resuming, manifestNow, corpus, installed, vocabulary, pairsLeft,
                   runRecords, raw, benchBreaks>>

-----------------------------------------------------------------------------
(* Faults, and what changes between two runs. *)

\* Where the pairs of a run are, or all of them were, written over what results.json
\* of another manifest names.
OverOthersArtifacts ==
    benchStage # "fetch" /\ Readable(results) /\ results.manifest # manifestNow

\* The process dies, perhaps while it writes the artifact of a pair or results.json:
\* what it has written is no JSON, or ends inside a character.
BenchmarkDies ==
    /\ ~Rest
    /\ Break
    /\ benchStage' = "idle" /\ pairsLeft' = {} /\ runRecords' = NoRecords
    /\ strayArtifacts' = (strayArtifacts \/ OverOthersArtifacts)
    /\ \/ UNCHANGED <<raw, results>>
       \/ \E p \in Reads, left \in {NoFile, Cut} :
            /\ IsNext(p) /\ IsToRun(p) /\ installed[p[1]]
            /\ raw' = [raw EXCEPT ![p] = left] /\ UNCHANGED results
       \/ benchStage = "write" /\ results' = Cut /\ UNCHANGED raw
    /\ UNCHANGED <<resuming, manifestNow, corpus, installed, vocabulary>>

\* setup_tools: it installs what is not there in its version.
SetupTools ==
    /\ Rest
    /\ installed' = [e \in Engines |-> TRUE]
    /\ UNCHANGED <<benchStage, resuming, manifestNow, corpus, vocabulary, pairsLeft,
                   runRecords, raw, results, strayArtifacts, benchBreaks>>

\* An archive with another hash, or a death after the old release was removed.
SetupFails(e) ==
    /\ Rest
    /\ Break
    /\ installed' = [installed EXCEPT ![e] = FALSE]
    /\ UNCHANGED <<benchStage, resuming, manifestNow, corpus, vocabulary, pairsLeft,
                   runRecords, raw, results, strayArtifacts>>

\* Any other --manifest, or another checkout: also one that was there before.
ChangeManifest ==
    /\ Rest
    /\ manifestNow' \in Manifests \ {manifestNow}
    /\ benchStage' = "idle"
    /\ UNCHANGED <<resuming, corpus, installed, vocabulary, pairsLeft, runRecords, raw,
                   results, strayArtifacts, benchBreaks>>

RunStep ==
    \/ StartRun
    \/ \E d \in CorpusDocs : FetchDocument(d)
    \/ CorpusFetched
    \/ ResultsUndecodable
    \/ \E p \in Reads :
         ResumePair(p) \/ ArtifactUndecodable(p) \/ SkipUnavailable(p) \/ PairSucceeds(p)
    \/ PairsDone
    \/ OverwriteResults
    \/ WriteResults

BenchNext ==
    \/ RunStep
    \/ \E d \in CorpusDocs : FetchFails(d)
    \/ \E p \in Reads, status \in {"timeout", "error"} : PairFails(p, status)
    \/ BenchmarkDies
    \/ SetupTools
    \/ \E e \in Engines : SetupFails(e)
    \/ ChangeManifest

BenchSpec == BenchInit /\ [][BenchNext]_benchVars

-----------------------------------------------------------------------------
(* The scores of a document: add_agreement_metrics and the durations. *)

\* The token sets that are compared: those of the successes that found any.
Compared(d) ==
    {e \in Engines : /\ <<e, d>> \in Reads
                     /\ results.runs[<<e, d>>].status = "success"
                     /\ results.runs[<<e, d>>].output.tokens # {}}

TokensOf(e, d) == results.runs[<<e, d>>].output.tokens

\* Mutant: half of the engines are enough.
HalfOf(engines) == Cardinality(engines) \div 2

Threshold(engines) == Cardinality(engines) \div 2 + 1

Consensus(d) ==
    {t \in Tokens : Cardinality({e \in Compared(d) : t \in TokensOf(e, d)})
                        >= Threshold(Compared(d))}

Durations(e) ==
    {<<p, results.runs[p].seconds>> : p \in {q \in Reads : /\ q[1] = e
                                             /\ results.runs[q].status = "success"}}

AtMost(S, seconds) == {x \in S : x[2] <= seconds}

\* Mutant: the place is rounded down.
PlaceRoundedDown(n) == IF 95 * n < 200 THEN 1 ELSE (95 * n) \div 100

\* max(0, ceil(0.95 * n) - 1), counted from one.
Place(n) == (95 * n + 99) \div 100

\* _percentile: the value at a place of the sorted values.
Percentile95(S) ==
    Min({x[2] : x \in {y \in S : Cardinality(AtMost(S, y[2])) >= Place(Cardinality(S))}})

-----------------------------------------------------------------------------

\* Results never mix corpora, also when they were resumed, unless a run of another
\* manifest died over the artifacts and was never made good: a success of results.json
\* was read from the document its manifest pins.
ResultsAreOfTheirManifest ==
    Readable(results) /\ ~strayArtifacts =>
        \A p \in Reads :
            results.runs[p].status = "success" =>
                results.runs[p].output.content = results.manifest

\* A benchmark that finished tells of the manifest it was started for, and the
\* output it counts for a success is the artifact that lies on disk.
FinishedMatchesArtifacts ==
    benchStage = "finished" =>
        /\ results.manifest = manifestNow
        /\ \A p \in Reads : results.runs[p].status = "success" => results.runs[p].output = raw[p]

\* The consensus of a document is a majority's: where there is one, some engine
\* recalls more than half of it.
SomeEngineRecallsHalf ==
    benchStage = "finished" =>
        \A d \in CorpusDocs :
            Cardinality(Compared(d)) >= 2 /\ Consensus(d) # {} =>
                \E e \in Compared(d) :
                    2 * Cardinality(TokensOf(e, d) \cap Consensus(d)) > Cardinality(Consensus(d))

\* The reported p95 is a duration that was measured, 95 % of them are not above
\* it, and no smaller one is enough.
PercentileCovers ==
    benchStage = "finished" =>
        \A e \in Engines :
            Durations(e) # {} =>
                LET n == Cardinality(Durations(e))
                    p == Percentile95(Durations(e))
                IN /\ 100 * Cardinality(AtMost(Durations(e), p)) >= 95 * n
                   /\ 100 * Cardinality(AtMost(Durations(e), p - 1)) < 95 * n

\* Results mix corpora only over what a run of another manifest left when it died; a
\* benchmark that finished counts the artifacts on disk; its consensus is a majority's
\* and its p95 covers 95 % of the runs (hwp_parser_benchmark.py).
BenchmarkIsTrue ==
    /\ ResultsAreOfTheirManifest
    /\ FinishedMatchesArtifacts
    /\ SomeEngineRecallsHalf
    /\ PercentileCovers

\* The pair was run by this benchmark.
WasRun(p) ==
    \/ benchStage = "pairs" /\ p \notin pairsLeft
    \/ benchStage \in {"overwrite", "write"}

\* A success of this benchmark is the artifact on disk; it was read from the pinned
\* corpus unless it was resumed from a stray one.
RunRecordsInv ==
    \A p \in Reads : WasRun(p) =>
        /\ runRecords[p] \in RunRecord
        /\ runRecords[p].status = "success" =>
             /\ runRecords[p].output = raw[p]
             /\ raw[p].content = manifestNow \/ (resuming /\ strayArtifacts)

\* What a run may resume from: the artifacts that results.json names are of its
\* manifest, except under a run of another one.
ArtifactsInv ==
    /\ Readable(results) /\ ~strayArtifacts
    /\ ~OverOthersArtifacts \/ Rest
    => \A p \in Reads :
         results.runs[p].status = "success" /\ Readable(raw[p]) =>
             raw[p].content = results.manifest

\* Inductive: the corpus is the pinned one while pairs are run.
BenchInv ==
    /\ BenchTypeOK
    /\ ResultsAreOfTheirManifest /\ FinishedMatchesArtifacts
    /\ RunRecordsInv
    /\ ArtifactsInv
    /\ benchStage = "finished" => Readable(results)
    /\ benchStage \in {"pairs", "overwrite", "write"} =>
         \A d \in CorpusDocs : corpus[d] = manifestNow

\* What a run that died left behind cannot be decoded.
FileIsCut == results = Cut \/ \E p \in Reads : raw[p] = Cut

\* A benchmark that is started again and again finishes again and again, unless from
\* some time on every run resumes over a file that was cut inside a character.
BenchmarkFinishes == []<>(benchStage = "finished") \/ <>[](resuming /\ FileIsCut)
=============================================================================
