-------------------------- MODULE DocumentPipeline --------------------------
(***************************************************************************)
(* PresentationProcessor.process: a decrypted source is prepared by its    *)
(* handler, its page images are analysed by a vision model in a pool of    *)
(* threads, and semantic and visual results are merged page by page.       *)
(*                                                                         *)
(* A slide's content is a title, a schedule and a set of facts (every list *)
(* of the merge is one union), each marked with the page and the reader it *)
(* came from, so that a mix-up of pages or a loss in the merge shows.      *)
(***************************************************************************)
EXTENDS Naturals, FiniteSets

CONSTANTS
    PageCount,            \* pages of the source
    PoolSize,             \* slide_image_max_workers
    ValidationAttempts,
    Nothing               \* an empty field, or no result

Pages == 1..PageCount

VARIABLES
    stage,       \* the stage of process()
    semantic,    \* prepared.semantic_slides: page -> slide, or Nothing
    images,      \* pages with an image
    corrected,   \* tuning corrections were given
    lowTier,     \* low_tier_enabled
    task,        \* where each page is in the pool
    seen,        \* what the model said of it
    attempts,    \* requests made for a page
    calls,       \* requests the model answered
    failing,     \* a collected future raised
    collected,   \* pages whose future was collected
    slides,      \* the result
    usage        \* the tokens reported, in answered requests

pipelineVars == <<stage, semantic, images, corrected, lowTier, task, seen, attempts,
                  calls, failing, collected, slides, usage>>

\* What a reader made of a page; a reader may find no title and no schedule.
Slide(reader, page, full) ==
    [title    |-> IF full THEN <<reader, page>> ELSE Nothing,
     schedule |-> IF full THEN <<reader, page>> ELSE Nothing,
     facts    |-> {<<reader, page>>, <<"both", page>>}]

SlidesOf(reader) == {Slide(reader, p, full) : p \in Pages, full \in BOOLEAN}

ASSUME PagesAssumption ==
    /\ PageCount \in Nat /\ ValidationAttempts \in Nat
    /\ Nothing \notin [Pages -> SlidesOf("semantic")]

TaskStates == {"none", "queued", "running", "done", "failed"}

PipelineTypeOK ==
    /\ stage \in {"validating", "guard", "submit", "analysing", "merge", "ready", "failed"}
    /\ images \subseteq Pages /\ collected \subseteq Pages
    /\ corrected \in BOOLEAN /\ lowTier \in BOOLEAN /\ failing \in BOOLEAN
    /\ task \in [Pages -> TaskStates]
    /\ seen \in [Pages -> SlidesOf("visual") \cup {Nothing}]
    /\ attempts \in [Pages -> 0..ValidationAttempts]
    /\ calls \in Nat /\ usage \in Nat

PipelineInit ==
    /\ stage = "validating"
    /\ semantic = Nothing
    /\ images = {} /\ collected = {}
    /\ corrected \in BOOLEAN
    /\ lowTier \in BOOLEAN
    /\ task = [p \in Pages |-> "none"]
    /\ seen = [p \in Pages |-> Nothing]
    /\ attempts = [p \in Pages |-> 0]
    /\ calls = 0 /\ usage = 0
    /\ failing = FALSE
    /\ slides = Nothing

poolVars == <<task, seen, attempts, calls, failing, collected>>

\* What a handler returns: semantic slides and the pages to be looked at besides,
\* or an image of every page and nothing else.
ReadsSlides(looked) ==
    /\ \E full \in BOOLEAN : semantic' = [p \in Pages |-> Slide("semantic", p, full)]
    /\ images' = looked

Looks == semantic' = Nothing /\ images' = Pages

\* Three ways through a presentation: low tier, visual first, semantic first.  The
\* latter two take a rendering with as many pages as slides, or fail (Invalid).
PreparePptx ==
    \/ lowTier /\ ReadsSlides({})
    \/ ~lowTier /\ Looks
    \/ ~lowTier /\ \E looked \in SUBSET Pages : ReadsSlides(looked)

\* Word and Excel: WordPages and WorkbookPages say which pages.
PrepareOffice == \E looked \in SUBSET (IF lowTier THEN {} ELSE Pages) : ReadsSlides(looked)

\* These two know of no tier.
PrepareHwp == \E looked \in SUBSET Pages : ReadsSlides(looked)
PreparePdf == Looks

\* detect_handler, validate and prepare; on the low tier corrections are dropped.
Prepare ==
    /\ stage = "validating"
    /\ PreparePptx \/ PrepareOffice \/ PrepareHwp \/ PreparePdf
    /\ corrected' = (corrected /\ ~lowTier)
    /\ stage' = "guard"
    /\ UNCHANGED <<lowTier, poolVars, slides, usage>>

Invalid ==
    /\ stage = "validating"
    /\ stage' = "failed"
    /\ UNCHANGED <<semantic, images, corrected, lowTier, poolVars, slides, usage>>

\* Corrections need a page that is looked at; without one there is no analysis.
Guard ==
    /\ stage = "guard"
    /\ IF images = {}
       THEN /\ stage' = IF corrected THEN "failed" ELSE "ready"
            /\ slides' = IF corrected THEN Nothing ELSE semantic
       ELSE stage' = "submit" /\ UNCHANGED slides
    /\ UNCHANGED <<semantic, images, corrected, lowTier, poolVars, usage>>

-----------------------------------------------------------------------------
(* StructuredSlideAnalysisService.analyze: the pool. *)

Submit ==
    /\ stage = "submit"
    /\ task' = [p \in Pages |-> IF p \in images THEN "queued" ELSE "none"]
    /\ stage' = "analysing"
    /\ UNCHANGED <<semantic, images, corrected, lowTier, seen, attempts, calls, failing,
                   collected, slides, usage>>

Running == {p \in Pages : task[p] = "running"}

StartTask(p) ==
    /\ task[p] = "queued"
    /\ Cardinality(Running) < PoolSize
    /\ \A q \in Pages : task[q] = "queued" => p <= q
    /\ task' = [task EXCEPT ![p] = "running"]
    /\ UNCHANGED <<stage, semantic, images, corrected, lowTier, seen, attempts, calls, failing,
                   collected, slides, usage>>

Answered(p) ==
    /\ task[p] = "running"
    /\ attempts[p] < ValidationAttempts
    /\ attempts' = [attempts EXCEPT ![p] = @ + 1]
    /\ calls' = calls + 1
    /\ UNCHANGED <<stage, semantic, images, corrected, lowTier, failing, collected,
                   slides, usage>>

\* Mutant: any response that validates is taken for the page asked about.
AnyPage(p, q) == TRUE

\* _parse_response: the response names the slide it is about.
IsAbout(p, q) == p = q

\* A response that validates, for this page or, mistakenly, for another one.
AnswerValid(p) ==
    /\ Answered(p)
    /\ \E q \in Pages, full \in BOOLEAN :
         /\ IsAbout(p, q)
         /\ seen' = [seen EXCEPT ![p] = Slide("visual", q, full)]
    /\ task' = [task EXCEPT ![p] = "done"]

\* Cut off, not JSON, not of the schema, of another page: again, or for the last
\* time an error.
AnswerInvalid(p) ==
    /\ Answered(p)
    /\ task' = [task EXCEPT ![p] = IF attempts'[p] < ValidationAttempts THEN "running"
                                                                      ELSE "failed"]
    /\ UNCHANGED seen

\* A refusal is not tried again.
AnswerRefused(p) ==
    /\ Answered(p)
    /\ task' = [task EXCEPT ![p] = "failed"]
    /\ UNCHANGED seen

\* OpenAIError: nothing was answered, or the image was empty.
RequestFails(p) ==
    /\ task[p] = "running"
    /\ task' = [task EXCEPT ![p] = "failed"]
    /\ UNCHANGED <<stage, semantic, images, corrected, lowTier, seen, attempts, calls, failing,
                   collected, slides, usage>>

IsDone(p) == task[p] \in {"done", "failed"}

\* as_completed: the first that raised ends the collection, not the pool.
Collect(p) ==
    /\ stage = "analysing"
    /\ ~failing
    /\ p \in images \ collected
    /\ IsDone(p)
    /\ IF task[p] = "failed" THEN failing' = TRUE /\ UNCHANGED collected
                             ELSE collected' = collected \cup {p} /\ UNCHANGED failing
    /\ UNCHANGED <<stage, semantic, images, corrected, lowTier, task, seen, attempts, calls,
                   slides, usage>>

\* Mutant: the pool is left as soon as one future raised.
PoolIsLeft == failing

PoolIsOver == \A p \in images : IsDone(p)

\* The with-block waits for every thread before the usage is read.
AnalysisFails ==
    /\ stage = "analysing"
    /\ failing
    /\ PoolIsOver
    /\ usage' = calls
    /\ stage' = "failed"
    /\ UNCHANGED <<semantic, images, corrected, lowTier, poolVars, slides>>

\* Mutant: the count of finished pages is compared with the pages of the source.
AnalysisEndsWithEveryPage ==
    /\ stage = "analysing"
    /\ collected = Pages
    /\ usage' = calls
    /\ stage' = "merge"
    /\ UNCHANGED <<semantic, images, corrected, lowTier, poolVars, slides>>

AnalysisEnds ==
    /\ stage = "analysing"
    /\ collected = images
    /\ usage' = calls
    /\ stage' = "merge"
    /\ UNCHANGED <<semantic, images, corrected, lowTier, poolVars, slides>>

-----------------------------------------------------------------------------
(* merge_semantic_and_visual, and the HTML. *)

FirstOf(x, y) == IF x # Nothing THEN x ELSE y

\* Mutant: a page that was looked at is only what was seen.
VisualReplaces(s, v) == v

MergeSlide(s, v) ==
    [title    |-> FirstOf(s.title, v.title),
     schedule |-> FirstOf(v.schedule, s.schedule),
     facts    |-> s.facts \cup v.facts]

MergePage(p) ==
    IF p \in images THEN MergeSlide(semantic[p], seen[p]) ELSE semantic[p]

Merge ==
    /\ stage = "merge"
    /\ slides' = IF semantic = Nothing THEN seen ELSE [p \in Pages |-> MergePage(p)]
    /\ stage' = "ready"
    /\ UNCHANGED <<semantic, images, corrected, lowTier, poolVars, usage>>

PipelineStep ==
    \/ Prepare
    \/ Invalid
    \/ Guard
    \/ Submit
    \/ \E p \in Pages :
         \/ StartTask(p)
         \/ AnswerValid(p)
         \/ AnswerInvalid(p)
         \/ AnswerRefused(p)
         \/ RequestFails(p)
         \/ Collect(p)
    \/ AnalysisFails
    \/ AnalysisEnds
    \/ Merge

\* The threads run and every request returns (slide_image_request_timeout).
PipelineSpec ==
    /\ PipelineInit
    /\ [][PipelineStep]_pipelineVars
    /\ WF_pipelineVars(PipelineStep)

-----------------------------------------------------------------------------
(* Properties. *)

\* The result of a run speaks of every page, and of each page only what was
\* read on it, in whatever order the threads finished and whatever the model
\* answered to whom.
EveryPageIsItsOwn ==
    stage = "ready" =>
        \A p \in Pages :
            /\ slides[p].facts # {}
            /\ \A fact \in slides[p].facts : fact[2] = p
            /\ slides[p].title # Nothing => slides[p].title[2] = p

\* A page that is looked at besides loses nothing of what its file said.
VisionOnlyAdds ==
    stage = "ready" /\ semantic # Nothing =>
        \A p \in Pages :
            /\ semantic[p].facts \subseteq slides[p].facts
            /\ semantic[p].title # Nothing => slides[p].title = semantic[p].title

\* The tokens of a run, failed ones too, are those of every request made for it:
\* no thread is left working, and paid for, after the run has told its usage.
UsageCountsEveryCall ==
    stage \in {"ready", "failed"} => usage = calls /\ Running = {}

\* What a run says of a page was read on it, nothing that the file said is lost, and
\* the tokens it reports are those of every request made for it, in whatever order
\* the threads finished (structured_analysis.py, processor.py).
AnalysisIsTrue == EveryPageIsItsOwn /\ VisionOnlyAdds /\ UsageCountsEveryCall

\* Every request is an attempt of one page: none is made that no page accounts for.
Asked == {x \in Pages \X (1..ValidationAttempts) : x[2] <= attempts[x[1]]}

RequestsAreCounted == calls = Cardinality(Asked)

\* A run pays for no more requests than every attempt of every page, whatever the model
\* answers (MAX_VALIDATION_ATTEMPTS).
RequestsAreBounded == calls <= PageCount * ValidationAttempts

-----------------------------------------------------------------------------
(* The inductive invariant of AnalysisIsTrue. *)

\* What the handler returned: slides of every page, or an image of every page.
PreparedInv ==
    stage \notin {"validating", "failed"} =>
        \/ semantic = Nothing /\ images = Pages
        \/ /\ semantic \in [Pages -> SlidesOf("semantic")]
           /\ \A p \in Pages : \E full \in BOOLEAN : semantic[p] = Slide("semantic", p, full)

\* The pool: a page that is done was seen, and one that is not looked at is left.
PoolInv ==
    /\ stage \in {"validating", "guard", "submit"} => calls = 0 /\ usage = 0
    /\ stage = "merge" => collected = images
    /\ \A p \in Pages :
         /\ task[p] = "done" => \E full \in BOOLEAN : seen[p] = Slide("visual", p, full)
         /\ p \in collected => task[p] = "done"
         /\ p \notin images => task[p] = "none"
         /\ stage \in {"validating", "guard", "submit"} => task[p] = "none"
         /\ stage \in {"merge", "ready", "failed"} => task[p] \notin {"queued", "running"}
    /\ stage \in {"merge", "ready", "failed"} => usage = calls

PipelineInv == PipelineTypeOK /\ PreparedInv /\ PoolInv /\ AnalysisIsTrue

-----------------------------------------------------------------------------
(* Liveness. *)

\* A run ends, however often the model answers nonsense.
EveryRunEnds == <>(stage \in {"ready", "failed"})
=============================================================================
