---------------------------- MODULE ServiceProofs ----------------------------
(***************************************************************************)
(* Proofs about the components beside the queue: the installation, the     *)
(* pipeline, the decryption, the collector of samples, the rendering       *)
(* validation, the status page, the pages of a Word document and of a      *)
(* workbook, the parser benchmark, the loop of the worker and the passes   *)
(* of the reconciliation.  They share no state; each has its invariant.    *)
(***************************************************************************)
EXTENDS Services, FiniteSetTheorems, SequenceTheorems, TLAPS

-----------------------------------------------------------------------------
(* The installation. *)

LEMMA InstallStart == InstallInit => InstallInv
<1> SUFFICES ASSUME InstallInit PROVE InstallInv
  OBVIOUS
<1>1. InstallTypeOK
  <2>1. external \subseteq Items
    <3>1. CASE origin = "legacy"
      BY <3>1 DEF InstallInit
    <3>2. CASE origin # "legacy"
      BY <3>2 DEF InstallInit
    <3> QED  BY <3>1, <3>2
  <2>2. existing \in [Processes -> [install : BOOLEAN, pending : BOOLEAN]]
    BY DEF InstallInit
  <2>3. at \in [Processes -> InstallPhases] /\ deaths \in 0..MaxDeaths
    BY InstallAssumption DEF InstallInit, InstallPhases
  <2>4. /\ tables \in {"none", "legacy", "current"} /\ origin \in {"none", "legacy"}
        /\ marker \in BOOLEAN /\ target \in {"none", "unset", "connector"}
        /\ connectorRows \subseteq Items /\ holder \in Processes \cup {NoProcess}
    BY DEF InstallInit
  <2> QED
    BY <2>1, <2>2, <2>3, <2>4 DEF InstallTypeOK
<1>2. LockInv /\ DatabaseInv
  BY DEF InstallInit, LockInv, DatabaseInv, UpgradeKeepsTheConnector
<1>3. ASSUME NEW p \in Processes PROVE ProcessInv(p)
  <2>1. at[p] = "off" /\ ~existing[p].install /\ ~existing[p].pending
    BY DEF InstallInit
  <2> QED  BY <2>1 DEF ProcessInv
<1> QED  BY <1>1, <1>2, <1>3 DEF InstallInv

LEMMA InstallTyping ==
    ASSUME InstallTypeOK, InstallNext
    PROVE  InstallTypeOK'
<1> USE InstallAssumption DEF InstallTypeOK, InstallPhases, At, Move
<1>1. ASSUME NEW p \in Processes, StartProcess(p) \/ MarkMigration(p) \/ CreateTables(p)
      PROVE  InstallTypeOK'
  BY <1>1 DEF StartProcess, MarkMigration, CreateTables
<1>2. ASSUME NEW p \in Processes, Inspect(p) PROVE InstallTypeOK'
  BY <1>2 DEF Inspect
<1>3. ASSUME NEW p \in Processes, EnsureTransition(p) \/ Backfill(p) \/ ClearMarker(p)
      PROVE  InstallTypeOK'
  BY <1>3 DEF EnsureTransition, Backfill, ClearMarker
<1>4. ASSUME NEW p \in Processes, ProcessDies(p) PROVE InstallTypeOK'
  BY <1>4 DEF ProcessDies
<1>5. ASSUME NEW p \in Processes, NEW d \in Items, ServeItem(p, d) PROVE InstallTypeOK'
  BY <1>5 DEF ServeItem
<1> QED  BY <1>1, <1>2, <1>3, <1>4, <1>5 DEF InstallNext, InstallStep

\* One process at a time.
LEMMA LockHolds ==
    ASSUME InstallInv, InstallNext
    PROVE  LockInv'
<1> USE InstallAssumption DEF InstallInv, InstallTypeOK, InstallPhases, LockInv, At, Move
<1>1. ASSUME NEW p \in Processes, InstallStep(p) PROVE LockInv'
  BY <1>1 DEF InstallStep, StartProcess, Inspect, MarkMigration, CreateTables,
              EnsureTransition, Backfill, ClearMarker
<1>2. ASSUME NEW p \in Processes, ProcessDies(p) PROVE LockInv'
  BY <1>2 DEF ProcessDies
<1>3. ASSUME NEW p \in Processes, NEW d \in Items, ServeItem(p, d) PROVE LockInv'
  BY <1>3 DEF ServeItem
<1> QED  BY <1>1, <1>2, <1>3 DEF InstallNext

\* Every action, with what the lock says of the other processes.
LEMMA InstallGoesOn ==
    ASSUME InstallInv, [InstallNext]_installVars
    PROVE  InstallInv'
<1> SUFFICES ASSUME InstallNext PROVE InstallInv'
  BY DEF InstallInv, InstallTypeOK, LockInv, DatabaseInv, ProcessInv,
         UpgradeKeepsTheConnector, installVars
<1>1. InstallTypeOK' /\ LockInv'
  BY InstallTyping, LockHolds DEF InstallInv
<1> USE DEF InstallInv, InstallTypeOK, InstallPhases, DatabaseInv, ProcessInv,
            UpgradeKeepsTheConnector, At, Move
<1>2. ASSUME NEW p \in Processes, InstallStep(p)
      PROVE  DatabaseInv' /\ \A q \in Processes : ProcessInv(q)'
  <2>1. CASE StartProcess(p)
    BY <2>1 DEF StartProcess
  <2>2. CASE Inspect(p)
    BY <2>2 DEF Inspect
  <2>3. CASE MarkMigration(p)
    BY <2>3 DEF MarkMigration
  <2>4. CASE CreateTables(p)
    BY <2>4 DEF CreateTables, LockInv
  <2>5. CASE EnsureTransition(p)
    BY <2>5 DEF EnsureTransition, ExistedBefore, LockInv
  <2>6. CASE Backfill(p)
    BY <2>6 DEF Backfill
  <2>7. CASE ClearMarker(p)
    BY <2>7 DEF ClearMarker, LockInv
  <2> QED
    BY <1>2, <2>1, <2>2, <2>3, <2>4, <2>5, <2>6, <2>7 DEF InstallStep
<1>3. ASSUME NEW p \in Processes, ProcessDies(p)
      PROVE  DatabaseInv' /\ \A q \in Processes : ProcessInv(q)'
  BY <1>3 DEF ProcessDies
<1>4. ASSUME NEW p \in Processes, NEW d \in Items, ServeItem(p, d)
      PROVE  DatabaseInv' /\ \A q \in Processes : ProcessInv(q)'
  BY <1>4 DEF ServeItem
<1> QED  BY <1>1, <1>2, <1>3, <1>4 DEF InstallNext

\* An installation that served its documents through the connector goes on to, and
\* has their rows once a process runs, however many processes initialise and
\* wherever they die.
THEOREM UpgradesComplete == InstallSpec => []UpgradeIsComplete
<1>1. InstallInv => UpgradeIsComplete
  BY DEF InstallInv, DatabaseInv, ProcessInv, UpgradeIsComplete, ServedDocumentsHaveRows, At
<1> QED  BY <1>1, InstallStart, InstallGoesOn, PTL DEF InstallSpec

-----------------------------------------------------------------------------
(* The decryption. *)

LEMMA ReadingStart == DecryptInit => ReadingInv
<1> SUFFICES ASSUME DecryptInit PROVE ReadingInv
  OBVIOUS
<1>1. file \in Payloads
  <2>1. 0 \in 0..MaxSaves
    BY ChoresAssumption
  <2>2. file \in [text : {0}, nonce : {0}, protected : BOOLEAN]
    BY DEF DecryptInit
  <2> QED  BY <2>1, <2>2 DEF Payloads
<1>2. running \in [toggle : BOOLEAN, tool : Tools]
  BY DEF DecryptInit, Snapshot
<1>3. DecryptTypeOK
  <2>1. payload \in Payloads /\ chores \in 0..MaxChores /\ saves \in 0..MaxSaves
    <3>1. payload = file /\ chores = 0 /\ saves = 0
      BY DEF DecryptInit
    <3>2. 0 \in 0..MaxChores /\ 0 \in 0..MaxSaves
      BY ChoresAssumption
    <3> QED  BY <1>1, <3>1, <3>2
  <2>2. /\ toggle \in BOOLEAN /\ tenant \in Grants /\ tool \in Tools
        /\ reading = "idle" /\ outcome \in Outcomes /\ workspace = {}
        /\ purpose = "job" /\ again = FALSE /\ mark = {} /\ guide = "unknown"
    BY DEF DecryptInit, Outcomes
  <2> QED  BY <1>1, <1>2, <2>1, <2>2 DEF DecryptTypeOK
<1> QED
  BY <1>3 DEF DecryptInit, ReadingInv, ReadingsAreTrue, FailureIsNamed,
              RefreshedOnlyWhenChanged, WorkspaceIsRemoved

\* Administrators, the platform and the authors touch no reading, but by a restart.
LEMMA WorldKeepsReading ==
    ASSUME ReadingInv,
           \/ SaveToggle \/ ChangeGrant \/ DeployTool \/ Recheck \/ RestartWorker
           \/ SaveDocument
    PROVE  ReadingInv'
<1> USE ChoresAssumption DEF ReadingInv, DecryptTypeOK
<1>1. CASE SaveToggle \/ ChangeGrant \/ DeployTool \/ Recheck
  <2>1. /\ UNCHANGED <<running, file, saves, progress, purpose, again, payload, mark>>
        /\ toggle' \in BOOLEAN /\ tenant' \in Grants /\ tool' \in Tools
        /\ guide' \in {"unknown", "ready", "unready"}
        /\ chores' \in 0..MaxChores
    <3>1. CASE Recheck
      BY <3>1 DEF Recheck, settings
    <3>2. CASE SaveToggle \/ ChangeGrant \/ DeployTool
      <4>1. /\ chores' \in 0..MaxChores
            /\ UNCHANGED <<running, file, saves, progress, purpose, again, payload, mark>>
        BY <3>2 DEF SaveToggle, ChangeGrant, DeployTool, Chore
      <4>2. /\ toggle' \in BOOLEAN /\ tenant' \in Grants /\ tool' \in Tools
            /\ guide' \in {"unknown", "ready", "unready"}
        BY <3>2 DEF SaveToggle, ChangeGrant, DeployTool
      <4> QED  BY <4>1, <4>2
    <3> QED  BY <1>1, <3>1, <3>2
  <2> QED
    BY <2>1 DEF progress, ReadingsAreTrue, FailureIsNamed, RefreshedOnlyWhenChanged,
                WorkspaceIsRemoved
<1>2. CASE RestartWorker
  <2>1. running' \in [toggle : BOOLEAN, tool : Tools]
    BY <1>2 DEF RestartWorker, Snapshot
  <2> QED
    BY <1>2, <2>1 DEF RestartWorker, settings, Outcomes, ReadingsAreTrue, FailureIsNamed,
                      RefreshedOnlyWhenChanged, WorkspaceIsRemoved
<1>3. CASE SaveDocument
  <2>1. saves' \in 0..MaxSaves /\ saves' = saves + 1
    BY <1>3 DEF SaveDocument
  <2>2. file.text \in 0..MaxSaves
    BY DEF Payloads
  <2>3. file' \in Payloads
    BY <1>3, <2>1, <2>2 DEF SaveDocument, Payloads
  <2> QED
    BY <1>3, <2>1, <2>3 DEF SaveDocument, settings, progress, ReadingsAreTrue,
       FailureIsNamed, RefreshedOnlyWhenChanged, WorkspaceIsRemoved
<1> QED  BY <1>1, <1>2, <1>3

\* From the download to the bytes.
LEMMA ToolKeepsReading ==
    ASSUME ReadingInv,
           \/ Download \/ Detect \/ AcquireToken \/ StartTool \/ ToolSucceeds
           \/ ToolFails \/ ReadOutput
    PROVE  ReadingInv'
<1> USE DEF ReadingInv, DecryptTypeOK, Outcomes, world, settings, Ends, GoesTo,
            ReadingsAreTrue, FailureIsNamed, RefreshedOnlyWhenChanged, WorkspaceIsRemoved
<1>1. CASE Download
  BY <1>1 DEF Download
<1>2. CASE Detect
  BY <1>2 DEF Detect, Recognised
<1>3. CASE AcquireToken
  BY <1>3 DEF AcquireToken
<1>4. CASE StartTool
  BY <1>4 DEF StartTool
<1>5. CASE ToolSucceeds
  <2>1. /\ payload' \in Payloads /\ payload'.text = payload.text
        /\ ~payload'.protected
    BY <1>5 DEF ToolSucceeds, SuffixIsKnown, Payloads
  <2> QED  BY <1>5, <2>1 DEF ToolSucceeds
<1>6. CASE ToolFails
  BY <1>6 DEF ToolFails
<1>7. CASE ReadOutput
  BY <1>7 DEF ReadOutput
<1> QED  BY <1>1, <1>2, <1>3, <1>4, <1>5, <1>6, <1>7

\* What is done with the bytes.
LEMMA BytesKeepReading ==
    ASSUME ReadingInv, Reject \/ Compare \/ EnterProcess \/ Analyse
    PROVE  ReadingInv'
<1>0. 0 \in 0..MaxSaves
  BY ChoresAssumption
<1> USE DEF ReadingInv, DecryptTypeOK, Outcomes, world, settings, Ends, GoesTo,
            ReadingsAreTrue, FailureIsNamed, RefreshedOnlyWhenChanged, WorkspaceIsRemoved
<1>1. CASE Reject
  BY <1>1 DEF Reject
<1>2. CASE Compare
  <2>1. mark # {Fingerprint(payload)} => \A m \in mark : m.text # payload.text
    <3> SUFFICES ASSUME NEW m \in mark, m.text = payload.text
                 PROVE  mark = {Fingerprint(payload)}
      OBVIOUS
    <3>1. mark = {m} /\ m \in Marks
      OBVIOUS
    <3>2. m = Fingerprint(payload)
      BY <3>1 DEF Marks, Fingerprint
    <3> QED  BY <3>1, <3>2
  <2> QED  BY <1>2, <2>1 DEF Compare
<1>3. CASE EnterProcess
  BY <1>3 DEF EnterProcess
<1>4. CASE Analyse
  <2>1. Fingerprint(payload) \in Marks /\ Fingerprint(payload).nonce = 0
    <3>1. payload.text \in 0..MaxSaves
      BY DEF Payloads
    <3> QED  BY <1>0, <3>1 DEF Fingerprint, Marks
  <2> QED  BY <1>4, <2>1 DEF Analyse
<1> QED  BY <1>1, <1>2, <1>3, <1>4

LEMMA ReadingGoesOn ==
    ASSUME ReadingInv, [DecryptNext]_decryptVars
    PROVE  ReadingInv'
<1>1. CASE UNCHANGED decryptVars
  BY <1>1 DEF ReadingInv, DecryptTypeOK, ReadingsAreTrue, FailureIsNamed,
     RefreshedOnlyWhenChanged, WorkspaceIsRemoved, decryptVars, world, settings, progress
<1> QED
  BY <1>1, WorldKeepsReading, ToolKeepsReading, BytesKeepReading DEF DecryptNext

\* A protected source ends decrypted or with an error of the decryption, a new
\* analysis is asked for only where the plaintext is another one, and no plaintext
\* is left where no tool is at work (mip_sdk.py, worker.reconcile_once).
THEOREM ReadingsHold == DecryptSpec => []ReadingsAreTrue
<1>1. ReadingInv => ReadingsAreTrue
  BY DEF ReadingInv
<1> QED  BY <1>1, ReadingStart, ReadingGoesOn, PTL DEF DecryptSpec

LEMMA GuideGoesOn ==
    ASSUME GuideInv, [DecryptNext]_decryptVars
    PROVE  GuideInv'
<1>1. ReadingInv'
  BY ReadingGoesOn DEF GuideInv
<1> USE DEF GuideInv, settings, world, progress, Ends, GoesTo, Chore
<1>2. ASSUME UNCHANGED <<guide, tool, tenant>>, reading' # "idle" => outcome' = ""
      PROVE  GuideInv'
  BY <1>1, <1>2
<1>3. CASE Recheck
  BY <1>1, <1>3 DEF Recheck, SeesSuperUser
<1>4. CASE SaveToggle \/ ChangeGrant \/ DeployTool
  BY <1>1, <1>4 DEF SaveToggle, ChangeGrant, DeployTool
<1>5. CASE RestartWorker \/ SaveDocument \/ UNCHANGED decryptVars
  BY <1>2, <1>5 DEF RestartWorker, SaveDocument, decryptVars
<1>6. CASE Download \/ Detect \/ AcquireToken \/ StartTool
  BY <1>2, <1>6 DEF Download, Detect, AcquireToken, StartTool
<1>7. CASE ToolSucceeds \/ ToolFails \/ ReadOutput
  BY <1>2, <1>7 DEF ToolSucceeds, ToolFails, ReadOutput
<1>8. CASE Reject \/ Compare \/ EnterProcess \/ Analyse
  BY <1>2, <1>8 DEF Reject, Compare, EnterProcess, Analyse
<1> QED
  BY <1>3, <1>4, <1>5, <1>6, <1>7, <1>8 DEF DecryptNext

\* Where the guide showed everything ready, nothing has changed since and the worker
\* runs with the tool of the guide, no reading ends for a missing right or setting
\* (mip_setup.py, mip_sdk.py).
THEOREM ReadyGuidesAreTrue == DecryptSpec => ReadyGuideIsTrue
<1>1. DecryptInit => GuideInv
  BY ReadingStart DEF GuideInv, DecryptInit
<1>2. GuideInv /\ [DecryptNext]_decryptVars
        => [guide = "ready" /\ running.tool = tool /\ reading # "idle"
              => outcome' \notin {"denied", "unset"}]_decryptVars
  <2> SUFFICES ASSUME GuideInv, DecryptNext, guide = "ready", running.tool = tool,
                      reading # "idle"
               PROVE  outcome' \notin {"denied", "unset"}
    BY DEF decryptVars
  <2>1. outcome = "" /\ tool # "unset" /\ tenant = "role"
    BY DEF GuideInv
  <2> USE <2>1 DEF settings, world, progress, Ends, GoesTo, Chore
  <2>2. CASE \/ SaveToggle \/ ChangeGrant \/ DeployTool \/ Recheck \/ RestartWorker
             \/ SaveDocument
    BY <2>2 DEF SaveToggle, ChangeGrant, DeployTool, Recheck, RestartWorker, SaveDocument
  <2>3. CASE Download \/ Detect \/ AcquireToken \/ StartTool
    BY <2>3 DEF Download, Detect, AcquireToken, StartTool
  <2>4. CASE ToolSucceeds \/ ToolFails \/ ReadOutput
    BY <2>4 DEF ToolSucceeds, ToolFails, ReadOutput
  <2>5. CASE Reject \/ Compare \/ EnterProcess \/ Analyse
    BY <2>5 DEF Reject, Compare, EnterProcess, Analyse
  <2> QED  BY <2>2, <2>3, <2>4, <2>5 DEF DecryptNext
<1> QED  BY <1>1, <1>2, GuideGoesOn, PTL DEF DecryptSpec, ReadyGuideIsTrue

-----------------------------------------------------------------------------
(* The pipeline. *)

LEMMA AnalysisStart == PipelineInit => PipelineInv
<1> SUFFICES ASSUME PipelineInit PROVE PipelineInv
  OBVIOUS
<1>1. task = [p \in Pages |-> "none"] /\ images = {} /\ collected = {}
  BY DEF PipelineInit
<1>2. seen \in [Pages -> SlidesOf("visual") \cup {Nothing}]
  BY DEF PipelineInit
<1>3. attempts \in [Pages -> 0..ValidationAttempts]
  <2>1. 0 \in 0..ValidationAttempts
    BY PagesAssumption
  <2> QED  BY <2>1 DEF PipelineInit
<1>4. PipelineTypeOK
  BY <1>1, <1>2, <1>3 DEF PipelineInit, PipelineTypeOK, TaskStates
<1> QED
  BY <1>1, <1>4 DEF PipelineInit, PipelineInv, PreparedInv, PoolInv, AnalysisIsTrue,
     EveryPageIsItsOwn, VisionOnlyAdds, UsageCountsEveryCall

\* The handler returns slides of their pages.
LEMMA PrepareKeeps ==
    ASSUME PipelineInv, Prepare
    PROVE  PipelineInv'
<1>1. /\ stage = "validating" /\ stage' = "guard"
      /\ images' \subseteq Pages /\ corrected' \in BOOLEAN
      /\ UNCHANGED <<lowTier, task, seen, attempts, calls, failing, collected, slides, usage>>
  BY DEF Prepare, PreparePptx, PrepareOffice, PrepareHwp, PreparePdf, ReadsSlides, Looks, poolVars,
         PipelineInv, PipelineTypeOK
<1>2. PreparedInv'
  <2>1. CASE Looks
    BY <2>1 DEF Looks, PreparedInv
  <2>2. ASSUME NEW shown, ReadsSlides(shown) PROVE PreparedInv'
    <3>1. PICK full \in BOOLEAN : semantic' = [p \in Pages |-> Slide("semantic", p, full)]
      BY <2>2 DEF ReadsSlides
    <3>2. \A p \in Pages : semantic'[p] = Slide("semantic", p, full)
      BY <3>1
    <3>3. semantic' \in [Pages -> SlidesOf("semantic")]
      BY <3>1 DEF SlidesOf
    <3> QED  BY <3>2, <3>3 DEF PreparedInv
  <2> QED
    BY <2>1, <2>2 DEF Prepare, PreparePptx, PrepareOffice, PrepareHwp, PreparePdf
<1>3. PipelineTypeOK' /\ PoolInv'
  BY <1>1 DEF PipelineInv, PipelineTypeOK, PoolInv
<1> QED
  BY <1>1, <1>2, <1>3
  DEF PipelineInv, AnalysisIsTrue, EveryPageIsItsOwn, VisionOnlyAdds, UsageCountsEveryCall

\* Semantic slides tell of their own pages only.
LEMMA SemanticSlides ==
    ASSUME NEW p \in Pages, NEW reader, NEW full \in BOOLEAN
    PROVE  /\ Slide(reader, p, full).facts # {}
           /\ \A fact \in Slide(reader, p, full).facts : fact[2] = p
           /\ Slide(reader, p, full).title # Nothing => Slide(reader, p, full).title[2] = p
<1>1. Slide(reader, p, full).facts = {<<reader, p>>, <<"both", p>>}
  BY DEF Slide
<1>2. <<reader, p>>[2] = p /\ <<"both", p>>[2] = p
  OBVIOUS
<1>3. Slide(reader, p, full).title = IF full THEN <<reader, p>> ELSE Nothing
  BY DEF Slide
<1>4. \A fact \in Slide(reader, p, full).facts : fact[2] = p
  <2> SUFFICES ASSUME NEW fact \in Slide(reader, p, full).facts
               PROVE  fact[2] = p
    OBVIOUS
  <2>1. fact = <<reader, p>> \/ fact = <<"both", p>>
    BY <1>1
  <2> QED  BY <2>1, <1>2
<1>5. Slide(reader, p, full).facts # {}
  <2>1. <<reader, p>> \in Slide(reader, p, full).facts
    BY <1>1
  <2> QED  BY <2>1
<1>6. Slide(reader, p, full).title # Nothing => Slide(reader, p, full).title[2] = p
  <2>1. CASE full
    <3>1. Slide(reader, p, full).title = <<reader, p>>
      BY <1>3, <2>1
    <3> QED  BY <3>1, <1>2
  <2>2. CASE ~full
    <3>1. Slide(reader, p, full).title = Nothing
      BY <1>3, <2>2
    <3> QED  BY <3>1
  <2> QED  BY <2>1, <2>2
<1> QED  BY <1>4, <1>5, <1>6

LEMMA InvalidKeeps ==
    ASSUME PipelineInv, Invalid
    PROVE  PipelineInv'
BY DEF PipelineInv, PipelineTypeOK, PreparedInv, PoolInv, AnalysisIsTrue, EveryPageIsItsOwn,
       VisionOnlyAdds, UsageCountsEveryCall, Running, Invalid, poolVars

LEMMA GuardKeeps ==
    ASSUME PipelineInv, Guard
    PROVE  PipelineInv'
<1>1. PipelineTypeOK' /\ PreparedInv' /\ PoolInv'
  BY DEF PipelineInv, PipelineTypeOK, PreparedInv, PoolInv, Guard, poolVars
<1>2. Running' = {}
  BY DEF PipelineInv, PoolInv, Guard, poolVars, Running
<1>3. UsageCountsEveryCall'
  BY <1>2 DEF PipelineInv, PoolInv, Guard, poolVars, UsageCountsEveryCall
<1>4. ASSUME stage' = "ready"
      PROVE  /\ slides' = semantic' /\ semantic' = semantic
             /\ \A p \in Pages : \E full \in BOOLEAN : semantic[p] = Slide("semantic", p, full)
  BY <1>4 DEF Guard, PipelineInv, PreparedInv, PipelineTypeOK
<1>5. EveryPageIsItsOwn' /\ VisionOnlyAdds'
  BY <1>4, SemanticSlides DEF EveryPageIsItsOwn, VisionOnlyAdds
<1> QED  BY <1>1, <1>3, <1>5 DEF PipelineInv, AnalysisIsTrue

\* The pool, while nothing else happens.
LEMMA PoolKeeps ==
    ASSUME PipelineInv,
           \/ Submit
           \/ \E p \in Pages : \/ StartTask(p) \/ AnswerValid(p) \/ AnswerInvalid(p)
                               \/ AnswerRefused(p) \/ RequestFails(p) \/ Collect(p)
    PROVE  PipelineInv'
<1> USE DEF PipelineInv, PoolInv, PipelineTypeOK
<1>1. CASE Submit
  <2>1. task' \in [Pages -> TaskStates]
    BY <1>1 DEF Submit, TaskStates
  <2> QED
    BY <1>1, <2>1 DEF Submit, PreparedInv, AnalysisIsTrue, EveryPageIsItsOwn,
       VisionOnlyAdds, UsageCountsEveryCall
<1>2. ASSUME NEW p \in Pages,
             \/ StartTask(p) \/ AnswerValid(p) \/ AnswerInvalid(p) \/ AnswerRefused(p)
             \/ RequestFails(p) \/ Collect(p)
      PROVE  /\ stage = "analysing"
             /\ UNCHANGED <<stage, semantic, images, corrected, lowTier, slides, usage>>
  <2>1. \/ task[p] \in {"queued", "running"}
        \/ Collect(p)
    BY <1>2 DEF StartTask, AnswerValid, AnswerInvalid, AnswerRefused, RequestFails, Answered
  <2>2. stage = "analysing"
    BY <2>1 DEF Collect
  <2> QED
    BY <1>2, <2>2 DEF StartTask, AnswerValid, AnswerInvalid, AnswerRefused, RequestFails,
       Answered, Collect
<1>3. ASSUME UNCHANGED <<stage, semantic, images, corrected, lowTier, slides, usage>>,
             stage = "analysing", PipelineTypeOK', PoolInv'
      PROVE  PipelineInv'
  BY <1>3 DEF PreparedInv, AnalysisIsTrue, EveryPageIsItsOwn, VisionOnlyAdds,
     UsageCountsEveryCall
<1>4. ASSUME NEW p \in Pages, StartTask(p) PROVE PipelineTypeOK' /\ PoolInv'
  BY <1>2, <1>4 DEF StartTask, TaskStates
<1>5. ASSUME NEW p \in Pages, AnswerValid(p) PROVE PipelineTypeOK' /\ PoolInv'
  <2>1. PICK full \in BOOLEAN : seen' = [seen EXCEPT ![p] = Slide("visual", p, full)]
    BY <1>5 DEF AnswerValid, IsAbout
  <2>2. Slide("visual", p, full) \in SlidesOf("visual")
    BY DEF SlidesOf
  <2>3. task' = [task EXCEPT ![p] = "done"] /\ task[p] = "running"
    BY <1>5 DEF AnswerValid, Answered
  <2>4. /\ attempts' \in [Pages -> 0..ValidationAttempts]
        /\ calls' \in Nat /\ collected' = collected /\ failing' = failing
    BY <1>5, PagesAssumption DEF AnswerValid, Answered
  <2>5. PipelineTypeOK'
    BY <1>2, <1>5, <2>1, <2>2, <2>3, <2>4 DEF TaskStates
  <2> QED  BY <1>2, <1>5, <2>1, <2>3, <2>4, <2>5
<1>6. ASSUME NEW p \in Pages, AnswerInvalid(p) \/ AnswerRefused(p)
      PROVE  PipelineTypeOK' /\ PoolInv'
  <2>1. PICK state \in {"running", "failed"} : task' = [task EXCEPT ![p] = state]
    BY <1>6 DEF AnswerInvalid, AnswerRefused
  <2>2. /\ attempts' \in [Pages -> 0..ValidationAttempts]
        /\ calls' \in Nat /\ collected' = collected /\ failing' = failing
        /\ task[p] = "running" /\ seen' = seen
    BY <1>6, PagesAssumption DEF AnswerInvalid, AnswerRefused, Answered
  <2> QED  BY <1>2, <1>6, <2>1, <2>2 DEF TaskStates
<1>7. ASSUME NEW p \in Pages, RequestFails(p) PROVE PipelineTypeOK' /\ PoolInv'
  BY <1>2, <1>7 DEF RequestFails, TaskStates
<1>8. ASSUME NEW p \in Pages, Collect(p) PROVE PipelineTypeOK' /\ PoolInv'
  BY <1>2, <1>8 DEF Collect, IsDone, TaskStates
<1> QED  BY <1>1, <1>2, <1>3, <1>4, <1>5, <1>6, <1>7, <1>8

LEMMA AnalysisOverKeeps ==
    ASSUME PipelineInv, AnalysisFails \/ AnalysisEnds
    PROVE  PipelineInv'
<1> USE DEF PipelineInv, PoolInv, PipelineTypeOK
<1>1. /\ \A p \in Pages : task[p] \notin {"queued", "running"}
      /\ stage = "analysing" /\ stage' \in {"merge", "failed"}
      /\ stage' = "merge" => collected = images
      /\ usage' = calls
      /\ UNCHANGED <<semantic, images, corrected, lowTier, poolVars, slides>>
  BY DEF AnalysisFails, AnalysisEnds, PoolIsOver, IsDone
<1>2. Running' = {}
  BY <1>1 DEF Running, poolVars
<1> QED
  BY <1>1, <1>2 DEF poolVars, PreparedInv, AnalysisIsTrue, EveryPageIsItsOwn, VisionOnlyAdds,
     UsageCountsEveryCall

\* The merge, page by page.
LEMMA MergeKeeps ==
    ASSUME PipelineInv, Merge
    PROVE  PipelineInv'
<1>1. /\ stage = "merge" /\ stage' = "ready" /\ collected = images
      /\ UNCHANGED <<semantic, images, corrected, lowTier, task, seen, attempts, calls,
                     failing, collected, usage>>
  BY DEF Merge, poolVars, PipelineInv, PoolInv
<1>2. \A p \in images : p \in Pages /\ \E full \in BOOLEAN : seen[p] = Slide("visual", p, full)
  BY <1>1 DEF PipelineInv, PoolInv, PipelineTypeOK
<1>3. ASSUME NEW p \in Pages
      PROVE  /\ slides'[p].facts # {}
             /\ \A fact \in slides'[p].facts : fact[2] = p
             /\ slides'[p].title # Nothing => slides'[p].title[2] = p
             /\ semantic # Nothing =>
                  /\ semantic[p].facts \subseteq slides'[p].facts
                  /\ semantic[p].title # Nothing => slides'[p].title = semantic[p].title
  <2>1. CASE semantic = Nothing
    <3>1. slides' = seen /\ p \in images
      BY <1>1, <2>1, PagesAssumption DEF Merge, PipelineInv, PreparedInv
    <3> QED  BY <1>2, <2>1, <3>1, SemanticSlides
  <2>2. CASE semantic # Nothing
    <3>1. PICK full \in BOOLEAN : semantic[p] = Slide("semantic", p, full)
      BY <1>1, <2>2 DEF PipelineInv, PreparedInv
    <3>2. slides'[p] = MergePage(p)
      BY <2>2 DEF Merge
    <3>3. CASE p \notin images
      BY <3>1, <3>2, <3>3, SemanticSlides DEF MergePage
    <3>4. CASE p \in images
      <4>1. PICK more \in BOOLEAN : seen[p] = Slide("visual", p, more)
        BY <1>2, <3>4
      <4>2. /\ slides'[p].facts = semantic[p].facts \cup seen[p].facts
            /\ slides'[p].title = FirstOf(semantic[p].title, seen[p].title)
        BY <3>2, <3>4 DEF MergePage, MergeSlide
      <4> QED
        BY <3>1, <4>1, <4>2, SemanticSlides DEF FirstOf
    <3> QED  BY <3>3, <3>4
  <2> QED  BY <2>1, <2>2
<1>4. EveryPageIsItsOwn' /\ VisionOnlyAdds'
  BY <1>1, <1>3 DEF EveryPageIsItsOwn, VisionOnlyAdds
<1>5. Running' = {}
  BY <1>1 DEF Running, PipelineInv, PoolInv
<1> QED
  BY <1>1, <1>4, <1>5 DEF PipelineInv, PipelineTypeOK, PreparedInv, PoolInv, AnalysisIsTrue,
     UsageCountsEveryCall

\* Every step of a run.
LEMMA PipelineGoesOn ==
    ASSUME PipelineInv, [PipelineStep]_pipelineVars
    PROVE  PipelineInv'
<1>1. CASE UNCHANGED pipelineVars
  BY <1>1 DEF pipelineVars, PipelineInv, PipelineTypeOK, PreparedInv, PoolInv,
     AnalysisIsTrue, EveryPageIsItsOwn, VisionOnlyAdds, UsageCountsEveryCall, Running
<1> QED
  BY <1>1, PrepareKeeps, InvalidKeeps, GuardKeeps, PoolKeeps, AnalysisOverKeeps, MergeKeeps
  DEF PipelineStep

\* What a run says of a page was read on it, nothing that the file said is lost, and
\* the tokens it reports are those of every request made for it, for any number of
\* pages, threads and attempts.
THEOREM AnalysesAreTrue == PipelineSpec => []AnalysisIsTrue
<1>1. PipelineInv /\ [PipelineStep]_pipelineVars => PipelineInv'
  BY PipelineGoesOn
<1>2. PipelineInv => AnalysisIsTrue
  BY DEF PipelineInv
<1> QED  BY <1>1, <1>2, AnalysisStart, PTL DEF PipelineSpec

\* There are no more attempts than pages and rounds of the validation.
LEMMA AskedIsFinite ==
    /\ IsFiniteSet(Asked)
    /\ Cardinality(Asked) <= PageCount * ValidationAttempts
<1>1. PageCount \in Nat /\ ValidationAttempts \in Nat
  BY PagesAssumption
<1>2. /\ IsFiniteSet(Pages) /\ Cardinality(Pages) = PageCount
      /\ IsFiniteSet(1..ValidationAttempts)
      /\ Cardinality(1..ValidationAttempts) = ValidationAttempts
  BY <1>1, FS_Interval DEF Pages
<1>3. /\ IsFiniteSet(Pages \X (1..ValidationAttempts))
      /\ Cardinality(Pages \X (1..ValidationAttempts)) = PageCount * ValidationAttempts
  BY <1>2, FS_Product
<1>4. Asked \in SUBSET (Pages \X (1..ValidationAttempts))
  BY DEF Asked
<1> QED  BY <1>3, <1>4, FS_Subset

\* Each request answered is one attempt more, of the page it was made for.
LEMMA AnswersAreCounted ==
    ASSUME PipelineInv, RequestsAreCounted, NEW p \in Pages, Answered(p)
    PROVE  RequestsAreCounted'
<1>1. attempts \in [Pages -> 0..ValidationAttempts] /\ ValidationAttempts \in Nat
  BY PagesAssumption DEF PipelineInv, PipelineTypeOK
<1>2. /\ attempts[p] < ValidationAttempts /\ calls' = calls + 1
      /\ attempts' = [attempts EXCEPT ![p] = @ + 1]
  BY DEF Answered
<1>3. Asked' = Asked \cup {<<p, attempts[p] + 1>>}
  <2>1. ASSUME NEW q \in Pages, NEW n \in 1..ValidationAttempts
        PROVE  n <= attempts'[q] <=> n <= attempts[q] \/ <<q, n>> = <<p, attempts[p] + 1>>
    BY <1>1, <1>2
  <2>2. attempts[p] + 1 \in 1..ValidationAttempts
    BY <1>1, <1>2
  <2> QED  BY <2>1, <2>2 DEF Asked
<1>4. <<p, attempts[p] + 1>> \notin Asked
  BY <1>1 DEF Asked
<1>5. IsFiniteSet(Asked)
  BY AskedIsFinite
<1>6. Cardinality(Asked') = Cardinality(Asked) + 1
  BY <1>3, <1>4, <1>5, FS_AddElement
<1> QED  BY <1>2, <1>6 DEF RequestsAreCounted

LEMMA CountStart == PipelineInit => RequestsAreCounted
<1> SUFFICES ASSUME PipelineInit PROVE RequestsAreCounted
  OBVIOUS
<1>1. Asked = {}
  BY DEF PipelineInit, Asked
<1> QED  BY <1>1, FS_EmptySet DEF PipelineInit, RequestsAreCounted

LEMMA CountGoesOn ==
    ASSUME PipelineInv, RequestsAreCounted, [PipelineStep]_pipelineVars
    PROVE  RequestsAreCounted'
<1>1. ASSUME UNCHANGED <<attempts, calls>> PROVE RequestsAreCounted'
  BY <1>1 DEF RequestsAreCounted, Asked
<1>2. ASSUME NEW p \in Pages, AnswerValid(p) \/ AnswerInvalid(p) \/ AnswerRefused(p)
      PROVE  RequestsAreCounted'
  BY <1>2, AnswersAreCounted DEF AnswerValid, AnswerInvalid, AnswerRefused
<1>3. ASSUME NEW p \in Pages, StartTask(p) \/ RequestFails(p) \/ Collect(p)
      PROVE  RequestsAreCounted'
  BY <1>1, <1>3 DEF StartTask, RequestFails, Collect
<1>4. CASE Prepare \/ Invalid \/ Guard \/ Submit \/ UNCHANGED pipelineVars
  BY <1>1, <1>4 DEF Prepare, Invalid, Guard, Submit, poolVars, pipelineVars
<1>5. CASE AnalysisFails \/ AnalysisEnds \/ Merge
  BY <1>1, <1>5 DEF AnalysisFails, AnalysisEnds, Merge, poolVars
<1> QED  BY <1>2, <1>3, <1>4, <1>5 DEF PipelineStep

LEMMA CountsAreBounded == RequestsAreCounted => RequestsAreBounded
BY AskedIsFinite DEF RequestsAreCounted, RequestsAreBounded

\* A run pays for no more requests than every attempt of every page, for any number
\* of pages, attempts and threads, and none is made that no page accounts for.
THEOREM RequestsBounded == PipelineSpec => [](RequestsAreCounted /\ RequestsAreBounded)
<1>1. PipelineInv /\ RequestsAreCounted /\ [PipelineStep]_pipelineVars
        => (PipelineInv /\ RequestsAreCounted)'
  BY PipelineGoesOn, CountGoesOn
<1> QED  BY <1>1, CountsAreBounded, AnalysisStart, CountStart, PTL DEF PipelineSpec

-----------------------------------------------------------------------------
(* The rendering validation. *)

LEMMA RenderStart == RenderInit => RenderInv
<1> SUFFICES ASSUME RenderInit PROVE RenderInv
  OBVIOUS
<1>1. RenderTypeOK
  <2>1. NoRows \in [Modes -> SUBSET Row]
    BY DEF NoRows
  <2>2. "controlled" \in Modes
    BY DEF Modes
  <2>3. loaded \in [Modes -> SUBSET Row] /\ saved \in [Modes -> SUBSET Row]
    BY <2>1 DEF RenderInit
  <2>4. /\ completed \in Nat /\ containers \in 0..(MaxKills + 1)
        /\ kills \in 0..MaxKills /\ leaks \in 0..MaxKills
    BY RenderAssumption DEF RenderInit
  <2>5. /\ place = "idle" /\ mode \in Modes /\ resumed \in BOOLEAN
        /\ rows \subseteq Row /\ submitted \subseteq Renderable /\ documents \subseteq Renderable
    BY <2>2 DEF RenderInit
  <2> QED  BY <2>3, <2>4, <2>5 DEF RenderTypeOK
<1>2. ProgressInv /\ PlaceInv /\ ContainerInv
  BY DEF RenderInit, ProgressInv, PlaceInv, ContainerInv, InRun, HasContainer
<1>3. ValidationIsTrue
  <2>1. \A k \in Modes : saved[k] = {}
    BY DEF RenderInit, NoRows
  <2> QED
    BY <2>1 DEF RenderInit, ValidationIsTrue, ResumedSweepKeepsSuccesses, OneRowEach, OneRow,
                FinishedIsSaved, ContainersAreStopped, InRun
<1> QED  BY <1>1, <1>2, <1>3 DEF RenderInv

\* A file that was cut off is not one of any rows.
LEMMA TornIsNoRows == Torn \notin [Modes -> SUBSET Row]
BY RenderAssumption DEF Modes, Row, RowStatuses

LEMMA SomeStatus == PossibleStatuses \subseteq RowStatuses
BY DEF PossibleStatuses, ControlledStatus, SweepStatus, RowStatuses

LEMMA RenderTyping ==
    ASSUME RenderTypeOK, ContainerInv, RenderNext
    PROVE  RenderTypeOK'
<1> USE RenderAssumption DEF RenderTypeOK, Goto, Forget, Mishap, Stops, Leaks
<1>0. NoRows \in [Modes -> SUBSET Row]
  BY DEF NoRows
<1>1. CASE StartValidation
  BY <1>0, <1>1 DEF StartValidation
<1>2. CASE LoadResults
  <2>1. saved \in [Modes -> SUBSET Row]
    BY <1>2 DEF LoadResults
  <2>2. Retained \subseteq Row
    BY <2>1 DEF Retained, Successes
  <2> QED  BY <1>2, <2>1, <2>2 DEF LoadResults, Pending
<1>3. CASE LoadFails
  BY <1>0, <1>3 DEF LoadFails
<1>4. CASE StartContainer
  BY <1>4 DEF StartContainer, ContainerInv, HasContainer
<1>5. CASE StartFails
  BY <1>0, <1>5 DEF StartFails, ContainerInv, HasContainer
<1>6. CASE VersionShown
  BY <1>6 DEF VersionShown
<1>7. CASE VersionFails
  BY <1>0, <1>7 DEF VersionFails, ContainerInv, HasContainer
<1>8. ASSUME NEW d \in Renderable, ControlledDocument(d) \/ FutureDone(d)
      PROVE  RenderTypeOK'
  <2>1. rows' \subseteq Row
    BY <1>8, SomeStatus DEF ControlledDocument, FutureDone, Row
  <2>2. place' \in {"overwrite", "work"} /\ completed' \in Nat
    BY <1>8 DEF ControlledDocument, FutureDone
  <2> QED  BY <1>8, <2>1, <2>2 DEF ControlledDocument, FutureDone
<1>9. CASE FutureRaises
  BY <1>9 DEF FutureRaises
<1>10. CASE OverwriteRows
  BY <1>10 DEF OverwriteRows
<1>11. CASE WriteRows
  <2>1. saved' \in [Modes -> SUBSET Row]
    BY <1>11 DEF WriteRows
  <2>2. place' \in {"finished", "stop", "work"}
    BY <1>11 DEF WriteRows
  <2> QED  BY <1>11, <2>1, <2>2 DEF WriteRows
<1>12. CASE StopContainer
  BY <1>0, <1>12 DEF StopContainer, ContainerInv, HasContainer
<1>13. CASE Kill
  BY <1>0, <1>13 DEF Kill, ContainerInv
<1> QED
  BY <1>1, <1>2, <1>3, <1>4, <1>5, <1>6, <1>7, <1>8, <1>9, <1>10, <1>11, <1>12, <1>13
  DEF RenderNext, RenderStep

LEMMA ContainersCounted ==
    ASSUME RenderTypeOK, ContainerInv, RenderNext
    PROVE  ContainerInv' /\ ContainersAreStopped'
<1> USE RenderAssumption
    DEF RenderTypeOK, ContainerInv, HasContainer, Goto, Mishap, Stops, Leaks,
        ContainersAreStopped, InRun
<1>1. CASE StartValidation \/ LoadResults \/ LoadFails
  BY <1>1 DEF StartValidation, LoadResults, LoadFails
<1>2. CASE StartContainer \/ StartFails
  BY <1>2 DEF StartContainer, StartFails
<1>3. CASE VersionShown \/ VersionFails
  BY <1>3 DEF VersionShown, VersionFails
<1>4. ASSUME NEW d \in Renderable, ControlledDocument(d) \/ FutureDone(d)
      PROVE  ContainerInv' /\ ContainersAreStopped'
  <2>1. place' \in {"overwrite", "work"} /\ place = "work"
    BY <1>4 DEF ControlledDocument, FutureDone
  <2>2. UNCHANGED <<containers, leaks, kills>>
    BY <1>4 DEF ControlledDocument, FutureDone
  <2> QED  BY <2>1, <2>2
<1>5. CASE FutureRaises
  BY <1>5 DEF FutureRaises
<1>6. CASE OverwriteRows
  BY <1>6 DEF OverwriteRows
<1>7. CASE WriteRows
  BY <1>7 DEF WriteRows
<1>8. CASE StopContainer
  BY <1>8 DEF StopContainer
<1>9. CASE Kill
  BY <1>9 DEF Kill
<1> QED
  BY <1>1, <1>2, <1>3, <1>4, <1>5, <1>6, <1>7, <1>8, <1>9 DEF RenderNext, RenderStep

\* What a document that is done adds to the rows.
LEMMA DocumentsAdvance ==
    ASSUME RenderTypeOK, ProgressInv, NEW d \in Renderable,
           ControlledDocument(d) \/ FutureDone(d)
    PROVE  ProgressInv'
<1>1. InRun /\ d \in submitted
  BY DEF ControlledDocument, FutureDone, InRun
<1>2. PICK status \in PossibleStatuses : rows' = rows \cup {[doc |-> d, status |-> status]}
  BY DEF ControlledDocument, FutureDone
<1>3. submitted' = submitted \ {d} /\ UNCHANGED <<mode, resumed, documents, loaded>>
  BY DEF ControlledDocument, FutureDone
<1>4. DocsOf(rows') = DocsOf(rows) \cup {d}
  <2>1. [doc |-> d, status |-> status].doc = d
    OBVIOUS
  <2>2. \A e : e \in DocsOf(rows') <=> e \in DocsOf(rows) \cup {d}
    BY <1>2, <2>1 DEF DocsOf
  <2> QED  BY <2>2
<1>5. d \notin DocsOf(rows)
  BY <1>1 DEF ProgressInv
<1>6. OneRow(rows')
  <2> SUFFICES ASSUME NEW r \in rows', NEW s \in rows', r.doc = s.doc
               PROVE  r = s
    BY DEF OneRow
  <2>1. \A t \in rows : t.doc # d
    BY <1>5 DEF DocsOf
  <2>2. CASE r \in rows /\ s \in rows
    BY <1>1, <2>2 DEF ProgressInv, OneRow
  <2> QED  BY <1>2, <2>1, <2>2
<1>7. DocsOf(rows') \cap submitted' = {} /\ DocsOf(rows') \cup submitted' = documents
  BY <1>1, <1>3, <1>4, <1>5 DEF ProgressInv
<1>8. Existing' = Existing
  BY <1>3 DEF Existing
<1> QED
  BY <1>1, <1>2, <1>3, <1>6, <1>7, <1>8 DEF ProgressInv

LEMMA ProgressHolds ==
    ASSUME RenderInv, RenderNext
    PROVE  ProgressInv'
<1> USE DEF Goto
<1>1. CASE StartValidation \/ LoadFails \/ StartFails \/ VersionFails \/ Kill
  BY <1>1 DEF StartValidation, LoadFails, StartFails, VersionFails, Kill, ProgressInv, InRun
<1>2. CASE LoadResults
  <2>1. /\ saved \in [Modes -> SUBSET Row] /\ saved # Torn
        /\ loaded' = saved /\ rows' = Retained /\ submitted' = documents \ DocsOf(Retained)
        /\ UNCHANGED <<mode, resumed, documents>>
    BY <1>2 DEF LoadResults, Pending, RenderInv, RenderTypeOK
  <2>2. \A k \in Modes : OneRow(saved[k])
    BY <2>1 DEF RenderInv, ValidationIsTrue, OneRowEach
  <2>3. mode \in Modes
    BY DEF RenderInv, RenderTypeOK
  <2>4. Retained \subseteq saved[mode]
    BY DEF Retained, Successes
  <2>5. OneRow(Retained)
    BY <2>2, <2>3, <2>4 DEF OneRow
  <2>6. DocsOf(Retained) \subseteq documents
    BY DEF DocsOf, Retained
  <2>7. Existing' = Successes(saved[mode])
    BY <2>1 DEF Existing
  <2>8. mode' = "sweep" /\ resumed' => {e \in Existing' : e.doc \in documents'} \subseteq rows'
    BY <2>1, <2>7 DEF Retained
  <2> QED
    BY <2>1, <2>2, <2>5, <2>6, <2>8 DEF ProgressInv
<1>3. CASE StopContainer
  BY <1>3 DEF StopContainer, ProgressInv, InRun, RenderInv, Existing
<1>4. CASE StartContainer \/ VersionShown \/ FutureRaises \/ OverwriteRows \/ WriteRows
  <2>1. InRun /\ UNCHANGED <<mode, resumed, documents, loaded, rows, submitted>>
    BY <1>4 DEF StartContainer, VersionShown, FutureRaises, OverwriteRows, WriteRows, InRun
  <2> QED  BY <2>1 DEF RenderInv, ProgressInv, Existing
<1>5. ASSUME NEW d \in Renderable, ControlledDocument(d) \/ FutureDone(d)
      PROVE  ProgressInv'
  BY <1>5, DocumentsAdvance DEF RenderInv
<1> QED
  BY <1>1, <1>2, <1>3, <1>4, <1>5 DEF RenderNext, RenderStep

\* Where the file is written, it is whole again.
LEMMA WrittenRows ==
    ASSUME RenderInv, WriteRows
    PROVE  /\ saved' \in [Modes -> SUBSET Row] /\ saved' # Torn
           /\ saved'[mode] = rows
           /\ \A k \in Modes : OneRow(saved'[k])
           /\ submitted = {} => documents \subseteq DocsOf(saved'[mode])
<1>1. mode \in Modes /\ rows \subseteq Row /\ loaded \in [Modes -> SUBSET Row]
  BY DEF RenderInv, RenderTypeOK
<1>2. saved' = [k \in Modes |-> IF k = mode THEN rows ELSE loaded[k]]
  BY DEF WriteRows
<1>3. saved' \in [Modes -> SUBSET Row] /\ saved'[mode] = rows
  BY <1>1, <1>2
<1>4. /\ OneRow(rows) /\ \A k \in Modes : OneRow(loaded[k])
      /\ DocsOf(rows) \cup submitted = documents
  BY DEF RenderInv, ProgressInv, InRun, WriteRows
<1> QED
  BY <1>1, <1>2, <1>3, <1>4, TornIsNoRows

LEMMA PlacesHold ==
    ASSUME RenderInv, RenderNext
    PROVE  PlaceInv'
<1> USE DEF PlaceInv, Goto
<1>1. CASE StartValidation \/ LoadFails \/ StartFails \/ VersionFails \/ FutureRaises \/ Kill
  BY <1>1 DEF StartValidation, LoadFails, StartFails, VersionFails, FutureRaises, Kill
<1>2. CASE LoadResults
  BY <1>2 DEF LoadResults, Retained
<1>3. CASE StartContainer
  BY <1>3 DEF StartContainer, RenderInv
<1>4. CASE VersionShown
  <2>1. /\ place' = IF submitted = {} THEN "stop" ELSE "work"
        /\ UNCHANGED <<mode, documents, rows, saved, submitted>>
        /\ saved = loaded /\ (mode = "controlled" => rows = {})
    BY <1>4 DEF VersionShown, RenderInv
  <2>2. loaded \in [Modes -> SUBSET Row] /\ mode \in Modes
    BY DEF RenderInv, RenderTypeOK
  <2>3. ASSUME submitted = {}, mode = "controlled"
        PROVE  saved # Torn /\ documents \subseteq DocsOf(saved[mode])
    <3>1. documents = {}
      BY <1>4, <2>1, <2>3 DEF RenderInv, ProgressInv, InRun, VersionShown, DocsOf
    <3> QED  BY <2>1, <2>2, <3>1, TornIsNoRows
  <2> QED  BY <2>1, <2>3
<1>5. ASSUME NEW d \in Renderable, ControlledDocument(d) \/ FutureDone(d)
      PROVE  PlaceInv'
  <2>1. place' \in {"overwrite", "work"}
    BY <1>5 DEF ControlledDocument, FutureDone
  <2> QED  BY <2>1
<1>6. CASE OverwriteRows
  BY <1>6 DEF OverwriteRows, RenderInv
<1>7. CASE WriteRows
  <2>1. /\ place' = "stop" => submitted = {}
        /\ place' \in {"finished", "stop", "work"}
        /\ UNCHANGED <<mode, documents, submitted>>
    BY <1>7 DEF WriteRows
  <2> QED  BY <1>7, <2>1, WrittenRows
<1>8. CASE StopContainer
  BY <1>8 DEF StopContainer, RenderInv
<1> QED
  BY <1>1, <1>2, <1>3, <1>4, <1>5, <1>6, <1>7, <1>8 DEF RenderNext, RenderStep

LEMMA SavedHolds ==
    ASSUME RenderInv, RenderNext
    PROVE  ResumedSweepKeepsSuccesses' /\ OneRowEach' /\ FinishedIsSaved'
<1> USE DEF Goto
<1>0. ResumedSweepKeepsSuccesses /\ OneRowEach /\ FinishedIsSaved
  BY DEF RenderInv, ValidationIsTrue
<1>1. CASE StartValidation \/ LoadFails \/ StartFails \/ VersionFails \/ Kill
  <2>1. place' \in {"idle", "load"} /\ saved' = saved
    BY <1>1 DEF StartValidation, LoadFails, StartFails, VersionFails, Kill
  <2> QED  BY <1>0, <2>1 DEF ResumedSweepKeepsSuccesses, OneRowEach, FinishedIsSaved, InRun
<1>2. CASE LoadResults
  <2>1. place' = "start" /\ loaded' = saved /\ UNCHANGED <<saved, mode, documents>>
    BY <1>2 DEF LoadResults
  <2>2. mode = "sweep" => Existing' \subseteq saved'["sweep"]
    BY <2>1 DEF Existing, Successes
  <2> QED
    BY <1>0, <2>1, <2>2 DEF ResumedSweepKeepsSuccesses, OneRowEach, FinishedIsSaved
<1>3. CASE OverwriteRows
  <2>1. saved' = Torn /\ place' \in {"final_write", "write"}
    BY <1>3 DEF OverwriteRows
  <2> QED  BY <2>1 DEF ResumedSweepKeepsSuccesses, OneRowEach, FinishedIsSaved
<1>4. CASE WriteRows
  <2>1. /\ place' = "finished" => submitted = {}
        /\ UNCHANGED <<mode, resumed, documents, loaded, rows>>
    BY <1>4 DEF WriteRows, RenderInv, PlaceInv
  <2>2. mode = "sweep" /\ resumed => {e \in Existing : e.doc \in documents} \subseteq rows
    BY <1>4 DEF WriteRows, RenderInv, ProgressInv, InRun
  <2> QED
    BY <1>4, <2>1, <2>2, WrittenRows
    DEF ResumedSweepKeepsSuccesses, OneRowEach, FinishedIsSaved, Existing
<1>5. CASE StopContainer
  <2>1. /\ saved' = saved /\ UNCHANGED <<mode, resumed, documents>>
        /\ place' = "finished" => place = "stop" /\ mode = "controlled"
        /\ place' \in {"final", "finished", "idle"}
        /\ place' = "final" => loaded' = loaded /\ place = "stop"
    BY <1>5 DEF StopContainer, RenderInv, RenderTypeOK, Modes
  <2>2. FinishedIsSaved'
    BY <2>1 DEF FinishedIsSaved, RenderInv, PlaceInv
  <2>3. ResumedSweepKeepsSuccesses'
    BY <1>0, <2>1 DEF ResumedSweepKeepsSuccesses, InRun, Existing
  <2> QED  BY <1>0, <2>1, <2>2, <2>3 DEF OneRowEach
<1>6. CASE StartContainer \/ VersionShown \/ FutureRaises
  <2>1. InRun /\ place' # "finished" /\ UNCHANGED <<mode, resumed, documents, loaded, saved>>
    BY <1>6 DEF StartContainer, VersionShown, FutureRaises, InRun
  <2> QED
    BY <1>0, <2>1 DEF ResumedSweepKeepsSuccesses, OneRowEach, FinishedIsSaved, Existing
<1>7. ASSUME NEW d \in Renderable, ControlledDocument(d) \/ FutureDone(d)
      PROVE  ResumedSweepKeepsSuccesses' /\ OneRowEach' /\ FinishedIsSaved'
  <2>1. place' # "finished" /\ InRun /\ UNCHANGED <<mode, resumed, documents, loaded, saved>>
    BY <1>7 DEF ControlledDocument, FutureDone, InRun
  <2> QED
    BY <1>0, <2>1 DEF ResumedSweepKeepsSuccesses, OneRowEach, FinishedIsSaved, Existing
<1> QED
  BY <1>1, <1>2, <1>3, <1>4, <1>5, <1>6, <1>7 DEF RenderNext, RenderStep

\* Every step of a validation.
LEMMA RenderGoesOn ==
    ASSUME RenderInv, [RenderNext]_renderVars
    PROVE  RenderInv'
<1>1. CASE RenderNext
  <2>1. RenderTypeOK'
    BY <1>1, RenderTyping DEF RenderInv
  <2>2. ContainerInv' /\ ContainersAreStopped'
    BY <1>1, ContainersCounted DEF RenderInv
  <2> QED
    BY <1>1, <2>1, <2>2, ProgressHolds, PlacesHold, SavedHolds DEF RenderInv, ValidationIsTrue
<1>2. CASE UNCHANGED renderVars
  BY <1>2 DEF renderVars, RenderInv, RenderTypeOK, ProgressInv, PlaceInv, ContainerInv,
     ValidationIsTrue, ResumedSweepKeepsSuccesses, OneRowEach, FinishedIsSaved,
     ContainersAreStopped, InRun, HasContainer, Existing
<1> QED  BY <1>1, <1>2

\* Whatever runs were killed before and whatever documents --limit left them: a resumed
\* sweep keeps every success it found of its documents, a document has one row, a
\* validation that finished has a row of each of its documents, and only kills and
\* commands of Docker that fail leave containers.
THEOREM ValidationsAreTrue == RenderSpec => []ValidationIsTrue
<1>1. RenderInv /\ [RenderNext]_renderVars => RenderInv'
  BY RenderGoesOn
<1>2. RenderInv => ValidationIsTrue
  BY DEF RenderInv
<1> QED  BY RenderStart, <1>1, <1>2, PTL DEF RenderSpec

-----------------------------------------------------------------------------
(* The collector of samples. *)

LEMMA TreeTyping ==
    ASSUME TypeOK
    PROVE  /\ Entries \subseteq Paths
           /\ \A p \in Entries : /\ Entry(p).blob \in Blobs /\ Entry(p).blob # None
                                 /\ Entry(p).lfs \in Blobs \cup {None}
BY TreeAssumption DEF TypeOK, Entries, Entry

LEMMA ArchiveTyping ==
    ASSUME ArchiveInv, Next
    PROVE  TypeOK'
<1> USE DEF Fault, Stop, Places
<1>0. TypeOK /\ MaxFaults \in Nat
  BY TreeAssumption DEF ArchiveInv
<1>1. CASE Start
  <2>1. todo' \subseteq Paths
    BY <1>0, <1>1, TreeTyping DEF Start
  <2>2. records' \subseteq Record
    BY <1>0, <1>1 DEF Start, Cached, Previous, TypeOK
  <2> QED  BY <1>0, <1>1, <2>1, <2>2 DEF Start, TypeOK
<1>2. CASE HasArchive \/ DownloadArchive \/ DownloadIsCutOff \/ OpenArchive \/ UnlinkArchive
  BY <1>0, <1>2 DEF HasArchive, DownloadArchive, DownloadIsCutOff, OpenArchive, UnlinkArchive,
                    TypeOK
<1>3. ASSUME NEW p \in Paths, Extract(p) PROVE TypeOK'
  <2>1. p \in Entries
    BY <1>3 DEF ArchiveInv, EntriesInv, Extract
  <2>2. Entry(p).blob \in Blobs
    BY <1>0, <2>1, TreeTyping
  <2> QED  BY <1>0, <1>3, <2>2 DEF Extract, TypeOK
<1>4. CASE DownloadObject
  <2>1. current \in Entries /\ Entry(current).lfs # None
    BY <1>4 DEF ArchiveInv, EntriesInv, DownloadObject
  <2>2. Entry(current).lfs \in Blobs
    BY <1>0, <2>1, TreeTyping
  <2> QED  BY <1>0, <1>4, <2>2 DEF DownloadObject, TypeOK
<1>5. CASE ObjectIsWrong
  <2>1. disk' \in [Paths -> Blobs \cup {Damaged, None}]
    BY <1>0, <1>5 DEF ObjectIsWrong, TypeOK
  <2>2. /\ pc' = "idle" /\ todo' = {} /\ current' = None /\ records' = {}
        /\ faults' \in 0..MaxFaults /\ UNCHANGED <<commit, zips, unique, manifest>>
    BY <1>0, <1>5 DEF ObjectIsWrong, TypeOK
  <2> QED  BY <1>0, <2>1, <2>2 DEF TypeOK
<1>6. CASE RecordFile
  <2>1. current \in Entries
    BY <1>6 DEF ArchiveInv, EntriesInv, RecordFile
  <2>2. /\ current \in Paths
        /\ Entry(current).blob \in Blobs /\ Entry(current).lfs \in Blobs \cup {None}
    BY <1>0, <2>1, TreeTyping
  <2>3. disk[current] \in Blobs
    BY <1>6, <2>2 DEF ArchiveInv, EntriesInv, RecordFile, Expected, Entry
  <2>4. [commit |-> commit, path |-> current, blob |-> Entry(current).blob,
         sha |-> disk[current]] \in Record
    BY <1>0, <2>2, <2>3 DEF Record, TypeOK
  <2>5. records' \subseteq Record
    BY <1>0, <1>6, <2>4 DEF RecordFile, TypeOK
  <2> QED  BY <1>0, <1>6, <2>5 DEF RecordFile, TypeOK
<1>7. CASE ClearUnique \/ OverwriteManifest \/ WriteManifest \/ Die
  BY <1>0, <1>7 DEF ClearUnique, OverwriteManifest, WriteManifest, Die, TypeOK
<1>8. CASE LinkUnique
  <2>1. \A r \in records : disk[r.path] = r.sha /\ r.sha \in Blobs \cup {Damaged}
    BY <1>0 DEF ArchiveInv, RecordsInv, TypeOK, Record
  <2> QED  BY <1>0, <1>8, <2>1 DEF LinkUnique, TypeOK
<1>9. ASSUME NEW p \in Paths, DamageFile(p) PROVE TypeOK'
  BY <1>0, <1>9 DEF DamageFile, TypeOK
<1>10. CASE PinNextCommit
  BY <1>0, <1>10 DEF PinNextCommit, TypeOK
<1> QED
  BY <1>1, <1>2, <1>3, <1>4, <1>5, <1>6, <1>7, <1>8, <1>9, <1>10 DEF Next, CollectorStep

\* A run that ends leaves no records behind.
LEMMA StoppedRun ==
    ASSUME Stop
    PROVE  RecordsInv' /\ EntriesInv' /\ ViewInv'
BY DEF Stop, RecordsInv, EntriesInv, ViewInv

\* What a run takes over from the manifest is true of its commit and on disk.
LEMMA CachedIsTrue ==
    ASSUME ArchiveInv, NEW p \in Entries, NEW r \in Cached(p)
    PROVE  /\ r.commit = commit /\ r.path = p
           /\ r.sha = Expected(commit, p) /\ disk[p] = r.sha
<1>1. manifest # None /\ r \in manifest
  BY DEF Cached, Previous
<1>2. r.sha = Expected(r.commit, r.path)
  BY <1>1 DEF ArchiveInv, ManifestIsTrue
<1> QED  BY <1>2 DEF Cached

LEMMA StartKeeps ==
    ASSUME ArchiveInv, Start
    PROVE  RecordsInv' /\ EntriesInv' /\ ViewInv'
<1>1. /\ records' = UNION {Cached(p) : p \in Entries}
      /\ todo' = {p \in Entries : Cached(p) = {}}
      /\ pc' = IF todo' = {} THEN "clear" ELSE "archive"
      /\ UNCHANGED <<commit, disk>>
  BY DEF Start
<1>2. Entries' = Entries /\ \A p : Expected(commit, p)' = Expected(commit, p)
  BY <1>1 DEF Entries, Expected
<1>3. RecordsInv'
  <2> SUFFICES ASSUME NEW r \in records'
               PROVE  /\ r.commit = commit /\ r.path \in Entries \ todo'
                      /\ r.sha = Expected(commit, r.path) /\ disk[r.path] = r.sha
    BY <1>1, <1>2 DEF RecordsInv
  <2>1. PICK p \in Entries : r \in Cached(p)
    BY <1>1
  <2> QED  BY <1>1, <2>1, CachedIsTrue
<1>4. Entries = todo' \cup PathsOf(records')
  <2>1. ASSUME NEW p \in Entries, p \notin todo' PROVE p \in PathsOf(records')
    <3>1. PICK r : r \in Cached(p)
      BY <1>1, <2>1
    <3>2. r \in records' /\ r.path = p
      BY <1>1, <3>1 DEF Cached
    <3> QED  BY <3>2 DEF PathsOf
  <2>2. ASSUME NEW r \in records' PROVE r.path \in Entries
    BY <1>2, <1>3, <2>2 DEF RecordsInv
  <2> QED  BY <1>1, <2>1, <2>2 DEF PathsOf
<1> QED  BY <1>1, <1>2, <1>3, <1>4 DEF EntriesInv, ViewInv, PathsOf

\* A member, or an object, replaces the file of an entry that is not recorded.
LEMMA ExtractKeeps ==
    ASSUME ArchiveInv, NEW p \in Paths, Extract(p)
    PROVE  RecordsInv' /\ EntriesInv' /\ ViewInv'
<1>1. /\ pc = "extract" /\ p \in todo /\ current' = p
      /\ disk' = [disk EXCEPT ![p] = Entry(p).blob]
      /\ pc' = IF Entry(p).lfs = None THEN "record" ELSE "lfs"
      /\ UNCHANGED <<commit, todo, records>>
  BY DEF Extract
<1>2. Entries' = Entries /\ \A q : Entry(q)' = Entry(q) /\ Expected(commit, q)' = Expected(commit, q)
  BY <1>1 DEF Entries, Entry, Expected
<1>3. disk \in [Paths -> Blobs \cup {Damaged, None}]
  BY DEF ArchiveInv, TypeOK
<1>4. disk'[p] = Entry(p).blob /\ \A q \in Paths : q # p => disk'[q] = disk[q]
  BY <1>1, <1>3
<1>5. \A r \in records : r.path \in Paths /\ r.path # p
  BY <1>1, TreeTyping DEF ArchiveInv, RecordsInv
<1>6. RecordsInv'
  BY <1>1, <1>2, <1>4, <1>5 DEF ArchiveInv, RecordsInv
<1>7. pc' = "record" => disk'[p] = Expected(commit, p)
  BY <1>1, <1>4 DEF Expected, Entry
<1>8. EntriesInv'
  BY <1>1, <1>2, <1>7 DEF ArchiveInv, EntriesInv
<1> QED  BY <1>1, <1>6, <1>8 DEF ViewInv

LEMMA ObjectKeeps ==
    ASSUME ArchiveInv, DownloadObject
    PROVE  RecordsInv' /\ EntriesInv' /\ ViewInv'
<1>1. /\ pc = "lfs" /\ pc' = "record"
      /\ disk' = [disk EXCEPT ![current] = Entry(current).lfs]
      /\ UNCHANGED <<commit, todo, current, records>>
  BY DEF DownloadObject
<1>2. current \in todo /\ current \in Paths /\ Entry(current).lfs # None
  BY <1>1, TreeTyping DEF ArchiveInv, EntriesInv
<1>3. Entries' = Entries /\ \A q : Expected(commit, q)' = Expected(commit, q)
  BY <1>1 DEF Entries, Expected
<1>4. disk \in [Paths -> Blobs \cup {Damaged, None}]
  BY DEF ArchiveInv, TypeOK
<1>5. /\ disk'[current] = Entry(current).lfs
      /\ \A q \in Paths : q # current => disk'[q] = disk[q]
  BY <1>1, <1>2, <1>4
<1>6. \A r \in records : r.path \in Paths /\ r.path # current
  BY <1>2, TreeTyping DEF ArchiveInv, RecordsInv
<1>7. RecordsInv'
  BY <1>1, <1>3, <1>5, <1>6 DEF ArchiveInv, RecordsInv
<1>8. disk'[current] = Expected(commit, current)
  BY <1>2, <1>5 DEF Expected, Entry
<1>9. EntriesInv'
  BY <1>1, <1>2, <1>3, <1>8 DEF ArchiveInv, EntriesInv
<1> QED  BY <1>1, <1>7, <1>9 DEF ViewInv

LEMMA RecordKeeps ==
    ASSUME ArchiveInv, RecordFile
    PROVE  RecordsInv' /\ EntriesInv' /\ ViewInv'
<1> DEFINE new == [commit |-> commit, path |-> current, blob |-> Entry(current).blob,
                   sha |-> disk[current]]
<1>1. /\ pc = "record" /\ records' = records \cup {new} /\ todo' = todo \ {current}
      /\ pc' = IF todo' = {} THEN "unlink" ELSE "extract"
      /\ UNCHANGED <<commit, disk>>
  BY DEF RecordFile
<1>2. /\ current \in todo /\ disk[current] = Expected(commit, current)
      /\ Entries = todo \cup PathsOf(records)
  BY <1>1 DEF ArchiveInv, EntriesInv
<1>3. Entries' = Entries /\ \A q : Expected(commit, q)' = Expected(commit, q)
  BY <1>1 DEF Entries, Expected
<1>4. new.commit = commit /\ new.path = current /\ new.sha = disk[current]
  OBVIOUS
<1> HIDE DEF new
<1>5. RecordsInv'
  BY <1>1, <1>2, <1>3, <1>4 DEF ArchiveInv, RecordsInv
<1>6. \A e : e \in PathsOf(records') <=> e \in PathsOf(records) \/ e = current
  BY <1>1, <1>4 DEF PathsOf
<1>7. EntriesInv'
  BY <1>1, <1>2, <1>3, <1>6 DEF EntriesInv
<1> QED  BY <1>1, <1>5, <1>7 DEF ViewInv

LEMMA LinkKeeps ==
    ASSUME ArchiveInv, LinkUnique
    PROVE  RecordsInv' /\ EntriesInv' /\ ViewInv'
<1>1. /\ pc = "link" /\ pc' = "overwrite" /\ unique' = {disk[r.path] : r \in records}
      /\ UNCHANGED <<commit, todo, current, records, disk>>
  BY DEF LinkUnique
<1>2. todo = {} /\ Entries = PathsOf(records)
  BY <1>1 DEF ArchiveInv, EntriesInv
<1>3. Entries' = Entries /\ \A q : Expected(commit, q)' = Expected(commit, q)
  BY <1>1 DEF Entries, Expected
<1>4. \A r \in records : disk[r.path] = Expected(commit, r.path)
  BY DEF ArchiveInv, RecordsInv
<1>5. unique' = {Expected(commit, p) : p \in Entries}
  BY <1>1, <1>2, <1>4 DEF PathsOf
<1> QED  BY <1>1, <1>2, <1>3, <1>5 DEF ArchiveInv, RecordsInv, EntriesInv, ViewInv

\* Nothing of the records is touched.
LEMMA OthersKeep ==
    ASSUME ArchiveInv,
           HasArchive \/ DownloadArchive \/ DownloadIsCutOff \/ OpenArchive \/ UnlinkArchive
             \/ ClearUnique \/ OverwriteManifest \/ WriteManifest
    PROVE  RecordsInv' /\ EntriesInv' /\ ViewInv'
<1>1. CASE OpenArchive /\ Stop
  BY <1>1, StoppedRun
<1>2. CASE ~(OpenArchive /\ Stop)
  <2>1. /\ UNCHANGED <<commit, todo, current, records, disk>>
        /\ pc \notin {"idle", "lfs", "record"} /\ pc' \notin {"idle", "lfs", "record"}
        /\ pc' \in {"unlink", "clear", "link", "overwrite", "write", "finished"} =>
             pc \in {"unlink", "clear", "link", "overwrite", "write", "finished"}
        /\ pc' \in {"overwrite", "write", "finished"} =>
             pc \in {"overwrite", "write", "finished"} /\ UNCHANGED unique
        /\ pc' = "finished" => manifest' = records
    BY <1>2 DEF HasArchive, DownloadArchive, DownloadIsCutOff, OpenArchive, UnlinkArchive,
                ClearUnique, OverwriteManifest, WriteManifest
  <2>2. Entries' = Entries /\ \A q : Expected(commit, q)' = Expected(commit, q)
    BY <2>1 DEF Entries, Expected
  <2>3. RecordsInv'
    BY <2>1, <2>2 DEF ArchiveInv, RecordsInv
  <2>4. EntriesInv'
    BY <2>1, <2>2 DEF ArchiveInv, EntriesInv
  <2>5. ViewInv'
    BY <2>1, <2>2 DEF ArchiveInv, ViewInv
  <2> QED  BY <2>3, <2>4, <2>5
<1> QED  BY <1>1, <1>2

\* The manifest is written once, from the records.
LEMMA ManifestKeeps ==
    ASSUME ArchiveInv, Next
    PROVE  ManifestIsTrue'
<1>1. \/ UNCHANGED manifest
      \/ manifest' = None
      \/ WriteManifest
  BY DEF Next, CollectorStep, Start, HasArchive, DownloadArchive, DownloadIsCutOff, OpenArchive,
         Extract, DownloadObject, ObjectIsWrong, RecordFile, UnlinkArchive, ClearUnique,
         LinkUnique, OverwriteManifest, Die, DamageFile, PinNextCommit
<1>2. CASE UNCHANGED manifest
  BY <1>2 DEF ArchiveInv, ManifestIsTrue, Expected
<1>3. CASE manifest' = None
  BY <1>3 DEF ManifestIsTrue
<1>4. CASE WriteManifest
  <2>1. manifest' = records
    BY <1>4 DEF WriteManifest
  <2>2. \A r \in records : /\ r.path \in DOMAIN Tree[r.commit]
                           /\ r.sha = Expected(r.commit, r.path)
    BY DEF ArchiveInv, RecordsInv, Entries
  <2> QED  BY <2>1, <2>2 DEF ManifestIsTrue, Expected
<1> QED  BY <1>1, <1>2, <1>3, <1>4

LEMMA FinishedRun ==
    ASSUME ArchiveInv
    PROVE  FinishedIsComplete
<1> SUFFICES ASSUME pc = "finished"
             PROVE  /\ \A p \in Entries : disk[p] = Expected(commit, p)
                    /\ {r.path : r \in manifest} = Entries
                    /\ unique = {Expected(commit, p) : p \in Entries}
  BY DEF FinishedIsComplete
<1>1. Entries = PathsOf(records) /\ manifest = records
  BY DEF ArchiveInv, EntriesInv, ViewInv
<1>2. \A r \in records : disk[r.path] = Expected(commit, r.path)
  BY DEF ArchiveInv, RecordsInv
<1>3. \A p \in Entries : \E r \in records : r.path = p
  BY <1>1 DEF PathsOf
<1>4. unique = {Expected(commit, p) : p \in Entries}
  BY DEF ArchiveInv, ViewInv
<1> QED  BY <1>1, <1>2, <1>3, <1>4 DEF PathsOf

\* Every step of the collector, and what happens to its files.
LEMMA ArchiveGoesOn ==
    ASSUME ArchiveInv, [Next]_vars
    PROVE  ArchiveInv'
<1>1. CASE Next
  <2>1. RecordsInv' /\ EntriesInv' /\ ViewInv'
    <3>1. CASE ObjectIsWrong \/ Die \/ PinNextCommit \/ \E p \in Paths : DamageFile(p)
      BY <3>1, StoppedRun DEF ObjectIsWrong, Die, PinNextCommit, DamageFile
    <3> QED
      BY <1>1, <3>1, StartKeeps, ExtractKeeps, ObjectKeeps, RecordKeeps, LinkKeeps, OthersKeep
      DEF Next, CollectorStep
  <2> QED  BY <1>1, <2>1, ArchiveTyping, ManifestKeeps DEF ArchiveInv
<1>2. CASE UNCHANGED vars
  BY <1>2 DEF vars, ArchiveInv, TypeOK, RecordsInv, EntriesInv, ViewInv, ManifestIsTrue,
     Entries, Entry, Expected
<1> QED  BY <1>1, <1>2

LEMMA ArchiveStart == Init => ArchiveInv
<1> SUFFICES ASSUME Init PROVE ArchiveInv
  OBVIOUS
<1>1. TypeOK
  BY TreeAssumption DEF Init, TypeOK, Places
<1>2. RecordsInv /\ EntriesInv /\ ViewInv /\ ManifestIsTrue
  BY DEF Init, RecordsInv, EntriesInv, ViewInv, ManifestIsTrue
<1> QED  BY <1>1, <1>2 DEF ArchiveInv

\* The manifest tells the truth and a finished run is complete, for any history of
\* commits and whatever earlier runs, crashes and damaged files left behind.
THEOREM ArchivesAreTrue == Spec => []ArchiveIsTrue
<1>1. Init => ArchiveInv
  BY ArchiveStart
<1>2. ArchiveInv /\ [Next]_vars => ArchiveInv'
  BY ArchiveGoesOn
<1>3. ArchiveInv => ArchiveIsTrue
  BY FinishedRun DEF ArchiveInv, ArchiveIsTrue
<1> QED  BY <1>1, <1>2, <1>3, PTL DEF Spec

-----------------------------------------------------------------------------
(* The status page. *)

LEMMA WebStart == WebInit => WebInv
<1> SUFFICES ASSUME WebInit PROVE WebInv
  OBVIOUS
<1>1. Empty \in Sessions /\ Empty.flow \notin Tabs
  BY TabsAssumption DEF Empty, Sessions
<1>2. WebTypeOK
  <2>1. tab \in [Tabs -> [at : TabSpots, to : Tabs \cup {Nobody}, terminal : BOOLEAN]]
    BY DEF WebInit, TabSpots
  <2>2. sent \in [Tabs -> [kind : Requests, session : Sessions]]
    BY <1>1 DEF WebInit, Requests
  <2>3. /\ cookie = Empty /\ ran = FALSE
        /\ expiries = 0 /\ refusals = 0 /\ overlaps = 0
    BY DEF WebInit
  <2>4. 0 \in 0..MaxExpiries /\ 0 \in 0..MaxRefusals /\ 0 \in 0..MaxOverlaps
    BY TabsAssumption
  <2> QED  BY <1>1, <2>1, <2>2, <2>3, <2>4 DEF WebTypeOK
<1> QED
  BY <1>1, <1>2 DEF WebInit, WebInv, HeadsRight, NoCall

\* A flow heads for its page as long as its tab waits for it.
LEMMA HeadingKept ==
    ASSUME NEW t \in Tabs, \A u \in Tabs \ {t} : tab'[u] = tab[u],
           \/ tab'[t].at \notin {"entra", "callback"}
           \/ tab[t].at \in {"entra", "callback"} /\ tab'[t].to = tab[t].to,
           NEW session, HeadsRight(session, tab)
    PROVE  HeadsRight(session, tab')
BY DEF HeadsRight

\* What a response leaves in the browser and under way.
LEMMA ResponseKeeps ==
    ASSUME WebInv, NEW t \in Tabs, NEW session \in Sessions, HeadsRight(session, tab),
           Respond(t, session),
           tab' \in [Tabs -> [at : TabSpots, to : Tabs \cup {Nobody}, terminal : BOOLEAN]],
           \A u \in Tabs \ {t} : tab'[u] = tab[u],
           \/ tab'[t].at \notin {"entra", "callback"}
           \/ tab[t].at \in {"entra", "callback"} /\ tab'[t].to = tab[t].to,
           UNCHANGED <<ran, expiries, overlaps>>, refusals' \in 0..MaxRefusals
    PROVE  WebInv'
<1>1. Empty \in Sessions /\ Empty.flow \notin Tabs
  BY TabsAssumption DEF Empty, Sessions
<1>2. /\ cookie' \in {cookie, session}
      /\ sent' = [sent EXCEPT ![t] = [kind |-> NoCall, session |-> Empty]]
  BY DEF Respond
<1>3. WebTypeOK'
  BY <1>1, <1>2 DEF WebInv, WebTypeOK, Requests
<1>4. HeadsRight(cookie', tab')
  BY <1>2, HeadingKept DEF WebInv
<1>5. ASSUME NEW u \in Tabs
      PROVE  /\ HeadsRight(sent'[u].session, tab')
             /\ sent'[u].kind = "callback" => tab'[u].at = "callback"
  <2>1. CASE u = t
    BY <1>1, <1>2, <2>1 DEF HeadsRight, WebInv, WebTypeOK, NoCall
  <2>2. CASE u # t
    <3>1. sent'[u] = sent[u]
      BY <1>2, <2>2 DEF WebInv, WebTypeOK
    <3> QED  BY <2>2, <3>1, HeadingKept DEF WebInv
  <2> QED  BY <2>1, <2>2
<1> QED  BY <1>3, <1>4, <1>5 DEF WebInv

LEMMA BrowserKeeps ==
    ASSUME WebInv, NEW t \in Tabs, Send(t) \/ Retry(t) \/ SignIn(t)
    PROVE  WebInv'
<1> USE TabsAssumption DEF WebInv, WebTypeOK
<1>1. CASE Send(t)
  <2>1. /\ sent' = [sent EXCEPT ![t] = [kind |-> RequestOf(t), session |-> cookie]]
        /\ UNCHANGED <<cookie, tab, ran, expiries, refusals>>
        /\ overlaps' \in 0..MaxOverlaps
    BY <1>1 DEF Send
  <2>2. RequestOf(t) \in Requests
    BY DEF RequestOf, Requests, NoCall
  <2>3. RequestOf(t) = "callback" => tab[t].at = "callback"
    BY DEF RequestOf, NoCall
  <2>4. WebTypeOK'
    BY <2>1, <2>2
  <2>5. ASSUME NEW u \in Tabs
        PROVE  /\ HeadsRight(sent'[u].session, tab')
               /\ sent'[u].kind = "callback" => tab'[u].at = "callback"
    <3>1. CASE u = t
      BY <2>1, <2>3, <3>1
    <3>2. CASE u # t
      BY <2>1, <3>2
    <3> QED  BY <3>1, <3>2
  <2> QED  BY <2>1, <2>4, <2>5
<1>2. CASE Retry(t)
  <2>1. /\ \/ tab' = [tab EXCEPT ![t].at = "link", ![t].to = t]
           \/ tab' = [tab EXCEPT ![t].at = "login"]
        /\ UNCHANGED <<cookie, sent, ran, expiries, refusals, overlaps>>
        /\ sent[t].kind = NoCall
    BY <1>2 DEF Retry, Quiet
  <2>2. WebTypeOK' /\ \A u \in Tabs \ {t} : tab'[u] = tab[u]
    BY <2>1 DEF TabSpots
  <2>3. tab'[t].at \notin {"entra", "callback"}
    BY <2>1
  <2>4. \A session : HeadsRight(session, tab) => HeadsRight(session, tab')
    BY <2>2, <2>3, HeadingKept
  <2> QED  BY <2>1, <2>2, <2>4 DEF NoCall
<1>3. CASE SignIn(t)
  <2>1. /\ tab' = [tab EXCEPT ![t].at = "callback"] /\ tab[t].at = "entra"
        /\ UNCHANGED <<cookie, sent, ran, expiries, refusals, overlaps>>
    BY <1>3 DEF SignIn, Moves
  <2>2. /\ WebTypeOK' /\ \A u \in Tabs \ {t} : tab'[u] = tab[u]
        /\ tab'[t].at = "callback" /\ tab'[t].to = tab[t].to
    BY <2>1 DEF TabSpots
  <2>3. \A session : HeadsRight(session, tab) => HeadsRight(session, tab')
    BY <2>1, <2>2, HeadingKept
  <2> QED  BY <2>1, <2>2, <2>3
<1> QED  BY <1>1, <1>2, <1>3

LEMMA PagesKeep ==
    ASSUME WebInv, NEW t \in Tabs,
           \/ AnswerPage(t) \/ AnswerPoll(t) \/ AnswerIndex(t) \/ LoginFails(t)
           \/ AnswerLogin(t) /\ SkipsLogin(sent[t].session)
    PROVE  WebInv'
<1>1. /\ Respond(t, sent[t].session)
      /\ UNCHANGED <<ran, expiries, overlaps>> /\ refusals' \in 0..MaxRefusals
  BY TabsAssumption
  DEF AnswerPage, AnswerPoll, AnswerIndex, LoginFails, AnswerLogin, WebInv, WebTypeOK
<1>2. /\ tab' \in [Tabs -> [at : TabSpots, to : Tabs \cup {Nobody}, terminal : BOOLEAN]]
      /\ \A u \in Tabs \ {t} : tab'[u] = tab[u]
      /\ \/ tab'[t].at \notin {"entra", "callback"}
         \/ tab[t].at \in {"entra", "callback"} /\ tab'[t].to = tab[t].to
  <2> USE DEF TabSpots, WebInv, WebTypeOK
  <2>1. CASE AnswerPage(t)
    BY <2>1 DEF AnswerPage
  <2>2. CASE AnswerPoll(t)
    BY <2>2 DEF AnswerPoll
  <2>3. CASE AnswerIndex(t) \/ LoginFails(t) \/ (AnswerLogin(t) /\ SkipsLogin(sent[t].session))
    BY <2>3 DEF AnswerIndex, LoginFails, AnswerLogin, Moves
  <2> QED  BY <2>1, <2>2, <2>3
<1>3. sent[t].session \in Sessions /\ HeadsRight(sent[t].session, tab)
  BY DEF WebInv, WebTypeOK
<1> QED  BY <1>1, <1>2, <1>3, ResponseKeeps

\* A flow that is begun replaces an older one of its tab everywhere.
LEMMA FlowKeeps ==
    ASSUME WebInv, NEW t \in Tabs, BeginFlow(t),
           UNCHANGED <<ran, expiries, refusals, overlaps>>
    PROVE  WebInv'
<1> USE TabsAssumption
<1>1. /\ tab' = [tab EXCEPT ![t].at = "entra"]
      /\ cookie' = [sent[t].session EXCEPT !.flow = t, !.next = tab[t].to]
      /\ sent' = [other \in Tabs |->
                    IF other = t THEN [kind |-> NoCall, session |-> Empty]
                                 ELSE [sent[other] EXCEPT !.session = Outdated(@, t)]]
  BY DEF BeginFlow, Moves, NextOf
<1>2. Empty \in Sessions /\ Empty.flow \notin Tabs
  BY DEF Empty, Sessions
<1>3. /\ tab' \in [Tabs -> [at : TabSpots, to : Tabs \cup {Nobody}, terminal : BOOLEAN]]
      /\ \A u \in Tabs \ {t} : tab'[u] = tab[u]
      /\ tab'[t].to = tab[t].to
  BY <1>1 DEF TabSpots, WebInv, WebTypeOK
<1>4. cookie' \in Sessions /\ cookie'.flow = t /\ cookie'.next = tab[t].to
  BY <1>1 DEF Sessions, WebInv, WebTypeOK
<1>5. ASSUME NEW session \in Sessions
      PROVE  /\ Outdated(session, t) \in Sessions
             /\ Outdated(session, t).flow # t
             /\ Outdated(session, t).flow \in Tabs => Outdated(session, t) = session
  BY DEF Outdated, Sessions
<1>6. ASSUME NEW u \in Tabs
      PROVE  /\ sent'[u] \in [kind : Requests, session : Sessions]
             /\ HeadsRight(sent'[u].session, tab')
             /\ sent'[u].kind = "callback" => tab'[u].at = "callback"
  <2>1. CASE u = t
    BY <1>1, <1>2, <2>1 DEF HeadsRight, Requests, NoCall
  <2>2. CASE u # t
    <3>1. sent[u] \in [kind : Requests, session : Sessions]
      BY DEF WebInv, WebTypeOK
    <3>2. /\ sent'[u].session = Outdated(sent[u].session, t)
          /\ sent'[u].kind = sent[u].kind
          /\ sent'[u] \in [kind : Requests, session : Sessions]
      BY <1>1, <1>5, <2>2, <3>1
    <3>3. HeadsRight(sent[u].session, tab) /\ tab'[u] = tab[u]
      BY <1>3, <2>2 DEF WebInv
    <3>4. HeadsRight(sent'[u].session, tab')
      BY <1>3, <1>5, <3>1, <3>2, <3>3 DEF HeadsRight
    <3> QED  BY <3>2, <3>3, <3>4 DEF WebInv
  <2> QED  BY <2>1, <2>2
<1>7. HeadsRight(cookie', tab')
  BY <1>3, <1>4 DEF HeadsRight
<1>8. WebTypeOK'
  <2>1. sent' \in [Tabs -> [kind : Requests, session : Sessions]]
    BY <1>1, <1>6
  <2> QED  BY <1>3, <1>4, <2>1 DEF WebInv, WebTypeOK
<1> QED  BY <1>6, <1>7, <1>8 DEF WebInv

LEMMA CallbackKeeps ==
    ASSUME WebInv, NEW t \in Tabs, AnswerCallback(t) \/ CallbackFails(t)
    PROVE  WebInv'
<1> DEFINE answer == Popped(sent[t].session)
           signed == [answer EXCEPT !.user = "valid"]
<1>1. sent[t].session \in Sessions
  BY DEF WebInv, WebTypeOK
<1>2. /\ answer \in Sessions /\ answer.flow \notin Tabs
      /\ signed \in Sessions /\ signed.flow \notin Tabs
  BY <1>1, TabsAssumption DEF Popped, Sessions
<1>3. HeadsRight(answer, tab) /\ HeadsRight(signed, tab)
  BY <1>2 DEF HeadsRight
<1>4. sent[t].session.next \in Tabs \cup {Nobody}
  BY <1>1 DEF Sessions
<1>5. /\ \E spot \in {"link", "error"} :
            tab' = [tab EXCEPT ![t].at = spot, ![t].to = sent[t].session.next]
      /\ Respond(t, answer) \/ Respond(t, signed)
      /\ UNCHANGED <<ran, expiries, overlaps>> /\ refusals' \in 0..MaxRefusals
  BY TabsAssumption DEF AnswerCallback, CallbackFails, WebInv, WebTypeOK
<1>6. /\ tab' \in [Tabs -> [at : TabSpots, to : Tabs \cup {Nobody}, terminal : BOOLEAN]]
      /\ \A u \in Tabs \ {t} : tab'[u] = tab[u]
      /\ tab'[t].at \notin {"entra", "callback"}
  <2>1. PICK spot \in {"link", "error"} :
          tab' = [tab EXCEPT ![t].at = spot, ![t].to = sent[t].session.next]
    BY <1>5
  <2>2. tab \in [Tabs -> [at : TabSpots, to : Tabs \cup {Nobody}, terminal : BOOLEAN]]
    BY DEF WebInv, WebTypeOK
  <2>3. spot \in TabSpots
    BY DEF TabSpots
  <2>4. tab'[t] = [at |-> spot, to |-> sent[t].session.next, terminal |-> tab[t].terminal]
    BY <2>1, <2>2
  <2>5. tab' \in [Tabs -> [at : TabSpots, to : Tabs \cup {Nobody}, terminal : BOOLEAN]]
    BY <1>4, <2>1, <2>2, <2>3, <2>4
  <2> QED  BY <2>1, <2>2, <2>4, <2>5
<1> HIDE DEF answer, signed
<1> QED  BY <1>2, <1>3, <1>5, <1>6, ResponseKeeps

LEMMA AgeKeeps ==
    ASSUME WebInv, Expire
    PROVE  WebInv'
<1>1. ASSUME NEW session \in Sessions
      PROVE  /\ Aged(session) \in Sessions
             /\ Aged(session).flow = session.flow /\ Aged(session).next = session.next
  BY DEF Aged, Sessions
<1>2. /\ cookie \in Sessions
      /\ \A t \in Tabs : sent[t] \in [kind : Requests, session : Sessions]
  BY DEF WebInv, WebTypeOK
<1>3. ASSUME NEW t \in Tabs
      PROVE  /\ sent'[t] \in [kind : Requests, session : Sessions]
             /\ sent'[t].kind = sent[t].kind
             /\ sent'[t].session = Aged(sent[t].session)
  BY <1>1, <1>2 DEF Expire
<1>4. HeadsRight(cookie', tab') /\ \A t \in Tabs : HeadsRight(sent'[t].session, tab')
  BY <1>1, <1>2, <1>3 DEF Expire, HeadsRight, WebInv
<1>5. WebTypeOK'
  <2>1. sent' \in [Tabs -> [kind : Requests, session : Sessions]]
    BY <1>3 DEF Expire
  <2> QED  BY <1>1, <1>2, <2>1, TabsAssumption DEF Expire, WebInv, WebTypeOK
<1>6. tab' = tab
  BY DEF Expire
<1> QED  BY <1>3, <1>4, <1>5, <1>6 DEF WebInv

\* Every step of a tab.
LEMMA WebGoesOn ==
    ASSUME WebInv, [WebNext]_webVars
    PROVE  WebInv'
<1>1. CASE RunEnds \/ UNCHANGED webVars
  BY <1>1 DEF RunEnds, webVars, WebInv, WebTypeOK, HeadsRight
<1>2. CASE Expire
  BY <1>2, AgeKeeps
<1>3. ASSUME NEW t \in Tabs, TabStep(t) PROVE WebInv'
  <2>1. CASE AnswerLogin(t) /\ ~SkipsLogin(sent[t].session)
    BY <2>1, FlowKeeps DEF AnswerLogin
  <2>2. CASE ~(AnswerLogin(t) /\ ~SkipsLogin(sent[t].session))
    BY <1>3, <2>2, BrowserKeeps, PagesKeep, CallbackKeeps DEF TabStep
  <2> QED  BY <2>1, <2>2
<1> QED  BY <1>1, <1>2, <1>3 DEF WebNext

\* A sign-in that succeeds returns its tab to the page it was begun for, whatever
\* other tabs sign in meanwhile, for any number of tabs (auth_sso.py).
THEOREM SignInsReturn == WebSpec => SignInReturnsToItsPage
<1>1. WebInv /\ [WebNext]_webVars => WebInv'
  BY WebGoesOn
<1>2. WebInv /\ [WebNext]_webVars
        => [\A t \in Tabs :
              sent[t].kind = "callback" /\ tab'[t].at = "link"
                => tab'[t].to = tab[t].to]_webVars
  <2> SUFFICES ASSUME WebInv, WebNext, NEW t \in Tabs,
                      sent[t].kind = "callback", tab'[t].at = "link"
               PROVE  tab'[t].to = tab[t].to
    BY DEF webVars
  <2>1. tab[t].at = "callback" /\ tab \in [Tabs -> [at : TabSpots, to : Tabs \cup {Nobody},
                                                   terminal : BOOLEAN]]
    BY DEF WebInv, WebTypeOK
  <2>2. CASE tab' = tab
    BY <2>1, <2>2
  <2>3. ASSUME NEW u \in Tabs, TabStep(u) PROVE tab'[t].to = tab[t].to
    <3>1. CASE u # t
      <4>1. \A v \in Tabs \ {u} : tab'[v] = tab[v]
        BY <2>1, <2>3 DEF TabStep, Send, Retry, SignIn, AnswerPage, AnswerPoll, AnswerIndex,
           AnswerLogin, BeginFlow, LoginFails, AnswerCallback, CallbackFails, Moves
      <4> QED  BY <3>1, <4>1
    <3>2. CASE AnswerCallback(t)
      <4>1. sent[t].session.next = tab[t].to
        BY <2>1, <3>2 DEF AnswerCallback, WebInv, HeadsRight
      <4> QED  BY <2>1, <3>2, <4>1 DEF AnswerCallback
    <3>3. CASE CallbackFails(t)
      BY <2>1, <3>3 DEF CallbackFails
    <3>4. CASE Send(t) \/ SignIn(t)
      BY <2>1, <3>4 DEF Send, SignIn, Moves
    <3> QED
      BY <2>3, <3>1, <3>2, <3>3, <3>4 DEF TabStep, Retry, Quiet, NoCall, AnswerPage, AnswerPoll,
         AnswerIndex, AnswerLogin, LoginFails
  <2> QED
    BY <2>2, <2>3 DEF WebNext, Expire, RunEnds
<1> QED  BY <1>1, <1>2, WebStart, PTL DEF WebSpec, SignInReturnsToItsPage

-----------------------------------------------------------------------------
(* The pages of a Word document. *)

\* A collection of finite sets has a smallest one.
LEMMA SmallestSet ==
    ASSUME NEW S, IsFiniteSet(S), NEW F \in SUBSET (SUBSET S), F # {}
    PROVE  \E U \in F : \A V \in F : V \subseteq U => V = U
<1>1. IsWellFoundedOn(StrictSubsetOrdering(S), FiniteSubsetsOf(S))
  BY FS_StrictSubsetOrderingWellFounded
<1>2. F \subseteq FiniteSubsetsOf(S)
  BY FS_FiniteSubsetsOfFinite
<1>3. PICK U \in F : \A V \in F : ~(<<V, U>> \in StrictSubsetOrdering(S))
  BY <1>1, <1>2, WFMin
<1>4. ASSUME NEW V \in F, V \subseteq U, V # U PROVE FALSE
  BY <1>3, <1>4 DEF StrictSubsetOrdering
<1> QED  BY <1>4

LEMMA SmallestNumber ==
    ASSUME NEW T \in SUBSET Nat, T # {}
    PROVE  \E m \in T : \A k \in T : m <= k
<1>1. PICK n \in T : TRUE
  OBVIOUS
<1> DEFINE F == {0..k : k \in {j \in T : j <= n}}
<1>2. IsFiniteSet(0..n)
  BY FS_Interval
<1>3. F \in SUBSET (SUBSET (0..n)) /\ F # {}
  OBVIOUS
<1>4. PICK U \in F : \A V \in F : V \subseteq U => V = U
  <2>1. PICK I : I = 0..n
    OBVIOUS
  <2>2. IsFiniteSet(I) /\ F \in SUBSET (SUBSET I) /\ F # {}
    BY <1>2, <1>3, <2>1
  <2> HIDE DEF F
  <2> QED  BY <2>2, SmallestSet
<1>5. PICK m \in T : m <= n /\ U = 0..m
  BY <1>4
<1>6. ASSUME NEW k \in T, ~(m <= k) PROVE FALSE
  <2>1. k <= n /\ 0..k \subseteq 0..m
    BY <1>5, <1>6
  <2>2. 0..k = 0..m
    BY <1>4, <1>5, <2>1
  <2> QED  BY <1>6, <2>2
<1> QED  BY <1>6

\* The pages of a row of slots: PageOf and PageStart belong together.
LEMMA SlotsOfAPage ==
    ASSUME NEW slot \in Nat \ {0}
    PROVE  /\ PageOf(slot) \in Nat \ {0}
           /\ \A page \in Nat \ {0} : PageOf(slot) >= page <=> slot >= PageStart(page)
<1> DEFINE q == (slot - 1) \div PageSlots
<1>1. /\ q \in Nat /\ PageSlots * q <= slot - 1 /\ slot - 1 < PageSlots * (q + 1)
  BY BodyAssumption
<1>2. PageOf(slot) = q + 1
  BY DEF PageOf
<1> HIDE DEF q
<1>3. ASSUME NEW page \in Nat \ {0}
      PROVE  q + 1 >= page <=> slot >= (page - 1) * PageSlots + 1
  <2>1. CASE q + 1 >= page
    <3>1. (page - 1) * PageSlots <= PageSlots * q
      BY <1>1, <2>1, BodyAssumption
    <3>2. (page - 1) * PageSlots \in Nat /\ PageSlots * q \in Nat
      BY <1>1, BodyAssumption
    <3> QED  BY <1>1, <2>1, <3>1, <3>2
  <2>2. CASE q + 1 < page
    <3>1. (page - 1) * PageSlots >= PageSlots * (q + 1)
      BY <1>1, <2>2, BodyAssumption
    <3>2. (page - 1) * PageSlots \in Nat /\ PageSlots * (q + 1) \in Nat
      BY <1>1, BodyAssumption
    <3> QED  BY <1>1, <2>2, <3>1, <3>2
  <2> QED  BY <1>1, <2>1, <2>2
<1> QED  BY <1>1, <1>2, <1>3 DEF PageStart

LEMMA FunctionIsASeq ==
    ASSUME NEW S, NEW n \in Nat, NEW f \in [1..n -> S]
    PROVE  f \in Seq(S) /\ Len(f) = n
OBVIOUS

LEMMA SlotInRange ==
    ASSUME NEW pages \in 0..MaxPages, NEW slot \in 1..pages * PageSlots
    PROVE  slot \in 1..Last /\ PageOf(slot) \in 1..MaxPages
<1>1. pages * PageSlots \in Nat /\ Last \in Nat
  BY BodyAssumption DEF Last
<1>2. pages * PageSlots <= Last
  BY BodyAssumption DEF Last
<1>3. PageOf(slot) \in Nat \ {0} /\ ~(PageOf(slot) >= MaxPages + 1)
  <2>1. PageStart(MaxPages + 1) = Last + 1
    BY BodyAssumption DEF PageStart, Last
  <2> QED  BY <1>1, <1>2, <2>1, SlotsOfAPage, BodyAssumption
<1> QED  BY <1>1, <1>2, <1>3, BodyAssumption

\* The pages that breaks make: one more for every block that starts one.
LEMMA BreakPages ==
    ASSUME WordTypeOK, NEW i \in 1..Len(blocks)
    PROVE  PageOfBreaks(i) \in Nat \ {0} /\ PageOfBreaks(i) <= i
<1>1. i \in Nat \ {0}
  BY DEF WordTypeOK
<1>2. IsFiniteSet(2..i) /\ Cardinality(2..i) = i - 1
  BY <1>1, FS_Interval
<1>3. {j \in 2..i : blocks[j].startsPage} \in SUBSET (2..i)
  OBVIOUS
<1>4. /\ IsFiniteSet({j \in 2..i : blocks[j].startsPage})
      /\ Cardinality({j \in 2..i : blocks[j].startsPage}) <= i - 1
  BY <1>2, <1>3, FS_Subset
<1>5. Cardinality({j \in 2..i : blocks[j].startsPage}) \in Nat
  BY <1>4, FS_CardinalityType
<1> QED  BY <1>1, <1>4, <1>5 DEF PageOfBreaks

LEMMA WordStart == WordInit => WordInv
<1> SUFFICES ASSUME WordInit PROVE WordInv
  OBVIOUS
<1>1. WordTypeOK
  <2>1. 0 \in 0..MaxElements /\ 0 \in 0..MaxPages /\ 1 \in 1..MaxPages /\ 1 \in 1..Last + 1
    BY BodyAssumption DEF Last
  <2> QED  BY <2>1, EmptySeq DEF WordInit, WordTypeOK
<1>2. blocks = <<>> /\ drawn = <<>> /\ pageByBlock = <<>> /\ wordStage = "reading"
  BY DEF WordInit
<1>3. 1..Len(<<>>) = {} /\ 2..Len(<<>>) = {}
  BY EmptySeq
<1>4. BreaksInv /\ CursorInv
  <2>1. PageStart(1) = 1
    BY BodyAssumption DEF PageStart
  <2> QED  BY <1>2, <1>3, <2>1 DEF BreaksInv, CursorInv, WordInit
<1>5. WordPagesAreTrue
  BY <1>2, <1>3 DEF WordPagesAreTrue, BlocksAreWhereTheyAreDrawn, NeverFarBack,
     WhatTextCannotSayIsSeen, LowTierPagesAreFilled
<1>6. Len(blocks) <= elements
  BY <1>2, EmptySeq DEF WordInit
<1> QED  BY <1>1, <1>2, <1>4, <1>5, <1>6 DEF WordInv, WordInit

\* A block that comes to the end of the body.
LEMMA BlockExtends ==
    ASSUME WordInv, wordStage = "reading", NEW b \in [kind : Kinds, startsPage : BOOLEAN],
           blocks' = blocks \o <<b>>
    PROVE  /\ blocks' \in Seq([kind : Kinds, startsPage : BOOLEAN])
           /\ Len(blocks') = Len(blocks) + 1
           /\ BreaksInv'
<1> DEFINE Starts(i) == {j \in 2..i : blocks[j].startsPage}
<1>0. PICK n \in Nat : n = Len(blocks)
  BY DEF WordInv, WordTypeOK
<1>1. /\ n = Len(blocks) /\ n \in Nat
      /\ blocks \in Seq([kind : Kinds, startsPage : BOOLEAN]) 
      /\ <<b>> \in Seq([kind : Kinds, startsPage : BOOLEAN])
  BY <1>0 DEF WordInv, WordTypeOK
<1>2. /\ blocks' \in Seq([kind : Kinds, startsPage : BOOLEAN]) /\ Len(blocks') = n + 1
      /\ \A j \in 1..n : blocks'[j] = blocks[j]
      /\ blocks'[n + 1] = b
  BY <1>1, ConcatProperties
<1>3. ASSUME NEW i \in 1..n PROVE PageOfBreaks(i)' = PageOfBreaks(i)
  <2>1. {j \in 2..i : blocks'[j].startsPage} = Starts(i)
    BY <1>1, <1>2
  <2> QED  BY <2>1 DEF PageOfBreaks
<1>4. \A i \in 1..n : PageOfBreaks(i) \in Nat \ {0}
  BY <1>1, BreakPages DEF WordInv
<1>5. \/ n = 0 /\ PageOfBreaks(n + 1)' = 1
      \/ n # 0 /\ PageOfBreaks(n + 1)' \in {PageOfBreaks(n), PageOfBreaks(n) + 1}
  <2>1. CASE n = 0
    <3>1. {j \in 2..(n + 1) : blocks'[j].startsPage} = {}
      BY <2>1
    <3> QED  BY <2>1, <3>1, FS_EmptySet DEF PageOfBreaks
  <2>2. CASE n # 0
    <3>1. IsFiniteSet(Starts(n))
      <4>1. Starts(n) \in SUBSET (2..n) /\ IsFiniteSet(2..n)
        BY FS_Interval
      <4> QED  BY <4>1, FS_Subset
    <3>2. PICK after : after = {j \in 2..(n + 1) : blocks'[j].startsPage}
      OBVIOUS
    <3>3. after = Starts(n) \/ after = Starts(n) \cup {n + 1}
      BY <1>1, <1>2, <2>2, <3>2
    <3>4. Cardinality(after) = Cardinality(Starts(n))
          \/ Cardinality(after) = Cardinality(Starts(n)) + 1
      BY <3>1, <3>3, FS_AddElement
    <3>5. /\ PageOfBreaks(n) = 1 + Cardinality(Starts(n))
          /\ PageOfBreaks(n + 1)' = 1 + Cardinality(after)
      BY <3>2 DEF PageOfBreaks
    <3>6. Cardinality(Starts(n)) \in Nat
      BY <3>1, FS_CardinalityType
    <3>7. 1 + Cardinality(after) = 1 + Cardinality(Starts(n))
          \/ 1 + Cardinality(after) = (1 + Cardinality(Starts(n))) + 1
      <4> HIDE DEF Starts
      <4> QED  BY <3>4, <3>6
    <3>8. PageOfBreaks(n + 1)' = PageOfBreaks(n) \/ PageOfBreaks(n + 1)' = PageOfBreaks(n) + 1
      <4> HIDE DEF Starts
      <4> QED  BY <3>5, <3>7
    <3> QED  BY <2>2, <3>8
  <2> QED  BY <2>1, <2>2
<1>6. BreaksInv'
  <2> SUFFICES ASSUME NEW i \in 1..(n + 1), NEW page \in 1..(PageOfBreaks(i)')
               PROVE  \E j \in 1..i : PageOfBreaks(j)' = page
    BY <1>2 DEF BreaksInv
  <2>1. \A k \in 1..n : \A q \in 1..PageOfBreaks(k) : \E j \in 1..k : PageOfBreaks(j) = q
    BY <1>1 DEF WordInv, BreaksInv
  <2>2. CASE i # n + 1
    <3>1. i \in 1..n
      BY <1>1, <2>2
    <3>2. PICK j \in 1..i : PageOfBreaks(j) = page
      BY <1>3, <2>1, <3>1
    <3>3. j \in 1..n
      BY <1>1, <3>1
    <3> QED  BY <1>3, <3>2, <3>3
  <2>3. CASE i = n + 1
    <3>1. CASE page = PageOfBreaks(n + 1)'
      BY <1>1, <2>3, <3>1
    <3>2. CASE page # PageOfBreaks(n + 1)'
      <4>1. n # 0 /\ n \in 1..n /\ page \in 1..PageOfBreaks(n)
        <5>1. page \in 1..(PageOfBreaks(n + 1)') /\ page # PageOfBreaks(n + 1)'
          BY <2>3, <3>2
        <5>2. n # 0
          BY <1>5, <5>1
        <5>3. PageOfBreaks(n) \in Nat
          BY <1>4, <5>2
        <5> QED  BY <1>5, <5>1, <5>2, <5>3
      <4>2. PICK j \in 1..n : PageOfBreaks(j) = page
        BY <2>1, <4>1
      <4> QED  BY <1>1, <1>3, <2>3, <4>2
    <3> QED  BY <3>1, <3>2
  <2> QED  BY <2>2, <2>3
<1> QED  BY <1>2, <1>6

LEMMA ElementKeeps ==
    ASSUME WordInv, ReadParagraph \/ ReadTable
    PROVE  WordInv'
<1>1. PICK newBlocks \in {<<>>} \cup {<<b>> : b \in [kind : Kinds, startsPage : BOOLEAN]},
           breaks \in BOOLEAN :
        /\ Element(newBlocks, breaks)
        /\ \/ newBlocks = <<>>
           \/ \E b \in [kind : Kinds, startsPage : BOOLEAN] : newBlocks = <<b>>
  <2>1. ASSUME NEW kind \in Kinds
        PROVE  Block(kind, pendingBreak) \in [kind : Kinds, startsPage : BOOLEAN]
    BY DEF Block, WordInv, WordTypeOK
  <2>2. CASE ReadTable
    <3>1. \/ Element(<<Block("drawing", pendingBreak)>>, FALSE)
          \/ Element(<<>>, FALSE)
      BY <2>2 DEF ReadTable
    <3>2. Block("drawing", pendingBreak) \in [kind : Kinds, startsPage : BOOLEAN]
      BY <2>1 DEF Kinds
    <3> QED  BY <3>1, <3>2
  <2>3. CASE ReadParagraph
    <3>1. PICK breaks \in BOOLEAN :
            \/ \E kind \in Kinds : Element(<<Block(kind, pendingBreak)>>, breaks)
            \/ Element(<<>>, breaks)
      BY <2>3 DEF ReadParagraph
    <3>2. CASE Element(<<>>, breaks)
      BY <3>2
    <3>3. ASSUME NEW kind \in Kinds,
                 Element(<<Block(kind, pendingBreak)>>, breaks)
          PROVE  \E b \in [kind : Kinds, startsPage : BOOLEAN] : Element(<<b>>, breaks)
      BY <2>1, <3>3
    <3> QED  BY <3>1, <3>2, <3>3
  <2> QED  BY <2>2, <2>3
<1>2. /\ wordStage = "reading" /\ elements' = elements + 1 /\ elements' \in 0..MaxElements
      /\ blocks' = blocks \o newBlocks /\ pendingBreak' \in BOOLEAN
      /\ UNCHANGED <<wordStage, wordLowTier, pageCount, drawn, repeated, position, currentPage,
                     pageByBlock, skipped, looked>>
  BY <1>1, BodyAssumption DEF Element, alignVars, WordInv, WordTypeOK
<1>3. /\ blocks' \in Seq([kind : Kinds, startsPage : BOOLEAN])
      /\ Len(blocks') <= elements' /\ BreaksInv'
  <2>1. Len(blocks) \in Nat /\ elements \in Nat
    BY DEF WordInv, WordTypeOK
  <2>2. CASE newBlocks = <<>>
    <3>1. blocks' = blocks
      BY <1>2, <2>2, ConcatEmptySeq DEF WordInv, WordTypeOK
    <3>2. \A i : PageOfBreaks(i)' = PageOfBreaks(i)
      BY <3>1 DEF PageOfBreaks
    <3>3. BreaksInv'
      BY <1>2, <3>1, <3>2 DEF WordInv, BreaksInv
    <3> QED  BY <1>2, <2>1, <3>1, <3>3 DEF WordInv, WordTypeOK
  <2>3. ASSUME NEW b \in [kind : Kinds, startsPage : BOOLEAN], newBlocks = <<b>>
        PROVE  /\ blocks' \in Seq([kind : Kinds, startsPage : BOOLEAN])
               /\ Len(blocks') <= elements' /\ BreaksInv'
    <3>1. blocks' = blocks \o <<b>> /\ wordStage = "reading"
      BY <1>2, <2>3
    <3>2. /\ blocks' \in Seq([kind : Kinds, startsPage : BOOLEAN])
          /\ Len(blocks') = Len(blocks) + 1 /\ BreaksInv'
      BY <3>1, BlockExtends
    <3>3. Len(blocks) <= elements
      BY DEF WordInv
    <3> QED  BY <1>2, <2>1, <3>2, <3>3
  <2> QED  BY <1>1, <2>2, <2>3
<1>4. WordTypeOK'
  BY <1>2, <1>3 DEF WordInv, WordTypeOK
<1>5. drawn = <<>> /\ drawn' = <<>> /\ 1..Len(<<>>) = {} /\ 2..Len(<<>>) = {}
  BY <1>2, EmptySeq DEF WordInv
<1>6. WordPagesAreTrue'
  BY <1>2, <1>5 DEF WordPagesAreTrue, BlocksAreWhereTheyAreDrawn, NeverFarBack,
     WhatTextCannotSayIsSeen, LowTierPagesAreFilled
<1>7. CursorInv'
  BY <1>2, <1>5 DEF WordInv, CursorInv
<1> QED  BY <1>2, <1>3, <1>4, <1>6, <1>7 DEF WordInv

LEMMA LowTierKeeps ==
    ASSUME WordInv, PrepareLowTier
    PROVE  WordInv'
<1>1. /\ wordStage = "reading" /\ wordLowTier
      /\ wordStage' = "prepared"
      /\ pageByBlock' = [i \in 1..Len(blocks) |-> PageOfBreaks(i)]
      /\ UNCHANGED <<wordLowTier, elements, pendingBreak, blocks, pageCount, drawn, repeated,
                     position, currentPage, skipped, looked>>
      /\ drawn = <<>> /\ looked = {} /\ BreaksInv
  BY DEF PrepareLowTier, WordInv
<1>2. Len(blocks) \in Nat /\ elements \in 0..MaxElements /\ Len(blocks) <= elements
  BY DEF WordInv, WordTypeOK
<1>3. \A i \in 1..Len(blocks) : PageOfBreaks(i) \in 1..MaxElements + MaxPages
  <2> SUFFICES ASSUME NEW i \in 1..Len(blocks)
               PROVE  PageOfBreaks(i) \in 1..MaxElements + MaxPages
    OBVIOUS
  <2>1. PageOfBreaks(i) \in Nat \ {0} /\ PageOfBreaks(i) <= i
    BY BreakPages DEF WordInv
  <2> QED  BY <1>2, <2>1, BodyAssumption
<1>4. pageByBlock' \in Seq(1..MaxElements + MaxPages) /\ Len(pageByBlock') = Len(blocks)
  BY <1>1, <1>2, <1>3
<1>5. WordTypeOK'
  BY <1>1, <1>4 DEF WordInv, WordTypeOK
<1>6. 1..Len(<<>>) = {} /\ 2..Len(<<>>) = {}
  BY EmptySeq
<1>7. LowTierPagesAreFilled'
  <2> SUFFICES ASSUME NEW i \in 1..Len(blocks), NEW page \in 1..PageOfBreaks(i)
               PROVE  \E j \in 1..i : pageByBlock'[j] = page
    BY <1>1 DEF LowTierPagesAreFilled
  <2>1. PICK j \in 1..i : PageOfBreaks(j) = page
    BY <1>1 DEF BreaksInv
  <2>2. j \in 1..Len(blocks)
    BY <1>2
  <2> QED  BY <1>1, <2>1, <2>2
<1>8. BlocksAreWhereTheyAreDrawn' /\ NeverFarBack' /\ WhatTextCannotSayIsSeen'
  BY <1>1, <1>6 DEF BlocksAreWhereTheyAreDrawn, NeverFarBack, WhatTextCannotSayIsSeen
<1>9. CursorInv'
  BY <1>1, <1>6 DEF WordInv, CursorInv
<1> QED  BY <1>1, <1>2, <1>5, <1>7, <1>8, <1>9 DEF WordInv, WordPagesAreTrue

LEMMA RenderKeeps ==
    ASSUME WordInv, Render \/ PrepareFails
    PROVE  WordInv'
<1>1. /\ wordStage = "reading"
      /\ \/ wordStage' = "aligning" /\ ~wordLowTier
         \/ wordStage' = "failed"
      /\ UNCHANGED <<wordLowTier, elements, drawn, repeated, position, currentPage, pageByBlock,
                     skipped, looked>>
      /\ drawn = <<>> /\ pageByBlock = <<>> /\ looked = {}
  BY DEF Render, PrepareFails, alignVars, WordInv
<1>2. pageCount' \in 0..MaxPages /\ pendingBreak' \in BOOLEAN
  <2>1. pageCount \in 0..MaxPages /\ pendingBreak \in BOOLEAN
    BY DEF WordInv, WordTypeOK
  <2>2. CASE Render
    <3>1. pageCount' \in 1..MaxPages /\ pendingBreak' = FALSE
      BY <2>2 DEF Render
    <3>2. pageCount' \in 0..MaxPages
      BY <3>1, BodyAssumption
    <3> QED  BY <3>1, <3>2
  <2>3. CASE PrepareFails
    BY <2>1, <2>3 DEF PrepareFails, alignVars
  <2> QED  BY <2>2, <2>3
<1>3. blocks' \in Seq([kind : Kinds, startsPage : BOOLEAN]) /\ Len(blocks') = Len(blocks)
  <2>1. blocks \in Seq([kind : Kinds, startsPage : BOOLEAN])
    BY DEF WordInv, WordTypeOK
  <2>2. CASE PrepareFails
    BY <2>1, <2>2 DEF PrepareFails
  <2>3. CASE Render
    <3>1. /\ blocks' = [i \in 1..Len(blocks) |-> Block(blocks[i].kind, FALSE)]
          /\ Len(blocks) \in Nat
      BY <2>1, <2>3 DEF Render
    <3>2. ASSUME NEW i \in 1..Len(blocks)
          PROVE  Block(blocks[i].kind, FALSE) \in [kind : Kinds, startsPage : BOOLEAN]
      <4>1. blocks[i] \in [kind : Kinds, startsPage : BOOLEAN]
        BY <2>1, ElementOfSeq
      <4> QED  BY <4>1 DEF Block
    <3>3. blocks' \in [1..Len(blocks) -> [kind : Kinds, startsPage : BOOLEAN]]
      BY <3>1, <3>2
    <3> DEFINE BlockRow == [kind : Kinds, startsPage : BOOLEAN]
    <3>4. blocks' \in [1..Len(blocks) -> BlockRow]
      BY <3>3
    <3> HIDE DEF BlockRow
    <3>5. blocks' \in Seq(BlockRow) /\ Len(blocks') = Len(blocks)
      BY <3>1, <3>4, FunctionIsASeq
    <3> QED  BY <3>5 DEF BlockRow
  <2> QED  BY <2>2, <2>3
<1>4. WordTypeOK'
  BY <1>1, <1>2, <1>3 DEF WordInv, WordTypeOK
<1>5. 1..Len(<<>>) = {} /\ 2..Len(<<>>) = {}
  BY EmptySeq
<1>6. WordPagesAreTrue' /\ CursorInv'
  BY <1>1, <1>5 DEF WordInv, CursorInv, WordPagesAreTrue, BlocksAreWhereTheyAreDrawn,
     NeverFarBack, WhatTextCannotSayIsSeen, LowTierPagesAreFilled
<1>7. pageByBlock' \in Seq(1..MaxPages)
  BY <1>1, EmptySeq
<1> QED  BY <1>1, <1>3, <1>4, <1>5, <1>6, <1>7 DEF WordInv

\* What _locate returns: an occurrence not before the page before, if there is one, and
\* the first one forward if there is one.
LEMMA WhatIsLocated ==
    ASSUME WordInv, NEW occurrences \in SUBSET (Nat \ {0})
    PROVE  /\ Located(occurrences) = 0 \/ Located(occurrences) \in occurrences
           /\ Located(occurrences) # 0 => Located(occurrences) >= Backtrack
           /\ \A slot \in occurrences : slot >= Backtrack => Located(occurrences) # 0
<1> DEFINE ahead  == {slot \in occurrences : slot >= position}
           behind == {slot \in occurrences : slot >= Backtrack}
<1>1. Located(occurrences) =
        IF ahead # {} THEN Min(ahead) ELSE IF behind # {} THEN Min(behind) ELSE 0
  BY DEF Located
<1>2. ahead \subseteq behind /\ ahead \subseteq Nat /\ behind \subseteq Nat
  <2>1. position \in Nat /\ currentPage \in Nat \ {0}
    BY BodyAssumption DEF WordInv, WordTypeOK, Last
  <2>2. position >= PageStart(currentPage)
    BY DEF WordInv, CursorInv
  <2>3. PageStart(currentPage) \in Nat /\ Backtrack \in Nat /\ PageStart(currentPage) >= Backtrack
    <3>1. CASE currentPage = 1
      BY <3>1, BodyAssumption DEF Backtrack, PageStart
    <3>2. CASE currentPage # 1
      <4>1. PICK q \in Nat : currentPage = q + 2
        <5>1. currentPage - 2 \in Nat /\ currentPage = (currentPage - 2) + 2
          BY <2>1, <3>2
        <5> QED  BY <5>1
      <4>2. PageStart(currentPage) = (q + 1) * PageSlots + 1 /\ Backtrack = q * PageSlots + 1
        <5>1. (q + 2) - 1 = q + 1 /\ ((q + 2) - 1) - 1 = q
          OBVIOUS
        <5> QED  BY <3>2, <4>1, <5>1 DEF PageStart, Backtrack
      <4>3. /\ (q + 1) * PageSlots = q * PageSlots + PageSlots
            /\ q * PageSlots \in Nat /\ PageSlots \in Nat
        BY BodyAssumption
      <4> QED  BY <4>2, <4>3
    <3> QED  BY <3>1, <3>2
  <2>4. \A slot \in occurrences : slot \in Nat /\ (slot >= position => slot >= Backtrack)
    BY <2>1, <2>2, <2>3
  <2> QED  BY <2>4
<1>3. \A T \in SUBSET Nat : T # {} => Min(T) \in T
  BY SmallestNumber DEF Min
<1> HIDE DEF ahead, behind
<1>4. /\ ahead # {} => Min(ahead) \in ahead
      /\ behind # {} => Min(behind) \in behind
  BY <1>2, <1>3
<1>5. (Located(occurrences) = 0 /\ behind = {}) \/ Located(occurrences) \in behind
  BY <1>1, <1>2, <1>4
<1> QED  BY <1>5 DEF behind

\* A block whose key occurs in its own slot only is found there if nothing before it
\* was drawn more than a page further on: the search goes back that far.
LEMMA BlockIsLocated ==
    ASSUME WordInv, ~repeated, NEW slot \in 1..Last,
           \A j \in 1..Len(drawn) : PageOf(slot) + 1 >= PageDrawn(j)
    PROVE  Located({slot}) = slot
<1>1. slot \in Nat \ {0} /\ PageOf(slot) \in Nat \ {0}
  BY SlotsOfAPage, BodyAssumption DEF Last
<1>2. slot >= Backtrack
  <2>1. CASE currentPage = 1
    BY <1>1, <2>1, BodyAssumption DEF Backtrack, PageStart
  <2>2. CASE currentPage # 1
    <3>1. PICK j \in 1..Len(drawn) : currentPage = PageDrawn(j)
      BY <2>2 DEF WordInv, CursorInv
    <3>2. currentPage \in Nat \ {0, 1}
      BY <2>2 DEF WordInv, WordTypeOK
    <3>3. PageOf(slot) >= currentPage - 1 /\ currentPage - 1 \in Nat \ {0}
      BY <1>1, <3>1, <3>2
    <3> QED  BY <1>1, <2>2, <3>3, SlotsOfAPage DEF Backtrack
  <2> QED  BY <2>1, <2>2
<1>3. {slot} \in SUBSET (Nat \ {0})
  BY <1>1
<1>4. PICK l : l = Located({slot})
  OBVIOUS
<1>5. (l = 0 \/ l \in {slot}) /\ l # 0
  BY <1>2, <1>3, <1>4, WhatIsLocated
<1> QED  BY <1>4, <1>5

\* The page a search has come to is not far before the one it started from.
LEMMA NotFarBack ==
    ASSUME WordInv, NEW slot \in Nat \ {0}, slot >= Backtrack
    PROVE  PageOf(slot) + 1 >= currentPage /\ slot + 1 >= PageStart(PageOf(slot))
<1>1. currentPage \in Nat \ {0} /\ PageOf(slot) \in Nat \ {0}
  BY SlotsOfAPage, BodyAssumption DEF WordInv, WordTypeOK
<1>2. slot >= PageStart(PageOf(slot)) /\ PageStart(PageOf(slot)) \in Int
  <2>1. PICK page \in Nat \ {0} : page = PageOf(slot)
    BY <1>1
  <2>2. slot >= PageStart(page)
    BY <2>1, SlotsOfAPage
  <2>3. PageStart(page) \in Int
    BY BodyAssumption DEF PageStart
  <2> QED  BY <2>1, <2>2, <2>3
<1>3. CASE currentPage = 1
  BY <1>1, <1>2, <1>3
<1>4. CASE currentPage # 1
  <2>1. currentPage - 1 \in Nat \ {0} /\ slot >= PageStart(currentPage - 1)
    BY <1>1, <1>4 DEF Backtrack
  <2>2. PageOf(slot) >= currentPage - 1
    BY <2>1, SlotsOfAPage
  <2> QED  BY <1>1, <1>2, <2>2
<1> QED  BY <1>3, <1>4

LEMMA AlignKeeps ==
    ASSUME WordInv, AlignBlock
    PROVE  WordInv'
<1>0. PICK n \in Nat : n = Len(drawn)
  BY DEF WordInv, WordTypeOK
<1> DEFINE Drawing == [slot : 1..Last, found : BOOLEAN]
<1>1. PICK slot \in Slots, occurrences \in SUBSET Slots :
        /\ drawn' = Append(drawn, [slot |-> slot, found |-> slot \in occurrences])
        /\ repeated' = (repeated \/ ~(occurrences \subseteq {slot}))
        /\ IF Located(occurrences) # 0
           THEN /\ position' = Located(occurrences) + 1
                /\ currentPage' = PageOf(Located(occurrences))
           ELSE UNCHANGED <<position, currentPage>>
  BY DEF AlignBlock
<1> DEFINE found == slot \in occurrences
<1>2. /\ wordStage = "aligning" /\ wordStage' \in {"aligning", "building"}
      /\ pageByBlock' = Append(pageByBlock, currentPage')
      /\ UNCHANGED <<wordLowTier, elements, pendingBreak, blocks, pageCount, skipped, looked>>
      /\ n = Len(pageByBlock) /\ n = Len(drawn) /\ n \in Nat
      /\ drawn \in Seq(Drawing) /\ pageByBlock \in Seq(1..MaxElements + MaxPages)
      /\ pageCount \in 0..MaxPages /\ position \in 1..Last + 1 /\ currentPage \in 1..MaxPages
      /\ repeated \in BOOLEAN
  BY <1>0 DEF AlignBlock, WordInv, WordTypeOK
<1>3. \A s \in Slots : s \in 1..Last /\ PageOf(s) \in 1..MaxPages /\ s \in Nat \ {0}
  <2> SUFFICES ASSUME NEW s \in Slots
               PROVE  s \in 1..Last /\ PageOf(s) \in 1..MaxPages /\ s \in Nat \ {0}
    OBVIOUS
  <2>1. s \in 1..pageCount * PageSlots
    BY DEF Slots
  <2>2. s \in 1..Last /\ PageOf(s) \in 1..MaxPages
    BY <1>2, <2>1, SlotInRange
  <2> QED  BY <2>2, BodyAssumption DEF Last
<1>13. /\ Located(occurrences) = 0 \/ Located(occurrences) \in occurrences
       /\ Located(occurrences) # 0 => Located(occurrences) >= Backtrack
  <2>1. occurrences \in SUBSET (Nat \ {0})
    BY <1>3
  <2> QED  BY <2>1, WhatIsLocated
<1>4. /\ drawn' \in Seq(Drawing) /\ Len(drawn') = n + 1
      /\ \A i \in 1..n : drawn'[i] = drawn[i]
      /\ drawn'[n + 1] = [slot |-> slot, found |-> found]
  <2>1. [slot |-> slot, found |-> found] \in Drawing
    BY <1>3
  <2> QED  BY <1>1, <1>2, <2>1, AppendProperties
<1>5. /\ position' \in 1..Last + 1 /\ currentPage' \in 1..MaxPages
      /\ currentPage' + 1 >= currentPage /\ position' >= PageStart(currentPage')
      /\ repeated' \in BOOLEAN
  <2>1. Last \in Nat
    BY BodyAssumption DEF Last
  <2>2. CASE Located(occurrences) # 0
    <3>1. PICK l \in Slots : l = Located(occurrences) /\ l >= Backtrack
      BY <1>13, <2>2
    <3>2. position' = l + 1 /\ currentPage' = PageOf(l) /\ l \in 1..Last /\ l \in Nat \ {0}
      BY <1>1, <1>3, <2>2, <3>1
    <3>3. PageOf(l) + 1 >= currentPage /\ l + 1 >= PageStart(PageOf(l))
      BY <3>1, <3>2, NotFarBack
    <3> QED  BY <1>1, <1>2, <1>3, <2>1, <3>2, <3>3
  <2>3. CASE Located(occurrences) = 0
    <3>1. position' = position /\ currentPage' = currentPage
      BY <1>1, <2>3
    <3>2. position >= PageStart(currentPage)
      BY DEF WordInv, CursorInv
    <3>3. PageStart(currentPage') = PageStart(currentPage)
      BY <3>1
    <3> QED  BY <1>1, <1>2, <3>1, <3>2, <3>3
  <2> QED  BY <2>2, <2>3
<1>6. /\ pageByBlock' \in Seq(1..MaxElements + MaxPages) /\ Len(pageByBlock') = n + 1
      /\ \A i \in 1..n : pageByBlock'[i] = pageByBlock[i]
      /\ pageByBlock'[n + 1] = currentPage'
  <2>1. PICK page \in 1..MaxPages : page = currentPage'
    BY <1>5
  <2>2. page \in 1..MaxElements + MaxPages /\ pageByBlock' = Append(pageByBlock, page)
    BY <1>2, <2>1, BodyAssumption
  <2>3. /\ Append(pageByBlock, page) \in Seq(1..MaxElements + MaxPages)
        /\ Len(Append(pageByBlock, page)) = Len(pageByBlock) + 1
        /\ \A i \in 1..Len(pageByBlock) : Append(pageByBlock, page)[i] = pageByBlock[i]
        /\ Append(pageByBlock, page)[Len(pageByBlock) + 1] = page
    <3>1. pageByBlock \in Seq(1..MaxElements + MaxPages)
      BY <1>2
    <3> QED  BY <2>2, <3>1, AppendProperties
  <2> QED  BY <1>2, <2>1, <2>2, <2>3
<1>7. WordTypeOK'
  BY <1>2, <1>4, <1>5, <1>6 DEF WordInv, WordTypeOK
<1>8. /\ \A i \in 1..n : PageDrawn(i)' = PageDrawn(i)
      /\ PageDrawn(n + 1)' = PageOf(slot)
  BY <1>4 DEF PageDrawn, PageOf
<1>14. ASSUME ~repeated'
       PROVE  /\ ~repeated /\ occurrences \subseteq {slot}
              /\ Located(occurrences) # 0 => Located(occurrences) = slot
  BY <1>1, <1>2, <1>13, <1>14
<1>9. CursorInv'
  <2> SUFFICES ASSUME ~repeated'
               PROVE  \/ position' = 1 /\ currentPage' = 1
                      \/ \E i \in 1..(n + 1) : currentPage' = PageDrawn(i)'
    BY <1>4, <1>5 DEF CursorInv
  <2>1. CASE Located(occurrences) # 0
    BY <1>1, <1>8, <1>14, <2>1
  <2>2. CASE Located(occurrences) = 0
    <3>1. UNCHANGED <<position, currentPage>>
      BY <1>1, <2>2
    <3>2. \/ position = 1 /\ currentPage = 1
          \/ \E i \in 1..n : currentPage = PageDrawn(i)
      BY <1>2, <1>14 DEF WordInv, CursorInv
    <3> QED  BY <1>8, <3>1, <3>2
  <2> QED  BY <2>1, <2>2
<1>10. BlocksAreWhereTheyAreDrawn'
  <2> SUFFICES ASSUME NEW i \in 1..(n + 1), drawn'[i].found, ~repeated', InReach(i)'
               PROVE  pageByBlock'[i] = PageDrawn(i)'
    BY <1>4 DEF BlocksAreWhereTheyAreDrawn
  <2>1. CASE i \in 1..n
    <3>1. InReach(i)
      <4> SUFFICES ASSUME NEW j \in 1..(i - 1) PROVE PageDrawn(i) + 1 >= PageDrawn(j)
        BY DEF InReach
      <4>1. j \in 1..n
        BY <1>2, <2>1
      <4> QED  BY <1>8, <2>1, <4>1 DEF InReach
    <3>2. pageByBlock[i] = PageDrawn(i)
      BY <1>2, <1>4, <1>14, <2>1, <3>1 DEF WordInv, WordPagesAreTrue, BlocksAreWhereTheyAreDrawn
    <3> QED  BY <1>6, <1>8, <2>1, <3>2
  <2>2. CASE i = n + 1
    <3>1. \A j \in 1..n : PageOf(slot) + 1 >= PageDrawn(j)
      <4> SUFFICES ASSUME NEW j \in 1..n PROVE PageOf(slot) + 1 >= PageDrawn(j)
        OBVIOUS
      <4>1. j \in 1..(i - 1)
        BY <1>2, <2>2
      <4> QED  BY <1>8, <2>2, <4>1 DEF InReach
    <3>2. found
      BY <1>4, <2>2
    <3>3. occurrences = {slot} /\ ~repeated
      BY <1>14, <3>2
    <3>4. Located({slot}) = slot
      BY <1>2, <1>3, <3>1, <3>3, BlockIsLocated
    <3>5. slot # 0
      BY <1>3
    <3>6. currentPage' = PageOf(slot)
      BY <1>1, <3>3, <3>4, <3>5
    <3> QED  BY <1>6, <1>8, <2>2, <3>6
  <2>3. i \in 1..n \/ i = n + 1
    BY <1>2
  <2> QED  BY <2>1, <2>2, <2>3
<1>15. NeverFarBack'
  <2> SUFFICES ASSUME NEW i \in 2..(n + 1)
               PROVE  pageByBlock'[i] + 1 >= pageByBlock'[i - 1]
    BY <1>4 DEF NeverFarBack
  <2>1. CASE i \in 2..n
    <3>1. i \in 1..n /\ i - 1 \in 1..n
      BY <1>2, <2>1
    <3>2. pageByBlock[i] + 1 >= pageByBlock[i - 1]
      BY <1>2, <2>1 DEF WordInv, WordPagesAreTrue, NeverFarBack
    <3> QED  BY <1>6, <3>1, <3>2
  <2>2. CASE i = n + 1
    <3>1. n \in 1..n /\ i - 1 = n
      BY <1>2, <2>2
    <3>2. currentPage = pageByBlock[n]
      BY <1>2, <3>1 DEF WordInv
    <3> QED  BY <1>5, <1>6, <2>2, <3>1, <3>2
  <2>3. i \in 2..n \/ i = n + 1
    BY <1>2
  <2> QED  BY <2>1, <2>2, <2>3
<1>12. /\ ~wordLowTier' /\ pageByBlock' \in Seq(1..MaxPages)
       /\ wordStage' = "building" => Len(drawn') = Len(blocks')
  <2>1. PICK page \in 1..MaxPages : page = currentPage'
    BY <1>5
  <2>2. pageByBlock' = Append(pageByBlock, page) /\ pageByBlock \in Seq(1..MaxPages)
        /\ ~wordLowTier
    BY <1>2, <2>1 DEF WordInv
  <2>3. pageByBlock' \in Seq(1..MaxPages)
    BY <2>2, AppendProperties
  <2>4. wordStage' = "building" => Len(pageByBlock') = Len(blocks)
    BY <1>2 DEF AlignBlock
  <2> QED  BY <1>2, <1>4, <1>6, <2>2, <2>3, <2>4
<1>11. WhatTextCannotSayIsSeen' /\ LowTierPagesAreFilled'
  BY <1>2 DEF WhatTextCannotSayIsSeen, LowTierPagesAreFilled
<1>16. \A i \in 1..Len(drawn') : i = Len(drawn') => currentPage' = pageByBlock'[i]
  BY <1>4, <1>6
<1> QED
  BY <1>2, <1>4, <1>6, <1>7, <1>9, <1>10, <1>11, <1>12, <1>15, <1>16
  DEF WordInv, WordPagesAreTrue

LEMMA BuildKeeps ==
    ASSUME WordInv, BuildPages
    PROVE  WordInv'
<1>1. /\ wordStage = "building" /\ wordStage' = "prepared"
      /\ skipped' \in SUBSET RenderedVisuals
      /\ UNCHANGED <<wordLowTier, elements, pendingBreak, blocks, pageCount, drawn, repeated,
                     position, currentPage, pageByBlock>>
  BY DEF BuildPages
<1>7. PICK crowded \in SUBSET (1..pageCount) :
        looked' = ((RenderedVisuals \cup crowded) \ skipped') \cup
                  {pageByBlock[i] : i \in {i \in 1..Len(blocks) : blocks[i].kind # "text"}}
  BY DEF BuildPages
<1>2. ASSUME NEW i \in 1..Len(blocks)
      PROVE  pageByBlock[i] \in 1..MaxPages /\ PageOf(drawn[i].slot) \in 1..MaxPages
  <2>1. /\ pageByBlock \in Seq(1..MaxPages) /\ drawn \in Seq([slot : 1..Last, found : BOOLEAN])
        /\ i \in 1..Len(pageByBlock) /\ i \in 1..Len(drawn)
    BY <1>1, <1>2 DEF WordInv, WordTypeOK
  <2>2. pageByBlock[i] \in 1..MaxPages /\ drawn[i] \in [slot : 1..Last, found : BOOLEAN]
    BY <2>1, ElementOfSeq
  <2>3. drawn[i].slot \in 1..MaxPages * PageSlots /\ MaxPages \in 0..MaxPages
    BY <2>2, BodyAssumption DEF Last
  <2> QED  BY <2>2, <2>3, SlotInRange
<1>3. WordTypeOK'
  <2>1. RenderedVisuals \subseteq 1..MaxPages
    BY <1>2 DEF RenderedVisuals
  <2>3. 1..pageCount \subseteq 1..MaxPages
    BY BodyAssumption DEF WordInv, WordTypeOK
  <2>2. looked' \subseteq 1..MaxPages /\ skipped' \subseteq 1..MaxPages
    BY <1>1, <1>2, <1>7, <2>1, <2>3
  <2> QED  BY <1>1, <2>2 DEF WordInv, WordTypeOK
<1>4. BlocksAreWhereTheyAreDrawn' /\ NeverFarBack' /\ CursorInv'
  <2>1. BlocksAreWhereTheyAreDrawn'
    BY <1>1 DEF WordInv, WordPagesAreTrue, BlocksAreWhereTheyAreDrawn, InReach, PageDrawn, PageOf
  <2>2. NeverFarBack'
    BY <1>1 DEF WordInv, WordPagesAreTrue, NeverFarBack
  <2>3. CursorInv'
    BY <1>1 DEF WordInv, CursorInv, PageDrawn, PageOf, PageStart
  <2> QED  BY <2>1, <2>2, <2>3
<1>5. WhatTextCannotSayIsSeen'
  <2> SUFFICES ASSUME NEW i \in 1..Len(blocks)
               PROVE  /\ blocks[i].kind = "picture" => PageDrawn(i)' \in looked' \cup skipped'
                      /\ blocks[i].kind # "text" => pageByBlock[i] \in looked'
    BY <1>1 DEF WhatTextCannotSayIsSeen
  <2>1. PageDrawn(i)' = PageOf(drawn[i].slot)
    BY <1>1 DEF PageDrawn, PageOf
  <2>2. blocks[i].kind = "picture" => PageOf(drawn[i].slot) \in RenderedVisuals
    BY DEF RenderedVisuals
  <2> QED  BY <1>7, <2>1, <2>2
<1>6. LowTierPagesAreFilled'
  <2>1. ~wordLowTier
    BY <1>1 DEF WordInv
  <2> QED  BY <1>1, <2>1 DEF LowTierPagesAreFilled
<1> QED  BY <1>1, <1>3, <1>4, <1>5, <1>6 DEF WordInv, WordPagesAreTrue

\* Every step of the reader.
LEMMA WordGoesOn ==
    ASSUME WordInv, [WordStep]_wordVars
    PROVE  WordInv'
<1>1. CASE UNCHANGED wordVars
  <2>1. \A i : PageOfBreaks(i)' = PageOfBreaks(i) /\ PageDrawn(i)' = PageDrawn(i)
    BY <1>1 DEF wordVars, PageOfBreaks, PageDrawn, PageOf
  <2>2. \A i : InReach(i)' = InReach(i)
    BY <2>1 DEF InReach
  <2>3. WordPagesAreTrue'
    BY <1>1, <2>1, <2>2 DEF wordVars, WordInv, WordPagesAreTrue, BlocksAreWhereTheyAreDrawn,
       NeverFarBack, WhatTextCannotSayIsSeen, LowTierPagesAreFilled
  <2>4. CursorInv' = CursorInv /\ BreaksInv' = BreaksInv
    BY <1>1, <2>1 DEF wordVars, CursorInv, BreaksInv, PageStart
  <2> QED  BY <1>1, <2>3, <2>4 DEF wordVars, WordInv, WordTypeOK
<1> QED
  BY <1>1, ElementKeeps, LowTierKeeps, RenderKeeps, AlignKeeps, BuildKeeps DEF WordStep

\* For documents of any length: where the text does not repeat itself, a block whose key
\* is found is put on the page it is drawn on; where it does, no block is put more than a
\* page before the one before it; the page a picture is drawn on is looked at; without a
\* rendering no page is empty (docx_semantic.py, libreoffice.py, formats/docx.py).
THEOREM WordPagesHold == WordSpec => []WordPagesAreTrue
<1>1. WordInv /\ [WordStep]_wordVars => WordInv'
  BY WordGoesOn
<1>2. WordInv => WordPagesAreTrue
  BY DEF WordInv
<1> QED  BY <1>1, <1>2, WordStart, PTL DEF WordSpec

-----------------------------------------------------------------------------
(* The parser benchmark. *)

\* What is last among values that are counted.
LEMMA LatestOf ==
    ASSUME NEW A, A # {}, NEW b \in Nat, \A x \in A : x[2] \in 0..b
    PROVE  \E z \in A : \A x \in A : x[2] <= z[2]
<1> DEFINE T == {b - x[2] : x \in A}
<1>1. T \in SUBSET Nat /\ T # {}
  OBVIOUS
<1>2. PICK m \in T : \A k \in T : m <= k
  BY <1>1, SmallestNumber
<1>3. PICK z \in A : m = b - z[2]
  BY <1>2
<1>4. ASSUME NEW x \in A PROVE x[2] <= z[2]
  <2>1. m <= b - x[2]
    BY <1>2
  <2> QED  BY <1>3, <2>1
<1> QED  BY <1>4

\* Counting pairs by their first member.
LEMMA PairsCounted ==
    ASSUME NEW X, IsFiniteSet(X), NEW Y, IsFiniteSet(Y), NEW R \in SUBSET (X \X Y),
           NEW k \in Nat
    PROVE  /\ IsFiniteSet(R) /\ Cardinality(R) \in Nat /\ Cardinality(X) \in Nat
           /\ (\A x \in X : Cardinality({y \in Y : <<x, y>> \in R}) <= k)
                 => Cardinality(R) <= Cardinality(X) * k
           /\ (\A x \in X : Cardinality({y \in Y : <<x, y>> \in R}) >= k)
                 => Cardinality(R) >= Cardinality(X) * k
<1> DEFINE Fibre(x) == {y \in Y : <<x, y>> \in R}
           Part(U) == {r \in R : r[1] \in U}
           Low(U) == (\A x \in X : Cardinality(Fibre(x)) <= k)
                        => Cardinality(Part(U)) <= Cardinality(U) * k
           High(U) == (\A x \in X : Cardinality(Fibre(x)) >= k)
                        => Cardinality(Part(U)) >= Cardinality(U) * k
           Bad == {U \in SUBSET X : ~(Low(U) /\ High(U))}
<1>1. IsFiniteSet(R) /\ Cardinality(R) \in Nat /\ Cardinality(X) \in Nat
  BY FS_Product, FS_Subset, FS_CardinalityType
<1>2. ASSUME NEW U \in SUBSET X
      PROVE  /\ IsFiniteSet(U) /\ Cardinality(U) \in Nat
             /\ IsFiniteSet(Part(U)) /\ Cardinality(Part(U)) \in Nat
  <2>1. Part(U) \in SUBSET R
    OBVIOUS
  <2> QED  BY <1>1, <2>1, FS_Subset, FS_CardinalityType
<1>3. ASSUME NEW x \in X
      PROVE  /\ Cardinality(Part({x})) = Cardinality(Fibre(x))
             /\ Cardinality(Fibre(x)) \in Nat
  <2>1. Fibre(x) \in SUBSET Y
    OBVIOUS
  <2>2. IsFiniteSet(Fibre(x)) /\ Cardinality(Fibre(x)) \in Nat
    BY <2>1, FS_Subset, FS_CardinalityType
  <2> DEFINE f == [y \in Fibre(x) |-> <<x, y>>]
  <2>3. f \in [Fibre(x) -> Part({x})]
    OBVIOUS
  <2>4. \A a, b \in Fibre(x) : f[a] = f[b] => a = b
    OBVIOUS
  <2>5. \A r \in Part({x}) : \E y \in Fibre(x) : f[y] = r
    <3> SUFFICES ASSUME NEW r \in Part({x}) PROVE \E y \in Fibre(x) : f[y] = r
      OBVIOUS
    <3>1. r = <<x, r[2]>> /\ r[2] \in Fibre(x)
      OBVIOUS
    <3> QED  BY <3>1
  <2>6. f \in Bijection(Fibre(x), Part({x}))
    BY <2>3, <2>4, <2>5 DEF Bijection, Injection, Surjection, IsInjective
  <2>7. ExistsBijection(Fibre(x), Part({x}))
    BY <2>6 DEF ExistsBijection
  <2> QED  BY <2>2, <2>7, FS_Bijection
<1>4. ASSUME Bad # {} PROVE FALSE
  <2>1. PICK U \in Bad : \A V \in Bad : V \subseteq U => V = U
    <3>1. Bad \in SUBSET (SUBSET X)
      OBVIOUS
    <3> HIDE DEF Bad
    <3> QED  BY <1>4, <3>1, SmallestSet
  <2>2. U \in SUBSET X
    OBVIOUS
  <2>3. CASE U = {}
    <3>1. Part(U) = {}
      BY <2>3
    <3>2. Cardinality(U) = 0 /\ Cardinality(Part(U)) = 0
      BY <2>3, <3>1, FS_EmptySet
    <3>3. Low(U) /\ High(U)
      BY <3>2
    <3> QED  BY <3>3
  <2>4. CASE U # {}
    <3>1. PICK x \in U : TRUE
      BY <2>4
    <3> DEFINE V == U \ {x}
    <3>2. Low(V) /\ High(V)
      <4>1. V \in SUBSET X /\ V \subseteq U /\ V # U
        BY <2>2, <3>1
      <4>2. V \notin Bad
        <5> HIDE DEF Bad, V
        <5> QED  BY <2>1, <4>1
      <4> QED  BY <4>1, <4>2
    <3>3. Cardinality(V) = Cardinality(U) - 1
      BY <1>2, <2>2, <3>1, FS_RemoveElement
    <3>4. Part(U) = Part(V) \cup Part({x}) /\ Part(V) \cap Part({x}) = {}
      BY <3>1
    <3>5. Cardinality(Part(U)) = Cardinality(Part(V)) + Cardinality(Part({x}))
      <4>1. PICK A, B : A = Part(V) /\ B = Part({x})
        OBVIOUS
      <4>2. IsFiniteSet(A) /\ IsFiniteSet(B) /\ Cardinality(A) \in Nat /\ Cardinality(B) \in Nat
        BY <1>2, <2>2, <3>1, <4>1
      <4>3. Cardinality(A \cup B) = Cardinality(A) + Cardinality(B)
        <5>1. A \cap B = {}
          BY <3>4, <4>1
        <5>2. Cardinality(A \cup B) = Cardinality(A) + Cardinality(B) - Cardinality(A \cap B)
          BY <4>2, FS_Union
        <5>3. Cardinality({}) = 0
          BY FS_EmptySet
        <5>4. Cardinality(A \cap B) = 0
          BY <5>1, <5>3
        <5>5. PICK a, c, u : a = Cardinality(A) /\ c = Cardinality(B) /\ u = Cardinality(A \cup B)
          OBVIOUS
        <5>6. a \in Nat /\ c \in Nat /\ u = a + c - 0
          BY <4>2, <5>2, <5>4, <5>5
        <5>7. u = a + c
          BY <5>6
        <5> QED  BY <5>5, <5>7
      <4>4. Part(U) = A \cup B
        BY <3>4, <4>1
      <4> QED  BY <4>1, <4>3, <4>4
    <3>6. /\ Cardinality(Part(V)) \in Nat /\ Cardinality(V) \in Nat
          /\ Cardinality(U) \in Nat /\ Cardinality(Fibre(x)) \in Nat
          /\ Cardinality(Part({x})) = Cardinality(Fibre(x)) /\ x \in X
      BY <1>2, <1>3, <2>2, <3>1
    <3>7. Low(U) /\ High(U)
      <4>1. PICK pu, pv, fx, cv, cu \in Nat :
              /\ pu = Cardinality(Part(U)) /\ pv = Cardinality(Part(V))
              /\ fx = Cardinality(Fibre(x)) /\ cv = Cardinality(V) /\ cu = Cardinality(U)
        BY <1>2, <2>2, <3>6
      <4>2. pu = pv + fx /\ cu = cv + 1
        BY <3>3, <3>5, <3>6, <4>1
      <4>3. cu * k = cv * k + k
        BY <4>2
      <4>4. cv * k \in Nat
        OBVIOUS
      <4>5. Low(U)
        <5> SUFFICES ASSUME \A z \in X : Cardinality(Fibre(z)) <= k PROVE pu <= cu * k
          BY <4>1
        <5>1. fx <= k /\ pv <= cv * k
          BY <3>2, <3>6, <4>1
        <5> QED  BY <4>2, <4>3, <4>4, <5>1
      <4>6. High(U)
        <5> SUFFICES ASSUME \A z \in X : Cardinality(Fibre(z)) >= k PROVE pu >= cu * k
          BY <4>1
        <5>1. fx >= k /\ pv >= cv * k
          BY <3>2, <3>6, <4>1
        <5> QED  BY <4>2, <4>3, <4>4, <5>1
      <4> QED  BY <4>5, <4>6
    <3> QED  BY <3>7
  <2> QED  BY <2>3, <2>4
<1>5. Low(X) /\ High(X)
  BY <1>4
<1>6. Part(X) = R
  OBVIOUS
<1> QED  BY <1>1, <1>5, <1>6

\* No more than the half of a majority's tokens for every engine is too few.
LEMMA MajorityRecalled ==
    ASSUME NEW C, IsFiniteSet(C), NEW K, IsFiniteSet(K), K # {},
           NEW found \in [C -> SUBSET Tokens],
           \A t \in K : Cardinality({e \in C : t \in found[e]}) >= Threshold(C)
    PROVE  \E e \in C : 2 * Cardinality(found[e] \cap K) > Cardinality(K)
<1> SUFFICES ASSUME \A e \in C : ~(2 * Cardinality(found[e] \cap K) > Cardinality(K))
             PROVE  FALSE
  OBVIOUS
<1> DEFINE P == {r \in C \X K : r[2] \in found[r[1]]}
           Q == {r \in K \X C : r[1] \in found[r[2]]}
<1>1. PICK n, m \in Nat : n = Cardinality(C) /\ m = Cardinality(K)
  BY FS_CardinalityType
<1>2. m >= 1
  BY <1>1, FS_EmptySet
<1>3. Cardinality(P) <= n * (m \div 2) /\ IsFiniteSet(P) /\ Cardinality(P) \in Nat
  <2>1. ASSUME NEW e \in C PROVE Cardinality({t \in K : <<e, t>> \in P}) <= m \div 2
    <3>1. {t \in K : <<e, t>> \in P} = found[e] \cap K
      OBVIOUS
    <3>2. PICK c \in Nat : c = Cardinality(found[e] \cap K)
      BY FS_Intersection, FS_CardinalityType
    <3>3. ~(2 * c > m)
      BY <1>1, <3>2
    <3>4. c <= m \div 2
      BY <1>1, <3>2, <3>3
    <3> QED  BY <3>1, <3>2, <3>4
  <2>2. P \in SUBSET (C \X K) /\ m \div 2 \in Nat
    BY <1>1
  <2> HIDE DEF P
  <2> QED  BY <1>1, <2>1, <2>2, PairsCounted
<1>4. Cardinality(Q) >= m * (n \div 2 + 1) /\ Cardinality(Q) \in Nat
  <2>1. ASSUME NEW t \in K PROVE Cardinality({e \in C : <<t, e>> \in Q}) >= n \div 2 + 1
    <3>1. {e \in C : <<t, e>> \in Q} = {e \in C : t \in found[e]}
      OBVIOUS
    <3> QED  BY <1>1, <3>1 DEF Threshold
  <2>2. Q \in SUBSET (K \X C) /\ n \div 2 + 1 \in Nat
    BY <1>1
  <2> HIDE DEF Q
  <2> QED  BY <1>1, <2>1, <2>2, PairsCounted
<1>5. Cardinality(Q) = Cardinality(P)
  <2> DEFINE f == [r \in P |-> <<r[2], r[1]>>]
  <2>1. f \in [P -> Q]
    OBVIOUS
  <2>2. \A a, b \in P : f[a] = f[b] => a = b
    OBVIOUS
  <2>3. \A r \in Q : \E a \in P : f[a] = r
    <3> SUFFICES ASSUME NEW r \in Q PROVE \E a \in P : f[a] = r
      OBVIOUS
    <3>1. <<r[2], r[1]>> \in P /\ f[<<r[2], r[1]>>] = r
      OBVIOUS
    <3> QED  BY <3>1
  <2>4. f \in Bijection(P, Q)
    BY <2>1, <2>2, <2>3 DEF Bijection, Injection, Surjection, IsInjective
  <2>5. ExistsBijection(P, Q)
    BY <2>4 DEF ExistsBijection
  <2> QED  BY <1>3, <2>5, FS_Bijection
<1>6. PICK h, g \in Nat : h = m \div 2 /\ g = n \div 2 + 1 /\ 2 * h <= m /\ 2 * g >= n + 1
  BY <1>1
<1>7. n * (2 * h) <= n * m /\ m * (2 * g) >= m * (n + 1)
  BY <1>1, <1>6
<1>8. m * g <= n * h
  BY <1>3, <1>4, <1>5, <1>6
<1> QED  BY <1>1, <1>2, <1>6, <1>7, <1>8

\* The value at the place that is reported.
LEMMA PercentileRight ==
    ASSUME NEW S, IsFiniteSet(S), S # {}, NEW b \in Nat, \A x \in S : x[2] \in 0..b
    PROVE  /\ 100 * Cardinality(AtMost(S, Percentile95(S))) >= 95 * Cardinality(S)
           /\ 100 * Cardinality(AtMost(S, Percentile95(S) - 1)) < 95 * Cardinality(S)
<1>1. PICK n \in Nat : n = Cardinality(S) /\ n # 0
  BY FS_CardinalityType, FS_EmptySet
<1>2. PICK rank \in Nat : /\ rank = Place(n)
                          /\ rank <= n /\ rank >= 1 /\ 100 * rank >= 95 * n
                          /\ \A k \in Nat : 100 * k >= 95 * n => k >= rank
  BY <1>1 DEF Place
<1>3. ASSUME NEW v PROVE /\ AtMost(S, v) \in SUBSET S
                         /\ IsFiniteSet(AtMost(S, v)) /\ Cardinality(AtMost(S, v)) \in Nat
  <2>1. AtMost(S, v) \in SUBSET S
    BY DEF AtMost
  <2> QED  BY <2>1, FS_Subset, FS_CardinalityType
<1> DEFINE W == {y \in S : Cardinality(AtMost(S, y[2])) >= rank}
           V == {x[2] : x \in W}
<1>4. V \in SUBSET Nat /\ V # {}
  <2>1. PICK z \in S : \A x \in S : x[2] <= z[2]
    BY LatestOf
  <2>2. AtMost(S, z[2]) = S
    BY <2>1 DEF AtMost
  <2> QED  BY <1>1, <1>2, <2>2
<1>5. PICK p \in V : p = Min(V) /\ \A v \in V : p <= v
  <2>1. \E x \in V : \A v \in V : x <= v
    <3> HIDE DEF V
    <3> QED  BY <1>4, SmallestNumber
  <2> QED  BY <2>1 DEF Min
<1>6. Percentile95(S) = p
  BY <1>1, <1>2, <1>5 DEF Percentile95
<1>7. 100 * Cardinality(AtMost(S, p)) >= 95 * n
  <2>1. Cardinality(AtMost(S, p)) >= rank
    OBVIOUS
  <2> QED  BY <1>1, <1>2, <1>3, <2>1
<1>8. ASSUME 100 * Cardinality(AtMost(S, p - 1)) >= 95 * n PROVE FALSE
  <2> DEFINE A == AtMost(S, p - 1)
  <2>1. Cardinality(A) >= rank /\ A # {}
    BY <1>2, <1>3, <1>8, FS_EmptySet
  <2>2. PICK z \in A : \A x \in A : x[2] <= z[2]
    <3>1. \A x \in A : x[2] \in 0..b
      BY <1>3
    <3> HIDE DEF A
    <3> QED  BY <2>1, <3>1, LatestOf
  <2>3. z \in S /\ z[2] <= p - 1 /\ p \in Nat
    BY <1>4 DEF AtMost
  <2>4. AtMost(S, z[2]) = A
    BY <2>2, <2>3 DEF AtMost
  <2>5. z[2] \in V
    BY <2>1, <2>3, <2>4
  <2>6. PICK v \in Nat : v = z[2]
    BY <2>3
  <2>7. p <= v
    BY <1>5, <2>5, <2>6
  <2> QED  BY <2>3, <2>6, <2>7
<1>9. Cardinality(AtMost(S, p - 1)) \in Nat
  BY <1>3
<1> QED  BY <1>1, <1>6, <1>7, <1>8, <1>9

LEMMA BenchStart == BenchInit => BenchInv
<1> SUFFICES ASSUME BenchInit PROVE BenchInv
  OBVIOUS
<1>1. 1 \in Manifests /\ 0 \in 0..MaxManifest /\ 0 \in 0..MaxBreaks
  BY BenchAssumption DEF Manifests
<1>2. NoRecords \in [Reads -> RunRecord \cup {NoFile}]
  BY DEF NoRecords
<1>3. NoRecords \in [Reads -> Artifact \cup {NoFile, Cut}]
  BY DEF NoRecords
<1>4. BenchTypeOK
  BY <1>1, <1>2, <1>3, BenchAssumption DEF BenchInit, BenchTypeOK
<1>5. RunRecordsInv /\ ArtifactsInv
  BY DEF BenchInit, RunRecordsInv, ArtifactsInv, WasRun, Readable
<1>6. ResultsAreOfTheirManifest /\ FinishedMatchesArtifacts
  BY DEF BenchInit, ResultsAreOfTheirManifest, FinishedMatchesArtifacts, Readable
<1> QED  BY <1>4, <1>5, <1>6 DEF BenchInit, BenchInv

\* What results.json names under its own manifest is of it, but for stray artifacts.
LEMMA NamedArtifact ==
    ASSUME BenchInv, ~strayArtifacts, Readable(results),
           benchStage = "fetch" \/ Rest \/ results.manifest = manifestNow,
           NEW p \in Reads, results.runs[p].status = "success", Readable(raw[p])
    PROVE  raw[p].content = results.manifest
BY DEF BenchInv, ArtifactsInv, OverOthersArtifacts

\* What is resumed was read from the pinned document, unless it is a stray artifact.
LEMMA ResumedOutput ==
    ASSUME BenchInv, NEW p \in Reads, Resumable(p)
    PROVE  /\ raw[p] \in Artifact
           /\ raw[p].content = manifestNow \/ (resuming /\ strayArtifacts)
           /\ results.runs[p].seconds \in 0..MaxSeconds
<1>1. raw[p] \in Artifact /\ results \in ResultsFile
  BY DEF BenchInv, BenchTypeOK, Resumable, Named, Readable
<1>2. strayArtifacts \/ raw[p].content = manifestNow
  BY NamedArtifact DEF BenchInv, BenchTypeOK, Resumable, Named
<1>3. results.runs[p] \in RunRecord
  BY <1>1 DEF ResultsFile
<1> QED  BY <1>1, <1>2, <1>3 DEF RunRecord, Resumable, Named

\* The result of an engine that ran.
LEMMA EngineOutput ==
    ASSUME BenchInv, NEW p \in Reads, benchStage = "pairs"
    PROVE  /\ [content |-> corpus[p[2]], tokens |-> vocabulary[p[1]]] \in Artifact
           /\ corpus[p[2]] = manifestNow
<1>1. p[1] \in Engines /\ p[2] \in CorpusDocs
  BY BenchAssumption
<1>2. vocabulary[p[1]] \in SUBSET Tokens
  BY <1>1 DEF BenchInv, BenchTypeOK
<1>3. corpus[p[2]] = manifestNow /\ manifestNow \in Manifests
  BY <1>1 DEF BenchInv, BenchTypeOK
<1> QED  BY <1>2, <1>3 DEF Artifact

\* A pair is recorded, and its artifact, if one was written, is of the corpus.
LEMMA PairKeeps ==
    ASSUME BenchInv, NEW p \in Reads, IsNext(p), NEW record \in RunRecord,
           AddRecord(p, record),
           \/ raw' = raw
           \/ \E output \in Artifact : /\ raw' = [raw EXCEPT ![p] = output]
                                      /\ output.content = manifestNow,
           record.status = "success" =>
               /\ record.output = raw'[p]
               /\ raw'[p].content = manifestNow \/ (resuming /\ strayArtifacts),
           benchBreaks' \in 0..MaxBreaks,
           UNCHANGED <<benchStage, resuming, manifestNow, corpus, installed, vocabulary,
                       results, strayArtifacts>>
    PROVE  BenchInv'
<1>1. BenchTypeOK'
  <2>1. raw' \in [Reads -> Artifact \cup {NoFile, Cut}]
    BY DEF BenchInv, BenchTypeOK
  <2>2. runRecords' \in [Reads -> RunRecord \cup {NoFile}] /\ pairsLeft' \subseteq Reads
    BY DEF BenchInv, BenchTypeOK, AddRecord
  <2> QED  BY <2>1, <2>2 DEF BenchInv, BenchTypeOK
<1>2. benchStage = "pairs" /\ benchStage' = "pairs"
  BY DEF IsNext
<1>3. ASSUME NEW q \in Reads
      PROVE  \/ raw'[q] = raw[q]
             \/ q = p /\ raw'[q].content = manifestNow
  BY DEF BenchInv, BenchTypeOK
<1>4. ArtifactsInv'
  <2> SUFFICES ASSUME Readable(results), ~strayArtifacts, results.manifest = manifestNow,
                      NEW q \in Reads, results.runs[q].status = "success", Readable(raw'[q])
               PROVE  raw'[q].content = results.manifest
    BY <1>2 DEF ArtifactsInv, Readable, OverOthersArtifacts, Rest
  <2>1. CASE raw'[q] = raw[q]
    <3>1. Readable(raw[q])
      BY <2>1 DEF Readable
    <3> QED  BY <2>1, <3>1, NamedArtifact
  <2>2. CASE raw'[q].content = manifestNow
    BY <2>2
  <2> QED  BY <1>3, <2>1, <2>2
<1>5. RunRecordsInv'
  <2> SUFFICES ASSUME NEW q \in Reads, WasRun(q)'
               PROVE  /\ runRecords'[q] \in RunRecord
                      /\ runRecords'[q].status = "success" =>
                           /\ runRecords'[q].output = raw'[q]
                           /\ raw'[q].content = manifestNow \/ (resuming /\ strayArtifacts)
    BY DEF RunRecordsInv
  <2>1. CASE q = p
    <3>1. runRecords'[p] = record
      BY DEF AddRecord, BenchInv, BenchTypeOK
    <3> QED  BY <2>1, <3>1
  <2>2. CASE q # p
    <3>1. WasRun(q)
      BY <1>2, <2>2 DEF WasRun, AddRecord
    <3>2. raw'[q] = raw[q] /\ runRecords'[q] = runRecords[q]
      BY <2>2 DEF AddRecord, BenchInv, BenchTypeOK
    <3> QED  BY <3>1, <3>2 DEF BenchInv, RunRecordsInv
  <2> QED  BY <2>1, <2>2
<1>6. ResultsAreOfTheirManifest' /\ FinishedMatchesArtifacts'
  BY <1>2 DEF BenchInv, ResultsAreOfTheirManifest, FinishedMatchesArtifacts, Readable
<1> QED  BY <1>1, <1>2, <1>4, <1>5, <1>6 DEF BenchInv

LEMMA PairsKeep ==
    ASSUME BenchInv, NEW p \in Reads,
           \/ ResumePair(p) \/ SkipUnavailable(p) \/ PairSucceeds(p)
           \/ \E status \in {"timeout", "error"} : PairFails(p, status)
    PROVE  BenchInv'
<1> DEFINE RecordOf(s, o, n) == [status |-> s, output |-> o, seconds |-> n]
<1>1. IsNext(p) /\ benchStage = "pairs"
  BY DEF ResumePair, SkipUnavailable, PairSucceeds, PairFails, IsNext
<1>2. ASSUME NEW s \in Statuses, NEW o \in Artifact \cup {NoOutput}, NEW n \in 0..MaxSeconds
      PROVE  /\ RecordOf(s, o, n) \in RunRecord
             /\ RecordOf(s, o, n).status = s /\ RecordOf(s, o, n).output = o
  BY DEF RunRecord
<1> HIDE DEF RecordOf
<1>3. /\ benchBreaks \in 0..MaxBreaks
      /\ {"success", "unavailable", "timeout", "error"} \subseteq Statuses
  BY DEF BenchInv, BenchTypeOK, Statuses
<1>4. CASE ResumePair(p)
  <2>1. Resumable(p)
    BY <1>4 DEF ResumePair
  <2> DEFINE r == RecordOf("success", raw[p], results.runs[p].seconds)
  <2>2. /\ r \in RunRecord /\ r.output = raw[p]
        /\ raw[p].content = manifestNow \/ (resuming /\ strayArtifacts)
    BY <1>2, <1>3, <2>1, ResumedOutput
  <2>3. /\ AddRecord(p, r) /\ raw' = raw /\ benchBreaks' \in 0..MaxBreaks
        /\ UNCHANGED <<benchStage, resuming, manifestNow, corpus, installed, vocabulary,
                       results, strayArtifacts>>
    BY <1>3, <1>4 DEF ResumePair, RecordOf
  <2> HIDE DEF r
  <2> QED  BY <1>1, <2>2, <2>3, PairKeeps
<1>5. CASE SkipUnavailable(p)
  <2> DEFINE r == RecordOf("unavailable", NoOutput, 0)
  <2>0. 0 \in 0..MaxSeconds
    BY BenchAssumption
  <2>1. r \in RunRecord /\ r.status = "unavailable"
    BY <1>2, <1>3, <2>0
  <2>2. /\ AddRecord(p, r) /\ raw' = raw /\ benchBreaks' \in 0..MaxBreaks
        /\ UNCHANGED <<benchStage, resuming, manifestNow, corpus, installed, vocabulary,
                       results, strayArtifacts>>
    BY <1>3, <1>5 DEF SkipUnavailable, RecordOf
  <2> HIDE DEF r
  <2> QED  BY <1>1, <2>1, <2>2, PairKeeps
<1>6. CASE PairSucceeds(p)
  <2> DEFINE output == [content |-> corpus[p[2]], tokens |-> vocabulary[p[1]]]
  <2>1. PICK seconds \in 1..MaxSeconds : AddRecord(p, RecordOf("success", output, seconds))
    BY <1>6 DEF PairSucceeds, RecordOf
  <2>2. /\ raw' = [raw EXCEPT ![p] = output]
        /\ benchBreaks' \in 0..MaxBreaks
        /\ UNCHANGED <<benchStage, resuming, manifestNow, corpus, installed, vocabulary,
                       results, strayArtifacts>>
    BY <1>3, <1>6 DEF PairSucceeds
  <2>3. PICK o \in Artifact : o = output /\ o.content = manifestNow
    BY <1>1, EngineOutput
  <2>4. PICK r : r = RecordOf("success", o, seconds)
    OBVIOUS
  <2>5. seconds \in 0..MaxSeconds
    BY BenchAssumption
  <2>6. r \in RunRecord /\ r.output = o /\ AddRecord(p, r)
    BY <1>2, <1>3, <2>1, <2>3, <2>4, <2>5
  <2>7. raw' = [raw EXCEPT ![p] = o] /\ raw'[p] = o
    BY <2>2, <2>3 DEF BenchInv, BenchTypeOK
  <2> QED  BY <1>1, <2>2, <2>3, <2>6, <2>7, PairKeeps
<1>7. ASSUME NEW status \in {"timeout", "error"}, PairFails(p, status) PROVE BenchInv'
  <2> DEFINE r == RecordOf(status, NoOutput, MaxSeconds)
  <2>0. MaxSeconds \in 0..MaxSeconds
    BY BenchAssumption
  <2>1. r \in RunRecord /\ r.status # "success"
    BY <1>2, <1>3, <2>0
  <2>2. benchBreaks' \in 0..MaxBreaks
    BY <1>3, <1>7, BenchAssumption DEF PairFails, Break
  <2>3. /\ AddRecord(p, r) /\ raw' = raw
        /\ UNCHANGED <<benchStage, resuming, manifestNow, corpus, installed, vocabulary,
                       results, strayArtifacts>>
    BY <1>7 DEF PairFails, RecordOf
  <2> HIDE DEF r
  <2> QED  BY <1>1, <2>1, <2>2, <2>3, PairKeeps
<1> QED  BY <1>4, <1>5, <1>6, <1>7

\* The start, the corpus, and what changes between two runs.
LEMMA CorpusKeeps ==
    ASSUME BenchInv,
           \/ StartRun \/ CorpusFetched \/ ResultsUndecodable \/ SetupTools \/ ChangeManifest
           \/ \E d \in CorpusDocs : FetchDocument(d) \/ FetchFails(d)
           \/ \E e \in Engines : SetupFails(e)
    PROVE  BenchInv'
<1>1. BenchTypeOK'
  <2>1. NoRecords \in [Reads -> RunRecord \cup {NoFile}]
    BY DEF NoRecords
  <2>2. manifestNow \in 0..MaxManifest /\ 0 \in 0..MaxManifest
    BY BenchAssumption DEF BenchInv, BenchTypeOK, Manifests
  <2>3. [e \in Engines |-> TRUE] \in [Engines -> BOOLEAN]
    OBVIOUS
  <2>4. Break => benchBreaks' \in 0..MaxBreaks
    BY BenchAssumption DEF BenchInv, BenchTypeOK, Break
  <2>5. CASE StartRun \/ CorpusFetched \/ ResultsUndecodable
    BY <2>1, <2>5 DEF StartRun, CorpusFetched, ResultsUndecodable, BenchInv, BenchTypeOK
  <2>6. CASE SetupTools \/ ChangeManifest
    BY <2>3, <2>6 DEF SetupTools, ChangeManifest, BenchInv, BenchTypeOK
  <2>7. ASSUME NEW d \in CorpusDocs, FetchDocument(d) \/ FetchFails(d) PROVE BenchTypeOK'
    BY <2>2, <2>4, <2>7 DEF FetchDocument, FetchFails, BenchInv, BenchTypeOK
  <2>8. ASSUME NEW e \in Engines, SetupFails(e) PROVE BenchTypeOK'
    BY <2>4, <2>8 DEF SetupFails, BenchInv, BenchTypeOK
  <2> QED  BY <2>5, <2>6, <2>7, <2>8
<1>2. /\ UNCHANGED <<raw, results, strayArtifacts>>
      /\ benchStage = "fetch" \/ Rest
      /\ manifestNow' = manifestNow \/ benchStage' = "idle"
      /\ benchStage' \in {"idle", "fetch", "pairs"} \/ (benchStage' = benchStage /\ Rest)
  BY DEF StartRun, CorpusFetched, ResultsUndecodable, Fetched, SetupTools, ChangeManifest,
     FetchDocument, FetchFails, SetupFails
<1>3. ResultsAreOfTheirManifest' /\ FinishedMatchesArtifacts'
  BY <1>2 DEF BenchInv, ResultsAreOfTheirManifest, FinishedMatchesArtifacts, Rest, Readable
<1>4. ArtifactsInv'
  <2> SUFFICES ASSUME Readable(results), ~strayArtifacts,
                      NEW q \in Reads, results.runs[q].status = "success", Readable(raw[q])
               PROVE  raw[q].content = results.manifest
    BY <1>2 DEF ArtifactsInv, Readable
  <2> QED  BY <1>2, NamedArtifact
<1>5. benchStage' = "pairs" =>
        pairsLeft' = Reads /\ \A d \in CorpusDocs : corpus'[d] = manifestNow'
  BY DEF StartRun, CorpusFetched, ResultsUndecodable, Fetched, SetupTools, ChangeManifest,
     FetchDocument, FetchFails, SetupFails, Rest
<1>6. RunRecordsInv'
  BY <1>2, <1>5 DEF RunRecordsInv, WasRun, Rest
<1> QED  BY <1>1, <1>2, <1>3, <1>4, <1>5, <1>6 DEF BenchInv, Rest, Readable

\* A run that dies, or meets an artifact that it cannot decode.
LEMMA DyingKeeps ==
    ASSUME BenchInv, BenchmarkDies \/ \E p \in Reads : ArtifactUndecodable(p)
    PROVE  BenchInv'
<1>1. /\ benchStage' = "idle" /\ pairsLeft' = {} /\ runRecords' = NoRecords
      /\ UNCHANGED <<resuming, manifestNow, corpus, installed, vocabulary>>
  BY DEF BenchmarkDies, ArtifactUndecodable
<1>2. benchBreaks' \in 0..MaxBreaks
  BY BenchAssumption DEF BenchmarkDies, ArtifactUndecodable, Break, BenchInv, BenchTypeOK
<1>3. /\ raw' \in [Reads -> Artifact \cup {NoFile, Cut}]
      /\ \A q \in Reads : raw'[q] = raw[q] \/ ~Readable(raw'[q])
      /\ results' = results \/ results' = Cut
  <2>1. CASE \E p \in Reads : ArtifactUndecodable(p)
    BY <2>1 DEF ArtifactUndecodable, BenchInv, BenchTypeOK
  <2>2. CASE BenchmarkDies
    BY <2>2 DEF BenchmarkDies, BenchInv, BenchTypeOK, Readable
  <2> QED  BY <2>1, <2>2
<1>4. strayArtifacts' \in BOOLEAN /\ (strayArtifacts => strayArtifacts')
  BY DEF BenchmarkDies, ArtifactUndecodable, BenchInv, BenchTypeOK
<1>5. ~strayArtifacts' /\ Readable(results) => results.manifest = manifestNow \/ benchStage = "fetch"
  BY DEF BenchmarkDies, ArtifactUndecodable, OverOthersArtifacts, Named
<1>6. BenchTypeOK'
  BY <1>1, <1>2, <1>3, <1>4 DEF BenchInv, BenchTypeOK, NoRecords
<1>7. ArtifactsInv'
  <2> SUFFICES ASSUME Readable(results'), ~strayArtifacts', NEW q \in Reads,
                      results'.runs[q].status = "success", Readable(raw'[q])
               PROVE  raw'[q].content = results'.manifest
    BY DEF ArtifactsInv, Readable
  <2>1. results' = results /\ raw'[q] = raw[q] /\ ~strayArtifacts
    BY <1>3, <1>4 DEF Readable
  <2>2. Readable(results) /\ Readable(raw[q])
    BY <2>1 DEF Readable
  <2> QED  BY <1>5, <2>1, <2>2, NamedArtifact
<1>8. RunRecordsInv' /\ FinishedMatchesArtifacts'
  BY <1>1 DEF RunRecordsInv, WasRun, FinishedMatchesArtifacts
<1>9. ResultsAreOfTheirManifest'
  BY <1>3, <1>4 DEF BenchInv, ResultsAreOfTheirManifest, Readable
<1> QED  BY <1>1, <1>6, <1>7, <1>8, <1>9 DEF BenchInv

\* The results are written.
LEMMA ResultsKeep ==
    ASSUME BenchInv, PairsDone \/ OverwriteResults \/ WriteResults
    PROVE  BenchInv'
<1>1. CASE PairsDone
  <2>1. RunRecordsInv'
    <3>1. \A q \in Reads : WasRun(q)
      BY <1>1 DEF PairsDone, WasRun
    <3> QED  BY <1>1, <3>1 DEF PairsDone, BenchInv, RunRecordsInv
  <2>2. ArtifactsInv'
    BY <1>1 DEF PairsDone, BenchInv, ArtifactsInv, OverOthersArtifacts, Rest, Readable
  <2> QED
    BY <1>1, <2>1, <2>2 DEF PairsDone, BenchInv, BenchTypeOK, ResultsAreOfTheirManifest,
       FinishedMatchesArtifacts, Readable
<1>2. CASE OverwriteResults
  <2>1. RunRecordsInv'
    BY <1>2 DEF OverwriteResults, BenchInv, RunRecordsInv, WasRun
  <2> QED
    BY <1>2, <2>1 DEF OverwriteResults, BenchInv, BenchTypeOK, ResultsAreOfTheirManifest,
       FinishedMatchesArtifacts, ArtifactsInv, Readable
<1>3. CASE WriteResults
  <2>1. \A q \in Reads : /\ runRecords[q] \in RunRecord
                         /\ runRecords[q].status = "success" =>
                              /\ runRecords[q].output = raw[q]
                              /\ raw[q].content = manifestNow \/ strayArtifacts'
    BY <1>3 DEF WriteResults, BenchInv, RunRecordsInv, WasRun
  <2>2. runRecords \in [Reads -> RunRecord] /\ manifestNow \in Manifests
    BY <2>1 DEF BenchInv, BenchTypeOK
  <2>3. /\ results' \in ResultsFile /\ Readable(results')
        /\ results'.manifest = manifestNow /\ results'.runs = runRecords
    BY <1>3, <2>2, FilesAssumption DEF WriteResults, ResultsFile, Readable
  <2>4. BenchTypeOK'
    BY <1>3, <2>3 DEF WriteResults, BenchInv, BenchTypeOK
  <2>5. ResultsAreOfTheirManifest' /\ FinishedMatchesArtifacts'
    BY <1>3, <2>1, <2>3 DEF WriteResults, ResultsAreOfTheirManifest, FinishedMatchesArtifacts
  <2>6. ArtifactsInv'
    BY <1>3, <2>1, <2>3 DEF WriteResults, ArtifactsInv
  <2>7. RunRecordsInv'
    BY <1>3 DEF WriteResults, RunRecordsInv, WasRun
  <2> QED  BY <1>3, <2>3, <2>4, <2>5, <2>6, <2>7 DEF WriteResults, BenchInv, Readable
<1> QED  BY <1>1, <1>2, <1>3

\* The scores of the results of a finished benchmark.
LEMMA ScoresHold ==
    ASSUME BenchInv
    PROVE  SomeEngineRecallsHalf /\ PercentileCovers
<1> SUFFICES ASSUME benchStage = "finished" PROVE SomeEngineRecallsHalf /\ PercentileCovers
  BY DEF SomeEngineRecallsHalf, PercentileCovers
<1>1. results \in ResultsFile
  BY DEF BenchInv, BenchTypeOK, Readable
<1>2. \A q \in Reads : results.runs[q] \in RunRecord
  BY <1>1 DEF ResultsFile
<1>3. ASSUME NEW d \in CorpusDocs, Consensus(d) # {}
      PROVE  \E e \in Compared(d) :
               2 * Cardinality(TokensOf(e, d) \cap Consensus(d)) > Cardinality(Consensus(d))
  <2>1. PICK C, K : C = Compared(d) /\ K = Consensus(d)
    OBVIOUS
  <2>2. IsFiniteSet(C) /\ IsFiniteSet(K) /\ K # {}
    <3>1. C \in SUBSET Engines /\ K \in SUBSET Tokens
      BY <2>1 DEF Compared, Consensus
    <3> QED  BY <1>3, <2>1, <3>1, FS_Subset, BenchAssumption
  <2>3. PICK found : found = [e \in C |-> TokensOf(e, d)]
    OBVIOUS
  <2>4. found \in [C -> SUBSET Tokens]
    <3>1. ASSUME NEW e \in C PROVE TokensOf(e, d) \in SUBSET Tokens
      <4>1. <<e, d>> \in Reads
        BY <2>1 DEF Compared
      <4>2. results.runs[<<e, d>>].output \in Artifact \cup {NoOutput}
        BY <1>2, <4>1 DEF RunRecord
      <4> QED  BY <4>2 DEF Artifact, NoOutput, TokensOf
    <3> QED  BY <2>3, <3>1
  <2>5. ASSUME NEW t \in K PROVE Cardinality({e \in C : t \in found[e]}) >= Threshold(C)
    <3>1. {e \in C : t \in found[e]} = {e \in C : t \in TokensOf(e, d)}
      BY <2>3
    <3> QED  BY <2>1, <3>1 DEF Consensus
  <2>6. PICK e \in C : 2 * Cardinality(found[e] \cap K) > Cardinality(K)
    BY <2>2, <2>4, <2>5, MajorityRecalled
  <2> QED  BY <2>1, <2>3, <2>6
<1>4. ASSUME NEW e \in Engines, Durations(e) # {}
      PROVE  /\ 100 * Cardinality(AtMost(Durations(e), Percentile95(Durations(e))))
                   >= 95 * Cardinality(Durations(e))
             /\ 100 * Cardinality(AtMost(Durations(e), Percentile95(Durations(e)) - 1))
                   < 95 * Cardinality(Durations(e))
  <2>1. PICK S : S = Durations(e)
    OBVIOUS
  <2>2. S \in SUBSET (Reads \X (0..MaxSeconds))
    BY <1>2, <2>1 DEF Durations, RunRecord
  <2>3. IsFiniteSet(Reads \X (0..MaxSeconds))
    <3>1. IsFiniteSet(Reads)
      BY FS_Product, FS_Subset, BenchAssumption
    <3>2. IsFiniteSet(0..MaxSeconds)
      BY FS_Interval, BenchAssumption
    <3> QED  BY <3>1, <3>2, FS_Product
  <2>4. IsFiniteSet(S) /\ S # {} /\ \A x \in S : x[2] \in 0..MaxSeconds
    <3>1. PICK U : U = Reads \X (0..MaxSeconds)
      OBVIOUS
    <3>2. IsFiniteSet(S)
      BY <2>2, <2>3, <3>1, FS_Subset
    <3> QED  BY <1>4, <2>1, <2>2, <3>2
  <2> QED  BY <2>1, <2>4, PercentileRight, BenchAssumption
<1> QED  BY <1>3, <1>4 DEF SomeEngineRecallsHalf, PercentileCovers

\* Every step of a benchmark.
LEMMA BenchGoesOn ==
    ASSUME BenchInv, [BenchNext]_benchVars
    PROVE  BenchInv'
<1>1. CASE UNCHANGED benchVars
  <2>1. BenchTypeOK' /\ RunRecordsInv' /\ ArtifactsInv'
    BY <1>1 DEF benchVars, BenchInv, BenchTypeOK, RunRecordsInv, WasRun, ArtifactsInv,
       OverOthersArtifacts, Rest, Readable
  <2> QED
    BY <1>1, <2>1 DEF benchVars, BenchInv, ResultsAreOfTheirManifest, FinishedMatchesArtifacts,
       Readable
<1> QED  BY <1>1, PairsKeep, CorpusKeeps, ResultsKeep, DyingKeeps DEF BenchNext, RunStep

\* Whatever manifests come and come again, and wherever runs are interrupted: results mix
\* corpora only over what a run of another manifest left when it died; a benchmark that
\* finished counts the artifacts on disk; its consensus is a majority's and its p95
\* covers 95 % of the runs, for every corpus and any number of engines
\* (hwp_parser_benchmark.py).
THEOREM BenchmarksAreTrue == BenchSpec => []BenchmarkIsTrue
<1>1. BenchInv /\ [BenchNext]_benchVars => BenchInv'
  BY BenchGoesOn
<1>2. BenchInv => BenchmarkIsTrue
  BY ScoresHold DEF BenchInv, BenchmarkIsTrue
<1> QED  BY <1>1, <1>2, BenchStart, PTL DEF BenchSpec

-----------------------------------------------------------------------------
(* The blocks of a sheet of a workbook. *)

Listed(list) == {list[k] : k \in 1..Len(list)}
Increases(list) == \A j, k \in 1..Len(list) : j < k => list[j] < list[k]

Above(list, below) == \A n \in below : \A k \in 1..Len(list) : n < list[k]

SheetBlock == [kind : {"text", "table"}, run : Seq(Nat)]

\* Blocks in the order of their rows.
InBlocks(parts) == parts \in Seq(SheetBlock) /\ RunsInOrder(parts)

\* A block added below the others keeps the rows in order.
LEMMA BlockIsAdded ==
    ASSUME NEW parts, InBlocks(parts), NEW kind \in {"text", "table"},
           NEW list \in Seq(Nat), Increases(list), Above(list, RunsOf(parts))
    PROVE  /\ InBlocks(parts \o BlocksOf(kind, list))
           /\ RunsOf(parts \o BlocksOf(kind, list)) = RunsOf(parts) \cup Listed(list)
<1> DEFINE added == parts \o BlocksOf(kind, list)
<1>1. parts \in Seq(SheetBlock) /\ RunsInOrder(parts) /\ Len(parts) \in Nat BY DEF InBlocks
<1>2. CASE list = <<>>
  <2>1. BlocksOf(kind, list) = <<>> BY <1>2 DEF BlocksOf
  <2>2. added = parts BY <1>1, <2>1
  <2>3. Listed(list) = {} BY <1>2 DEF Listed
  <2> QED BY <1>1, <2>2, <2>3 DEF InBlocks
<1>3. CASE list # <<>>
  <2> DEFINE last == BlockOf(kind, list)
  <2>1. last \in SheetBlock /\ last.run = list BY DEF BlockOf, SheetBlock
  <2>2. added = Append(parts, last)
    <3>1. BlocksOf(kind, list) = <<last>> BY <1>3 DEF BlocksOf
    <3> QED BY <1>1, <2>1, <3>1
  <2>3. /\ added \in Seq(SheetBlock) /\ Len(added) = Len(parts) + 1
        /\ \A b \in 1..Len(parts) : added[b] = parts[b]
        /\ added[Len(parts) + 1] = last
    BY <1>1, <2>1, <2>2
  <2> HIDE DEF added, last
  <2>4. RunsOf(added) = RunsOf(parts) \cup Listed(list)
    <3>1. ASSUME NEW n \in RunsOf(added) PROVE n \in RunsOf(parts) \cup Listed(list)
      <4>1. PICK b \in 1..Len(added) : n \in {added[b].run[k] : k \in 1..Len(added[b].run)}
        BY <3>1 DEF RunsOf
      <4>2. CASE b = Len(parts) + 1 BY <4>1, <4>2, <2>1, <2>3 DEF Listed
      <4>3. CASE b # Len(parts) + 1
        <5>1. b \in 1..Len(parts) BY <4>1, <4>3, <2>3, <1>1
        <5>2. n \in {parts[b].run[k] : k \in 1..Len(parts[b].run)} BY <4>1, <5>1, <2>3
        <5>3. n \in RunsOf(parts) BY <5>1, <5>2 DEF RunsOf
        <5> QED BY <5>3
      <4> QED BY <4>2, <4>3
    <3>2. ASSUME NEW n \in RunsOf(parts) PROVE n \in RunsOf(added)
      <4>1. PICK b \in 1..Len(parts) : n \in {parts[b].run[k] : k \in 1..Len(parts[b].run)}
        BY <3>2 DEF RunsOf
      <4>2. b \in 1..Len(added) /\ added[b] = parts[b] BY <1>1, <2>3
      <4> QED BY <4>1, <4>2 DEF RunsOf
    <3>3. ASSUME NEW n \in Listed(list) PROVE n \in RunsOf(added)
      <4>1. Len(parts) + 1 \in 1..Len(added) BY <1>1, <2>3
      <4>2. Listed(list) = {added[Len(parts) + 1].run[k] :
                              k \in 1..Len(added[Len(parts) + 1].run)}
        BY <2>1, <2>3 DEF Listed
      <4> QED BY <3>3, <4>1, <4>2 DEF RunsOf
    <3> QED BY <3>1, <3>2, <3>3
  <2>5. RunsInOrder(added)
    <3> SUFFICES ASSUME NEW b \in 1..Len(added), NEW c \in 1..Len(added),
                        NEW j \in 1..Len(added[b].run), NEW k \in 1..Len(added[c].run),
                        b < c \/ (b = c /\ j < k)
                 PROVE  added[b].run[j] < added[c].run[k]
      BY DEF RunsInOrder
    <3>1. CASE c # Len(parts) + 1
      <4>1. b \in 1..Len(parts) /\ c \in 1..Len(parts) BY <3>1, <1>1, <2>3
      <4>2. added[b] = parts[b] /\ added[c] = parts[c] BY <4>1, <2>3
      <4> QED BY <1>1, <4>1, <4>2 DEF RunsInOrder
    <3>2. CASE c = Len(parts) + 1 /\ b # c
      <4>1. b \in 1..Len(parts) BY <3>2, <1>1, <2>3
      <4>2. added[b] = parts[b] /\ added[c].run = list BY <3>2, <4>1, <2>1, <2>3
      <4>3. added[b].run[j] \in RunsOf(parts)
        <5>1. j \in 1..Len(parts[b].run) BY <4>2
        <5>2. parts[b].run[j] \in {parts[b].run[m] : m \in 1..Len(parts[b].run)} BY <5>1
        <5>3. parts[b].run[j] \in RunsOf(parts) BY <4>1, <5>2 DEF RunsOf
        <5> QED BY <4>2, <5>3
      <4> QED BY <4>2, <4>3 DEF Above
    <3>3. CASE c = Len(parts) + 1 /\ b = c
      BY <3>3, <2>1, <2>3 DEF Increases
    <3> QED BY <3>1, <3>2, <3>3
  <2> QED BY <2>3, <2>4, <2>5 DEF InBlocks, added
<1> QED BY <1>2, <1>3

\* The band above a table is a part of its rows.
LEMMA BandIsAPart ==
    ASSUME NEW lines, NEW list \in Seq(Nat)
    PROVE  Preamble(lines, list) \in 0..Len(list)
<1> DEFINE numbered == {n \in 1..Len(list) : lines[list[n]] = "numbers"}
           body == CHOOSE n \in numbered : \A m \in numbered : n <= m
<1>1. Len(list) \in Nat OBVIOUS
<1>2. CASE Len(list) >= 3 /\ lines[list[1]] # "banded" /\ numbered # {} /\ body \in 3..5
  <2>1. numbered \in SUBSET Nat /\ numbered # {} BY <1>1, <1>2
  <2>2. \E n \in numbered : \A m \in numbered : n <= m
    <3> HIDE DEF numbered
    <3> QED BY <2>1, SmallestNumber
  <2>3. body \in numbered BY <2>2
  <2>4. body \in 1..Len(list) BY <2>3
  <2>5. Preamble(lines, list) = body - 2 BY <1>2 DEF Preamble
  <2> HIDE DEF body
  <2> QED BY <1>1, <1>2, <2>4, <2>5
<1>3. CASE ~(Len(list) >= 3 /\ lines[list[1]] # "banded" /\ numbered # {} /\ body \in 3..5)
  <2>1. Preamble(lines, list) = 0 BY <1>3 DEF Preamble
  <2> QED BY <1>1, <2>1
<1> QED BY <1>2, <1>3

\* A list is cut at its band into two, one above the other.
FrontOf(list, band) == SubSeq(list, 1, band)
BackOf(list, band) == SubSeq(list, band + 1, Len(list))

LEMMA ListIsCut ==
    ASSUME NEW list \in Seq(Nat), Increases(list), NEW band \in Nat, band <= Len(list)
    PROVE  \E front, back :
              /\ front = FrontOf(list, band) /\ back = BackOf(list, band)
              /\ front \in Seq(Nat) /\ Increases(front)
              /\ back \in Seq(Nat) /\ Increases(back)
              /\ Above(back, Listed(front))
              /\ Listed(list) = Listed(front) \cup Listed(back)
<1>1. PICK front : front = FrontOf(list, band) OBVIOUS
<1>2. PICK back : back = BackOf(list, band) OBVIOUS
<1>3. Len(list) \in Nat /\ band \in Nat /\ band <= Len(list) OBVIOUS
<1>4. /\ front \in Seq(Nat) /\ Len(front) = band
      /\ \A k \in 1..band : front[k] = list[k]
  BY <1>3, <1>1 DEF FrontOf
<1>5. /\ back \in Seq(Nat) /\ Len(back) = Len(list) - band
      /\ \A k \in 1..Len(list) - band : back[k] = list[band + k]
  BY <1>3, <1>2 DEF BackOf
<1>6. Increases(front) BY <1>3, <1>4 DEF Increases
<1>7. Increases(back)
  <2> SUFFICES ASSUME NEW j \in 1..Len(back), NEW k \in 1..Len(back), j < k
               PROVE  back[j] < back[k]
    BY DEF Increases
  <2>1. band + j \in 1..Len(list) /\ band + k \in 1..Len(list) /\ band + j < band + k
    BY <1>3, <1>5
  <2>2. list[band + j] < list[band + k] BY <2>1 DEF Increases
  <2> QED BY <1>5, <2>2
<1>8. Above(back, Listed(front))
  <2> SUFFICES ASSUME NEW j \in 1..Len(front), NEW k \in 1..Len(back)
               PROVE  front[j] < back[k]
    BY DEF Above, Listed
  <2>1. j \in 1..Len(list) /\ band + k \in 1..Len(list) /\ j < band + k
    BY <1>3, <1>4, <1>5
  <2>2. list[j] < list[band + k] BY <2>1 DEF Increases
  <2> QED BY <1>4, <1>5, <2>2
<1>9. Listed(list) = Listed(front) \cup Listed(back)
  <2>1. ASSUME NEW k \in 1..Len(list) PROVE list[k] \in Listed(front) \cup Listed(back)
    <3>1. CASE k <= band
      <4>1. k \in 1..Len(front) /\ front[k] = list[k] BY <1>3, <1>4, <3>1
      <4> QED BY <4>1 DEF Listed
    <3>2. CASE k > band
      <4>1. k - band \in 1..Len(back) /\ back[k - band] = list[k]
        <5>1. k - band \in 1..Len(list) - band /\ band + (k - band) = k BY <1>3, <3>2
        <5> QED BY <5>1, <1>5
      <4> QED BY <4>1 DEF Listed
    <3> QED BY <1>3, <3>1, <3>2
  <2>2. ASSUME NEW k \in 1..Len(front) PROVE front[k] \in Listed(list)
    <3>1. k \in 1..Len(list) /\ front[k] = list[k] BY <1>3, <1>4
    <3> QED BY <3>1 DEF Listed
  <2>3. ASSUME NEW k \in 1..Len(back) PROVE back[k] \in Listed(list)
    <3>1. band + k \in 1..Len(list) /\ back[k] = list[band + k] BY <1>3, <1>5
    <3> QED BY <3>1 DEF Listed
  <2>4. Listed(list) \subseteq Listed(front) \cup Listed(back)
    <3>1. \A m \in Listed(list) : \E k \in 1..Len(list) : m = list[k] BY DEF Listed
    <3> QED BY <2>1, <3>1
  <2>5. Listed(front) \subseteq Listed(list)
    <3>1. \A m \in Listed(front) : \E k \in 1..Len(front) : m = front[k] BY DEF Listed
    <3> QED BY <2>2, <3>1
  <2>6. Listed(back) \subseteq Listed(list)
    <3>1. \A m \in Listed(back) : \E k \in 1..Len(back) : m = back[k] BY DEF Listed
    <3> QED BY <2>3, <3>1
  <2> QED BY <2>4, <2>5, <2>6
<1> QED BY <1>1, <1>2, <1>4, <1>5, <1>6, <1>7, <1>8, <1>9

\* So does a table with the band above it.
LEMMA TableIsAdded ==
    ASSUME NEW parts, InBlocks(parts), NEW lines,
           NEW list \in Seq(Nat), Increases(list), Above(list, RunsOf(parts))
    PROVE  /\ InBlocks(parts \o FlushTable(lines, list))
           /\ RunsOf(parts \o FlushTable(lines, list)) = RunsOf(parts) \cup Listed(list)
<1>1. PICK band \in Nat : band <= Len(list) /\ band = Preamble(lines, list)
  <2>1. Preamble(lines, list) \in 0..Len(list) BY BandIsAPart
  <2>2. Len(list) \in Nat OBVIOUS
  <2> QED BY <2>1, <2>2
<1>2. PICK front, back :
        /\ front = FrontOf(list, band) /\ back = BackOf(list, band)
        /\ front \in Seq(Nat) /\ Increases(front)
        /\ back \in Seq(Nat) /\ Increases(back)
        /\ Above(back, Listed(front))
        /\ Listed(list) = Listed(front) \cup Listed(back)
  BY <1>1, ListIsCut
<1>3. FlushTable(lines, list) = BlocksOf("text", front) \o BlocksOf("table", back)
  BY <1>1, <1>2 DEF FlushTable, FrontOf, BackOf
<1>4. Above(front, RunsOf(parts)) /\ Above(back, RunsOf(parts))
  <2>1. \A k \in 1..Len(front) : front[k] \in Listed(list) BY <1>2 DEF Listed
  <2>2. \A k \in 1..Len(back) : back[k] \in Listed(list) BY <1>2 DEF Listed
  <2>3. \A m \in RunsOf(parts), n \in Listed(list) : m < n BY DEF Above, Listed
  <2> QED BY <2>1, <2>2, <2>3 DEF Above
<1>5. PICK more : more = parts \o BlocksOf("text", front) OBVIOUS
<1>6. InBlocks(more) /\ RunsOf(more) = RunsOf(parts) \cup Listed(front)
  BY <1>2, <1>4, <1>5, BlockIsAdded
<1>7. Above(back, RunsOf(more)) BY <1>2, <1>4, <1>6 DEF Above
<1>8. /\ InBlocks(more \o BlocksOf("table", back))
       /\ RunsOf(more \o BlocksOf("table", back)) = RunsOf(more) \cup Listed(back)
  BY <1>2, <1>6, <1>7, BlockIsAdded
<1>9. more \o BlocksOf("table", back) = parts \o FlushTable(lines, list)
  <2>1. parts \in Seq(SheetBlock) BY DEF InBlocks
  <2>2. BlocksOf("text", front) \in Seq(SheetBlock) /\ BlocksOf("table", back) \in Seq(SheetBlock)
    <3>1. BlockOf("text", front) \in SheetBlock /\ BlockOf("table", back) \in SheetBlock
      BY <1>2 DEF BlockOf, SheetBlock
    <3> QED BY <3>1 DEF BlocksOf
  <2> QED BY <1>3, <1>5, <2>1, <2>2
<1> QED BY <1>2, <1>6, <1>8, <1>9

Filled(lines, n) == {m \in 1..n : lines[m] # "empty"}

\* What the pass over the rows has made of the first n.
HasRead(read, lines, n) ==
    /\ InBlocks(read.blocks)
    /\ read.text \in Seq(Nat) /\ Increases(read.text)
    /\ read.table \in Seq(Nat) /\ Increases(read.table)
    /\ Above(read.text, RunsOf(read.blocks)) /\ Above(read.table, RunsOf(read.blocks))
    /\ read.text = <<>> \/ read.table = <<>>
    /\ RunsOf(read.blocks) \cup Listed(read.text) \cup Listed(read.table) = Filled(lines, n)

\* No rows are above any, and in any order.
LEMMA NothingListed == /\ <<>> \in Seq(Nat) /\ Increases(<<>>) /\ Listed(<<>>) = {}
                       /\ \A below : Above(<<>>, below)
BY DEF Increases, Listed, Above

\* What is left of the pass becomes blocks as well.
LEMMA PassIsFlushed ==
    ASSUME NEW lines, NEW n \in Nat, NEW read, HasRead(read, lines, n)
    PROVE  InBlocks(Flushed(lines, read)) /\ RunsOf(Flushed(lines, read)) = Filled(lines, n)
<1>1. PICK more : more = read.blocks \o BlocksOf("text", read.text) OBVIOUS
<1>2. InBlocks(more) /\ RunsOf(more) = RunsOf(read.blocks) \cup Listed(read.text)
  BY <1>1, BlockIsAdded DEF HasRead
<1>3. Above(read.table, RunsOf(more))
  <2>1. CASE read.text = <<>> BY <2>1, <1>2, NothingListed DEF HasRead
  <2>2. CASE read.table = <<>> BY <2>2, NothingListed
  <2> QED BY <2>1, <2>2 DEF HasRead
<1>4. Flushed(lines, read) = more \o FlushTable(lines, read.table) BY <1>1 DEF Flushed
<1>5. /\ InBlocks(more \o FlushTable(lines, read.table))
      /\ RunsOf(more \o FlushTable(lines, read.table)) = RunsOf(more) \cup Listed(read.table)
  BY <1>2, <1>3, TableIsAdded DEF HasRead
<1> QED BY <1>2, <1>4, <1>5 DEF HasRead

\* A row below all that were read is listed last.
LEMMA RowIsListed ==
    ASSUME NEW lines, NEW n \in Nat, NEW list \in Seq(Nat), Increases(list),
           NEW below, Above(list, below), Listed(list) \cup below \subseteq 1..n,
           NEW longer, longer = Append(list, n + 1)
    PROVE  /\ longer \in Seq(Nat) /\ Increases(longer) /\ Above(longer, below)
           /\ Listed(longer) = Listed(list) \cup {n + 1}
<1>1. /\ Len(list) \in Nat /\ longer \in Seq(Nat) /\ Len(longer) = Len(list) + 1
      /\ \A k \in 1..Len(list) : longer[k] = list[k]
      /\ longer[Len(list) + 1] = n + 1
  OBVIOUS
<1>2. \A k \in 1..Len(list) : list[k] \in 1..n BY DEF Listed
<1>3. Increases(longer)
  <2> SUFFICES ASSUME NEW j \in 1..Len(longer), NEW k \in 1..Len(longer), j < k
               PROVE  longer[j] < longer[k]
    BY DEF Increases
  <2>1. j \in 1..Len(list) BY <1>1
  <2>2. CASE k \in 1..Len(list) BY <1>1, <2>1, <2>2 DEF Increases
  <2>3. CASE k = Len(list) + 1 BY <1>1, <1>2, <2>1, <2>3
  <2> QED BY <1>1, <2>2, <2>3
<1>4. Above(longer, below)
  <2> SUFFICES ASSUME NEW m \in below, NEW k \in 1..Len(longer) PROVE m < longer[k]
    BY DEF Above
  <2>1. CASE k \in 1..Len(list) BY <1>1, <2>1 DEF Above
  <2>2. CASE k = Len(list) + 1
    <3>1. m \in 1..n OBVIOUS
    <3> QED BY <1>1, <2>2, <3>1
  <2> QED BY <1>1, <2>1, <2>2
<1>5. Listed(longer) = Listed(list) \cup {n + 1}
  <2>1. ASSUME NEW k \in 1..Len(longer) PROVE longer[k] \in Listed(list) \cup {n + 1}
    <3>1. CASE k \in 1..Len(list) BY <1>1, <3>1 DEF Listed
    <3>2. CASE k = Len(list) + 1 BY <1>1, <3>2
    <3> QED BY <1>1, <3>1, <3>2
  <2>2. ASSUME NEW k \in 1..Len(list) PROVE list[k] \in Listed(longer)
    <3>1. k \in 1..Len(longer) /\ longer[k] = list[k] BY <1>1
    <3> QED BY <3>1 DEF Listed
  <2>3. n + 1 \in Listed(longer)
    <3>1. Len(list) + 1 \in 1..Len(longer) BY <1>1
    <3> QED BY <1>1, <3>1 DEF Listed
  <2> QED BY <2>1, <2>2, <2>3 DEF Listed
<1> QED BY <1>1, <1>3, <1>4, <1>5

\* A row that shows something is put in a block or kept for the next one.
LEMMA RowIsRead ==
    ASSUME NEW lines, NEW n \in Nat, NEW read, HasRead(read, lines, n)
    PROVE  HasRead(SegmentRow(lines, read, n + 1), lines, n + 1)
<1>1. /\ Listed(read.text) \cup RunsOf(read.blocks) \subseteq 1..n
      /\ Listed(read.table) \cup RunsOf(read.blocks) \subseteq 1..n
  BY DEF HasRead, Filled
<1>2. /\ read.text \in Seq(Nat) /\ Increases(read.text) /\ Above(read.text, RunsOf(read.blocks))
      /\ read.table \in Seq(Nat) /\ Increases(read.table) /\ Above(read.table, RunsOf(read.blocks))
      /\ InBlocks(read.blocks)
      /\ read.text = <<>> \/ read.table = <<>>
  BY DEF HasRead
<1>3. CASE lines[n + 1] = "empty"
  <2>1. Filled(lines, n + 1) = Filled(lines, n) BY <1>3 DEF Filled
  <2>2. SegmentRow(lines, read, n + 1)
          = [blocks |-> Flushed(lines, read), text |-> <<>>, table |-> <<>>]
    BY <1>3 DEF SegmentRow
  <2> QED BY <2>1, <2>2, PassIsFlushed, NothingListed DEF HasRead
<1>4. CASE lines[n + 1] # "empty"
  <2>1. Filled(lines, n + 1) = Filled(lines, n) \cup {n + 1} BY <1>4 DEF Filled
  <2>2. CASE lines[n + 1] = "single"
    <3>1. PICK more : more = read.blocks \o FlushTable(lines, read.table) OBVIOUS
    <3>2. PICK longer : longer = Append(read.text, n + 1) OBVIOUS
    <3>3. SegmentRow(lines, read, n + 1) = [blocks |-> more, text |-> longer, table |-> <<>>]
      BY <2>2, <3>1, <3>2 DEF SegmentRow
    <3>4. InBlocks(more) /\ RunsOf(more) = RunsOf(read.blocks) \cup Listed(read.table)
      BY <1>2, <3>1, TableIsAdded
    <3>5. Above(read.text, RunsOf(more)) /\ Listed(read.text) \cup RunsOf(more) \subseteq 1..n
      <4>1. CASE read.text = <<>> BY <4>1, <1>1, <3>4, NothingListed
      <4>2. CASE read.table = <<>> BY <4>2, <1>1, <1>2, <3>4, NothingListed
      <4> QED BY <1>2, <4>1, <4>2
    <3>6. /\ longer \in Seq(Nat) /\ Increases(longer) /\ Above(longer, RunsOf(more))
          /\ Listed(longer) = Listed(read.text) \cup {n + 1}
      BY <1>2, <3>2, <3>5, RowIsListed
    <3>7. RunsOf(more) \cup Listed(longer) \cup Listed(<<>>) = Filled(lines, n + 1)
      BY <2>1, <3>4, <3>6, NothingListed DEF HasRead
    <3>8. PICK next : next = SegmentRow(lines, read, n + 1) OBVIOUS
    <3>9. next.blocks = more /\ next.text = longer /\ next.table = <<>> BY <3>3, <3>8
    <3>10. HasRead(next, lines, n + 1)
      BY <3>4, <3>6, <3>7, <3>9, NothingListed DEF HasRead
    <3> QED BY <3>8, <3>10
  <2>3. CASE lines[n + 1] # "single"
    <3>1. PICK more : more = read.blocks \o BlocksOf("text", read.text) OBVIOUS
    <3>2. PICK longer : longer = Append(read.table, n + 1) OBVIOUS
    <3>3. SegmentRow(lines, read, n + 1) = [blocks |-> more, text |-> <<>>, table |-> longer]
      BY <1>4, <2>3, <3>1, <3>2 DEF SegmentRow
    <3>4. InBlocks(more) /\ RunsOf(more) = RunsOf(read.blocks) \cup Listed(read.text)
      BY <1>2, <3>1, BlockIsAdded
    <3>5. Above(read.table, RunsOf(more)) /\ Listed(read.table) \cup RunsOf(more) \subseteq 1..n
      <4>1. CASE read.table = <<>> BY <4>1, <1>1, <3>4, NothingListed
      <4>2. CASE read.text = <<>> BY <4>2, <1>1, <1>2, <3>4, NothingListed
      <4> QED BY <1>2, <4>1, <4>2
    <3>6. /\ longer \in Seq(Nat) /\ Increases(longer) /\ Above(longer, RunsOf(more))
          /\ Listed(longer) = Listed(read.table) \cup {n + 1}
      BY <1>2, <3>2, <3>5, RowIsListed
    <3>7. RunsOf(more) \cup Listed(<<>>) \cup Listed(longer) = Filled(lines, n + 1)
      BY <2>1, <3>4, <3>6, NothingListed DEF HasRead
    <3>8. PICK next : next = SegmentRow(lines, read, n + 1) OBVIOUS
    <3>9. next.blocks = more /\ next.text = <<>> /\ next.table = longer BY <3>3, <3>8
    <3>10. HasRead(next, lines, n + 1)
      BY <3>4, <3>6, <3>7, <3>9, NothingListed DEF HasRead
    <3> QED BY <3>8, <3>10
  <2> QED BY <2>2, <2>3
<1> QED BY <1>3, <1>4

\* The pass is the function its definition asks for: it exists over the rows so far.
LEMMA PassUnfolds ==
    ASSUME NEW lines, Len(lines) \in Nat
    PROVE  \A n \in 0..Len(lines) :
              PassOver(lines)[n] = IF n = 0 THEN NothingRead
                                   ELSE SegmentRow(lines, PassOver(lines)[n - 1], n)
<1> DEFINE Over(m) ==
             \E f : f = [n \in 0..m |-> IF n = 0 THEN NothingRead
                                        ELSE SegmentRow(lines, f[n - 1], n)]
           T == {m \in Nat : ~Over(m)}
<1>1. Over(0)
  <2>1. PICK f : f = [n \in 0..0 |-> NothingRead] OBVIOUS
  <2>2. f = [n \in 0..0 |-> IF n = 0 THEN NothingRead ELSE SegmentRow(lines, f[n - 1], n)]
    BY <2>1
  <2> QED BY <2>2
<1>2. ASSUME NEW m \in Nat, Over(m) PROVE Over(m + 1)
  <2>1. PICK g : g = [n \in 0..m |-> IF n = 0 THEN NothingRead
                                     ELSE SegmentRow(lines, g[n - 1], n)]
    BY <1>2
  <2>2. PICK f : f = [n \in 0..m + 1 |-> IF n = m + 1 THEN SegmentRow(lines, g[m], m + 1)
                                         ELSE g[n]]
    OBVIOUS
  <2>3. ASSUME NEW n \in 0..m + 1
        PROVE  f[n] = IF n = 0 THEN NothingRead ELSE SegmentRow(lines, f[n - 1], n)
    <3>1. CASE n = m + 1
      <4>1. f[n] = SegmentRow(lines, g[m], m + 1) BY <2>2, <3>1
      <4>2. n - 1 = m /\ m \in 0..m + 1 /\ m # m + 1 /\ n # 0 BY <3>1
      <4>3. f[n - 1] = g[m] BY <2>2, <4>2
      <4> QED BY <3>1, <4>1, <4>2, <4>3
    <3>2. CASE n # m + 1 /\ n # 0
      <4>1. n \in 0..m /\ n - 1 \in 0..m /\ n - 1 \in 0..m + 1 /\ n - 1 # m + 1 BY <3>2
      <4>2. f[n] = g[n] /\ f[n - 1] = g[n - 1] BY <2>2, <3>2, <4>1
      <4>3. g[n] = SegmentRow(lines, g[n - 1], n) BY <2>1, <3>2, <4>1
      <4> QED BY <3>2, <4>2, <4>3
    <3>3. CASE n = 0
      <4>1. 0 \in 0..m /\ 0 \in 0..m + 1 /\ 0 # m + 1 OBVIOUS
      <4>2. f[0] = g[0] BY <2>2, <4>1
      <4>3. g[0] = NothingRead BY <2>1, <4>1
      <4> QED BY <3>3, <4>2, <4>3
    <3> QED BY <3>1, <3>2, <3>3
  <2>4. f = [n \in 0..m + 1 |-> IF n = 0 THEN NothingRead ELSE SegmentRow(lines, f[n - 1], n)]
    BY <2>2, <2>3
  <2> QED BY <2>4
<1>3. \A m \in Nat : Over(m)
  <2> SUFFICES ASSUME T # {} PROVE FALSE OBVIOUS
  <2> HIDE DEF Over
  <2>1. T \in SUBSET Nat OBVIOUS
  <2>2. PICK m \in T : \A k \in T : m <= k
    <3> HIDE DEF T
    <3> QED BY <2>1, SmallestNumber
  <2>3. m \in Nat /\ ~Over(m) OBVIOUS
  <2>4. m # 0 BY <1>1, <2>3
  <2>5. m - 1 \in Nat /\ m - 1 \notin T BY <2>2, <2>3, <2>4
  <2>6. Over(m - 1) BY <2>5
  <2>7. (m - 1) + 1 = m BY <2>3
  <2>8. Over((m - 1) + 1) BY <1>2, <2>5, <2>6
  <2> QED BY <2>3, <2>7, <2>8
<1>4. Over(Len(lines)) BY <1>3
<1>5. PassOver(lines) = [n \in 0..Len(lines) |-> IF n = 0 THEN NothingRead
                           ELSE SegmentRow(lines, PassOver(lines)[n - 1], n)]
  <2>1. PassOver(lines) = CHOOSE f : f = [n \in 0..Len(lines) |-> IF n = 0 THEN NothingRead
                                            ELSE SegmentRow(lines, f[n - 1], n)]
    BY DEF PassOver
  <2> QED BY <1>4, <2>1
<1> QED BY <1>5

\* segment_sheet puts every row that shows something in one block, in their order.
LEMMA SheetIsSegmented ==
    ASSUME NEW lines, Len(lines) \in Nat
    PROVE  InBlocks(Segment(lines)) /\ RunsOf(Segment(lines)) = Filled(lines, Len(lines))
<1> DEFINE T == {n \in 0..Len(lines) : ~HasRead(PassOver(lines)[n], lines, n)}
<1>1. HasRead(NothingRead, lines, 0)
  <2>1. InBlocks(<<>>) /\ RunsOf(<<>>) = {} BY DEF InBlocks, RunsOf, RunsInOrder
  <2>2. Filled(lines, 0) = {} BY DEF Filled
  <2>3. NothingRead.blocks = <<>> /\ NothingRead.text = <<>> /\ NothingRead.table = <<>>
    BY DEF NothingRead
  <2> QED BY <2>1, <2>2, <2>3, NothingListed DEF HasRead
<1>2. T = {}
  <2> SUFFICES ASSUME T # {} PROVE FALSE OBVIOUS
  <2>1. T \in SUBSET Nat OBVIOUS
  <2>2. PICK m \in T : \A k \in T : m <= k
    <3> HIDE DEF T
    <3> QED BY <2>1, SmallestNumber
  <2>3. m \in 0..Len(lines) /\ ~HasRead(PassOver(lines)[m], lines, m) OBVIOUS
  <2>4. CASE m = 0
    <3>1. PassOver(lines)[m] = NothingRead BY <2>3, <2>4, PassUnfolds
    <3> QED BY <1>1, <2>3, <2>4, <3>1
  <2>5. CASE m # 0
    <3>1. m - 1 \in 0..Len(lines) /\ m - 1 \in Nat /\ m - 1 \notin T BY <2>2, <2>3, <2>5
    <3>2. HasRead(PassOver(lines)[m - 1], lines, m - 1) BY <3>1
    <3>3. PassOver(lines)[m] = SegmentRow(lines, PassOver(lines)[m - 1], m)
      BY <2>3, <2>5, PassUnfolds
    <3>4. HasRead(SegmentRow(lines, PassOver(lines)[m - 1], (m - 1) + 1), lines, (m - 1) + 1)
      BY <3>1, <3>2, RowIsRead
    <3>5. (m - 1) + 1 = m BY <2>3
    <3> QED BY <2>3, <3>3, <3>4, <3>5
  <2> QED BY <2>4, <2>5
<1>3. HasRead(PassOver(lines)[Len(lines)], lines, Len(lines))
  <2>1. Len(lines) \in 0..Len(lines) OBVIOUS
  <2> QED BY <1>2, <2>1
<1> QED BY <1>3, PassIsFlushed DEF Segment

-----------------------------------------------------------------------------
(* The pages of a sheet. *)

UpTo(leaves, p) == {q \in leaves : q <= p}

\* The pages are numbered from the first to the last.
LEMMA PagesAreNumbered ==
    ASSUME NEW leaves \in SUBSET Nat, IsFiniteSet(leaves)
    PROVE  /\ Cardinality(leaves) \in Nat
           /\ \A k \in 1..Cardinality(leaves) : Nth(leaves, k) \in leaves
           /\ \A p \in leaves : \E k \in 1..Cardinality(leaves) : Nth(leaves, k) = p
           /\ \A j, k \in 1..Cardinality(leaves) : j < k => Nth(leaves, j) < Nth(leaves, k)
<1>1. PICK total \in Nat : total = Cardinality(leaves) BY FS_CardinalityType
<1> DEFINE Rank(p) == Cardinality(UpTo(leaves, p))
<1>2. ASSUME NEW p \in leaves
      PROVE  IsFiniteSet(UpTo(leaves, p)) /\ Rank(p) \in 1..total
  <2>1. UpTo(leaves, p) \in SUBSET leaves BY DEF UpTo
  <2>2. IsFiniteSet(UpTo(leaves, p)) /\ Rank(p) <= total BY <1>1, <2>1, FS_Subset
  <2>3. p \in UpTo(leaves, p) BY DEF UpTo
  <2>4. Rank(p) \in Nat /\ Rank(p) # 0 BY <2>2, <2>3, FS_CardinalityType, FS_EmptySet
  <2> HIDE DEF Rank
  <2> QED BY <1>1, <2>2, <2>4
<1>3. ASSUME NEW p \in leaves, NEW q \in leaves, p < q PROVE Rank(p) < Rank(q)
  <2>1. p \in Nat /\ q \in Nat /\ \A x \in leaves : x \in Nat OBVIOUS
  <2>2. UpTo(leaves, p) \in SUBSET UpTo(leaves, q)
    <3>1. ASSUME NEW x \in leaves, x <= p PROVE x <= q BY <1>3, <2>1, <3>1
    <3> QED BY <3>1 DEF UpTo
  <2>3. q \in UpTo(leaves, q) /\ q \notin UpTo(leaves, p) BY <1>3 DEF UpTo
  <2>4. Rank(p) <= Rank(q) /\ Rank(p) # Rank(q) BY <1>2, <2>2, <2>3, FS_Subset
  <2>5. Rank(p) \in 1..total /\ Rank(q) \in 1..total BY <1>2
  <2> HIDE DEF Rank
  <2> QED BY <2>4, <2>5
<1>4. PICK rank : rank = [p \in leaves |-> Rank(p)] OBVIOUS
<1>5. PICK places : places = 1..total OBVIOUS
<1> HIDE DEF Rank
<1>6. rank \in [leaves -> places] BY <1>2, <1>4, <1>5
<1>7. ASSUME NEW p \in leaves, NEW q \in leaves, Rank(p) = Rank(q) PROVE p = q
  <2>1. p \in Nat /\ q \in Nat /\ Rank(p) \in 1..total BY <1>2
  <2>2. ~(p < q) /\ ~(q < p) BY <1>3, <1>7, <2>1
  <2> QED BY <2>1, <2>2
<1>8. rank \in Injection(leaves, places) BY <1>4, <1>6, <1>7 DEF Injection, IsInjective
<1>9. IsFiniteSet(places) /\ Cardinality(places) = total BY <1>5, FS_Interval
<1>10. rank \in Surjection(leaves, places) BY <1>1, <1>8, <1>9, FS_Injection
<1>11. ASSUME NEW k \in 1..total PROVE Nth(leaves, k) \in leaves /\ Rank(Nth(leaves, k)) = k
  <2>1. PICK p \in leaves : Rank(p) = k BY <1>4, <1>5, <1>10 DEF Surjection
  <2>2. Nth(leaves, k) = CHOOSE q \in leaves : Rank(q) = k BY DEF Nth, Rank, UpTo
  <2> QED BY <2>1, <2>2
<1>12. ASSUME NEW p \in leaves PROVE \E k \in 1..total : Nth(leaves, k) = p
  BY <1>2, <1>7, <1>11
<1>13. ASSUME NEW j \in 1..total, NEW k \in 1..total, j < k
       PROVE  Nth(leaves, j) < Nth(leaves, k)
  <2>1. PICK p \in leaves : p = Nth(leaves, j) /\ Rank(p) = j BY <1>11
  <2>2. PICK q \in leaves : q = Nth(leaves, k) /\ Rank(q) = k BY <1>11
  <2>3. p \in Nat /\ q \in Nat /\ p # q BY <1>13, <2>1, <2>2
  <2>4. ~(q < p) BY <1>3, <1>13, <2>1, <2>2
  <2> QED BY <2>1, <2>2, <2>3, <2>4
<1> QED BY <1>1, <1>11, <1>12, <1>13

-----------------------------------------------------------------------------
(* The page's owner. *)

\* Of the open sheets one has the best score, and comes first among those.
LEMMA SomeSheetIsBest ==
    ASSUME NEW open \in SUBSET Nat, open # {}, NEW score, NEW top \in Nat,
           \A i \in open : score[i] \in 0..top
    PROVE  /\ BestOf(open, score) \in open
           /\ \A j \in open : score[j] <= score[BestOf(open, score)]
<1> DEFINE short == {top - score[i] : i \in open}
<1>1. short \in SUBSET Nat /\ short # {}
  <2>1. \A i \in open : top - score[i] \in Nat OBVIOUS
  <2> QED BY <2>1
<1>2. PICK m \in short : \A k \in short : m <= k
  <2> HIDE DEF short
  <2> QED BY <1>1, SmallestNumber
<1>3. PICK best \in open : m = top - score[best] BY <1>2
<1>4. \A j \in open : score[j] <= score[best]
  <2> TAKE j \in open
  <2>1. top - score[best] <= top - score[j] BY <1>2, <1>3
  <2>2. score[best] \in 0..top /\ score[j] \in 0..top OBVIOUS
  <2> QED BY <2>1, <2>2
<1> DEFINE equals == {i \in open : score[i] = score[best]}
<1>5. equals \in SUBSET Nat /\ equals # {} BY <1>3
<1>6. PICK i \in equals : \A k \in equals : i <= k
  <2> HIDE DEF equals
  <2> QED BY <1>5, SmallestNumber
<1>7. i \in open /\ \A j \in open : score[j] <= score[i] /\ (j < i => score[j] < score[i])
  <2>1. i \in open /\ score[i] = score[best] BY <1>6
  <2>2. ASSUME NEW j \in open PROVE score[j] <= score[i] /\ (j < i => score[j] < score[i])
    <3>1. score[j] <= score[i] BY <1>4, <2>1
    <3>2. score[j] \in 0..top /\ score[i] \in 0..top /\ i \in Nat /\ j \in Nat BY <2>1
    <3>3. j < i => score[j] # score[i] BY <1>6, <2>1, <3>2
    <3> QED BY <3>1, <3>2, <3>3
  <2> QED BY <2>1, <2>2
<1> QED BY <1>7 DEF BestOf

\* A sheet that alone scores most is it.
LEMMA OwnerIsBest ==
    ASSUME NEW open \in SUBSET Nat, NEW score, NEW top \in Nat,
           \A i \in open : score[i] \in 0..top,
           NEW owner \in open, \A j \in open \ {owner} : score[j] < score[owner]
    PROVE  BestOf(open, score) = owner
<1>1. PICK best : best = BestOf(open, score) OBVIOUS
<1>2. best \in open /\ score[owner] <= score[best] BY <1>1, SomeSheetIsBest
<1>3. score[best] \in 0..top /\ score[owner] \in 0..top BY <1>2
<1>4. best # owner => score[best] < score[owner] BY <1>2
<1> QED BY <1>1, <1>2, <1>3, <1>4

-----------------------------------------------------------------------------
(* The workbook. *)

\* Whatever else speaks for it, a long list has at least as many points as data.
LEMMA LongListScores ==
    ASSUME NEW shown \in Signals, {"structure", "large"} \subseteq shown
    PROVE  ~IsDocument(shown)
<1>1. PICK few \in SUBSET Traits, range \in Ranges : shown = few \cup {range}
  BY DEF Signals
<1>2. range = "large" /\ "tiny" \notin shown /\ "small" \notin shown
  BY <1>1 DEF Traits, Ranges
<1>3. DataScore(shown) \in Nat /\ DataScore(shown) >= 8
  BY <1>2 DEF DataScore, Weight
<1>4. DocumentScore(shown) \in Nat /\ DocumentScore(shown) <= 8
  BY <1>2 DEF DocumentScore, Weight
<1> QED BY <1>3, <1>4 DEF IsDocument

LEMMA NothingSegmented ==
    ASSUME NEW i \in Nat
    PROVE  /\ NotSegmented(i).sheet = i
           /\ NotSegmented(i).rows = <<>> /\ NotSegmented(i).blocks = <<>>
           /\ NotSegmented(i).pages = <<>>
           /\ RunsOf(<<>>) = {} /\ RunsInOrder(<<>>)
BY DEF NotSegmented, RunsOf, RunsInOrder

LEMMA BookStart == BookInit => BookInv
<1> SUFFICES ASSUME BookInit PROVE BookInv OBVIOUS
<1> USE DEF BookInit
<1>1. BookTypeOK
  <2>1. segmented.sheet = 0 BY NothingSegmented
  <2>2. SheetTotal \in Nat BY BookAssumption
  <2>3. Len(sheets) = 0 /\ sheets \in Seq([document : BOOLEAN, hidden : BOOLEAN, visuals : BOOLEAN])
    OBVIOUS
  <2>4. signals \in Signals BY DEF Signals
  <2> QED BY <2>1, <2>2, <2>3, <2>4 DEF BookTypeOK
<1>2. RowsKeepTheirOrder
  <2>1. /\ segmented.blocks = <<>> /\ segmented.rows = <<>> /\ segmented.pages = <<>>
        /\ RunsOf(<<>>) = {} /\ RunsInOrder(<<>>)
    BY NothingSegmented
  <2> QED BY <2>1 DEF RowsKeepTheirOrder
<1>3. WorkbookPagesAreTrue
  <2>1. AttributionIsRight BY DEF AttributionIsRight
  <2>2. UnitsFollowTheWorkbook BY DEF UnitsFollowTheWorkbook
  <2>3. ImagesAreOfTheirUnit BY DEF ImagesAreOfTheirUnit
  <2>4. LongListIsData BY DEF LongListIsData
  <2> QED BY <1>2, <2>1, <2>2, <2>3, <2>4 DEF WorkbookPagesAreTrue
<1>4. OrderInv BY DEF OrderInv
<1> QED BY <1>1, <1>3, <1>4 DEF BookInv

\* The documents are sheets.
LEMMA DocumentsAreSheets ==
    ASSUME BookTypeOK
    PROVE  /\ Len(sheets) \in Nat /\ IsFiniteSet(Documents)
           /\ \A i \in Documents : i \in 1..Len(sheets) /\ sheets[i].document
<1>1. PICK n \in Nat : n = Len(sheets) BY DEF BookTypeOK
<1>2. PICK I : I = 1..n OBVIOUS
<1>3. IsFiniteSet(I) BY <1>2, FS_Interval
<1>4. Documents \in SUBSET I BY <1>1, <1>2 DEF Documents
<1>5. IsFiniteSet(Documents) BY <1>3, <1>4, FS_Subset
<1> QED BY <1>1, <1>5 DEF Documents

LEMMA SheetKeeps ==
    ASSUME BookInv, ReadSheet
    PROVE  BookInv'
<1> USE DEF ReadSheet
<1>1. PICK n \in Nat : n = Len(sheets) BY DEF BookInv, BookTypeOK
<1>2. /\ bookStage = "reading" /\ prints = <<>> /\ attributed = <<>> /\ units = <<>>
      /\ segmented = NotSegmented(0) /\ bookImages = <<>>
  BY DEF BookInv
<1>3. PICK hidden \in BOOLEAN, visuals \in BOOLEAN :
        sheets' = Append(sheets, [document |-> IsDocument(signals'),
                                  hidden |-> hidden, visuals |-> visuals])
  OBVIOUS
<1>4. signals' \in Signals
  <2>1. n + 1 \in 1..SheetTotal BY <1>1, BookAssumption
  <2>2. SignalsOf[n + 1] \in SUBSET Signals BY <2>1, BookAssumption
  <2> QED BY <1>1, <2>2
<1>5. IsDocument(signals') \in BOOLEAN BY DEF IsDocument
<1>6. /\ sheets' \in Seq([document : BOOLEAN, hidden : BOOLEAN, visuals : BOOLEAN])
      /\ Len(sheets') = n + 1 /\ sheets'[Len(sheets')].document = IsDocument(signals')
  <2>1. PICK sheet \in [document : BOOLEAN, hidden : BOOLEAN, visuals : BOOLEAN] :
          sheet = [document |-> IsDocument(signals'), hidden |-> hidden, visuals |-> visuals]
    BY <1>5
  <2>2. sheets \in Seq([document : BOOLEAN, hidden : BOOLEAN, visuals : BOOLEAN])
    BY DEF BookInv, BookTypeOK
  <2>3. sheets' = Append(sheets, sheet) /\ sheet.document = IsDocument(signals') BY <1>3, <2>1
  <2>4. /\ sheets' \in Seq([document : BOOLEAN, hidden : BOOLEAN, visuals : BOOLEAN])
        /\ Len(sheets') = n + 1 /\ sheets'[n + 1] = sheet
    BY <1>1, <2>2, <2>3
  <2> QED BY <2>3, <2>4
<1>7. BookTypeOK'
  <2>1. segmented'.sheet = 0 BY <1>2, NothingSegmented
  <2>2. n + 1 <= SheetTotal BY <1>1, BookAssumption
  <2> QED BY <1>2, <1>4, <1>6, <2>1, <2>2 DEF BookInv, BookTypeOK
<1>8. WorkbookPagesAreTrue'
  <2>1. AttributionIsRight' BY <1>2 DEF AttributionIsRight
  <2>2. UnitsFollowTheWorkbook' BY <1>2 DEF UnitsFollowTheWorkbook
  <2>3. ImagesAreOfTheirUnit' BY <1>2 DEF ImagesAreOfTheirUnit
  <2>4. LongListIsData' BY <1>4, <1>6, LongListScores DEF LongListIsData
  <2>5. RowsKeepTheirOrder' BY DEF BookInv, WorkbookPagesAreTrue, RowsKeepTheirOrder
  <2> QED BY <2>1, <2>2, <2>3, <2>4, <2>5 DEF WorkbookPagesAreTrue
<1>9. OrderInv' BY <1>2 DEF OrderInv
<1>10. signals' # {} => sheets' # <<>> /\ sheets'[Len(sheets')].document = IsDocument(signals')
  BY <1>1, <1>6
<1> QED BY <1>2, <1>7, <1>8, <1>9, <1>10 DEF BookInv

LEMMA SummaryKeeps ==
    ASSUME BookInv, Summarise
    PROVE  BookInv'
<1> USE DEF Summarise
<1>1. PICK n \in Nat : n = Len(sheets) BY DEF BookInv, BookTypeOK
<1>2. /\ bookStage = "reading" /\ prints = <<>> /\ attributed = <<>>
      /\ segmented = NotSegmented(0) /\ bookImages = <<>>
  BY DEF BookInv
<1> DEFINE UnitType == [sheet : 1..n, page : 0..0, looked : BOOLEAN]
<1>3. /\ units' \in Seq(UnitType) /\ Len(units') = n
      /\ \A u \in 1..n : units'[u].sheet = u /\ units'[u].page = 0
  <2>1. PICK made : made = units' OBVIOUS
  <2>2. made = [i \in 1..n |-> Unit(i, 0, FALSE)] BY <1>1, <2>1
  <2>3. \A i \in 1..n : Unit(i, 0, FALSE) \in UnitType
    BY DEF Unit
  <2>4. made \in [1..n -> UnitType] BY <2>2, <2>3
  <2>5. \A u \in 1..n : made[u].sheet = u /\ made[u].page = 0 BY <2>2 DEF Unit
  <2> HIDE DEF UnitType
  <2> QED BY <2>1, <2>4, <2>5, FunctionIsASeq
<1>4. BookTypeOK'
  <2>1. Len(prints') = 0 /\ Len(sheets') = n BY <1>1, <1>2
  <2>2. units' \in Seq([sheet : 1..Len(sheets'), page : 0..Len(prints'), looked : BOOLEAN])
    BY <1>3, <2>1
  <2>3. signals' \in Signals BY DEF Signals
  <2> QED BY <1>2, <2>2, <2>3 DEF BookInv, BookTypeOK, Documents
<1>5. WorkbookPagesAreTrue'
  <2>1. AttributionIsRight' BY <1>2 DEF AttributionIsRight
  <2>2. UnitsFollowTheWorkbook'
    <3> HIDE DEF UnitType
    <3>1. SheetsGrow' /\ PagesGrow'
      <4>1. \A u \in 1..Len(units') : units'[u].sheet = u /\ units'[u].page = 0 BY <1>3
      <4>2. ASSUME NEW u \in 1..Len(units'), NEW v \in 1..Len(units'), u < v
            PROVE  units'[u].sheet <= units'[v].sheet
        <5>1. units'[u].sheet = u /\ units'[v].sheet = v BY <4>1
        <5>2. u <= v BY <1>1, <1>3, <4>2
        <5> QED BY <5>1, <5>2
      <4>3. PagesGrow' BY <4>1 DEF PagesGrow
      <4> QED BY <4>2, <4>3 DEF SheetsGrow
    <3>2. \A i \in 1..Len(sheets') : \E u \in 1..Len(units') : units'[u].sheet = i
      BY <1>1, <1>3
    <3>3. Len(prints') = 0 BY <1>2
    <3>4. \A p \in 1..Len(prints') : FALSE BY <3>3
    <3> QED BY <3>1, <3>2, <3>4 DEF UnitsFollowTheWorkbook
  <2>3. ImagesAreOfTheirUnit' BY <1>2 DEF ImagesAreOfTheirUnit
  <2>4. LongListIsData' BY DEF LongListIsData
  <2>5. RowsKeepTheirOrder' BY DEF BookInv, WorkbookPagesAreTrue, RowsKeepTheirOrder
  <2> QED BY <2>1, <2>2, <2>3, <2>4, <2>5 DEF WorkbookPagesAreTrue
<1>6. OrderInv' BY <1>2 DEF OrderInv
<1> QED BY <1>2, <1>4, <1>5, <1>6 DEF BookInv

LEMMA RenderingKeeps ==
    ASSUME BookInv, RenderBook \/ BookFails
    PROVE  BookInv'
<1>1. PICK n \in Nat : n = Len(sheets) BY DEF BookInv, BookTypeOK
<1>2. /\ bookStage = "reading" /\ prints = <<>> /\ attributed = <<>> /\ units = <<>>
      /\ segmented = NotSegmented(0) /\ bookImages = <<>>
  BY DEF BookInv, RenderBook, BookFails
<1>3. UNCHANGED <<bookLowTier, sheets, attributed, honest, units, segmented, bookImages>>
      /\ signals' = {} /\ bookStage' \in {"attributing", "failed"}
  BY DEF RenderBook, BookFails
<1>4. /\ prints' \in Seq(Documents)
      /\ \A p, q \in 1..Len(prints') : p <= q => prints'[p] <= prints'[q]
      /\ bookStage' = "attributing" => Len(prints') > 0
  <2>1. CASE RenderBook
    <3>1. Cardinality(Documents) \in Nat
      BY DocumentsAreSheets, FS_CardinalityType DEF BookInv
    <3>2. PICK m \in 1..SheetPages * Cardinality(Documents) : prints' \in Renderings(m)
      BY <2>1 DEF RenderBook
    <3>3. SheetPages * Cardinality(Documents) \in Nat BY <3>1, BookAssumption
    <3>4. m \in Nat /\ m > 0 BY <3>2, <3>3
    <3>5. /\ prints' \in [1..m -> Documents]
          /\ \A p, q \in 1..m : p <= q => prints'[p] <= prints'[q]
      BY <3>2 DEF Renderings
    <3>6. prints' \in Seq(Documents) /\ Len(prints') = m BY <3>4, <3>5, FunctionIsASeq
    <3> QED BY <3>4, <3>5, <3>6
  <2>2. CASE BookFails BY <1>2, <2>2 DEF BookFails
  <2> QED BY <2>1, <2>2
<1>5. BookTypeOK'
  <2>1. signals' \in Signals BY <1>3 DEF Signals
  <2>2. Documents' = Documents BY <1>3 DEF Documents
  <2>3. units' = <<>> BY <1>2, <1>3
  <2> QED BY <1>2, <1>3, <1>4, <2>1, <2>2, <2>3 DEF BookInv, BookTypeOK
<1>6. WorkbookPagesAreTrue'
  <2>1. AttributionIsRight' BY <1>2, <1>3 DEF AttributionIsRight
  <2>2. UnitsFollowTheWorkbook' BY <1>3 DEF UnitsFollowTheWorkbook
  <2>3. ImagesAreOfTheirUnit' BY <1>2, <1>3 DEF ImagesAreOfTheirUnit
  <2>4. LongListIsData' BY <1>3 DEF LongListIsData
  <2>5. RowsKeepTheirOrder' BY <1>3 DEF BookInv, WorkbookPagesAreTrue, RowsKeepTheirOrder
  <2> QED BY <2>1, <2>2, <2>3, <2>4, <2>5 DEF WorkbookPagesAreTrue
<1>7. OrderInv' BY <1>2, <1>3, <1>4 DEF OrderInv
<1>8. Len(attributed') = 0 BY <1>2, <1>3
<1> QED BY <1>2, <1>3, <1>4, <1>5, <1>6, <1>7, <1>8 DEF BookInv

\* A sheet is open for its page: each one after it is printed further on.
LEMMA OwnerIsOpen ==
    ASSUME BookTypeOK, OrderInv, NEW page \in 1..Len(prints),
           \A i \in Documents : \E p \in 1..Len(prints) : prints[p] = i,
           CurrentSheet <= prints[page]
    PROVE  prints[page] \in OpenSheets(Len(prints) - page)
<1>1. PICK last \in Nat : last = Len(prints) BY DEF BookTypeOK
<1>2. PICK owner \in Documents : owner = prints[page] BY DEF BookTypeOK
<1>3. PICK after : after = DocumentsAfter(owner) OBVIOUS
<1>4. PICK later : later = (page + 1)..last OBVIOUS
<1>5. PICK pageOf : pageOf = [i \in after |-> CHOOSE p \in 1..last : prints[p] = i] OBVIOUS
<1>6. ASSUME NEW i \in after PROVE pageOf[i] \in later /\ prints[pageOf[i]] = i
  <2>1. i \in Documents /\ i > owner BY <1>3 DEF DocumentsAfter
  <2>2. pageOf[i] \in 1..last /\ prints[pageOf[i]] = i BY <1>1, <1>5, <2>1
  <2>3. i \in Nat /\ owner \in Nat BY <1>2, <2>1, DocumentsAreSheets
  <2>4. ~(pageOf[i] <= page) BY <1>1, <1>2, <2>1, <2>2, <2>3 DEF OrderInv
  <2> QED BY <1>1, <1>4, <2>2, <2>4
<1>7. pageOf \in Injection(after, later)
  <2>1. pageOf \in [after -> later] BY <1>5, <1>6
  <2>2. \A i, j \in after : pageOf[i] = pageOf[j] => i = j BY <1>6
  <2> QED BY <2>1, <2>2 DEF Injection, IsInjective
<1>8. IsFiniteSet(later) /\ Cardinality(later) = last - page
  <2>1. page \in Nat /\ page <= last BY <1>1
  <2>2. page + 1 \in Int /\ last \in Int BY <1>1, <2>1
  <2>3. /\ IsFiniteSet((page + 1)..last)
        /\ Cardinality((page + 1)..last) = IF page + 1 > last THEN 0 ELSE last - (page + 1) + 1
    BY <2>2, FS_Interval
  <2> QED BY <1>1, <1>4, <2>1, <2>3
<1>9. Cardinality(after) <= last - page BY <1>7, <1>8, FS_Injection
<1> QED BY <1>1, <1>2, <1>3, <1>9 DEF OpenSheets

\* The last sheet is always open.
LEMMA SomeSheetIsOpen ==
    ASSUME BookTypeOK, OrderInv, prints # <<>>, NEW left \in Nat
    PROVE  /\ OpenSheets(left) # {} /\ OpenSheets(left) \subseteq Documents
           /\ OpenSheets(left) \in SUBSET Nat
           /\ \A p \in 1..Len(attributed) : \A i \in OpenSheets(left) : attributed[p] <= i
<1>1. PICK n \in Nat : n = Len(sheets) BY DocumentsAreSheets
<1>2. \A i \in Documents : i \in Nat /\ i \in 1..n BY <1>1, DocumentsAreSheets
<1>3. Documents # {}
  <2>1. prints[1] \in Documents BY DEF BookTypeOK
  <2> QED BY <2>1
<1>4. PICK i \in Documents : \A j \in Documents : j <= i
  <2> DEFINE short == {n - j : j \in Documents}
  <2>1. short \in SUBSET Nat /\ short # {}
    <3>1. \A j \in Documents : n - j \in Nat BY <1>2
    <3> QED BY <1>3, <3>1
  <2>2. PICK m \in short : \A k \in short : m <= k
    <3> HIDE DEF short
    <3> QED BY <2>1, SmallestNumber
  <2>3. PICK i \in Documents : m = n - i BY <2>2
  <2>4. \A j \in Documents : n - i <= n - j BY <2>2, <2>3
  <2>5. \A j \in Documents : j <= i BY <1>2, <2>4
  <2> QED BY <2>5
<1>5. DocumentsAfter(i) = {} BY <1>2, <1>4 DEF DocumentsAfter
<1>6. Cardinality(DocumentsAfter(i)) = 0 BY <1>5, FS_EmptySet
<1>7. /\ CurrentSheet \in Nat
      /\ CurrentSheet = 0 \/ CurrentSheet \in Documents
      /\ \A p \in 1..Len(attributed) : attributed[p] <= CurrentSheet
  <2>1. PICK past \in Nat : past = Len(attributed) BY DEF BookTypeOK
  <2>2. CASE attributed = <<>> BY <2>2 DEF CurrentSheet
  <2>3. CASE attributed # <<>>
    <3>1. past \in 1..Len(attributed) BY <2>1, <2>3 DEF BookTypeOK
    <3>2. CurrentSheet = attributed[past] /\ attributed[past] \in Documents
      BY <2>1, <2>3, <3>1 DEF CurrentSheet, BookTypeOK
    <3>3. \A p \in 1..Len(attributed) : attributed[p] <= attributed[past]
      <4> TAKE p \in 1..Len(attributed)
      <4>1. p <= past BY <2>1
      <4> QED BY <3>1, <4>1 DEF OrderInv
    <3> QED BY <1>2, <3>2, <3>3
  <2> QED BY <2>2, <2>3
<1>8. i >= CurrentSheet BY <1>2, <1>4, <1>7
<1>9. i \in OpenSheets(left) BY <1>6, <1>8 DEF OpenSheets
<1>10. OpenSheets(left) \subseteq Documents BY DEF OpenSheets
<1>11. ASSUME NEW p \in 1..Len(attributed), NEW j \in OpenSheets(left)
       PROVE  attributed[p] <= j
  <2>1. j \in Documents /\ CurrentSheet <= j BY DEF OpenSheets
  <2>2. attributed[p] \in Documents BY DEF BookTypeOK
  <2> QED BY <1>2, <1>7, <2>1, <2>2
<1> QED BY <1>2, <1>9, <1>10, <1>11

LEMMA PageKeeps ==
    ASSUME BookInv, AttributePage
    PROVE  BookInv'
<1> USE DEF AttributePage
<1>1. BookTypeOK /\ OrderInv /\ AttributionIsRight BY DEF BookInv, WorkbookPagesAreTrue
<1>2. PICK last \in Nat : last = Len(prints) BY <1>1 DEF BookTypeOK
<1>3. PICK past \in Nat : past = Len(attributed) BY <1>1 DEF BookTypeOK
<1>4. /\ past < last /\ past + 1 \in 1..last /\ last - (past + 1) \in Nat /\ prints # <<>>
  BY <1>1, <1>2, <1>3 DEF BookTypeOK
<1>5. PICK open : open = OpenSheets(last - (past + 1)) OBVIOUS
<1>6. /\ open # {} /\ open \subseteq Documents /\ open \in SUBSET Nat
      /\ \A p \in 1..past : \A i \in open : attributed[p] <= i
  BY <1>1, <1>3, <1>4, <1>5, SomeSheetIsOpen
<1>7. PICK owner \in Documents : owner = prints[past + 1] BY <1>1, <1>2, <1>4 DEF BookTypeOK
<1>8. PICK score \in [Documents -> 0..MaxScore] :
        /\ attributed' = Append(attributed, BestOf(open, score))
        /\ honest' = (honest /\ \A j \in Documents \ {owner} : score[j] < score[owner])
  BY <1>2, <1>3, <1>5, <1>7
<1>9. MaxScore \in Nat /\ \A i \in open : score[i] \in 0..MaxScore
  BY <1>6, <1>8, BookAssumption
<1>10. PICK best \in open : best = BestOf(open, score) BY <1>6, <1>9, SomeSheetIsBest
<1>11. /\ attributed' \in Seq(Documents) /\ Len(attributed') = past + 1
       /\ \A p \in 1..past : attributed'[p] = attributed[p]
       /\ attributed'[past + 1] = best
  <2>1. best \in Documents /\ attributed \in Seq(Documents) BY <1>1, <1>6, <1>10 DEF BookTypeOK
  <2>2. attributed' = Append(attributed, best) BY <1>8, <1>10
  <2> QED BY <1>3, <2>1, <2>2
<1>12. Documents' = Documents /\ UNCHANGED <<sheets, prints, units, segmented, bookImages, signals>>
  BY DEF Documents
<1>13. bookStage = "attributing" /\ bookStage' \in {"attributing", "building"}
  OBVIOUS
<1>14. BookTypeOK'
  <2>1. honest' \in BOOLEAN BY <1>8
  <2>2. bookLowTier' \in BOOLEAN BY <1>1 DEF BookTypeOK
  <2> QED BY <1>1, <1>11, <1>12, <1>13, <2>1, <2>2 DEF BookTypeOK
<1>15. AttributionIsRight'
  <2> SUFFICES ASSUME honest', \A i \in Documents : \E p \in 1..Len(prints) : prints[p] = i,
                      NEW p \in 1..past + 1
               PROVE  attributed'[p] = prints[p]
    BY <1>11, <1>12 DEF AttributionIsRight
  <2>1. honest /\ \A j \in Documents \ {owner} : score[j] < score[owner] BY <1>8
  <2>2. \A q \in 1..past : attributed[q] = prints[q] BY <1>1, <1>3, <2>1 DEF AttributionIsRight
  <2>3. CurrentSheet <= prints[past + 1]
    <3>1. CASE attributed = <<>>
      <4>1. owner \in Nat BY <1>1, <1>7, DocumentsAreSheets
      <4> QED BY <1>7, <3>1, <4>1 DEF CurrentSheet
    <3>2. CASE attributed # <<>>
      <4>1. past \in 1..past BY <1>1, <1>3, <3>2 DEF BookTypeOK
      <4>2. CurrentSheet = prints[past] BY <1>3, <2>2, <3>2, <4>1 DEF CurrentSheet
      <4>3. past \in 1..last /\ past <= past + 1 BY <1>4, <4>1
      <4> QED BY <1>1, <1>2, <1>4, <4>2, <4>3 DEF OrderInv
    <3> QED BY <3>1, <3>2
  <2>4. owner \in open BY <1>1, <1>2, <1>4, <1>5, <1>7, <2>3, OwnerIsOpen
  <2>5. \A j \in open \ {owner} : score[j] < score[owner] BY <1>6, <2>1
  <2>6. best = owner BY <1>6, <1>9, <1>10, <2>4, <2>5, OwnerIsBest
  <2>7. CASE p = past + 1 BY <1>7, <1>11, <2>6, <2>7
  <2>8. CASE p # past + 1
    <3>1. p \in 1..past BY <2>8
    <3> QED BY <1>11, <2>2, <3>1
  <2> QED BY <2>7, <2>8
<1>16. WorkbookPagesAreTrue'
  <2>1. UnitsFollowTheWorkbook' BY <1>13 DEF UnitsFollowTheWorkbook
  <2>2. ImagesAreOfTheirUnit'
    BY <1>12 DEF BookInv, WorkbookPagesAreTrue, ImagesAreOfTheirUnit
  <2>3. LongListIsData' BY <1>12 DEF BookInv, WorkbookPagesAreTrue, LongListIsData
  <2>4. RowsKeepTheirOrder' BY <1>12 DEF BookInv, WorkbookPagesAreTrue, RowsKeepTheirOrder
  <2> QED BY <1>15, <2>1, <2>2, <2>3, <2>4 DEF WorkbookPagesAreTrue
<1>17. OrderInv'
  <2>1. ASSUME NEW p \in 1..past + 1, NEW q \in 1..past + 1, p <= q
        PROVE  attributed'[p] <= attributed'[q]
    <3>1. CASE q # past + 1
      <4>1. p \in 1..past /\ q \in 1..past BY <2>1, <3>1
      <4> QED BY <1>1, <1>3, <1>11, <2>1, <4>1 DEF OrderInv
    <3>2. CASE q = past + 1 /\ p # past + 1
      <4>1. p \in 1..past BY <3>2
      <4> QED BY <1>6, <1>10, <1>11, <3>2, <4>1
    <3>3. CASE q = past + 1 /\ p = past + 1
      <4>1. best \in Nat BY <1>6, <1>10
      <4> QED BY <1>11, <3>3, <4>1
    <3> QED BY <3>1, <3>2, <3>3
  <2> QED BY <1>1, <1>11, <1>12, <2>1 DEF OrderInv
<1>18. units = <<>> /\ segmented = NotSegmented(0) /\ bookImages = <<>> /\ signals = {}
  BY <1>13 DEF BookInv
<1>19. bookStage' = "building" => Len(attributed') = Len(prints')
  BY <1>12, <1>13
<1>20. bookStage' = "attributing" => Len(attributed') < Len(prints')
  <2>1. bookStage' = "attributing" => past + 1 # last BY <1>2, <1>11, <1>13
  <2> QED BY <1>2, <1>4, <1>11, <1>12, <2>1
<1>21. UnitsInv'
  <2>1. segmented' = NotSegmented(0) /\ segmented'.sheet = 0 /\ units' = <<>>
    BY <1>12, <1>18, NothingSegmented
  <2>2. \A p \in 1..Len(attributed') : attributed'[p] \in Nat /\ attributed'[p] > 0
    <3> TAKE p \in 1..Len(attributed')
    <3>1. attributed'[p] \in Documents BY <1>11
    <3>2. attributed'[p] \in 1..Len(sheets) /\ Len(sheets) \in Nat BY <1>1, <3>1, DocumentsAreSheets
    <3> QED BY <3>2
  <2>3. SheetsGrow' /\ PagesGrow' BY <2>1 DEF SheetsGrow, PagesGrow
  <2> QED BY <2>1, <2>2, <2>3 DEF UnitsInv
<1> QED BY <1>12, <1>13, <1>14, <1>16, <1>17, <1>18, <1>19, <1>20, <1>21 DEF BookInv

\* A unit of the workbook as it is.
SheetUnit == [sheet : 1..Len(sheets), page : 0..Len(prints), looked : BOOLEAN]

\* The units of the next sheet, with the pages that are its own, go below the others.
LEMMA UnitsAreAdded ==
    ASSUME BookInv, bookStage = "building", NEW i, i = NextSheet, i <= Len(sheets),
           NEW added \in Seq(SheetUnit), units' = units \o added, added # <<>>,
           \A k \in 1..Len(added) : /\ added[k].sheet = i
                                    /\ added[k].page # 0 => attributed[added[k].page] = i,
           \A p \in 1..Len(attributed) : attributed[p] = i =>
              \E k \in 1..Len(added) : added[k].page = p,
           \A j, k \in 1..Len(added) :
              j < k /\ added[j].page # 0 /\ added[k].page # 0 => added[j].page < added[k].page,
           segmented'.sheet = i, UNCHANGED <<sheets, prints, attributed>>
    PROVE  UnitsInv' /\ units' \in Seq(SheetUnit)
<1>1. BookTypeOK /\ OrderInv /\ UnitsInv /\ Len(attributed) = Len(prints) BY DEF BookInv
<1>2. PICK last \in Nat : last = Len(prints) BY <1>1 DEF BookTypeOK
<1>3. PICK n \in Nat : n = Len(sheets) BY <1>1, DocumentsAreSheets
<1>4. PICK old \in Nat : old = Len(units) BY <1>1 DEF BookTypeOK
<1>5. PICK more \in Nat : more = Len(added) OBVIOUS
<1>6. more >= 1 /\ 1 \in 1..more BY <1>5
<1>7. /\ units \in Seq(SheetUnit)
      /\ units' \in Seq(SheetUnit) /\ Len(units') = old + more
      /\ \A u \in 1..old : units'[u] = units[u]
      /\ \A k \in 1..more : units'[old + k] = added[k]
  <2>1. units \in Seq(SheetUnit) BY <1>1 DEF BookTypeOK, SheetUnit
  <2>2. PICK joined : joined = units' OBVIOUS
  <2>3. joined = units \o added BY <2>2
  <2> QED BY <1>4, <1>5, <2>1, <2>2, <2>3
<1>8. segmented.sheet \in 0..n /\ segmented.sheet = i - 1 /\ i \in 1..n
  <2>1. PICK built \in 0..n : built = segmented.sheet BY <1>1, <1>3 DEF BookTypeOK
  <2>2. i = built + 1 BY <2>1 DEF NextSheet
  <2>3. built + 1 <= n BY <1>3, <2>2
  <2> QED BY <1>3, <2>1, <2>2, <2>3
<1>9. \A u \in 1..old : /\ units[u].sheet <= i - 1 /\ units[u].sheet \in 1..n
                        /\ units[u].page \in 0..last
                        /\ units[u].page # 0 => attributed[units[u].page] = units[u].sheet
  <2> TAKE u \in 1..old
  <2>1. units[u] \in SheetUnit BY <1>4, <1>7
  <2>2. units[u].sheet \in 1..n /\ units[u].page \in 0..last
    BY <1>2, <1>3, <2>1 DEF SheetUnit
  <2>3. /\ units[u].sheet <= segmented.sheet
        /\ units[u].page # 0 => attributed[units[u].page] = units[u].sheet
    BY <1>1, <1>4 DEF UnitsInv
  <2> QED BY <1>8, <2>2, <2>3
<1>10. \A k \in 1..more : /\ added[k].sheet = i /\ added[k].page \in 0..last
                          /\ added[k].page # 0 => attributed[added[k].page] = i
  <2> TAKE k \in 1..more
  <2>1. added[k] \in SheetUnit BY <1>5
  <2>2. added[k].page \in 0..last BY <1>2, <2>1 DEF SheetUnit
  <2> QED BY <1>5, <2>2
<1>11. \A u \in 1..old + more : u \in 1..old \/ \E k \in 1..more : u = old + k
  <2> TAKE u \in 1..old + more
  <2>1. u > old => u - old \in 1..more /\ u = old + (u - old) OBVIOUS
  <2> QED BY <2>1
<1>12. \A u \in 1..old : u \in 1..old + more OBVIOUS
<1>13. \A k \in 1..more : old + k \in 1..old + more OBVIOUS
<1>14. \A j \in 1..i : \E u \in 1..old + more : units'[u].sheet = j
  <2> TAKE j \in 1..i
  <2>1. CASE j = i BY <1>6, <1>7, <1>10, <1>13, <2>1
  <2>2. CASE j # i
    <3>1. j \in 1..segmented.sheet BY <1>8, <2>2
    <3>2. PICK u \in 1..old : units[u].sheet = j BY <1>1, <1>4, <3>1 DEF UnitsInv
    <3> QED BY <1>7, <1>12, <3>2
  <2> QED BY <2>1, <2>2
<1>15. \A u \in 1..old + more : /\ units'[u].sheet <= i
                                /\ units'[u].page # 0 =>
                                     attributed[units'[u].page] = units'[u].sheet
  <2> TAKE u \in 1..old + more
  <2>1. CASE u \in 1..old
    <3>1. units'[u] = units[u] BY <1>7, <2>1
    <3>2. units[u].sheet <= i BY <1>8, <1>9, <2>1
    <3> QED BY <1>9, <2>1, <3>1, <3>2
  <2>2. ASSUME NEW k \in 1..more, u = old + k
        PROVE  /\ units'[u].sheet <= i
               /\ units'[u].page # 0 => attributed[units'[u].page] = units'[u].sheet
    <3>1. units'[u] = added[k] BY <1>7, <2>2
    <3> QED BY <1>8, <1>10, <3>1
  <2> QED BY <1>11, <2>1, <2>2
<1>16. \A p \in 1..last : attributed[p] <= i => \E u \in 1..old + more : units'[u].page = p
  <2> SUFFICES ASSUME NEW p \in 1..last, attributed[p] <= i
               PROVE  \E u \in 1..old + more : units'[u].page = p
    OBVIOUS
  <2>1. attributed[p] \in Documents BY <1>1, <1>2 DEF BookTypeOK
  <2>2. attributed[p] \in 1..n BY <1>1, <1>3, <2>1, DocumentsAreSheets
  <2>3. CASE attributed[p] = i
    <3>1. PICK k \in 1..more : added[k].page = p BY <1>1, <1>2, <1>5, <2>3
    <3> QED BY <1>7, <1>13, <3>1
  <2>4. CASE attributed[p] # i
    <3>1. attributed[p] <= segmented.sheet BY <1>8, <2>2, <2>4
    <3>2. PICK u \in 1..old : units[u].page = p
      BY <1>1, <1>2, <1>4, <3>1 DEF UnitsInv
    <3> QED BY <1>7, <1>12, <3>2
  <2> QED BY <2>3, <2>4
<1>17. \A u, v \in 1..old + more : u < v => units'[u].sheet <= units'[v].sheet
  <2> SUFFICES ASSUME NEW u \in 1..old + more, NEW v \in 1..old + more, u < v
               PROVE  units'[u].sheet <= units'[v].sheet
    OBVIOUS
  <2>1. CASE v \in 1..old
    <3>1. u \in 1..old BY <2>1
    <3>2. units[u].sheet <= units[v].sheet BY <1>1, <1>4, <2>1, <3>1 DEF UnitsInv, SheetsGrow
    <3> QED BY <1>7, <2>1, <3>1, <3>2
  <2>2. ASSUME NEW k \in 1..more, v = old + k PROVE units'[u].sheet <= units'[v].sheet
    <3>1. units'[v].sheet = i BY <1>7, <1>10, <2>2
    <3> QED BY <1>15, <3>1
  <2> QED BY <1>11, <2>1, <2>2
<1>18. \A u, v \in 1..old + more :
          u < v /\ units'[u].page # 0 /\ units'[v].page # 0 => units'[u].page < units'[v].page
  <2> SUFFICES ASSUME NEW u \in 1..old + more, NEW v \in 1..old + more, u < v,
                      units'[u].page # 0, units'[v].page # 0
               PROVE  units'[u].page < units'[v].page
    OBVIOUS
  <2>1. CASE v \in 1..old
    <3>1. u \in 1..old BY <2>1
    <3>2. units'[u] = units[u] /\ units'[v] = units[v] BY <1>7, <2>1, <3>1
    <3> QED BY <1>1, <1>4, <2>1, <3>1, <3>2 DEF UnitsInv, PagesGrow
  <2>2. ASSUME u \in 1..old, NEW k \in 1..more, v = old + k
        PROVE  units'[u].page < units'[v].page
    <3>1. PICK p \in 1..last : p = units[u].page /\ attributed[p] = units[u].sheet
      <4>1. units'[u].page = units[u].page BY <1>7, <2>2
      <4> QED BY <1>9, <2>2, <4>1
    <3>2. PICK q \in 1..last : q = added[k].page /\ attributed[q] = i
      <4>1. units'[v].page = added[k].page BY <1>7, <2>2
      <4> QED BY <1>10, <4>1
    <3>3. attributed[p] <= i - 1 /\ attributed[p] \in 1..n BY <1>9, <2>2, <3>1
    <3>4. ~(attributed[q] <= attributed[p]) BY <1>8, <3>2, <3>3
    <3>5. ~(q <= p) BY <1>1, <1>2, <3>4 DEF OrderInv
    <3>6. units'[u].page = p /\ units'[v].page = q BY <1>7, <2>2, <3>1, <3>2
    <3> QED BY <3>5, <3>6
  <2>3. ASSUME NEW j \in 1..more, u = old + j, NEW k \in 1..more, v = old + k
        PROVE  units'[u].page < units'[v].page
    <3>1. units'[u] = added[j] /\ units'[v] = added[k] BY <1>7, <2>3
    <3>2. j < k BY <2>3
    <3> QED BY <1>5, <3>1, <3>2
  <2> QED BY <1>11, <2>1, <2>2, <2>3
<1>19. UnitsInv'
  <2>1. Len(units') = old + more /\ Len(attributed') = last BY <1>1, <1>2, <1>7
  <2>2. SheetsGrow' BY <1>17, <2>1 DEF SheetsGrow
  <2>3. PagesGrow' BY <1>18, <2>1 DEF PagesGrow
  <2> QED BY <1>14, <1>15, <1>16, <2>1, <2>2, <2>3 DEF UnitsInv
<1> QED BY <1>7, <1>19

\* Where the units and the sheet built last are right, the others are as they were.
LEMMA BuiltSheetKeeps ==
    ASSUME BookInv, bookStage = "building", UnitsInv', units' \in Seq(SheetUnit),
           segmented'.sheet \in 0..Len(sheets), RowsKeepTheirOrder',
           UNCHANGED <<bookStage, bookLowTier, sheets, signals, prints, attributed, honest,
                       bookImages>>
    PROVE  BookInv'
<1>1. Documents' = Documents BY DEF Documents
<1>2. BookTypeOK' BY <1>1 DEF BookInv, BookTypeOK, SheetUnit
<1>3. AttributionIsRight'
  BY <1>1 DEF BookInv, WorkbookPagesAreTrue, AttributionIsRight
<1>4. UnitsFollowTheWorkbook' BY DEF UnitsFollowTheWorkbook
<1>5. bookImages' = <<>> BY DEF BookInv
<1>6. ImagesAreOfTheirUnit' BY <1>5 DEF ImagesAreOfTheirUnit
<1>7. LongListIsData' BY DEF BookInv, WorkbookPagesAreTrue, LongListIsData
<1>8. WorkbookPagesAreTrue' BY <1>3, <1>4, <1>6, <1>7 DEF WorkbookPagesAreTrue
<1>9. OrderInv' BY DEF BookInv, OrderInv
<1> QED BY <1>1, <1>2, <1>5, <1>8, <1>9 DEF BookInv

LEMMA BuildingKeeps ==
    ASSUME BookInv, BuildSheet
    PROVE  BookInv'
<1>1. BookTypeOK /\ OrderInv /\ UnitsInv /\ Len(attributed) = Len(prints)
      /\ bookStage = "building"
  BY DEF BookInv, BuildSheet
<1>2. PICK n \in Nat : n = Len(sheets) BY <1>1, DocumentsAreSheets
<1>3. PICK i \in 1..n : i = NextSheet
  <2>1. segmented.sheet \in 0..n BY <1>1, <1>2 DEF BookTypeOK
  <2>2. NextSheet <= n BY <1>2 DEF BuildSheet
  <2>3. PICK built \in 0..n : built = segmented.sheet BY <2>1
  <2>4. NextSheet = built + 1 BY <2>3 DEF NextSheet
  <2> QED BY <1>2, <2>2, <2>4
<1>4. PICK last \in Nat : last = Len(prints) BY <1>1 DEF BookTypeOK
<1>5. UNCHANGED <<bookStage, bookLowTier, sheets, signals, prints, attributed, honest,
                  bookImages>>
  BY DEF BuildSheet
<1>6. units \in Seq(SheetUnit) BY <1>1 DEF BookTypeOK, SheetUnit
<1>7. CASE Summarised(i)
  <2>1. units' = Append(units, Unit(i, 0, FALSE)) /\ segmented' = NotSegmented(i)
    BY <1>3, <1>7 DEF BuildSheet
  <2>2. PICK unit \in SheetUnit : unit = Unit(i, 0, FALSE)
    <3>1. 0 \in 0..last /\ FALSE \in BOOLEAN BY <1>4
    <3> QED BY <1>2, <1>3, <1>4, <3>1 DEF Unit, SheetUnit
  <2>3. unit.sheet = i /\ unit.page = 0 BY <2>2 DEF Unit
  <2>4. PICK added : added = <<unit>> OBVIOUS
  <2>5. /\ added \in Seq(SheetUnit) /\ Len(added) = 1 /\ added # <<>>
        /\ \A k \in 1..1 : added[k] = unit
    BY <2>4
  <2>6. units' = units \o added
    <3>1. PICK Of : Of = SheetUnit OBVIOUS
    <3>2. units \in Seq(Of) /\ unit \in Of BY <1>6, <2>2, <3>1
    <3>3. Append(units, unit) = units \o <<unit>> BY <3>2
    <3> QED BY <2>1, <2>2, <2>4, <3>3
  <2>7. \A p \in 1..Len(attributed) : attributed[p] # i
    <3> TAKE p \in 1..Len(attributed)
    <3>1. attributed[p] \in Documents BY <1>1 DEF BookTypeOK
    <3>2. sheets[attributed[p]].document BY <1>1, <3>1, DocumentsAreSheets
    <3> QED BY <1>7, <3>2 DEF Summarised, PagesOf
  <2>8. segmented'.sheet = i BY <2>1, NothingSegmented
  <2>9. /\ \A k \in 1..Len(added) : added[k].sheet = i /\ added[k].page = 0
        /\ \A j, k \in 1..Len(added) : added[j].page = 0
    BY <2>3, <2>5
  <2>10. UnitsInv' /\ units' \in Seq(SheetUnit)
    <3>1. i = NextSheet /\ i <= Len(sheets) /\ bookStage = "building" BY <1>1, <1>2, <1>3
    <3>2. UNCHANGED <<sheets, prints, attributed>> BY <1>5
    <3>3. \A k \in 1..Len(added) : /\ added[k].sheet = i
                                   /\ added[k].page # 0 => attributed[added[k].page] = i
      BY <2>9
    <3>4. \A p \in 1..Len(attributed) : attributed[p] = i =>
            \E k \in 1..Len(added) : added[k].page = p
      BY <2>7
    <3>5. \A j, k \in 1..Len(added) :
            j < k /\ added[j].page # 0 /\ added[k].page # 0 => added[j].page < added[k].page
      BY <2>9
    <3> QED BY <2>5, <2>6, <2>8, <3>1, <3>2, <3>3, <3>4, <3>5, UnitsAreAdded
  <2>11. RowsKeepTheirOrder'
    <3>1. /\ segmented'.blocks = <<>> /\ segmented'.rows = <<>> /\ segmented'.pages = <<>>
          /\ RunsOf(<<>>) = {} /\ RunsInOrder(<<>>)
      BY <2>1, NothingSegmented
    <3> QED BY <3>1 DEF RowsKeepTheirOrder
  <2>12. segmented'.sheet \in 0..Len(sheets) BY <1>2, <1>3, <2>8
  <2> QED BY <1>1, <1>5, <2>10, <2>11, <2>12, BuiltSheetKeeps
<1>8. CASE ~Summarised(i)
  <2>1. PICK leaves : leaves = PagesOf(i) OBVIOUS
  <2>2. leaves # {} BY <1>8, <2>1 DEF Summarised
  <2>3. leaves \in SUBSET Nat /\ IsFiniteSet(leaves)
    <3>1. leaves \in SUBSET (1..last) BY <1>1, <1>4, <2>1 DEF PagesOf
    <3>2. PICK I : I = 1..last OBVIOUS
    <3>3. IsFiniteSet(I) BY <1>4, <3>2, FS_Interval
    <3>4. IsFiniteSet(leaves) BY <3>1, <3>2, <3>3, FS_Subset
    <3> QED BY <3>1, <3>4
  <2>4. PICK total \in Nat : total = Cardinality(leaves) BY <2>3, FS_CardinalityType
  <2>5. total # 0 BY <2>2, <2>3, <2>4, FS_EmptySet
  <2>6. PICK lines \in RowsOf[n] : \E placing \in Aligned(Segment(lines), leaves) :
          /\ units' = units \o [k \in 1..total |-> PageUnit(i, lines, Segment(lines), placing, k)]
          /\ segmented' = [sheet |-> i, rows |-> lines, blocks |-> Segment(lines),
                            pages |-> placing]
    BY <1>2, <1>3, <1>8, <2>1, <2>4 DEF BuildSheet
  <2>7. PICK placing \in Aligned(Segment(lines), leaves) :
          /\ units' = units \o [k \in 1..total |-> PageUnit(i, lines, Segment(lines), placing, k)]
          /\ segmented' = [sheet |-> i, rows |-> lines, blocks |-> Segment(lines),
                            pages |-> placing]
    BY <2>6
  <2>8. PICK added : added = [k \in 1..total |-> PageUnit(i, lines, Segment(lines), placing, k)]
    OBVIOUS
  <2>9. /\ \A k \in 1..total : Nth(leaves, k) \in leaves
        /\ \A p \in leaves : \E k \in 1..total : Nth(leaves, k) = p
        /\ \A j, k \in 1..total : j < k => Nth(leaves, j) < Nth(leaves, k)
    BY <2>3, <2>4, PagesAreNumbered
  <2>10. \A p \in leaves : p \in 1..last /\ attributed[p] = i
    BY <1>1, <1>4, <2>1 DEF PagesOf
  <2>11. ASSUME NEW k \in 1..total
         PROVE  /\ added[k] \in SheetUnit /\ added[k].sheet = i
                /\ added[k].page = Nth(leaves, k)
    <3>1. PICK page \in leaves : page = Nth(leaves, k) BY <2>9
    <3>2. PICK visual \in BOOLEAN : added[k] = Unit(i, page, visual)
      <4>1. added[k] = PageUnit(i, lines, Segment(lines), placing, k) BY <2>8
      <4>2. sheets[i].visuals \in BOOLEAN
        <5>1. sheets \in Seq([document : BOOLEAN, hidden : BOOLEAN, visuals : BOOLEAN])
          BY <1>1 DEF BookTypeOK
        <5>2. PICK Of : Of = [document : BOOLEAN, hidden : BOOLEAN, visuals : BOOLEAN]
          OBVIOUS
        <5>3. i \in 1..Len(sheets) /\ sheets \in Seq(Of) BY <1>2, <1>3, <5>1, <5>2
        <5>4. sheets[i] \in Of BY <5>3
        <5> QED BY <5>2, <5>4
      <4> QED BY <2>1, <3>1, <4>1, <4>2 DEF PageUnit
    <3>3. page \in 0..last BY <2>10
    <3>4. Unit(i, page, visual) \in SheetUnit BY <1>2, <1>4, <3>3 DEF Unit, SheetUnit
    <3>5. Unit(i, page, visual).sheet = i /\ Unit(i, page, visual).page = page BY DEF Unit
    <3> QED BY <3>1, <3>2, <3>4, <3>5
  <2>12. added \in Seq(SheetUnit) /\ Len(added) = total /\ added # <<>>
    <3>1. added \in [1..total -> SheetUnit] BY <2>8, <2>11
    <3>2. added \in Seq(SheetUnit) /\ Len(added) = total BY <3>1, FunctionIsASeq
    <3> QED BY <2>5, <3>2
  <2>13. units' = units \o added BY <2>7, <2>8
  <2>14. segmented'.sheet = i /\ segmented'.rows = lines
         /\ segmented'.blocks = Segment(lines) /\ segmented'.pages = placing
    BY <2>7
  <2>15. \A k \in 1..Len(added) : /\ added[k].sheet = i
                                  /\ added[k].page # 0 => attributed[added[k].page] = i
    BY <2>9, <2>10, <2>11, <2>12
  <2>16. \A p \in 1..Len(attributed) : attributed[p] = i =>
            \E k \in 1..Len(added) : added[k].page = p
    <3> SUFFICES ASSUME NEW p \in 1..Len(attributed), attributed[p] = i
                 PROVE  \E k \in 1..Len(added) : added[k].page = p
      OBVIOUS
    <3>1. p \in leaves BY <2>1 DEF PagesOf
    <3> QED BY <2>9, <2>11, <2>12, <3>1
  <2>17. \A j, k \in 1..Len(added) :
            j < k /\ added[j].page # 0 /\ added[k].page # 0 => added[j].page < added[k].page
    BY <2>9, <2>11, <2>12
  <2>18. UnitsInv' /\ units' \in Seq(SheetUnit)
    <3>1. i = NextSheet /\ i <= Len(sheets) /\ bookStage = "building" BY <1>1, <1>2, <1>3
    <3>2. UNCHANGED <<sheets, prints, attributed>> BY <1>5
    <3>3. segmented'.sheet = i BY <2>14
    <3> QED BY <2>12, <2>13, <2>15, <2>16, <2>17, <3>1, <3>2, <3>3, UnitsAreAdded
  <2>19. RowsKeepTheirOrder'
    <3>1. lines \in Seq(RowKinds)
      <4>1. n \in 1..SheetTotal
        BY <1>1, <1>2, <1>3, BookAssumption DEF BookTypeOK
      <4>2. RowsOf[n] \in SUBSET Seq(RowKinds) BY <4>1, BookAssumption
      <4> QED BY <4>2
    <3>2. InBlocks(Segment(lines)) /\ RunsOf(Segment(lines)) = Filled(lines, Len(lines))
      BY <3>1, SheetIsSegmented
    <3>3. PICK many \in Nat : many = Len(Segment(lines)) BY <3>2 DEF InBlocks
    <3>4. /\ placing \in [1..many -> leaves]
          /\ \A b \in 2..many : placing[b - 1] <= placing[b]
      BY <2>2, <3>3 DEF Aligned
    <3>5. Len(placing) = many BY <3>3, <3>4, FunctionIsASeq
    <3> QED BY <2>14, <3>2, <3>4, <3>5 DEF RowsKeepTheirOrder, InBlocks, Filled
  <2>20. segmented'.sheet \in 0..Len(sheets) BY <1>2, <1>3, <2>14
  <2> QED BY <1>1, <1>5, <2>18, <2>19, <2>20, BuiltSheetKeeps
<1> QED BY <1>7, <1>8

LEMMA PublishingKeeps ==
    ASSUME BookInv, PublishImages
    PROVE  BookInv'
<1> USE DEF PublishImages
<1>1. /\ BookTypeOK /\ OrderInv /\ UnitsInv /\ Len(attributed) = Len(prints)
      /\ bookStage = "building"
  BY DEF BookInv
<1>2. PICK n \in Nat : n = Len(sheets) BY <1>1, DocumentsAreSheets
<1>3. PICK last \in Nat : last = Len(prints) BY <1>1 DEF BookTypeOK
<1>4. segmented.sheet = n
  <2>1. PICK built \in 0..n : built = segmented.sheet BY <1>1, <1>2 DEF BookTypeOK
  <2>2. built + 1 > n BY <1>2, <2>1 DEF NextSheet
  <2> QED BY <2>1, <2>2
<1>5. \A p \in 1..last : \E u \in 1..Len(units) : units[u].page = p
  <2> TAKE p \in 1..last
  <2>1. attributed[p] \in Documents BY <1>1, <1>3 DEF BookTypeOK
  <2>2. attributed[p] <= n BY <1>1, <1>2, <2>1, DocumentsAreSheets
  <2> QED BY <1>1, <1>3, <1>4, <2>2 DEF UnitsInv
<1>6. ImagesAreOfTheirUnit'
  <2>1. PICK pictured \in {{}} \cup {{p} : p \in 1..last} :
          bookImages' = ImagesByUnit({u \in 1..Len(units) : units[u].looked}
                                       \cup {UnitOf(p) : p \in pictured})
    BY <1>3
  <2>2. \A p \in pictured : UnitOf(p) \in 1..Len(units)
    <3> TAKE p \in pictured
    <3>1. p \in 1..last BY <2>1
    <3> QED BY <1>5, <3>1 DEF UnitOf
  <2>3. PICK chosen : chosen = {u \in 1..Len(units) : units[u].looked}
                                 \cup {UnitOf(p) : p \in pictured}
    OBVIOUS
  <2>4. chosen \subseteq 1..Len(units) BY <2>2, <2>3
  <2>5. bookImages' = [u \in chosen |-> units[u].page] BY <2>1, <2>3 DEF ImagesByUnit
  <2> QED BY <2>4, <2>5 DEF ImagesAreOfTheirUnit
<1>7. UnitsFollowTheWorkbook'
  <2>1. \A i \in 1..n : \E u \in 1..Len(units) : units[u].sheet = i
    BY <1>1, <1>4 DEF UnitsInv
  <2>2. SheetsGrow' /\ PagesGrow' BY <1>1 DEF UnitsInv, SheetsGrow, PagesGrow
  <2> QED BY <1>2, <1>3, <1>5, <2>1, <2>2 DEF UnitsFollowTheWorkbook
<1>8. Documents' = Documents BY DEF Documents
<1>9. BookTypeOK' BY <1>1, <1>8 DEF BookTypeOK
<1>10. WorkbookPagesAreTrue'
  <2>1. AttributionIsRight'
    BY <1>8 DEF BookInv, WorkbookPagesAreTrue, AttributionIsRight
  <2>2. LongListIsData' BY DEF BookInv, WorkbookPagesAreTrue, LongListIsData
  <2>3. RowsKeepTheirOrder' BY DEF BookInv, WorkbookPagesAreTrue, RowsKeepTheirOrder
  <2> QED BY <1>6, <1>7, <2>1, <2>2, <2>3 DEF WorkbookPagesAreTrue
<1>11. OrderInv' BY <1>1 DEF OrderInv
<1> QED BY <1>1, <1>9, <1>10, <1>11 DEF BookInv

\* XlsxHandler.prepare, by induction on its steps.
LEMMA BookGoesOn ==
    ASSUME BookInv, [BookStep]_bookVars
    PROVE  BookInv'
<1>1. CASE BookStep
  BY <1>1, SheetKeeps, SummaryKeeps, RenderingKeeps, PageKeeps, BuildingKeeps,
     PublishingKeeps DEF BookStep
<1>2. CASE UNCHANGED bookVars
  <2> USE <1>2 DEF bookVars
  <2>1. Documents' = Documents BY DEF Documents
  <2>2. BookTypeOK' BY <2>1 DEF BookInv, BookTypeOK
  <2>3. OrderInv' BY DEF BookInv, OrderInv
  <2>4. UnitsInv => UnitsInv' BY DEF UnitsInv, SheetsGrow, PagesGrow
  <2>5. WorkbookPagesAreTrue'
    BY <2>1 DEF BookInv, WorkbookPagesAreTrue, AttributionIsRight, RowsKeepTheirOrder,
                UnitsFollowTheWorkbook, ImagesAreOfTheirUnit, LongListIsData, SheetsGrow,
                PagesGrow
  <2> QED BY <2>2, <2>3, <2>4, <2>5 DEF BookInv
<1> QED BY <1>1, <1>2

\* Pages go to the sheet they are of, rows keep their order, every sheet and page has
\* its unit, an image is of its unit, and a long list is never rendered.
THEOREM WorkbookPagesHold == BookSpec => []WorkbookPagesAreTrue
<1>1. BookInit => BookInv BY BookStart
<1>2. BookInv /\ [BookStep]_bookVars => BookInv' BY BookGoesOn
<1>3. BookInv => WorkbookPagesAreTrue BY DEF BookInv
<1> QED BY <1>1, <1>2, <1>3, PTL DEF BookSpec

-----------------------------------------------------------------------------
(* The loop and the reconciliation. *)

LEMMA FirstDelays == InitialBackoff \in Delays /\ MaxBackoff \in Delays /\ Delays \subseteq Nat
BY LoopAssumption DEF Delays

\* Doubling goes up to the limit, and comes down to it where the first delay is longer.
LEMMA DelaysDouble ==
    ASSUME backoff \in Delays
    PROVE  /\ Doubled(MaxBackoff) \in Delays
           /\ InitialBackoff <= backoff =>
                /\ MaxBackoff < InitialBackoff => Doubled(InitialBackoff) = InitialBackoff
                /\ MaxBackoff >= InitialBackoff => Doubled(MaxBackoff) >= InitialBackoff
<1>1. backoff \in Nat /\ InitialBackoff \in Nat \ {0} /\ MaxBackoff \in Nat \ {0}
  BY FirstDelays, LoopAssumption
<1>2. Doubled(MaxBackoff) \in Delays
  <2>1. CASE 2 * backoff < MaxBackoff
    <3>1. backoff = InitialBackoff \/ backoff \in InitialBackoff..MaxBackoff
      BY <1>1, <2>1 DEF Delays
    <3>2. 2 * backoff \in InitialBackoff..MaxBackoff
      BY <1>1, <2>1, <3>1
    <3> QED  BY <2>1, <3>2 DEF Doubled, Delays
  <2>2. CASE ~(2 * backoff < MaxBackoff)
    BY <2>2, FirstDelays DEF Doubled
  <2> QED  BY <2>1, <2>2
<1> QED  BY <1>1, <1>2 DEF Doubled

LEMMA LoopStart == LoopInit => LoopInv
<1> SUFFICES ASSUME LoopInit PROVE LoopInv
  OBVIOUS
<1>1. LoopTypeOK
  <2>1. backoff \in Delays
    BY FirstDelays DEF LoopInit
  <2>2. tries \in 0..GraphAttempts /\ outages \in 0..MaxOutages /\ changes \in 0..MaxChanges
    BY LoopAssumption DEF LoopInit
  <2> QED  BY <2>1, <2>2 DEF LoopInit, LoopTypeOK, Phases, DbErrors
<1> QED
  BY <1>1, LoopAssumption DEF LoopInit, LoopInv, OutageEndsNoWorker, PassIsDue, ChangesAreListed,
     FirstDelayIsKept

\* Every step of the loop and around it.
LEMMA LoopGoesOn ==
    ASSUME LoopInv, [LoopNext]_loopVars
    PROVE  LoopInv'
<1> USE LoopAssumption DEF LoopInv, LoopTypeOK, OutageEndsNoWorker, PassIsDue,
                           ChangesAreListed, FirstDelayIsKept, Phases, DbErrors, environment
<1>1. CASE PrepareStorage
  <2>1. /\ backoff' \in Delays
        /\ loop' = "prepare" => InitialBackoff <= backoff'
    <3>1. CASE database = "up"
      BY <1>1, <3>1, FirstDelays DEF PrepareStorage
    <3>2. CASE database # "up" /\ MaxBackoff < InitialBackoff
      BY <1>1, <3>2, FirstDelays, DelaysDouble DEF PrepareStorage
    <3>3. CASE database # "up" /\ ~(MaxBackoff < InitialBackoff)
      BY <1>1, <3>3, FirstDelays, DelaysDouble DEF PrepareStorage
    <3> QED  BY <3>1, <3>2, <3>3
  <2> QED  BY <1>1, <2>1 DEF PrepareStorage, IsTransient
<1>2. CASE RunOnce \/ CommandsFail
  BY <1>2 DEF RunOnce, CommandsFail
<1>3. CASE Outage
  BY <1>3 DEF Outage, IsTransient
<1>4. CASE Wait
  BY <1>4, DelaysDouble DEF Wait
<1>5. CASE Ask \/ CallFails
  BY <1>5 DEF Ask, CallFails
<1>6. ASSUME NEW d \in Sources, CallRefused(d) \/ Reconcile(d) PROVE LoopInv'
  BY <1>6 DEF CallRefused, Reconcile
<1>7. CASE PassEnds
  BY <1>7 DEF PassEnds
<1>8. CASE DatabaseReturns \/ IntervalPasses
  BY <1>8 DEF DatabaseReturns, IntervalPasses
<1>12. CASE Sleep \/ Restart
  <2>1. backoff' = InitialBackoff /\ backoff' \in Delays
    BY <1>12, FirstDelays DEF Sleep, Restart
  <2>2. InitialBackoff <= backoff'
    BY <2>1
  <2> QED  BY <1>12, <2>1, <2>2 DEF Sleep, Restart
<1>9. ASSUME NEW error \in DbErrors, DatabaseFails(error) PROVE LoopInv'
  BY <1>9 DEF DatabaseFails
<1>10. ASSUME NEW d \in Sources, SourceChanges(d) PROVE LoopInv'
  BY <1>10 DEF SourceChanges
<1>11. CASE UNCHANGED loopVars
  BY <1>11 DEF loopVars
<1> QED
  BY <1>1, <1>2, <1>3, <1>4, <1>5, <1>6, <1>7, <1>8, <1>9, <1>10, <1>11, <1>12
  DEF LoopNext, LoopStep

\* The loop waits out every outage, repeats every pass that was cut off and loses no
\* source that changed, for any number of documents, attempts and delays.
THEOREM LoopInvariant == LoopSpec => []LoopInv
BY LoopStart, LoopGoesOn, PTL DEF LoopSpec

\* A database that is away ends no worker: only Graph does.
THEOREM OutagesEndNoWorker == LoopSpec => []OutageEndsNoWorker
BY LoopInvariant, PTL DEF LoopInv

LEMMA SyncStart == SyncInit => SyncTypeOK
<1> SUFFICES ASSUME SyncInit PROVE SyncTypeOK
  OBVIOUS
<1>1. Nowhere \in Described /\ [Nowhere EXCEPT !.acl = Gone] \in Recorded /\ Nowhere \in Recorded
  BY SyncAssumption DEF Nowhere, Described, Recorded, Permissions
<1>2. 0 \in 0..MaxEdits /\ 1 \in Nat
  BY SyncAssumption
<1>3. job \in [at : JobSteps, request : Nat, read : Described]
  BY <1>1, <1>2 DEF SyncInit, JobSteps
<1>4. pass \in [at : PassSteps, request : Nat, seen : Recorded, read : Described]
  BY <1>1, <1>2 DEF SyncInit, PassSteps
<1> QED  BY <1>1, <1>2, <1>3, <1>4 DEF SyncInit, SyncTypeOK

LEMMA JobKeepsTypes ==
    ASSUME SyncTypeOK, JobStep
    PROVE  SyncTypeOK'
<1>1. job \in [at : JobSteps, request : Nat, read : Described]
  BY DEF SyncTypeOK
<1>2. CASE BeginUpsert \/ GiveUp
  <2>1. job' \in [at : JobSteps, request : Nat, read : Described]
    BY <1>1, <1>2 DEF BeginUpsert, GiveUp, JobSteps, SyncTypeOK
  <2> QED  BY <1>2, <2>1 DEF BeginUpsert, GiveUp, jobOther, SyncTypeOK
<1>3. CASE JobReadsDriveItem \/ JobReadsContent \/ JobReadsAcl
  <2>1. source \in Described
    BY <1>3 DEF JobReadsDriveItem, JobReadsContent, JobReadsAcl, ReadSource, SyncTypeOK
  <2>2. PICK next \in JobSteps, read \in Described : job' = [job EXCEPT !.at = next, !.read = read]
    BY <1>1, <1>3, <2>1
    DEF JobReadsDriveItem, JobReadsContent, JobReadsAcl, ReadSource, JobSteps, Described
  <2>3. job' \in [at : JobSteps, request : Nat, read : Described]
    BY <1>1, <2>2
  <2> QED
    BY <1>3, <2>3 DEF JobReadsDriveItem, JobReadsContent, JobReadsAcl, ReadSource, jobOther, SyncTypeOK
<1>4. CASE PublishItem \/ RecordSuccess
  <2>1. job' \in [at : JobSteps, request : Nat, read : Described] /\ job.read \in Recorded
    BY <1>1, <1>4 DEF PublishItem, RecordSuccess, JobSteps, Described, Recorded
  <2> QED  BY <1>1, <1>4, <2>1 DEF PublishItem, RecordSuccess, jobOther, SyncTypeOK
<1> QED  BY <1>2, <1>3, <1>4 DEF JobStep

LEMMA PassKeepsTypes ==
    ASSUME SyncTypeOK, PassStep \/ PassBreaks
    PROVE  SyncTypeOK'
<1> DEFINE Passes == [at : PassSteps, request : Nat, seen : Recorded, read : Described]
<1>1. /\ pass \in Passes /\ request \in Nat /\ row \in Recorded
      /\ source \in Described \cup {Gone} /\ item \in Described \cup {Gone}
  BY DEF SyncTypeOK
<1>2. \A step \in PassSteps : PassGoes(step) => pass' \in Passes
  BY <1>1 DEF PassGoes
<1>3. /\ {"idle", "drive", "content", "enter", "acl", "updateAcl", "updateMeta", "recordAcl",
          "recordMeta", "forget"} \subseteq PassSteps
      /\ QueueRefreshIfCurrent =>
           standing' \in {"Queued", "Ready", "Failed", "NotEnabled"} /\ request' \in Nat
  BY DEF PassSteps, QueueRefreshIfCurrent, SyncTypeOK
<1>4. CASE ListDocument
  <2>1. pass' \in Passes
    BY <1>1, <1>3, <1>4 DEF ListDocument
  <2> QED  BY <1>4, <2>1 DEF ListDocument, passOther, SyncTypeOK
<1>5. CASE PassReadsDriveItem
  <2>1. pass' \in Passes
    BY <1>1, <1>3, <1>5 DEF PassReadsDriveItem, Described
  <2> QED  BY <1>5, <2>1 DEF PassReadsDriveItem, passOther, SyncTypeOK
<1>6. CASE ForgetSource
  <2>1. pass' \in Passes
    BY <1>2, <1>3, <1>6 DEF ForgetSource
  <2>2. row' \in Recorded
    BY <1>1, <1>6 DEF ForgetSource, Recorded
  <2> QED  BY <1>6, <2>1, <2>2 DEF ForgetSource, SyncTypeOK
<1>7. CASE PassReadsContent \/ EnterOperation
  <2>1. pass' \in Passes
    BY <1>2, <1>3, <1>7 DEF PassReadsContent, EnterOperation
  <2>2. standing' \in {"Queued", "Ready", "Failed", "NotEnabled"} /\ request' \in Nat
    BY <1>3, <1>7 DEF PassReadsContent, EnterOperation, SyncTypeOK
  <2> QED  BY <1>7, <2>1, <2>2 DEF PassReadsContent, EnterOperation, passOther, SyncTypeOK
<1>8. CASE PassReadsAcl
  <2>1. source \in Described
    BY <1>1, <1>8 DEF PassReadsAcl
  <2>2. pass' \in Passes
    BY <1>1, <1>3, <1>8, <2>1 DEF PassReadsAcl, Described
  <2> QED  BY <1>8, <2>2 DEF PassReadsAcl, passOther, SyncTypeOK
<1>9. CASE UpdateAcl
  <2>1. pass' \in Passes
    BY <1>2, <1>3, <1>9 DEF UpdateAcl
  <2>2. item' \in Described \cup {Gone}
    <3>1. CASE item = Gone
      BY <1>1, <1>9, <3>1 DEF UpdateAcl
    <3>2. CASE item # Gone
      <4>1. item \in Described /\ pass.read.acl \in Permissions
        BY <1>1, <3>2 DEF Described
      <4>2. [item EXCEPT !.acl = pass.read.acl] \in Described
        BY <4>1 DEF Described
      <4> QED  BY <1>9, <3>2, <4>1, <4>2 DEF UpdateAcl, WithAcl
    <3> QED  BY <3>1, <3>2
  <2>3. standing' \in {"Queued", "Ready", "Failed", "NotEnabled"} /\ request' \in Nat
    BY <1>3, <1>9 DEF UpdateAcl, SyncTypeOK
  <2> QED  BY <1>9, <2>1, <2>2, <2>3 DEF UpdateAcl, passOther, SyncTypeOK
<1>10. CASE UpdateProperties
  <2>1. pass' \in Passes
    BY <1>2, <1>3, <1>10 DEF UpdateProperties
  <2>2. item' \in Described \cup {Gone}
    BY <1>1, <1>10 DEF UpdateProperties, Described
  <2> QED  BY <1>10, <2>1, <2>2 DEF UpdateProperties, passOther, SyncTypeOK
<1>11. CASE RecordAclUpdate \/ RecordSourceMetadata
  <2>1. pass' \in Passes
    BY <1>2, <1>3, <1>11 DEF RecordAclUpdate, RecordSourceMetadata
  <2>2. row' \in Recorded
    BY <1>1, <1>11 DEF RecordAclUpdate, RecordSourceMetadata, Recorded, Described
  <2> QED  BY <1>11, <2>1, <2>2 DEF RecordAclUpdate, RecordSourceMetadata, passOther, SyncTypeOK
<1>12. CASE PassBreaks
  <2>1. pass' \in Passes
    BY <1>2, <1>3, <1>12 DEF PassBreaks
  <2> QED  BY <1>12, <2>1 DEF PassBreaks, SyncTypeOK
<1> QED
  BY <1>4, <1>5, <1>6, <1>7, <1>8, <1>9, <1>10, <1>11, <1>12 DEF PassStep

\* Every step of the reconciliation and of its surroundings.
LEMMA SyncGoesOn ==
    ASSUME SyncTypeOK, [SyncNext]_syncVars
    PROVE  SyncTypeOK'
<1>1. CASE EditSource
  <2>1. edits + 1 \in 0..MaxEdits /\ source \in Described
    BY <1>1, SyncAssumption DEF EditSource, SyncTypeOK
  <2>2. source' \in Described \cup {Gone}
    BY <1>1, <2>1 DEF EditSource, Described, Permissions
  <2> QED  BY <1>1, <2>1, <2>2 DEF EditSource, SyncTypeOK
<1>2. CASE LoseItem \/ AskAgain
  <2>1. LoseItem => edits + 1 \in 0..MaxEdits
    BY SyncAssumption DEF LoseItem, SyncTypeOK
  <2> QED  BY <1>2, <2>1 DEF LoseItem, AskAgain, SyncTypeOK
<1>3. CASE UNCHANGED syncVars
  BY <1>3 DEF syncVars, SyncTypeOK
<1> QED
  BY <1>1, <1>2, <1>3, JobKeepsTypes, PassKeepsTypes DEF SyncNext

-----------------------------------------------------------------------------
(* All of them. *)

\* A step of the whole is, for each component, a step of its own or none.
LEMMA StepsOfTheParts ==
    ASSUME [ServicesNext]_servicesVars
    PROVE  /\ [Next]_vars
           /\ [BenchNext]_benchVars
           /\ [RenderNext]_renderVars
           /\ [LoopNext]_loopVars
           /\ [InstallNext]_installVars
           /\ [PipelineStep]_pipelineVars
           /\ [SyncNext]_syncVars
           /\ [DecryptNext]_decryptVars
           /\ [WebNext]_webVars
           /\ [WordStep]_wordVars
           /\ [BookStep]_bookVars
BY DEF ServicesNext, OtherPartsStill, servicesVars

\* Every component keeps its invariant, whichever of them runs, for all values of all
\* their constants.
THEOREM ServicesInvariant == ServicesSpec => []ServicesInv
<1>1. ServicesInit => ServicesInv
  <2> SUFFICES ASSUME ServicesInit PROVE ServicesInv
    OBVIOUS
  <2>1. ArchiveInv /\ RenderInv /\ InstallInv /\ PipelineInv /\ RequestsAreCounted
    BY ArchiveStart, RenderStart, InstallStart, AnalysisStart, CountStart DEF ServicesInit
  <2>2. GuideInv
    BY ReadingStart DEF ServicesInit, GuideInv, DecryptInit
  <2>3. WebInv /\ WordInv /\ BookInv /\ BenchInv /\ LoopInv /\ SyncTypeOK
    BY WebStart, WordStart, BookStart, BenchStart, LoopStart, SyncStart DEF ServicesInit
  <2>4. RequestsAreBounded
    BY <2>1, CountsAreBounded
  <2> QED  BY <2>1, <2>2, <2>3, <2>4 DEF ServicesInv
<1>2. ServicesInv /\ [ServicesNext]_servicesVars => ServicesInv'
  <2> SUFFICES ASSUME ServicesInv, [ServicesNext]_servicesVars PROVE ServicesInv'
    OBVIOUS
  <2>1. ArchiveInv' /\ RenderInv' /\ InstallInv'
    BY StepsOfTheParts, ArchiveGoesOn, RenderGoesOn, InstallGoesOn DEF ServicesInv
  <2>2. PipelineInv' /\ RequestsAreCounted'
    BY StepsOfTheParts, PipelineGoesOn, CountGoesOn DEF ServicesInv
  <2>3. RequestsAreBounded'
    BY <2>2, CountsAreBounded, PTL
  <2>4. GuideInv' /\ WebInv' /\ WordInv' /\ BookInv' /\ BenchInv'
    BY StepsOfTheParts, GuideGoesOn, WebGoesOn, WordGoesOn, BookGoesOn, BenchGoesOn
    DEF ServicesInv
  <2>5. LoopInv' /\ SyncTypeOK'
    BY StepsOfTheParts, LoopGoesOn, SyncGoesOn DEF ServicesInv
  <2> QED  BY <2>1, <2>2, <2>3, <2>4, <2>5 DEF ServicesInv
<1> QED  BY <1>1, <1>2, PTL DEF ServicesSpec
=============================================================================
