----------------------------- MODULE Decryption -----------------------------
(***************************************************************************)
(* Decrypting a protected source: the administrator's toggle, the tenant's *)
(* readiness and its probe, the command line tool behind a workspace of    *)
(* temporary files, and the two readers of a source: a job, which decrypts *)
(* it once more in process(), and a reconciliation pass, which compares    *)
(* its fingerprint.  A document saved anew under protection has other      *)
(* bytes (nonce) even where its text is the same.                          *)
(***************************************************************************)
EXTENDS Naturals

CONSTANTS
    MaxChores,     \* bound: what administrators and the platform change
    MaxSaves       \* bound: how often the document is saved

ASSUME ChoresAssumption == MaxChores \in Nat /\ MaxSaves \in Nat

VARIABLES
    toggle,     \* decryption.mip.enabled in the settings
    tenant,     \* what Azure Rights Management grants the service principal
    tool,       \* what CREWMEAL_MIP_SDK_CLI names
    running,    \* the worker's snapshot of toggle and tool
    guide,      \* the setup guide since the last change: "unknown" until asked
    file,       \* the document in the library
    reading,    \* where the worker is with it
    purpose,    \* "job" or "check"
    again,      \* a job is in process(), past its fingerprint
    payload,    \* the bytes in hand
    workspace,  \* files in the temporary directory
    mark,       \* the fingerprint of the last finished job, {} or one value
    outcome,    \* how the last reading ended
    chores,
    saves

progress   == <<reading, outcome, workspace>>
settings   == <<toggle, tenant, tool>>
world      == <<settings, running, guide, file, chores, saves>>
decryptVars == <<world, progress, purpose, again, payload, mark>>

Tools    == {"unset", "missing", "works"}
Grants   == {"nothing", "token", "role", "group"}
Outcomes == {"", "unset", "unlaunched", "denied", "broken", "invalid",
             "unchanged", "refresh", "analysed"}
Marks    == [text : 0..MaxSaves, nonce : 0..MaxSaves]
Payloads == [text : 0..MaxSaves, nonce : 0..MaxSaves, protected : BOOLEAN]

DecryptTypeOK ==
    /\ toggle \in BOOLEAN /\ tenant \in Grants /\ tool \in Tools
    /\ running \in [toggle : BOOLEAN, tool : Tools]
    /\ guide \in {"unknown", "ready", "unready"}
    /\ file \in Payloads /\ payload \in Payloads
    /\ reading \in {"idle", "source", "token", "call", "tool", "output", "bytes"}
    /\ purpose \in {"job", "check"} /\ again \in BOOLEAN
    /\ workspace \subseteq {"input", "token", "output"}
    /\ mark \in {{}} \cup {{m} : m \in Marks}
    /\ outcome \in Outcomes
    /\ chores \in 0..MaxChores /\ saves \in 0..MaxSaves

Snapshot == [toggle |-> toggle, tool |-> tool]

DecryptInit ==
    /\ toggle \in BOOLEAN /\ tenant \in Grants /\ tool \in Tools
    /\ running = Snapshot
    /\ guide = "unknown"
    /\ file \in [text : {0}, nonce : {0}, protected : BOOLEAN]
    /\ payload = file
    /\ reading = "idle" /\ outcome = "" /\ workspace = {}
    /\ purpose = "job" /\ again = FALSE
    /\ mark = {}
    /\ chores = 0 /\ saves = 0

-----------------------------------------------------------------------------
(* Administrators, the platform and the authors. *)

Chore ==
    /\ chores < MaxChores
    /\ chores' = chores + 1
    /\ UNCHANGED <<running, file, saves, progress, purpose, again, payload, mark>>

SaveToggle  == Chore /\ toggle' = ~toggle /\ UNCHANGED <<tenant, tool, guide>>
ChangeGrant == /\ Chore
               /\ tenant' \in Grants \ {tenant}
               /\ guide' = "unknown"
               /\ UNCHANGED <<toggle, tool>>
DeployTool  == /\ Chore
               /\ tool' \in Tools \ {tool}
               /\ guide' = "unknown"
               /\ UNCHANGED <<toggle, tenant>>

\* Mutant: a token is enough.
SeesToken == tenant # "nothing"

\* The role claim of the token; a membership of a group is not one.
SeesSuperUser == tenant = "role"

\* The checklist with a forced probe.
Recheck ==
    /\ guide = "unknown"
    /\ guide' = IF tool # "unset" /\ tenant # "nothing" /\ SeesSuperUser THEN "ready"
                                                                       ELSE "unready"
    /\ UNCHANGED <<settings, running, file, chores, saves, progress, purpose, again, payload, mark>>

\* Settings and environment are read once; a killed process leaves its
\* workspace to the operating system.
RestartWorker ==
    /\ running # Snapshot
    /\ running' = Snapshot
    /\ reading' = "idle" /\ outcome' = "" /\ workspace' = {}
    /\ UNCHANGED <<settings, guide, file, chores, saves, purpose, again, payload, mark>>

SaveDocument ==
    /\ saves < MaxSaves
    /\ saves' = saves + 1
    /\ file' \in [text : {file.text, saves + 1}, nonce : {saves + 1}, protected : BOOLEAN]
    /\ UNCHANGED <<settings, running, guide, chores, progress, purpose, again, payload, mark>>

-----------------------------------------------------------------------------
(* maybe_decrypt and SubprocessMipSdkRunner.run. *)

\* Leaving the with-block removes the temporary directory.
Ends(result) ==
    /\ reading' = "idle"
    /\ outcome' = result
    /\ workspace' = {}

GoesTo(step, files) ==
    /\ reading' = step
    /\ workspace' = files
    /\ UNCHANGED outcome

Download ==
    /\ reading = "idle"
    /\ \/ purpose' = "job"
       \/ purpose' = "check" /\ mark # {}
    /\ payload' = file
    /\ again' = FALSE
    /\ reading' = "source"
    /\ outcome' = ""
    /\ UNCHANGED <<world, workspace, mark>>

Recognised == running.toggle /\ payload.protected

Detect ==
    /\ reading = "source"
    /\ IF ~Recognised                THEN GoesTo("bytes", {})
       ELSE IF running.tool = "unset" THEN Ends("unset")
                                      ELSE GoesTo("token", {})
    /\ UNCHANGED <<world, purpose, again, payload, mark>>

AcquireToken ==
    /\ reading = "token"
    /\ IF tenant = "nothing" THEN Ends("denied") ELSE GoesTo("call", {"input", "token"})
    /\ UNCHANGED <<world, purpose, again, payload, mark>>

StartTool ==
    /\ reading = "call"
    /\ IF running.tool = "missing" THEN Ends("unlaunched") ELSE GoesTo("tool", workspace)
    /\ UNCHANGED <<world, purpose, again, payload, mark>>

\* Mutant: input.bin.
SuffixIsBin == FALSE

\* The SDK chooses its handler by the suffix of the input, which is the
\* document's own; what it does not know it copies as it is.
SuffixIsKnown == TRUE

ToolSucceeds ==
    /\ reading = "tool"
    /\ tenant \in {"role", "group"} \/ ~SuffixIsKnown
    /\ GoesTo("output", workspace \cup {"output"})
    /\ payload' = [payload EXCEPT !.protected = ~SuffixIsKnown]
    /\ UNCHANGED <<world, purpose, again, mark>>

\* Mutant: the directory is removed where the output was read.
ToolFailsLeavingFiles ==
    /\ reading = "tool"
    /\ reading' = "idle"
    /\ outcome' = "broken"
    /\ UNCHANGED <<workspace, world, purpose, again, payload, mark>>

\* A service principal without the right, or an exit status, a missing output,
\* a timeout of the tool.
ToolFails ==
    /\ reading = "tool"
    /\ Ends(IF tenant \in {"role", "group"} THEN "broken" ELSE "denied")
    /\ UNCHANGED <<world, purpose, again, payload, mark>>

ReadOutput ==
    /\ reading = "output"
    /\ GoesTo("bytes", {})
    /\ UNCHANGED <<world, purpose, again, payload, mark>>

-----------------------------------------------------------------------------
(* What is done with the bytes. *)

\* Mutant: it is taken of the bytes as they were downloaded.
FingerprintOfFile(p) == [text |-> p.text, nonce |-> p.nonce]

\* The fingerprint is taken of the plaintext: the nonce is gone.
Fingerprint(p) == [text |-> p.text, nonce |-> 0]

\* Reading a container that is still protected is InvalidPresentationError.
Reject ==
    /\ reading = "bytes"
    /\ payload.protected
    /\ Ends("invalid")
    /\ UNCHANGED <<world, purpose, again, payload, mark>>

Compare ==
    /\ reading = "bytes"
    /\ purpose = "check"
    /\ ~payload.protected
    /\ Ends(IF mark = {Fingerprint(payload)} THEN "unchanged" ELSE "refresh")
    /\ UNCHANGED <<world, purpose, again, payload, mark>>

\* The job has its fingerprint and enters process(), which decrypts again.
EnterProcess ==
    /\ reading = "bytes"
    /\ purpose = "job"
    /\ ~again
    /\ ~payload.protected
    /\ again' = TRUE
    /\ GoesTo("source", {})
    /\ UNCHANGED <<world, purpose, payload, mark>>

\* validate, prepare and the rest of the job, to record_success.
Analyse ==
    /\ reading = "bytes"
    /\ again
    /\ ~payload.protected
    /\ Ends("analysed")
    /\ mark' = {Fingerprint(payload)}
    /\ UNCHANGED <<world, purpose, again, payload>>

-----------------------------------------------------------------------------
DecryptNext ==
    \/ SaveToggle \/ ChangeGrant \/ DeployTool \/ Recheck \/ RestartWorker \/ SaveDocument
    \/ Download \/ Detect \/ AcquireToken \/ StartTool \/ ToolSucceeds \/ ToolFails \/ ReadOutput
    \/ Reject \/ Compare \/ EnterProcess \/ Analyse

DecryptSpec == DecryptInit /\ [][DecryptNext]_decryptVars

\* Where the provider was enabled when the worker started, a protected source
\* ends decrypted or with an error of the decryption, never as a document the
\* reader calls damaged: the comment at the suffix in SubprocessMipSdkRunner.run.
FailureIsNamed == running.toggle => outcome # "invalid"

\* A pass asks for a new analysis only where the text is another one, however
\* often the document was protected anew: decrypt_source's comment.
RefreshedOnlyWhenChanged ==
    outcome = "refresh" => \A m \in mark : m.text # payload.text

\* No plaintext and no token is left where no tool is at work.
WorkspaceIsRemoved == reading \notin {"call", "tool", "output"} => workspace = {}

\* What becomes of a protected source in the hands of a job or of a pass (mip_sdk.py,
\* worker.reconcile_once): no damaged document, no needless analysis, no files left.
ReadingsAreTrue == FailureIsNamed /\ RefreshedOnlyWhenChanged /\ WorkspaceIsRemoved

\* Inductive: what gets to the bytes is plain where the provider is enabled, and
\* fingerprints are of plaintext.
ReadingInv ==
    /\ DecryptTypeOK
    /\ ReadingsAreTrue
    /\ running.toggle /\ reading \in {"output", "bytes"} => ~payload.protected
    /\ \A m \in mark : m.nonce = 0

\* Inductive: what the guide saw as ready is so until something changes, and a
\* reading under way has not ended.
GuideInv ==
    /\ ReadingInv
    /\ guide = "ready" => tool # "unset" /\ tenant = "role"
    /\ reading # "idle" => outcome = ""

\* A guide that showed everything ready, with nothing changed and the worker
\* started since, means that no reading ends for a missing right or setting.
ReadyGuideIsTrue ==
    [][guide = "ready" /\ running.tool = tool /\ reading # "idle"
         => outcome' \notin {"denied", "unset"}]_decryptVars
=============================================================================
