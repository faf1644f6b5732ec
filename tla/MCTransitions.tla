---------------------------- MODULE MCTransitions ----------------------------
(* The liveness run of the two models of a switch of the publication target:  *)
(* PublicationTransition follows two workers and the settings pages through    *)
(* the row, PublicationFlow one worker through the publications of a document. *)
(* A behaviour is of one part; the variables of the other stay where they      *)
(* began.  No symmetry: the run checks liveness.                               *)
EXTENDS PublicationTransition

CONSTANTS
    Docs, Publishers, MaxRequests, MaxAttempts, MaxFaults     \* of PublicationFlow

VARIABLES
    part,
    open,            \* the transition row of PublicationFlow
    docs, jobs, lastRequest, rows, fresh, work, lock, remote, republish, faults

Documents == INSTANCE PublicationFlow WITH transition <- open, Workers <- Publishers

documentVars == <<open, docs, jobs, lastRequest, rows, fresh, work, lock, remote,
                  republish, faults>>

allVars == <<part, vars, documentVars>>

\* Only the part that runs has more than one initial state.
TransitionsInit ==
    /\ part \in {"documents", "row"}
    /\ Documents!PublishedStore /\ Documents!WorkersIdle
    /\ Init
    /\ part = "documents" => transition.active = "unset"

OfTheDocuments(A) == part = "documents" /\ A /\ UNCHANGED <<part, vars>>
OfTheRow(A)       == part = "row" /\ A /\ UNCHANGED <<part, documentVars>>

TransitionsNext ==
    \/ /\ part = "documents"
       /\ Documents!Next
       /\ open'.generation <= 2
       /\ UNCHANGED <<part, vars>>
    \/ part = "row" /\ Next /\ UNCHANGED <<part, documentVars>>

\* Fairness of both, each while its part runs.  With one worker the lock is free
\* whenever that worker waits for it, so that its step needs no more.
TransitionsFairness ==
    /\ \A w \in Publishers :
         WF_allVars(OfTheDocuments(\/ Documents!Claim(w)
                                   \/ Documents!BeginPass(w)
                                   \/ Documents!Step(w)
                                   \/ Documents!Lock(w)))
    /\ \A j \in Documents!JobIds :
         WF_allVars(OfTheDocuments(Documents!AbandonedLeaseExpires(j)))
    /\ WF_allVars(OfTheDocuments(Documents!AdminProvisions))
    /\ WF_allVars(OfTheDocuments(Documents!AdminConfirms))
    /\ WF_allVars(OfTheDocuments(\E item \in republish, r \in Documents!Requests :
                                     Documents!AdminRepublishes(item, r)))
    /\ \A w \in Workers : WF_allVars(OfTheRow(Progress(w)))
    /\ SF_allVars(OfTheRow(\E w \in Workers : DocumentsCurrent(w)))
    /\ SF_allVars(OfTheRow(\E w \in Workers : Activate(w)))
    /\ WF_allVars(OfTheRow(OpenForm))
    /\ WF_allVars(OfTheRow(SubmitForm))

TransitionsSpec ==
    TransitionsInit /\ [][TransitionsNext]_allVars /\ TransitionsFairness

-----------------------------------------------------------------------------
(* The property of PublicationFlow, for its part. *)

\* A switch that the administrator confirms reaches its end, through rollbacks,
\* workers and documents, or a failure is shown (_advance_publication_transition).
EveryTransitionOfTheDocumentsEnds == Documents!EveryTransitionEnds
=============================================================================
