--------------------------- MODULE RequestOutcome ---------------------------
(***************************************************************************)
(* What the queue promises, without jobs, leases or workers: the newest    *)
(* request of a document is the one that counts; it is carried out at most *)
(* once, as the kind of request it is; an outcome is never that of a       *)
(* request that was superseded.                                            *)
(***************************************************************************)
EXTENDS Naturals

CONSTANTS Docs, Requests

VARIABLES
    latest,    \* the newest request of each document, 0 before the first
    settled,   \* the request whose outcome the document carries
    enhance,   \* whether the document is wanted in the search index
    phase,     \* "new", "pending", "settled" or "failed"
    version    \* how many enhancements were committed

vars == <<latest, settled, enhance, phase, version>>

Init ==
    /\ latest = [d \in Docs |-> 0]
    /\ settled = [d \in Docs |-> 0]
    /\ enhance = [d \in Docs |-> FALSE]
    /\ phase = [d \in Docs |-> "new"]
    /\ version = [d \in Docs |-> 0]

\* A newer request replaces whatever the document was waiting for.
Submit(d, r, wanted) ==
    /\ r > latest[d]
    /\ latest' = [latest EXCEPT ![d] = r]
    /\ enhance' = [enhance EXCEPT ![d] = wanted]
    /\ phase' = [phase EXCEPT ![d] = "pending"]
    /\ UNCHANGED <<settled, version>>

Enhance(d) ==
    /\ settled[d] # latest[d]
    /\ enhance[d]
    /\ settled' = [settled EXCEPT ![d] = latest[d]]
    /\ phase' = [phase EXCEPT ![d] = "settled"]
    /\ version' = [version EXCEPT ![d] = @ + 1]
    /\ UNCHANGED <<latest, enhance>>

Remove(d) ==
    /\ settled[d] # latest[d]
    /\ ~enhance[d]
    /\ settled' = [settled EXCEPT ![d] = latest[d]]
    /\ phase' = [phase EXCEPT ![d] = "settled"]
    /\ UNCHANGED <<latest, enhance, version>>

Fail(d) ==
    /\ settled[d] # latest[d]
    /\ phase' = [phase EXCEPT ![d] = "failed"]
    /\ UNCHANGED <<latest, settled, enhance, version>>

\* The source disappeared: a settled enhancement is withdrawn.
Withdraw(d) ==
    /\ phase[d] = "settled"
    /\ settled[d] = latest[d]
    /\ enhance[d]
    /\ enhance' = [enhance EXCEPT ![d] = FALSE]
    /\ UNCHANGED <<latest, settled, phase, version>>

Next ==
    \E d \in Docs :
        \/ \E r \in Requests, wanted \in BOOLEAN : Submit(d, r, wanted)
        \/ Enhance(d)
        \/ Remove(d)
        \/ Fail(d)
        \/ Withdraw(d)

Spec == Init /\ [][Next]_vars
=============================================================================
