----------------------------- MODULE StatusPage -----------------------------
(***************************************************************************)
(* The status page in the tabs of one browser: the Entra sign-in, the      *)
(* signed cookie that holds the whole session, and the polling of a run.   *)
(*                                                                         *)
(* A request carries the cookie as it was when it was sent, and every      *)
(* response puts its own version of the whole session into the browser     *)
(* (SessionMiddleware): of two requests under way the later answer wins.   *)
(***************************************************************************)
EXTENDS Naturals

CONSTANTS
    Tabs,            \* each opens a status link of its own
    Nobody,
    MaxExpiries,     \* bound: sign-ins that expire
    MaxRefusals,     \* bound: failures of Entra or of the way to it
    MaxOverlaps      \* bound: requests sent while another tab awaits an answer

\* "older" is the flow that a tab has replaced by another.
ASSUME TabsAssumption ==
    /\ Nobody \notin Tabs /\ "older" \notin Tabs
    /\ MaxExpiries \in Nat /\ MaxRefusals \in Nat /\ MaxOverlaps \in Nat

VARIABLES
    cookie,      \* the session in the browser
    tab,         \* per tab: where it is, the page it heads for, its flow
    sent,        \* per tab: the request under way, with the session it carries
    ran,         \* the run the pages tell of has ended
    expiries,
    refusals,
    overlaps

webVars == <<cookie, tab, sent, ran, expiries, refusals, overlaps>>

NoCall   == "none"
TabSpots == {"link", "login", "entra", "callback", "error", "shown", "index"}
Requests == {"page", "login", "callback", "poll", "index", NoCall}

\* oidc and auth_sso keep three values in the session.  A flow is known by its
\* state; all that matters of it is whose it is, and whether it is the last one
\* that tab began.
Sessions ==
    [user : {"none", "valid", "expired"}, flow : Tabs \cup {Nobody, "older"},
     next : Tabs \cup {Nobody}]

Empty == [user |-> "none", flow |-> Nobody, next |-> Nobody]

WebTypeOK ==
    /\ cookie \in Sessions
    /\ tab \in [Tabs -> [at : TabSpots, to : Tabs \cup {Nobody}, terminal : BOOLEAN]]
    /\ sent \in [Tabs -> [kind : Requests, session : Sessions]]
    /\ ran \in BOOLEAN
    /\ expiries \in 0..MaxExpiries /\ refusals \in 0..MaxRefusals
    /\ overlaps \in 0..MaxOverlaps

WebInit ==
    /\ cookie = Empty
    /\ tab = [t \in Tabs |-> [at |-> "link", to |-> t, terminal |-> FALSE]]
    /\ sent = [t \in Tabs |-> [kind |-> NoCall, session |-> Empty]]
    /\ ran = FALSE
    /\ expiries = 0 /\ refusals = 0 /\ overlaps = 0

-----------------------------------------------------------------------------
(* The browser. *)

Quiet(t) == sent[t].kind = NoCall

\* What a tab asks for where it stands; a page that shows the end of the run
\* asks for nothing more.
RequestOf(t) ==
    CASE tab[t].at = "link"     -> IF tab[t].to = Nobody THEN "index" ELSE "page"
      [] tab[t].at = "login"    -> "login"
      [] tab[t].at = "callback" -> "callback"
      [] tab[t].at = "shown"    -> IF tab[t].terminal THEN NoCall ELSE "poll"
      [] OTHER                  -> NoCall

Send(t) ==
    /\ Quiet(t)
    /\ RequestOf(t) # NoCall
    /\ sent' = [sent EXCEPT ![t] = [kind |-> RequestOf(t), session |-> cookie]]
    /\ IF \A other \in Tabs : Quiet(other)
       THEN UNCHANGED overlaps
       ELSE overlaps < MaxOverlaps /\ overlaps' = overlaps + 1
    /\ UNCHANGED <<cookie, tab, ran, expiries, refusals>>

\* An answer without a session, to a request without one, sets no cookie.
Respond(t, session) ==
    /\ cookie' = IF session = Empty /\ sent[t].session = Empty THEN cookie ELSE session
    /\ sent' = [sent EXCEPT ![t] = [kind |-> NoCall, session |-> Empty]]

Moves(t, at) == tab' = [tab EXCEPT ![t].at = at]

\* The user of a tab that failed, or that came to the page of another tab, opens
\* the link again, or tries again from the error page, when no other tab is in the
\* middle of a sign-in.
Resting(t) == tab[t].at \in {"error", "shown", "index"}
Astray(t)  == Resting(t) /\ ~(tab[t].at = "shown" /\ tab[t].to = t)

Retry(t) ==
    /\ Astray(t)
    /\ Quiet(t)
    /\ \A other \in Tabs : Resting(other)
    /\ \/ tab' = [tab EXCEPT ![t].at = "link", ![t].to = t]
       \/ tab[t].at = "error" /\ tab' = [tab EXCEPT ![t].at = "login"]
    /\ UNCHANGED <<cookie, sent, ran, expiries, refusals, overlaps>>

Aged(session) == [session EXCEPT !.user = IF @ = "valid" THEN "expired" ELSE @]

\* expires_at passes, wherever the identity is kept.
Expire ==
    /\ expiries < MaxExpiries
    /\ expiries' = expiries + 1
    /\ cookie' = Aged(cookie)
    /\ sent' = [t \in Tabs |-> [sent[t] EXCEPT !.session = Aged(@)]]
    /\ UNCHANGED <<tab, ran, refusals, overlaps>>

RunEnds == ran' = TRUE /\ UNCHANGED <<cookie, tab, sent, expiries, refusals, overlaps>>

-----------------------------------------------------------------------------
(* The server. *)

HasUser(session)  == session.user # "none"
SignedIn(session) == session.user = "valid"

\* require_user, the page, and the redirect of _handle_login_required.
AnswerPage(t) ==
    /\ sent[t].kind = "page"
    /\ tab' = IF SignedIn(sent[t].session)
              THEN [tab EXCEPT ![t].at = "shown", ![t].terminal = ran]
              ELSE [tab EXCEPT ![t].at = "login"]
    /\ Respond(t, sent[t].session)
    /\ UNCHANGED <<ran, expiries, refusals, overlaps>>

\* A poll that is not signed in is a 401, and the page reloads.
AnswerPoll(t) ==
    /\ sent[t].kind = "poll"
    /\ tab' = IF SignedIn(sent[t].session)
              THEN [tab EXCEPT ![t].terminal = ran]
              ELSE [tab EXCEPT ![t].at = "link"]
    /\ Respond(t, sent[t].session)
    /\ UNCHANGED <<ran, expiries, refusals, overlaps>>

AnswerIndex(t) ==
    /\ sent[t].kind = "index"
    /\ Moves(t, "index")
    /\ Respond(t, sent[t].session)
    /\ UNCHANGED <<ran, expiries, refusals, overlaps>>

\* Mutant: any identity in the session is a sign-in.
SkipsForAnyUser(session) == HasUser(session)

\* auth_login sends on who is signed in already.
SkipsLogin(session) == SignedIn(session)

\* Mutant: a page that an earlier sign-in heads for stays.
OlderNext(next, to) == IF next = Nobody THEN to ELSE next

NextOf(next, to) == to

Outdated(session, t) == [session EXCEPT !.flow = IF @ = t THEN "older" ELSE @]

BeginFlow(t) ==
    /\ Moves(t, "entra")
    /\ cookie' = [sent[t].session EXCEPT !.flow = t, !.next = NextOf(@, tab[t].to)]
    /\ sent' = [other \in Tabs |->
                  IF other = t THEN [kind |-> NoCall, session |-> Empty]
                               ELSE [sent[other] EXCEPT !.session = Outdated(@, t)]]

AnswerLogin(t) ==
    /\ sent[t].kind = "login"
    /\ IF SkipsLogin(sent[t].session)
       THEN Moves(t, "link") /\ Respond(t, sent[t].session)
       ELSE BeginFlow(t)
    /\ UNCHANGED <<ran, expiries, refusals, overlaps>>

\* initiate_auth_code_flow fails.
LoginFails(t) ==
    /\ sent[t].kind = "login"
    /\ ~SkipsLogin(sent[t].session)
    /\ refusals < MaxRefusals
    /\ refusals' = refusals + 1
    /\ Moves(t, "error")
    /\ Respond(t, sent[t].session)
    /\ UNCHANGED <<ran, expiries, overlaps>>

\* The user signs in at Entra, which sends the tab back with the flow's state.
SignIn(t) ==
    /\ tab[t].at = "entra"
    /\ Moves(t, "callback")
    /\ UNCHANGED <<cookie, sent, ran, expiries, refusals, overlaps>>

\* auth_callback pops flow and next before anything else.
Popped(session) == [session EXCEPT !.flow = Nobody, !.next = Nobody]

AnswerCallback(t) ==
    /\ sent[t].kind = "callback"
    /\ sent[t].session.flow = t
    /\ tab' = [tab EXCEPT ![t].at = "link", ![t].to = sent[t].session.next]
    /\ Respond(t, [Popped(sent[t].session) EXCEPT !.user = "valid"])
    /\ UNCHANGED <<ran, expiries, refusals, overlaps>>

\* No flow in the session, one of another state, or an exchange that fails.
CallbackFails(t) ==
    /\ sent[t].kind = "callback"
    /\ \/ sent[t].session.flow # t /\ UNCHANGED refusals
       \/ /\ sent[t].session.flow = t
          /\ refusals < MaxRefusals
          /\ refusals' = refusals + 1
    /\ tab' = [tab EXCEPT ![t].at = "error", ![t].to = sent[t].session.next]
    /\ Respond(t, Popped(sent[t].session))
    /\ UNCHANGED <<ran, expiries, overlaps>>

-----------------------------------------------------------------------------
TabStep(t) ==
    \/ Send(t)
    \/ Retry(t)
    \/ SignIn(t)
    \/ AnswerPage(t) \/ AnswerPoll(t) \/ AnswerIndex(t)
    \/ AnswerLogin(t) \/ LoginFails(t)
    \/ AnswerCallback(t) \/ CallbackFails(t)

WebNext == Expire \/ RunEnds \/ \E t \in Tabs : TabStep(t)

\* Requests are answered, users sign in and try again, requests that cross are
\* the exception (MaxOverlaps), and a run ends (JobQueue: EveryRequestSettles).
WebFairness ==
    /\ WF_webVars(RunEnds /\ ~ran)
    /\ \A t \in Tabs : WF_webVars(TabStep(t))

WebSpec == WebInit /\ [][WebNext]_webVars /\ WebFairness

-----------------------------------------------------------------------------
(* Properties. *)

\* The flow that a tab awaits heads for the tab's own page.
HeadsRight(session, tabs) ==
    \A t \in Tabs : session.flow = t /\ tabs[t].at \in {"entra", "callback"}
                    => session.next = tabs[t].to

\* Inductive: so it is in the browser and in every request under way, and only a tab
\* that came back from Entra calls back.
WebInv ==
    /\ WebTypeOK
    /\ \A t \in Tabs : sent[t].kind = "callback" => tab[t].at = "callback"
    /\ HeadsRight(cookie, tab)
    /\ \A t \in Tabs : HeadsRight(sent[t].session, tab)

\* A sign-in that succeeds returns its tab to the page it was begun for, whatever
\* other tabs sign in meanwhile: LoginRequired's docstring.
SignInReturnsToItsPage ==
    [][\A t \in Tabs :
          sent[t].kind = "callback" /\ tab'[t].at = "link"
            => tab'[t].to = tab[t].to]_webVars

\* Every tab comes to show its page, and there the end of the run, through
\* sign-ins that fail, expire or disturb one another.
EveryPageTellsTheEnd ==
    <>[](\A t \in Tabs : tab[t].at = "shown" /\ tab[t].to = t /\ tab[t].terminal)
=============================================================================
