------------------------------- MODULE SignIn -------------------------------
(***************************************************************************)
(* Signing in to the web console (athena-console-web: lib.rs, auth.rs,     *)
(* auth_flow.rs, api.rs): the tabs of one browser share a local storage    *)
(* with the pending sign-in and the token. A page resolves its sign-in     *)
(* state once, when it has loaded; it sends the user to the identity       *)
(* provider, which sends the browser back with a code or an error.         *)
(***************************************************************************)
EXTENDS Naturals

CONSTANTS
    Tabs,          \* the tabs of the browser
    MaxAttempts    \* bound: how many sign-ins are ever begun

VARIABLES
    enabled,     \* the backend asks for authentication
    clock,       \* the page has a clock: SystemTime::now of the standard library
                 \* panics on wasm32-unknown-unknown, the target of a web build
    attempts,    \* how many sign-ins were begun; each has its verifier and state
    verifier,    \* local storage: the attempt whose PKCE verifier is kept, or 0
    state,       \* local storage: the attempt whose `state` is kept, or 0
    token,       \* local storage: the access token
    rejected,    \* local storage: the backend has refused the token
    tab          \* the tabs

vars == <<enabled, clock, attempts, verifier, state, token, rejected, tab>>
site == <<enabled, clock>>
storage == <<verifier, state, token, rejected>>

Attempts == 0 .. MaxAttempts
Phases == {"Loading", "Disabled", "SignedOut", "SignedIn", "Expired", "Failed"}
Callbacks == [kind : {"None", "Code", "Error"}, attempt : Attempts]
NoCallback == [kind |-> "None", attempt |-> 0]

\* `at`: what the tab shows, the provider's page or the console; `callback`: the
\* query of its URL; `link`: the attempt that its phase offers; `said`:
\* how the last save of a report went.
TabStates == [at : {"Closed", "Resolving", "Open", "Exchanging", "Provider"},
              callback : Callbacks, phase : Phases, link : Attempts,
              said : {"None", "Saved", "SignInAgain", "Forbidden", "Refused"}]

Closed == [at |-> "Closed", callback |-> NoCallback, phase |-> "Loading",
           link |-> 0, said |-> "None"]

TypeOK ==
    /\ enabled \in BOOLEAN
    /\ clock \in BOOLEAN
    /\ attempts \in Attempts
    /\ verifier \in Attempts
    /\ state \in Attempts
    /\ token \in {"None", "Fresh", "Stale"}
    /\ rejected \in BOOLEAN
    /\ tab \in [Tabs -> TabStates]

Init ==
    /\ enabled \in BOOLEAN
    /\ clock \in BOOLEAN
    /\ attempts = 0
    /\ verifier = 0
    /\ state = 0
    /\ token = "None"
    /\ rejected = FALSE
    /\ tab = [t \in Tabs |-> Closed]

-----------------------------------------------------------------------------
(* The page. *)

\* A page is loaded, with the query its URL has.
Load(t, callback) ==
    tab' = [tab EXCEPT ![t] = [Closed EXCEPT !.at = "Resolving",
                                             !.callback = callback]]

\* Opened, or reloaded: a query that was not scrubbed is still there.
Visit(t) ==
    /\ tab[t].at \in {"Closed", "Open"}
    /\ Load(t, tab[t].callback)
    /\ UNCHANGED <<site, attempts, storage>>

\* The page comes to a phase, its query scrubbed from the URL.
Show(t, phase, link) ==
    tab' = [tab EXCEPT ![t].at = "Open", ![t].callback = NoCallback,
                       ![t].phase = phase, ![t].link = link]

\* begin: a verifier and a state are made and kept, over those of any sign-in
\* that is pending, when the page comes to a phase that offers to sign in.
Offer(t, phase) ==
    /\ attempts < MaxAttempts
    /\ attempts' = attempts + 1
    /\ verifier' = attempts'
    /\ state' = attempts'
    /\ Show(t, phase, attempts')

\* take_verifier: what it finds, and drops.
TakeVerifier(kept) == kept

\* take_pending, by check_state: both are dropped if both are there.
Pending == verifier # 0 /\ state # 0
VerifierLeft == IF Pending THEN 0 ELSE verifier

\* The configuration does not arrive: the page says Loading from then on.
ResolveFails(t) ==
    /\ tab[t].at = "Resolving"
    /\ tab' = [tab EXCEPT ![t].at = "Open", ![t].phase = "Loading"]
    /\ UNCHANGED <<site, attempts, storage>>

\* resolve_auth_phase, once it has the configuration; it runs to its next await.
ResolveDisabled(t) ==
    /\ tab[t].at = "Resolving"
    /\ ~enabled
    /\ tab' = [tab EXCEPT ![t].at = "Open", ![t].phase = "Disabled"]
    /\ UNCHANGED <<site, attempts, storage>>

Resolving(t, kind) ==
    /\ tab[t].at = "Resolving"
    /\ enabled
    /\ tab[t].callback.kind = kind

\* discard_pending, which the new sign-in overwrites.
ResolveError(t) ==
    /\ Resolving(t, "Error")
    /\ Offer(t, "Failed")
    /\ UNCHANGED <<site, token, rejected>>

Matched(t) == Pending /\ state = tab[t].callback.attempt

\* finish_callback: the state is checked, then the verifier is taken.
Exchanges(t) == Matched(t) /\ TakeVerifier(VerifierLeft) # 0

ResolveCode(t) ==
    /\ Resolving(t, "Code")
    /\ \/ /\ Exchanges(t)
          /\ verifier' = 0
          /\ state' = 0
          /\ tab' = [tab EXCEPT ![t].at = "Exchanging", ![t].callback = NoCallback]
          /\ UNCHANGED attempts
       \/ /\ ~Exchanges(t)
          /\ Offer(t, "Failed")
    /\ UNCHANGED <<site, token, rejected>>

\* now_seconds panics: what the page was about is left, and it says Loading from
\* then on.
Panic(t) == Show(t, "Loading", 0)

\* exchange_token and parse_token: the provider's answer, which is dated.
ExchangeSucceeds(t) ==
    /\ tab[t].at = "Exchanging"
    /\ \/ clock /\ token' = "Fresh" /\ Show(t, "SignedIn", 0)
       \/ ~clock /\ token' = token /\ Panic(t)
    /\ UNCHANGED <<site, attempts, verifier, state, rejected>>

ExchangeFails(t) ==
    /\ tab[t].at = "Exchanging"
    /\ Offer(t, "Failed")
    /\ UNCHANGED <<site, token, rejected>>

\* Without a callback: a refused token is dropped, a fresh one is a session.
ResolveStored(t) ==
    /\ Resolving(t, "None")
    /\ \/ /\ rejected
          /\ token' = "None"
          /\ Offer(t, "Expired")
       \/ /\ ~rejected /\ ~clock
          /\ Panic(t)
          /\ UNCHANGED <<attempts, verifier, state, token>>
       \/ /\ ~rejected /\ clock /\ token = "Fresh"
          /\ Show(t, "SignedIn", 0)
          /\ UNCHANGED <<attempts, verifier, state, token>>
       \/ /\ ~rejected /\ clock /\ token # "Fresh"
          /\ Offer(t, "SignedOut")
          /\ UNCHANGED token
    /\ rejected' = FALSE
    /\ UNCHANGED site

\* The Sign in button of auth_bar: navigate_to the provider's page. A page that
\* has a notice to show, Expired or Failed, has no button beside it.
ClickSignIn(t) ==
    /\ tab[t].at = "Open"
    /\ tab[t].phase = "SignedOut"
    /\ tab' = [tab EXCEPT ![t].at = "Provider"]
    /\ UNCHANGED <<site, attempts, storage>>

\* save_gate, then send_json with the bearer token, if there is a fresh one. The
\* token's age is asked for whether there is a token or not.
Save(t) ==
    /\ clock
    /\ tab[t].at = "Open"
    /\ tab[t].phase \in {"SignedIn", "Disabled"}
    /\ \E said \in {"Saved", "SignInAgain", "Forbidden", "Refused"} :
          /\ enabled /\ token # "Fresh" => said = "SignInAgain"
          /\ ~enabled => said \in {"Saved", "Refused"}
          /\ tab' = [tab EXCEPT ![t].said = said]
          /\ rejected' = (rejected \/ said = "SignInAgain")
    /\ UNCHANGED <<site, attempts, verifier, state, token>>

SaveDies(t) ==
    /\ ~clock
    /\ tab[t].at = "Open"
    /\ tab[t].phase \in {"SignedIn", "Disabled"}
    /\ Panic(t)
    /\ UNCHANGED <<site, attempts, storage>>

-----------------------------------------------------------------------------
(* The identity provider, and time. *)

ProviderAnswers(t) ==
    /\ tab[t].at = "Provider"
    /\ \E kind \in {"Code", "Error"} :
          Load(t, [kind |-> kind, attempt |-> tab[t].link])
    /\ UNCHANGED <<site, attempts, storage>>

\* token_is_fresh: it comes within the skew of its end.
TokenAges ==
    /\ token = "Fresh"
    /\ token' = "Stale"
    /\ UNCHANGED <<site, attempts, verifier, state, rejected, tab>>

Page(t) ==
    \/ Visit(t)
    \/ ResolveFails(t)
    \/ ResolveDisabled(t)
    \/ ResolveError(t)
    \/ ResolveCode(t)
    \/ ResolveStored(t)
    \/ ExchangeSucceeds(t)
    \/ ExchangeFails(t)
    \/ ClickSignIn(t)
    \/ Save(t)
    \/ SaveDies(t)

Next == TokenAges \/ \E t \in Tabs : Page(t) \/ ProviderAnswers(t)

Spec == Init /\ [][Next]_vars

-----------------------------------------------------------------------------
(* Property. *)

\* A callback "finishes an ?code=... exchange", "completes the token exchange":
\* when the code comes back with the state that is pending, the verifier of that
\* sign-in goes to the provider.
CallbackIsExchanged ==
    [][\A t \in Tabs : ResolveCode(t) /\ Matched(t) => tab'[t].at = "Exchanging"]_vars
=============================================================================
