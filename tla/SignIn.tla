------------------------------- MODULE SignIn --------------------------------
(***************************************************************************)
(* The OIDC login in front of an HTTP tunnel (go/tunnel/oidc/service.go,   *)
(* signed.go; authorize in go/tunnel/httpproxy/proxy.go): the tunnel host  *)
(* redirects a browser to the auth host, that to the provider, and back    *)
(* with a login code the tunnel host turns into a session cookie.  Every   *)
(* value is signed for one purpose and expires; meanwhile the tunnel goes  *)
(* away or changes its rule, the relay restarts, the provider is out of    *)
(* reach and the user is slow.  One browser and one tunnel host.           *)
(***************************************************************************)
EXTENDS Integers, FiniteSets

CONSTANTS
    Emails,      \* the identities the provider may verify
    Rules,       \* the tunnel's possible rules: the sets of emails they allow
    MaxUpsets,   \* bound on delays, outages, restarts and rule changes
    MaxCodes     \* bound on login codes

VARIABLES
    rule,       \* the rule of the active tunnel: a set of emails; {} is offline
    provider,   \* the provider answers
    known,      \* its discovery document was read
    page,       \* where the browser is
    state,      \* the login state in the redirect to the auth host is valid
    flow,       \* the flow cookie is valid
    code,       \* the login code: its number, email and whether it has expired
    usedCodes,  \* codes used on this relay, with whether they have expired
    cookie,     \* the session cookie: its email ("nobody" is none), and whether it is valid
    user,       \* who the request being served is from ("nobody": no one)
    verified,   \* history: emails the provider verified
    codes, upsets

signInVars == <<rule, provider, known, page, state, flow, code, usedCodes, cookie, user, verified, codes, upsets>>

NoCode == [id |-> 0, email |-> "nobody", live |-> FALSE]
NoCookie == [email |-> "nobody", live |-> FALSE]

SignInInit ==
    /\ rule \in Rules /\ rule # {} /\ provider = TRUE /\ known = FALSE
    /\ page = "tunnel" /\ state = FALSE /\ flow = FALSE
    /\ code = NoCode /\ usedCodes = {} /\ cookie = NoCookie
    /\ user = "nobody" /\ verified = {} /\ codes = 0 /\ upsets = 0

Upset == upsets < MaxUpsets /\ upsets' = upsets + 1

-----------------------------------------------------------------------------
(* The tunnel host.                                                        *)

HasSession == cookie.live

\* ruleFor: the rule of a tunnel that is there.
HasRule == rule # {}
RuleAllows(email) == email \in rule

\* A faulty variant: the rule is only asked when the session begins.
AuthorizeOnce ==
    /\ page = "tunnel" /\ HasRule
    /\ IF HasSession
       THEN user' = cookie.email /\ UNCHANGED <<page, state>>
       ELSE page' = "login" /\ state' = TRUE /\ user' = "nobody"
    /\ UNCHANGED <<rule, provider, known, flow, code, usedCodes, cookie, verified, codes, upsets>>

\* Authorize: a valid session is held to the rule as it is now; without one a GET
\* is redirected to the auth host with a signed state.
Authorize ==
    /\ page = "tunnel" /\ HasRule
    /\ IF HasSession
       THEN user' = (IF RuleAllows(cookie.email) THEN cookie.email ELSE "nobody")
            /\ UNCHANGED <<page, state>>
       ELSE page' = "login" /\ state' = TRUE /\ user' = "nobody"
    /\ UNCHANGED <<rule, provider, known, flow, code, usedCodes, cookie, verified, codes, upsets>>

\* finishLogin's tests of the code, against the clock.
FinishLogin ==
    /\ page = "code" /\ HasRule
    /\ page' = IF code.live THEN "redeem" ELSE "tunnel"
    /\ UNCHANGED <<rule, provider, known, state, flow, code, usedCodes, cookie, user, verified, codes, upsets>>

\* useCode forgets expired codes and marks this one; then the rule and the cookie.
\* The browser may send the link again.
UseCode ==
    /\ page = "redeem" /\ HasRule
    /\ LET kept == {u \in usedCodes : u.live}
           fresh == \A u \in kept : u.id # code.id
       IN /\ usedCodes' = IF fresh THEN kept \cup {[id |-> code.id, live |-> code.live]} ELSE kept
          /\ cookie' = IF fresh /\ RuleAllows(code.email)
                       THEN [email |-> code.email, live |-> TRUE] ELSE cookie
    /\ page' \in {"tunnel", "code"}
    /\ page' = "code" => Upset
    /\ page' = "tunnel" => UNCHANGED upsets
    /\ UNCHANGED <<rule, provider, known, state, flow, code, user, verified, codes>>

-----------------------------------------------------------------------------
(* The auth host.                                                          *)

\* provider, oauthConfig: the provider is discovered on first use.
Discovered == known \/ provider

\* login: a valid state of a host with a rule starts the provider round trip.
Login ==
    /\ page = "login"
    /\ IF state /\ HasRule /\ Discovered
       THEN page' = "provider" /\ flow' = TRUE /\ known' = TRUE
       ELSE page' = "tunnel" /\ UNCHANGED <<flow, known>>
    /\ state' = FALSE
    /\ UNCHANGED <<rule, provider, code, usedCodes, cookie, user, verified, codes, upsets>>

\* The provider signs the user in, refuses, or has no verified email for them.
ProviderAnswers(e) ==
    /\ page = "provider" /\ provider
    /\ page' = "callback"
    /\ code' = [NoCode EXCEPT !.email = e]
    /\ verified' = IF e = "nobody" THEN verified ELSE verified \cup {e}
    /\ UNCHANGED <<rule, provider, known, state, flow, usedCodes, cookie, user, codes, upsets>>

\* callback: the flow cookie, the provider's answer and its token exchange, and a
\* tunnel that is still there; then a code for the tunnel host.
Callback ==
    /\ page = "callback" /\ codes < MaxCodes
    /\ flow' = FALSE
    /\ IF flow /\ code.email # "nobody" /\ provider /\ HasRule
       THEN /\ code' = [id |-> codes + 1, email |-> code.email, live |-> TRUE]
            /\ codes' = codes + 1 /\ page' = "code"
       ELSE /\ code' = NoCode /\ page' = "tunnel" /\ UNCHANGED codes
    /\ UNCHANGED <<rule, provider, known, state, usedCodes, cookie, user, verified, upsets>>

-----------------------------------------------------------------------------
(* The world.                                                              *)

\* The user takes too long: whatever is under way expires, the session in the end too.
Slow ==
    /\ Upset
    /\ state' = FALSE /\ flow' = FALSE
    /\ code' = [code EXCEPT !.live = FALSE]
    /\ usedCodes' = {[u EXCEPT !.live = FALSE] : u \in usedCodes}
    /\ cookie' \in {cookie, NoCookie}
    /\ UNCHANGED <<rule, provider, known, page, user, verified, codes>>

\* The agent goes, comes back, or registers the tunnel with another rule; requests
\* under way end with the old registration.
RuleChanges(r) ==
    /\ r # rule /\ IF rule = {} THEN UNCHANGED upsets ELSE Upset
    /\ rule' = r
    /\ user' = "nobody"
    /\ UNCHANGED <<provider, known, page, state, flow, code, usedCodes, cookie, verified, codes>>

ProviderChanges ==
    /\ IF provider THEN Upset ELSE UNCHANGED upsets
    /\ provider' = ~provider
    /\ UNCHANGED <<rule, known, page, state, flow, code, usedCodes, cookie, user, verified, codes>>

\* The relay restarts: what it signed stays valid, its key being in the store
\* (SessionKey); the codes it has seen and the provider's document are forgotten.
RelayRestarts ==
    /\ Upset /\ known' = FALSE /\ usedCodes' = {} /\ user' = "nobody"
    /\ UNCHANGED <<rule, provider, page, state, flow, code, cookie, verified, codes>>

\* The user leaves an error page or a provider that doesn't answer and starts over.
StartOver ==
    /\ page \in {"provider", "code", "redeem"}
    /\ page = "provider" => ~provider
    /\ page # "provider" => rule = {}
    /\ page' = "tunnel"
    /\ UNCHANGED <<rule, provider, known, state, flow, code, usedCodes, cookie, user, verified, codes, upsets>>

SignInNext ==
    \/ Authorize \/ FinishLogin \/ UseCode \/ Login \/ Callback
    \/ \E e \in Emails \cup {"nobody"} : ProviderAnswers(e)
    \/ Slow \/ ProviderChanges \/ RelayRestarts \/ StartOver
    \/ \E r \in Rules : RuleChanges(r)

SignInSpec == SignInInit /\ [][SignInNext]_signInVars

-----------------------------------------------------------------------------
\* A request is only ever served as a user whom the provider verified and whom
\* the tunnel's rule, as it is now, allows: however old the session is, and
\* whatever the rule was when the login began or ended (Authorize, finishLogin).
ServedAsVerified == user # "nobody" => user \in verified /\ user \in rule
=============================================================================
