------------------------------- MODULE SignIn -------------------------------
(***************************************************************************)
(* Enterprise sign-in of IdentityService: the start of an OIDC or SAML     *)
(* login, the identity provider that answers it, and the callbacks that    *)
(* turn a state and a grant into a session.  States and grants travel      *)
(* through browsers, so that a callback may present any of them, late,     *)
(* twice or mixed up; meanwhile the API restarts with another key and      *)
(* other instances synchronise other provider configurations.              *)
(*                                                                         *)
(* The encrypted state is the flow it was made for: nobody can make one    *)
(* without the key.  A grant is an OIDC authorization code or a signed     *)
(* SAML response.  What upsertEnterpriseUser makes of the account is the   *)
(* subject of EnterpriseIdentity; here it succeeds or fails.               *)
(***************************************************************************)
EXTENDS Integers, FiniteSets

CONSTANTS
    Slugs,      \* provider slugs
    Keys,       \* SSO_STATE_ENCRYPTION_KEY, or the cookie key it falls back to
    Flows,      \* sign-ins that were started
    Grants,     \* codes and responses of identity providers
    Requests,   \* callback requests under way
    None,       \* no flow, grant or slug
    StateTtl,   \* the ten minutes of decryptState
    Life,       \* from NotBefore to NotOnOrAfter of an assertion
    Skew,       \* the three minutes of parseSamlAssertion
    MaxTime     \* bound of the clock

ASSUME TimeAssumption == {StateTtl, Life, Skew, MaxTime} \subseteq Nat
ASSUME NoneAssumption == None \notin Slugs \union Flows \union Grants

VARIABLES
    now,        \* the clock
    key,        \* the key of the running API
    provider,   \* provider[s]: type of the row of slug s, "none" without one
    flow,       \* flow[f]: what the state of a started sign-in holds
    grant,      \* grant[g]: what an identity provider has issued
    req,        \* req[r]: the locals of a callback
    sessions    \* the evidence that each session was created on (history)

vars == <<now, key, provider, flow, grant, req, sessions>>

Types == {"oidc", "saml"}
Time == 0..MaxTime

\* StatePayload: an OIDC one also has a verifier and a nonce, those of the flow.
Flow == [ slug : Slugs \union {None}, type : Types, key : Keys, at : Time ]

Grant == [ slug : Slugs \union {None}, type : Types,
           flow : Flows \union {None},      \* whose nonce it carries (OIDC)
           at : Time,                       \* issued; NotBefore of an assertion
           used : BOOLEAN,                  \* a code that was redeemed
           sessions : 0..2 ]                \* history: sessions made of it, capped

Request == [ pc : {"idle", "exchange", "verified"}, slug : Slugs \union {None},
             state : Flows \union {None}, grant : Grants \union {None},
             at : Time ]                    \* history: when the state was accepted

Session == [ slug : Slugs, state : Flows, grant : Grants, at : Time ]

TypeOK ==
    /\ now \in Time /\ key \in Keys
    /\ provider \in [Slugs -> Types \union {"none"}]
    /\ flow \in [Flows -> Flow]
    /\ grant \in [Grants -> Grant]
    /\ req \in [Requests -> Request]
    /\ sessions \subseteq Session

-----------------------------------------------------------------------------

NoFlow == [slug |-> None, type |-> "oidc", key |-> CHOOSE k \in Keys : TRUE, at |-> 0]
NoGrant == [slug |-> None, type |-> "oidc", flow |-> None, at |-> 0, used |-> FALSE,
            sessions |-> 0]
Idle == [pc |-> "idle", slug |-> None, state |-> None, grant |-> None, at |-> 0]

Init == /\ now = 0
        /\ key \in Keys
        /\ provider \in [Slugs -> Types \union {"none"}]
        /\ flow = [f \in Flows |-> NoFlow]
        /\ grant = [g \in Grants |-> NoGrant]
        /\ req = [r \in Requests |-> Idle]
        /\ sessions = {}

\* getProvider: a slug without an active row is not found (404).
Known(s) == provider[s] # "none"

\* startOidcLogin, startSamlLogin: the state goes to the browser, nothing is kept.
Start(f, s) ==
    /\ flow[f].slug = None /\ Known(s)
    /\ flow' = [flow EXCEPT ![f] = [slug |-> s, type |-> provider[s], key |-> key, at |-> now]]
    /\ UNCHANGED <<now, key, provider, grant, req, sessions>>

\* The provider that the flow was sent to answers, possibly more than once: an
\* OIDC code stands for the nonce of the request, an assertion for no request.
Answer(g, f) ==
    /\ grant[g].slug = None /\ flow[f].slug # None
    /\ grant' = [grant EXCEPT ![g] = [NoGrant EXCEPT !.slug = flow[f].slug,
                                                     !.type = flow[f].type,
                                                     !.flow = IF flow[f].type = "oidc" THEN f ELSE None,
                                                     !.at = now]]
    /\ UNCHANGED <<now, key, provider, flow, req, sessions>>

-----------------------------------------------------------------------------

\* Slips next to the code: what a plausible bug would make of the operator that
\* follows, kept to see that a property notices.
UnexpiredSlip(f) == TRUE

\* decryptState: under the present key, and not older than ten minutes.
Unexpired(f) == now - flow[f].at <= StateTtl

Decrypts(f) == flow[f].slug # None /\ flow[f].key = key

\* getProvider and the checks of the state, in both callbacks.
StateAccepted(s, f, type) ==
    /\ provider[s] = type
    /\ Decrypts(f) /\ Unexpired(f)
    /\ flow[f].slug = s

Accept(r, s, f, g, pc) ==
    req' = [req EXCEPT ![r] = [pc |-> pc, slug |-> s, state |-> f, grant |-> g, at |-> now]]

\* handleOidcCallback up to the token exchange.  The verifier shows that the
\* state is one of an OIDC start.
OidcCallback(r, s, f, g) ==
    /\ req[r].pc = "idle" /\ grant[g].type = "oidc" /\ grant[g].slug # None
    /\ StateAccepted(s, f, "oidc") /\ flow[f].type = "oidc"
    /\ Accept(r, s, f, g, "exchange")
    /\ UNCHANGED <<now, key, provider, flow, grant, sessions>>

\* What the token endpoint of the provider says to a code.  Some providers do not
\* check the PKCE verifier: the answer does not depend on it here.
Redeems(q) == grant[q.grant].slug = q.slug /\ ~grant[q.grant].used

TokenOkSlip(q) == grant[q.grant].slug = q.slug

\* tokenResponse.ok, and an id_token that jwtVerify accepts.
TokenOk(q) == Redeems(q)

NonceOkSlip(q) == TRUE

NonceOk(q) == grant[q.grant].flow = q.state

\* The exchange uses the code up, whatever is found wrong after it.
Exchange(r) ==
    /\ req[r].pc = "exchange" /\ TokenOk(req[r])
    /\ grant' = [grant EXCEPT ![req[r].grant].used = TRUE]
    /\ req' = [req EXCEPT ![r] = IF NonceOk(req[r]) THEN [@ EXCEPT !.pc = "verified"] ELSE Idle]
    /\ UNCHANGED <<now, key, provider, flow, sessions>>

\* A refused or lost exchange; also a profile without the claims, a domain that
\* is not verified, and whatever upsertEnterpriseUser or createSession refuses.
Refuse(r) ==
    /\ req[r].pc # "idle"
    /\ req' = [req EXCEPT ![r] = Idle]
    /\ UNCHANGED <<now, key, provider, flow, grant, sessions>>

\* The conditions of the assertion, with the skew on both sides.
InWindow(g) == now + Skew >= grant[g].at /\ now - Skew < grant[g].at + Life

\* assertValidSamlSignature, parseSamlAssertion: signature, issuer and audience are
\* those of the provider, and the conditions hold.
Vouches(s, g) == grant[g].type = "saml" /\ grant[g].slug = s /\ InWindow(g)

\* handleSamlCallback up to the account.  The state may be one of any start of this
\* provider.
SamlCallback(r, s, f, g) ==
    /\ req[r].pc = "idle"
    /\ StateAccepted(s, f, "saml") /\ Vouches(s, g)
    /\ Accept(r, s, f, g, "verified")
    /\ UNCHANGED <<now, key, provider, flow, grant, sessions>>

\* upsertEnterpriseUser and createSession, in both callbacks.
SignIn(r) ==
    LET q == req[r] IN
    /\ q.pc = "verified"
    /\ sessions' = sessions \union {[slug |-> q.slug, state |-> q.state, grant |-> q.grant,
                                     at |-> q.at]}
    /\ grant' = [grant EXCEPT ![q.grant].sessions = IF @ = 2 THEN 2 ELSE @ + 1]
    /\ req' = [req EXCEPT ![r] = Idle]
    /\ UNCHANGED <<now, key, provider, flow>>

-----------------------------------------------------------------------------

\* syncConfiguredProviders of an instance that starts: it writes the type it is
\* configured with and removes nothing.
Sync(s, type) ==
    /\ provider[s] # type
    /\ provider' = [provider EXCEPT ![s] = type]
    /\ UNCHANGED <<now, key, flow, grant, req, sessions>>

\* The API restarts, possibly with another key; callbacks under way are lost.
Restart(k) ==
    /\ key' = k
    /\ req' = [r \in Requests |-> Idle]
    /\ UNCHANGED <<now, provider, flow, grant, sessions>>

Tick == /\ now < MaxTime
        /\ now' = now + 1
        /\ UNCHANGED <<key, provider, flow, grant, req, sessions>>

Next == \/ \E f \in Flows, s \in Slugs : Start(f, s)
        \/ \E g \in Grants, f \in Flows : Answer(g, f)
        \/ \E r \in Requests, s \in Slugs, f \in Flows, g \in Grants :
              OidcCallback(r, s, f, g) \/ SamlCallback(r, s, f, g)
        \/ \E r \in Requests : Exchange(r) \/ Refuse(r) \/ SignIn(r)
        \/ \E s \in Slugs, type \in Types : Sync(s, type)
        \/ \E k \in Keys : Restart(k)
        \/ Tick

Spec == Init /\ [][Next]_vars

-----------------------------------------------------------------------------

\* A code makes one session at most, however often, and with whatever states, its
\* callback is delivered (handleOidcCallback).
OneSessionPerCode == \A g \in Grants : grant[g].type = "oidc" => grant[g].sessions <= 1

\* An OIDC session comes from the code that was issued for the very sign-in whose
\* state came with it, also if the provider does not check PKCE and the slug has
\* become one of another type in between (handleOidcCallback, the nonce).
CodeMatchesState ==
    \A x \in sessions : grant[x.grant].type = "oidc" => grant[x.grant].flow = x.state

\* A session was started at the provider that vouches for it, at most ten minutes
\* before the callback; an assertion serves again, but not beyond its window
\* (decryptState, parseSamlAssertion).
StartedInTime ==
    \A x \in sessions :
        /\ flow[x.state].slug = x.slug /\ grant[x.grant].slug = x.slug
        /\ x.at - flow[x.state].at \in 0..StateTtl
        /\ grant[x.grant].type = "saml" => x.at < grant[x.grant].at + Life + Skew
=============================================================================
