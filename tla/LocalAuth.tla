----------------------------- MODULE LocalAuth -----------------------------
(***************************************************************************)
(* The password of one account: signup, login and break-glass login, the   *)
(* request of a reset and its completion.  Each request reads, checks and  *)
(* hashes first and writes in later, separate steps; requests overlap,     *)
(* fail between any two steps, and meet changes of role and state that are *)
(* made elsewhere.  The cap on sessions, rotation and logout are the       *)
(* subject of SessionLifecycle.                                            *)
(***************************************************************************)
EXTENDS Naturals, FiniteSets

CONSTANTS
    Passwords,  \* passwords, as their hashes tell them apart
    Tokens,     \* reset tokens
    Sessions,   \* session rows
    Requests,   \* requests under way
    None,       \* no password, token or session
    MaxResets   \* bound: resets that are completed

ASSUME RequestsAssumption == IsFiniteSet(Requests)
ASSUME SessionsAssumption == IsFiniteSet(Sessions)
ASSUME MaxResetsAssumption == MaxResets \in Nat
ASSUME NoneAssumption == None \notin Passwords \union Tokens \union Sessions

VARIABLES
    account,    \* "none", "active" or "disabled"
    role,       \* its role
    password,   \* the password whose hash it holds
    resets,     \* history: resets completed
    token,      \* token[t]: a PasswordResetToken row
    session,    \* session[s]: a Session row
    req,        \* req[r]: a request and its locals
    overlap     \* history: logins that the last reset overlapped

vars == <<account, role, password, resets, token, session, req, overlap>>

Roles == {"owner", "member"}
Kinds == {"signup", "login", "break_glass", "reset"}

Token == [ state : {"none", "issued", "used"}, expired : BOOLEAN,
           uses : 0..MaxResets,             \* history
           rivals : SUBSET Requests ]       \* history: see UsedTwiceOnlyByRivals

Session == [ live : BOOLEAN,
             doomed : BOOLEAN,              \* deleted by a transaction under way
             method : {"local", "break_glass"},
             basis : 0..MaxResets,          \* history: see Request
             after : BOOLEAN,               \* history: created after that transaction's delete
             role : Roles,                  \* history: of the account when it was checked
             held : BOOLEAN ]               \* history: its cookie was sent

Request == [ pc : {"idle", "hash", "commit", "create", "answer"}, kind : Kinds,
             token : Tokens \union {None},
             basis : 0..MaxResets,          \* history: resets when it was let in
             role : Roles,                  \* of the user that was read
             session : Sessions \union {None} ]

TypeOK ==
    /\ account \in {"none", "active", "disabled"}
    /\ role \in Roles
    /\ password \in Passwords \union {None}
    /\ resets \in 0..MaxResets
    /\ token \in [Tokens -> Token]
    /\ session \in [Sessions -> Session]
    /\ req \in [Requests -> Request]
    /\ overlap \in Nat
    /\ \A r \in Requests : req[r].pc = "answer" => req[r].session # None

-----------------------------------------------------------------------------

NoToken == [state |-> "none", expired |-> FALSE, uses |-> 0, rivals |-> {}]
NoSession == [live |-> FALSE, doomed |-> FALSE, method |-> "local", basis |-> 0,
              after |-> FALSE, role |-> "member", held |-> FALSE]
Idle == [pc |-> "idle", kind |-> "login", token |-> None, basis |-> 0, role |-> "member",
         session |-> None]

\* No account yet, or one of a seed, a signup or an identity provider: the last
\* one has no password.
Init == /\ account \in {"none", "active"}
        /\ role \in Roles
        /\ password \in Passwords \union {None}
        /\ account = "none" => role = "member" /\ password = None
        /\ resets = 0
        /\ token = [t \in Tokens |-> NoToken]
        /\ session = [s \in Sessions |-> NoSession]
        /\ req = [r \in Requests |-> Idle]
        /\ overlap = 0

\* signUp: the account first, then its audit entry, then a session.
SignUp(r, p) ==
    /\ req[r].pc = "idle" /\ account = "none"
    /\ account' = "active" /\ password' = p
    /\ req' = [req EXCEPT ![r] = [Idle EXCEPT !.pc = "create", !.kind = "signup",
                                            !.basis = resets]]
    /\ UNCHANGED <<role, resets, token, session, overlap>>

\* authenticateLocalUser: the user is read and its hash verified, then audited.
Verify(r, p, kind) ==
    /\ req[r].pc = "idle" /\ account = "active" /\ password = p
    /\ req' = [req EXCEPT ![r] = [Idle EXCEPT !.pc = "create", !.kind = kind,
                                            !.basis = resets, !.role = role]]
    /\ UNCHANGED <<account, role, password, resets, token, session, overlap>>

\* requestPasswordReset, for whoever has an account, with or without a password.
Forgot(t) ==
    /\ account # "none" /\ token[t].state = "none"
    /\ token' = [token EXCEPT ![t].state = "issued"]
    /\ UNCHANGED <<account, role, password, resets, session, req, overlap>>

\* Thirty minutes have passed.
Expire(t) ==
    /\ token[t].state # "none" /\ ~token[t].expired
    /\ token' = [token EXCEPT ![t].expired = TRUE]
    /\ UNCHANGED <<account, role, password, resets, session, req, overlap>>

UsableSlip(t) == token[t].state # "none" /\ ~token[t].expired

Usable(t) == token[t].state = "issued" /\ ~token[t].expired

\* completePasswordReset: the token is read, then the password is hashed.
CheckReset(r, t) ==
    /\ req[r].pc = "idle" /\ Usable(t)
    /\ req' = [req EXCEPT ![r] = [Idle EXCEPT !.pc = "hash", !.kind = "reset", !.token = t]]
    /\ UNCHANGED <<account, role, password, resets, token, session, overlap>>

EndedSlip == {s \in Sessions : session[s].live /\ session[s].method = "local"}

\* session.deleteMany of the reset: every session of the account that it finds.
Ended == {s \in Sessions : session[s].live}

Doomed(s) == [session[s] EXCEPT !.doomed = s \in Ended]

\* Its transaction up to the last statement.  The account's row is locked from the
\* second one on, so that a second reset waits; logins do not.
DeleteSessions(r) ==
    /\ req[r].pc = "hash" /\ resets < MaxResets /\ \A q \in Requests : req[q].pc # "commit"
    /\ session' = [s \in Sessions |-> Doomed(s)]
    /\ req' = [req EXCEPT ![r].pc = "commit"]
    /\ UNCHANGED <<account, role, password, resets, token, overlap>>

\* The logins that were let in before, and whose session is created after, the
\* delete.
Overlapped == Cardinality({q \in Requests : req[q].pc = "create"})
                   + Cardinality({s \in Sessions : session[s].after})

Remaining(s) ==
    IF session[s].doomed THEN NoSession ELSE [session[s] EXCEPT !.after = FALSE]

\* Its commit.  The transaction does not look at usedAt again.
CommitReset(r, p) ==
    LET t == req[r].token IN
    /\ req[r].pc = "commit"
    /\ token' = [token EXCEPT ![t].state = "used", ![t].uses = @ + 1,
                              ![t].rivals = IF token[t].uses > 0 THEN @
                                  ELSE {q \in Requests \ {r} : req[q].pc = "hash"
                                                               /\ req[q].token = t}]
    /\ password' = p
    /\ resets' = resets + 1
    /\ session' = [s \in Sessions |-> Remaining(s)]
    /\ overlap' = Overlapped
    /\ req' = [req EXCEPT ![r].pc = "create", ![r].token = None, ![r].basis = resets + 1]
    /\ UNCHANGED <<account, role>>

\* createSession, for whatever was found before it: the id is new.
CreateSession(r, s) ==
    /\ req[r].pc = "create" /\ ~session[s].live /\ \A q \in Requests : req[q].session # s
    /\ session' = [session EXCEPT
                     ![s] = [live |-> TRUE, doomed |-> FALSE,
                             method |-> IF req[r].kind = "break_glass" THEN "break_glass" ELSE "local",
                             basis |-> req[r].basis,
                             after |-> \E q \in Requests : req[q].pc = "commit",
                             role |-> req[r].role, held |-> FALSE]]
    /\ req' = [req EXCEPT ![r].pc = "answer", ![r].session = s]
    /\ UNCHANGED <<account, role, password, resets, token, overlap>>

RefusedSlip(q) == q.kind = "break_glass" /\ role # "owner"

\* breakGlassLogin refuses after the session was created, by the role it has read.
Refused(q) == q.kind = "break_glass" /\ q.role # "owner"

\* The cookie is sent, also if the row is gone by now.
Answer(r) ==
    /\ req[r].pc = "answer" /\ ~Refused(req[r])
    /\ session' = [session EXCEPT ![req[r].session].held = session[req[r].session].live]
    /\ req' = [req EXCEPT ![r] = Idle]
    /\ UNCHANGED <<account, role, password, resets, token, overlap>>

RolledBack(s) == [session[s] EXCEPT !.doomed = FALSE, !.after = FALSE]

\* A refusal, a failing audit entry or statement, a crash: what was written stays,
\* but for what a transaction has not committed.
Fail(r) ==
    /\ req[r].pc # "idle"
    /\ session' = IF req[r].pc # "commit" THEN session
                  ELSE [s \in Sessions |-> RolledBack(s)]
    /\ req' = [req EXCEPT ![r] = Idle]
    /\ UNCHANGED <<account, role, password, resets, token, overlap>>

\* A session expires, is evicted, revoked or logged out.
End(s) ==
    /\ session[s].live
    /\ session' = [session EXCEPT ![s] = NoSession]
    /\ UNCHANGED <<account, role, password, resets, token, req, overlap>>

\* Role changes, deactivation and activation, by an owner or the provider.
Administer(state, newRole) ==
    /\ account # "none"
    /\ account' = state /\ role' = newRole
    /\ <<account, role>> # <<state, newRole>>
    /\ UNCHANGED <<password, resets, token, session, req, overlap>>

\* Retention deletes the rows of old tokens, used or expired days ago.
Sweep(t) ==
    /\ token[t].state = "used" \/ token[t].expired
    /\ \A r \in Requests : req[r].token # t
    /\ token' = [token EXCEPT ![t] = NoToken]
    /\ UNCHANGED <<account, role, password, resets, session, req, overlap>>

Next == \/ \E r \in Requests, p \in Passwords :
              \/ SignUp(r, p) \/ CommitReset(r, p)
              \/ \E kind \in {"login", "break_glass"} : Verify(r, p, kind)
        \/ \E r \in Requests :
              \/ \E t \in Tokens : CheckReset(r, t)
              \/ \E s \in Sessions : CreateSession(r, s)
              \/ DeleteSessions(r) \/ Answer(r) \/ Fail(r)
        \/ \E t \in Tokens : Forgot(t) \/ Expire(t) \/ Sweep(t)
        \/ \E s \in Sessions : End(s)
        \/ \E state \in {"active", "disabled"}, newRole \in Roles : Administer(state, newRole)

Spec == Init /\ [][Next]_vars

-----------------------------------------------------------------------------

\* The sessions that rest on a password or a token from before the last reset.
Superseded == {s \in Sessions : session[s].live /\ session[s].basis < resets}

\* After a reset no more sessions rest on what it replaced than there were logins that
\* it overlapped: each had its password or token checked before the commit and created
\* its session after the delete, and has one session only (completePasswordReset,
\* createSession).
ResetEndsSessions == Cardinality(Superseded) <= overlap

\* A token sets the password once, and once more for each request that had read
\* it as unused before the first one committed: neither a later use nor an
\* earlier failure makes it usable (completePasswordReset).
UsedTwiceOnlyByRivals == \A t \in Tokens : token[t].uses <= 1 + Cardinality(token[t].rivals)

\* A break-glass session whose cookie was sent is of an account that was an
\* owner's when its password was verified, whatever its role has become before
\* or after the session was created (breakGlassLogin).
BreakGlassByOwners ==
    \A s \in Sessions :
        session[s].held /\ session[s].method = "break_glass" => session[s].role = "owner"
=============================================================================
