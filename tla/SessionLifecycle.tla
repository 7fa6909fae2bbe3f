-------------------------- MODULE SessionLifecycle --------------------------
(***************************************************************************)
(* The sessions of one account: creation under the per-user cap, lookup,   *)
(* touch and rotation by the session middleware, logout, logout-all,       *)
(* revocation, expiry, retention cleanup, password reset and deactivation  *)
(* (SessionService, SessionMiddleware and their callers in AuthService).   *)
(* Every where clause of the code names the account, a session id or a     *)
(* token hash, so the sessions of other accounts are never touched.        *)
(*                                                                         *)
(* Each prisma call is one step and anything may happen between two: the   *)
(* transaction of createSession runs at READ COMMITTED, so its insert is   *)
(* seen by others only when it commits.                                    *)
(*                                                                         *)
(* A token is a session id with the number of rotations before it, so two  *)
(* tokens differ and nobody guesses one; the n-th token of a session is    *)
(* the n-th value of its column tokenHash.  The clock is abstracted to the *)
(* verdicts the code takes from it: a session is due for a touch, due for  *)
(* a rotation, or over.                                                    *)
(***************************************************************************)
EXTENDS Integers, FiniteSets

CONSTANTS
    Ids,            \* session ids
    NoId,           \* none
    Requests,       \* concurrent requests that carry a session cookie
    Logins,         \* concurrent calls that create a session
    Cap,            \* SESSION_MAX_ACTIVE
    MaxRotations    \* bound: rotations of one session

ASSUME IdsAssumption == IsFiniteSet(Ids) /\ NoId \notin Ids
ASSUME LoginsAssumption == IsFiniteSet(Logins)
ASSUME CapAssumption == Cap \in Nat \ {0}
ASSUME RotationsAssumption == MaxRotations \in Nat

VARIABLES
    row,        \* row[i]: the session table
    newer,      \* pairs of ids in use: the first one was used (or created) later
    disabled,   \* user.disabledAt is set
    req,        \* req[r]: what request r holds
    login       \* login[l]: what a session-creating call holds

vars == <<row, newer, disabled, req, login>>

Kinds == {"read", "logout", "logout_all", "revoke"}

\* What the clock says of a session; one that is due for a rotation is written
\* like one that is due for a touch.
Ages == {"fresh", "touch", "rotate", "over"}

Row == [ st : {"none", "open", "live"},     \* absent, inserted but not committed, committed
         gen : 0..MaxRotations,             \* which token the row holds
         age : Ages,
         told : -1..MaxRotations,           \* history: the last token its client was given
         lost : BOOLEAN ]                   \* history: a response with a token was lost

Request == [ pc : {"idle", "lookup", "drop", "persist", "handle", "delete", "done"},
             kind : Kinds,
             id : Ids \union {NoId}, gen : 0..MaxRotations,     \* the token of the cookie
             rotate : BOOLEAN,                                  \* shouldRotate
             rotated : BOOLEAN,                                 \* rotatedToken is set
             goal : Ids \union {NoId} ]                         \* :sessionId

Login == [ pc : {"idle", "verified", "inserted", "selected"},
           id : Ids \union {NoId},
           victims : SUBSET Ids,        \* overflowSessions
           alone : BOOLEAN ]            \* history: no other creation has overlapped

Live == {i \in Ids : row[i].st = "live"}

Used == {i \in Ids : row[i].st # "none"}

\* R orders S strictly and totally.
StrictOrder(R, S) ==
    /\ R \subseteq S \X S
    /\ \A i \in S : <<i, i>> \notin R
    /\ \A i, j \in S : i # j => <<i, j>> \in R \/ <<j, i>> \in R
    /\ \A i, j, k \in S : <<i, j>> \in R /\ <<j, k>> \in R => <<i, k>> \in R

TypeOK ==
    /\ row \in [Ids -> Row]
    /\ StrictOrder(newer, Used)
    /\ disabled \in BOOLEAN
    /\ req \in [Requests -> Request]
    /\ login \in [Logins -> Login]

-----------------------------------------------------------------------------

Absent == [st |-> "none", gen |-> 0, age |-> "fresh", told |-> -1, lost |-> FALSE]

\* The order when the ids of S are no longer in use; and when i has just been used.
Without(S) == {p \in newer : p[1] \notin S /\ p[2] \notin S}

First(i) == Without({i}) \union ({i} \X (Used \ {i}))

\* prisma.session.delete and deleteMany of the committed rows of S.
Delete(S) == /\ row' = [i \in Ids |-> IF i \in S \intersect Live THEN Absent ELSE row[i]]
             /\ newer' = Without(S \intersect Live)

\* An id that nothing refers to, as good as one never used.
Unused(i) == /\ row[i].st = "none"
             /\ \A r \in Requests : i \notin {req[r].id, req[r].goal}
             /\ \A l \in Logins : i # login[l].id /\ i \notin login[l].victims

\* The sessions that the transaction of login l sees; of those, how many were used
\* later than i.
Seen(l) == Live \union {login[l].id}

Rank(l, i) == Cardinality({j \in Seen(l) : <<j, i>> \in newer})

\* Slips next to the code: what a plausible bug would make of the operator that
\* follows, kept to see that a property notices.
OverflowSlip(l) == {i \in Seen(l) : Rank(l, i) > Cap}

\* findMany with skip: those after the first Cap, the last used one first.
Overflow(l) == {i \in Seen(l) : Rank(l, i) >= Cap}

FindsSlip(i, g) == i \in Live

\* Token g of session i selects a row.
Finds(i, g) == i \in Live /\ row[i].gen = g

CurrentSlip(r) == req[r].gen

\* request.sessionToken after attachSessionToRequest
Current(r) == req[r].gen + (IF req[r].rotated THEN 1 ELSE 0)

Creating == {l \in Logins : login[l].pc \in {"inserted", "selected"}}

NoRequest == [ pc |-> "idle", kind |-> "read", id |-> NoId, gen |-> 0, rotate |-> FALSE,
               rotated |-> FALSE, goal |-> NoId ]

NoLogin == [pc |-> "idle", id |-> NoId, victims |-> {}, alone |-> TRUE]

\* Request r has its answer, whatever it is: only a rotated token still matters.
Done(r) == req' = [req EXCEPT ![r] = IF req[r].rotated
                                     THEN [@ EXCEPT !.pc = "done", !.kind = "read", !.goal = NoId]
                                     ELSE [NoRequest EXCEPT !.pc = "done"]]

-----------------------------------------------------------------------------

Init == /\ row = [i \in Ids |-> Absent]
        /\ newer = {}
        /\ disabled = FALSE
        /\ req = [r \in Requests |-> NoRequest]
        /\ login = [l \in Logins |-> NoLogin]

\* A client sends any token it was ever given, the latest or an older one: its
\* other requests may still be under way when a response replaces the cookie.
Send(r, k, i, g, goal) ==
    /\ req[r].pc = "idle"
    /\ row[i].st = "live" /\ g <= row[i].told
    /\ k = "revoke" <=> goal # NoId
    /\ req' = [req EXCEPT ![r] = [NoRequest EXCEPT !.pc = "lookup", !.kind = k, !.id = i,
                                                   !.gen = g, !.goal = goal]]
    /\ UNCHANGED <<row, newer, disabled, login>>

\* resolveSessionContext up to its second database call; without a session the
\* request goes on as anonymous and SessionGuard refuses it.
Lookup(r) ==
    /\ req[r].pc = "lookup"
    /\ LET q == req[r]  age == row[q.id].age IN
       IF Finds(q.id, q.gen)
       THEN req' = [req EXCEPT ![r].pc = IF age = "over" \/ disabled THEN "drop"
                                         ELSE IF age = "fresh" THEN "handle" ELSE "persist",
                               ![r].rotate = age = "rotate"]
       ELSE Done(r)
    /\ UNCHANGED <<row, newer, disabled, login>>

\* The session of the lookup is deleted by its id: anonymous, or a failure (500)
\* if the row is gone by now.
Drop(r) ==
    /\ req[r].pc = "drop"
    /\ Delete({req[r].id})
    /\ Done(r)
    /\ UNCHANGED <<disabled, login>>

\* updateMany where id and tokenHash are those of the lookup: a request that
\* comes second changes nothing and goes on without a rotated token.
Persist(r) ==
    /\ req[r].pc = "persist"
    /\ LET q == req[r] IN
       \/ /\ Finds(q.id, q.gen)
          /\ row' = [row EXCEPT ![q.id].age = IF @ = "touch" \/ (@ = "rotate" /\ q.rotate)
                                              THEN "fresh" ELSE @,
                                ![q.id].gen = IF q.rotate THEN @ + 1 ELSE @]
          /\ newer' = First(q.id)
          /\ req' = [req EXCEPT ![r].pc = "handle", ![r].rotated = q.rotate,
                                ![r].rotate = FALSE]
       \/ /\ ~Finds(q.id, q.gen)
          /\ req' = [req EXCEPT ![r].pc = "handle", ![r].rotate = FALSE]
          /\ UNCHANGED <<row, newer>>
    /\ UNCHANGED <<disabled, login>>

\* A handler that leaves the sessions alone, or a request that CsrfMiddleware,
\* a guard or an error stops before its handler.
Read(r) ==
    /\ req[r].pc = "handle"
    /\ Done(r)
    /\ UNCHANGED <<row, newer, disabled, login>>

\* destroySession: deleteMany where tokenHash is that of the request.
Logout(r) ==
    /\ req[r].pc = "handle" /\ req[r].kind = "logout"
    /\ Delete({i \in {req[r].id} : Finds(i, Current(r))})
    /\ Done(r)
    /\ UNCHANGED <<disabled, login>>

\* destroyAllSessions: deleteMany where userId is the account.
LogoutAll(r) ==
    /\ req[r].pc = "handle" /\ req[r].kind = "logout_all"
    /\ Delete(Ids)
    /\ Done(r)
    /\ UNCHANGED <<disabled, login>>

\* revokeSession looks the session up (404 if there is none), ...
RevokeFind(r) ==
    /\ req[r].pc = "handle" /\ req[r].kind = "revoke"
    /\ IF req[r].goal \in Live THEN req' = [req EXCEPT ![r].pc = "delete"] ELSE Done(r)
    /\ UNCHANGED <<row, newer, disabled, login>>

\* ... then deletes it by its id, which fails (500) if the row is gone by now.
RevokeDelete(r) ==
    /\ req[r].pc = "delete"
    /\ Delete({req[r].goal})
    /\ Done(r)
    /\ UNCHANGED <<disabled, login>>

\* The response arrives, with the rotated token if there is one.
Respond(r) ==
    /\ req[r].pc = "done"
    /\ row' = [i \in Ids |-> IF i = req[r].id /\ req[r].rotated /\ i \in Live
                             THEN [row[i] EXCEPT !.told = IF @ < Current(r) THEN Current(r) ELSE @]
                             ELSE row[i]]
    /\ req' = [req EXCEPT ![r] = NoRequest]
    /\ UNCHANGED <<newer, disabled, login>>

\* The process ends while it serves r, or the response is lost.
Lose(r) ==
    /\ req[r].pc # "idle"
    /\ row' = [i \in Ids |-> IF i = req[r].id /\ req[r].rotated /\ i \in Live
                             THEN [row[i] EXCEPT !.lost = TRUE] ELSE row[i]]
    /\ req' = [req EXCEPT ![r] = NoRequest]
    /\ UNCHANGED <<newer, disabled, login>>

-----------------------------------------------------------------------------

\* authenticateLocalUser, a verified SSO callback, a signup or a password reset
\* has accepted the caller and written its audit entry.
Verify(l) ==
    /\ login[l].pc = "idle"
    /\ ~disabled
    /\ login' = [login EXCEPT ![l].pc = "verified"]
    /\ UNCHANGED <<row, newer, disabled, req>>

\* createSession: the insert, not yet committed.
Insert(l, i) ==
    /\ login[l].pc = "verified"
    /\ Unused(i)
    /\ row' = [row EXCEPT ![i].st = "open"]
    /\ newer' = First(i)
    /\ login' = [m \in Logins |->
                   IF m = l THEN [login[l] EXCEPT !.pc = "inserted", !.id = i,
                                                  !.alone = Creating = {}]
                   ELSE [login[m] EXCEPT !.alone = @ /\ m \notin Creating]]
    /\ UNCHANGED <<disabled, req>>

\* createSession: the sessions beyond the cap.
Select(l) ==
    /\ login[l].pc = "inserted"
    /\ login' = [login EXCEPT ![l].pc = "selected", ![l].victims = Overflow(l)]
    /\ UNCHANGED <<row, newer, disabled, req>>

\* createSession deletes them and commits.  Only now breakGlassLogin looks at the
\* role: a caller who is no owner is refused (403) and gets no token.
CommitLogin(l, refused) ==
    /\ login[l].pc = "selected"
    /\ LET q == login[l]  gone == q.victims \intersect (Live \union {q.id}) IN
       /\ row' = [i \in Ids |->
                    IF i \in gone THEN Absent
                    ELSE IF i = q.id
                         THEN [row[i] EXCEPT !.st = "live", !.told = IF refused THEN -1 ELSE 0]
                         ELSE row[i]]
       /\ newer' = Without(gone)
    /\ login' = [login EXCEPT ![l] = NoLogin]
    /\ UNCHANGED <<disabled, req>>

\* A database error or the end of the process rolls the insert back.
AbandonLogin(l) ==
    /\ login[l].pc # "idle"
    /\ row' = [i \in Ids |-> IF i = login[l].id THEN Absent ELSE row[i]]
    /\ newer' = Without({login[l].id})
    /\ login' = [login EXCEPT ![l] = NoLogin]
    /\ UNCHANGED <<disabled, req>>

\* completePasswordReset leaves no session.
Reset == Delete(Ids) /\ UNCHANGED <<disabled, req, login>>

\* An administrator or SCIM deactivates or reactivates the account.
SetDisabled == disabled' = ~disabled /\ UNCHANGED <<row, newer, req, login>>

\* runCleanup removes sessions that have been over for long.
Sweep(S) ==
    /\ S # {} /\ \A i \in S : i \in Live /\ row[i].age = "over"
    /\ Delete(S)
    /\ UNCHANGED <<disabled, req, login>>

\* Time passes for session i.
Age(i, age) ==
    /\ i \in Live
    /\ <<row[i].age, age>> \in { <<"fresh", "touch">>, <<"fresh", "rotate">>, <<"fresh", "over">>,
                                <<"touch", "rotate">>, <<"touch", "over">>, <<"rotate", "over">> }
    /\ age = "rotate" => row[i].gen < MaxRotations
    /\ row' = [row EXCEPT ![i].age = age]
    /\ UNCHANGED <<newer, disabled, req, login>>

-----------------------------------------------------------------------------

Next == \/ \E r \in Requests :
              \/ \E k \in Kinds, i \in Ids, g \in 0..MaxRotations, goal \in Ids \union {NoId} :
                    Send(r, k, i, g, goal)
              \/ Lookup(r) \/ Drop(r) \/ Persist(r) \/ Read(r) \/ Logout(r) \/ LogoutAll(r)
              \/ RevokeFind(r) \/ RevokeDelete(r) \/ Respond(r) \/ Lose(r)
        \/ \E l \in Logins :
              \/ Verify(l) \/ Select(l) \/ AbandonLogin(l)
              \/ \E i \in Ids : Insert(l, i)
              \/ \E refused \in BOOLEAN : CommitLogin(l, refused)
        \/ Reset \/ SetDisabled
        \/ \E S \in SUBSET Ids : Sweep(S)
        \/ \E i \in Ids, age \in Ages : Age(i, age)

Spec == Init /\ [][Next]_vars

-----------------------------------------------------------------------------

\* The cap, as far as READ COMMITTED lets concurrent logins keep it: each of
\* them misses the uncommitted sessions of the others (createSession).
CapUpToConcurrency == Cardinality(Live) <= Cap + Cardinality(Logins) - 1

\* A login that no other creation overlaps leaves at most Cap sessions, whatever
\* the logins before it have left behind (createSession).
LoneLoginRestoresCap ==
    [][\A l \in Logins, refused \in BOOLEAN :
           CommitLogin(l, refused) /\ login[l].alone => Cardinality(Live') <= Cap]_vars

\* Of concurrent requests with one token, at most one is given a rotated token
\* (resolveSessionContext).
OneRotationPerToken ==
    \A r, s \in Requests :
        r # s /\ req[r].rotated /\ req[s].rotated /\ req[r].id = req[s].id =>
            req[r].gen # req[s].gen

\* Rotation never locks a client out: the token that a session holds is the one
\* its client has, or is on its way to it, unless a response was lost or the
\* session is that of a refused break-glass login (resolveSessionContext).
TokenReachesClient ==
    \A i \in Live :
        \/ row[i].told \in {-1, row[i].gen} \/ row[i].lost
        \/ \E r \in Requests : req[r].rotated /\ req[r].id = i /\ Current(r) = row[i].gen

\* A logout that leaves its session behind lost a race: the session had been
\* given another token after the logout's own request was authenticated and,
\* perhaps, rotated (destroySession, attachSessionToRequest).
LogoutMissesOnlyRotated ==
    [][\A r \in Requests :
          Logout(r) /\ req[r].id \in Live' =>
              row[req[r].id].gen > IF req[r].rotated THEN req[r].gen + 1 ELSE req[r].gen]_vars
=============================================================================
