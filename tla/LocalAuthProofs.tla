--------------------------- MODULE LocalAuthProofs ---------------------------
(***************************************************************************)
(* Proofs about LocalAuth, for any passwords, tokens and resets, and       *)
(* finitely many sessions and requests.                                    *)
(*                                                                         *)
(* A session rests on what was replaced if its request was let in before a *)
(* reset's commit, and it is there if it was created after the delete: at  *)
(* the commit these are the sessions that the delete has not found, and    *)
(* the requests that are still to create one (Locked, Counted).            *)
(*                                                                         *)
(* A used token is given its rivals when it is first used: the requests    *)
(* that have read it as unused by then.  From there on no request reads it *)
(* as unused, and each further use takes one of those away, so that uses   *)
(* and remaining readers together are bounded (Bounded).  A cookie is sent *)
(* by a request that knows what its session was created from (Known).      *)
(*                                                                         *)
(* The second and the third part are about AuditChain and ProjectExport,   *)
(* which both rest on one fact about orders (FirstExists).  A writer of    *)
(* the audit log knows the head but for what was committed since           *)
(* (HeadRead).  A reader of the projects has read what lies before its     *)
(* cursor: exactly once what nobody touched (Untouched), at most once      *)
(* what no lagging clock wrote (Behind), and nothing that neither matched  *)
(* at its start nor was changed since (Limited).                           *)
(***************************************************************************)
EXTENDS LocalAuth, AuditChain, ProjectExport, FiniteSetTheorems, TLAPS

\* The requests that have read token t as unused and have not used it yet.
Readers(t) == {r \in Requests : req[r].pc \in {"hash", "commit"} /\ req[r].token = t}

Bounded ==
    \A t \in Tokens :
        /\ token[t].uses <= resets
        /\ token[t].uses > 0 =>
              /\ token[t].state = "used"
              /\ token[t].uses + Cardinality(Readers(t)) <= 1 + Cardinality(token[t].rivals)

Asked == \A r \in Requests : /\ req[r].pc \in {"hash", "commit"} => req[r].token \in Tokens
                             /\ req[r].pc = "answer" => req[r].session \in Sessions

Known == \A r \in Requests :
            LET s == req[r].session IN
            req[r].pc = "answer" /\ session[s].live =>
                /\ session[s].method = "break_glass" => req[r].kind = "break_glass"
                /\ session[s].role = req[r].role

\* One reset at a time is in its transaction, and what its delete has not found was
\* created after it.
Locked ==
    \A r \in Requests : req[r].pc = "commit" =>
        /\ resets < MaxResets
        /\ \A q \in Requests : req[q].pc = "commit" => q = r
        /\ \A s \in Sessions : session[s].live /\ ~session[s].doomed => session[s].after

\* The requests that will create a session on what was replaced.
Late == {r \in Requests : req[r].pc = "create" /\ req[r].basis < resets}

Counted == Cardinality(Superseded) + Cardinality(Late) <= overlap

IInv == TypeOK /\ Asked /\ Known /\ BreakGlassByOwners /\ Bounded /\ Locked /\ Counted

-----------------------------------------------------------------------------

LEMMA IdleType == Idle \in Request /\ Idle.pc = "idle"
BY MaxResetsAssumption DEF Idle, Request, Kinds, Roles

LEMMA NoSessionType == NoSession \in Session /\ ~NoSession.live /\ ~NoSession.held
BY MaxResetsAssumption DEF NoSession, Session, Roles

LEMMA NoTokenType == NoToken \in Token /\ NoToken.uses = 0
BY MaxResetsAssumption DEF NoToken, Token

\* Superseded sessions and late requests are finitely many.
LEMMA CountedFinite ==
    /\ IsFiniteSet(Superseded) /\ Cardinality(Superseded) \in Nat
    /\ IsFiniteSet(Late) /\ Cardinality(Late) \in Nat
BY RequestsAssumption, SessionsAssumption, FS_Subset, FS_CardinalityType DEF Superseded, Late

\* What the transaction of a reset does to a row: at its delete, ...
LEMMA DoomedType ==
    ASSUME NEW s \in Sessions, session[s] \in Session
    PROVE  /\ Doomed(s) \in Session /\ Doomed(s).doomed = (s \in Ended)
           /\ Doomed(s).live = session[s].live /\ Doomed(s).method = session[s].method
           /\ Doomed(s).basis = session[s].basis /\ Doomed(s).role = session[s].role
           /\ Doomed(s).held = session[s].held
<1>1. PICK w \in Session : w = session[s]
  OBVIOUS
<1>2. PICK d \in BOOLEAN : d = (s \in Ended)
  <2>1. (s \in Ended) \in BOOLEAN
    OBVIOUS
  <2>. QED
    BY <2>1, Zenon
<1>3. Doomed(s) = [w EXCEPT !.doomed = d]
  BY <1>1, <1>2 DEF Doomed
<1>. QED
  BY <1>1, <1>2, <1>3 DEF Session

\* ... when it is rolled back, ...
LEMMA RolledBackType ==
    ASSUME NEW s \in Sessions, session[s] \in Session
    PROVE  /\ RolledBack(s) \in Session
           /\ RolledBack(s).live = session[s].live /\ RolledBack(s).method = session[s].method
           /\ RolledBack(s).basis = session[s].basis /\ RolledBack(s).role = session[s].role
           /\ RolledBack(s).held = session[s].held
<1>1. PICK w \in Session : w = session[s]
  OBVIOUS
<1>2. RolledBack(s) = [w EXCEPT !.doomed = FALSE, !.after = FALSE]
  BY <1>1 DEF RolledBack
<1>. QED
  BY <1>1, <1>2, ZenonT(60) DEF Session

\* ... and at its commit.
LEMMA RemainingType ==
    ASSUME NEW s \in Sessions, session[s] \in Session
    PROVE  /\ Remaining(s) \in Session
           /\ session[s].doomed => ~Remaining(s).live /\ ~Remaining(s).held
           /\ ~session[s].doomed =>
                /\ Remaining(s).live = session[s].live /\ Remaining(s).method = session[s].method
                /\ Remaining(s).role = session[s].role /\ Remaining(s).held = session[s].held
<1>1. PICK w \in Session : w = session[s]
  OBVIOUS
<1>2. Remaining(s) = IF w.doomed THEN NoSession ELSE [w EXCEPT !.after = FALSE]
  BY <1>1 DEF Remaining
<1>3. CASE w.doomed
  BY <1>1, <1>2, <1>3, NoSessionType
<1>4. CASE ~w.doomed
  BY <1>1, <1>2, <1>4 DEF Session
<1>. QED
  BY <1>3, <1>4

LEMMA InitIInv == Init => IInv
<1>. SUFFICES ASSUME Init PROVE IInv
  OBVIOUS
<1>1. /\ \A r \in Requests : req[r].pc = "idle"
      /\ \A s \in Sessions : ~session[s].live /\ ~session[s].held
      /\ \A t \in Tokens : token[t].uses = 0
  BY NoSessionType, NoTokenType DEF Init, Idle
<1>2. TypeOK
  BY <1>1, IdleType, NoSessionType, NoTokenType, MaxResetsAssumption DEF Init, TypeOK
<1>3. Superseded = {} /\ Late = {}
  BY <1>1 DEF Superseded, Late
<1>4. Counted
  BY <1>3, FS_EmptySet DEF Counted, Init
<1>. QED
  BY <1>1, <1>2, <1>4 DEF Init, IInv, Asked, Known, BreakGlassByOwners, Bounded, Locked

\* The readers of a token are finitely many.
LEMMA ReadersFinite ==
    ASSUME NEW t PROVE IsFiniteSet(Readers(t)) /\ Cardinality(Readers(t)) \in Nat
BY RequestsAssumption, FS_Subset, FS_CardinalityType DEF Readers

\* Fewer readers are no more than there were.
LEMMA FewerReaders ==
    ASSUME NEW t, NEW U, U \subseteq Readers(t)
    PROVE  Cardinality(U) \in Nat /\ Cardinality(U) <= Cardinality(Readers(t))
BY ReadersFinite, FS_Subset, FS_CardinalityType

\* A step of request r that leaves the tokens alone and makes it no reader.
LEMMA NoNewReader ==
    ASSUME IInv, TypeOK', NEW r \in Requests, UNCHANGED <<token, resets>>,
           req'[r].pc \notin {"hash", "commit"}, \A q \in Requests \ {r} : req'[q] = req[q]
    PROVE  Bounded'
<1>. SUFFICES ASSUME NEW t \in Tokens, token[t].uses > 0
              PROVE  token[t].uses + Cardinality(Readers(t)') <= 1 + Cardinality(token[t].rivals)
  BY DEF IInv, Bounded
<1>1. Readers(t)' \subseteq Readers(t)
  BY DEF Readers
<1>2. token[t].uses \in Nat /\ token[t].rivals \subseteq Requests
  BY MaxResetsAssumption DEF IInv, TypeOK, Token
<1>3. Cardinality(token[t].rivals) \in Nat
  BY <1>2, RequestsAssumption, FS_Subset, FS_CardinalityType
<1>4. token[t].uses + Cardinality(Readers(t)) <= 1 + Cardinality(token[t].rivals)
  BY DEF IInv, Bounded
<1>. HIDE DEF Readers
<1>. QED
  BY <1>1, <1>2, <1>3, <1>4, FewerReaders, ReadersFinite

\* A step that leaves the requests alone, and the tokens where it does not clear them.
LEMMA SameReaders ==
    ASSUME IInv, UNCHANGED <<req, resets>>,
           \A t \in Tokens : \/ token'[t].uses = 0
                             \/ /\ token'[t].uses = token[t].uses
                                /\ token'[t].rivals = token[t].rivals
                                /\ token[t].state = "used" => token'[t].state = "used"
    PROVE  Bounded'
<1>1. \A t : Readers(t)' = Readers(t)
  BY DEF Readers
<1>2. resets \in Nat
  BY MaxResetsAssumption DEF IInv, TypeOK
<1>. HIDE DEF Readers
<1>. QED
  BY <1>1, <1>2 DEF IInv, Bounded

\* No further session is superseded, and no further request late.
LEMMA NoMoreSuperseded ==
    ASSUME IInv, UNCHANGED overlap, Superseded' \subseteq Superseded, Late' \subseteq Late
    PROVE  Counted'
<1>1. /\ Cardinality(Superseded') <= Cardinality(Superseded) /\ Cardinality(Superseded') \in Nat
      /\ Cardinality(Late') <= Cardinality(Late) /\ Cardinality(Late') \in Nat
  BY CountedFinite, FS_Subset, FS_CardinalityType
<1>2. Cardinality(Superseded) + Cardinality(Late) <= overlap /\ overlap \in Nat
  BY DEF IInv, Counted, TypeOK
<1>. QED
  BY <1>1, <1>2, CountedFinite DEF Counted

\* A request begins, or ends, and no session changes in what the properties need.
LEMMA RequestMoves ==
    ASSUME IInv, NEW r \in Requests, NEW f \in Request, f.pc \in {"idle", "create"},
           f.pc = "create" => f.basis = resets,
           req' = [req EXCEPT ![r] = f],
           account' \in {"none", "active", "disabled"}, password' \in Passwords \union {None},
           session' \in [Sessions -> Session],
           \A s \in Sessions : /\ session'[s].live = session[s].live
                               /\ session'[s].method = session[s].method
                               /\ session'[s].basis = session[s].basis
                               /\ session'[s].role = session[s].role
                               /\ session'[s].held = session[s].held,
           req[r].pc # "commit" => session' = session,
           UNCHANGED <<role, resets, token, overlap>>
    PROVE  IInv'
<1>1. TypeOK'
  BY DEF IInv, TypeOK
<1>2. req'[r] = f /\ \A q \in Requests \ {r} : req'[q] = req[q]
  BY DEF IInv, TypeOK
<1>3. Asked'
  BY <1>2 DEF IInv, Asked
<1>4. Known' /\ BreakGlassByOwners'
  <2>1. \A q \in Requests : req'[q].pc = "answer" => req'[q] = req[q] /\ req[q].session \in Sessions
    BY <1>2 DEF IInv, Asked
  <2>. QED
    BY <2>1 DEF IInv, Known, BreakGlassByOwners
<1>5. Bounded'
  BY <1>1, <1>2, NoNewReader
<1>6. Locked'
  BY <1>2 DEF IInv, Locked
<1>7. Counted'
  <2>1. Superseded' \subseteq Superseded
    BY DEF Superseded
  <2>2. resets \in Nat
    BY MaxResetsAssumption DEF IInv, TypeOK
  <2>3. Late' \subseteq Late
    BY <1>2, <2>2 DEF Late
  <2>. QED
    BY <2>1, <2>3, NoMoreSuperseded
<1>. QED
  BY <1>1, <1>3, <1>4, <1>5, <1>6, <1>7 DEF IInv

LEMMA SignUpKeepsIInv ==
    ASSUME IInv, NEW r \in Requests, NEW p \in Passwords, SignUp(r, p) PROVE IInv'
<1>. DEFINE f == [Idle EXCEPT !.pc = "create", !.kind = "signup", !.basis = resets]
<1>1. f \in Request /\ f.pc = "create" /\ f.basis = resets
  BY DEF Idle, Request, Kinds, Roles, IInv, TypeOK
<1>2. req' = [req EXCEPT ![r] = f]
  BY DEF SignUp
<1>. HIDE DEF f
<1>. QED
  BY <1>1, <1>2, RequestMoves DEF SignUp, IInv, TypeOK

LEMMA VerifyKeepsIInv ==
    ASSUME IInv, NEW r \in Requests, NEW p \in Passwords,
           NEW kind \in {"login", "break_glass"}, Verify(r, p, kind)
    PROVE  IInv'
<1>. DEFINE f == [Idle EXCEPT !.pc = "create", !.kind = kind, !.basis = resets, !.role = role]
<1>1. f \in Request /\ f.pc = "create" /\ f.basis = resets
  BY DEF Idle, Request, Kinds, Roles, IInv, TypeOK
<1>2. req' = [req EXCEPT ![r] = f]
  BY DEF Verify
<1>. HIDE DEF f
<1>. QED
  BY <1>1, <1>2, RequestMoves DEF Verify, IInv, TypeOK

\* What a transaction has not committed is undone.
LEMMA FailKeepsIInv == ASSUME IInv, NEW r \in Requests, Fail(r) PROVE IInv'
<1>1. \A s \in Sessions : session[s] \in Session
  BY DEF IInv, TypeOK
<1>2. session' = IF req[r].pc # "commit" THEN session ELSE [s \in Sessions |-> RolledBack(s)]
  BY DEF Fail
<1>3. /\ session' \in [Sessions -> Session]
      /\ \A s \in Sessions : /\ session'[s].live = session[s].live
                             /\ session'[s].method = session[s].method
                             /\ session'[s].basis = session[s].basis
                             /\ session'[s].role = session[s].role
                             /\ session'[s].held = session[s].held
  BY <1>1, <1>2, RolledBackType DEF IInv, TypeOK
<1>4. req[r].pc # "commit" => session' = session
  BY <1>2
<1>5. /\ req' = [req EXCEPT ![r] = Idle] /\ UNCHANGED <<role, resets, token, overlap>>
      /\ account' \in {"none", "active", "disabled"} /\ password' \in Passwords \union {None}
  BY DEF Fail, IInv, TypeOK
<1>. QED
  BY <1>3, <1>4, <1>5, RequestMoves, IdleType

\* The token is unused: it has no rivals to be counted yet.
LEMMA CheckResetKeepsIInv ==
    ASSUME IInv, NEW r \in Requests, NEW t \in Tokens, CheckReset(r, t) PROVE IInv'
<1>. DEFINE f == [Idle EXCEPT !.pc = "hash", !.kind = "reset", !.token = t]
<1>1. f \in Request /\ f.pc = "hash" /\ f.token = t
  BY IdleType DEF Idle, Request, Kinds, Roles
<1>2. req' = [req EXCEPT ![r] = f]
  BY DEF CheckReset
<1>. HIDE DEF f
<1>3. req'[r] = f /\ \A q \in Requests \ {r} : req'[q] = req[q]
  BY <1>2 DEF IInv, TypeOK
<1>4. TypeOK'
  BY <1>1, <1>2 DEF CheckReset, IInv, TypeOK
<1>5. Asked' /\ Known'
  BY <1>1, <1>3 DEF CheckReset, IInv, Asked, Known
<1>6. ASSUME NEW u \in Tokens, token[u].uses > 0
      PROVE  token[u].uses + Cardinality(Readers(u)') <= 1 + Cardinality(token[u].rivals)
  <2>1. u # t
    BY <1>6 DEF CheckReset, Usable, IInv, Bounded
  <2>2. Readers(u)' = Readers(u)
    BY <1>1, <1>3, <2>1 DEF Readers, CheckReset
  <2>. QED
    BY <1>6, <2>2 DEF IInv, Bounded
<1>7. Bounded'
  BY <1>6 DEF CheckReset, IInv, Bounded
<1>8. BreakGlassByOwners' /\ Locked'
  BY <1>1, <1>3 DEF CheckReset, IInv, BreakGlassByOwners, Locked
<1>9. Superseded' \subseteq Superseded /\ Late' \subseteq Late
  BY <1>1, <1>3 DEF CheckReset, Superseded, Late
<1>10. Counted'
  BY <1>9, NoMoreSuperseded DEF CheckReset
<1>. QED
  BY <1>4, <1>5, <1>7, <1>8, <1>10 DEF IInv

\* The delete: what it finds is doomed, and nothing is created after it yet.
LEMMA DeleteSessionsKeepsIInv ==
    ASSUME IInv, NEW r \in Requests, DeleteSessions(r) PROVE IInv'
<1>. DEFINE f == [req[r] EXCEPT !.pc = "commit"]
<1>1. f \in Request /\ f.pc = "commit" /\ f.token = req[r].token
  BY DEF Request, IInv, TypeOK
<1>2. \A s \in Sessions : session[s] \in Session
  BY DEF IInv, TypeOK
<1>3. req' = [req EXCEPT ![r] = f] /\ session' = [s \in Sessions |-> Doomed(s)]
  BY DEF DeleteSessions, IInv, TypeOK
<1>. HIDE DEF f
<1>4. /\ req'[r] = f /\ \A q \in Requests \ {r} : req'[q] = req[q]
      /\ \A s \in Sessions : session'[s] = Doomed(s)
  BY <1>3 DEF IInv, TypeOK
<1>5. TypeOK'
  <2>1. req' \in [Requests -> Request] /\ session' \in [Sessions -> Session]
    BY <1>1, <1>2, <1>3, DoomedType DEF IInv, TypeOK
  <2>2. \A q \in Requests : req'[q].pc = "answer" => req'[q].session # None
    BY <1>1, <1>4 DEF IInv, TypeOK
  <2>. QED
    BY <2>1, <2>2 DEF DeleteSessions, IInv, TypeOK
<1>6. Asked'
  BY <1>1, <1>4 DEF DeleteSessions, IInv, Asked
<1>7. Known' /\ BreakGlassByOwners'
  <2>1. \A q \in Requests : req'[q].pc = "answer" => req'[q] = req[q] /\ req[q].session \in Sessions
    BY <1>1, <1>4 DEF IInv, Asked
  <2>. QED
    BY <1>2, <1>4, <2>1, DoomedType DEF IInv, Known, BreakGlassByOwners
<1>8. Bounded'
  <2>1. \A t : Readers(t)' = Readers(t)
    BY <1>1, <1>4 DEF DeleteSessions, Readers
  <2>. HIDE DEF Readers
  <2>. QED
    BY <2>1 DEF DeleteSessions, IInv, Bounded
<1>9. Locked'
  <2>1. \A q \in Requests : req'[q].pc = "commit" => q = r
    BY <1>4 DEF DeleteSessions
  <2>2. \A s \in Sessions : session'[s].live => session'[s].doomed
    BY <1>2, <1>4, DoomedType DEF Ended
  <2>3. resets' < MaxResets
    BY DEF DeleteSessions
  <2>. QED
    BY <2>1, <2>2, <2>3 DEF Locked
<1>10. Superseded' \subseteq Superseded /\ Late' \subseteq Late
  BY <1>1, <1>2, <1>4, DoomedType DEF DeleteSessions, Superseded, Late
<1>11. Counted'
  BY <1>10, NoMoreSuperseded DEF DeleteSessions
<1>. QED
  BY <1>5, <1>6, <1>7, <1>8, <1>9, <1>11 DEF IInv

\* The readers of the token become its rivals, or one of them has had its turn.
LEMMA CommitResetKeepsIInv ==
    ASSUME IInv, NEW r \in Requests, NEW p \in Passwords, CommitReset(r, p) PROVE IInv'
<1>0. PICK t \in Tokens : t = req[r].token
  BY DEF CommitReset, IInv, Asked
<1>. DEFINE v == IF token[t].uses > 0 THEN token[t].rivals
                 ELSE {q \in Requests \ {r} : req[q].pc = "hash" /\ req[q].token = t}
            n == token[t].uses + 1
<1>1. /\ req[r].token = t /\ req[r].pc = "commit"
      /\ \A q \in Requests : req[q].pc = "commit" => q = r
  BY <1>0 DEF CommitReset, IInv, Locked
<1>2. token[t].uses \in Nat /\ token[t].uses <= resets /\ resets \in Nat /\ resets < MaxResets
      /\ token[t].rivals \subseteq Requests
  BY <1>1, MaxResetsAssumption DEF CommitReset, IInv, TypeOK, Token, Bounded, Locked
<1>3. n \in 1..MaxResets /\ n <= resets' /\ resets' = resets + 1 /\ resets' \in 0..MaxResets
  BY <1>2, MaxResetsAssumption DEF CommitReset
<1>4. v = IF token[t].uses > 0 THEN token[t].rivals ELSE Readers(t) \ {r}
  BY <1>1 DEF Readers
<1>5. v \subseteq Requests
  BY <1>2
<1>. HIDE DEF v
<1>6. token' = [token EXCEPT ![t].state = "used", ![t].uses = n, ![t].rivals = v]
  BY <1>1 DEF CommitReset, v
<1>. DEFINE g == [token[t] EXCEPT !.state = "used", !.uses = n, !.rivals = v]
            f == [req[r] EXCEPT !.pc = "create", !.token = None, !.basis = resets']
<1>. HIDE DEF n
<1>7. token' = [token EXCEPT ![t] = g] /\ req' = [req EXCEPT ![r] = f]
  BY <1>1, <1>3, <1>6 DEF CommitReset, IInv, TypeOK
<1>8. /\ g \in Token /\ g.state = "used" /\ g.uses = n /\ g.rivals = v
      /\ f \in Request /\ f.pc = "create" /\ f.basis = resets'
  <2>1. token[t] \in Token /\ req[r] \in Request /\ n \in 0..MaxResets
    BY <1>3 DEF IInv, TypeOK
  <2>2. g \in Token /\ g.state = "used" /\ g.uses = n /\ g.rivals = v
    BY <1>5, <2>1 DEF Token
  <2>3. f \in Request /\ f.pc = "create" /\ f.basis = resets'
    BY <1>3, <2>1 DEF Request
  <2>. QED
    BY <2>2, <2>3
<1>. HIDE DEF g, f
<1>9. /\ token'[t] = g /\ \A u \in Tokens \ {t} : token'[u] = token[u]
      /\ req'[r] = f /\ \A q \in Requests \ {r} : req'[q] = req[q]
  BY <1>1, <1>7 DEF IInv, TypeOK
<1>10. /\ session' = [s \in Sessions |-> Remaining(s)]
       /\ \A s \in Sessions : session[s] \in Session /\ session'[s] = Remaining(s)
  BY DEF CommitReset, IInv, TypeOK
<1>. DEFINE C == {q \in Requests : req[q].pc = "create"}
            A == {s \in Sessions : session[s].after}
<1>11. /\ overlap' = Cardinality(C) + Cardinality(A)
       /\ IsFiniteSet(C) /\ Cardinality(C) \in Nat /\ IsFiniteSet(A) /\ Cardinality(A) \in Nat
  BY RequestsAssumption, SessionsAssumption, FS_Subset, FS_CardinalityType
     DEF CommitReset, Overlapped
<1>12. TypeOK'
  <2>1. token' \in [Tokens -> Token] /\ req' \in [Requests -> Request]
    BY <1>7, <1>8 DEF IInv, TypeOK
  <2>2. \A q \in Requests : req'[q].pc = "answer" => req'[q].session # None
    BY <1>8, <1>9 DEF IInv, TypeOK
  <2>3. session' \in [Sessions -> Session]
    BY <1>10, RemainingType
  <2>4. overlap' \in Nat
    BY <1>11
  <2>. QED
    BY <1>3, <2>1, <2>2, <2>3, <2>4 DEF CommitReset, IInv, TypeOK
<1>13. Asked' /\ Known' /\ BreakGlassByOwners'
  <2>1. \A q \in Requests : req'[q].pc = "answer" => req'[q] = req[q] /\ req[q].session \in Sessions
    BY <1>8, <1>9 DEF IInv, Asked
  <2>2. Asked'
    BY <1>8, <1>9 DEF IInv, Asked
  <2>3. Known' /\ BreakGlassByOwners'
    BY <1>10, <2>1, RemainingType DEF IInv, Known, BreakGlassByOwners
  <2>. QED
    BY <2>2, <2>3
<1>14. Locked'
  BY <1>1, <1>8, <1>9 DEF Locked
<1>15. Counted'
  <2>1. Superseded' \subseteq A
    BY <1>1, <1>10, RemainingType DEF IInv, Locked, Superseded
  <2>2. Late' \subseteq C
    BY <1>3, <1>8, <1>9 DEF Late
  <2>. HIDE DEF A, C
  <2>3. /\ Cardinality(Superseded') <= Cardinality(A) /\ Cardinality(Superseded') \in Nat
        /\ Cardinality(Late') <= Cardinality(C) /\ Cardinality(Late') \in Nat
    BY <1>11, <2>1, <2>2, FS_Subset, FS_CardinalityType
  <2>. QED
    BY <1>11, <2>3 DEF Counted
<1>16. ASSUME NEW u \in Tokens, token'[u].uses > 0
       PROVE  /\ token'[u].state = "used"
              /\ token'[u].uses + Cardinality(Readers(u)') <= 1 + Cardinality(token'[u].rivals)
  <2>1. CASE u # t
    <3>1. Readers(u)' = Readers(u)
      BY <1>1, <1>8, <1>9, <2>1 DEF Readers
    <3>. QED
      BY <1>9, <1>16, <2>1, <3>1 DEF IInv, Bounded
  <2>2. CASE u = t
    <3>1. r \in Readers(t) /\ Readers(t)' = Readers(t) \ {r}
      BY <1>1, <1>8, <1>9 DEF Readers
    <3>2. Cardinality(Readers(t)') = Cardinality(Readers(t)) - 1
      BY <3>1, ReadersFinite, FS_RemoveElement
    <3>3. Cardinality(Readers(t)) \in Nat
      BY ReadersFinite
    <3>4. n + Cardinality(Readers(t)') <= 1 + Cardinality(v)
      <4>1. CASE token[t].uses > 0
        <5>1. v = token[t].rivals
          BY <1>4, <4>1
        <5>2. token[t].uses + Cardinality(Readers(t)) <= 1 + Cardinality(v)
          BY <1>1, <4>1, <5>1 DEF IInv, Bounded
        <5>3. Cardinality(v) \in Nat
          BY <1>5, RequestsAssumption, FS_Subset, FS_CardinalityType
        <5>. HIDE DEF Readers
        <5>. QED
          BY <1>2, <3>2, <3>3, <5>2, <5>3 DEF n
      <4>2. CASE ~(token[t].uses > 0)
        <5>1. v = Readers(t)' /\ n = 1
          BY <1>2, <1>4, <3>1, <4>2 DEF n
        <5>2. Cardinality(v) \in Nat
          BY <1>5, RequestsAssumption, FS_Subset, FS_CardinalityType
        <5>. QED
          BY <5>1, <5>2
      <4>. QED
        BY <4>1, <4>2
    <3>. QED
      BY <1>8, <1>9, <2>2, <3>4
  <2>. QED
    BY <2>1, <2>2
<1>17. Bounded'
  <2>1. \A u \in Tokens : token'[u].uses <= resets'
    BY <1>2, <1>3, <1>8, <1>9 DEF IInv, Bounded, TypeOK, Token
  <2>. QED
    BY <1>16, <2>1 DEF Bounded
<1>. QED
  BY <1>12, <1>13, <1>14, <1>15, <1>17 DEF IInv

\* The session of a late request is superseded: one more of these, one less of those.
LEMMA CreateSessionKeepsIInv ==
    ASSUME IInv, NEW r \in Requests, NEW s \in Sessions, CreateSession(r, s) PROVE IInv'
<1>. DEFINE m == IF req[r].kind = "break_glass" THEN "break_glass" ELSE "local"
            a == \E q \in Requests : req[q].pc = "commit"
            g == [live |-> TRUE, doomed |-> FALSE, method |-> m, basis |-> req[r].basis,
                  after |-> a, role |-> req[r].role, held |-> FALSE]
            f == [req[r] EXCEPT !.pc = "answer", !.session = s]
<1>0. a \in BOOLEAN
  OBVIOUS
<1>1. session' = [session EXCEPT ![s] = g] /\ req[r].pc = "create" /\ ~session[s].live
  BY DEF CreateSession
<1>2. req' = [req EXCEPT ![r] = f]
  BY DEF CreateSession, IInv, TypeOK
<1>3. req[r] \in Request /\ s # None
  BY NoneAssumption DEF IInv, TypeOK
<1>4. f \in Request /\ f.pc = "answer" /\ f.session = s /\ f.kind = req[r].kind
      /\ f.role = req[r].role
  BY <1>3 DEF Request
<1>5. m = "break_glass" => req[r].kind = "break_glass"
  OBVIOUS
<1>6. m \in {"local", "break_glass"}
  OBVIOUS
<1>. HIDE DEF m, a
<1>7. /\ g \in Session /\ g.live /\ g.method = m /\ g.basis = req[r].basis
      /\ g.after = a /\ g.role = req[r].role /\ ~g.held
  BY <1>0, <1>3, <1>6 DEF Session, Request
<1>. HIDE DEF f, g
<1>8. /\ session'[s] = g /\ \A u \in Sessions \ {s} : session'[u] = session[u]
      /\ req'[r] = f /\ \A q \in Requests \ {r} : req'[q] = req[q]
  BY <1>1, <1>2 DEF IInv, TypeOK
<1>9. TypeOK'
  <2>1. session' \in [Sessions -> Session] /\ req' \in [Requests -> Request]
    BY <1>1, <1>2, <1>4, <1>7 DEF IInv, TypeOK
  <2>2. \A q \in Requests : req'[q].pc = "answer" => req'[q].session # None
    BY <1>3, <1>4, <1>8 DEF IInv, TypeOK
  <2>. QED
    BY <2>1, <2>2 DEF CreateSession, IInv, TypeOK
<1>10. Asked'
  BY <1>4, <1>8 DEF IInv, Asked
<1>11. Known'
  <2>1. \A q \in Requests : req[q].session # s
    BY DEF CreateSession
  <2>. QED
    BY <1>4, <1>5, <1>7, <1>8, <2>1 DEF IInv, Asked, Known
<1>12. BreakGlassByOwners'
  BY <1>7, <1>8 DEF CreateSession, IInv, BreakGlassByOwners
<1>13. Bounded'
  BY <1>4, <1>8, <1>9, NoNewReader DEF CreateSession
<1>14. Locked'
  <2>. SUFFICES ASSUME NEW q \in Requests, req'[q].pc = "commit"
                PROVE  /\ resets < MaxResets
                       /\ \A o \in Requests : req'[o].pc = "commit" => o = q
                       /\ \A u \in Sessions : session'[u].live /\ ~session'[u].doomed
                                               => session'[u].after
    BY DEF CreateSession, Locked
  <2>1. req[q].pc = "commit" /\ \A o \in Requests : req'[o].pc = "commit" => req[o].pc = "commit"
    BY <1>4, <1>8
  <2>2. a
    BY <2>1 DEF a
  <2>. QED
    BY <1>7, <1>8, <2>1, <2>2 DEF IInv, Locked
<1>15. Counted'
  <2>1. Superseded' \subseteq Superseded \union {s}
    BY <1>8 DEF CreateSession, Superseded
  <2>2. Late' \subseteq Late \ {r}
    BY <1>4, <1>8 DEF CreateSession, Late
  <2>3. CASE r \in Late
    <3>1. s \notin Superseded
      BY <1>1 DEF Superseded
    <3>2. /\ IsFiniteSet(Superseded \union {s})
          /\ Cardinality(Superseded \union {s}) = Cardinality(Superseded) + 1
      BY <3>1, CountedFinite, FS_AddElement
    <3>3. /\ IsFiniteSet(Late \ {r})
          /\ Cardinality(Late \ {r}) = Cardinality(Late) - 1
      BY <2>3, CountedFinite, FS_RemoveElement
    <3>4. /\ Cardinality(Superseded') <= Cardinality(Superseded) + 1
          /\ Cardinality(Late') <= Cardinality(Late) - 1
          /\ Cardinality(Superseded') \in Nat /\ Cardinality(Late') \in Nat
      <4>. HIDE DEF Superseded, Late
      <4>. QED
        BY <2>1, <2>2, <3>2, <3>3, FS_Subset, FS_CardinalityType
    <3>5. overlap' = overlap /\ overlap \in Nat
      BY DEF CreateSession, IInv, TypeOK
    <3>. QED
      BY <3>4, <3>5, CountedFinite DEF IInv, Counted
  <2>4. CASE r \notin Late
    <3>1. ~(req[r].basis < resets)
      BY <1>1, <2>4 DEF Late
    <3>2. Superseded' \subseteq Superseded /\ Late' \subseteq Late
      BY <1>7, <1>8, <2>2, <3>1 DEF CreateSession, Superseded
    <3>. QED
      BY <3>2, NoMoreSuperseded DEF CreateSession
  <2>. QED
    BY <2>3, <2>4
<1>. QED
  BY <1>9, <1>10, <1>11, <1>12, <1>13, <1>14, <1>15 DEF IInv

\* A cookie of a break-glass session is sent for an owner, or for no session.
LEMMA AnswerKeepsIInv == ASSUME IInv, NEW r \in Requests, Answer(r) PROVE IInv'
<1>1. PICK s \in Sessions : s = req[r].session
  BY DEF Answer, IInv, Asked
<1>. DEFINE g == [session[s] EXCEPT !.held = session[s].live]
<1>2. session' = [session EXCEPT ![s] = g] /\ req' = [req EXCEPT ![r] = Idle]
  BY <1>1 DEF Answer, IInv, TypeOK
<1>3. /\ g \in Session /\ g.live = session[s].live /\ g.method = session[s].method
      /\ g.basis = session[s].basis /\ g.doomed = session[s].doomed
      /\ g.after = session[s].after /\ g.role = session[s].role /\ g.held = session[s].live
  BY DEF Session, IInv, TypeOK
<1>. HIDE DEF g
<1>4. /\ session'[s] = g /\ \A u \in Sessions \ {s} : session'[u] = session[u]
      /\ req'[r] = Idle /\ \A q \in Requests \ {r} : req'[q] = req[q]
  BY <1>2 DEF IInv, TypeOK
<1>5. Idle.pc = "idle"
  BY DEF Idle
<1>6. TypeOK'
  <2>1. session' \in [Sessions -> Session] /\ req' \in [Requests -> Request]
    BY <1>2, <1>3, IdleType DEF IInv, TypeOK
  <2>2. \A q \in Requests : req'[q].pc = "answer" => req'[q].session # None
    BY <1>4, <1>5 DEF IInv, TypeOK
  <2>. QED
    BY <2>1, <2>2 DEF Answer, IInv, TypeOK
<1>7. Asked' /\ Known'
  BY <1>3, <1>4, <1>5 DEF IInv, Asked, Known
<1>8. Locked'
  BY <1>3, <1>4, <1>5 DEF Answer, IInv, Locked
<1>9. BreakGlassByOwners'
  <2>1. session[s].live /\ session[s].method = "break_glass" => session[s].role = "owner"
    BY <1>1 DEF Answer, Refused, IInv, Known
  <2>. QED
    BY <1>3, <1>4, <2>1 DEF IInv, BreakGlassByOwners
<1>10. Bounded'
  BY <1>4, <1>5, <1>6, NoNewReader DEF Answer
<1>11. Superseded' \subseteq Superseded /\ Late' \subseteq Late
  BY <1>3, <1>4, <1>5 DEF Answer, Superseded, Late
<1>12. Counted'
  BY <1>11, NoMoreSuperseded DEF Answer
<1>. QED
  BY <1>6, <1>7, <1>8, <1>9, <1>10, <1>12 DEF IInv

LEMMA EndKeepsIInv == ASSUME IInv, NEW s \in Sessions, End(s) PROVE IInv'
<1>1. TypeOK'
  BY NoSessionType DEF End, IInv, TypeOK
<1>2. \A u \in Sessions : session'[u] = session[u] \/ (~session'[u].live /\ ~session'[u].held)
  BY NoSessionType DEF End, IInv, TypeOK
<1>3. Asked' /\ Known' /\ BreakGlassByOwners' /\ Locked'
  BY <1>2 DEF End, IInv, Asked, Known, BreakGlassByOwners, Locked
<1>4. Bounded'
  BY SameReaders DEF End, IInv, Bounded
<1>5. Superseded' \subseteq Superseded /\ Late' \subseteq Late
  BY <1>2 DEF End, Superseded, Late
<1>6. Counted'
  BY <1>5, NoMoreSuperseded DEF End
<1>. QED
  BY <1>1, <1>3, <1>4, <1>6 DEF IInv

\* A step that leaves sessions, requests and resets alone.
LEMMA SameSessions ==
    ASSUME IInv, UNCHANGED <<resets, session, req, overlap>>
    PROVE  Asked' /\ Known' /\ BreakGlassByOwners' /\ Locked' /\ Counted'
<1>1. Asked' /\ Known' /\ BreakGlassByOwners' /\ Locked'
  BY DEF IInv, Asked, Known, BreakGlassByOwners, Locked
<1>2. Superseded' = Superseded /\ Late' = Late
  BY DEF Superseded, Late
<1>. QED
  BY <1>1, <1>2, NoMoreSuperseded

\* A step that writes tokens only, and keeps what the properties need of them.
LEMMA TokenMoves ==
    ASSUME IInv, NEW t \in Tokens, NEW g \in Token, token' = [token EXCEPT ![t] = g],
           \/ g.uses = 0
           \/ /\ g.uses = token[t].uses /\ g.rivals = token[t].rivals
              /\ token[t].state = "used" => g.state = "used",
           UNCHANGED <<account, role, password, resets, session, req, overlap>>
    PROVE  IInv'
<1>1. token'[t] = g /\ \A u \in Tokens \ {t} : token'[u] = token[u]
  BY DEF IInv, TypeOK
<1>2. TypeOK'
  BY DEF IInv, TypeOK
<1>3. Bounded'
  BY <1>1, SameReaders
<1>. QED
  BY <1>2, <1>3, SameSessions DEF IInv

LEMMA TokenStepsKeepIInv ==
    ASSUME IInv, NEW t \in Tokens, Forgot(t) \/ Expire(t) \/ Sweep(t) PROVE IInv'
<1>0. token[t] \in Token
  BY DEF IInv, TypeOK
<1>1. CASE Forgot(t)
  <2>. DEFINE g == [token[t] EXCEPT !.state = "issued"]
  <2>1. token' = [token EXCEPT ![t] = g]
    BY <1>1 DEF Forgot
  <2>2. g \in Token /\ g.uses = token[t].uses /\ g.rivals = token[t].rivals
    BY <1>0 DEF Token
  <2>. HIDE DEF g
  <2>. QED
    BY <1>1, <2>1, <2>2, TokenMoves DEF Forgot
<1>2. CASE Expire(t)
  <2>. DEFINE g == [token[t] EXCEPT !.expired = TRUE]
  <2>1. token' = [token EXCEPT ![t] = g]
    BY <1>2 DEF Expire
  <2>2. g \in Token /\ g.uses = token[t].uses /\ g.rivals = token[t].rivals
        /\ g.state = token[t].state
    BY <1>0 DEF Token
  <2>. HIDE DEF g
  <2>. QED
    BY <1>2, <2>1, <2>2, TokenMoves DEF Expire
<1>3. CASE Sweep(t)
  BY <1>3, NoTokenType, TokenMoves DEF Sweep
<1>. QED
  BY <1>1, <1>2, <1>3

LEMMA AdministerKeepsIInv ==
    ASSUME IInv, NEW state \in {"active", "disabled"}, NEW newRole \in Roles,
           Administer(state, newRole)
    PROVE  IInv'
<1>1. TypeOK'
  BY DEF Administer, IInv, TypeOK
<1>2. Bounded'
  BY SameReaders DEF Administer
<1>. QED
  BY <1>1, <1>2, SameSessions DEF Administer, IInv

LEMMA StepIInv == IInv /\ [Next]_vars => IInv'
<1>. SUFFICES ASSUME IInv, [Next]_vars PROVE IInv'
  OBVIOUS
<1>1. CASE UNCHANGED vars
  <2>1. TypeOK'
    BY <1>1 DEF vars, IInv, TypeOK
  <2>2. Bounded'
    BY <1>1, SameReaders DEF vars
  <2>. QED
    BY <1>1, <2>1, <2>2, SameSessions DEF vars, IInv
<1>2. ASSUME NEW r \in Requests, NEW p \in Passwords, SignUp(r, p) PROVE IInv'
  BY <1>2, SignUpKeepsIInv
<1>3. ASSUME NEW r \in Requests, NEW p \in Passwords, CommitReset(r, p) PROVE IInv'
  BY <1>3, CommitResetKeepsIInv
<1>4. ASSUME NEW r \in Requests, NEW p \in Passwords,
             NEW kind \in {"login", "break_glass"}, Verify(r, p, kind)
      PROVE  IInv'
  BY <1>4, VerifyKeepsIInv
<1>5. ASSUME NEW r \in Requests, NEW t \in Tokens, CheckReset(r, t) PROVE IInv'
  BY <1>5, CheckResetKeepsIInv
<1>6. ASSUME NEW r \in Requests, NEW s \in Sessions, CreateSession(r, s) PROVE IInv'
  BY <1>6, CreateSessionKeepsIInv
<1>7. ASSUME NEW r \in Requests, DeleteSessions(r) \/ Answer(r) \/ Fail(r) PROVE IInv'
  BY <1>7, DeleteSessionsKeepsIInv, AnswerKeepsIInv, FailKeepsIInv
<1>8. ASSUME NEW t \in Tokens, Forgot(t) \/ Expire(t) \/ Sweep(t) PROVE IInv'
  BY <1>8, TokenStepsKeepIInv
<1>9. ASSUME NEW s \in Sessions, End(s) PROVE IInv'
  BY <1>9, EndKeepsIInv
<1>10. ASSUME NEW state \in {"active", "disabled"}, NEW newRole \in Roles,
              Administer(state, newRole)
       PROVE  IInv'
  BY <1>10, AdministerKeepsIInv
<1>. QED
  BY <1>1, <1>2, <1>3, <1>4, <1>5, <1>6, <1>7, <1>8, <1>9, <1>10 DEF Next

LEMMA Inductive == Spec => []IInv
BY InitIInv, StepIInv, PTL DEF Spec

-----------------------------------------------------------------------------

\* The variables of LocalAuth keep their types.
THEOREM TypeCorrect == Spec => []TypeOK
<1>1. IInv => TypeOK
  BY DEF IInv
<1>. QED
  BY <1>1, Inductive, PTL

\* However many requests and resets there are, no more sessions outlive what a reset
\* replaced than there were logins it overlapped: what its delete finds it ends, and
\* what was let in by then has one session each to create (completePasswordReset).
THEOREM ResetEnds == Spec => []ResetEndsSessions
<1>1. IInv => ResetEndsSessions
  <2>. SUFFICES ASSUME IInv PROVE Cardinality(Superseded) <= overlap
    BY DEF ResetEndsSessions
  <2>1. Cardinality(Superseded) + Cardinality(Late) <= overlap /\ overlap \in Nat
    BY DEF IInv, Counted, TypeOK
  <2>. QED
    BY <2>1, CountedFinite
<1>. QED
  BY <1>1, Inductive, PTL

\* A token serves once, and once more for each request that had read it as unused
\* when it was first used (completePasswordReset).
THEOREM TokenUses == Spec => []UsedTwiceOnlyByRivals
<1>1. IInv => UsedTwiceOnlyByRivals
  <2>. SUFFICES ASSUME IInv, NEW t \in Tokens
                PROVE  token[t].uses <= 1 + Cardinality(token[t].rivals)
    BY DEF UsedTwiceOnlyByRivals
  <2>1. token[t].uses \in Nat /\ token[t].rivals \subseteq Requests
    BY MaxResetsAssumption DEF IInv, TypeOK, Token
  <2>2. Cardinality(token[t].rivals) \in Nat
    BY <2>1, RequestsAssumption, FS_Subset, FS_CardinalityType
  <2>3. token[t].uses > 0 =>
            token[t].uses + Cardinality(Readers(t)) <= 1 + Cardinality(token[t].rivals)
    BY DEF IInv, Bounded
  <2>4. Cardinality(Readers(t)) \in Nat
    BY ReadersFinite
  <2>. HIDE DEF Readers
  <2>. QED
    BY <2>1, <2>2, <2>3, <2>4
<1>. QED
  BY <1>1, Inductive, PTL

\* The cookie of a break-glass session is sent only for an account that was an
\* owner's when its password was verified (breakGlassLogin).
THEOREM BreakGlass == Spec => []BreakGlassByOwners
<1>1. IInv => BreakGlassByOwners
  BY DEF IInv
<1>. QED
  BY <1>1, Inductive, PTL

-----------------------------------------------------------------------------
-----------------------------------------------------------------------------
\* AuditChain and ProjectExport

\* A finite set has an element that no other precedes in a given order.
LEMMA FirstExists ==
    ASSUME NEW S, IsFiniteSet(S), S # {}, NEW R,
           \A x \in S : <<x, x>> \notin R,
           \A x, y, z \in S : <<x, y>> \in R /\ <<y, z>> \in R => <<x, z>> \in R
    PROVE  \E x \in S : \A y \in S : <<y, x>> \notin R
<1>. DEFINE below(x) == {y \in S : <<y, x>> \in R}
            T == {below(x) : x \in S}
<1>1. T \subseteq FiniteSubsetsOf(S) /\ T # {}
  <2>1. \A x \in S : below(x) \subseteq S /\ below(x) \in T
    OBVIOUS
  <2>2. \A b \in T : \E x \in S : b = below(x)
    OBVIOUS
  <2>. HIDE DEF below, T
  <2>. QED
    BY <2>1, <2>2, FS_FiniteSubsetsOfFinite
<1>2. PICK b \in T : \A c \in T : <<c, b>> \notin StrictSubsetOrdering(S)
  BY <1>1, FS_StrictSubsetOrderingWellFounded, WFMin
<1>3. PICK x \in S : b = below(x)
  OBVIOUS
<1>4. ASSUME NEW y \in S, <<y, x>> \in R PROVE FALSE
  <2>1. below(y) \subseteq below(x) /\ y \in below(x) /\ y \notin below(y)
    BY <1>4
  <2>2. <<below(y), below(x)>> \in StrictSubsetOrdering(S)
    BY <2>1 DEF StrictSubsetOrdering
  <2>. QED
    BY <1>2, <1>3, <2>2
<1>. QED
  BY <1>4

-----------------------------------------------------------------------------
\* AuditChain

\* What a writer has read is still the head but for the entries since.
HeadRead ==
    \A w \in Writers : tx[w].pc = "insert" =>
        \A e \in log : e \in tx[w].since \/ ~Before(tx[w].head, e.key)

FollowsAnother == \A e \in log : e.key.id # e.prev.id

ChainInv == ChainTypeOK /\ IsFiniteSet(log) /\ FollowsAnother /\ HeadRead /\ ForksComeFromClock

-----------------------------------------------------------------------------

LEMMA KeyType ==
    /\ NoKey \in EntryKey
    /\ \A k \in EntryKey : k.at \in Int /\ k.id \in Nat
<1>1. Ids \subseteq Nat /\ Skew \in Nat /\ MaxNow \in Nat
  BY IdsAssumption, ClockAssumption
<1>2. -Skew \in (-Skew)..MaxNow
  BY <1>1
<1>3. NoKey \in EntryKey
  BY <1>2 DEF NoKey, EntryKey
<1>4. ASSUME NEW k \in EntryKey PROVE k.at \in Int /\ k.id \in Nat
  <2>1. k.at \in (-Skew)..MaxNow
    BY DEF EntryKey
  <2>2. k.id \in Ids \union {0}
    BY DEF EntryKey
  <2>3. \A i \in Ids \union {0} : i \in Nat
    BY <1>1
  <2>4. k.id \in Nat
    BY <2>2, <2>3
  <2>. QED
    BY <1>1, <2>1, <2>4
<1>. QED
  BY <1>3, <1>4

LEMMA NoTxType == NoTx \in Tx /\ NoTx.pc = "idle"
<1>1. 1 \in 1..MaxAttempts /\ 0 \in 0..MaxNow
  BY AttemptsAssumption, ClockAssumption
<1>. QED
  BY <1>1, KeyType DEF NoTx, Tx

\* Entries are in one line.
LEMMA BeforeIsOrder ==
    ASSUME NEW k \in EntryKey, NEW m \in EntryKey, NEW n \in EntryKey
    PROVE  /\ ~Before(k, k)
           /\ Before(k, m) /\ Before(m, n) => Before(k, n)
           /\ k.id # m.id => Before(k, m) \/ Before(m, k)
BY KeyType DEF Before

\* The first row of the query comes after no other.
LEMMA HeadIsLast ==
    ASSUME ChainInv
    PROVE  Head \in EntryKey /\ \A e \in log : ~Before(Head, e.key)
<1>1. CASE log = {}
  BY <1>1, KeyType DEF Head
<1>2. CASE log # {}
  <2>. DEFINE K == {e.key : e \in log}
              R == {p \in K \X K : Before(p[2], p[1])}
  <2>1. K # {} /\ K \subseteq EntryKey
    BY <1>2 DEF ChainInv, ChainTypeOK, Entry
  <2>2. IsFiniteSet(K)
    <3>. DEFINE f == [e \in log |-> e.key]
    <3>1. f \in Surjection(log, K)
      BY DEF Surjection
    <3>. QED
      BY <3>1, FS_Surjection DEF ChainInv
  <2>3. \A x, y \in K : <<x, y>> \in R <=> Before(y, x)
    OBVIOUS
  <2>. HIDE DEF R, K
  <2>4. \E x \in K : \A y \in K : <<y, x>> \notin R
    <3>1. \A x \in K : <<x, x>> \notin R
      BY <2>1, <2>3, BeforeIsOrder
    <3>2. \A x, y, z \in K : <<x, y>> \in R /\ <<y, z>> \in R => <<x, z>> \in R
      BY <2>1, <2>3, BeforeIsOrder
    <3>. QED
      BY <2>1, <2>2, <3>1, <3>2, FirstExists
  <2>5. \E k \in K : \A e \in log : ~Before(k, e.key)
    BY <2>3, <2>4 DEF K
  <2>6. Head = CHOOSE k \in K : \A e \in log : ~Before(k, e.key)
    BY <1>2 DEF Head, K
  <2>. QED
    BY <2>1, <2>5, <2>6
<1>. QED
  BY <1>1, <1>2

LEMMA ChainStarts == ChainInit => ChainInv
BY NoTxType, FS_EmptySet, ClockAssumption DEF ChainInit, ChainInv, ChainTypeOK, FollowsAnother, HeadRead,
      ForksComeFromClock

\* An entry that is not excluded forks no more than the clock lets it.
LEMMA CommitKeeps ==
    ASSUME ChainInv, NEW w \in Writers, NEW t \in (-Skew)..MaxNow, NEW id \in Ids,
           NEW held \in BOOLEAN, Commit(w, t, id, held)
    PROVE  ChainInv'
<1>. DEFINE key == [at |-> t, id |-> id]
            new == [key |-> key, prev |-> tx[w].head, held |-> held]
<1>1. /\ tx[w].pc = "insert" /\ ~Excluded(w, key)
      /\ log' = log \union {new} /\ now' = now
      /\ tx' = [v \in Writers |-> IF v = w THEN NoTx
                                  ELSE IF tx[v].pc = "insert"
                                  THEN [tx[v] EXCEPT !.since = @ \union {new}]
                                  ELSE tx[v]]
  BY DEF Commit
<1>2. key \in EntryKey /\ key.id = id
  BY DEF EntryKey
<1>3. new \in Entry /\ new.key = key /\ new.prev = tx[w].head
  <2>1. tx[w] \in Tx
    BY DEF ChainInv, ChainTypeOK
  <2>2. tx[w].head \in EntryKey
    BY <2>1 DEF Tx
  <2>. QED
    BY <1>2, <2>2 DEF Entry
<1>4. id # tx[w].head.id /\ \A e \in log : e.key.id # id
  BY DEF Commit, FreshIds
<1>. HIDE DEF key, new
<1>5. ASSUME NEW v \in Writers, v # w
      PROVE  /\ tx'[v].pc = tx[v].pc /\ tx'[v].attempt = tx[v].attempt /\ tx'[v].began = tx[v].began
             /\ tx'[v].head = tx[v].head
             /\ tx'[v].since = IF tx[v].pc = "insert" THEN tx[v].since \union {new} ELSE tx[v].since
  <2>1. tx'[v] = IF tx[v].pc = "insert" THEN [tx[v] EXCEPT !.since = @ \union {new}] ELSE tx[v]
    BY <1>1, <1>5
  <2>. QED
    BY <2>1 DEF ChainInv, ChainTypeOK
<1>6. tx'[w].pc = "idle"
  BY <1>1, NoTxType
<1>7. ChainTypeOK'
  <2>1. \A e, f \in log' : e.key.id = f.key.id => e = f
    BY <1>1, <1>2, <1>3, <1>4 DEF ChainInv, ChainTypeOK
  <2>2. ASSUME NEW v \in Writers, v # w, tx[v].pc = "insert"
        PROVE  [tx[v] EXCEPT !.since = @ \union {new}] \in Tx
    BY <1>3 DEF ChainInv, ChainTypeOK, Tx
  <2>3. tx' \in [Writers -> Tx]
    BY <1>1, NoTxType, <2>2 DEF ChainInv, ChainTypeOK
  <2>. QED
    BY <1>1, <1>3, <2>1, <2>3 DEF ChainInv, ChainTypeOK
<1>8. IsFiniteSet(log')
  BY <1>1, FS_AddElement DEF ChainInv
<1>9. FollowsAnother'
  BY <1>1, <1>2, <1>3, <1>4 DEF ChainInv, FollowsAnother
<1>10. HeadRead'
  BY <1>1, <1>5, <1>6 DEF ChainInv, HeadRead
<1>11. ASSUME NEW e \in log, e.prev = new.prev
       PROVE  Before(new.key, new.prev) \/ Before(e.key, e.prev)
  <2>. DEFINE head == tx[w].head
  <2>1. head \in EntryKey /\ e.key \in EntryKey /\ e.prev = head /\ e.key.id # head.id
    BY <1>3, <1>11 DEF ChainInv, ChainTypeOK, Tx, Entry, FollowsAnother
  <2>2. Before(e.key, head) \/ Before(head, e.key)
    BY <2>1, BeforeIsOrder
  <2>3. Before(key, head) \/ Before(head, key)
    BY <1>2, <1>4, <2>1, BeforeIsOrder
  <2>4. CASE e \in tx[w].since
    <3>1. ~(Before(head, e.key) /\ Before(head, key))
      BY <1>1, <2>1, <2>4 DEF Excluded
    <3>. QED
      BY <1>3, <2>1, <2>2, <2>3, <3>1
  <2>5. CASE e \notin tx[w].since
    <3>1. ~Before(head, e.key)
      BY <1>1, <2>5 DEF ChainInv, HeadRead
    <3>. QED
      BY <2>1, <2>2, <3>1
  <2>. QED
    BY <2>4, <2>5
<1>12. ForksComeFromClock'
  BY <1>1, <1>11 DEF ChainInv, ForksComeFromClock
<1>. QED
  BY <1>7, <1>8, <1>9, <1>10, <1>12 DEF ChainInv

LEMMA ChainSteps == ChainInv /\ [ChainNext]_chainVars => ChainInv'
<1>. SUFFICES ASSUME ChainInv, [ChainNext]_chainVars PROVE ChainInv'
  OBVIOUS
<1>1. NoTx \in Tx /\ NoTx.pc = "idle"
  BY NoTxType
\* The table as it is, one transaction in another state.
<1>2. ASSUME NEW w \in Writers, NEW q \in Tx, tx' = [tx EXCEPT ![w] = q],
             q.pc = "insert" => \A e \in log : ~Before(q.head, e.key),
             UNCHANGED <<log, now>>
      PROVE  ChainInv'
  <2>1. tx' \in [Writers -> Tx] /\ tx'[w] = q /\ \A v \in Writers \ {w} : tx'[v] = tx[v]
    BY <1>2 DEF ChainInv, ChainTypeOK
  <2>2. ChainTypeOK'
    BY <1>2, <2>1 DEF ChainInv, ChainTypeOK
  <2>3. HeadRead'
    BY <1>2, <2>1 DEF ChainInv, HeadRead
  <2>. QED
    BY <1>2, <2>2, <2>3 DEF ChainInv, FollowsAnother, ForksComeFromClock
<1>3. ASSUME NEW w \in Writers, Call(w) PROVE ChainInv'
  <2>. DEFINE q == [tx[w] EXCEPT !.pc = "begin"]
  <2>1. tx' = [tx EXCEPT ![w] = q] /\ UNCHANGED <<log, now>>
    BY <1>3 DEF Call, ChainInv, ChainTypeOK
  <2>2. q \in Tx /\ q.pc # "insert"
    BY DEF ChainInv, ChainTypeOK, Tx
  <2>. QED
    BY <1>2, <2>1, <2>2
<1>4. ASSUME NEW w \in Writers, Begin(w) PROVE ChainInv'
  <2>. DEFINE q == [tx[w] EXCEPT !.pc = "read", !.began = now]
  <2>1. tx' = [tx EXCEPT ![w] = q] /\ UNCHANGED <<log, now>>
    BY <1>4 DEF Begin, ChainInv, ChainTypeOK
  <2>2. q \in Tx /\ q.pc # "insert"
    BY DEF ChainInv, ChainTypeOK, Tx
  <2>. QED
    BY <1>2, <2>1, <2>2
<1>5. ASSUME NEW w \in Writers, Read(w) PROVE ChainInv'
  <2>. DEFINE h == Head
              q == [tx[w] EXCEPT !.pc = "insert", !.head = h]
  <2>1. tx' = [tx EXCEPT ![w] = q] /\ UNCHANGED <<log, now>>
    BY <1>5 DEF Read, ChainInv, ChainTypeOK
  <2>2. h \in EntryKey /\ \A e \in log : ~Before(h, e.key)
    BY HeadIsLast
  <2>. HIDE DEF h
  <2>3. q \in Tx /\ q.head = h
    BY <2>2 DEF ChainInv, ChainTypeOK, Tx
  <2>. HIDE DEF q
  <2>. QED
    BY <1>2, <2>1, <2>2, <2>3
<1>6. ASSUME NEW w \in Writers, Abort(w) \/ GiveUp(w) PROVE ChainInv'
  <2>. DEFINE n == tx[w].attempt + 1
              again == [NoTx EXCEPT !.pc = "begin", !.attempt = n]
  <2>1. PICK q \in {again, NoTx} :
           /\ tx' = [tx EXCEPT ![w] = q] /\ UNCHANGED <<log, now>>
           /\ q = again => tx[w].attempt < MaxAttempts \/ q = NoTx
    BY <1>6 DEF Abort, GiveUp
  <2>2. tx[w].attempt < MaxAttempts => n \in 1..MaxAttempts
    BY AttemptsAssumption DEF ChainInv, ChainTypeOK, Tx
  <2>. HIDE DEF n
  <2>3. tx[w].attempt < MaxAttempts => again \in Tx
    BY <1>1, <2>2 DEF Tx
  <2>4. again.pc # "insert"
    BY DEF NoTx
  <2>. HIDE DEF again
  <2>. QED
    BY <1>1, <1>2, <2>1, <2>3, <2>4
<1>7. ASSUME NEW cutoff \in 0..MaxNow, Retain(cutoff) PROVE ChainInv'
  <2>1. log' \subseteq log /\ UNCHANGED <<now, tx>>
    BY <1>7 DEF Retain
  <2>2. IsFiniteSet(log')
    BY <2>1, FS_Subset DEF ChainInv
  <2>. QED
    BY <2>1, <2>2 DEF ChainInv, ChainTypeOK, FollowsAnother, HeadRead, ForksComeFromClock
<1>8. CASE ChainTick
  <2>1. now' \in 0..MaxNow
    BY <1>8, ClockAssumption DEF ChainTick, Passes, ChainInv, ChainTypeOK
  <2>. QED
    BY <1>8, <2>1 DEF ChainTick, Passes, ChainInv, ChainTypeOK, FollowsAnother, HeadRead, ForksComeFromClock
<1>9. CASE UNCHANGED chainVars
  BY <1>9 DEF chainVars, ChainInv, ChainTypeOK, FollowsAnother, HeadRead, ForksComeFromClock
<1>. QED
  BY <1>3, <1>4, <1>5, <1>6, <1>7, <1>8, <1>9, CommitKeeps DEF ChainNext

\* The entries and the transactions keep their types, and the table is finite.
THEOREM ChainTypeCorrect == ChainSpec => [](ChainTypeOK /\ IsFiniteSet(log))
<1>1. ChainInv => ChainTypeOK /\ IsFiniteSet(log)
  BY DEF ChainInv
<1>. QED
  BY ChainStarts, ChainSteps, <1>1, PTL DEF ChainSpec

\* Concurrent calls of log() never give one entry two successors: only a clock
\* that lags, or one millisecond, does.
THEOREM NoOtherForks == ChainSpec => []ForksComeFromClock
<1>1. ChainInv => ForksComeFromClock
  BY DEF ChainInv
<1>. QED
  BY ChainStarts, ChainSteps, <1>1, PTL DEF ChainSpec

-----------------------------------------------------------------------------
\* ProjectExport

Reads == reader.pc = "read"

\* Nothing is from the future.
Past ==
    /\ \A p \in Projects : at[p] <= now
    /\ \A k \in reader.cursor : k.at <= now

\* What nobody touched has been read if the cursor is past it, and only then.
Untouched ==
    /\ Reads => \A p \in kept \ changed :
          p \in matching /\ written[p] = IF Beyond(p) THEN 0 ELSE 1
    /\ UntouchedOnce

\* What has been read and not been written by a lagging clock stays behind the cursor, or is gone.
Behind ==
    /\ Reads => \A p \in Projects \ lagged : written[p] # 0 =>
          /\ written[p] = 1
          /\ IF p \in live THEN ~Beyond(p) ELSE p \in changed
    /\ TwiceOnlyByClock

\* An export reads what matched at its start, or was changed since.
Limited ==
    /\ reader.pc = "idle" => reader.kind = "list"
    /\ reader.kind = "export" =>
          /\ Cardinality(kept) <= ExportLimit
          /\ {p \in Projects : written[p] > 0} \subseteq kept \union changed
          /\ Reads => matching \subseteq kept \union changed

ListInv == ListTypeOK /\ Past /\ Untouched /\ Behind /\ Limited

-----------------------------------------------------------------------------

LEMMA ListKeyType ==
    /\ IsFiniteSet(Projects)
    /\ \A p \in Projects : p \in Nat
    /\ \A k \in ProjectKey : k.at \in Nat /\ k.id \in Nat
<1>1. MaxNow \in Nat /\ IsFiniteSet(Projects)
  BY ProjectsAssumption, ClockAssumption
<1>2. \A p \in Projects : p \in Nat
  BY ProjectsAssumption
<1>3. ASSUME NEW k \in ProjectKey PROVE k.at \in Nat /\ k.id \in Nat
  <2>1. k.at \in 0..MaxNow
    BY DEF ProjectKey
  <2>2. k.id \in Projects
    BY DEF ProjectKey
  <2>3. k.id \in Nat
    BY <1>2, <2>2
  <2>. QED
    BY <1>1, <2>1, <2>3
<1>. QED
  BY <1>1, <1>2, <1>3

\* Projects are in one line.
LEMMA PrecedesIsOrder ==
    ASSUME NEW k \in ProjectKey, NEW m \in ProjectKey, NEW n \in ProjectKey
    PROVE  /\ ~Precedes(k, k)
           /\ Precedes(k, m) /\ Precedes(m, n) => Precedes(k, n)
           /\ k.id # m.id => Precedes(k, m) \/ Precedes(m, k)
BY ListKeyType DEF Precedes

LEMMA KeyOfType ==
    ASSUME ListTypeOK, NEW p \in Projects
    PROVE  KeyOf(p) \in ProjectKey /\ KeyOf(p).id = p /\ KeyOf(p).at = at[p]
BY DEF ListTypeOK, KeyOf, ProjectKey

\* p is read before q.
Earlier(p, q) == Precedes(KeyOf(p), KeyOf(q))

LEMMA EarlierIsOrder ==
    ASSUME ListTypeOK, NEW p \in Projects, NEW q \in Projects, NEW r \in Projects
    PROVE  /\ ~Earlier(p, p)
           /\ Earlier(p, q) /\ Earlier(q, r) => Earlier(p, r)
           /\ p # q => Earlier(p, q) \/ Earlier(q, p)
BY KeyOfType, PrecedesIsOrder DEF Earlier

\* A set of projects has a first one and a last one.
LEMMA Ends ==
    ASSUME ListTypeOK, NEW S \in SUBSET Projects, S # {}
    PROVE  /\ \E p \in S : \A q \in S : ~Earlier(q, p)
           /\ \E p \in S : \A q \in S : ~Earlier(p, q)
<1>1. IsFiniteSet(S)
  BY ListKeyType, FS_Subset
<1>2. \E p \in S : \A q \in S : ~Earlier(q, p)
  <2>. DEFINE R == {x \in S \X S : Earlier(x[1], x[2])}
  <2>1. \A x, y \in S : <<x, y>> \in R <=> Earlier(x, y)
    OBVIOUS
  <2>. HIDE DEF R
  <2>2. \A x \in S : <<x, x>> \notin R
    BY <2>1, EarlierIsOrder
  <2>3. \A x, y, z \in S : <<x, y>> \in R /\ <<y, z>> \in R => <<x, z>> \in R
    BY <2>1, EarlierIsOrder
  <2>4. \E x \in S : \A y \in S : <<y, x>> \notin R
    BY <1>1, <2>2, <2>3, FirstExists
  <2>. QED
    BY <2>1, <2>4
<1>3. \E p \in S : \A q \in S : ~Earlier(p, q)
  <2>. DEFINE R == {x \in S \X S : Earlier(x[2], x[1])}
  <2>1. \A x, y \in S : <<x, y>> \in R <=> Earlier(y, x)
    OBVIOUS
  <2>. HIDE DEF R
  <2>2. \A x \in S : <<x, x>> \notin R
    BY <2>1, EarlierIsOrder
  <2>3. \A x, y, z \in S : <<x, y>> \in R /\ <<y, z>> \in R => <<x, z>> \in R
    BY <2>1, EarlierIsOrder
  <2>4. \E x \in S : \A y \in S : <<y, x>> \notin R
    BY <1>1, <2>2, <2>3, FirstExists
  <2>. QED
    BY <2>1, <2>4
<1>. QED
  BY <1>2, <1>3

Front(p) == {q \in Rest : Earlier(q, p)}

\* What a query returns: nothing is skipped, something is there, and it is all
\* that is left when the reader takes it for the last one.
LEMMA BatchFacts ==
    ASSUME ListTypeOK
    PROVE  /\ Rest \subseteq Projects /\ Batch \subseteq Rest
           /\ \A p \in Batch, q \in Rest : Earlier(q, p) => q \in Batch
           /\ Cardinality(Batch) < BatchSize => Batch = Rest
           /\ Cardinality(Rest) <= BatchSize => Batch = Rest
           /\ Rest # {} => Batch # {}
<1>. DEFINE B == Batch
            S == Rest
<1>1. S \subseteq Projects /\ B = {p \in S : Cardinality(Front(p)) < BatchSize}
  <2>1. S \subseteq Projects
    BY DEF Rest, ListTypeOK
  <2>2. B = {p \in S : Cardinality(Front(p)) < BatchSize}
    BY DEF Batch, Front, Earlier
  <2>. QED
    BY <2>1, <2>2
<1>2. IsFiniteSet(S)
  BY <1>1, ListKeyType, FS_Subset
<1>3. IsFiniteSet(B)
  BY <1>1, <1>2, FS_Subset
<1>4. BatchSize \in Nat /\ BatchSize > 0
  BY SizesAssumption
<1>5. ASSUME NEW p \in S
      PROVE  Front(p) \subseteq S \ {p} /\ IsFiniteSet(Front(p)) /\ Cardinality(Front(p)) \in Nat
  <2>1. Front(p) \subseteq S \ {p}
    BY <1>1, EarlierIsOrder DEF Front
  <2>. QED
    BY <1>2, <2>1, FS_Subset, FS_CardinalityType
<1>. HIDE DEF B, S
<1>6. ASSUME NEW p \in B, NEW q \in S, Earlier(q, p) PROVE q \in B
  <2>1. p \in S
    BY <1>1
  <2>2. Front(q) \subseteq Front(p)
    BY <1>1, <1>6, <2>1, EarlierIsOrder DEF Front, S
  <2>3. Cardinality(Front(q)) <= Cardinality(Front(p))
    BY <1>5, <2>1, <2>2, FS_Subset
  <2>. QED
    BY <1>1, <1>4, <1>5, <1>6, <2>1, <2>3
<1>7. ASSUME Cardinality(B) < BatchSize PROVE B = S
  <2>. SUFFICES ASSUME S \ B # {} PROVE FALSE
    BY <1>1
  <2>1. PICK p \in S \ B : \A q \in S \ B : ~Earlier(q, p)
    BY <1>1, Ends
  <2>2. Front(p) \subseteq B
    BY <2>1 DEF Front, S
  <2>3. Cardinality(Front(p)) <= Cardinality(B) /\ Cardinality(B) \in Nat
    BY <1>3, <2>2, FS_Subset, FS_CardinalityType
  <2>. QED
    BY <1>1, <1>4, <1>5, <1>7, <2>1, <2>3
<1>8. ASSUME Cardinality(S) <= BatchSize PROVE B = S
  <2>. SUFFICES ASSUME NEW p \in S PROVE p \in B
    BY <1>1
  <2>1. /\ Cardinality(S \ {p}) = Cardinality(S) - 1 /\ IsFiniteSet(S \ {p})
        /\ Cardinality(S) \in Nat
    BY <1>2, FS_RemoveElement, FS_CardinalityType
  <2>2. Cardinality(Front(p)) <= Cardinality(S \ {p})
    BY <1>5, <2>1, FS_Subset
  <2>. QED
    BY <1>1, <1>4, <1>5, <1>8, <2>1, <2>2
<1>9. ASSUME S # {} PROVE B # {}
  <2>1. PICK p \in S : \A q \in S : ~Earlier(q, p)
    BY <1>1, <1>9, Ends
  <2>2. Front(p) = {}
    BY <2>1 DEF Front, S
  <2>. QED
    BY <1>1, <1>4, <2>1, <2>2, FS_EmptySet
<1>. QED
  BY <1>1, <1>6, <1>7, <1>8, <1>9 DEF B, S

LEMMA LastIsLast ==
    ASSUME ListTypeOK, NEW S \in SUBSET Projects, S # {}
    PROVE  LastOf(S) \in S /\ \A q \in S : ~Earlier(LastOf(S), q)
<1>1. \E p \in S : \A q \in S : ~Precedes(KeyOf(p), KeyOf(q))
  BY Ends DEF Earlier
<1>. QED
  BY <1>1 DEF LastOf, Earlier

\* What Beyond says of the reader's next place.
LEMMA NextPlace ==
    ASSUME ListTypeOK, NEW S \in SUBSET Rest, S # {},
           \A p \in S, q \in Rest : Earlier(q, p) => q \in S,
           at' = at, reader'.cursor = {KeyOf(LastOf(S))}
    PROVE  /\ \A p \in Projects : Beyond(p)' => Beyond(p)
           /\ \A p \in S : ~Beyond(p)'
           /\ \A p \in Rest \ S : Beyond(p)'
<1>. DEFINE last == LastOf(S)
<1>1. Rest \subseteq Projects /\ S \in SUBSET Projects
  BY BatchFacts
<1>2. last \in S /\ \A q \in S : ~Earlier(last, q)
  BY <1>1, LastIsLast
<1>3. last \in Projects /\ Beyond(last)
  BY <1>1, <1>2 DEF Rest
<1>4. \A p \in Projects : Beyond(p)' <=> Earlier(last, p)
  BY DEF Beyond, Earlier, KeyOf
<1>. HIDE DEF last
<1>5. ASSUME NEW p \in Projects, Earlier(last, p) PROVE Beyond(p)
  <2>. SUFFICES ASSUME NEW k \in reader.cursor PROVE Precedes(k, KeyOf(p))
    BY DEF Beyond
  <2>1. k \in ProjectKey /\ KeyOf(last) \in ProjectKey /\ KeyOf(p) \in ProjectKey
    BY <1>3, KeyOfType DEF ListTypeOK, Reader
  <2>2. Precedes(k, KeyOf(last)) /\ Precedes(KeyOf(last), KeyOf(p))
    BY <1>3, <1>5 DEF Beyond, Earlier
  <2>. QED
    BY <2>1, <2>2, PrecedesIsOrder
<1>6. ASSUME NEW p \in Rest \ S PROVE Earlier(last, p)
  <2>1. ~Earlier(p, last) /\ p # last
    BY <1>2
  <2>. QED
    BY <1>1, <1>3, <2>1, EarlierIsOrder
<1>. QED
  BY <1>1, <1>2, <1>4, <1>5, <1>6

LEMMA ListStarts == ListInit => ListInv
<1>. SUFFICES ASSUME ListInit PROVE ListInv
  OBVIOUS
<1>1. MaxNow \in Nat
  BY ClockAssumption
<1>2. NoReader \in Reader /\ NoReader.pc = "idle" /\ NoReader.kind = "list"
      /\ NoReader.cursor = {}
  BY DEF NoReader, Reader
<1>. QED
  BY <1>1, <1>2 DEF ListInit, ListInv, ListTypeOK, Past, Untouched, UntouchedOnce, Reads,
                    Behind, TwiceOnlyByClock, Limited

\* A reader begins with nothing read and nothing changed.
LEMMA BeginKeeps ==
    ASSUME ListInv, Export \/ List
    PROVE  ListInv'
<1>. PICK kind \in {"export", "list"} :
        Begun(kind) /\ (kind = "export" => Cardinality(matching) <= ExportLimit)
  BY DEF Export, CheckedExport, List
<1>1. UNCHANGED <<at, live, matching, now>>
  BY DEF Export, List
<1>. DEFINE R == [pc |-> "read", kind |-> kind, cursor |-> {}]
<1>2. /\ reader' = R /\ written' = [p \in Projects |-> 0]
      /\ changed' = {} /\ kept' = matching /\ lagged' = {}
  BY DEF Begun
<1>3. R \in Reader /\ R.pc = "read" /\ R.kind = kind /\ R.cursor = {}
  BY DEF Reader
<1>. HIDE DEF R
<1>4. ListTypeOK'
  BY <1>1, <1>2, <1>3 DEF ListInv, ListTypeOK
<1>5. Past'
  BY <1>1, <1>2, <1>3 DEF ListInv, Past
<1>6. \A p \in Projects : Beyond(p)' /\ written'[p] = 0
  BY <1>2, <1>3 DEF Beyond
<1>7. Untouched'
  BY <1>2, <1>3, <1>1, <1>6 DEF ListInv, ListTypeOK, Untouched, Reads, UntouchedOnce
<1>8. Behind'
  BY <1>2, <1>3, <1>6 DEF Behind, Reads, TwiceOnlyByClock
<1>9. Limited'
  BY <1>1, <1>2, <1>3, <1>6 DEF Limited, Reads
<1>. QED
  BY <1>4, <1>5, <1>7, <1>8, <1>9 DEF ListInv

LEMMA LeaveKeeps ==
    ASSUME ListInv, Leave
    PROVE  ListInv'
<1>1. NoReader \in Reader /\ NoReader.pc = "idle" /\ NoReader.kind = "list"
      /\ NoReader.cursor = {}
  BY DEF NoReader, Reader
<1>. QED
  BY <1>1 DEF Leave, ListInv, ListTypeOK, Past, Untouched, UntouchedOnce, Reads,
              Behind, TwiceOnlyByClock, Limited

\* One batch.
LEMMA FetchKeeps ==
    ASSUME ListInv, Fetch
    PROVE  ListInv'
<1>. DEFINE B == Batch
            over == IF reader.kind = "export" THEN Cardinality(B) < BatchSize
                    ELSE Cardinality(Rest) <= BatchSize
            pc == IF over THEN "done" ELSE "read"
            cursor == IF over THEN reader.cursor ELSE {KeyOf(LastOf(B))}
<1>1. /\ reader.pc = "read" /\ reader' = [reader EXCEPT !.pc = pc, !.cursor = cursor]
      /\ written' = [p \in Projects |-> IF p \in B /\ written[p] < 2 THEN written[p] + 1 ELSE written[p]]
      /\ UNCHANGED <<at, live, matching, now, changed, kept, lagged>>
  BY DEF Fetch
<1>2. ListTypeOK /\ reader \in Reader /\ written \in [Projects -> 0..2]
      /\ matching \subseteq Projects /\ matching \subseteq live
  BY DEF ListInv, ListTypeOK
<1>3. /\ Rest \subseteq matching /\ B \subseteq Rest
      /\ \A p \in B : Beyond(p)
      /\ \A p \in matching : Beyond(p) => p \in Rest
  BY <1>2, BatchFacts DEF Rest
<1>4. over => B = Rest
  BY <1>2, BatchFacts
<1>5. ~over => B # {}
  <2>1. BatchSize \in Nat /\ BatchSize > 0
    BY SizesAssumption
  <2>2. IsFiniteSet(Rest) /\ (B = {} => Cardinality(B) = 0)
        /\ (Rest = {} => Cardinality(Rest) = 0)
    BY <1>2, <1>3, ListKeyType, FS_Subset, FS_EmptySet
  <2>. QED
    BY <1>2, <2>1, <2>2, BatchFacts
<1>6. ~over => LastOf(B) \in B
  BY <1>2, <1>3, <1>5, LastIsLast
<1>7. ~over => /\ \A p \in Projects : Beyond(p)' => Beyond(p)
               /\ \A p \in B : ~Beyond(p)'
               /\ \A p \in Rest \ B : Beyond(p)'
  <2>. SUFFICES ASSUME ~over PROVE /\ \A p \in Projects : Beyond(p)' => Beyond(p)
                                   /\ \A p \in B : ~Beyond(p)'
                                   /\ \A p \in Rest \ B : Beyond(p)'
    OBVIOUS
  <2>1. reader'.cursor = {KeyOf(LastOf(B))}
    BY <1>1, <1>2 DEF Reader
  <2>2. at' = at /\ B \in SUBSET Rest
    BY <1>1, <1>3
  <2>. QED
    BY <1>2, <1>5, <2>1, <2>2, BatchFacts, NextPlace
<1>8. \A k \in cursor : k \in ProjectKey /\ (reader.pc = "read" => k.at <= now)
  <2>1. CASE over
    BY <2>1, <1>2 DEF Reader, ListInv, Past
  <2>2. CASE ~over
    BY <1>2, <1>3, <1>6, <2>2, KeyOfType DEF ListInv, Past
  <2>. QED
    BY <2>1, <2>2
<1>9. cursor \in {{}} \union {{k} : k \in ProjectKey}
  <2>1. CASE over
    BY <2>1, <1>2 DEF Reader
  <2>2. CASE ~over
    BY <1>2, <1>3, <1>6, <2>2, KeyOfType
  <2>. QED
    BY <2>1, <2>2
<1>. HIDE DEF over, cursor
<1>10. pc \in {"read", "done"} /\ (pc = "read" <=> ~over)
  OBVIOUS
<1>. HIDE DEF pc
<1>11. reader' \in Reader /\ reader'.pc = pc /\ reader'.cursor = cursor /\ reader'.kind = reader.kind
  BY <1>1, <1>2, <1>9, <1>10 DEF Reader
<1>12. \A p \in Projects : /\ written'[p] \in 0..2
                           /\ p \in B /\ written[p] = 0 => written'[p] = 1
                           /\ p \notin B => written'[p] = written[p]
                           /\ written'[p] > 1 => written[p] # 0
  BY <1>1, <1>2
<1>. HIDE DEF B
<1>13. ListTypeOK'
  BY <1>1, <1>2, <1>11, <1>12 DEF ListTypeOK
<1>14. Past'
  BY <1>1, <1>8, <1>11 DEF ListInv, Past
<1>15. Untouched'
  <2>1. ASSUME NEW p \in kept \ changed
        PROVE  /\ p \in matching /\ over => written'[p] = 1
               /\ ~over => written'[p] = IF Beyond(p)' THEN 0 ELSE 1
    BY <1>1, <1>2, <1>3, <1>4, <1>7, <1>12 DEF ListInv, Untouched, Reads
  <2>2. \A p \in kept \ changed : p \in matching
    BY <1>1 DEF ListInv, Untouched, Reads
  <2>. QED
    BY <1>1, <1>10, <1>11, <2>1, <2>2 DEF Untouched, Reads, UntouchedOnce
<1>16. Behind'
  <2>1. ASSUME NEW p \in Projects \ lagged, written'[p] # 0
        PROVE  written'[p] = 1 /\ (~over => IF p \in live THEN ~Beyond(p)' ELSE p \in changed)
    BY <1>1, <1>2, <1>3, <1>7, <1>12, <2>1 DEF ListInv, Behind, Reads
  <2>. QED
    BY <1>1, <1>10, <1>11, <2>1 DEF Behind, Reads, TwiceOnlyByClock
<1>17. Limited'
  <2>1. \A p \in Projects : written'[p] > 0 => written[p] > 0 \/ p \in matching
    BY <1>2, <1>3, <1>12
  <2>. QED
    BY <1>1, <1>10, <1>11, <2>1 DEF ListInv, Limited, Reads
<1>. QED
  BY <1>13, <1>14, <1>15, <1>16, <1>17 DEF ListInv

\* A write moves a project in front of the reader, unless its clock lags.
LEMMA WrittenKeeps ==
    ASSUME ListInv, NEW p \in Projects, NEW t \in 0..MaxNow, NEW match \in BOOLEAN,
           Create(p, t, match) \/ Update(p, t, match)
    PROVE  ListInv'
<1>1. /\ t <= now /\ Written(p, t, match)
      /\ p \in live \/ (p \notin live /\ p \notin changed)
  BY DEF Create, Update, Written
<1>2. /\ at' = [at EXCEPT ![p] = t] /\ live' = live \union {p}
      /\ matching' = IF match THEN matching \union {p} ELSE matching \ {p}
      /\ UNCHANGED <<now, reader, written>>
      /\ Reads => /\ changed' = changed \union {p} /\ kept' = kept \intersect matching'
                  /\ lagged' = IF t < now THEN lagged \union {p} ELSE lagged
      /\ ~Reads => UNCHANGED <<changed, kept, lagged>>
  BY <1>1 DEF Written, Reads
<1>3. ListTypeOK /\ now \in Nat /\ t \in Nat /\ at \in [Projects -> 0..MaxNow]
  BY ClockAssumption DEF ListInv, ListTypeOK
<1>4. ListTypeOK'
  BY <1>2 DEF ListInv, ListTypeOK, Reads
<1>5. at'[p] = t /\ \A q \in Projects \ {p} : at'[q] = at[q]
  BY <1>2, <1>3
<1>6. Past'
  BY <1>1, <1>2, <1>5 DEF ListInv, Past
<1>7. \A q \in Projects \ {p} : Beyond(q)' <=> Beyond(q)
  BY <1>2, <1>5 DEF Beyond, KeyOf
<1>8. ASSUME Reads, t = now, ~Beyond(p) PROVE ~Beyond(p)'
  <2>1. PICK k \in reader.cursor : ~Precedes(k, KeyOf(p))
    BY <1>8 DEF Beyond
  <2>2. k \in ProjectKey /\ k.at <= now /\ at[p] <= now
    BY <1>3 DEF ListInv, Past, ListTypeOK, Reader
  <2>3. k.at \in Nat /\ k.id \in Nat /\ p \in Nat /\ at[p] \in Nat
    BY <1>3, <2>2, ListKeyType
  <2>4. ~(k.at > at[p]) /\ ~(k.at = at[p] /\ k.id > p)
    BY <2>1 DEF Precedes, KeyOf
  <2>5. ~(k.at > t) /\ ~(k.at = t /\ k.id > p)
    BY <1>8, <1>3, <2>2, <2>3, <2>4
  <2>6. k \in reader'.cursor /\ ~Precedes(k, KeyOf(p)')
    BY <1>2, <1>5, <2>5 DEF Precedes, KeyOf
  <2>. QED
    BY <2>6 DEF Beyond
<1>9. Untouched'
  <2>1. CASE ~Reads
    BY <1>2, <2>1 DEF ListInv, Untouched, Reads, UntouchedOnce
  <2>2. CASE Reads
    <3>1. ASSUME NEW q \in kept' \ changed'
          PROVE  q \in Projects \ {p} /\ q \in kept \ changed /\ q \in matching'
      BY <1>2, <2>2 DEF ListInv, ListTypeOK
    <3>. QED
      BY <1>2, <1>7, <2>2, <3>1 DEF ListInv, Untouched, Reads, UntouchedOnce
  <2>. QED
    BY <2>1, <2>2
<1>10. Behind'
  <2>1. CASE ~Reads
    BY <1>2, <2>1 DEF ListInv, Behind, Reads, TwiceOnlyByClock
  <2>2. CASE Reads
    <3>1. ASSUME NEW q \in Projects \ lagged', written[q] # 0
          PROVE  written[q] = 1 /\ IF q \in live' THEN ~Beyond(q)' ELSE q \in changed'
      <4>1. q \in Projects \ lagged
        BY <1>2, <2>2
      <4>2. written[q] = 1 /\ IF q \in live THEN ~Beyond(q) ELSE q \in changed
        BY <2>2, <3>1, <4>1 DEF ListInv, Behind
      <4>3. CASE q # p
        BY <1>2, <1>7, <2>2, <4>2, <4>3
      <4>4. CASE q = p
        <5>1. t = now
          BY <1>1, <1>2, <1>3, <2>2, <3>1, <4>4
        <5>. QED
          BY <1>1, <1>2, <1>8, <2>2, <4>2, <4>4, <5>1
      <4>. QED
        BY <4>3, <4>4
    <3>. QED
      BY <1>2, <2>2, <3>1 DEF ListInv, Behind, Reads, TwiceOnlyByClock
  <2>. QED
    BY <2>1, <2>2
<1>11. Limited'
  <2>1. CASE ~Reads
    BY <1>2, <2>1 DEF ListInv, Limited, Reads
  <2>2. CASE Reads
    <3>1. kept' \subseteq kept /\ kept \subseteq Projects
      BY <1>2, <2>2 DEF ListInv, ListTypeOK
    <3>2. Cardinality(kept') <= Cardinality(kept) /\ Cardinality(kept) \in Nat /\ Cardinality(kept') \in Nat
      BY <3>1, ListKeyType, FS_Subset, FS_CardinalityType
    <3>3. kept \union changed \subseteq kept' \union changed'
      BY <1>2, <2>2 DEF ListInv, Untouched
    <3>4. reader.kind = "export" => Cardinality(kept') <= ExportLimit
      BY <2>2, <3>2, SizesAssumption DEF ListInv, Limited
    <3>5. reader.kind = "export" => matching' \subseteq kept' \union changed'
      BY <1>2, <2>2, <3>3 DEF ListInv, Limited
    <3>. QED
      BY <1>2, <2>2, <3>3, <3>4, <3>5 DEF ListInv, Limited, Reads
  <2>. QED
    BY <2>1, <2>2
<1>. QED
  BY <1>4, <1>6, <1>9, <1>10, <1>11 DEF ListInv

LEMMA DeleteKeeps ==
    ASSUME ListInv, NEW p \in Projects, Delete(p)
    PROVE  ListInv'
<1>1. /\ at' = [at EXCEPT ![p] = 0] /\ live' = live \ {p} /\ matching' = matching \ {p} /\ p \in live
      /\ UNCHANGED <<now, reader, written, lagged>>
      /\ Reads => changed' = changed \union {p} /\ kept' = kept \ {p}
      /\ ~Reads => UNCHANGED <<changed, kept>>
  BY DEF Delete, Reads
<1>2. ListTypeOK /\ at \in [Projects -> 0..MaxNow] /\ now \in Nat /\ 0 \in 0..MaxNow
  BY ClockAssumption DEF ListInv, ListTypeOK
<1>3. ListTypeOK'
  BY <1>1, <1>2 DEF ListInv, ListTypeOK, Reads
<1>4. at'[p] = 0 /\ \A q \in Projects \ {p} : at'[q] = at[q]
  BY <1>1, <1>2
<1>5. Past'
  BY <1>1, <1>2, <1>4 DEF ListInv, Past
<1>6. \A q \in Projects \ {p} : Beyond(q)' <=> Beyond(q)
  BY <1>1, <1>4 DEF Beyond, KeyOf
<1>7. Untouched'
  <2>1. CASE ~Reads
    BY <1>1, <2>1 DEF ListInv, Untouched, Reads, UntouchedOnce
  <2>2. CASE Reads
    <3>1. ASSUME NEW q \in kept' \ changed'
          PROVE  q \in Projects \ {p} /\ q \in kept \ changed
      BY <1>1, <2>2 DEF ListInv, ListTypeOK
    <3>. QED
      BY <1>1, <1>6, <2>2, <3>1 DEF ListInv, Untouched, Reads, UntouchedOnce
  <2>. QED
    BY <2>1, <2>2
<1>8. Behind'
  BY <1>1, <1>6 DEF ListInv, Behind, Reads, TwiceOnlyByClock
<1>9. Limited'
  <2>1. CASE ~Reads
    BY <1>1, <2>1 DEF ListInv, Limited, Reads
  <2>2. CASE Reads
    <3>1. kept' \subseteq kept /\ kept \subseteq Projects
      BY <1>1, <2>2 DEF ListInv, ListTypeOK
    <3>2. Cardinality(kept') <= Cardinality(kept) /\ Cardinality(kept) \in Nat /\ Cardinality(kept') \in Nat
      BY <3>1, ListKeyType, FS_Subset, FS_CardinalityType
    <3>3. kept \union changed \subseteq kept' \union changed'
      BY <1>1, <2>2
    <3>4. reader.kind = "export" => Cardinality(kept') <= ExportLimit
      BY <2>2, <3>2, SizesAssumption DEF ListInv, Limited
    <3>. QED
      BY <1>1, <2>2, <3>3, <3>4 DEF ListInv, Limited, Reads
  <2>. QED
    BY <2>1, <2>2
<1>. QED
  BY <1>3, <1>5, <1>7, <1>8, <1>9 DEF ListInv

LEMMA ListSteps ==
    ListInv /\ [ListNext]_listVars => ListInv'
<1>. SUFFICES ASSUME ListInv, [ListNext]_listVars PROVE ListInv'
  OBVIOUS
<1>1. CASE ListTick \/ UNCHANGED listVars
  <2>1. /\ UNCHANGED <<at, live, matching, reader, written, changed, kept, lagged>>
        /\ now' = now \/ (now' = now + 1 /\ now < MaxNow)
    BY <1>1 DEF ListTick, Passes, listVars
  <2>2. now \in Nat /\ MaxNow \in Nat /\ now \in 0..MaxNow /\ \A q \in Projects : at[q] \in Nat
    BY ClockAssumption DEF ListInv, ListTypeOK
  <2>3. \A k \in reader.cursor : k.at \in Nat
    BY ListKeyType DEF ListInv, ListTypeOK, Reader
  <2>4. ListTypeOK'
    BY <2>1, <2>2 DEF ListInv, ListTypeOK
  <2>5. Past'
    BY <2>1, <2>2, <2>3 DEF ListInv, Past
  <2>6. \A q \in Projects : Beyond(q)' <=> Beyond(q)
    BY <2>1 DEF Beyond, KeyOf
  <2>7. Untouched'
    BY <2>1, <2>6 DEF ListInv, ListTypeOK, Untouched, Reads, UntouchedOnce
  <2>8. Behind'
    BY <2>1, <2>6 DEF ListInv, Behind, Reads, TwiceOnlyByClock
  <2>9. Limited'
    BY <2>1 DEF ListInv, Limited, Reads
  <2>. QED
    BY <2>4, <2>5, <2>7, <2>8, <2>9 DEF ListInv
<1>. QED
  BY <1>1, BeginKeeps, FetchKeeps, LeaveKeeps, WrittenKeeps, DeleteKeeps DEF ListNext

\* The cursor of a reader is the place of a project, and its history is of projects
\* that exist or did (exportProjects, listProjects).
THEOREM ListTypeCorrect == ListSpec => []ListTypeOK
<1>1. ListInv => ListTypeOK
  BY DEF ListInv
<1>. QED
  BY ListStarts, ListSteps, <1>1, PTL DEF ListSpec

\* A project that nobody touches while an export or a list goes on is in it exactly
\* once, for every size of batches and whatever is written to the others.
THEOREM ReadOnce == ListSpec => []UntouchedOnce
<1>1. ListInv => UntouchedOnce
  BY DEF ListInv, Untouched
<1>. QED
  BY ListStarts, ListSteps, <1>1, PTL DEF ListSpec

\* An export or a list has a project twice only if it was written meanwhile by a
\* process whose clock lags.
THEOREM ReadTwice == ListSpec => []TwiceOnlyByClock
<1>1. ListInv => TwiceOnlyByClock
  BY DEF ListInv, Behind
<1>. QED
  BY ListStarts, ListSteps, <1>1, PTL DEF ListSpec

\* An export has no more projects than its limit and those created or changed while
\* it went on.
THEOREM ExportLimited == ListSpec => []LimitUpToChanges
<1>1. ListInv => LimitUpToChanges
  <2>. SUFFICES ASSUME ListInv, reader.kind = "export"
                PROVE  Cardinality({p \in Projects : written[p] > 0}) <= ExportLimit + Cardinality(changed)
    BY DEF LimitUpToChanges
  <2>. DEFINE read == {p \in Projects : written[p] > 0}
  <2>1. Cardinality(kept) <= ExportLimit /\ read \subseteq kept \union changed
    BY DEF ListInv, Limited
  <2>2. IsFiniteSet(kept) /\ IsFiniteSet(changed)
    BY ListKeyType, FS_Subset DEF ListInv, ListTypeOK
  <2>. HIDE DEF read
  <2>3. /\ IsFiniteSet(kept \union changed)
        /\ Cardinality(kept \union changed)
              = Cardinality(kept) + Cardinality(changed) - Cardinality(kept \intersect changed)
    BY <2>2, FS_Union
  <2>4. Cardinality(read) <= Cardinality(kept \union changed) /\ Cardinality(read) \in Nat
    BY <2>1, <2>3, FS_Subset, FS_CardinalityType
  <2>5. /\ Cardinality(kept \intersect changed) \in Nat /\ Cardinality(kept) \in Nat
        /\ Cardinality(changed) \in Nat /\ ExportLimit \in Nat
    BY <2>2, FS_Intersection, FS_CardinalityType, SizesAssumption
  <2>6. Cardinality(read) <= ExportLimit + Cardinality(changed)
    BY <2>1, <2>3, <2>4, <2>5
  <2>. QED
    BY <2>6 DEF read
<1>. QED
  BY ListStarts, ListSteps, <1>1, PTL DEF ListSpec
=============================================================================
