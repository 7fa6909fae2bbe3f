-------------------------- MODULE RoleAdminProofs --------------------------
(***************************************************************************)
(* Proofs about RoleAdmin, for any accounts, requests, number of attempts  *)
(* and step-up window.                                                     *)
(*                                                                         *)
(* The floor is not inductive: it needs what an open transaction that can  *)
(* still commit knows.  Its caller is an account (Accepted), its checks    *)
(* held in its snapshot (Checked), and unless a concurrent commit has      *)
(* excluded it, the owners it has read are still owners and its target     *)
(* still has the role it saw (Current).                                    *)
(*                                                                         *)
(* That the trail matches the answer is a matter of one request: Trail     *)
(* says what entries and what answer it can have at each of its points.    *)
(***************************************************************************)
EXTENDS RoleAdmin, FiniteSetTheorems, TLAPS

Accepted == \A r \in Requests : req[r].pc \notin {"idle", "done"} => req[r].actor \in Users

Checked ==
    \A r \in Requests : req[r].pc = "commit" =>
        /\ req[r].actor \in Users
        /\ req[r].target \in Users
        /\ req[r].snap[req[r].actor] = "owner"
        /\ CountsOwners(req[r].snap, r) =>
               \E v \in Users \ {req[r].target} : req[r].snap[v] = "owner"

Current ==
    \A r \in Requests \ doomed : req[r].pc = "commit" /\ Writes(r) # NoUser =>
        /\ role[req[r].target] = req[r].snap[req[r].target]
        /\ \A u \in Reads(r) : req[r].snap[u] = "owner" => role[u] = "owner"

IInv == TypeOK /\ Accepted /\ Checked /\ Current /\ OwnerFloor

-----------------------------------------------------------------------------

\* A finite set with more than one element has one besides any given one.
LEMMA AnotherElement ==
    ASSUME NEW S, IsFiniteSet(S), ~(Cardinality(S) <= 1), NEW x \in S
    PROVE  \E y \in S : y # x
<1>1. /\ Cardinality(S) \in Nat
      /\ IsFiniteSet(S \ {x})
      /\ Cardinality(S \ {x}) = Cardinality(S) - 1
  BY FS_CardinalityType, FS_RemoveElement
<1>2. Cardinality(S \ {x}) # 0
  BY <1>1
<1>3. S \ {x} # {}
  BY <1>1, <1>2, FS_EmptySet
<1>. QED
  BY <1>3

\* A demotion that the owner count lets pass leaves another owner.
LEMMA CountLeavesAnother ==
    ASSUME TypeOK, NEW r \in Requests, req[r].target \in Users,
           ~BelowFloor(r), CountsOwners(role, r)
    PROVE  \E v \in Users \ {req[r].target} : role[v] = "owner"
<1>1. IsFiniteSet(Owners(role))
  BY UsersAssumption, FS_Subset DEF Owners
<1>2. ~(Cardinality(Owners(role)) <= 1)
  BY DEF BelowFloor
<1>3. req[r].target \in Owners(role)
  BY DEF CountsOwners, Owners
<1>4. PICK v \in Owners(role) : v # req[r].target
  BY <1>1, <1>2, <1>3, AnotherElement
<1>. QED
  BY <1>4 DEF Owners

-----------------------------------------------------------------------------

LEMMA IdleType == Idle \in Request
BY RolesAssumption, MaxAttemptsAssumption, StepUpWindowAssumption
DEF Idle, Request, Phases, Answers, Denials

\* Each way in which a request moves on keeps the type of req.
LEMMA OverType ==
    ASSUME TypeOK, NEW r \in Requests, NEW a \in Answers,
           NEW e \in SUBSET {"role_updated", "denied"}, Over(r, a, e)
    PROVE  req' \in [Requests -> Request]
BY IdleType DEF Over, TypeOK, Request, Phases

LEMMA RefusedType ==
    ASSUME TypeOK, NEW r \in Requests, NEW a \in Answers, Refused(r, a)
    PROVE  req' \in [Requests -> Request]
<1>1. Closed(r) \in Request
  BY IdleType DEF Closed, TypeOK, Request
<1>2. (a \in {"owner_floor_violation", "role_conflict"}) \in BOOLEAN
  OBVIOUS
<1>3. [Closed(r) EXCEPT !.pc = "refuse", !.answer = a,
           !.measured = a \in {"owner_floor_violation", "role_conflict"}] \in Request
  BY <1>1, <1>2 DEF Request, Phases
<1>. QED
  BY <1>3 DEF Refused, TypeOK

LEMMA ConflictType ==
    ASSUME TypeOK, NEW r \in Requests, Conflict(r)
    PROVE  req' \in [Requests -> Request]
<1>1. CASE req[r].attempt < MaxAttempts
  <2>1. Closed(r) \in Request /\ Closed(r).attempt = req[r].attempt
    BY IdleType DEF Closed, TypeOK, Request
  <2>2. req[r].attempt + 1 \in 1..MaxAttempts
    BY <1>1, MaxAttemptsAssumption DEF TypeOK, Request
  <2>3. [Closed(r) EXCEPT !.pc = "begin", !.attempt = @ + 1] \in Request
    BY <2>1, <2>2 DEF Request, Phases
  <2>. QED
    BY <1>1, <2>3 DEF Conflict, TypeOK
<1>2. CASE ~(req[r].attempt < MaxAttempts)
  BY <1>2, RefusedType DEF Conflict, Answers, Denials
<1>. QED
  BY <1>1, <1>2

\* The record of a request whose attempt has passed its checks.
LEMMA CheckedType ==
    ASSUME NEW q \in Request, NEW f \in [Users -> Roles], NEW b \in BOOLEAN
    PROVE  [q EXCEPT !.pc = "commit", !.snap = f, !.open = b] \in Request
<1>. DEFINE windows == 0..StepUpWindow
            attempts == 1..MaxAttempts
<1>1. Request = [ pc : Phases, actor : Users \union {NoUser}, stepUp : windows,
                  target : Users \union {NoUser}, want : Roles, attempt : attempts,
                  snap : [Users -> Roles], open : BOOLEAN, changed : BOOLEAN,
                  audited : SUBSET {"role_updated", "denied"}, measured : BOOLEAN,
                  answer : Answers ]
  BY DEF Request
<1>2. "commit" \in Phases
  BY DEF Phases
<1>. HIDE DEF windows, attempts
<1>. QED
  BY <1>1, <1>2

LEMMA InitTypeOK == Init => TypeOK
BY IdleType, StepUpWindowAssumption DEF Init, TypeOK

LEMMA NextTypeOK == TypeOK /\ [Next]_vars => TypeOK'
<1>. SUFFICES ASSUME TypeOK, [Next]_vars PROVE TypeOK'
  OBVIOUS
<1>. USE DEF TypeOK
<1>1. ASSUME NEW r \in Requests, NEW a \in Users, NEW t \in Users \union {NoUser},
             NEW w \in Roles, Arrive(r, a, t, w)
      PROVE  TypeOK'
  <2>1. [Idle EXCEPT !.pc = IF role[a] = "owner" THEN "begin" ELSE "done",
                     !.answer = IF role[a] = "owner" THEN "none" ELSE "forbidden",
                     !.actor = a, !.stepUp = stepUp[a], !.target = t, !.want = w] \in Request
    BY IdleType DEF Request, Phases, Answers, Denials
  <2>. QED
    BY <1>1, <2>1 DEF Arrive
<1>2. ASSUME NEW r \in Requests, Check(r) PROVE TypeOK'
  <2>1. ASSUME req' = [req EXCEPT ![r].pc = "commit", ![r].snap = role,
                                  ![r].open = StepUpFresh(r)]
        PROVE  req' \in [Requests -> Request]
    <3>. DEFINE fresh == StepUpFresh(r)
    <3>1. fresh \in BOOLEAN
      BY DEF StepUpFresh
    <3>2. req' = [req EXCEPT ![r] = [req[r] EXCEPT !.pc = "commit", !.snap = role,
                                                   !.open = fresh]]
      BY <2>1
    <3>. HIDE DEF fresh
    <3>3. [req[r] EXCEPT !.pc = "commit", !.snap = role, !.open = fresh] \in Request
      BY <3>1, CheckedType
    <3>. QED
      BY <3>2, <3>3
  <2>2. req' \in [Requests -> Request]
    BY <1>2, <2>1, RefusedType, OverType DEF Check, Answers, Denials
  <2>. QED
    BY <1>2, <2>2 DEF Check
<1>3. ASSUME NEW r \in Requests, Commit(r) PROVE TypeOK'
  <2>1. role' \in [Users -> Roles]
    BY <1>3 DEF Commit, Request
  <2>2. Closed(r) \in Request
    BY IdleType DEF Closed, Request
  <2>3. req' \in [Requests -> Request]
    BY <1>3, <2>2 DEF Commit, Request, Phases
  <2>4. doomed' \in SUBSET Requests
    BY <1>3 DEF Commit
  <2>. QED
    BY <1>3, <2>1, <2>3, <2>4 DEF Commit
<1>4. ASSUME NEW r \in Requests, Abort(r) PROVE TypeOK'
  BY <1>4, ConflictType DEF Abort
<1>5. ASSUME NEW r \in Requests, AuditChange(r) PROVE TypeOK'
  BY <1>5, OverType DEF AuditChange, Answers
<1>6. ASSUME NEW r \in Requests, AuditConflict(r) PROVE TypeOK'
  BY <1>6, ConflictType DEF AuditConflict
<1>7. ASSUME NEW r \in Requests, Refuse(r) PROVE TypeOK'
  BY <1>7, OverType DEF Refuse, Request
<1>8. ASSUME NEW r \in Requests, Fail(r) PROVE TypeOK'
  BY <1>8, OverType DEF Fail, Answers
<1>9. ASSUME NEW r \in Requests, Forget(r) PROVE TypeOK'
  BY <1>9, IdleType DEF Forget
<1>10. ASSUME NEW u \in Users, StepUp(u) PROVE TypeOK'
  BY <1>10, StepUpWindowAssumption DEF StepUp
<1>11. ASSUME Tick PROVE TypeOK'
  <2>1. \A n \in 0..StepUpWindow : Less(n) \in 0..StepUpWindow
    BY StepUpWindowAssumption DEF Less
  <2>2. stepUp' \in [Users -> 0..StepUpWindow]
    BY <1>11, <2>1 DEF Tick
  <2>3. \A r \in Requests : req[r].stepUp \in 0..StepUpWindow
    BY DEF Request
  <2>4. \A r \in Requests : [req[r] EXCEPT !.stepUp = Less(@)] \in Request
    BY <2>1, <2>3 DEF Request
  <2>5. req' \in [Requests -> Request]
    BY <1>11, <2>4 DEF Tick
  <2>. QED
    BY <1>11, <2>2, <2>5 DEF Tick
<1>12. CASE UNCHANGED vars
  BY <1>12 DEF vars
<1>. QED
  BY <1>1, <1>2, <1>3, <1>4, <1>5, <1>6, <1>7, <1>8, <1>9, <1>10, <1>11, <1>12
  DEF Next, Serve

\* The variables keep their types.
THEOREM TypeCorrect == Spec => []TypeOK
BY InitTypeOK, NextTypeOK, PTL DEF Spec

-----------------------------------------------------------------------------

LEMMA InitIInv == Init => IInv
BY InitTypeOK DEF Init, IInv, Accepted, Checked, Current, OwnerFloor, Idle

\* A step that moves one request to where no transaction is open, and touches
\* neither the roles nor the other requests, keeps the invariant.
LEMMA OutsideTransaction ==
    ASSUME IInv, TypeOK', NEW r \in Requests, req'[r].pc # "commit",
           req'[r].pc \notin {"idle", "done"} => req'[r].actor \in Users,
           \A s \in Requests \ {r} : req'[s] = req[s],
           role' = role, doomed \ {r} \subseteq doomed'
    PROVE  IInv'
<1>1. Checked'
  BY DEF IInv, Checked, CountsOwners
<1>2. Current'
  <2>. SUFFICES ASSUME NEW s \in (Requests \ doomed)', (req[s].pc = "commit")',
                       (Writes(s) # NoUser)'
                PROVE  /\ (role[req[s].target] = req[s].snap[req[s].target])'
                       /\ \A u \in Reads(s)' : (req[s].snap[u] = "owner" => role[u] = "owner")'
    BY DEF Current
  <2>1. s # r /\ s \in Requests \ doomed /\ req'[s] = req[s]
    OBVIOUS
  <2>2. Writes(s)' = Writes(s) /\ Reads(s)' = Reads(s)
    BY <2>1 DEF Writes, Reads, CountsOwners
  <2>. QED
    BY <2>1, <2>2 DEF IInv, Current
<1>3. OwnerFloor'
  BY DEF IInv, OwnerFloor, Owners
<1>4. Accepted'
  BY DEF IInv, Accepted
<1>. QED
  BY <1>1, <1>2, <1>3, <1>4 DEF IInv

\* What the commit of an attempt that no concurrent commit has excluded does:
\* the caller is an owner at that moment, and an owner is left.
LEMMA CommitIsAuthorized ==
    ASSUME IInv, NEW c \in Requests, Commit(c), Writes(c) # NoUser
    PROVE  /\ req[c].actor \in Users /\ req[c].target \in Users /\ req[c].want \in Roles
           /\ role[req[c].actor] = "owner"
           /\ role[req[c].target] = "owner" /\ req[c].want # "owner" =>
                  \E v \in Users \ {req[c].target} : role[v] = "owner"
           /\ role' = [role EXCEPT ![req[c].target] = req[c].want]
<1>1. /\ req[c].pc = "commit" /\ c \in Requests \ doomed
      /\ req[c].actor \in Users /\ req[c].target \in Users
      /\ req[c].snap[req[c].actor] = "owner"
      /\ Writes(c) = req[c].target
  BY DEF IInv, Checked, Commit, Writes
<1>2. req[c].want \in Roles
  BY DEF IInv, TypeOK, Request
<1>3. /\ role[req[c].target] = req[c].snap[req[c].target]
      /\ \A u \in Reads(c) : req[c].snap[u] = "owner" => role[u] = "owner"
  BY <1>1 DEF IInv, Current
<1>4. req[c].actor \in Reads(c)
  BY <1>1 DEF Reads
<1>5. ASSUME role[req[c].target] = "owner", req[c].want # "owner"
      PROVE  \E v \in Users \ {req[c].target} : role[v] = "owner"
  <2>1. CountsOwners(req[c].snap, c)
    BY <1>3, <1>5 DEF CountsOwners
  <2>2. PICK v \in Users \ {req[c].target} : req[c].snap[v] = "owner"
    BY <1>1, <2>1 DEF IInv, Checked
  <2>3. v \in Reads(c)
    BY <2>1 DEF Reads
  <2>. QED
    BY <1>3, <2>2, <2>3
<1>6. role' = [role EXCEPT ![req[c].target] = req[c].want]
  BY <1>1 DEF IInv, TypeOK, Commit
<1>. QED
  BY <1>1, <1>2, <1>3, <1>4, <1>5, <1>6

\* What an open transaction still knows after the commit of c, unless that
\* commit has excluded it.
LEMMA CommitKeepsCurrent ==
    ASSUME IInv, NEW c \in Requests, Commit(c) PROVE Current'
<1>. SUFFICES ASSUME NEW s \in (Requests \ doomed)', (req[s].pc = "commit")',
                     (Writes(s) # NoUser)'
              PROVE  /\ (role[req[s].target] = req[s].snap[req[s].target])'
                     /\ \A u \in Reads(s)' : (req[s].snap[u] = "owner" => role[u] = "owner")'
  BY DEF Current
<1>1. s # c /\ req'[s] = req[s]
  BY DEF IInv, TypeOK, Commit
<1>2. Writes(s)' = Writes(s) /\ Reads(s)' = Reads(s)
  BY <1>1 DEF Writes, Reads, CountsOwners
<1>3. s \in Requests \ doomed /\ ~Excludes(c, s)
  BY <1>1 DEF Commit
<1>4. /\ role[req[s].target] = req[s].snap[req[s].target]
      /\ \A u \in Reads(s) : req[s].snap[u] = "owner" => role[u] = "owner"
  BY <1>1, <1>2, <1>3 DEF IInv, Current
<1>5. req[s].target \in Users /\ Writes(s) = req[s].target
  BY <1>1, <1>2 DEF IInv, Checked, Writes
<1>6. CASE Writes(c) = NoUser
  <2>1. role' = role
    BY <1>6, UsersAssumption DEF IInv, TypeOK, Commit
  <2>. QED
    BY <1>1, <1>2, <1>4, <2>1
<1>7. CASE Writes(c) # NoUser
  <2>1. /\ req[c].target \in Users /\ Writes(c) = req[c].target
        /\ role' = [role EXCEPT ![req[c].target] = req[c].want]
    BY <1>7, CommitIsAuthorized DEF Writes
  <2>2. req[c].target # req[s].target
    BY <1>3, <1>5, <1>7, <2>1 DEF Excludes
  <2>3. ASSUME NEW u \in Reads(s), req[s].snap[u] = "owner", role'[u] # "owner"
        PROVE  FALSE
    <3>1. role[u] = "owner"
      BY <1>4, <2>3
    <3>2. u = req[c].target /\ req[c].want # "owner"
      BY <2>1, <2>3, <3>1, UsersAssumption DEF IInv, TypeOK
    <3>3. c \in Requests \ doomed /\ req[c].pc = "commit"
      BY DEF Commit
    <3>4. CountsOwners(req[c].snap, c)
      BY <1>7, <3>1, <3>2, <3>3 DEF IInv, Current, CountsOwners
    <3>5. Writes(s) \in Reads(c)
      BY <1>5, <3>4 DEF Reads
    <3>. QED
      BY <1>3, <2>1, <2>3, <3>2, <3>5 DEF Excludes
  <2>. QED
    BY <1>1, <1>2, <1>4, <1>5, <2>1, <2>2, <2>3 DEF IInv, TypeOK
<1>. QED
  BY <1>6, <1>7

\* An attempt whose checks pass has just read the roles as they are.
LEMMA CheckKeepsIInv ==
    ASSUME IInv, TypeOK', NEW r \in Requests, req[r].pc = "begin",
           role[req[r].actor] = "owner", req[r].target # NoUser, ~BelowFloor(r),
           req'[r].pc = "commit", req'[r].snap = role, req'[r].actor = req[r].actor,
           req'[r].target = req[r].target, req'[r].want = req[r].want,
           \A s \in Requests \ {r} : req'[s] = req[s],
           role' = role, doomed' = doomed
    PROVE  IInv'
<1>1. req[r].actor \in Users /\ req[r].target \in Users
  BY DEF IInv, TypeOK, Accepted, Request
<1>2. CountsOwners(role, r) => \E v \in Users \ {req[r].target} : role[v] = "owner"
  BY <1>1, CountLeavesAnother DEF IInv
<1>3. Checked'
  BY <1>1, <1>2 DEF IInv, Checked, CountsOwners
<1>4. Current'
  <2>. SUFFICES ASSUME NEW s \in (Requests \ doomed)', (req[s].pc = "commit")',
                       (Writes(s) # NoUser)'
                PROVE  /\ (role[req[s].target] = req[s].snap[req[s].target])'
                       /\ \A u \in Reads(s)' : (req[s].snap[u] = "owner" => role[u] = "owner")'
    BY DEF Current
  <2>1. CASE s = r
    BY <1>1, <2>1
  <2>2. CASE s # r
    <3>1. Writes(s)' = Writes(s) /\ Reads(s)' = Reads(s)
      BY <1>1, <2>2 DEF Writes, Reads, CountsOwners
    <3>. QED
      BY <1>1, <2>2, <3>1 DEF IInv, Current
  <2>. QED
    BY <2>1, <2>2
<1>5. OwnerFloor' /\ Accepted'
  BY <1>1 DEF IInv, OwnerFloor, Owners, Accepted
<1>. QED
  BY <1>3, <1>4, <1>5 DEF IInv

LEMMA CommitKeepsIInv ==
    ASSUME IInv, TypeOK', NEW c \in Requests, Commit(c) PROVE IInv'
<1>1. /\ req'[c].pc = "audit" /\ req'[c].actor = req[c].actor
      /\ \A s \in Requests \ {c} : req'[s] = req[s]
  BY DEF IInv, TypeOK, Request, Commit, Closed
<1>2. Checked'
  BY <1>1 DEF IInv, Checked, CountsOwners
<1>3. Accepted'
  BY <1>1 DEF IInv, Accepted, Commit
<1>4. OwnerFloor'
  <2>1. CASE Writes(c) = NoUser
    <3>1. role' = role
      BY <2>1, UsersAssumption DEF IInv, TypeOK, Commit
    <3>. QED
      BY <3>1 DEF IInv, OwnerFloor, Owners
  <2>2. CASE Writes(c) # NoUser
    <3>1. /\ req[c].target \in Users
          /\ role[req[c].target] = "owner" /\ req[c].want # "owner" =>
                  \E v \in Users \ {req[c].target} : role[v] = "owner"
          /\ role' = [role EXCEPT ![req[c].target] = req[c].want]
      BY <2>2, CommitIsAuthorized
    <3>2. PICK v \in Users : role'[v] = "owner"
      BY <3>1 DEF IInv, TypeOK, OwnerFloor, Owners
    <3>. QED
      BY <3>2 DEF OwnerFloor, Owners
  <2>. QED
    BY <2>1, <2>2
<1>. QED
  BY <1>2, <1>3, <1>4, CommitKeepsCurrent DEF IInv

\* Where the ways out of a transaction leave the request, and no other one.
LEMMA ClosedFields ==
    ASSUME TypeOK, NEW r \in Requests
    PROVE  Closed(r) \in Request /\ Closed(r).actor = req[r].actor
BY IdleType DEF Closed, TypeOK, Request

LEMMA RefusedMoves ==
    ASSUME TypeOK, NEW r \in Requests, NEW a, Refused(r, a)
    PROVE  /\ req'[r].pc = "refuse" /\ req'[r].actor = req[r].actor
           /\ \A s \in Requests \ {r} : req'[s] = req[s]
<1>. DEFINE m == a \in {"owner_floor_violation", "role_conflict"}
<1>1. req' = [req EXCEPT ![r] = [Closed(r) EXCEPT !.pc = "refuse", !.answer = a, !.measured = m]]
  BY DEF Refused
<1>. HIDE DEF m
<1>. QED
  BY <1>1, ClosedFields DEF TypeOK, Request

LEMMA OverMoves ==
    ASSUME TypeOK, NEW r \in Requests, NEW a, NEW e, Over(r, a, e)
    PROVE  /\ req'[r].pc = "done"
           /\ \A s \in Requests \ {r} : req'[s] = req[s]
BY DEF TypeOK, Over, Idle

LEMMA ConflictMoves ==
    ASSUME TypeOK, NEW r \in Requests, Conflict(r)
    PROVE  /\ req'[r].pc \in {"begin", "refuse"} /\ req'[r].actor = req[r].actor
           /\ \A s \in Requests \ {r} : req'[s] = req[s]
<1>1. CASE req[r].attempt < MaxAttempts
  <2>1. req' = [req EXCEPT ![r] = [Closed(r) EXCEPT !.pc = "begin", !.attempt = @ + 1]]
    BY <1>1 DEF Conflict
  <2>. DEFINE n == Closed(r).attempt + 1
  <2>2. req' = [req EXCEPT ![r] = [Closed(r) EXCEPT !.pc = "begin", !.attempt = n]]
    BY <2>1
  <2>. HIDE DEF n
  <2>. QED
    BY <2>2, ClosedFields DEF TypeOK, Request
<1>2. CASE ~(req[r].attempt < MaxAttempts)
  BY <1>2, RefusedMoves DEF Conflict
<1>. QED
  BY <1>1, <1>2

LEMMA NextIInv == IInv /\ [Next]_vars => IInv'
<1>. SUFFICES ASSUME IInv, [Next]_vars PROVE IInv'
  OBVIOUS
<1>0. TypeOK /\ TypeOK'
  BY NextTypeOK DEF IInv
<1>1. ASSUME NEW r \in Requests, NEW a \in Users, NEW t \in Users \union {NoUser},
             NEW w \in Roles, Arrive(r, a, t, w)
      PROVE  IInv'
  BY <1>0, <1>1, OutsideTransaction DEF Arrive, TypeOK, Idle
<1>2. ASSUME NEW r \in Requests, Check(r) PROVE IInv'
  <2>1. CASE \/ \E a \in Answers : Refused(r, a)
             \/ Over(r, "not_found", {})
    <3>1. PICK p \in {"refuse", "done"} :
             /\ req'[r].pc = p /\ (p = "refuse" => req'[r].actor = req[r].actor)
             /\ \A s \in Requests \ {r} : req'[s] = req[s]
      BY <1>0, <2>1, RefusedMoves, OverMoves
    <3>2. req[r].pc = "begin" /\ role' = role /\ doomed' = doomed
      BY <1>2 DEF Check
    <3>. QED
      BY <1>0, <3>1, <3>2, OutsideTransaction DEF IInv, Accepted
  <2>2. CASE /\ role[req[r].actor] = "owner" /\ req[r].target # NoUser /\ ~BelowFloor(r)
             /\ req' = [req EXCEPT ![r].pc = "commit", ![r].snap = role,
                                   ![r].open = StepUpFresh(r)]
    <3>1. /\ req'[r].pc = "commit" /\ req'[r].snap = role
          /\ req'[r].actor = req[r].actor /\ req'[r].target = req[r].target
          /\ req'[r].want = req[r].want
          /\ \A s \in Requests \ {r} : req'[s] = req[s]
      BY <1>0, <2>2 DEF TypeOK, Request
    <3>2. req[r].pc = "begin" /\ role' = role /\ doomed' = doomed
      BY <1>0, <1>2, <3>1 DEF Check
    <3>. QED
      BY <1>0, <2>2, <3>1, <3>2, CheckKeepsIInv
  <2>. QED
    BY <1>2, <2>1, <2>2 DEF Check, Answers, Denials
<1>3. ASSUME NEW r \in Requests, Commit(r) PROVE IInv'
  BY <1>0, <1>3, CommitKeepsIInv
<1>4. ASSUME NEW r \in Requests, Abort(r) PROVE IInv'
  BY <1>0, <1>4, ConflictMoves, OutsideTransaction DEF Abort, IInv, Accepted
<1>5. ASSUME NEW r \in Requests, AuditChange(r) PROVE IInv'
  BY <1>0, <1>5, OverMoves, OutsideTransaction DEF AuditChange
<1>6. ASSUME NEW r \in Requests, AuditConflict(r) PROVE IInv'
  BY <1>0, <1>6, ConflictMoves, OutsideTransaction DEF AuditConflict, IInv, Accepted
<1>7. ASSUME NEW r \in Requests, Refuse(r) PROVE IInv'
  BY <1>0, <1>7, OverMoves, OutsideTransaction DEF Refuse
<1>8. ASSUME NEW r \in Requests, Fail(r) PROVE IInv'
  BY <1>0, <1>8, OverMoves, OutsideTransaction DEF Fail
<1>9. ASSUME NEW r \in Requests, Forget(r) PROVE IInv'
  BY <1>0, <1>9, OutsideTransaction DEF Forget, TypeOK, Idle
<1>10. ASSUME NEW u \in Users, StepUp(u) PROVE IInv'
  BY <1>0, <1>10
  DEF StepUp, IInv, Accepted, Checked, Current, OwnerFloor, Owners, CountsOwners, Writes, Reads
<1>11. ASSUME Tick PROVE IInv'
  <2>1. \A r \in Requests : /\ req'[r].pc = req[r].pc /\ req'[r].actor = req[r].actor
                            /\ req'[r].target = req[r].target /\ req'[r].want = req[r].want
                            /\ req'[r].snap = req[r].snap
    BY <1>0, <1>11 DEF Tick, TypeOK, Request
  <2>2. role' = role /\ doomed' = doomed
    BY <1>11 DEF Tick
  <2>. QED
    BY <1>0, <2>1, <2>2
    DEF IInv, Accepted, Checked, Current, OwnerFloor, Owners, CountsOwners, Writes, Reads
<1>12. CASE UNCHANGED vars
  BY <1>0, <1>12
  DEF vars, IInv, Accepted, Checked, Current, OwnerFloor, Owners, CountsOwners, Writes, Reads
<1>. QED
  BY <1>1, <1>2, <1>3, <1>4, <1>5, <1>6, <1>7, <1>8, <1>9, <1>10, <1>11, <1>12
  DEF Next, Serve

\* However many updateRole requests run, conflict, fail and are retried, there
\* is an owner.
THEOREM FloorHolds == Spec => []OwnerFloor
<1>1. IInv => OwnerFloor
  BY DEF IInv
<1>. QED
  BY InitIInv, NextIInv, <1>1, PTL DEF Spec

-----------------------------------------------------------------------------

\* Every step of RoleAdmin is a step of the registry or leaves the roles alone.
LEMMA NextImplements == IInv /\ [Next]_vars => [Registry!Next]_role
<1>. SUFFICES ASSUME IInv, [Next]_vars PROVE Registry!Next \/ role' = role
  OBVIOUS
<1>1. ASSUME NEW c \in Requests, Commit(c), Writes(c) # NoUser PROVE Registry!Next
  BY <1>1, CommitIsAuthorized DEF Registry!Next, Registry!ChangeRole
<1>2. ASSUME NEW c \in Requests, Commit(c), Writes(c) = NoUser PROVE role' = role
  BY <1>2, UsersAssumption DEF Commit, IInv, TypeOK
<1>. QED
  BY <1>1, <1>2 DEF Next, Serve, Arrive, Check, Abort, AuditChange, AuditConflict, Refuse, Fail,
                    Forget, StepUp, Tick, vars

\* updateRole implements the registry: each change is made by somebody who is an
\* owner when it takes effect, and never demotes the last owner.
THEOREM Implements == Spec => ImplementsRegistry
<1>1. Init => Registry!Init
  BY DEF Init, Registry!Init, Owners
<1>. QED
  BY InitIInv, NextIInv, NextImplements, <1>1, PTL DEF Spec, ImplementsRegistry, Registry!Spec
-----------------------------------------------------------------------------

\* The transaction of an owner-sensitive change opened in an open window.
Confirmed ==
    \A r \in Requests :
        req[r].pc = "commit" /\ "owner" \in {req[r].snap[req[r].target], req[r].want} =>
            req[r].open

LEMMA NextConfirmed == IInv /\ Confirmed /\ [Next]_vars => Confirmed'
<1>. SUFFICES ASSUME IInv, Confirmed, [Next]_vars PROVE Confirmed'
  OBVIOUS
<1>0. TypeOK
  BY DEF IInv
<1>a. ASSUME NEW r \in Requests, req'[r].pc # "commit",
             \A s \in Requests \ {r} : req'[s] = req[s]
      PROVE  Confirmed'
  BY <1>a DEF Confirmed
<1>1. ASSUME NEW r \in Requests, NEW a \in Users, NEW t \in Users \union {NoUser},
             NEW w \in Roles, Arrive(r, a, t, w)
      PROVE  Confirmed'
  BY <1>0, <1>1, <1>a DEF Arrive, TypeOK, Idle
<1>2. ASSUME NEW r \in Requests, Check(r) PROVE Confirmed'
  <2>1. CASE \/ \E a \in Answers : Refused(r, a)
             \/ Over(r, "not_found", {})
    BY <1>0, <1>a, <2>1, RefusedMoves, OverMoves
  <2>2. CASE /\ OwnerSensitive(r) => StepUpFresh(r)
             /\ req' = [req EXCEPT ![r].pc = "commit", ![r].snap = role,
                                   ![r].open = StepUpFresh(r)]
    <3>1. /\ req'[r].snap = role /\ req'[r].target = req[r].target
          /\ req'[r].want = req[r].want /\ req'[r].open = StepUpFresh(r)
          /\ \A s \in Requests \ {r} : req'[s] = req[s]
      BY <1>0, <2>2 DEF TypeOK, Request
    <3>2. "owner" \in {role[req[r].target], req[r].want} => StepUpFresh(r)
      BY <2>2 DEF OwnerSensitive
    <3>. QED
      BY <3>1, <3>2, Zenon DEF Confirmed
  <2>. QED
    BY <1>2, <2>1, <2>2 DEF Check, Answers, Denials
<1>3. ASSUME NEW r \in Requests, Commit(r) PROVE Confirmed'
  BY <1>0, <1>3, <1>a, ClosedFields DEF Commit, TypeOK, Request
<1>4. ASSUME NEW r \in Requests, Abort(r) \/ AuditConflict(r) PROVE Confirmed'
  BY <1>0, <1>4, <1>a, ConflictMoves DEF Abort, AuditConflict
<1>5. ASSUME NEW r \in Requests, AuditChange(r) \/ Refuse(r) \/ Fail(r) PROVE Confirmed'
  BY <1>0, <1>5, <1>a, OverMoves DEF AuditChange, Refuse, Fail
<1>6. ASSUME NEW r \in Requests, Forget(r) PROVE Confirmed'
  BY <1>0, <1>6, <1>a DEF Forget, TypeOK, Idle
<1>7. ASSUME NEW u \in Users, StepUp(u) PROVE Confirmed'
  BY <1>7 DEF StepUp, Confirmed
<1>8. ASSUME Tick PROVE Confirmed'
  <2>1. \A r \in Requests : /\ req'[r].pc = req[r].pc /\ req'[r].open = req[r].open
                            /\ req'[r].target = req[r].target /\ req'[r].want = req[r].want
                            /\ req'[r].snap = req[r].snap
    BY <1>0, <1>8 DEF Tick, TypeOK, Request
  <2>. QED
    BY <2>1, Zenon DEF Confirmed
<1>9. CASE UNCHANGED vars
  BY <1>9 DEF vars, Confirmed
<1>. QED
  BY <1>1, <1>2, <1>3, <1>4, <1>5, <1>6, <1>7, <1>8, <1>9 DEF Next, Serve

\* No role becomes or stops being "owner" without a confirmation that was fresh
\* when the attempt that made the change began.
THEOREM OwnerChangesConfirmed == Spec => OwnerChangesAreConfirmed
<1>. DEFINE ConfirmedStep ==
        \A u \in Users :
            role'[u] # role[u] /\ "owner" \in {role[u], role'[u]} =>
                \E r \in Requests : /\ req[r].pc = "commit" /\ req'[r].pc = "audit"
                                    /\ req[r].target = u /\ req[r].open
<1>1. Init => Confirmed
  BY DEF Init, Idle, Confirmed
<1>2. IInv /\ Confirmed /\ [Next]_vars => [ConfirmedStep]_vars
  <2>. SUFFICES ASSUME IInv, Confirmed, Next, NEW u \in Users, role'[u] # role[u],
                       "owner" \in {role[u], role'[u]}
                PROVE  \E r \in Requests : /\ req[r].pc = "commit" /\ req'[r].pc = "audit"
                                           /\ req[r].target = u /\ req[r].open
    BY Zenon DEF vars
  <2>1. PICK c \in Requests : Commit(c)
    BY DEF Next, Serve, Arrive, Check, Abort, AuditChange, AuditConflict, Refuse, Fail,
           Forget, StepUp, Tick
  <2>2. Writes(c) = u /\ role'[u] = req[c].want
    BY <2>1 DEF IInv, TypeOK, Commit
  <2>3. Writes(c) # NoUser /\ req[c].target = u
    BY <2>2, UsersAssumption DEF Writes
  <2>4. role[u] = req[c].snap[req[c].target]
    BY <2>1, <2>3 DEF IInv, Current, Commit
  <2>5. req[c].pc = "commit" /\ req'[c].pc = "audit"
    BY <2>1, ClosedFields DEF IInv, TypeOK, Commit, Request
  <2>6. "owner" \in {req[c].snap[req[c].target], req[c].want}
    BY <2>2, <2>4
  <2>7. req[c].open
    BY <2>5, <2>6, Zenon DEF Confirmed
  <2>. QED
    BY <2>3, <2>5, <2>7, Zenon
<1>3. Spec => [][ConfirmedStep]_vars
  <2>. HIDE DEF ConfirmedStep
  <2>. QED
    BY <1>1, <1>2, InitIInv, NextIInv, NextConfirmed, PTL DEF Spec
<1>. QED
  BY <1>3 DEF OwnerChangesAreConfirmed
-----------------------------------------------------------------------------

\* What a request knows of its own past: until it is refused or over it has no
\* answer and no entry; one whose commit changed a role has an account for its
\* target, and is at its first attempt only as long as that commit is not audited.
Trail ==
    \A r \in Requests :
        /\ req[r].pc \notin {"refuse", "done"} => req[r].answer = "none"
        /\ req[r].pc = "refuse" => req[r].answer \in Denials
        /\ req[r].pc = "idle" => ~req[r].changed
        /\ req[r].pc = "commit" => req[r].target # NoUser
        /\ req[r].changed /\ req[r].pc \notin {"idle", "done"} => req[r].target # NoUser
        /\ req[r].changed /\ req[r].pc \in {"begin", "commit"} => req[r].attempt > 1

TrailInv == Trail /\ TrailMatchesAnswer

\* A step that moves one request keeps what is known of the others.
LEMMA OneTrail ==
    ASSUME TypeOK, TrailInv, NEW r \in Requests,
           \A s \in Requests \ {r} : req'[s] = req[s],
           req'[r].pc \notin {"refuse", "done"} => req'[r].answer = "none",
           req'[r].pc = "refuse" => req'[r].answer \in Denials,
           req'[r].pc = "idle" => ~req'[r].changed,
           req'[r].pc = "commit" => req'[r].target # NoUser,
           req'[r].changed /\ req'[r].pc \notin {"idle", "done"} => req'[r].target # NoUser,
           req'[r].changed /\ req'[r].pc \in {"begin", "commit"} => req'[r].attempt > 1,
           req'[r].pc = "done" =>
              /\ req'[r].answer = "ok" <=> "role_updated" \in req'[r].audited
              /\ req'[r].answer \in Denials \ {"forbidden"} => req'[r].audited = {"denied"},
           req'[r].answer \in Denials /\ req'[r].attempt = 1 /\ MaxAttempts > 1 => ~req'[r].changed,
           req'[r].answer = "not_found" => ~req'[r].changed
    PROVE  TrailInv'
<1>1. Trail'
  BY DEF TrailInv, Trail
<1>2. TrailMatchesAnswer'
  BY DEF TrailInv, TrailMatchesAnswer
<1>. QED
  BY <1>1, <1>2 DEF TrailInv

\* What the ways out of a transaction leave in the request's record.
LEMMA OverRecord ==
    ASSUME TypeOK, NEW r \in Requests, NEW a, NEW e, Over(r, a, e)
    PROVE  /\ req'[r].pc = "done" /\ req'[r].answer = a /\ req'[r].audited = e
           /\ req'[r].attempt = req[r].attempt /\ req'[r].changed = req[r].changed
           /\ \A s \in Requests \ {r} : req'[s] = req[s]
BY DEF TypeOK, Over, Idle

LEMMA RefusedRecord ==
    ASSUME TypeOK, NEW r \in Requests, NEW a, Refused(r, a)
    PROVE  /\ req'[r].pc = "refuse" /\ req'[r].answer = a /\ req'[r].target = req[r].target
           /\ req'[r].attempt = req[r].attempt /\ req'[r].changed = req[r].changed
           /\ \A s \in Requests \ {r} : req'[s] = req[s]
<1>. DEFINE m == a \in {"owner_floor_violation", "role_conflict"}
            c == Closed(r)
<1>1. req' = [req EXCEPT ![r] = [c EXCEPT !.pc = "refuse", !.answer = a, !.measured = m]]
  BY DEF Refused
<1>2. /\ c \in Request /\ c.target = req[r].target
      /\ c.attempt = req[r].attempt /\ c.changed = req[r].changed
  BY IdleType DEF Closed, TypeOK, Request
<1>. HIDE DEF m, c
<1>. QED
  BY <1>1, <1>2 DEF TypeOK, Request

LEMMA ConflictRecord ==
    ASSUME TypeOK, NEW r \in Requests, Conflict(r)
    PROVE  /\ req'[r].target = req[r].target /\ req'[r].changed = req[r].changed
           /\ \A s \in Requests \ {r} : req'[s] = req[s]
           /\ \/ /\ req'[r].pc = "begin" /\ req'[r].attempt > 1
                 /\ req'[r].answer = req[r].answer
              \/ /\ req'[r].pc = "refuse" /\ req'[r].answer = "role_conflict"
                 /\ req'[r].attempt = MaxAttempts
<1>0. req[r].attempt \in 1..MaxAttempts
  BY DEF TypeOK, Request
<1>1. CASE req[r].attempt < MaxAttempts
  <2>. DEFINE n == req[r].attempt + 1
              c == Closed(r)
  <2>1. /\ c \in Request /\ c.target = req[r].target /\ c.changed = req[r].changed
        /\ c.attempt = req[r].attempt /\ c.answer = req[r].answer
    BY IdleType DEF Closed, TypeOK, Request
  <2>2. n > 1
    BY <1>0
  <2>3. req' = [req EXCEPT ![r] = [c EXCEPT !.pc = "begin", !.attempt = n]]
    BY <1>1, <2>1 DEF Conflict
  <2>. HIDE DEF n, c
  <2>. QED
    BY <2>1, <2>2, <2>3 DEF TypeOK, Request
<1>2. CASE ~(req[r].attempt < MaxAttempts)
  <2>1. req[r].attempt = MaxAttempts
    BY <1>0, <1>2, MaxAttemptsAssumption
  <2>. QED
    BY <1>2, <2>1, RefusedRecord DEF Conflict
<1>. QED
  BY <1>1, <1>2

LEMMA ConflictKeepsTrail ==
    ASSUME TypeOK, TrailInv, NEW r \in Requests, req[r].pc \in {"commit", "audit"}, Conflict(r),
           req[r].changed => req[r].target # NoUser
    PROVE  TrailInv'
<1>1. req[r].answer = "none"
  BY DEF TrailInv, Trail
<1>2. CASE req'[r].pc = "begin"
  BY <1>1, <1>2, ConflictRecord, OneTrail DEF Denials
<1>3. CASE req'[r].pc # "begin"
  <2>1. ~(req'[r].attempt = 1 /\ MaxAttempts > 1)
    BY <1>3, ConflictRecord
  <2>. QED
    BY <1>1, <1>3, <2>1, ConflictRecord, OneTrail DEF Denials
<1>. QED
  BY <1>2, <1>3

LEMMA NextTrail == TypeOK /\ TrailInv /\ [Next]_vars => TrailInv'
<1>. SUFFICES ASSUME TypeOK, TrailInv, [Next]_vars PROVE TrailInv'
  OBVIOUS
<1>1. ASSUME NEW r \in Requests, NEW a \in Users, NEW t \in Users \union {NoUser},
             NEW w \in Roles, Arrive(r, a, t, w)
      PROVE  TrailInv'
  <2>1. /\ req'[r].pc \in {"begin", "done"} /\ req'[r].changed = FALSE /\ req'[r].audited = {}
        /\ req'[r].pc = "begin" => req'[r].answer = "none"
        /\ req'[r].pc = "done" => req'[r].answer = "forbidden"
        /\ \A s \in Requests \ {r} : req'[s] = req[s]
    BY <1>1 DEF Arrive, TypeOK, Idle
  <2>. QED
    BY <2>1, OneTrail DEF Denials
<1>2. ASSUME NEW r \in Requests, Check(r) PROVE TrailInv'
  <2>0. /\ req[r].pc = "begin" /\ req[r].answer = "none"
        /\ req[r].changed => req[r].target # NoUser /\ req[r].attempt > 1
    BY <1>2 DEF Check, TrailInv, Trail
  <2>1. ASSUME NEW a \in Denials, Refused(r, a) PROVE TrailInv'
    BY <2>0, <2>1, RefusedRecord, OneTrail DEF Denials
  <2>2. ASSUME req[r].target = NoUser, Over(r, "not_found", {}) PROVE TrailInv'
    BY <2>0, <2>2, OverRecord, OneTrail DEF Denials
  <2>3. ASSUME req[r].target # NoUser,
               req' = [req EXCEPT ![r].pc = "commit", ![r].snap = role,
                                  ![r].open = StepUpFresh(r)]
        PROVE  TrailInv'
    <3>1. /\ req'[r].pc = "commit" /\ req'[r].answer = "none" /\ req'[r].target = req[r].target
          /\ req'[r].changed = req[r].changed /\ req'[r].attempt = req[r].attempt
          /\ \A s \in Requests \ {r} : req'[s] = req[s]
      BY <2>0, <2>3 DEF TypeOK, Request
    <3>. QED
      BY <2>0, <2>3, <3>1, OneTrail DEF Denials
  <2>. QED
    BY <1>2, <2>1, <2>2, <2>3 DEF Check, Denials
<1>3. ASSUME NEW r \in Requests, Commit(r) PROVE TrailInv'
  <2>. DEFINE b == req[r].changed \/ Writes(r) # NoUser
              c == Closed(r)
  <2>1. /\ req[r].pc = "commit" /\ req[r].target # NoUser /\ req[r].answer = "none"
    BY <1>3 DEF Commit, TrailInv, Trail
  <2>2. c \in Request /\ c.target = req[r].target /\ c.answer = "none" /\ c.changed = req[r].changed
    BY <2>1, IdleType DEF Closed, TypeOK, Request
  <2>3. req' = [req EXCEPT ![r] = [c EXCEPT !.pc = "audit", !.changed = b]]
    BY <1>3, <2>2 DEF Commit
  <2>. HIDE DEF b, c
  <2>4. /\ req'[r].pc = "audit" /\ req'[r].answer = "none" /\ req'[r].target = req[r].target
        /\ \A s \in Requests \ {r} : req'[s] = req[s]
    BY <2>2, <2>3 DEF TypeOK, Request
  <2>. QED
    BY <2>1, <2>4, OneTrail DEF Denials
<1>4. ASSUME NEW r \in Requests, Abort(r) \/ AuditConflict(r) PROVE TrailInv'
  <2>1. req[r].pc \in {"commit", "audit"} /\ Conflict(r)
    BY <1>4 DEF Abort, AuditConflict
  <2>2. req[r].changed => req[r].target # NoUser
    BY <2>1 DEF TrailInv, Trail
  <2>. QED
    BY <2>1, <2>2, ConflictKeepsTrail
<1>5. ASSUME NEW r \in Requests, AuditChange(r) PROVE TrailInv'
  BY <1>5, OverRecord, OneTrail DEF AuditChange, Denials
<1>6. ASSUME NEW r \in Requests, Refuse(r) PROVE TrailInv'
  <2>1. /\ req[r].answer \in Denials /\ Over(r, req[r].answer, {"denied"})
        /\ req[r].attempt = 1 /\ MaxAttempts > 1 => ~req[r].changed
    BY <1>6 DEF Refuse, TrailInv, Trail, TrailMatchesAnswer
  <2>. QED
    BY <2>1, OverRecord, OneTrail DEF Denials
<1>7. ASSUME NEW r \in Requests, Fail(r) PROVE TrailInv'
  BY <1>7, OverRecord, OneTrail DEF Fail, Denials
<1>8. ASSUME NEW r \in Requests, Forget(r) PROVE TrailInv'
  <2>1. /\ req'[r].pc = "idle" /\ req'[r].answer = "none" /\ req'[r].changed = FALSE
        /\ \A s \in Requests \ {r} : req'[s] = req[s]
    BY <1>8 DEF Forget, TypeOK, Idle
  <2>. QED
    BY <2>1, OneTrail DEF Denials
<1>9. ASSUME NEW u \in Users, StepUp(u) PROVE TrailInv'
  BY <1>9 DEF StepUp, TrailInv, Trail, TrailMatchesAnswer
<1>10. ASSUME Tick PROVE TrailInv'
  <2>1. \A r \in Requests : /\ req'[r].pc = req[r].pc /\ req'[r].answer = req[r].answer
                            /\ req'[r].target = req[r].target /\ req'[r].audited = req[r].audited
                            /\ req'[r].changed = req[r].changed /\ req'[r].attempt = req[r].attempt
    BY <1>10 DEF Tick, TypeOK, Request
  <2>2. Trail'
    BY <2>1 DEF TrailInv, Trail
  <2>3. TrailMatchesAnswer'
    BY <2>1 DEF TrailInv, TrailMatchesAnswer
  <2>. QED
    BY <2>2, <2>3 DEF TrailInv
<1>11. CASE UNCHANGED vars
  BY <1>11 DEF vars, TrailInv, Trail, TrailMatchesAnswer
<1>. QED
  BY <1>1, <1>2, <1>3, <1>4, <1>5, <1>6, <1>7, <1>8, <1>9, <1>10, <1>11 DEF Next, Serve

\* The trail of every answered updateRole request tells what became of it: a
\* change that is audited is the one that is reported, a refusal has its entry, and
\* only the audit trail's own conflicts make a request change a role and be refused.
THEOREM TrailTold == Spec => []TrailMatchesAnswer
<1>1. Init => TrailInv
  BY DEF Init, Idle, TrailInv, Trail, TrailMatchesAnswer, Denials
<1>2. TrailInv => TrailMatchesAnswer
  BY DEF TrailInv
<1>. QED
  BY InitTypeOK, NextTypeOK, NextTrail, <1>1, <1>2, PTL DEF Spec
=============================================================================
