---------------------- MODULE EnterpriseIdentityProofs ----------------------
(***************************************************************************)
(* Proofs about EnterpriseIdentity, for any accounts, subjects, groups,    *)
(* calls and number of attempts.                                           *)
(*                                                                         *)
(* All three action properties rest on what a transaction that can still   *)
(* commit knows: it writes the owner role exactly where it is held, it     *)
(* has seen the account's disabledAt as it is, and the subject it links    *)
(* is linked to this account or to none (Current).  It also needs that an  *)
(* open call names a subject and an account (Asked).                       *)
(*                                                                         *)
(* The second part is about ScimDirectory, for any users, groups, requests *)
(* and attempts.  A request has had its way with a pair once it has been   *)
(* seen as wanted; Due names the pairs of which this holds at each of its  *)
(* points.                                                                 *)
(***************************************************************************)
EXTENDS EnterpriseIdentity, ScimDirectory, TLAPS

Asked ==
    \A c \in Calls :
        /\ call[c].pc \in {"begin", "commit", "audit"} =>
               call[c].subject \in Subjects /\ call[c].email \in Emails
        /\ call[c].pc \in {"commit", "disable"} => call[c].account \in Accounts

Knows(c) ==
    /\ call[c].newRole = "owner" <=> role[call[c].account] = "owner"
    /\ call[c].sawDisabled = disabled[call[c].account]
    /\ identity[call[c].subject] \in {NoAccount, call[c].account}

Current == \A c \in Calls \ doomed : call[c].pc = "commit" => Knows(c)

IInv == TypeOK /\ Asked /\ Current

-----------------------------------------------------------------------------

LEMMA IdleType == Idle \in Call
BY AttemptsAssumption DEF Idle, Call, Roles

LEMMA InitIInv == Init => IInv
<1>. SUFFICES ASSUME Init PROVE IInv
  OBVIOUS
<1>1. TypeOK
  BY IdleType DEF Init, TypeOK
<1>2. \A c \in Calls : call[c].pc = "idle"
  BY DEF Init, Idle
<1>. QED
  BY <1>1, <1>2 DEF IInv, Asked, Current

\* Where a conflict leads.
LEMMA ConflictMoves ==
    ASSUME IInv, NEW c \in Calls, call[c].pc \in {"commit", "audit"}, Conflict(c)
    PROVE  /\ call' \in [Calls -> Call]
           /\ call'[c].pc \in {"begin", "idle"}
           /\ call'[c].pc = "begin" => call'[c].subject \in Subjects /\ call'[c].email \in Emails
           /\ \A d \in Calls \ {c} : call'[d] = call[d]
<1>1. CASE call[c].attempt < MaxAttempts
  <2>. DEFINE n == call[c].attempt + 1
              f == [call[c] EXCEPT !.pc = "begin", !.account = NoAccount, !.newRole = "member",
                                   !.sawDisabled = FALSE, !.attempt = n]
  <2>1. call' = [call EXCEPT ![c] = f]
    BY <1>1 DEF Conflict, Reopened, IInv, TypeOK, Call
  <2>2. n \in 1..MaxAttempts
    BY <1>1, AttemptsAssumption DEF IInv, TypeOK, Call
  <2>. HIDE DEF n
  <2>3. call[c] \in Call
    BY DEF IInv, TypeOK
  <2>4. f \in Call
    BY <2>2, <2>3, ZenonT(60) DEF Call, Roles
  <2>5. f.pc = "begin" /\ f.subject = call[c].subject /\ f.email = call[c].email
    BY <2>3 DEF Call
  <2>. HIDE DEF f
  <2>. QED
    BY <2>1, <2>4, <2>5 DEF IInv, TypeOK, Asked
<1>2. CASE ~(call[c].attempt < MaxAttempts)
  <2>1. call' = [call EXCEPT ![c] = Idle]
    BY <1>2 DEF Conflict
  <2>. QED
    BY <2>1, IdleType DEF IInv, TypeOK, Idle
<1>. QED
  BY <1>1, <1>2

\* A step that leaves the tables alone and call c outside a transaction.
LEMMA OutsideTransaction ==
    ASSUME IInv, NEW c \in Calls,
           call' \in [Calls -> Call], call'[c].pc # "commit",
           call'[c].pc \in {"begin", "audit"} =>
               call'[c].subject \in Subjects /\ call'[c].email \in Emails,
           call'[c].pc = "disable" => call'[c].account \in Accounts,
           \A d \in Calls \ {c} : call'[d] = call[d],
           doomed' \in {doomed, doomed \ {c}},
           UNCHANGED <<email, role, disabled, identity, mapping>>
    PROVE  IInv'
<1>1. TypeOK'
  BY DEF IInv, TypeOK
<1>2. Asked'
  BY DEF IInv, Asked
<1>3. ASSUME NEW d \in Calls \ doomed', call'[d].pc = "commit" PROVE Knows(d)'
  BY <1>3 DEF IInv, Current, Knows
<1>. QED
  BY <1>1, <1>2, <1>3 DEF IInv, Current

LEMMA ReadKeepsIInv ==
    ASSUME IInv, NEW c \in Calls, Read(c) PROVE IInv'
<1>. DEFINE s == call[c].subject
            found == Linked(s, call[c].email)
<1>1. s \in Subjects /\ call[c].email \in Emails /\ call[c].pc = "begin"
  BY DEF Read, IInv, Asked
<1>2. PICK a \in IF found = {} THEN {b \in Accounts : Unused(b)} ELSE found :
          call' = [call EXCEPT ![c].pc = "commit", ![c].account = a,
                               ![c].newRole = MappedRole(role[a], call[c].groups),
                               ![c].sawDisabled = disabled[a]]
  BY DEF Read
<1>3. a \in Accounts /\ identity[s] \in {NoAccount, a}
  BY <1>1, <1>2 DEF Linked, IInv, TypeOK
<1>. DEFINE w == MappedRole(role[a], call[c].groups)
<1>4. w \in Roles /\ (w = "owner" <=> role[a] = "owner")
  BY <1>3 DEF MappedRole, Roles, IInv, TypeOK
<1>. HIDE DEF w
<1>. DEFINE f == [call[c] EXCEPT !.pc = "commit", !.account = a,
                                 !.newRole = w, !.sawDisabled = disabled[a]]
<1>5. call' = [call EXCEPT ![c] = f]
  BY <1>2 DEF w, IInv, TypeOK, Call
<1>6. /\ f \in Call /\ f.pc = "commit" /\ f.account = a /\ f.newRole = w
      /\ f.sawDisabled = disabled[a] /\ f.subject = s /\ f.email = call[c].email
  <2>1. call[c] \in Call /\ disabled[a] \in BOOLEAN
    BY <1>3 DEF IInv, TypeOK
  <2>2. f \in Call
    BY <1>3, <1>4, <2>1, ZenonT(60) DEF Call
  <2>. QED
    BY <2>1, <2>2 DEF Call
<1>. HIDE DEF f
<1>7. /\ call' \in [Calls -> Call]
      /\ call'[c].pc = "commit" /\ call'[c].account = a /\ call'[c].newRole = w
      /\ call'[c].sawDisabled = disabled[a] /\ call'[c].subject = s
      /\ call'[c].email = call[c].email
      /\ \A d \in Calls \ {c} : call'[d] = call[d]
  BY <1>5, <1>6 DEF IInv, TypeOK
<1>8. UNCHANGED <<email, role, disabled, identity, mapping, doomed>>
  BY DEF Read
<1>9. TypeOK'
  BY <1>7, <1>8 DEF IInv, TypeOK
<1>10. Asked'
  BY <1>1, <1>3, <1>7 DEF IInv, Asked
<1>11. ASSUME NEW d \in Calls \ doomed', call'[d].pc = "commit" PROVE Knows(d)'
  <2>1. CASE d = c
    BY <1>3, <1>4, <1>7, <1>8, <2>1 DEF Knows
  <2>2. CASE d # c
    BY <1>7, <1>8, <1>11, <2>2 DEF IInv, Current, Knows
  <2>. QED
    BY <2>1, <2>2
<1>. QED
  BY <1>9, <1>10, <1>11 DEF IInv, Current

\* What a commit does to the tables.
LEMMA CommitWrites ==
    ASSUME IInv, NEW c \in Calls, Commit(c)
    PROVE  LET a == call[c].account
               s == call[c].subject
           IN /\ a \in Accounts /\ s \in Subjects /\ call[c].email \in Emails /\ Knows(c)
              /\ role'[a] = "owner" <=> role[a] = "owner"
              /\ \A b \in Accounts \ {a} : role'[b] = role[b] /\ disabled'[b] = disabled[b]
              /\ identity'[s] = a
              /\ \A t \in Subjects \ {s} : identity'[t] = identity[t]
              /\ call'[c].pc \in {"audit", "finish"}
              /\ \A d \in Calls \ {c} : call'[d] = call[d]
<1>1. Knows(c) /\ call[c].account \in Accounts /\ call[c].subject \in Subjects
      /\ call[c].email \in Emails
  BY DEF Commit, IInv, Asked, Current
<1>2. call'[c].pc \in {"audit", "finish"} /\ \A d \in Calls \ {c} : call'[d] = call[d]
  BY DEF Commit, Finishing, Reopened, IInv, TypeOK, Idle, Call
<1>. QED
  BY <1>1, <1>2 DEF Commit, IInv, TypeOK, Knows

LEMMA CommitKeepsIInv ==
    ASSUME IInv, NEW c \in Calls, Commit(c) PROVE IInv'
<1>. DEFINE a == call[c].account
            s == call[c].subject
<1>1. /\ a \in Accounts /\ s \in Subjects /\ call[c].email \in Emails
      /\ role'[a] = "owner" <=> role[a] = "owner"
      /\ \A b \in Accounts \ {a} : role'[b] = role[b] /\ disabled'[b] = disabled[b]
      /\ \A t \in Subjects \ {s} : identity'[t] = identity[t]
      /\ call'[c].pc \in {"audit", "finish"}
      /\ \A d \in Calls \ {c} : call'[d] = call[d]
  BY CommitWrites
<1>2. call[c] \in Call
  BY DEF IInv, TypeOK
<1>3. [Reopened(c) EXCEPT !.pc = "audit"] \in Call /\ Finishing \in Call
  BY <1>2, IdleType DEF Reopened, Finishing, Idle, Call, Roles
<1>4. TypeOK'
  BY <1>1, <1>2, <1>3 DEF Commit, IInv, TypeOK, Call, Excluded, SameSubject
<1>5. call'[c].pc = "audit" => call'[c].subject = s /\ call'[c].email = call[c].email
  BY <1>2 DEF Commit, Finishing, Idle, Reopened, IInv, TypeOK, Call
<1>6. Asked'
  BY <1>1, <1>5 DEF IInv, Asked
<1>7. ASSUME NEW d \in Calls \ doomed', call'[d].pc = "commit" PROVE Knows(d)'
  <2>1. d # c /\ call'[d] = call[d] /\ call[d].pc = "commit"
    BY <1>1, <1>7
  <2>2. d \notin doomed /\ call[d].account # a /\ call[d].subject # s
    BY <1>7, <2>1 DEF Commit, Excluded, SameSubject
  <2>3. call[d].account \in Accounts /\ call[d].subject \in Subjects /\ Knows(d)
    BY <2>1, <2>2 DEF IInv, Asked, Current
  <2>. QED
    BY <1>1, <2>1, <2>2, <2>3 DEF Knows
<1>. QED
  BY <1>4, <1>6, <1>7 DEF IInv, Current

LEMMA DisableKeepsIInv ==
    ASSUME IInv, NEW c \in Calls, Disable(c) PROVE IInv'
<1>1. /\ call[c].pc = "disable" /\ call[c].account \in Accounts
      /\ call' = [call EXCEPT ![c] = Finishing]
      /\ disabled' = [disabled EXCEPT ![call[c].account] = TRUE]
      /\ doomed' = doomed \union Excluded(call[c].account)
      /\ UNCHANGED <<email, role, identity, mapping>>
  BY DEF Disable, IInv, Asked
<1>2. Finishing \in Call /\ Finishing.pc = "finish"
  BY IdleType DEF Finishing, Idle, Call
<1>3. call'[c].pc = "finish" /\ \A d \in Calls \ {c} : call'[d] = call[d]
  BY <1>1, <1>2 DEF IInv, TypeOK
<1>4. TypeOK'
  BY <1>1, <1>2 DEF IInv, TypeOK, Excluded
<1>5. Asked'
  BY <1>3 DEF IInv, Asked
<1>6. ASSUME NEW d \in Calls \ doomed', call'[d].pc = "commit" PROVE Knows(d)'
  <2>1. d # c /\ call'[d] = call[d] /\ call[d].pc = "commit"
    BY <1>3, <1>6
  <2>2. d \notin doomed /\ call[d].account # call[c].account
    BY <1>1, <1>6, <2>1 DEF Excluded
  <2>3. call[d].account \in Accounts /\ Knows(d)
    BY <2>1, <2>2 DEF IInv, Asked, Current
  <2>. QED
    BY <1>1, <2>1, <2>2, <2>3 DEF Knows, IInv, TypeOK
<1>. QED
  BY <1>4, <1>5, <1>6 DEF IInv, Current

LEMMA ChangeRoleKeepsIInv ==
    ASSUME IInv, NEW o \in Accounts, NEW a \in Accounts, NEW w \in Roles, ChangeRole(o, a, w)
    PROVE  IInv'
<1>1. TypeOK'
  BY DEF ChangeRole, IInv, TypeOK, Excluded
<1>2. Asked'
  BY DEF ChangeRole, IInv, Asked
<1>3. ASSUME NEW d \in Calls \ doomed', call'[d].pc = "commit" PROVE Knows(d)'
  <2>1. call' = call /\ disabled' = disabled /\ identity' = identity
        /\ role' = [role EXCEPT ![a] = w]
    BY DEF ChangeRole
  <2>2. d \notin doomed /\ (role[a] = w \/ call[d].account # a)
    BY <1>3, <2>1 DEF ChangeRole, Excluded
  <2>3. call[d].account \in Accounts /\ Knows(d)
    BY <1>3, <2>1, <2>2 DEF IInv, Asked, Current
  <2>. QED
    BY <2>1, <2>2, <2>3 DEF Knows, IInv, TypeOK
<1>. QED
  BY <1>1, <1>2, <1>3 DEF IInv, Current

LEMMA NextIInv == IInv /\ [Next]_vars => IInv'
<1>. SUFFICES ASSUME IInv, [Next]_vars PROVE IInv'
  OBVIOUS
<1>1. ASSUME NEW c \in Calls, NEW s \in Subjects, NEW e \in Emails, NEW G \in SUBSET Groups,
             NEW active \in BOOLEAN, Login(c, s, e, G) \/ Scim(c, s, e, G, active)
      PROVE  IInv'
  <2>. DEFINE f == [Idle EXCEPT !.pc = "begin", !.subject = s, !.email = e, !.groups = G]
              g == [f EXCEPT !.active = active]
  <2>1. PICK h \in {f, g} : call' = [call EXCEPT ![c] = h]
    <3>1. CASE Login(c, s, e, G)
      BY <3>1 DEF Login
    <3>2. CASE Scim(c, s, e, G, active)
      BY <3>2 DEF Scim, Idle
    <3>. QED
      BY <1>1, <3>1, <3>2
  <2>2. h \in Call /\ h.pc = "begin" /\ h.subject = s /\ h.email = e
    <3>1. f \in Call
      BY IdleType, ZenonT(60) DEF Call
    <3>2. g \in Call
      BY <3>1, ZenonT(60) DEF Call
    <3>. QED
      BY <2>1, <3>1, <3>2 DEF Idle
  <2>. HIDE DEF f, g
  <2>3. /\ call' \in [Calls -> Call] /\ call'[c] = h
        /\ \A d \in Calls \ {c} : call'[d] = call[d]
    BY <2>1, <2>2 DEF IInv, TypeOK
  <2>4. UNCHANGED <<email, role, disabled, identity, mapping, doomed>>
    BY <1>1 DEF Login, Scim
  <2>. QED
    BY <2>2, <2>3, <2>4, OutsideTransaction
<1>2. ASSUME NEW c \in Calls, NEW s \in Subjects, FindDisable(c, s) PROVE IInv'
  <2>. DEFINE f == [Idle EXCEPT !.pc = "disable", !.account = identity[s]]
  <2>1. f \in Call /\ f.pc = "disable" /\ f.account \in Accounts
    BY <1>2, IdleType DEF FindDisable, Idle, Call, IInv, TypeOK
  <2>2. call' = [call EXCEPT ![c] = f]
    BY <1>2 DEF FindDisable
  <2>. HIDE DEF f
  <2>3. /\ call' \in [Calls -> Call] /\ call'[c] = f
        /\ \A d \in Calls \ {c} : call'[d] = call[d]
    BY <2>1, <2>2 DEF IInv, TypeOK
  <2>4. UNCHANGED <<email, role, disabled, identity, mapping, doomed>>
    BY <1>2 DEF FindDisable
  <2>. QED
    BY <2>1, <2>3, <2>4, OutsideTransaction
<1>3. ASSUME NEW c \in Calls, Read(c) PROVE IInv'
  BY <1>3, ReadKeepsIInv
<1>4. ASSUME NEW c \in Calls, Commit(c) PROVE IInv'
  BY <1>4, CommitKeepsIInv
<1>5. ASSUME NEW c \in Calls, Abort(c) \/ AuditConflict(c) PROVE IInv'
  <2>1. call[c].pc \in {"commit", "audit"} /\ Conflict(c)
    BY <1>5 DEF Abort, AuditConflict
  <2>2. /\ doomed' \in {doomed, doomed \ {c}}
        /\ UNCHANGED <<email, role, disabled, identity, mapping>>
    BY <1>5 DEF Abort, AuditConflict
  <2>. QED
    BY <2>1, <2>2, ConflictMoves, OutsideTransaction
<1>6. ASSUME NEW c \in Calls, AuditMapping(c) \/ Finish(c) \/ Fail(c) PROVE IInv'
  <2>1. PICK f \in {Idle, Finishing} : call' = [call EXCEPT ![c] = f]
    BY <1>6 DEF AuditMapping, Finish, Fail
  <2>2. f \in Call /\ f.pc \in {"idle", "finish"}
    BY IdleType DEF Idle, Finishing, Call
  <2>3. /\ call' \in [Calls -> Call] /\ call'[c] = f
        /\ \A d \in Calls \ {c} : call'[d] = call[d]
    BY <2>1, <2>2 DEF IInv, TypeOK
  <2>4. /\ doomed' \in {doomed, doomed \ {c}}
        /\ UNCHANGED <<email, role, disabled, identity, mapping>>
    BY <1>6 DEF AuditMapping, Finish, Fail
  <2>. QED
    BY <2>2, <2>3, <2>4, OutsideTransaction
<1>7. ASSUME NEW c \in Calls, Disable(c) PROVE IInv'
  BY <1>7, DisableKeepsIInv
<1>8. ASSUME NEW o \in Accounts, NEW a \in Accounts, NEW w \in Roles, ChangeRole(o, a, w)
      PROVE  IInv'
  BY <1>8, ChangeRoleKeepsIInv
<1>9. ASSUME NEW a \in Accounts, NEW e \in Emails, Signup(a, e) PROVE IInv'
  BY <1>9 DEF Signup, IInv, TypeOK, Asked, Current, Knows
<1>10. ASSUME NEW g \in Groups, NEW w \in {"admin", "member"}, Sync(g, w) PROVE IInv'
  BY <1>10 DEF Sync, IInv, TypeOK, Asked, Current, Knows
<1>11. CASE UNCHANGED vars
  BY <1>11 DEF vars, IInv, TypeOK, Asked, Current, Knows
<1>. QED
  BY <1>1, <1>2, <1>3, <1>4, <1>5, <1>6, <1>7, <1>8, <1>9, <1>10, <1>11 DEF Next, Step

\* The variables of EnterpriseIdentity keep their types.
THEOREM TypeCorrect == Spec => []TypeOK
<1>1. IInv => TypeOK
  BY DEF IInv
<1>. QED
  BY InitIInv, NextIInv, <1>1, PTL DEF Spec

-----------------------------------------------------------------------------

\* A subject stays linked to its account, through later e-mails and racing logins.
THEOREM SubjectKept == Spec => SubjectKeepsAccount
<1>1. IInv /\ [Next]_vars =>
          [\A s \in Subjects : identity[s] # NoAccount => identity'[s] = identity[s]]_vars
  <2>. SUFFICES ASSUME IInv, [Next]_vars, NEW s \in Subjects, identity[s] # NoAccount
                PROVE  identity'[s] = identity[s]
    OBVIOUS
  <2>1. ASSUME NEW c \in Calls, Commit(c) PROVE identity'[s] = identity[s]
    BY <2>1, CommitWrites DEF Knows
  <2>. QED
    BY <2>1 DEF Next, Step, Login, Scim, FindDisable, Read, Abort, AuditMapping, AuditConflict,
                Disable, Finish, Fail, ChangeRole, Signup, Sync, vars
<1>. QED
  BY InitIInv, NextIInv, <1>1, PTL DEF Spec, SubjectKeepsAccount

\* Only a call that has seen the account disabled enables it again.
THEOREM DeactivationKept == Spec => NoLostDeactivation
<1>. DEFINE Enabler(a) == \E c \in Calls :
                /\ call[c].pc = "commit" /\ call'[c].pc \in {"audit", "finish"}
                /\ call[c].account = a /\ call[c].sawDisabled
<1>1. IInv /\ [Next]_vars =>
          [\A a \in Accounts : disabled[a] /\ ~disabled'[a] => Enabler(a)]_vars
  <2>. SUFFICES ASSUME IInv, [Next]_vars, NEW a \in Accounts, disabled[a], ~disabled'[a]
                PROVE  Enabler(a)
    OBVIOUS
  <2>1. ASSUME NEW c \in Calls, Commit(c) PROVE Enabler(a)
    <3>1. call[c].account = a /\ Knows(c) /\ call'[c].pc \in {"audit", "finish"}
      BY <2>1, CommitWrites
    <3>. QED
      BY <2>1, <3>1 DEF Knows, Commit
  <2>2. ASSUME NEW c \in Calls, Disable(c) PROVE FALSE
    BY <2>2 DEF Disable, IInv, TypeOK, Asked
  <2>. QED
    BY <2>1, <2>2 DEF Next, Step, Login, Scim, FindDisable, Read, Abort, AuditMapping,
                      AuditConflict, Finish, Fail, ChangeRole, Signup, Sync, vars
<1>. QED
  BY InitIInv, NextIInv, <1>1, PTL DEF Spec, NoLostDeactivation

-----------------------------------------------------------------------------

\* A role update is a step of the registry.
LEMMA ChangeRoleImplements ==
    ASSUME IInv, NEW o \in Accounts, NEW a \in Accounts, NEW w \in Roles, ChangeRole(o, a, w)
    PROVE  Registry!Next
<1>. DEFINE v == IF w = "owner" THEN "owner" ELSE "member"
<1>1. Ownership' = [Ownership EXCEPT ![a] = v]
  BY DEF ChangeRole, Ownership, IInv, TypeOK
<1>2. Registry!ChangeRole(o, a, v)
  BY <1>1 DEF ChangeRole, Ownership, Registry!ChangeRole
<1>. QED
  BY <1>2 DEF Registry!Next

\* Provisioning leaves the ownership alone: only role updates change it.
THEOREM OwnershipKept == Spec => OwnersOnlyByOwners
<1>1. Init => Registry!Init
  BY DEF Init, Registry!Init, Ownership, Roles
<1>2. IInv /\ [Next]_vars => [Registry!Next]_Ownership
  <2>. SUFFICES ASSUME IInv, [Next]_vars PROVE Registry!Next \/ Ownership' = Ownership
    OBVIOUS
  <2>1. ASSUME NEW c \in Calls, Commit(c) PROVE Ownership' = Ownership
    BY <2>1, CommitWrites DEF Ownership
  <2>2. ASSUME NEW o \in Accounts, NEW a \in Accounts, NEW w \in Roles, ChangeRole(o, a, w)
        PROVE  Registry!Next
    BY <2>2, ChangeRoleImplements
  <2>. QED
    BY <2>1, <2>2 DEF Next, Step, Login, Scim, FindDisable, Read, Abort, AuditMapping,
                      AuditConflict, Disable, Finish, Fail, Signup, Sync, vars, Ownership
<1>. QED
  BY InitIInv, NextIInv, <1>1, <1>2, PTL DEF Spec, OwnersOnlyByOwners, Registry!Spec

-----------------------------------------------------------------------------
-----------------------------------------------------------------------------
\* ScimDirectory

\* What is named by a request at each of its points.
Names(q, users, groups) ==
    /\ q.pc \in {"read", "write"} => q.user \in Users /\ q.want \subseteq UserGroups
    /\ q.pc = "read" => q.attempt < Attempts
    /\ q.pc \in {"upsert", "find", "delete", "create"} => q.user = None /\ q.group \in UserGroups
    /\ q.pc \in {"find", "delete", "create"} => q.group \in groups
    /\ q.pc \in {"delete", "create"} => q.want \subseteq users
    /\ q.pc = "done" => q.user \in Users \/ (q.user = None /\ q.group \in UserGroups)

\* The pairs that a request has had its way with by now: those without a row that
\* are to have none once a group request has deleted, those that a user request
\* need not change, all of them at the end.
Due(q) == {p \in Scope(q) : \/ q.pc = "done"
                            \/ q.pc = "create" /\ p \notin Wants(q)
                            \/ q.pc = "write" /\ (p[2] \in q.mine <=> p \in Wants(q))}

DirInv == /\ DirectoryTypeOK
          /\ \A r \in Requests : Names(req[r], linked, group) /\ Due(req[r]) \subseteq req[r].held

-----------------------------------------------------------------------------

LEMMA ScopeOfPairs ==
    ASSUME NEW q \in Request, NEW users, NEW groups, Names(q, users, groups),
           Decided(q)
    PROVE  Scope(q) \subseteq Users \X UserGroups
BY DirectoryNoneAssumption DEF Names, Decided, Scope

\* What Observe does to one request.
LEMMA ObservedOne ==
    ASSUME NEW q \in Request, NEW users, NEW groups, Names(q, users, groups), NEW rows,
           \A p \in Due(q) : p \in q.held \/ (p \in rows <=> p \in Wants(q)),
           NEW o,
           o = IF Decided(q)
               THEN [q EXCEPT !.held = @ \union {p \in Scope(q) : p \in rows <=> p \in Wants(q)}]
               ELSE q
    PROVE  o \in Request /\ Names(o, users, groups) /\ Due(o) \subseteq o.held
<1>. DEFINE seen == {p \in Scope(q) : p \in rows <=> p \in Wants(q)}
            h == q.held \union seen
<1>1. CASE ~Decided(q)
  BY <1>1 DEF Decided, Due
<1>2. CASE Decided(q)
  <2>1. h \subseteq Users \X UserGroups
    BY <1>2, ScopeOfPairs DEF Request
  <2>2. Due(q) \subseteq h
    BY DEF Due
  <2>. HIDE DEF h
  <2>3. o = [q EXCEPT !.held = h]
    BY <1>2 DEF h
  <2>4. /\ o.pc = q.pc /\ o.user = q.user /\ o.group = q.group /\ o.want = q.want
        /\ o.mine = q.mine /\ o.attempt = q.attempt /\ o.held = h
    BY <2>3 DEF Request
  <2>5. o \in Request
    BY <2>1, <2>3 DEF Request
  <2>6. Due(o) = Due(q)
    BY <2>4 DEF Due, Scope, Wants
  <2>. QED
    BY <2>2, <2>4, <2>5, <2>6 DEF Names
<1>. QED
  BY <1>1, <1>2

\* A step that is right but for what the requests see of it.
LEMMA ObservedAll ==
    ASSUME NEW R \in [Requests -> Request], req' = Observe(R, member'),
           linked' \subseteq Users, group' \subseteq UserGroups, member' \subseteq linked' \X group',
           \A r \in Requests :
              /\ Names(R[r], linked', group')
              /\ \A p \in Due(R[r]) : p \in R[r].held \/ (p \in member' <=> p \in Wants(R[r]))
    PROVE  DirInv'
<1>1. ASSUME NEW r \in Requests
      PROVE  req'[r] \in Request /\ Names(req'[r], linked', group') /\ Due(req'[r]) \subseteq req'[r].held
  <2>1. req'[r] = IF Decided(R[r])
                  THEN [R[r] EXCEPT !.held = @ \union {p \in Scope(R[r]) :
                                                         p \in member' <=> p \in Wants(R[r])}]
                  ELSE R[r]
    BY DEF Observe
  <2>. QED
    BY <2>1, ObservedOne
<1>2. req' \in [Requests -> Request]
  BY <1>1 DEF Observe
<1>. QED
  BY <1>1, <1>2 DEF DirInv, DirectoryTypeOK

\* What others do takes nothing away.
LEMMA NamesStay ==
    ASSUME NEW q \in Request, Names(q, linked, group), linked \subseteq linked', group \subseteq group'
    PROVE  Names(q, linked', group')
BY DEF Names

\* A step that rewrites one request.
LEMMA SetKeeps ==
    ASSUME DirInv, NEW r \in Requests, NEW q \in Request, Set(r, q),
           linked \subseteq linked', group \subseteq group',
           linked' \subseteq Users, group' \subseteq UserGroups, member' \subseteq linked' \X group',
           Names(q, linked', group'),
           \A p \in Due(q) : p \in q.held \/ (p \in member' <=> p \in Wants(q))
    PROVE  DirInv'
<1>. DEFINE R == [req EXCEPT ![r] = q]
<1>1. R \in [Requests -> Request]
  BY DEF DirInv, DirectoryTypeOK
<1>2. ASSUME NEW s \in Requests
      PROVE  /\ Names(R[s], linked', group')
             /\ \A p \in Due(R[s]) : p \in R[s].held \/ (p \in member' <=> p \in Wants(R[s]))
  <2>1. CASE s = r
    BY <2>1 DEF DirInv, DirectoryTypeOK
  <2>2. CASE s # r
    <3>1. R[s] = req[s] /\ req[s] \in Request
      BY <2>2 DEF DirInv, DirectoryTypeOK
    <3>. QED
      BY <3>1, NamesStay DEF DirInv
  <2>. QED
    BY <2>1, <2>2
<1>3. req' = Observe(R, member')
  BY DEF Set
<1>. QED
  BY <1>1, <1>2, <1>3, ObservedAll

LEMMA DirInit == DirectoryInit => DirInv
<1>. SUFFICES ASSUME DirectoryInit PROVE DirInv
  OBVIOUS
<1>1. NoRequest \in Request /\ ~Decided(NoRequest)
  BY DirectoryAttemptsAssumption DEF NoRequest, Request, Decided
<1>2. Names(NoRequest, linked, group) /\ Due(NoRequest) = {}
  BY DEF NoRequest, Names, Due
<1>. QED
  BY <1>1, <1>2 DEF DirectoryInit, DirInv, DirectoryTypeOK

\* A request that ends, or is repeated, or begins.
LEMMA QuietSteps ==
    ASSUME DirInv, NEW r \in Requests,
           \/ AbortWrite(r) \/ FailRequest(r) \/ EndRequest(r) \/ UpsertGroup(r) \/ Find(r)
           \/ \E u \in Users, gs \in SUBSET UserGroups : SendUser(r, u, gs)
           \/ \E g \in UserGroups, values \in SUBSET Values : SendGroup(r, g, values)
    PROVE  DirInv'
<1>. USE DEF DirInv, DirectoryTypeOK
<1>1. NoRequest \in Request /\ Names(NoRequest, linked', group') /\ Due(NoRequest) = {}
  BY DirectoryAttemptsAssumption DEF NoRequest, Request, Names, Due
<1>2. CASE FailRequest(r) \/ EndRequest(r)
  <2>1. Set(r, NoRequest) /\ UNCHANGED <<linked, group, member>>
    BY <1>2 DEF FailRequest, EndRequest
  <2>. QED
    BY <1>1, <2>1, SetKeeps
<1>3. CASE AbortWrite(r)
  <2>1. CASE req[r].attempt < Attempts
    <3>. DEFINE q == [req[r] EXCEPT !.pc = "read"]
    <3>1. Set(r, q) /\ UNCHANGED <<linked, group, member>>
      BY <1>3, <2>1 DEF AbortWrite
    <3>2. q \in Request /\ Names(q, linked', group') /\ Due(q) = {}
      BY <1>3, <2>1, <3>1 DEF AbortWrite, Request, Names, Due
    <3>. QED
      BY <3>1, <3>2, SetKeeps
  <2>2. CASE ~(req[r].attempt < Attempts)
    <3>1. Set(r, NoRequest) /\ UNCHANGED <<linked, group, member>>
      BY <1>3, <2>2 DEF AbortWrite
    <3>. QED
      BY <1>1, <3>1, SetKeeps
  <2>. QED
    BY <2>1, <2>2
<1>4. CASE UpsertGroup(r)
  <2>. DEFINE q == [req[r] EXCEPT !.pc = "find"]
  <2>1. /\ Set(r, q) /\ linked' = linked /\ member' = member
        /\ group' = group \union {req[r].group} /\ req[r].group \in UserGroups /\ req[r].user = None
    BY <1>4 DEF UpsertGroup, Names
  <2>2. q \in Request /\ Names(q, linked', group') /\ Due(q) = {}
    BY <2>1 DEF Request, Names, Due
  <2>. QED
    BY <2>1, <2>2, SetKeeps
<1>5. CASE Find(r)
  <2>. DEFINE want == Found(req[r].members)
              q == [req[r] EXCEPT !.pc = "delete", !.want = want, !.members = {}]
  <2>1. /\ Set(r, q) /\ UNCHANGED <<linked, group, member>>
        /\ req[r].group \in group /\ req[r].user = None
    BY <1>5 DEF Find, Names
  <2>2. want \subseteq linked
    BY DEF Found
  <2>. HIDE DEF want
  <2>3. want \in SUBSET (Users \union UserGroups) /\ {} \in SUBSET Values
    BY <2>2
  <2>4. q \in Request
    BY <2>3, ZenonT(60) DEF Request
  <2>5. q.pc = "delete" /\ q.user = None /\ q.group = req[r].group /\ q.want = want
    BY <2>1 DEF Request
  <2>6. Names(q, linked', group') /\ Due(q) = {}
    BY <2>1, <2>2, <2>5 DEF Names, Due
  <2>. QED
    BY <2>1, <2>4, <2>6, SetKeeps
<1>6. ASSUME NEW u \in Users, NEW gs \in SUBSET UserGroups, SendUser(r, u, gs)
      PROVE  DirInv'
  <2>. DEFINE q == [NoRequest EXCEPT !.pc = "read", !.user = u, !.want = gs]
  <2>1. Set(r, q) /\ UNCHANGED <<linked, group, member>>
    BY <1>6 DEF SendUser
  <2>2. u \in Users \union {None} /\ gs \in SUBSET (Users \union UserGroups)
    OBVIOUS
  <2>3. q \in Request
    BY <1>1, <2>2, ZenonT(60) DEF Request
  <2>4. q.pc = "read" /\ q.user = u /\ q.want = gs /\ q.attempt = 0
    BY DEF NoRequest
  <2>. HIDE DEF q
  <2>5. Names(q, linked', group') /\ Due(q) = {}
    BY <2>4, DirectoryAttemptsAssumption DEF Names, Due
  <2>. QED
    BY <2>1, <2>3, <2>5, SetKeeps
<1>7. ASSUME NEW g \in UserGroups, NEW values \in SUBSET Values, SendGroup(r, g, values)
      PROVE  DirInv'
  <2>. DEFINE q == [NoRequest EXCEPT !.pc = "upsert", !.group = g, !.members = values]
  <2>1. Set(r, q) /\ UNCHANGED <<linked, group, member>>
    BY <1>7 DEF SendGroup
  <2>2. g \in UserGroups \union {None}
    OBVIOUS
  <2>3. q \in Request
    BY <1>1, <2>2, ZenonT(60) DEF Request
  <2>4. q.pc = "upsert" /\ q.user = None /\ q.group = g
    BY DEF NoRequest
  <2>. HIDE DEF q
  <2>5. Names(q, linked', group') /\ Due(q) = {}
    BY <2>4, DirectoryAttemptsAssumption DEF Names, Due
  <2>. QED
    BY <2>1, <2>3, <2>5, SetKeeps
<1>. QED
  BY <1>2, <1>3, <1>4, <1>5, <1>6, <1>7

LEMMA SnapshotType ==
    ASSUME NEW x \in Request, NEW n \in 0..Attempts, NEW gs \in SUBSET UserGroups,
           NEW mine \in SUBSET UserGroups
    PROVE  [x EXCEPT !.pc = "write", !.attempt = n, !.stale = FALSE,
                     !.groups = gs, !.mine = mine, !.held = {}] \in Request
<1>1. {} \in SUBSET (Users \X UserGroups)
  OBVIOUS
<1>. QED
  BY <1>1, ZenonT(60) DEF Request

\* The snapshot: what is as it is to be counts from here.
LEMMA ReadKeeps ==
    ASSUME DirInv, NEW r \in Requests, ReadGroups(r)
    PROVE  DirInv'
<1>. USE DEF DirInv, DirectoryTypeOK
<1>. DEFINE n == req[r].attempt + 1
            mine == {g \in UserGroups : <<req[r].user, g>> \in member}
            q == [req[r] EXCEPT !.pc = "write", !.attempt = n, !.stale = FALSE,
                                !.groups = group, !.mine = mine, !.held = {}]
<1>1. /\ Set(r, q) /\ UNCHANGED <<linked, group, member>>
      /\ req[r].user \in Users /\ req[r].want \subseteq UserGroups /\ req[r].user # None
  BY DirectoryNoneAssumption DEF ReadGroups, Names
<1>2. n \in 0..Attempts
  BY DirectoryAttemptsAssumption DEF ReadGroups, Names, Request
<1>. HIDE DEF n
<1>3. \A g \in UserGroups : g \in mine <=> <<req[r].user, g>> \in member
  OBVIOUS
<1>4. mine \subseteq UserGroups
  OBVIOUS
<1>. HIDE DEF mine
<1>5. group \in SUBSET UserGroups /\ mine \in SUBSET UserGroups /\ req[r] \in Request
  BY <1>4
<1>6. q.pc = "write" /\ q.user = req[r].user /\ q.mine = mine /\ q.want = req[r].want
  BY DEF Request
<1>7. q \in Request
  BY <1>2, <1>5, SnapshotType
<1>8. Names(q, linked', group')
  BY <1>1, <1>6 DEF Names
<1>9. ASSUME NEW p \in Due(q) PROVE p \in member' <=> p \in Wants(q)
  <2>1. PICK g \in UserGroups : p = <<req[r].user, g>>
    BY <1>1, <1>6 DEF Due, Scope
  <2>. QED
    BY <1>1, <1>3, <1>6, <2>1 DEF Due
<1>. QED
  BY <1>1, <1>7, <1>8, <1>9, SetKeeps

\* The deletion of a group request: the pairs without a row that are to have none.
LEMMA DeleteKeeps ==
    ASSUME DirInv, NEW r \in Requests, DeleteOthers(r)
    PROVE  DirInv'
<1>. USE DEF DirInv, DirectoryTypeOK
<1>. DEFINE q == [req[r] EXCEPT !.pc = "create"]
<1>1. /\ Set(r, q) /\ linked' = linked /\ group' = group
      /\ member' = member \ Deleted(req[r])
      /\ req[r].user = None /\ req[r].group \in UserGroups
  BY DEF DeleteOthers, Names
<1>2. q \in Request /\ Names(q, linked', group')
  BY <1>1 DEF DeleteOthers, Request, Names
<1>3. q.pc = "create" /\ q.user = None /\ q.group = req[r].group /\ q.want = req[r].want
  BY <1>1 DEF Request
<1>4. ASSUME NEW p \in Due(q) PROVE p \in member' <=> p \in Wants(q)
  <2>1. p \notin Wants(q) /\ p \in Scope(q)
    BY <1>3 DEF Due
  <2>2. PICK u \in Users : p = <<u, q.group>> /\ u \notin q.want
    BY <1>3, <2>1 DEF Wants, Scope
  <2>. QED
    BY <1>1, <1>3, <2>1, <2>2 DEF Deleted
<1>. QED
  BY <1>1, <1>2, <1>4, SetKeeps

\* The insertion: the others.
LEMMA CreateKeeps ==
    ASSUME DirInv, NEW r \in Requests, CreateMembers(r)
    PROVE  DirInv'
<1>. USE DEF DirInv, DirectoryTypeOK
<1>. DEFINE q == [req[r] EXCEPT !.pc = "done"]
<1>1. /\ Set(r, q) /\ linked' = linked /\ group' = group /\ req[r].pc = "create"
      /\ member' = member \union (req[r].want \X {req[r].group})
      /\ req[r].user = None /\ req[r].group \in group /\ req[r].want \subseteq linked
  BY DEF CreateMembers, Names
<1>2. q \in Request /\ Names(q, linked', group')
  BY <1>1 DEF Request, Names
<1>3. /\ q.user = None /\ q.group = req[r].group /\ q.want = req[r].want /\ q.held = req[r].held
  BY <1>1 DEF Request
<1>4. Scope(q) = Scope(req[r]) /\ Wants(q) = Wants(req[r])
  BY <1>1, <1>3 DEF Scope, Wants
<1>5. ASSUME NEW p \in Due(q) PROVE p \in q.held \/ (p \in member' <=> p \in Wants(q))
  <2>1. p \in Scope(req[r])
    BY <1>4 DEF Due
  <2>2. CASE p \in Wants(q)
    BY <1>1, <1>4, <2>2 DEF Wants
  <2>3. CASE p \notin Wants(q)
    BY <1>1, <1>3, <1>4, <2>1, <2>3 DEF Due
  <2>. QED
    BY <2>2, <2>3
<1>6. member' \subseteq linked' \X group'
  BY <1>1
<1>. QED
  BY <1>1, <1>2, <1>5, <1>6, SetKeeps

\* The writes of a user transaction: what was not as it is to be at its snapshot.
LEMMA WriteKeeps ==
    ASSUME DirInv, NEW r \in Requests, Write(r)
    PROVE  DirInv'
<1>. USE DEF DirInv, DirectoryTypeOK
<1>. DEFINE w == req[r]
            stale(s) == req[s].stale \/ (req[s].user = w.user /\ req[s].pc = "write")
            done == [w EXCEPT !.pc = "done"]
            R == [s \in Requests |-> IF s = r THEN done ELSE [req[s] EXCEPT !.stale = stale(s)]]
<1>1. /\ w.pc = "write" /\ w \in Request
      /\ linked' = linked \union {w.user} /\ group' = group \union w.want
      /\ member' = (member \ ({w.user} \X Removed(w))) \union ({w.user} \X w.want)
      /\ w.user \in Users /\ w.want \subseteq UserGroups /\ w.user # None
  BY DirectoryNoneAssumption DEF Write, Names
<1>2. req' = Observe(R, member')
  BY DEF Write
<1>3. member' \subseteq linked' \X group' /\ linked' \subseteq Users /\ group' \subseteq UserGroups
  BY <1>1
<1>4. /\ done \in Request /\ done.pc = "done" /\ done.user = w.user /\ done.want = w.want
      /\ done.held = w.held
  BY <1>1 DEF Request
<1>5. Names(done, linked', group')
  BY <1>1, <1>4 DEF Names
<1>6. ASSUME NEW p \in Due(done) PROVE p \in done.held \/ (p \in member' <=> p \in Wants(done))
  <2>1. PICK g \in UserGroups : p = <<w.user, g>>
    BY <1>1, <1>4 DEF Due, Scope
  <2>2. p \in Wants(done) <=> g \in w.want
    BY <1>1, <1>4, <2>1 DEF Wants
  <2>3. CASE g \in w.want
    BY <1>1, <2>1, <2>2, <2>3
  <2>4. CASE g \notin w.want /\ g \in w.mine
    BY <1>1, <2>1, <2>2, <2>4 DEF Removed
  <2>5. CASE g \notin w.want /\ g \notin w.mine
    <3>1. p \in Due(w)
      BY <1>1, <2>1, <2>5 DEF Due, Scope, Wants
    <3>. QED
      BY <1>4, <3>1
  <2>. QED
    BY <2>3, <2>4, <2>5
<1>7. ASSUME NEW s \in Requests, s # r
      PROVE  /\ R[s] \in Request /\ Names(R[s], linked', group')
             /\ \A p \in Due(R[s]) : p \in R[s].held
  <2>. DEFINE b == stale(s)
              o == [req[s] EXCEPT !.stale = b]
  <2>1. b \in BOOLEAN /\ req[s] \in Request
    BY DEF Request
  <2>. HIDE DEF b
  <2>2. R[s] = o
    BY <1>7 DEF b
  <2>3. /\ o \in Request /\ o.pc = req[s].pc /\ o.user = req[s].user /\ o.group = req[s].group
        /\ o.want = req[s].want /\ o.mine = req[s].mine /\ o.attempt = req[s].attempt
        /\ o.held = req[s].held
    BY <2>1 DEF Request
  <2>4. Names(o, linked', group')
    BY <1>1, <2>3 DEF Names
  <2>5. Due(o) = Due(req[s])
    BY <2>3 DEF Due, Scope, Wants
  <2>. QED
    BY <2>2, <2>3, <2>4, <2>5
<1>8. R[r] = done
  OBVIOUS
<1>. HIDE DEF done
<1>9. R \in [Requests -> Request]
  BY <1>4, <1>7
<1>. HIDE DEF R
<1>. QED
  BY <1>2, <1>3, <1>5, <1>6, <1>7, <1>8, <1>9, ObservedAll

LEMMA DirNext == DirInv /\ [DirectoryNext]_directoryVars => DirInv'
<1>1. ASSUME DirInv, UNCHANGED directoryVars PROVE DirInv'
  BY <1>1 DEF directoryVars, DirInv, DirectoryTypeOK, Names, Due, Scope, Wants
<1>. QED
  BY <1>1, QuietSteps, ReadKeeps, DeleteKeeps, CreateKeeps, WriteKeeps
     DEF DirectoryNext, RequestStep, FinishUser, FinishGroup

\* A membership is of a user with an identity in a group that exists, as its two
\* foreign keys have it (syncEnterpriseMemberships, upsertScimGroup).
THEOREM DirTypeCorrect == DirectorySpec => []DirectoryTypeOK
<1>1. DirInv => DirectoryTypeOK
  BY DEF DirInv
<1>. QED
  BY DirInit, DirNext, <1>1, PTL DEF DirectorySpec

\* A user or group request that is done has had its way with each membership it is
\* about, at some moment while it was under way (TookEffect).
THEOREM RequestsTakeEffect == DirectorySpec => []TookEffect
<1>1. DirInv => TookEffect
  BY DEF DirInv, TookEffect, Due
<1>. QED
  BY DirInit, DirNext, <1>1, PTL DEF DirectorySpec

\* No membership changes but as a request under way for its user or its group wants it:
\* the deletions and insertions of others leave it alone.
THEOREM WantedChanges == DirectorySpec => ChangesAreWanted
<1>. DEFINE Wanted == \A p \in Users \X UserGroups :
                         (p \in member) # (p \in member') =>
                            \E r \in Requests : /\ Decided(req[r]) /\ p \in Scope(req[r])
                                                /\ (p \in member') = (p \in Wants(req[r]))
<1>1. ASSUME DirInv, [DirectoryNext]_directoryVars PROVE [Wanted]_directoryVars
  <2>. SUFFICES ASSUME NEW p \in Users \X UserGroups, (p \in member) # (p \in member')
                PROVE  \E r \in Requests : /\ Decided(req[r]) /\ p \in Scope(req[r])
                                           /\ (p \in member') = (p \in Wants(req[r]))
    OBVIOUS
  <2>. USE <1>1
  <2>1. ASSUME NEW r \in Requests, DeleteOthers(r)
        PROVE  Decided(req[r]) /\ p \in Scope(req[r])
               /\ p \notin member' /\ p \notin Wants(req[r])
    BY <2>1 DEF DirInv, Names, DeleteOthers, Deleted, Decided, Scope, Wants
  <2>2. ASSUME NEW r \in Requests, CreateMembers(r)
        PROVE  Decided(req[r]) /\ p \in Scope(req[r])
               /\ p \in member' /\ p \in Wants(req[r])
    BY <2>2 DEF DirInv, Names, CreateMembers, Decided, Scope, Wants
  <2>3. ASSUME NEW r \in Requests, Write(r)
        PROVE  Decided(req[r]) /\ p \in Scope(req[r])
               /\ (p \in member') = (p \in Wants(req[r]))
    <3>1. /\ req[r].pc = "write" /\ req[r].user \in Users /\ req[r].user # None
          /\ member' = (member \ ({req[r].user} \X Removed(req[r])))
                          \union ({req[r].user} \X req[r].want)
      BY <2>3, DirectoryNoneAssumption DEF DirInv, Names, Write
    <3>2. p[1] = req[r].user
      BY <3>1
    <3>. QED
      BY <3>1, <3>2 DEF Decided, Scope, Wants, Removed
  <2>4. \/ \E r \in Requests : Write(r) \/ DeleteOthers(r) \/ CreateMembers(r)
        \/ member' = member
    BY DEF DirectoryNext, RequestStep, ReadGroups, AbortWrite, FailRequest, UpsertGroup, Find, FinishUser,
           FinishGroup, EndRequest, SendUser, SendGroup, directoryVars
  <2>. QED
    BY <2>1, <2>2, <2>3, <2>4
<1>. QED
  BY DirInit, DirNext, <1>1, PTL DEF DirectorySpec, ChangesAreWanted
=============================================================================
