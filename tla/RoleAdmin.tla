----------------------------- MODULE RoleAdmin -----------------------------
(***************************************************************************)
(* PATCH /admin/users/:id/role (AdminService.updateRole) together with the *)
(* owner step-up it depends on (AuthService.completeStepUp).               *)
(*                                                                         *)
(* A request keeps the role and the step-up window that the session        *)
(* middleware read when it arrived, runs up to MaxAttempts serializable    *)
(* transactions, and writes an audit entry after the commit or after the   *)
(* refusal.  Requests of several API processes interleave at every await.  *)
(*                                                                         *)
(* The database is external.  A serializable transaction of PostgreSQL     *)
(* reads one snapshot, and of two concurrent transactions that each read   *)
(* what the other writes, or that both write one row, at most one commits. *)
(* Nothing more is used: further aborts (longer cycles, false positives,   *)
(* deadlocks, all reported as P2034) are the always enabled action Abort.  *)
(*                                                                         *)
(* Time is kept as the number of ticks for which a confirmation still      *)
(* holds, so a clock and a bound on it are not needed.                     *)
(***************************************************************************)
EXTENDS Integers, FiniteSets

CONSTANTS
    Users,          \* the accounts
    Roles,          \* the roles of the schema; only "owner" is special to the code
    NoUser,         \* an id in the URL that names no account; a read-only write set
    Requests,       \* concurrent updateRole requests
    MaxAttempts,    \* the transaction attempts of one request (3 in the code)
    StepUpWindow    \* ticks for which a step-up confirmation holds

ASSUME UsersAssumption == IsFiniteSet(Users) /\ NoUser \notin Users
ASSUME RolesAssumption == {"owner", "member"} \subseteq Roles
ASSUME MaxAttemptsAssumption == MaxAttempts \in Nat \ {0}
ASSUME StepUpWindowAssumption == StepUpWindow \in Nat \ {0}

VARIABLES
    role,       \* role[u]: the role column of the user table
    stepUp,     \* stepUp[u]: ticks left of the window stored in u's session (0: none or over)
    req,        \* req[r]: what updateRole request r holds
    doomed      \* requests whose open transaction a concurrent commit has excluded

vars == <<role, stepUp, req, doomed>>

Denials == {"forbidden", "step_up_required", "owner_floor_violation", "role_conflict"}

Answers == Denials \union {"none", "ok", "not_found", "error"}

Phases == {"idle", "begin", "commit", "audit", "refuse", "done"}

Request == [ pc : Phases,
             actor : Users \union {NoUser},      \* request.currentUser
             stepUp : 0..StepUpWindow,          \* request.currentSession.stepUpAt
             target : Users \union {NoUser},
             want : Roles,                      \* dto.role
             attempt : 1..MaxAttempts,
             snap : [Users -> Roles],           \* what the transaction sees
             open : BOOLEAN,                    \* history: the window was open when the attempt began
             changed : BOOLEAN,                 \* history: a commit of r changed a role
             audited : SUBSET {"role_updated", "denied"},
             measured : BOOLEAN,                \* recordOwnershipEvent was called
             answer : Answers ]

TypeOK ==
    /\ role \in [Users -> Roles]
    /\ stepUp \in [Users -> 0..StepUpWindow]
    /\ req \in [Requests -> Request]
    /\ doomed \in SUBSET Requests

-----------------------------------------------------------------------------

Owners(f) == {u \in Users : f[u] = "owner"}

\* Slips next to the code: each "...Slip" is what a plausible bug would make of
\* the operator that follows it, kept to see that a property notices.

OwnerSensitiveSlip(r) == req[r].want = "owner"

\* isOwnerSensitiveRoleChange
OwnerSensitive(r) == role[req[r].target] = "owner" \/ req[r].want = "owner"

\* The owners are counted for a demotion of an owner, the caller included.
CountsOwners(f, r) == f[req[r].target] = "owner" /\ req[r].want # "owner"

BelowFloorSlip(r) == CountsOwners(role, r) /\ Cardinality(Owners(role)) < 1

\* ownerCount <= 1
BelowFloor(r) == CountsOwners(role, r) /\ Cardinality(Owners(role)) <= 1

\* No index covers the role column: the count reads the whole table.
Reads(r) == IF CountsOwners(req[r].snap, r) THEN Users ELSE {req[r].actor, req[r].target}

\* A request for the role the target already has returns without an update.
Writes(r) == IF req[r].snap[req[r].target] = req[r].want THEN NoUser ELSE req[r].target

ExcludesSlip(c, r) == Writes(c) # NoUser /\ Writes(c) = Writes(r)

\* Serializable isolation: the commit of c excludes that of a concurrent r when
\* both write one row, or each writes a row that the other has read.
Excludes(c, r) == \/ Writes(c) # NoUser /\ Writes(c) = Writes(r)
                  \/ Writes(c) \in Reads(r) /\ Writes(r) \in Reads(c)

\* A fresh confirmation: session.stepUpAt > now.
StepUpFresh(r) == req[r].stepUp > 0

Idle == [ pc |-> "idle", actor |-> NoUser, stepUp |-> 0, target |-> NoUser, want |-> "member",
          attempt |-> 1, snap |-> [u \in Users |-> "member"], open |-> FALSE, changed |-> FALSE,
          audited |-> {}, measured |-> FALSE, answer |-> "none" ]

\* A transaction that has ended leaves nothing of its snapshot behind.
Closed(r) == [req[r] EXCEPT !.snap = Idle.snap, !.open = FALSE]

\* The request is over; what is remembered of it is its outcome.
Over(r, a, entries) ==
    req' = [req EXCEPT ![r] = [Idle EXCEPT !.pc = "done", !.answer = a,
                                  !.attempt = req[r].attempt, !.changed = req[r].changed,
                                  !.measured = req[r].measured, !.audited = entries]]

\* The catch block: the metric of an ownership refusal; the audit entry is next.
Refused(r, a) ==
    req' = [req EXCEPT ![r] = [Closed(r) EXCEPT !.pc = "refuse", !.answer = a,
                       !.measured = a \in {"owner_floor_violation", "role_conflict"}]]

ConflictSlip(r) == req' = [req EXCEPT ![r] = [Closed(r) EXCEPT !.pc = "begin"]]

ConflictUncapped(r) ==
    req' = [req EXCEPT ![r] = [Closed(r) EXCEPT !.pc = "begin", !.attempt = @ + 1]]

\* P2034 from any call inside the try: another attempt, or role_conflict.
Conflict(r) ==
    IF req[r].attempt < MaxAttempts
    THEN req' = [req EXCEPT ![r] = [Closed(r) EXCEPT !.pc = "begin", !.attempt = @ + 1]]
    ELSE Refused(r, "role_conflict")

-----------------------------------------------------------------------------

\* Seed/setup has created an owner.
Init == /\ role \in [Users -> Roles]
        /\ Owners(role) # {}
        /\ stepUp = [u \in Users |-> 0]
        /\ req = [r \in Requests |-> Idle]
        /\ doomed = {}

\* The session middleware reads a's role and step-up window; RolesGuard and the
\* first line of updateRole refuse a caller who is no owner, without a trace.
Arrive(r, a, t, w) ==
    /\ req[r].pc = "idle"
    /\ req' = [req EXCEPT ![r] = [Idle EXCEPT
                  !.pc = IF role[a] = "owner" THEN "begin" ELSE "done",
                  !.answer = IF role[a] = "owner" THEN "none" ELSE "forbidden",
                  !.actor = a, !.stepUp = stepUp[a], !.target = t, !.want = w]]
    /\ UNCHANGED <<role, stepUp, doomed>>

\* The transaction reads its snapshot and checks it, in the order of the code.
Check(r) ==
    /\ req[r].pc = "begin"
    /\ LET q == req[r]
           confirmed == OwnerSensitive(r) => StepUpFresh(r)
       IN \/ role[q.actor] # "owner" /\ Refused(r, "forbidden")
          \/ /\ role[q.actor] = "owner" /\ q.target = NoUser
             /\ Over(r, "not_found", {})
          \/ /\ role[q.actor] = "owner" /\ q.target # NoUser
             /\ \/ ~confirmed /\ Refused(r, "step_up_required")
                \/ confirmed /\ BelowFloor(r) /\ Refused(r, "owner_floor_violation")
                \/ /\ confirmed /\ ~BelowFloor(r)
                   /\ req' = [req EXCEPT ![r].pc = "commit", ![r].snap = role,
                                         ![r].open = StepUpFresh(r)]
    /\ UNCHANGED <<role, stepUp, doomed>>

\* The update and the commit; every open transaction is concurrent with it.
Commit(r) ==
    /\ req[r].pc = "commit"
    /\ r \notin doomed
    /\ role' = [u \in Users |-> IF u = Writes(r) THEN req[r].want ELSE role[u]]
    /\ req' = [req EXCEPT ![r] = [Closed(r) EXCEPT !.pc = "audit",
                                       !.changed = @ \/ Writes(r) # NoUser]]
    /\ doomed' = (doomed \ {r}) \union
                    {s \in Requests \ {r} : req[s].pc = "commit" /\ Excludes(r, s)}
    /\ UNCHANGED stepUp

\* The database aborts the transaction with P2034.
Abort(r) ==
    /\ req[r].pc = "commit"
    /\ Conflict(r)
    /\ doomed' = doomed \ {r}
    /\ UNCHANGED <<role, stepUp>>

\* auditService.log('user.role_updated') returns, and so does updateRole.
AuditChange(r) ==
    /\ req[r].pc = "audit"
    /\ Over(r, "ok", {"role_updated"})
    /\ UNCHANGED <<role, stepUp, doomed>>

AuditConflictSlip(r) ==
    /\ req[r].pc = "audit"
    /\ Over(r, "ok", {})
    /\ UNCHANGED <<role, stepUp, doomed>>

\* auditService.log gives up on its own conflicts and rethrows P2034, inside the
\* try of updateRole: the committed change is taken for an aborted one.
AuditConflict(r) ==
    /\ req[r].pc = "audit"
    /\ Conflict(r)
    /\ doomed' = doomed \ {r}
    /\ UNCHANGED <<role, stepUp>>

\* The audit entry of the refusal, then the throw.
Refuse(r) ==
    /\ req[r].pc = "refuse"
    /\ Over(r, req[r].answer, {"denied"})
    /\ UNCHANGED <<role, stepUp, doomed>>

\* Any other error of a database call, in or out of the transaction, or the
\* end of the process: the caller learns nothing of what was done.
Fail(r) ==
    /\ req[r].pc \notin {"idle", "done"}
    /\ Over(r, "error", {})
    /\ UNCHANGED <<role, stepUp>>
    /\ doomed' = doomed \ {r}

\* The slot of an answered request is used again.
Forget(r) ==
    /\ req[r].pc = "done"
    /\ req' = [req EXCEPT ![r] = Idle]
    /\ UNCHANGED <<role, stepUp, doomed>>

\* completeStepUp for an owner whose password verifies.  The role is that of the
\* request; a demotion before the update leaves the state it leaves after it.
StepUp(u) ==
    /\ role[u] = "owner"
    /\ stepUp' = [stepUp EXCEPT ![u] = StepUpWindow]
    /\ UNCHANGED <<role, req, doomed>>

\* Time passes for the stored windows and for those that requests have read.
Less(n) == IF n > 0 THEN n - 1 ELSE 0

Tick ==
    /\ \/ \E u \in Users : stepUp[u] > 0
       \/ \E r \in Requests : req[r].stepUp > 0
    /\ stepUp' = [u \in Users |-> Less(stepUp[u])]
    /\ req' = [r \in Requests |-> [req[r] EXCEPT !.stepUp = Less(@)]]
    /\ UNCHANGED <<role, doomed>>

-----------------------------------------------------------------------------

\* The steps the server itself takes for a request it has accepted.
Serve(r) == \/ Check(r) \/ Commit(r) \/ Abort(r)
            \/ AuditChange(r) \/ AuditConflict(r) \/ Refuse(r) \/ Fail(r)

Next == \/ \E r \in Requests : \/ Serve(r) \/ Forget(r)
                               \/ \E a \in Users, t \in Users \union {NoUser}, w \in Roles :
                                      Arrive(r, a, t, w)
        \/ \E u \in Users : StepUp(u)
        \/ Tick

Spec == Init /\ [][Next]_vars

\* Node runs the continuation of every settled await, and every database call
\* settles: a request that is being served keeps moving.
FairSpec == Spec /\ \A r \in Requests : WF_vars(Serve(r))

-----------------------------------------------------------------------------

\* The role administration never leaves the system without an owner, however
\* many owners demote each other or themselves at the same time.
OwnerFloor == Owners(role) # {}

\* updateRole implements the registry: whoever changes a role is an owner when
\* the change takes effect, and not only when the request was accepted.
Registry == INSTANCE OwnerRegistry

ImplementsRegistry == Registry!Spec

\* A role becomes or stops being "owner" only through an attempt that began
\* while the confirmation window its request had read was open: an attempt
\* repeated after a conflict checks the window again.
OwnerChangesAreConfirmed ==
    [][\A u \in Users :
         role'[u] # role[u] /\ "owner" \in {role[u], role'[u]} =>
            \E r \in Requests : /\ req[r].pc = "commit" /\ req'[r].pc = "audit"
                                /\ req[r].target = u /\ req[r].open]_vars

\* The trail tells what happened to a request that was answered: success only
\* for a request whose change was audited, a role_updated entry only for one
\* that succeeded, a refusal by the catch block never without its entry.  A
\* request refused in its first attempt, or for a target that does not exist, has
\* changed no role: only a conflict of the audit trail makes one both change a
\* role and be refused (updateRole).
TrailMatchesAnswer ==
    \A r \in Requests :
        /\ req[r].pc = "done" =>
              /\ req[r].answer = "ok" <=> "role_updated" \in req[r].audited
              /\ req[r].answer \in Denials \ {"forbidden"} => req[r].audited = {"denied"}
        /\ req[r].answer \in Denials /\ req[r].attempt = 1 /\ MaxAttempts > 1 => ~req[r].changed
        /\ req[r].answer = "not_found" => ~req[r].changed

\* Every accepted request is answered: conflicts, those of the audit trail
\* included, are retried a bounded number of times.
EveryRequestAnswered ==
    \A r \in Requests : req[r].pc = "begin" ~> req[r].pc = "done"
=============================================================================
