--------------------------- MODULE OwnerRegistry ---------------------------
(***************************************************************************)
(* What the role administration of the template promises, with every       *)
(* detail of requests, transactions and retries left out: roles change one *)
(* user at a time, each change is made by somebody who is an owner at that *)
(* very moment, and the last owner is never demoted.  RoleAdmin implements *)
(* this specification.                                                     *)
(***************************************************************************)

CONSTANTS Users,    \* the accounts; the code never deletes one
          Roles     \* the roles, "owner" among them

VARIABLE role       \* role[u] is the column "role" of u's row

\* Seed/setup has run: there is an owner from the start.
Init == /\ role \in [Users -> Roles]
        /\ \E u \in Users : role[u] = "owner"

\* An owner a gives user u the role w.
ChangeRole(a, u, w) ==
    /\ role[a] = "owner"
    /\ role[u] = "owner" /\ w # "owner" => \E v \in Users \ {u} : role[v] = "owner"
    /\ role' = [role EXCEPT ![u] = w]

Next == \E a, u \in Users, w \in Roles : ChangeRole(a, u, w)

Spec == Init /\ [][Next]_role
=============================================================================
