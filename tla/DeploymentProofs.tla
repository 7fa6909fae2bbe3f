-------------------------- MODULE DeploymentProofs --------------------------
(***************************************************************************)
(* Proofs about Deployment, for any slugs, application environments and    *)
(* instances, and about Bootstrap, for any accounts, addresses, jobs and   *)
(* attempts.                                                               *)
(*                                                                         *)
(* The properties of the instances rest on what an instance has written by *)
(* the time it is up: the rows of its slugs are there for good, since no   *)
(* row is removed (There), and they hold its own values as long as no      *)
(* other environment has written since (Own).  A deployed instance that    *)
(* has accepted its environment names such a row as its default provider.  *)
(***************************************************************************)
EXTENDS Deployment, Bootstrap, FiniteSetTheorems, TLAPS

Validated == \A i \in Instances : inst[i] # Down => Accepted(inst[i].env)

There ==
    \A i \in Instances :
        LET e == inst[i].env IN
        /\ inst[i].pc \in {"saml", "up"} /\ Trim(e.oidc) # None => row[Trim(e.oidc)].type # "none"
        /\ Up(i) /\ Trim(e.saml) # None => row[Trim(e.saml)].type # "none"

Own ==
    \A i \in Instances \ overridden :
        LET e == inst[i].env IN
        /\ inst[i].pc \in {"saml", "up"} /\ Trim(e.oidc) # None =>
               /\ row[Trim(e.oidc)].scim = e.scim
               /\ Trim(e.oidc) # Trim(e.saml) => row[Trim(e.oidc)].type = "oidc"
        /\ Up(i) /\ Trim(e.saml) # None => row[Trim(e.saml)].scim = e.scim

IInv == TypeOK /\ Validated /\ There /\ Own

-----------------------------------------------------------------------------

LEMMA Trimmed ==
    ASSUME NEW e \in Environments
    PROVE  /\ Trim(e.oidc) \in Slugs \union {None}
           /\ Trim(e.saml) \in Slugs \union {None}
           /\ Trim(e.default) \in Slugs \union {None}
BY NamesAssumption DEF Environments, Trim

LEMMA InitIInv == Init => IInv
<1>. SUFFICES ASSUME Init PROVE IInv
  OBVIOUS
<1>1. [type |-> "none", scim |-> FALSE] \in Row
  BY DEF Row
<1>2. TypeOK
  BY <1>1 DEF Init, TypeOK
<1>3. \A i \in Instances : inst[i] = Down /\ inst[i].pc = "down"
  BY DEF Init, Down
<1>. QED
  BY <1>2, <1>3 DEF IInv, Validated, There, Own, Up

LEMMA StartKeepsIInv ==
    ASSUME IInv, NEW i \in Instances, NEW e \in AcceptedEnvironments, Start(i, e) PROVE IInv'
<1>. DEFINE h == [pc |-> IF Enterprise(e) THEN "oidc" ELSE "up", env |-> e]
<1>1. /\ h \in Instance /\ h.env = e /\ h.pc \in {"oidc", "up"}
      /\ h.pc = "up" => Trim(e.oidc) = None /\ Trim(e.saml) = None
  BY DEF Instance, Enterprise, AcceptedEnvironments, Configured, Unset, Trim
<1>2. inst' = [inst EXCEPT ![i] = h]
  BY DEF Start
<1>. HIDE DEF h
<1>3. inst'[i] = h /\ \A j \in Instances \ {i} : inst'[j] = inst[j]
  BY <1>2 DEF IInv, TypeOK
<1>4. TypeOK'
  BY <1>1, <1>2 DEF Start, IInv, TypeOK
<1>5. Validated'
  BY <1>1, <1>3 DEF Start, IInv, Validated, AcceptedEnvironments
<1>6. There' /\ Own'
  BY <1>1, <1>3 DEF Start, IInv, There, Own, Up
<1>. QED
  BY <1>4, <1>5, <1>6 DEF IInv

LEMMA StopKeepsIInv == ASSUME IInv, NEW i \in Instances, Stop(i) PROVE IInv'
<1>1. inst'[i] = Down /\ \A j \in Instances \ {i} : inst'[j] = inst[j]
  BY DEF Stop, IInv, TypeOK
<1>2. TypeOK'
  BY DEF Stop, IInv, TypeOK
<1>3. Validated' /\ There' /\ Own'
  BY <1>1 DEF Stop, IInv, Validated, There, Own, Up, Down
<1>. QED
  BY <1>2, <1>3 DEF IInv

\* Another environment overrides a row, or has other ones; instances of the same one
\* write the same.
LEMMA SyncKeepsIInv ==
    ASSUME IInv, NEW i \in Instances, SyncOidc(i) \/ SyncSaml(i) PROVE IInv'
<1>1. PICK e \in Environments : inst[i].env = e
  <2>1. inst[i] # Down
    BY DEF SyncOidc, SyncSaml, SyncOne, Down
  <2>. QED
    BY <2>1 DEF IInv, TypeOK, Instance
<1>2. PICK p \in {"oidc", "saml"} : inst[i].pc = p
  BY DEF SyncOidc, SyncSaml, SyncOne
<1>. DEFINE slug == IF p = "oidc" THEN Trim(e.oidc) ELSE Trim(e.saml)
            next == IF p = "oidc" THEN "saml" ELSE "up"
            w == [type |-> p, scim |-> e.scim]
<1>3. /\ IF slug = None THEN UNCHANGED <<row, overridden>>
         ELSE /\ row' = [row EXCEPT ![slug] = w]
              /\ overridden' = overridden \union
                    {j \in Instances \ {i} : /\ inst[j] # Down /\ inst[j].env # e
                                             /\ slug \in {Trim(inst[j].env.oidc),
                                                          Trim(inst[j].env.saml)}}
      /\ inst' = [inst EXCEPT ![i].pc = next]
  BY <1>1, <1>2 DEF SyncOidc, SyncSaml, SyncOne
<1>4. /\ Trim(e.oidc) \in Slugs \union {None} /\ Trim(e.saml) \in Slugs \union {None}
      /\ e.scim \in BOOLEAN /\ slug \in Slugs \union {None} /\ next \in {"saml", "up"}
  BY Trimmed DEF Environments
<1>5. w \in Row /\ w.type = p /\ w.scim = e.scim
  BY <1>4 DEF Row
<1>6. p = "oidc" => slug = Trim(e.oidc) /\ next = "saml"
  OBVIOUS
<1>7. p = "saml" => slug = Trim(e.saml) /\ next = "up"
  OBVIOUS
<1>. DEFINE h == [inst[i] EXCEPT !.pc = next]
<1>8. h \in Instance /\ h.pc = next /\ h.env = e
  <2>1. inst[i] \in Instance
    BY <1>2 DEF IInv, TypeOK, Down
  <2>. QED
    BY <1>1, <1>4, <2>1 DEF Instance
<1>9. inst' = [inst EXCEPT ![i] = h]
  BY <1>3
<1>. HIDE DEF slug, next, w, h
<1>10. inst'[i] = h /\ \A j \in Instances \ {i} : inst'[j] = inst[j]
  BY <1>9 DEF IInv, TypeOK
<1>11. TypeOK'
  BY <1>3, <1>4, <1>5, <1>8, <1>9 DEF IInv, TypeOK
<1>12. Validated'
  <2>1. inst[i] # Down
    BY <1>2 DEF Down
  <2>. QED
    BY <1>1, <1>8, <1>10, <2>1 DEF IInv, Validated
<1>13. \A s \in Slugs : row'[s] = row[s] \/ (s = slug /\ slug # None /\ row'[s] = w)
  BY <1>3 DEF IInv, TypeOK
<1>14. slug # None => row'[slug] = w
  BY <1>3, <1>4 DEF IInv, TypeOK
<1>15. \A j \in Instances : inst[j].pc \in {"oidc", "saml", "up"} => inst[j].env \in Environments
  BY DEF IInv, TypeOK, Instance, Down
<1>16. There'
  <2>. SUFFICES ASSUME NEW j \in Instances, NEW f, f = inst'[j].env,
                       inst'[j].pc \in {"saml", "up"}
                PROVE  /\ Trim(f.oidc) # None => row'[Trim(f.oidc)].type # "none"
                       /\ inst'[j].pc = "up" /\ Trim(f.saml) # None => row'[Trim(f.saml)].type # "none"
    BY DEF There, Up
  <2>1. \A s \in Slugs : row[s].type # "none" => row'[s].type # "none"
    BY <1>2, <1>5, <1>13
  <2>2. CASE j # i
    <3>1. f \in Environments /\ inst[j] = inst'[j]
      BY <1>10, <1>15, <2>2
    <3>2. Trim(f.oidc) \in Slugs \union {None} /\ Trim(f.saml) \in Slugs \union {None}
      BY <3>1, Trimmed
    <3>. QED
      BY <2>1, <3>1, <3>2 DEF IInv, There, Up
  <2>3. CASE j = i
    <3>1. f = e /\ inst'[j].pc = next
      BY <1>8, <1>10, <2>3
    <3>2. slug # None => row'[slug].type # "none"
      BY <1>2, <1>5, <1>14
    <3>3. CASE p = "oidc"
      BY <1>6, <3>1, <3>2, <3>3
    <3>4. CASE p = "saml"
      <4>1. Trim(e.oidc) # None => row[Trim(e.oidc)].type # "none"
        BY <1>1, <1>2, <3>4 DEF IInv, There
      <4>. QED
        BY <1>4, <1>7, <2>1, <3>1, <3>2, <3>4, <4>1
    <3>. QED
      BY <1>2, <3>3, <3>4
  <2>. QED
    BY <2>2, <2>3
<1>17. Own'
  <2>. SUFFICES ASSUME NEW j \in Instances \ overridden', NEW f, f = inst'[j].env,
                       inst'[j].pc \in {"saml", "up"}
                PROVE  /\ Trim(f.oidc) # None =>
                             /\ row'[Trim(f.oidc)].scim = f.scim
                             /\ Trim(f.oidc) # Trim(f.saml) => row'[Trim(f.oidc)].type = "oidc"
                       /\ inst'[j].pc = "up" /\ Trim(f.saml) # None => row'[Trim(f.saml)].scim = f.scim
    BY DEF Own, Up
  <2>1. j \notin overridden
    BY <1>3
  <2>2. CASE slug = None
    <3>1. CASE j # i
      BY <1>3, <1>10, <2>1, <2>2, <3>1 DEF IInv, Own, Up
    <3>2. CASE j = i
      <4>1. f = e /\ inst'[j].pc = next
        BY <1>8, <1>10, <3>2
      <4>. QED
        BY <1>1, <1>2, <1>3, <1>6, <1>7, <2>1, <2>2, <3>2, <4>1 DEF IInv, Own
    <3>. QED
      BY <3>1, <3>2
  <2>3. CASE slug # None /\ f # e
    <3>1. j # i /\ inst[j] = inst'[j] /\ inst[j] # Down
      BY <1>8, <1>10, <2>3 DEF Down
    <3>2. slug \notin {Trim(f.oidc), Trim(f.saml)}
      BY <1>3, <2>3, <3>1
    <3>3. Trim(f.oidc) \in Slugs \union {None} /\ Trim(f.saml) \in Slugs \union {None}
      BY <1>15, <3>1, Trimmed
    <3>4. /\ Trim(f.oidc) # None => row'[Trim(f.oidc)] = row[Trim(f.oidc)]
          /\ Trim(f.saml) # None => row'[Trim(f.saml)] = row[Trim(f.saml)]
      BY <1>13, <3>2, <3>3
    <3>. QED
      BY <2>1, <3>1, <3>4 DEF IInv, Own, Up
  <2>4. CASE slug # None /\ f = e
    <3>1. f = e
      BY <2>4
    <3>2. row'[slug].scim = e.scim /\ row'[slug].type = p
      BY <1>5, <1>14, <2>4
    <3>3. inst[j].env = e
      BY <1>1, <1>10, <3>1
    <3>4. CASE p = "oidc"
      <4>1. Trim(e.saml) # None /\ inst'[j].pc = "up" => row'[Trim(e.saml)].scim = e.scim
        <5>. SUFFICES ASSUME Trim(e.saml) # None, inst'[j].pc = "up"
                      PROVE  row'[Trim(e.saml)].scim = e.scim
          OBVIOUS
        <5>1. j # i /\ inst[j].pc = "up"
          BY <1>6, <1>8, <1>10, <3>4
        <5>2. row[Trim(e.saml)].scim = e.scim
          BY <2>1, <3>3, <5>1 DEF IInv, Own, Up
        <5>. QED
          BY <1>4, <1>5, <1>13, <5>2
      <4>. QED
        BY <1>6, <2>4, <3>1, <3>2, <3>4, <4>1
    <3>5. CASE p = "saml"
      <4>1. inst[j].pc \in {"saml", "up"}
        BY <1>2, <1>10, <3>5
      <4>2. Trim(e.oidc) # None => /\ row[Trim(e.oidc)].scim = e.scim
                                   /\ Trim(e.oidc) # Trim(e.saml) => row[Trim(e.oidc)].type = "oidc"
        BY <2>1, <3>3, <4>1 DEF IInv, Own
      <4>3. Trim(e.oidc) # None => /\ row'[Trim(e.oidc)].scim = e.scim
                                   /\ Trim(e.oidc) # Trim(e.saml) => row'[Trim(e.oidc)].type = "oidc"
        BY <1>4, <1>5, <1>7, <1>13, <3>5, <4>2
      <4>. QED
        BY <1>7, <3>1, <3>2, <3>5, <4>3
    <3>. QED
      BY <1>2, <3>4, <3>5
  <2>. QED
    BY <2>2, <2>3, <2>4
<1>. QED
  BY <1>11, <1>12, <1>16, <1>17 DEF IInv

LEMMA StepIInv == IInv /\ [Next]_vars => IInv'
<1>. SUFFICES ASSUME IInv, [Next]_vars PROVE IInv'
  OBVIOUS
<1>1. CASE UNCHANGED vars
  BY <1>1 DEF vars, IInv, TypeOK, Validated, There, Own, Up
<1>2. ASSUME NEW i \in Instances, NEW e \in AcceptedEnvironments, Start(i, e) PROVE IInv'
  BY <1>2, StartKeepsIInv
<1>3. ASSUME NEW i \in Instances, SyncOidc(i) \/ SyncSaml(i) \/ Stop(i) PROVE IInv'
  BY <1>3, SyncKeepsIInv, StopKeepsIInv
<1>. QED
  BY <1>1, <1>2, <1>3 DEF Next

LEMMA Inductive == Spec => []IInv
BY InitIInv, StepIInv, PTL DEF Spec

\* An instance that is up and names a default provider, blanks apart, names one of
\* its own, whose row is there.
LEMMA DefaultIsThere ==
    ASSUME IInv, NEW i \in Instances, Up(i), NEW e \in Environments, inst[i].env = e,
           Accepted(e), Trim(e.default) # None
    PROVE  /\ Trim(e.default) \in {Trim(e.oidc), Trim(e.saml)}
           /\ Trim(e.default) \in Listed /\ DefaultSlug(e) = {Trim(e.default)}
<1>1. e.default \in {e.oidc, e.saml}
  BY DEF Accepted, DefaultMatches, Trim, Unset
<1>2. Trim(e.default) \in Slugs
  BY Trimmed
<1>3. row[Trim(e.default)].type # "none"
  BY <1>1 DEF IInv, There, Up
<1>. QED
  BY <1>1, <1>2, <1>3 DEF Listed, DefaultSlug

LEMMA UpEnvironment ==
    ASSUME IInv, NEW i \in Instances, Up(i)
    PROVE  inst[i].env \in Environments /\ Accepted(inst[i].env)
<1>1. inst[i] # Down
  BY DEF Up, Down
<1>. QED
  BY <1>1 DEF IInv, TypeOK, Validated, Instance

-----------------------------------------------------------------------------

\* The variables of Deployment keep their types.
THEOREM TypeCorrect == Spec => []TypeOK
<1>1. IInv => TypeOK
  BY DEF IInv
<1>. QED
  BY <1>1, Inductive, PTL

\* Whatever environments, of any number of instances, are accepted and in whatever
\* order they write their rows, each instance that is up and offers no password form,
\* or refuses passwords, offers a provider of its own, unless all that it configures is blank
\* (validateEnvironment, syncConfiguredProviders, listProviders).
THEOREM WayIn == Spec => []OffersAWayIn
<1>1. IInv => OffersAWayIn
  <2>. SUFFICES ASSUME IInv, NEW i \in Instances, Up(i), NEW e, e = inst[i].env,
                       Enforced(e) \/ ~PasswordRoutesOpen(e),
                       {Trim(e.oidc), Trim(e.saml)} \intersect Listed = {}
                PROVE  {e.oidc, e.saml} \ {Unset} = {Blank}
    BY DEF OffersAWayIn
  <2>1. e \in Environments /\ Accepted(e)
    BY UpEnvironment
  <2>2. Deployed(e)
    BY <2>1, AppEnvAssumption
       DEF Enforced, PasswordRoutesOpen, RoutesEnforced, Deployed, Environments
  <2>3. {e.oidc, e.saml} # {Unset}
    BY <2>1, <2>2
       DEF Accepted, ProvidersConfigured, Enforced, PasswordRoutesOpen, RoutesEnforced, Enterprise
  <2>4. Trim(e.oidc) = None /\ Trim(e.saml) = None
    <3>1. /\ Trim(e.oidc) \in Slugs \union {None}
          /\ Trim(e.saml) \in Slugs \union {None}
      BY <2>1, Trimmed
    <3>2. /\ Trim(e.oidc) # None => Trim(e.oidc) \in Listed
          /\ Trim(e.saml) # None => Trim(e.saml) \in Listed
      BY <3>1 DEF Listed, IInv, There, Up
    <3>. QED
      BY <3>2
  <2>5. \A n \in Names : Trim(n) = None => n = Unset \/ n = Blank
    BY NamesAssumption DEF Trim, Unset, Blank
  <2>6. e.oidc \in Names /\ e.saml \in Names /\ Unset # Blank
    BY <2>1 DEF Environments, Unset, Blank
  <2>. QED
    BY <2>3, <2>4, <2>5, <2>6
<1>. QED
  BY <1>1, Inductive, PTL

\* What an environment names as its default provider, trimmed, is offered, and it is
\* its OIDC provider and the one of SCIM until another environment writes its rows
\* (syncConfiguredProviders, getScimProvider).
THEOREM ServedSo == Spec => []ServedAsConfigured
<1>1. IInv => ServedAsConfigured
  <2>. SUFFICES ASSUME IInv, NEW i \in Instances, Up(i), NEW e, e = inst[i].env
                PROVE  /\ Trim(e.default) # None => DefaultSlug(e) = {Trim(e.default)}
                       /\ i \notin overridden /\ Deployed(e) =>
                             /\ Trim(e.oidc) \notin {None, Trim(e.saml)} =>
                                   \A s \in DefaultSlug(e) : row[s].type = "oidc"
                             /\ e.scim /\ Trim(e.default) # None =>
                                   ScimProviders(e) = {Trim(e.default)}
    BY DEF ServedAsConfigured
  <2>1. e \in Environments /\ Accepted(e)
    BY UpEnvironment
  <2>2. Trim(e.default) # None =>
           /\ Trim(e.default) \in {Trim(e.oidc), Trim(e.saml)}
           /\ Trim(e.default) \in Listed /\ DefaultSlug(e) = {Trim(e.default)}
    BY <2>1, DefaultIsThere
  <2>3. ASSUME i \notin overridden, Deployed(e), Trim(e.oidc) \notin {None, Trim(e.saml)}
        PROVE  \A s \in DefaultSlug(e) : row[s].type = "oidc"
    <3>1. row[Trim(e.oidc)].type = "oidc"
      BY <2>3 DEF IInv, Own, Up
    <3>2. Configured(e.oidc)
      BY <2>3 DEF Configured, Trim, Unset
    <3>3. Configured(e.default)
      BY <2>1, <2>3, <3>2 DEF Accepted, ProvidersConfigured, Enterprise
    <3>4. e.default = e.oidc
      BY <2>1, <2>3, <3>2, <3>3 DEF Accepted, DefaultIsOidc, DefaultMatches, Configured
    <3>. QED
      BY <2>2, <2>3, <3>1, <3>4
  <2>4. ASSUME i \notin overridden, e.scim, Trim(e.default) # None
        PROVE  ScimProviders(e) = {Trim(e.default)}
    <3>1. row[Trim(e.default)].scim
      BY <2>2, <2>4 DEF IInv, Own, Up
    <3>2. Trim(e.default) \in Slugs
      BY <2>2, <2>4 DEF Listed
    <3>. QED
      BY <2>2, <2>4, <3>1, <3>2 DEF ScimProviders
  <2>. QED
    BY <2>2, <2>3, <2>4
<1>. QED
  BY <1>1, Inductive, PTL

-----------------------------------------------------------------------------
\* The seed job, which every deployment runs before its instances.  A job that can
\* still commit has read that there is no bootstrap owner, and that is still so
\* (Unbound); so the first one that commits is the only one.  From then on each job
\* that gets past the check has named the address that this owner had all the time,
\* unless it was changed (Passed).

SeedTypes ==
    /\ account \in [Accounts -> Account]
    /\ bootstrap \in Existing \union {NoAccount}
    /\ job \in [Jobs -> Job]
    /\ past \in Past

Unique == \A a, b \in Existing : account[a].email = account[b].email => a = b

Unbound == \A j \in Jobs : job[j].pc = "write" /\ ~job[j].stale => bootstrap = NoAccount

Passed ==
    /\ bootstrap = NoAccount => past.made = {} /\ past.passed = {}
    /\ bootstrap # NoAccount =>
          /\ past.made \subseteq {bootstrap}
          /\ past.renamed \/ past.passed \subseteq {account[bootstrap].email}

SeedIInv == SeedTypes /\ Unique /\ Unbound /\ Passed /\ OwnersLostBySeedOnly

-----------------------------------------------------------------------------

LEMMA IdleType == Idle \in Job /\ Idle.pc = "idle" /\ ~Idle.stale /\ Idle.attempt = 1
BY DefaultEmailAssumption, MaxAttemptsAssumption DEF Idle, Job

LEMMA SeedInitIInv == SeedInit => SeedIInv
<1>. SUFFICES ASSUME SeedInit PROVE SeedIInv
  OBVIOUS
<1>1. [role |-> "none", email |-> DefaultEmail] \in Account
  BY DefaultEmailAssumption DEF Account, Roles
<1>2. [made |-> {}, passed |-> {}, renamed |-> FALSE, demoted |-> FALSE] \in Past
  BY DEF Past
<1>3. SeedTypes
  BY <1>1, <1>2, IdleType DEF SeedInit, SeedTypes
<1>4. Existing = {}
  BY DEF SeedInit, Existing
<1>. QED
  BY <1>3, <1>4, IdleType
     DEF SeedInit, SeedIInv, Unique, Unbound, Passed, OwnersLostBySeedOnly

\* What writing an account does to the table.
LEMMA Written ==
    ASSUME SeedIInv, NEW a \in Accounts, NEW role \in Roles, NEW e \in Emails, Write(a, role, e)
    PROVE  /\ account' \in [Accounts -> Account]
           /\ account'[a] = [role |-> role, email |-> e]
           /\ \A b \in Accounts \ {a} : account'[b] = account[b]
           /\ Existing' = Existing \union {a}
           /\ Unique'
<1>1. [role |-> role, email |-> e] \in Account
  BY DEF Account
<1>2. /\ account'[a] = [role |-> role, email |-> e]
      /\ \A b \in Accounts \ {a} : account'[b] = account[b]
  BY DEF Write, SeedIInv, SeedTypes
<1>3. account' \in [Accounts -> Account]
  BY <1>1 DEF Write, SeedIInv, SeedTypes
<1>4. Existing' = Existing \union {a}
  BY <1>2 DEF Existing, Roles
<1>5. Unique'
  <2>. SUFFICES ASSUME NEW b \in Existing', NEW c \in Existing',
                       account'[b].email = account'[c].email
                PROVE  b = c
    BY DEF Unique
  <2>1. \A d \in Existing : account[d].email = e => d = a
    BY DEF Write, Holders
  <2>2. b \in Accounts /\ c \in Accounts
    BY DEF Existing
  <2>. QED
    BY <1>2, <1>4, <2>1, <2>2 DEF SeedIInv, Unique
<1>. QED
  BY <1>2, <1>3, <1>4, <1>5

\* Marking snapshots as stale excludes jobs and nothing else.
LEMMA StaleJobs ==
    ASSUME NEW jobs \in [Jobs -> Job], NEW a
    PROVE  /\ Stale(jobs, a) \in [Jobs -> Job]
           /\ \A j \in Jobs : /\ Stale(jobs, a)[j].pc = jobs[j].pc
                              /\ jobs[j].stale => Stale(jobs, a)[j].stale
<1>1. \A j \in Jobs : /\ [jobs[j] EXCEPT !.stale = TRUE] \in Job
                      /\ [jobs[j] EXCEPT !.stale = TRUE].pc = jobs[j].pc
                      /\ [jobs[j] EXCEPT !.stale = TRUE].stale = TRUE
  BY DEF Job
<1>. QED
  BY <1>1 DEF Stale

\* A step that leaves accounts and the bootstrap owner alone, and opens no snapshot.
LEMMA JobMoves ==
    ASSUME SeedIInv, NEW j \in Jobs, NEW h \in Job, h.pc \in {"idle", "begin"},
           job' = [job EXCEPT ![j] = h], UNCHANGED <<account, bootstrap, past>>
    PROVE  SeedIInv'
<1>1. job'[j] = h /\ \A k \in Jobs \ {j} : job'[k] = job[k]
  BY DEF SeedIInv, SeedTypes
<1>2. SeedTypes'
  BY DEF SeedIInv, SeedTypes, Existing
<1>3. Unbound'
  BY <1>1 DEF SeedIInv, Unbound
<1>. QED
  BY <1>2, <1>3 DEF SeedIInv, Unique, Existing, Passed, OwnersLostBySeedOnly, Owners

LEMMA BeginKeepsIInv ==
    ASSUME SeedIInv, NEW j \in Jobs, NEW e \in Emails, Begin(j, e) PROVE SeedIInv'
<1>. DEFINE h == [Idle EXCEPT !.pc = "begin", !.email = e]
<1>1. h \in Job /\ h.pc = "begin"
  BY IdleType DEF Job
<1>. HIDE DEF h
<1>2. job' = [job EXCEPT ![j] = h]
  BY DEF Begin, h
<1>. QED
  BY <1>1, <1>2, JobMoves DEF Begin

LEMMA AbortKeepsIInv == ASSUME SeedIInv, NEW j \in Jobs, Abort(j) PROVE SeedIInv'
<1>1. CASE job[j].attempt = MaxAttempts
  BY <1>1, IdleType, JobMoves DEF Abort
<1>2. CASE job[j].attempt # MaxAttempts
  <2>. DEFINE n == job[j].attempt + 1
  <2>1. n \in 1..MaxAttempts /\ job[j].email \in Emails
    BY <1>2, MaxAttemptsAssumption DEF SeedIInv, SeedTypes, Job
  <2>. HIDE DEF n
  <2>. DEFINE h == [Idle EXCEPT !.pc = "begin", !.email = job[j].email, !.attempt = n]
  <2>2. h \in Job /\ h.pc = "begin"
    BY <2>1, IdleType DEF Job
  <2>3. job' = [job EXCEPT ![j] = h]
    BY <1>2 DEF Abort, n
  <2>. HIDE DEF h
  <2>. QED
    BY <2>2, <2>3, JobMoves DEF Abort
<1>. QED
  BY <1>1, <1>2

LEMMA FailKeepsIInv == ASSUME SeedIInv, NEW j \in Jobs, Fail(j) PROVE SeedIInv'
BY IdleType, JobMoves DEF Fail

\* A job that reads finds no bootstrap owner, or one with the address it names.
LEMMA ReadOwnerKeepsIInv == ASSUME SeedIInv, NEW j \in Jobs, ReadOwner(j) PROVE SeedIInv'
<1>0. job[j] \in Job /\ job[j].email \in Emails
  BY DEF SeedIInv, SeedTypes, Job
<1>1. CASE bootstrap = NoAccount
  <2>1. PICK a \in Accounts \union {NoAccount} :
            job' = [job EXCEPT ![j].pc = "write", ![j].found = a, ![j].stale = FALSE]
    BY <1>1 DEF ReadOwner, Holders, Existing
  <2>. DEFINE h == [job[j] EXCEPT !.pc = "write", !.found = a, !.stale = FALSE]
  <2>2. h \in Job
    BY <1>0 DEF Job
  <2>3. job' = [job EXCEPT ![j] = h]
    BY <2>1 DEF SeedIInv, SeedTypes
  <2>. HIDE DEF h
  <2>4. UNCHANGED <<account, bootstrap, past>>
    BY <1>1 DEF ReadOwner
  <2>5. SeedTypes'
    BY <2>2, <2>3, <2>4 DEF SeedIInv, SeedTypes, Existing
  <2>. QED
    BY <1>1, <2>4, <2>5
       DEF SeedIInv, Unique, Existing, Unbound, Passed, OwnersLostBySeedOnly, Owners
<1>2. CASE bootstrap # NoAccount /\ Mismatch(j)
  BY <1>2, IdleType, JobMoves DEF ReadOwner
<1>3. CASE bootstrap # NoAccount /\ ~Mismatch(j)
  <2>. DEFINE h == [job[j] EXCEPT !.pc = "users"]
              p == [past EXCEPT !.passed = past.passed \union {job[j].email}]
  <2>1. h \in Job /\ h.pc = "users"
    BY <1>0 DEF Job
  <2>2. /\ p \in Past /\ p.made = past.made /\ p.renamed = past.renamed
        /\ p.demoted = past.demoted /\ p.passed = past.passed \union {job[j].email}
    BY <1>0 DEF SeedIInv, SeedTypes, Past
  <2>3. job' = [job EXCEPT ![j] = h] /\ past' = p /\ UNCHANGED <<account, bootstrap>>
    BY <1>3 DEF ReadOwner
  <2>. HIDE DEF h, p
  <2>4. job'[j] = h /\ \A k \in Jobs \ {j} : job'[k] = job[k]
    BY <2>3 DEF SeedIInv, SeedTypes
  <2>5. SeedTypes'
    BY <2>1, <2>2, <2>3 DEF SeedIInv, SeedTypes, Existing
  <2>6. Unbound'
    BY <2>1, <2>3, <2>4 DEF SeedIInv, Unbound
  <2>7. Passed'
    BY <1>3, <2>2, <2>3 DEF SeedIInv, Passed, Mismatch
  <2>8. OwnersLostBySeedOnly'
    BY <2>2, <2>3 DEF SeedIInv, OwnersLostBySeedOnly, Owners
  <2>. QED
    BY <2>3, <2>5, <2>6, <2>7, <2>8 DEF SeedIInv, Unique, Existing
<1>. QED
  BY <1>1, <1>2, <1>3

\* The first commit binds the owner and excludes every other open transaction.
LEMMA CommitOwnerKeepsIInv ==
    ASSUME SeedIInv, NEW j \in Jobs, NEW a \in Accounts, CommitOwner(j, a) PROVE SeedIInv'
<1>. DEFINE e == job[j].email
<1>0. job[j] \in Job /\ e \in Emails /\ job[j].pc = "write"
  BY DEF CommitOwner, SeedIInv, SeedTypes, Job
<1>1. bootstrap = NoAccount /\ bootstrap' = a /\ a # NoAccount
  BY NoAccountAssumption DEF CommitOwner, Excluded, SeedIInv, Unbound
<1>2. past.made = {} /\ past.passed = {}
  BY <1>1 DEF SeedIInv, Passed
<1>. DEFINE p == [past EXCEPT !.made = past.made \union {a}, !.passed = past.passed \union {e}]
<1>3. /\ p \in Past /\ p.made = {a} /\ p.passed = {e} /\ past' = p
  BY <1>0, <1>2 DEF CommitOwner, SeedIInv, SeedTypes, Past
<1>. HIDE DEF p
<1>4. Write(a, "owner", e)
  BY DEF CommitOwner, SeededRole
<1>5. PICK x \in Emails : x = e
  BY <1>0
<1>6. /\ account' \in [Accounts -> Account]
      /\ account'[a] = [role |-> "owner", email |-> x]
      /\ \A b \in Accounts \ {a} : account'[b] = account[b]
      /\ Existing' = Existing \union {a}
      /\ Unique'
  <2>1. "owner" \in Roles
    BY DEF Roles
  <2>. HIDE DEF e
  <2>. QED
    BY <1>4, <1>5, <2>1, Written
<1>7. \A k \in Jobs : job'[k] \in Job /\ (job'[k].pc = "write" => job'[k].stale)
  <2>. SUFFICES ASSUME NEW k \in Jobs
                PROVE  job'[k] \in Job /\ (job'[k].pc = "write" => job'[k].stale)
    OBVIOUS
  <2>1. job[k] \in Job
    BY DEF SeedIInv, SeedTypes
  <2>2. CASE k = j
    <3>1. job'[k] = [job[j] EXCEPT !.pc = "users", !.found = NoAccount]
      BY <2>2 DEF CommitOwner
    <3>. QED
      BY <1>0, <3>1 DEF Job
  <2>3. CASE k # j
    <3>. DEFINE b == job[k].stale \/ job[k].pc = "write"
    <3>1. job'[k] = [job[k] EXCEPT !.stale = b]
      BY <2>3 DEF CommitOwner
    <3>2. b \in BOOLEAN /\ (job[k].pc = "write" => b = TRUE)
      BY <2>1 DEF Job
    <3>. HIDE DEF b
    <3>. QED
      BY <2>1, <3>1, <3>2 DEF Job
  <2>. QED
    BY <2>2, <2>3
<1>8. job' \in [Jobs -> Job]
  BY <1>7 DEF CommitOwner
<1>9. SeedTypes'
  BY <1>1, <1>3, <1>6, <1>8 DEF SeedTypes
<1>10. Unbound'
  BY <1>7 DEF Unbound
<1>11. Passed'
  BY <1>1, <1>3, <1>5, <1>6 DEF Passed
<1>12. OwnersLostBySeedOnly'
  BY <1>6 DEF OwnersLostBySeedOnly, Owners
<1>. QED
  BY <1>6, <1>9, <1>10, <1>11, <1>12 DEF SeedIInv

\* An account is written that stays the owner, or was none, or is demoted by a seed.
LEMMA AccountWritten ==
    ASSUME SeedIInv, NEW a \in Accounts, NEW r \in Roles, NEW e \in Emails, Write(a, r, e),
           NEW jobs \in [Jobs -> Job], job' = Stale(jobs, a), UNCHANGED bootstrap,
           \A j \in Jobs : jobs[j] = job[j] \/ jobs[j].pc = "idle",
           past' \in Past, past'.made = past.made, past'.passed = past.passed,
           past.renamed => past'.renamed, past.demoted => past'.demoted,
           a = bootstrap => past'.renamed \/ account[a].email = e,
           a \in Owners => past'.demoted \/ r = "owner" \/ Owners # {a}
    PROVE  SeedIInv'
<1>1. /\ account' \in [Accounts -> Account]
      /\ account'[a] = [role |-> r, email |-> e]
      /\ \A b \in Accounts \ {a} : account'[b] = account[b]
      /\ Existing' = Existing \union {a}
      /\ Unique'
  BY Written
<1>2. /\ job' \in [Jobs -> Job]
      /\ \A j \in Jobs : job'[j].pc = jobs[j].pc /\ (jobs[j].stale => job'[j].stale)
  BY StaleJobs
<1>3. SeedTypes'
  BY <1>1, <1>2 DEF SeedIInv, SeedTypes
<1>4. Unbound'
  BY <1>2 DEF SeedIInv, Unbound
<1>5. Passed'
  <2>1. bootstrap # NoAccount => bootstrap \in Accounts
    BY DEF SeedIInv, SeedTypes, Existing
  <2>. QED
    BY <1>1, <2>1 DEF SeedIInv, Passed
<1>6. OwnersLostBySeedOnly'
  <2>. SUFFICES ASSUME bootstrap # NoAccount, Owners' = {} PROVE past'.demoted
    BY DEF OwnersLostBySeedOnly
  <2>1. Owners \subseteq {a} /\ r # "owner"
    BY <1>1 DEF Owners
  <2>2. CASE Owners = {}
    BY <2>2 DEF SeedIInv, OwnersLostBySeedOnly
  <2>3. CASE Owners = {a}
    BY <2>1, <2>3
  <2>. QED
    BY <2>1, <2>2, <2>3
<1>. QED
  BY <1>1, <1>3, <1>4, <1>5, <1>6 DEF SeedIInv

LEMMA SeedUserKeepsIInv ==
    ASSUME SeedIInv, NEW j \in Jobs, NEW a \in Accounts, SeedUser(j, a) PROVE SeedIInv'
<1>. DEFINE jobs == [job EXCEPT ![j] = Idle]
            d == past.demoted \/ a \in Owners
            p == [past EXCEPT !.demoted = d]
<1>1. jobs \in [Jobs -> Job] /\ \A k \in Jobs : jobs[k] = job[k] \/ jobs[k].pc = "idle"
  BY IdleType DEF SeedIInv, SeedTypes
<1>2. d \in BOOLEAN /\ (past.demoted => d) /\ (a \in Owners => d)
  BY DEF SeedIInv, SeedTypes, Past
<1>. HIDE DEF d
<1>3. /\ p \in Past /\ p.made = past.made /\ p.passed = past.passed
      /\ p.renamed = past.renamed /\ p.demoted = d
  BY <1>2 DEF SeedIInv, SeedTypes, Past
<1>4. past' = p
  BY DEF SeedUser, d
<1>5. Write(a, "admin", DefaultEmail) /\ job' = Stale(jobs, a) /\ UNCHANGED bootstrap
  BY DEF SeedUser
<1>6. a = bootstrap => account[a].email = DefaultEmail
  <2>. SUFFICES ASSUME a = bootstrap PROVE account[a].email = DefaultEmail
    OBVIOUS
  <2>1. a \in Existing
    BY NoAccountAssumption DEF SeedIInv, SeedTypes
  <2>. QED
    BY <2>1 DEF SeedUser, Holders
<1>7. "admin" \in Roles
  BY DEF Roles
<1>. HIDE DEF jobs, p
<1>. QED
  BY <1>1, <1>2, <1>3, <1>4, <1>5, <1>6, <1>7, DefaultEmailAssumption, AccountWritten

LEMMA SignUpKeepsIInv ==
    ASSUME SeedIInv, NEW a \in Accounts, NEW e \in Emails, SignUp(a, e) PROVE SeedIInv'
<1>1. a # bootstrap /\ a \notin Owners
  BY NoAccountAssumption DEF SignUp, SeedIInv, SeedTypes, Existing, Owners
<1>2. "member" \in Roles /\ job \in [Jobs -> Job] /\ past \in Past
  BY DEF Roles, SeedIInv, SeedTypes
<1>. QED
  BY <1>1, <1>2, AccountWritten DEF SignUp

LEMMA ChangeRoleKeepsIInv ==
    ASSUME SeedIInv, NEW a \in Accounts, NEW r \in Roles, ChangeRole(a, r) PROVE SeedIInv'
<1>1. account[a].email \in Emails /\ job \in [Jobs -> Job] /\ past \in Past
  BY DEF SeedIInv, SeedTypes, Account
<1>. QED
  BY <1>1, AccountWritten DEF ChangeRole

LEMMA RenameKeepsIInv ==
    ASSUME SeedIInv, NEW a \in Accounts, NEW e \in Emails, Rename(a, e) PROVE SeedIInv'
<1>. DEFINE d == past.renamed \/ a = bootstrap
            p == [past EXCEPT !.renamed = d]
<1>1. d \in BOOLEAN /\ (past.renamed => d) /\ (a = bootstrap => d)
  BY DEF SeedIInv, SeedTypes, Past
<1>. HIDE DEF d
<1>2. /\ p \in Past /\ p.made = past.made /\ p.passed = past.passed
      /\ p.renamed = d /\ p.demoted = past.demoted
  BY <1>1 DEF SeedIInv, SeedTypes, Past
<1>3. past' = p
  BY DEF Rename, d
<1>4. account[a].role \in Roles /\ job \in [Jobs -> Job]
  BY DEF Rename, Existing, SeedIInv, SeedTypes, Account
<1>5. a \in Owners => account[a].role = "owner"
  BY DEF Owners
<1>. HIDE DEF p
<1>. QED
  BY <1>1, <1>2, <1>3, <1>4, <1>5, AccountWritten DEF Rename

LEMMA SeedStepIInv == SeedIInv /\ [SeedNext]_seedVars => SeedIInv'
<1>. SUFFICES ASSUME SeedIInv, [SeedNext]_seedVars PROVE SeedIInv'
  OBVIOUS
<1>1. CASE UNCHANGED seedVars
  BY <1>1 DEF seedVars, SeedIInv, SeedTypes, Unique, Unbound, Passed, OwnersLostBySeedOnly,
              Existing, Owners
<1>2. ASSUME NEW j \in Jobs, NEW e \in Emails, Begin(j, e) PROVE SeedIInv'
  BY <1>2, BeginKeepsIInv
<1>3. ASSUME NEW j \in Jobs, ReadOwner(j) \/ Abort(j) \/ Fail(j) PROVE SeedIInv'
  BY <1>3, ReadOwnerKeepsIInv, AbortKeepsIInv, FailKeepsIInv
<1>4. ASSUME NEW j \in Jobs, NEW a \in Accounts, CommitOwner(j, a) \/ SeedUser(j, a) PROVE SeedIInv'
  BY <1>4, CommitOwnerKeepsIInv, SeedUserKeepsIInv
<1>5. ASSUME NEW a \in Accounts, NEW e \in Emails, SignUp(a, e) \/ Rename(a, e) PROVE SeedIInv'
  BY <1>5, SignUpKeepsIInv, RenameKeepsIInv
<1>6. ASSUME NEW a \in Accounts, NEW role \in Roles, ChangeRole(a, role) PROVE SeedIInv'
  BY <1>6, ChangeRoleKeepsIInv
<1>. QED
  BY <1>1, <1>2, <1>3, <1>4, <1>5, <1>6 DEF SeedNext

LEMMA SeedInductive == SeedSpec => []SeedIInv
BY SeedInitIInv, SeedStepIInv, PTL DEF SeedSpec

\* A set within one element has one at most.
LEMMA AtMostOne == ASSUME NEW S, NEW x, S \subseteq {x} PROVE Cardinality(S) <= 1
<1>1. CASE S = {}
  BY <1>1, FS_EmptySet
<1>2. CASE S = {x}
  BY <1>2, FS_Singleton
<1>. QED
  BY <1>1, <1>2

-----------------------------------------------------------------------------

\* The variables of Bootstrap keep their types, and addresses stay unique.
THEOREM SeedTypeCorrect == SeedSpec => []SeedTypeOK
<1>1. SeedIInv => SeedTypeOK
  <2>. SUFFICES ASSUME SeedIInv, NEW e \in Emails PROVE Cardinality(Holders(e)) <= 1
    BY DEF SeedTypeOK, SeedIInv, SeedTypes
  <2>1. CASE Holders(e) = {}
    BY <2>1, FS_EmptySet
  <2>2. CASE Holders(e) # {}
    <3>1. PICK a : a \in Holders(e)
      BY <2>2
    <3>2. Holders(e) \subseteq {a}
      BY <3>1 DEF Holders, SeedIInv, Unique
    <3>. QED
      BY <3>2, AtMostOne
  <2>. QED
    BY <2>1, <2>2
<1>. QED
  BY <1>1, SeedInductive, PTL

\* However many jobs race, one account is made the bootstrap owner, and only jobs
\* that name its address get past it, unless that was changed (ensureBootstrapOwner).
THEOREM OneSeeded == SeedSpec => []OneOwnerSeeded
<1>1. SeedIInv => OneOwnerSeeded
  <2>. SUFFICES ASSUME SeedIInv PROVE OneOwnerSeeded
    OBVIOUS
  <2>1. past.made \subseteq {bootstrap}
    BY DEF SeedIInv, Passed
  <2>2. past.renamed \/ past.passed \subseteq {account[bootstrap].email}
    BY DEF SeedIInv, Passed
  <2>. QED
    BY <2>1, <2>2, AtMostOne DEF OneOwnerSeeded
<1>. QED
  BY <1>1, SeedInductive, PTL

\* Owners are lost only by a seed job that overwrites the role of one (upsertSeedUser).
THEOREM OwnersStay == SeedSpec => []OwnersLostBySeedOnly
<1>1. SeedIInv => OwnersLostBySeedOnly
  BY DEF SeedIInv
<1>. QED
  BY <1>1, SeedInductive, PTL
=============================================================================
