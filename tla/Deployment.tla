----------------------------- MODULE Deployment -----------------------------
(***************************************************************************)
(* Instances of the API that start with an environment, one after another  *)
(* or side by side, and share the provider rows of one database: the       *)
(* validation of the environment, the synchronisation of the providers at  *)
(* the start, and the policy that each instance derives from both, in      *)
(* IdentityService for the sign-in page and in AuthService for the routes. *)
(***************************************************************************)
EXTENDS Naturals, FiniteSets

CONSTANTS
    Slugs,      \* provider slugs, as the rows have them
    Names,      \* what a setting of a slug may hold, see NamesAssumption
    AppEnvs,    \* values of APP_ENV
    Instances,  \* instances of the API
    None        \* not configured

ASSUME AppEnvAssumption == AppEnvs \subseteq {"local", "test", "staging", "production"}
ASSUME NoneAssumption == None \notin Slugs

\* A slug, and whether there are blanks around it, whichever they are.  Blanks alone
\* are a value; no slug and no blanks is a setting that is not there.
ASSUME NamesAssumption == Names \subseteq [slug : Slugs \union {None}, blanks : BOOLEAN]

VARIABLES
    row,        \* row[s]: the IdentityProviderConfig of slug s
    inst,       \* inst[i]: an instance
    overridden  \* history: instances one of whose rows another environment has written since

vars == <<row, inst, overridden>>

Unset == [slug |-> None, blanks |-> FALSE]
Blank == [slug |-> None, blanks |-> TRUE]

\* hasConfiguredValue, and the truth of the string: blanks count.
Configured(name) == name # Unset

\* What is left for the rows and the default provider.
Trim(name) == name.slug

\* What validateEnvironment and the policy look at.  An empty token file is no
\* token; the validation asks for a provider with it too.
Environments == [ app : AppEnvs,
                  enabled : BOOLEAN,    \* ENTERPRISE_IDENTITY_ENABLED
                  oidc : Names,         \* OIDC_PROVIDER_SLUG
                  saml : Names,         \* SAML_PROVIDER_SLUG
                  default : Names,      \* ENTERPRISE_DEFAULT_PROVIDER_SLUG
                  scim : BOOLEAN ]      \* SCIM_BEARER_TOKEN, as it is read

Deployed(e) == e.app \in {"staging", "production"}

\* enterpriseIdentityEnabled of the validation; isEnterpriseIdentityEnabled of
\* IdentityService.
Enterprise(e) == e.enabled \/ Configured(e.oidc) \/ Configured(e.saml)

\* The default provider is a configured one, letter by letter.
DefaultMatches(e) == e.default \in {Unset, e.oidc, e.saml}

\* Slips next to the code: what a plausible bug would make of the operator that
\* follows, kept to see that a property notices.
ProvidersConfiguredSlip(e) ==
    Deployed(e) /\ {e.oidc, e.saml} # {Unset} => Configured(e.default)

\* A deployment with enterprise identity has a provider and a default one.
ProvidersConfigured(e) ==
    Deployed(e) /\ Enterprise(e) => {e.oidc, e.saml} # {Unset} /\ Configured(e.default)

DefaultIsOidcSlip(e) == TRUE

\* In a deployment with both, the default provider is the OIDC one.
DefaultIsOidc(e) ==
    Deployed(e) /\ Configured(e.oidc) /\ Configured(e.saml) /\ Configured(e.default) =>
        e.default = e.oidc

\* validateEnvironment, where the settings of each configured feature are there.
Accepted(e) ==
    /\ ProvidersConfigured(e)
    /\ e.scim => {e.oidc, e.saml} # {Unset}
    /\ DefaultMatches(e)
    /\ DefaultIsOidc(e)

AcceptedEnvironments == {e \in Environments : Accepted(e)}

Row == [type : {"none", "oidc", "saml"}, scim : BOOLEAN]

Instance == [pc : {"oidc", "saml", "up"}, env : Environments]

Down == [pc |-> "down", env |-> None]

TypeOK == /\ row \in [Slugs -> Row]
          /\ inst \in [Instances -> Instance \union {Down}]
          /\ overridden \subseteq Instances

-----------------------------------------------------------------------------

Init == /\ row = [s \in Slugs |-> [type |-> "none", scim |-> FALSE]]
        /\ inst = [i \in Instances |-> Down]
        /\ overridden = {}

\* An instance starts: main validates the environment before anything else.
Start(i, e) ==
    /\ inst[i] = Down
    /\ inst' = [inst EXCEPT ![i] = [pc |-> IF Enterprise(e) THEN "oidc" ELSE "up", env |-> e]]
    /\ overridden' = overridden \ {i}
    /\ UNCHANGED row

\* One round of syncConfiguredProviders: the row of the trimmed slug is created or
\* overwritten; if nothing is left of it, there is none to write.
SyncOne(i, type, name, next) ==
    /\ inst[i].pc = type
    /\ IF Trim(name) = None THEN UNCHANGED <<row, overridden>>
       ELSE /\ row' = [row EXCEPT ![Trim(name)] = [type |-> type, scim |-> inst[i].env.scim]]
            /\ overridden' = overridden \union
                  {j \in Instances \ {i} : /\ inst[j] # Down /\ inst[j].env # inst[i].env
                                           /\ Trim(name) \in {Trim(inst[j].env.oidc),
                                                              Trim(inst[j].env.saml)}}
    /\ inst' = [inst EXCEPT ![i].pc = next]

SyncOidc(i) == SyncOne(i, "oidc", inst[i].env.oidc, "saml")

SyncSaml(i) == SyncOne(i, "saml", inst[i].env.saml, "up")

\* An instance stops or fails, also between the rows it writes.
Stop(i) ==
    /\ inst[i] # Down
    /\ inst' = [inst EXCEPT ![i] = Down]
    /\ overridden' = overridden \ {i}
    /\ UNCHANGED row

Next == \E i \in Instances : \/ \E e \in AcceptedEnvironments : Start(i, e)
                             \/ SyncOidc(i) \/ SyncSaml(i) \/ Stop(i)

Spec == Init /\ [][Next]_vars

-----------------------------------------------------------------------------
\* The policy

\* listProviders: active providers; nothing makes a row inactive.
Listed == {s \in Slugs : row[s].type # "none"}

\* resolveDefaultProviderSlug; without a configured default one of the first type
\* that is there, the newest.
DefaultSlug(e) ==
    IF Trim(e.default) \in Listed THEN {Trim(e.default)}
    ELSE LET oidc == {s \in Listed : row[s].type = "oidc"} IN
         IF oidc # {} THEN oidc ELSE Listed

\* isEnterpriseIdentityEnforced of IdentityService, which the sign-in page obeys.
Enforced(e) == Enterprise(e) /\ e.app \notin {"local", "test"}

\* isEnterpriseIdentityEnforced of AuthService, which the routes obey: it looks at
\* the flag alone.
RoutesEnforced(e) == e.enabled /\ e.app \notin {"local", "test"}

\* assertLocalPasswordAuthAllowed and its like: signup, login and reset.
PasswordRoutesOpen(e) == ~RoutesEnforced(e)

\* getScimProvider: the default one if it has a row, or else any with a token.
ScimProviders(e) ==
    {s \in Slugs : /\ row[s].scim
                   /\ IF Trim(e.default) \in Listed THEN s = Trim(e.default) ELSE s \in Listed}

Up(i) == inst[i].pc = "up"

-----------------------------------------------------------------------------

\* An instance whose sign-in page offers no password form, or whose routes refuse
\* passwords, offers a provider of its own, whatever other instances have done to the
\* rows; only where all that is configured is blank it may have none
\* (validateEnvironment, syncConfiguredProviders, listProviders).
OffersAWayIn ==
    \A i \in Instances :
        LET e == inst[i].env IN
        Up(i) /\ (Enforced(e) \/ ~PasswordRoutesOpen(e)) =>
            \/ {Trim(e.oidc), Trim(e.saml)} \intersect Listed # {}
            \/ {e.oidc, e.saml} \ {Unset} = {Blank}

\* The provider that the environment names as the default one, trimmed, is the one
\* that is offered, whatever other instances have done to the rows.  As long as no
\* other environment with one of its slugs has written that row since it started, a
\* deployed instance that has an OIDC slug has an OIDC provider as the default, and one
\* with a SCIM token takes SCIM for its default provider, beside instances with other
\* slugs or types (syncConfiguredProviders, getScimProvider).  Slugs
\* that are equal once they are trimmed become one SAML provider, although the
\* validation accepts them as two; a blank default is none.
ServedAsConfigured ==
    \A i \in Instances :
        LET e == inst[i].env IN
        Up(i) =>
            /\ Trim(e.default) # None => DefaultSlug(e) = {Trim(e.default)}
            /\ i \notin overridden /\ Deployed(e) =>
                  /\ Trim(e.oidc) \notin {None, Trim(e.saml)} =>
                        \A s \in DefaultSlug(e) : row[s].type = "oidc"
                  /\ e.scim /\ Trim(e.default) # None => ScimProviders(e) = {Trim(e.default)}
=============================================================================
