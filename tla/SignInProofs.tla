---------------------------- MODULE SignInProofs ----------------------------
(***************************************************************************)
(* Proofs about SignIn, for any slugs, keys, flows, grants, requests and   *)
(* times.                                                                  *)
(*                                                                         *)
(* A started flow and an issued grant never change in what they say, so    *)
(* what a callback has checked of them (Started, Vouched) holds for good,  *)
(* whatever restarts, key changes and synchronisations follow.  That a     *)
(* code makes one session rests on the exchange: a verified request is the *)
(* only one of its code, and the code is used and without a session by     *)
(* then (Lone, Counted).                                                   *)
(***************************************************************************)
EXTENDS SignIn, TLAPS

\* The state of q is of a flow that was started for its slug, in time.
Started(q) ==
    /\ q.slug \in Slugs /\ q.state \in Flows /\ q.grant \in Grants
    /\ flow[q.state].slug = q.slug
    /\ q.at - flow[q.state].at \in 0..StateTtl
    /\ grant[q.grant].slug # None

\* Its grant was issued for that slug, and for that flow or in its window.
Vouched(q) ==
    /\ grant[q.grant].slug = q.slug
    /\ grant[q.grant].type = "oidc" => grant[q.grant].flow = q.state
    /\ grant[q.grant].type = "saml" => q.at < grant[q.grant].at + Life + Skew

InFlight ==
    \A r \in Requests :
        /\ req[r].pc # "idle" => Started(req[r])
        /\ req[r].pc = "exchange" => grant[req[r].grant].type = "oidc"
        /\ req[r].pc = "verified" => Vouched(req[r])

Made == \A x \in sessions : Started(x) /\ Vouched(x)

Past == \A f \in Flows : flow[f].slug # None => flow[f].at <= now

VerifiedFor(r, g) == req[r].pc = "verified" /\ req[r].grant = g

Lone == \A g \in Grants : \A r1, r2 \in Requests :
            grant[g].type = "oidc" /\ VerifiedFor(r1, g) /\ VerifiedFor(r2, g) => r1 = r2

Counted == \A g \in Grants :
               grant[g].type = "oidc" =>
                   /\ grant[g].sessions <= 1
                   /\ ~grant[g].used => grant[g].sessions = 0
                   /\ \A r \in Requests :
                          VerifiedFor(r, g) => grant[g].used /\ grant[g].sessions = 0

IInv == TypeOK /\ InFlight /\ Made /\ Past /\ Lone /\ Counted

-----------------------------------------------------------------------------

LEMMA IdleType == Idle \in Request /\ Idle.pc = "idle"
BY TimeAssumption DEF Idle, Request, Time

LEMMA NoGrantType == NoGrant \in Grant /\ NoGrant.sessions = 0 /\ ~NoGrant.used
BY TimeAssumption DEF NoGrant, Grant, Types, Time

LEMMA InitIInv == Init => IInv
<1>. SUFFICES ASSUME Init PROVE IInv
  OBVIOUS
<1>1. NoFlow \in Flow /\ NoFlow.slug = None
  <2>1. (CHOOSE k \in Keys : TRUE) \in Keys
    BY DEF Init
  <2>. QED
    BY <2>1, TimeAssumption DEF NoFlow, Flow, Types, Time
<1>2. TypeOK
  BY <1>1, IdleType, NoGrantType, TimeAssumption DEF Init, TypeOK, Time
<1>3. \A r \in Requests : req[r].pc = "idle"
  BY IdleType DEF Init
<1>4. \A g \in Grants : grant[g].sessions = 0
  BY NoGrantType DEF Init
<1>5. \A f \in Flows : flow[f].slug = None
  BY <1>1 DEF Init
<1>. QED
  BY <1>2, <1>3, <1>4, <1>5 DEF Init, IInv, InFlight, Made, Past, Lone, Counted, VerifiedFor

\* What was found of a flow and a grant stays true: started flows stay, and issued
\* grants keep what they say.
LEMMA FindingsStay ==
    ASSUME \A f \in Flows : flow[f].slug # None => flow'[f] = flow[f],
           \A g \in Grants : grant[g].slug # None =>
               /\ grant'[g].slug = grant[g].slug /\ grant'[g].type = grant[g].type
               /\ grant'[g].flow = grant[g].flow /\ grant'[g].at = grant[g].at
    PROVE  \A q : Started(q) => /\ Started(q)'
                                /\ Vouched(q) => Vouched(q)'
                                /\ grant'[q.grant].type = grant[q.grant].type
<1>. SUFFICES ASSUME NEW q, Started(q)
              PROVE  /\ Started(q)'
                     /\ Vouched(q) => Vouched(q)'
                     /\ grant'[q.grant].type = grant[q.grant].type
  OBVIOUS
<1>1. flow'[q.state] = flow[q.state]
  BY NoneAssumption DEF Started
<1>2. /\ grant'[q.grant].slug = grant[q.grant].slug /\ grant'[q.grant].type = grant[q.grant].type
      /\ grant'[q.grant].flow = grant[q.grant].flow /\ grant'[q.grant].at = grant[q.grant].at
  BY DEF Started
<1>. QED
  BY <1>1, <1>2 DEF Started, Vouched

\* A step of request r that ends it or accepts a callback, and writes nothing else.
LEMMA RequestMoves ==
    ASSUME IInv, NEW r \in Requests, NEW h \in Request, req' = [req EXCEPT ![r] = h],
           UNCHANGED <<now, key, provider, flow, grant, sessions>>,
           h.pc # "idle" => Started(h),
           h.pc = "exchange" => grant[h.grant].type = "oidc",
           h.pc = "verified" => Vouched(h) /\ grant[h.grant].type = "saml"
    PROVE  IInv'
<1>1. req'[r] = h /\ \A q \in Requests \ {r} : req'[q] = req[q]
  BY DEF IInv, TypeOK
<1>2. TypeOK'
  BY DEF IInv, TypeOK
<1>3. \A q : (Started(q) => Started(q)') /\ (Vouched(q) => Vouched(q)')
  BY DEF Started, Vouched
<1>4. InFlight'
  <2>. SUFFICES ASSUME NEW q \in Requests
                PROVE  /\ req'[q].pc # "idle" => Started(req[q])'
                       /\ req'[q].pc = "exchange" => grant[req'[q].grant].type = "oidc"
                       /\ req'[q].pc = "verified" => Vouched(req[q])'
    BY DEF InFlight
  <2>1. CASE q = r
    BY <1>1, <2>1 DEF Started, Vouched
  <2>2. CASE q # r
    BY <1>1, <2>2 DEF IInv, InFlight, Started, Vouched
  <2>. QED
    BY <2>1, <2>2
<1>5. Made'
  BY <1>3 DEF IInv, Made
<1>6. \A g \in Grants, q \in Requests :
          grant[g].type = "oidc" /\ VerifiedFor(q, g)' => VerifiedFor(q, g)
  <2>. SUFFICES ASSUME NEW g \in Grants, NEW q \in Requests, grant[g].type = "oidc",
                       req'[q].pc = "verified", req'[q].grant = g
                PROVE  req[q].pc = "verified" /\ req[q].grant = g
    BY DEF VerifiedFor
  <2>1. q # r
    BY <1>1
  <2>. QED
    BY <1>1, <2>1
<1>7. Lone' /\ Counted'
  BY <1>6 DEF IInv, Lone, Counted
<1>8. Past'
  BY DEF IInv, Past
<1>. QED
  BY <1>2, <1>4, <1>5, <1>7, <1>8 DEF IInv

\* A step that leaves the requests and what is known of flows and grants alone.
LEMMA RequestsStay ==
    ASSUME IInv, TypeOK', UNCHANGED <<req, sessions>>, now <= now',
           \A f \in Flows : \/ flow'[f] = flow[f]
                            \/ flow[f].slug = None /\ flow'[f].at = now,
           \A g \in Grants : \/ grant'[g] = grant[g]
                             \/ /\ grant[g].slug = None
                                /\ grant'[g].sessions = 0 /\ ~grant'[g].used
    PROVE  IInv'
<1>1. \A q : Started(q) => /\ Started(q)'
                           /\ Vouched(q) => Vouched(q)'
                           /\ grant'[q.grant].type = grant[q.grant].type
  BY FindingsStay
<1>2. InFlight'
  <2>. SUFFICES ASSUME NEW r \in Requests, req[r].pc # "idle"
                PROVE  /\ Started(req[r])'
                       /\ req[r].pc = "exchange" => grant'[req[r].grant].type = "oidc"
                       /\ req[r].pc = "verified" => Vouched(req[r])'
    BY DEF InFlight, IInv, TypeOK, Request
  <2>1. /\ Started(req[r])
        /\ req[r].pc = "exchange" => grant[req[r].grant].type = "oidc"
        /\ req[r].pc = "verified" => Vouched(req[r])
    BY DEF IInv, InFlight
  <2>. DEFINE q == req[r]
  <2>2. q' = q
    OBVIOUS
  <2>3. PICK x : x = req[r]
    OBVIOUS
  <2>4. /\ Started(x) /\ Started(x)'
        /\ Vouched(x) => Vouched(x)'
        /\ grant'[x.grant].type = grant[x.grant].type
    BY <1>1, <2>1, <2>3
  <2>5. req'[r] = x
    BY <2>3
  <2>. QED
    BY <2>1, <2>3, <2>4, <2>5 DEF Started, Vouched
<1>3. Made'
  BY <1>1 DEF IInv, Made
<1>4. \A g \in Grants, r \in Requests :
          VerifiedFor(r, g)' => VerifiedFor(r, g) /\ grant'[g] = grant[g]
  BY DEF IInv, InFlight, Started, VerifiedFor
<1>5. Past'
  <2>. SUFFICES ASSUME NEW f \in Flows, flow'[f].slug # None PROVE flow'[f].at <= now'
    BY DEF Past
  <2>1. flow'[f].at <= now
    BY DEF IInv, TypeOK, Time, Past
  <2>. QED
    BY <2>1, TimeAssumption DEF TypeOK, IInv, Time, Flow
<1>6. Lone'
  BY <1>4 DEF IInv, Lone
<1>7. Counted'
  BY <1>4 DEF IInv, Counted
<1>. QED
  BY <1>2, <1>3, <1>5, <1>6, <1>7 DEF IInv

LEMMA StartKeepsIInv ==
    ASSUME IInv, NEW f \in Flows, NEW s \in Slugs, Start(f, s) PROVE IInv'
<1>. DEFINE h == [slug |-> s, type |-> provider[s], key |-> key, at |-> now]
<1>1. h \in Flow /\ h.at = now
  BY DEF Start, Known, Flow, IInv, TypeOK
<1>2. flow' = [flow EXCEPT ![f] = h]
  BY DEF Start
<1>. HIDE DEF h
<1>3. TypeOK' /\ flow'[f] = h /\ \A e \in Flows \ {f} : flow'[e] = flow[e]
  BY <1>1, <1>2 DEF Start, IInv, TypeOK
<1>. QED
  BY <1>1, <1>3, RequestsStay, TimeAssumption DEF Start, IInv, TypeOK, Time

LEMMA AnswerKeepsIInv ==
    ASSUME IInv, NEW g \in Grants, NEW f \in Flows, Answer(g, f) PROVE IInv'
<1>. DEFINE w == IF flow[f].type = "oidc" THEN f ELSE None
<1>1. w \in Flows \union {None} /\ flow[f] \in Flow /\ now \in Time
  BY DEF IInv, TypeOK
<1>. HIDE DEF w
<1>. DEFINE h == [NoGrant EXCEPT !.slug = flow[f].slug, !.type = flow[f].type,
                                 !.flow = w, !.at = now]
<1>2. h \in Grant /\ h.sessions = 0 /\ ~h.used
  BY <1>1, NoGrantType DEF Grant, Flow
<1>3. grant' = [grant EXCEPT ![g] = h]
  BY DEF Answer, w
<1>. HIDE DEF h
<1>4. TypeOK' /\ grant'[g] = h /\ \A e \in Grants \ {g} : grant'[e] = grant[e]
  BY <1>2, <1>3 DEF Answer, IInv, TypeOK
<1>5. now <= now' /\ grant[g].slug = None /\ UNCHANGED <<req, sessions, flow>>
  BY TimeAssumption DEF Answer, IInv, TypeOK, Time
<1>. QED
  BY <1>2, <1>4, <1>5, RequestsStay

\* What the checks of the state establish.
LEMMA AcceptedIsStarted ==
    ASSUME IInv, NEW s \in Slugs, NEW f \in Flows, NEW g \in Grants, NEW type,
           StateAccepted(s, f, type), grant[g].slug # None, NEW pc
    PROVE  Started([pc |-> pc, slug |-> s, state |-> f, grant |-> g, at |-> now])
<1>1. /\ flow[f].slug = s /\ flow[f].slug # None /\ now - flow[f].at <= StateTtl
      /\ flow[f].at <= now /\ now \in Int /\ flow[f].at \in Int
  BY DEF StateAccepted, Decrypts, Unexpired, IInv, Past, TypeOK, Time, Flow
<1>2. now - flow[f].at \in 0..StateTtl
  BY <1>1, TimeAssumption
<1>. QED
  BY <1>1, <1>2 DEF Started

LEMMA OidcCallbackKeepsIInv ==
    ASSUME IInv, NEW r \in Requests, NEW s \in Slugs, NEW f \in Flows, NEW g \in Grants,
           OidcCallback(r, s, f, g)
    PROVE  IInv'
<1>. DEFINE h == [pc |-> "exchange", slug |-> s, state |-> f, grant |-> g, at |-> now]
<1>1. h \in Request /\ h.pc = "exchange" /\ h.grant = g
  BY DEF Request, IInv, TypeOK
<1>2. Started(h)
  BY AcceptedIsStarted DEF OidcCallback
<1>3. req' = [req EXCEPT ![r] = h]
  BY DEF OidcCallback, Accept
<1>. HIDE DEF h
<1>. QED
  BY <1>1, <1>2, <1>3, RequestMoves DEF OidcCallback

LEMMA SamlCallbackKeepsIInv ==
    ASSUME IInv, NEW r \in Requests, NEW s \in Slugs, NEW f \in Flows, NEW g \in Grants,
           SamlCallback(r, s, f, g)
    PROVE  IInv'
<1>. DEFINE h == [pc |-> "verified", slug |-> s, state |-> f, grant |-> g, at |-> now]
<1>1. h \in Request /\ h.pc = "verified" /\ h.grant = g /\ h.slug = s /\ h.at = now
  BY DEF Request, IInv, TypeOK
<1>2. grant[g].type = "saml" /\ grant[g].slug = s /\ grant[g].slug # None
  BY NoneAssumption DEF SamlCallback, Vouches
<1>3. Started(h)
  BY <1>2, AcceptedIsStarted DEF SamlCallback
<1>4. req' = [req EXCEPT ![r] = h]
  BY DEF SamlCallback, Accept
<1>. HIDE DEF h
<1>5. now < grant[g].at + Life + Skew
  <2>1. now \in Int /\ grant[g].at \in Int /\ Life \in Int /\ Skew \in Int
    BY TimeAssumption DEF IInv, TypeOK, Time, Grant
  <2>2. now - Skew < grant[g].at + Life
    BY DEF SamlCallback, Vouches, InWindow
  <2>. QED
    BY <2>1, <2>2
<1>6. Vouched(h)
  BY <1>1, <1>2, <1>5 DEF Vouched
<1>. QED
  BY <1>1, <1>2, <1>3, <1>4, <1>6, RequestMoves DEF SamlCallback

LEMMA RefuseKeepsIInv == ASSUME IInv, NEW r \in Requests, Refuse(r) PROVE IInv'
BY RequestMoves, IdleType DEF Refuse

\* The exchange uses the code up; its request is the only one verified for it.
LEMMA ExchangeKeepsIInv == ASSUME IInv, NEW r \in Requests, Exchange(r) PROVE IInv'
<1>1. PICK q : q = req[r]
  OBVIOUS
<1>2. /\ q.pc = "exchange" /\ Started(q) /\ grant[q.grant].type = "oidc" /\ q \in Request
      /\ q.grant \in Grants
  BY <1>1 DEF Exchange, IInv, InFlight, TypeOK, Started
<1>3. PICK g \in Grants : g = q.grant
  BY <1>2
<1>4. grant[g].slug = q.slug /\ ~grant[g].used
  BY <1>1, <1>3 DEF Exchange, TokenOk, Redeems
<1>. DEFINE v == [q EXCEPT !.pc = "verified"]
            h == IF NonceOk(q) THEN v ELSE Idle
            k == [grant[g] EXCEPT !.used = TRUE]
<1>5. grant' = [grant EXCEPT ![g] = k] /\ req' = [req EXCEPT ![r] = h]
  BY <1>1, <1>3 DEF Exchange
<1>6. /\ k \in Grant /\ k.used /\ k.sessions = grant[g].sessions /\ k.slug = grant[g].slug
      /\ k.type = grant[g].type /\ k.flow = grant[g].flow /\ k.at = grant[g].at
  BY DEF Grant, IInv, TypeOK
<1>7. /\ v \in Request /\ v.pc = "verified" /\ v.slug = q.slug /\ v.state = q.state
      /\ v.grant = q.grant /\ v.at = q.at
  BY <1>2 DEF Request
<1>8. h \in Request /\ h.pc \in {"idle", "verified"} /\ (h.pc = "verified" => h = v /\ NonceOk(q))
  BY <1>7, IdleType
<1>. HIDE DEF v, h, k
<1>9. /\ grant'[g] = k /\ \A e \in Grants \ {g} : grant'[e] = grant[e]
      /\ req'[r] = h /\ \A p \in Requests \ {r} : req'[p] = req[p]
  BY <1>5 DEF IInv, TypeOK
<1>10. TypeOK'
  BY <1>5, <1>6, <1>8 DEF Exchange, IInv, TypeOK
<1>11. \A x : Started(x) => /\ Started(x)'
                            /\ Vouched(x) => Vouched(x)'
                            /\ grant'[x.grant].type = grant[x.grant].type
  BY <1>6, <1>9, FindingsStay DEF Exchange
<1>12. InFlight'
  <2>. SUFFICES ASSUME NEW p \in Requests
                PROVE  /\ req'[p].pc # "idle" => Started(req[p])'
                       /\ req'[p].pc = "exchange" => grant'[req'[p].grant].type = "oidc"
                       /\ req'[p].pc = "verified" => Vouched(req[p])'
    BY DEF InFlight
  <2>1. CASE p # r
    <3>1. PICK x : x = req[p]
      OBVIOUS
    <3>2. /\ x.pc # "idle" => Started(x)
          /\ x.pc = "exchange" => grant[x.grant].type = "oidc"
          /\ x.pc = "verified" => Vouched(x)
      BY <3>1 DEF IInv, InFlight
    <3>3. /\ x.pc # "idle" => Started(x)' /\ grant'[x.grant].type = grant[x.grant].type
          /\ x.pc = "verified" => Vouched(x)'
      BY <1>11, <3>2
    <3>4. req'[p] = x
      BY <1>9, <2>1, <3>1
    <3>. QED
      BY <3>2, <3>3, <3>4 DEF Started, Vouched
  <2>2. CASE p = r /\ h.pc = "verified"
    <3>1. Started(q)' /\ NonceOk(q) /\ h = v
      BY <1>2, <1>8, <1>11, <2>2
    <3>2. Vouched(q)'
      BY <1>2, <1>3, <1>4, <1>6, <1>9, <3>1 DEF Vouched, NonceOk
    <3>3. req'[p] = v
      BY <1>9, <2>2, <3>1
    <3>. QED
      BY <1>7, <3>1, <3>2, <3>3 DEF Started, Vouched
  <2>3. CASE p = r /\ h.pc = "idle"
    BY <1>9, <2>3
  <2>. QED
    BY <1>8, <2>1, <2>2, <2>3
<1>13. Made'
  BY <1>11 DEF Exchange, IInv, Made
<1>14. \A p \in Requests : ~VerifiedFor(p, g)
  BY <1>2, <1>3, <1>4 DEF IInv, Counted
<1>15. \A e \in Grants, p \in Requests :
           VerifiedFor(p, e)' => \/ e # g /\ VerifiedFor(p, e)
                                 \/ e = g /\ p = r
  <2>. SUFFICES ASSUME NEW e \in Grants, NEW p \in Requests,
                       req'[p].pc = "verified", req'[p].grant = e
                PROVE  \/ e # g /\ VerifiedFor(p, e)
                       \/ e = g /\ p = r
    BY DEF VerifiedFor
  <2>1. CASE p = r
    BY <1>3, <1>7, <1>8, <1>9, <2>1
  <2>2. CASE p # r
    BY <1>9, <1>14, <2>2 DEF VerifiedFor
  <2>. QED
    BY <2>1, <2>2
<1>16. Lone'
  <2>. SUFFICES ASSUME NEW e \in Grants, NEW p1 \in Requests, NEW p2 \in Requests,
                       grant'[e].type = "oidc", VerifiedFor(p1, e)', VerifiedFor(p2, e)'
                PROVE  p1 = p2
    BY DEF Lone
  <2>. QED
    BY <1>9, <1>15 DEF IInv, Lone
<1>17. Counted'
  <2>. SUFFICES ASSUME NEW e \in Grants, grant'[e].type = "oidc"
                PROVE  /\ grant'[e].sessions <= 1
                       /\ ~grant'[e].used => grant'[e].sessions = 0
                       /\ \A p \in Requests :
                              VerifiedFor(p, e)' => grant'[e].used /\ grant'[e].sessions = 0
    BY DEF Counted
  <2>1. CASE e = g
    BY <1>4, <1>6, <1>9, <2>1 DEF IInv, Counted
  <2>2. CASE e # g
    BY <1>9, <1>15, <2>2 DEF IInv, Counted
  <2>. QED
    BY <2>1, <2>2
<1>18. Past'
  BY DEF Exchange, IInv, Past
<1>. QED
  BY <1>10, <1>12, <1>13, <1>16, <1>17, <1>18 DEF IInv

LEMMA SignInKeepsIInv == ASSUME IInv, NEW r \in Requests, SignIn(r) PROVE IInv'
<1>1. PICK q : q = req[r]
  OBVIOUS
<1>2. /\ q.pc = "verified" /\ Started(q) /\ Vouched(q) /\ q \in Request
      /\ q.grant \in Grants
  BY <1>1 DEF SignIn, IInv, InFlight, TypeOK, Started
<1>3. PICK g \in Grants : g = q.grant
  BY <1>2
<1>. DEFINE n == IF grant[g].sessions = 2 THEN 2 ELSE grant[g].sessions + 1
            k == [grant[g] EXCEPT !.sessions = n]
            x == [slug |-> q.slug, state |-> q.state, grant |-> q.grant, at |-> q.at]
<1>4. /\ grant' = [grant EXCEPT ![g] = k] /\ req' = [req EXCEPT ![r] = Idle]
      /\ sessions' = sessions \union {x}
  BY <1>1, <1>3 DEF SignIn
<1>5. n \in 0..2 /\ (grant[g].sessions = 0 => n = 1)
  BY DEF Grant, IInv, TypeOK
<1>. HIDE DEF n
<1>6. /\ k \in Grant /\ k.used = grant[g].used /\ k.sessions = n /\ k.slug = grant[g].slug
      /\ k.type = grant[g].type /\ k.flow = grant[g].flow /\ k.at = grant[g].at
  BY <1>5 DEF Grant, IInv, TypeOK
<1>7. x \in Session /\ Started(x) /\ Vouched(x)
  BY <1>2 DEF Session, Request, Started, Vouched
<1>. HIDE DEF k
<1>8. /\ grant'[g] = k /\ \A e \in Grants \ {g} : grant'[e] = grant[e]
      /\ req'[r] = Idle /\ \A p \in Requests \ {r} : req'[p] = req[p]
  BY <1>4 DEF IInv, TypeOK
<1>9. TypeOK'
  BY <1>4, <1>6, <1>7, IdleType DEF SignIn, IInv, TypeOK
<1>10. \A y : Started(y) => /\ Started(y)'
                            /\ Vouched(y) => Vouched(y)'
                            /\ grant'[y.grant].type = grant[y.grant].type
  BY <1>6, <1>8, FindingsStay DEF SignIn
<1>11. InFlight'
  <2>. SUFFICES ASSUME NEW p \in Requests, req'[p].pc # "idle"
                PROVE  /\ Started(req[p])'
                       /\ req'[p].pc = "exchange" => grant'[req'[p].grant].type = "oidc"
                       /\ req'[p].pc = "verified" => Vouched(req[p])'
    BY DEF InFlight, TypeOK, Request
  <2>1. PICK y : y = req[p]
    OBVIOUS
  <2>2. p # r /\ req'[p] = y
    BY <1>8, <2>1, IdleType
  <2>3. /\ Started(y)
        /\ y.pc = "exchange" => grant[y.grant].type = "oidc"
        /\ y.pc = "verified" => Vouched(y)
    BY <2>1, <2>2 DEF IInv, InFlight
  <2>4. /\ Started(y)' /\ grant'[y.grant].type = grant[y.grant].type
        /\ y.pc = "verified" => Vouched(y)'
    BY <1>10, <2>3
  <2>. QED
    BY <2>2, <2>3, <2>4 DEF Started, Vouched
<1>12. Made'
  <2>1. PICK y : y = x
    OBVIOUS
  <2>. HIDE DEF x
  <2>. SUFFICES ASSUME NEW z \in sessions' PROVE Started(z)' /\ Vouched(z)'
    BY DEF Made
  <2>2. Started(z) /\ Vouched(z)
    BY <1>4, <1>7 DEF IInv, Made
  <2>. QED
    BY <1>10, <2>2
<1>13. \A e \in Grants, p \in Requests : VerifiedFor(p, e)' => p # r /\ VerifiedFor(p, e)
  BY <1>8, IdleType DEF VerifiedFor
<1>14. Lone'
  <2>. SUFFICES ASSUME NEW e \in Grants, NEW p1 \in Requests, NEW p2 \in Requests,
                       grant'[e].type = "oidc", VerifiedFor(p1, e)', VerifiedFor(p2, e)'
                PROVE  p1 = p2
    BY DEF Lone
  <2>1. grant[e].type = "oidc"
    BY <1>6, <1>8
  <2>. QED
    BY <1>13, <2>1 DEF IInv, Lone
<1>15. Counted'
  <2>. SUFFICES ASSUME NEW e \in Grants, grant'[e].type = "oidc"
                PROVE  /\ grant'[e].sessions <= 1
                       /\ ~grant'[e].used => grant'[e].sessions = 0
                       /\ \A p \in Requests :
                              VerifiedFor(p, e)' => grant'[e].used /\ grant'[e].sessions = 0
    BY DEF Counted
  <2>1. CASE e = g
    <3>1. VerifiedFor(r, g) /\ grant[g].type = "oidc"
      BY <1>1, <1>2, <1>3, <1>6, <1>8, <2>1 DEF VerifiedFor
    <3>2. grant[g].used /\ n = 1
      BY <1>5, <3>1 DEF IInv, Counted
    <3>3. \A p \in Requests : ~VerifiedFor(p, g)'
      BY <1>13, <3>1 DEF IInv, Lone
    <3>4. grant'[e].sessions = 1 /\ grant'[e].used
      BY <1>6, <1>8, <2>1, <3>2
    <3>. QED
      BY <2>1, <3>3, <3>4 DEF VerifiedFor
  <2>2. CASE e # g
    BY <1>8, <1>13, <2>2 DEF IInv, Counted
  <2>. QED
    BY <2>1, <2>2
<1>16. Past'
  BY DEF SignIn, IInv, Past
<1>. QED
  BY <1>9, <1>11, <1>12, <1>14, <1>15, <1>16 DEF IInv

LEMMA RestartKeepsIInv == ASSUME IInv, NEW k \in Keys, Restart(k) PROVE IInv'
<1>1. \A r \in Requests : req'[r] = Idle
  BY DEF Restart
<1>2. TypeOK'
  BY IdleType DEF Restart, IInv, TypeOK
<1>3. \A x : (Started(x) => Started(x)') /\ (Vouched(x) => Vouched(x)')
  BY DEF Restart, Started, Vouched
<1>4. InFlight' /\ Lone' /\ Counted' /\ Past' /\ Made'
  BY <1>1, <1>3, IdleType
     DEF Restart, IInv, InFlight, Lone, Counted, VerifiedFor, Past, Made
<1>. QED
  BY <1>2, <1>4 DEF IInv

LEMMA OutsideKeepsIInv ==
    ASSUME IInv, (\E s \in Slugs, type \in Types : Sync(s, type)) \/ Tick PROVE IInv'
<1>1. now <= now' /\ UNCHANGED <<flow, grant, req, sessions>>
  BY TimeAssumption DEF Sync, Tick, IInv, TypeOK, Time
<1>2. TypeOK'
  BY TimeAssumption DEF Sync, Tick, IInv, TypeOK, Time
<1>. QED
  BY <1>1, <1>2, RequestsStay

LEMMA StepIInv == IInv /\ [Next]_vars => IInv'
<1>. SUFFICES ASSUME IInv, [Next]_vars PROVE IInv'
  OBVIOUS
<1>1. CASE UNCHANGED vars
  <2>1. TypeOK'
    BY <1>1 DEF vars, IInv, TypeOK
  <2>2. now <= now' /\ UNCHANGED <<flow, grant, req, sessions>>
    BY <1>1, TimeAssumption DEF vars, IInv, TypeOK, Time
  <2>. QED
    BY <2>1, <2>2, RequestsStay
<1>2. ASSUME NEW f \in Flows, NEW s \in Slugs, Start(f, s) PROVE IInv'
  BY <1>2, StartKeepsIInv
<1>3. ASSUME NEW g \in Grants, NEW f \in Flows, Answer(g, f) PROVE IInv'
  BY <1>3, AnswerKeepsIInv
<1>4. ASSUME NEW r \in Requests, NEW s \in Slugs, NEW f \in Flows, NEW g \in Grants,
             OidcCallback(r, s, f, g) \/ SamlCallback(r, s, f, g)
      PROVE  IInv'
  BY <1>4, OidcCallbackKeepsIInv, SamlCallbackKeepsIInv
<1>5. ASSUME NEW r \in Requests, Exchange(r) \/ Refuse(r) \/ SignIn(r) PROVE IInv'
  BY <1>5, ExchangeKeepsIInv, RefuseKeepsIInv, SignInKeepsIInv
<1>6. ASSUME NEW s \in Slugs, NEW type \in Types, Sync(s, type) PROVE IInv'
  BY <1>6, OutsideKeepsIInv
<1>7. ASSUME NEW k \in Keys, Restart(k) PROVE IInv'
  BY <1>7, RestartKeepsIInv
<1>8. CASE Tick
  BY <1>8, OutsideKeepsIInv
<1>. QED
  BY <1>1, <1>2, <1>3, <1>4, <1>5, <1>6, <1>7, <1>8 DEF Next

LEMMA Inductive == Spec => []IInv
BY InitIInv, StepIInv, PTL DEF Spec

-----------------------------------------------------------------------------

\* The variables of SignIn keep their types.
THEOREM TypeCorrect == Spec => []TypeOK
<1>1. IInv => TypeOK
  BY DEF IInv
<1>. QED
  BY <1>1, Inductive, PTL

\* A code makes one session at most, for any number of deliveries of its callback
\* (handleOidcCallback).
THEOREM CodeUsedOnce == Spec => []OneSessionPerCode
<1>1. IInv => OneSessionPerCode
  BY DEF IInv, Counted, OneSessionPerCode
<1>. QED
  BY <1>1, Inductive, PTL

\* An OIDC session comes from the code of the sign-in whose state came with it
\* (handleOidcCallback, the nonce).
THEOREM CodesMatch == Spec => []CodeMatchesState
<1>1. IInv => CodeMatchesState
  BY DEF IInv, Made, Vouched, CodeMatchesState
<1>. QED
  BY <1>1, Inductive, PTL

\* A session was started at the provider that vouches for it, in time (decryptState,
\* parseSamlAssertion).
THEOREM InTime == Spec => []StartedInTime
<1>1. IInv => StartedInTime
  BY DEF IInv, Made, Started, Vouched, StartedInTime
<1>. QED
  BY <1>1, Inductive, PTL
=============================================================================
