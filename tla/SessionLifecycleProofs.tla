----------------------- MODULE SessionLifecycleProofs -----------------------
(***************************************************************************)
(* Proofs about SessionLifecycle, for any session ids, requests, logins,   *)
(* cap and number of rotations.                                            *)
(*                                                                         *)
(* Rotation: a client holds no token that its session has not had (Rows),  *)
(* a request carries one that its client was given (Asked), and one that   *)
(* has rotated it knows that the row has moved on since.                   *)
(*                                                                         *)
(* The cap: the bound is not inductive, since a login that is about to     *)
(* commit adds a session.  It is if it holds of what would be left if any  *)
(* of the logins that have selected their victims committed (Capped).      *)
(***************************************************************************)
EXTENDS SessionLifecycle, FiniteSetTheorems, TLAPS

Types ==
    /\ row \in [Ids -> Row]
    /\ disabled \in BOOLEAN
    /\ req \in [Requests -> Request]
    /\ login \in [Logins -> Login]

\* What holds of a row: only a committed one is used.
RowOK(w) ==
    /\ w.st # "live" => w.gen = 0 /\ w.told = -1 /\ ~w.lost
    /\ w.age = "rotate" => w.gen < MaxRotations
    /\ w.told <= w.gen

\* What holds of a request: its session stays the same as long as it is there,
\* since an id that is referred to is not used again.
RequestOK(q) ==
    /\ q.rotated => q.id # NoId /\ q.pc \in {"handle", "delete", "done"}
    /\ q.rotated \/ (q.pc = "persist" /\ q.rotate) => q.gen < MaxRotations
    /\ q.id # NoId =>
          /\ row[q.id].st # "open"
          /\ q.id \in Live => q.gen <= row[q.id].told
          /\ q.id \in Live /\ q.rotated => q.gen < row[q.id].gen

\* The session of a login, while its transaction is open, is its own.
Creations ==
    /\ \A l \in Creating : login[l].id \in Ids /\ row[login[l].id].st = "open"
    /\ \A l \in Logins \ Creating : login[l].id = NoId /\ login[l].victims = {}
    /\ \A l, m \in Logins : l # m => /\ login[l].id = login[m].id => login[l].id = NoId
                                     /\ login[m].id \notin login[l].victims

Rows == \A i \in Ids : RowOK(row[i])

Asked == \A r \in Requests : RequestOK(req[r])

Selected == {l \in Logins : login[l].pc = "selected"}

\* The sessions there would be if the logins of T committed.
After(T) == (Live \union {login[l].id : l \in T}) \ UNION {login[l].victims : l \in T}

Capped == \A T \in SUBSET Selected : Cardinality(After(T)) <= Cap + Cardinality(Logins) - 1

\* A login that nothing has overlapped is the only one.
Lone ==
    \A l \in Creating : login[l].alone =>
        /\ Creating = {l}
        /\ l \in Selected => Cardinality(After({l})) <= Cap

RotationInv == Types /\ Rows /\ Asked /\ OneRotationPerToken /\ TokenReachesClient

SessionInv == RotationInv /\ StrictOrder(newer, Used) /\ Creations

CapInv == SessionInv /\ Capped /\ Lone

-----------------------------------------------------------------------------

LEMMA AbsentRow == Absent \in Row /\ Absent.st = "none" /\ RowOK(Absent)
BY RotationsAssumption DEF Absent, Row, Ages, RowOK

LEMMA NoRequestType == NoRequest \in Request
BY RotationsAssumption DEF NoRequest, Request, Kinds

LEMMA NoLoginType == NoLogin \in Login
BY DEF NoLogin, Login

\* A request goes on: what changes in its record, and what does not.
LEMMA RequestMoves ==
    ASSUME NEW q \in Request, NEW b \in BOOLEAN, NEW c \in BOOLEAN,
           NEW p \in {"idle", "lookup", "drop", "persist", "handle", "delete", "done"}
    PROVE  /\ [q EXCEPT !.pc = p] \in Request
           /\ [q EXCEPT !.pc = p, !.rotate = b] \in Request
           /\ [q EXCEPT !.pc = p, !.rotated = c, !.rotate = b] \in Request
<1>. DEFINE gens == 0..MaxRotations
<1>1. Request = [ pc : {"idle", "lookup", "drop", "persist", "handle", "delete", "done"},
                  kind : Kinds, id : Ids \union {NoId}, gen : gens, rotate : BOOLEAN,
                  rotated : BOOLEAN, goal : Ids \union {NoId} ]
  BY DEF Request
<1>. HIDE DEF gens
<1>. QED
  BY <1>1

LEMMA RequestDone ==
    ASSUME NEW q \in Request
    PROVE  [q EXCEPT !.pc = "done", !.kind = "read", !.goal = NoId] \in Request
<1>. DEFINE gens == 0..MaxRotations
<1>1. Request = [ pc : {"idle", "lookup", "drop", "persist", "handle", "delete", "done"},
                  kind : Kinds, id : Ids \union {NoId}, gen : gens, rotate : BOOLEAN,
                  rotated : BOOLEAN, goal : Ids \union {NoId} ]
  BY DEF Request
<1>. HIDE DEF gens
<1>. QED
  BY <1>1 DEF Kinds

\* A row changes: it ages, is used, and its client is told.
LEMMA RowUsed ==
    ASSUME NEW w \in Row, NEW a \in Ages, NEW g \in 0..MaxRotations
    PROVE  [w EXCEPT !.age = a, !.gen = g] \in Row
<1>. DEFINE gens == 0..MaxRotations
            tolds == -1..MaxRotations
<1>1. Row = [st : {"none", "open", "live"}, gen : gens, age : Ages, told : tolds, lost : BOOLEAN]
  BY DEF Row
<1>2. g \in gens
  OBVIOUS
<1>. HIDE DEF gens, tolds
<1>. QED
  BY <1>1, <1>2

LEMMA RowTold ==
    ASSUME NEW w \in Row, NEW t \in -1..MaxRotations, NEW s \in {"none", "open", "live"}
    PROVE  /\ [w EXCEPT !.told = t] \in Row
           /\ [w EXCEPT !.st = s, !.told = t] \in Row
<1>. DEFINE gens == 0..MaxRotations
            tolds == -1..MaxRotations
<1>1. Row = [st : {"none", "open", "live"}, gen : gens, age : Ages, told : tolds, lost : BOOLEAN]
  BY DEF Row
<1>2. t \in tolds
  OBVIOUS
<1>. HIDE DEF gens, tolds
<1>. QED
  BY <1>1, <1>2

LEMMA RowMoves ==
    ASSUME NEW w \in Row, NEW a \in Ages, NEW s \in {"none", "open", "live"}
    PROVE  /\ [w EXCEPT !.age = a] \in Row
           /\ [w EXCEPT !.lost = TRUE] \in Row
           /\ [w EXCEPT !.st = s] \in Row
<1>. DEFINE gens == 0..MaxRotations
            tolds == -1..MaxRotations
<1>1. Row = [st : {"none", "open", "live"}, gen : gens, age : Ages, told : tolds, lost : BOOLEAN]
  BY DEF Row
<1>. HIDE DEF gens, tolds
<1>. QED
  BY <1>1

LEMMA InitRotation == Init => RotationInv
<1>. SUFFICES ASSUME Init PROVE RotationInv
  OBVIOUS
<1>1. Types
  BY AbsentRow, NoRequestType, NoLoginType DEF Init, Types
<1>2. Rows
  BY AbsentRow DEF Init, Rows
<1>3. \A r \in Requests : ~req[r].rotated /\ req[r].id = NoId /\ req[r].pc = "idle"
  BY DEF Init, NoRequest
<1>4. Asked
  BY <1>3 DEF Asked, RequestOK
<1>5. Live = {}
  BY AbsentRow DEF Init, Live
<1>. QED
  BY <1>1, <1>2, <1>3, <1>4, <1>5 DEF RotationInv, OneRotationPerToken, TokenReachesClient

\* Rows are deleted, or none is.
SessionsEnd == \E G : row' = [i \in Ids |-> IF i \in G THEN Absent ELSE row[i]]

\* Sessions go away and requests move on, without a new token for anybody.
LEMMA RotationKept ==
    ASSUME RotationInv,
           SessionsEnd,
           req' \in [Requests -> Request], login' \in [Logins -> Login], disabled' \in BOOLEAN,
           \A r \in Requests :
              /\ req'[r].rotated = req[r].rotated
              /\ req'[r].pc = "persist" /\ req'[r].rotate => req'[r].gen < MaxRotations
              /\ req'[r].id # NoId => req'[r].id = req[r].id /\ req'[r].gen = req[r].gen
              /\ req[r].rotated => /\ req'[r].id = req[r].id
                                   /\ req'[r].pc \in {"handle", "delete", "done"}
    PROVE  RotationInv'
<1>1. row' = [i \in Ids |-> row'[i]] /\ \A i \in Ids : row'[i] = Absent \/ row'[i] = row[i]
  BY DEF SessionsEnd
<1>2. Live' \subseteq Live /\ \A i \in Live' : row'[i] = row[i]
  BY <1>1, AbsentRow DEF Live
<1>3. Types'
  BY <1>1, AbsentRow DEF RotationInv, Types
<1>4. Rows'
  BY <1>1, AbsentRow DEF RotationInv, Rows, RowOK
<1>5. Asked'
  <2>. SUFFICES ASSUME NEW r \in Requests PROVE RequestOK(req[r])'
    BY DEF Asked
  <2>1. RequestOK(req[r])
    BY DEF RotationInv, Asked
  <2>0. req'[r].rotated = req[r].rotated
    OBVIOUS
  <2>2. CASE req'[r].id = NoId
    BY <2>0, <2>1, <2>2 DEF RequestOK
  <2>3. CASE req'[r].id # NoId
    <3>1. req'[r].id = req[r].id /\ req'[r].gen = req[r].gen /\ req[r].id \in Ids
      BY <2>3 DEF RotationInv, Types, Request
    <3>2. row'[req[r].id].st # "open"
      BY <1>1, <2>1, <2>3, <3>1, AbsentRow DEF RequestOK
    <3>3. req'[r].rotated \/ (req'[r].pc = "persist" /\ req'[r].rotate) => req'[r].gen < MaxRotations
      BY <2>0, <2>1, <3>1 DEF RequestOK
    <3>4. req'[r].id \in Live' =>
             /\ req'[r].gen <= row'[req'[r].id].told
             /\ req'[r].rotated => req'[r].gen < row'[req'[r].id].gen
      BY <1>2, <2>0, <2>1, <2>3, <3>1 DEF RequestOK
    <3>. QED
      BY <2>0, <2>1, <2>3, <3>1, <3>2, <3>3, <3>4 DEF RequestOK
  <2>. QED
    BY <2>2, <2>3
<1>6. OneRotationPerToken'
  BY DEF RotationInv, Asked, RequestOK, OneRotationPerToken
<1>7. TokenReachesClient'
  <2>. SUFFICES ASSUME NEW i \in Live', ~(row'[i].told \in {-1, row'[i].gen} \/ row'[i].lost)
                PROVE  \E r \in Requests : /\ req'[r].rotated /\ req'[r].id = i
                                           /\ Current(r)' = row'[i].gen
    BY DEF TokenReachesClient
  <2>1. i \in Live /\ row'[i] = row[i]
    BY <1>2
  <2>2. PICK r \in Requests : req[r].rotated /\ req[r].id = i /\ Current(r) = row[i].gen
    BY <2>1 DEF RotationInv, TokenReachesClient
  <2>3. req'[r].rotated /\ req'[r].id = i /\ req'[r].gen = req[r].gen
    BY <2>2 DEF RotationInv, Asked, RequestOK
  <2>. QED
    BY <2>1, <2>2, <2>3 DEF Current
<1>. QED
  BY <1>3, <1>4, <1>5, <1>6, <1>7 DEF RotationInv

\* The same when one request moves, to h.
LEMMA RotationKeptByOne ==
    ASSUME RotationInv, NEW r \in Requests, NEW h \in Request, SessionsEnd,
           req' = [req EXCEPT ![r] = h], UNCHANGED <<disabled, login>>,
           h.rotated = req[r].rotated,
           h.pc = "persist" /\ h.rotate => h.gen < MaxRotations,
           h.id # NoId => h.id = req[r].id /\ h.gen = req[r].gen,
           req[r].rotated => h.id = req[r].id /\ h.pc \in {"handle", "delete", "done"}
    PROVE  RotationInv'
<1>1. req'[r] = h /\ \A s \in Requests \ {r} : req'[s] = req[s]
  BY DEF RotationInv, Types
<1>2. req' \in [Requests -> Request]
  BY DEF RotationInv, Types
<1>3. login' \in [Logins -> Login] /\ disabled' \in BOOLEAN
  BY DEF RotationInv, Types
<1>4. \A s \in Requests :
          /\ req'[s].rotated = req[s].rotated
          /\ req'[s].pc = "persist" /\ req'[s].rotate => req'[s].gen < MaxRotations
          /\ req'[s].id # NoId => req'[s].id = req[s].id /\ req'[s].gen = req[s].gen
          /\ req[s].rotated => /\ req'[s].id = req[s].id
                               /\ req'[s].pc \in {"handle", "delete", "done"}
  BY <1>1 DEF RotationInv, Asked, RequestOK
<1>. QED
  BY <1>2, <1>3, <1>4, RotationKept

\* What is left of a request that has its answer.
LEMMA DoneRecord ==
    ASSUME Types, NEW r \in Requests, Done(r)
    PROVE  \E h \in Request : /\ req' = [req EXCEPT ![r] = h]
                              /\ h.rotated = req[r].rotated /\ h.pc = "done"
                              /\ h.id # NoId => h.id = req[r].id /\ h.gen = req[r].gen
                              /\ req[r].rotated => h.id = req[r].id
<1>1. CASE req[r].rotated
  <2>0. PICK q \in Request : q = req[r]
    BY DEF Types
  <2>. DEFINE h == [q EXCEPT !.pc = "done", !.kind = "read", !.goal = NoId]
  <2>1. h \in Request
    BY RequestDone
  <2>2. h.rotated = q.rotated /\ h.pc = "done" /\ h.id = q.id /\ h.gen = q.gen
    BY DEF Request
  <2>3. req' = [req EXCEPT ![r] = h]
    BY <1>1, <2>0 DEF Done, Types
  <2>. HIDE DEF h
  <2>. QED
    BY <2>0, <2>1, <2>2, <2>3
<1>2. CASE ~req[r].rotated
  <2>. DEFINE h == [NoRequest EXCEPT !.pc = "done"]
  <2>1. h \in Request /\ h.rotated = FALSE /\ h.pc = "done" /\ h.id = NoId
    BY NoRequestType DEF NoRequest, Request
  <2>2. req' = [req EXCEPT ![r] = h]
    BY <1>2 DEF Done
  <2>3. req[r].rotated = FALSE
    BY <1>2 DEF Types, Request
  <2>. QED
    BY <1>2, <2>1, <2>2, <2>3
<1>. QED
  BY <1>1, <1>2

\* A request has its answer, and perhaps sessions are deleted.
LEMMA RotationKeptByDone ==
    ASSUME RotationInv, NEW r \in Requests, Done(r), SessionsEnd,
           UNCHANGED <<disabled, login>>
    PROVE  RotationInv'
<1>1. PICK h \in Request : /\ req' = [req EXCEPT ![r] = h]
                           /\ h.rotated = req[r].rotated /\ h.pc = "done"
                           /\ h.id # NoId => h.id = req[r].id /\ h.gen = req[r].gen
                           /\ req[r].rotated => h.id = req[r].id
  BY DoneRecord DEF RotationInv
<1>2. /\ h.pc = "persist" /\ h.rotate => h.gen < MaxRotations
      /\ req[r].rotated => h.id = req[r].id /\ h.pc \in {"handle", "delete", "done"}
  BY <1>1
<1>. QED
  BY <1>1, <1>2, RotationKeptByOne

LEMMA NoneEnds == ASSUME Types, row' = row PROVE SessionsEnd
<1>. DEFINE G == {NoId}
<1>1. \A i \in Ids : i \notin G
  BY IdsAssumption
<1>. HIDE DEF G
<1>2. row' = [i \in Ids |-> IF i \in G THEN Absent ELSE row[i]]
  BY <1>1 DEF Types
<1>. QED
  BY <1>2 DEF SessionsEnd

-----------------------------------------------------------------------------
\* The actions

LEMMA SendRotation ==
    ASSUME RotationInv, NEW r \in Requests, NEW k \in Kinds, NEW i \in Ids,
           NEW g \in 0..MaxRotations, NEW goal \in Ids \union {NoId}, Send(r, k, i, g, goal)
    PROVE  RotationInv'
<1>. DEFINE h == [NoRequest EXCEPT !.pc = "lookup", !.kind = k, !.id = i, !.gen = g, !.goal = goal]
<1>1. /\ h \in Request /\ h.rotated = FALSE /\ h.pc = "lookup" /\ h.rotate = FALSE
      /\ h.id = i /\ h.gen = g
  BY NoRequestType DEF NoRequest, Request
<1>2. req' = [req EXCEPT ![r] = h]
  BY DEF Send
<1>. HIDE DEF h
<1>3. req'[r] = h /\ \A s \in Requests \ {r} : req'[s] = req[s]
  BY <1>2 DEF RotationInv, Types
<1>4. UNCHANGED <<row, disabled, login>> /\ i \in Live /\ g <= row[i].told /\ ~req[r].rotated
  BY DEF Send, Live, RotationInv, Asked, RequestOK
<1>5. Types'
  BY <1>1, <1>2, <1>4 DEF RotationInv, Types
<1>6. Asked'
  <2>. SUFFICES ASSUME NEW s \in Requests PROVE RequestOK(req[s])'
    BY DEF Asked
  <2>1. CASE s = r
    BY <1>1, <1>3, <1>4, <2>1 DEF RequestOK, Live
  <2>2. CASE s # r
    BY <1>3, <1>4, <2>2 DEF RotationInv, Asked, RequestOK, Live
  <2>. QED
    BY <2>1, <2>2
<1>7. OneRotationPerToken'
  BY <1>1, <1>3 DEF RotationInv, OneRotationPerToken
<1>8. TokenReachesClient'
  BY <1>1, <1>3, <1>4 DEF RotationInv, TokenReachesClient, Live, Current
<1>. QED
  BY <1>4, <1>5, <1>6, <1>7, <1>8 DEF RotationInv, Rows

LEMMA LookupRotation == ASSUME RotationInv, NEW r \in Requests, Lookup(r) PROVE RotationInv'
<1>0. SessionsEnd /\ UNCHANGED <<row, disabled, login>>
  BY NoneEnds DEF Lookup, RotationInv
<1>1. CASE Finds(req[r].id, req[r].gen)
  <2>. DEFINE age == row[req[r].id].age
              p == IF age = "over" \/ disabled THEN "drop"
                   ELSE IF age = "fresh" THEN "handle" ELSE "persist"
              b == age = "rotate"
              h == [req[r] EXCEPT !.pc = p, !.rotate = b]
  <2>1. p \in {"drop", "handle", "persist"} /\ b \in BOOLEAN /\ ~req[r].rotated
    BY DEF Lookup, RotationInv, Asked, RequestOK
  <2>2. req' = [req EXCEPT ![r].pc = p, ![r].rotate = b]
    BY <1>1 DEF Lookup
  <2>. HIDE DEF p, b
  <2>3. req' = [req EXCEPT ![r] = h]
    BY <2>2 DEF RotationInv, Types
  <2>a. /\ h \in Request /\ h.rotated = req[r].rotated /\ h.rotate = b
        /\ h.id = req[r].id /\ h.gen = req[r].gen
    <3>1. req[r] \in Request
      BY DEF RotationInv, Types
    <3>2. h \in Request
      BY <2>1, <3>1, RequestMoves
    <3>. QED
      BY <3>1, <3>2 DEF Request
  <2>4. age = "rotate" => req[r].gen < MaxRotations
    BY <1>1 DEF Finds, Live, RotationInv, Rows, RowOK
  <2>. HIDE DEF h
  <2>5. h.rotate => req[r].gen < MaxRotations
    BY <2>4, <2>a DEF b
  <2>. HIDE DEF age
  <2>. QED
    BY <1>0, <2>1, <2>3, <2>5, <2>a, RotationKeptByOne
<1>2. CASE ~Finds(req[r].id, req[r].gen)
  BY <1>0, <1>2, RotationKeptByDone DEF Lookup
<1>. QED
  BY <1>1, <1>2

\* Requests that end, with or without deleting sessions.
LEMMA DeletingRotation ==
    ASSUME RotationInv, NEW r \in Requests,
           Drop(r) \/ Read(r) \/ Logout(r) \/ LogoutAll(r) \/ RevokeDelete(r)
    PROVE  RotationInv'
<1>1. UNCHANGED <<disabled, login>> /\ Done(r)
  BY DEF Drop, Read, Logout, LogoutAll, RevokeDelete
<1>2. CASE \E S : Delete(S)
  <2>1. SessionsEnd
    BY <1>2 DEF Delete, SessionsEnd
  <2>. QED
    BY <1>1, <2>1, RotationKeptByDone
<1>3. CASE row' = row
  BY <1>1, <1>3, NoneEnds, RotationKeptByDone DEF RotationInv
<1>. QED
  BY <1>2, <1>3 DEF Drop, Read, Logout, LogoutAll, RevokeDelete

LEMMA RevokeFindRotation ==
    ASSUME RotationInv, NEW r \in Requests, RevokeFind(r) PROVE RotationInv'
<1>0. SessionsEnd /\ UNCHANGED <<disabled, login>>
  BY NoneEnds DEF RevokeFind, RotationInv
<1>1. CASE req[r].goal \in Live
  <2>1. PICK q \in Request : q = req[r]
    BY DEF RotationInv, Types
  <2>. DEFINE h == [q EXCEPT !.pc = "delete"]
  <2>2. h \in Request
    BY RequestMoves
  <2>3. /\ h.rotated = req[r].rotated /\ h.pc = "delete"
        /\ h.id = req[r].id /\ h.gen = req[r].gen
    BY <2>1 DEF Request
  <2>4. req' = [req EXCEPT ![r] = h]
    BY <1>1, <2>1 DEF RevokeFind, RotationInv, Types
  <2>. HIDE DEF h
  <2>. QED
    BY <1>0, <2>2, <2>3, <2>4, RotationKeptByOne
<1>2. CASE req[r].goal \notin Live
  BY <1>0, <1>2, RotationKeptByDone DEF RevokeFind
<1>. QED
  BY <1>1, <1>2

LEMMA PersistRotation == ASSUME RotationInv, NEW r \in Requests, Persist(r) PROVE RotationInv'
<1>0. PICK q \in Request : q = req[r]
  BY DEF RotationInv, Types
<1>1. q.pc = "persist" /\ ~q.rotated /\ RequestOK(q) /\ UNCHANGED <<disabled, login>>
  BY <1>0 DEF Persist, RotationInv, Asked, RequestOK
<1>2. CASE ~Finds(q.id, q.gen)
  <2>. DEFINE h == [q EXCEPT !.pc = "handle", !.rotate = FALSE]
  <2>1. h \in Request
    BY RequestMoves
  <2>2. /\ h.rotated = q.rotated /\ h.rotate = FALSE /\ h.pc = "handle"
        /\ h.id = q.id /\ h.gen = q.gen
    BY DEF Request
  <2>3. req' = [req EXCEPT ![r] = h] /\ row' = row
    BY <1>0, <1>2 DEF Persist, RotationInv, Types
  <2>4. SessionsEnd
    BY <2>3, NoneEnds DEF RotationInv
  <2>. HIDE DEF h
  <2>. QED
    BY <1>0, <1>1, <2>1, <2>2, <2>3, <2>4, RotationKeptByOne
<1>3. CASE Finds(q.id, q.gen)
  <2>1. q.rotate \in BOOLEAN /\ q.id \in Live /\ q.id \in Ids /\ q.id # NoId
    BY <1>3, IdsAssumption DEF Request, Finds, Live
  <2>a. PICK w \in Row : w = row[q.id] /\ RowOK(w) /\ w.gen = q.gen /\ w.st = "live"
    BY <1>3, <2>1 DEF RotationInv, Types, Rows, Finds, Live
  <2>. DEFINE h == [q EXCEPT !.pc = "handle", !.rotated = q.rotate, !.rotate = FALSE]
              age == IF w.age = "touch" \/ (w.age = "rotate" /\ q.rotate) THEN "fresh" ELSE w.age
              gen == IF q.rotate THEN w.gen + 1 ELSE w.gen
              v == [w EXCEPT !.age = age, !.gen = gen]
  <2>2. /\ h \in Request /\ h.rotated = q.rotate /\ h.rotate = FALSE /\ h.pc = "handle"
        /\ h.id = q.id /\ h.gen = q.gen
    <3>1. h \in Request
      BY <2>1, RequestMoves
    <3>. QED
      BY <3>1 DEF Request
  <2>3. w.gen \in 0..MaxRotations /\ w.told \in -1..MaxRotations /\ q.gen \in Int
    BY DEF Row, Request
  <2>b. q.rotate => q.gen < MaxRotations
    BY <1>1 DEF RequestOK
  <2>4. /\ gen \in 0..MaxRotations /\ w.gen <= gen /\ (q.rotate => gen = q.gen + 1)
        /\ ~q.rotate => gen = w.gen
    BY <2>3, <2>a, <2>b, RotationsAssumption
  <2>5. age \in Ages /\ (age = "rotate" => w.age = "rotate" /\ ~q.rotate)
    BY DEF Row, Ages
  <2>6. row' = [row EXCEPT ![q.id] = v] /\ req' = [req EXCEPT ![r] = h]
    BY <1>0, <1>3, <2>1, <2>a DEF Persist, RotationInv, Types
  <2>. HIDE DEF age, gen
  <2>7. v \in Row /\ v.st = "live" /\ v.gen = gen /\ v.age = age /\ v.told = w.told /\ v.lost = w.lost
    <3>1. v \in Row
      BY <2>4, <2>5, RowUsed
    <3>2. /\ v.st = w.st /\ v.gen = gen /\ v.age = age /\ v.told = w.told /\ v.lost = w.lost
      BY DEF Row
    <3>. QED
      BY <3>1, <3>2, <2>a
  <2>. HIDE DEF h, v
  <2>8. RowOK(v)
    BY <2>3, <2>4, <2>5, <2>7, <2>a DEF RowOK
  <2>9. /\ req'[r] = h /\ \A s \in Requests \ {r} : req'[s] = req[s]
        /\ row'[q.id] = v /\ \A i \in Ids \ {q.id} : row'[i] = row[i]
    BY <2>1, <2>6 DEF RotationInv, Types
  <2>10. Live' = Live
    BY <2>1, <2>7, <2>9 DEF Live
  <2>11. Types' /\ Rows'
    BY <1>1, <2>2, <2>6, <2>7, <2>8, <2>9 DEF RotationInv, Types, Rows
  <2>12. Asked'
    <3>. SUFFICES ASSUME NEW s \in Requests PROVE RequestOK(req[s])'
      BY DEF Asked
    <3>1. CASE s = r
      <4>1. q.gen <= w.told
        BY <1>1, <2>1, <2>a DEF RequestOK
      <4>2. row'[q.id].st # "open"
        BY <2>7, <2>9
      <4>3. q.gen <= row'[q.id].told /\ (q.rotate => q.gen < row'[q.id].gen)
        BY <2>3, <2>4, <2>7, <2>9, <4>1
      <4>. QED
        BY <2>1, <2>2, <2>9, <2>b, <3>1, <4>2, <4>3 DEF RequestOK
    <3>2. CASE s # r
      <4>1. RequestOK(req[s]) /\ req'[s] = req[s] /\ req[s] \in Request
        BY <2>9, <3>2 DEF RotationInv, Types, Asked
      <4>2. w.gen \in Int /\ gen \in Int /\ req[s].gen \in Int
        BY <2>3, <2>4, <4>1 DEF Request
      <4>3. CASE req[s].id = q.id
        <5>1. /\ req[s].gen <= w.told
              /\ req[s].rotated => req[s].gen < w.gen
          BY <2>1, <2>a, <4>1, <4>3 DEF RequestOK
        <5>2. /\ req[s].gen <= row'[q.id].told /\ row'[q.id].st # "open"
              /\ req[s].rotated => req[s].gen < row'[q.id].gen
          BY <2>4, <2>7, <2>9, <4>2, <5>1
        <5>. QED
          BY <4>1, <4>3, <5>2 DEF RequestOK
      <4>4. CASE req[s].id # q.id
        BY <2>9, <2>10, <4>1, <4>4 DEF RequestOK, Request
      <4>. QED
        BY <4>3, <4>4
    <3>. QED
      BY <3>1, <3>2
  <2>13. OneRotationPerToken'
    <3>1. \A s \in Requests \ {r} : req[s].rotated /\ req[s].id = q.id => req[s].gen < q.gen
      BY <2>1, <2>a DEF RotationInv, Asked, RequestOK
    <3>2. \A s \in Requests : req[s].gen \in Int
      BY DEF RotationInv, Types, Request
    <3>. QED
      BY <2>2, <2>3, <2>9, <3>1, <3>2 DEF RotationInv, OneRotationPerToken
  <2>14. TokenReachesClient'
    <3>. SUFFICES ASSUME NEW i \in Live, ~(row'[i].told \in {-1, row'[i].gen} \/ row'[i].lost)
                  PROVE  \E s \in Requests : /\ req'[s].rotated /\ req'[s].id = i
                                             /\ Current(s)' = row'[i].gen
      BY <2>10 DEF TokenReachesClient
    <3>1. CASE i = q.id /\ q.rotate
      <4>1. Current(r)' = row'[i].gen
        BY <2>2, <2>4, <2>7, <2>9, <3>1 DEF Current
      <4>. QED
        BY <2>2, <2>9, <3>1, <4>1
    <3>2. CASE ~(i = q.id /\ q.rotate)
      <4>1. row'[i].told = row[i].told /\ row'[i].gen = row[i].gen /\ row'[i].lost = row[i].lost
        BY <2>1, <2>4, <2>7, <2>9, <2>a, <3>2 DEF Live
      <4>2. PICK s \in Requests : req[s].rotated /\ req[s].id = i /\ Current(s) = row[i].gen
        BY <4>1 DEF RotationInv, TokenReachesClient
      <4>3. s # r
        BY <1>0, <1>1, <4>2
      <4>. QED
        BY <2>9, <4>1, <4>2, <4>3 DEF Current
    <3>. QED
      BY <3>1, <3>2
  <2>. QED
    BY <2>11, <2>12, <2>13, <2>14 DEF RotationInv
<1>. QED
  BY <1>2, <1>3

\* A request ends, and the history of its session is written.
LEMMA RotationKeptByEnd ==
    ASSUME RotationInv, NEW r \in Requests, req' = [req EXCEPT ![r] = NoRequest],
           UNCHANGED <<disabled, login>>, row' \in [Ids -> Row],
           \A i \in Ids : /\ row'[i].st = row[i].st /\ row'[i].gen = row[i].gen
                          /\ row'[i].age = row[i].age
                          /\ row[i].told <= row'[i].told /\ row'[i].told <= row[i].gen
                          /\ i \notin Live => row'[i] = row[i]
    PROVE  /\ Types' /\ Rows' /\ Asked' /\ OneRotationPerToken'
           /\ Live' = Live /\ req'[r] = NoRequest
           /\ \A s \in Requests \ {r} : req'[s] = req[s]
<1>1. req'[r] = NoRequest /\ \A s \in Requests \ {r} : req'[s] = req[s]
  BY DEF RotationInv, Types
<1>2. Live' = Live
  BY DEF Live
<1>3. Types'
  BY NoRequestType DEF RotationInv, Types
<1>4. Rows'
  BY DEF RotationInv, Rows, RowOK, Live
<1>5. \A i \in Ids : row[i].told \in Int /\ row[i].gen \in Int /\ row'[i].told \in Int
  BY DEF RotationInv, Types, Row
<1>6. Asked'
  <2>. SUFFICES ASSUME NEW s \in Requests PROVE RequestOK(req[s])'
    BY DEF Asked
  <2>1. CASE s = r
    BY <1>1, <2>1 DEF RequestOK, NoRequest
  <2>2. CASE s # r
    <3>1. RequestOK(req[s]) /\ req'[s] = req[s] /\ req[s] \in Request
      BY <1>1, <2>2 DEF RotationInv, Types, Asked
    <3>2. CASE req[s].id = NoId
      BY <3>1, <3>2 DEF RequestOK
    <3>3. CASE req[s].id # NoId
      <4>1. req[s].id \in Ids /\ req[s].gen \in Int
        BY <3>1, <3>3 DEF Request
      <4>2. /\ row'[req[s].id].st # "open"
            /\ req[s].id \in Live => req[s].gen <= row'[req[s].id].told
            /\ req[s].id \in Live /\ req[s].rotated => req[s].gen < row'[req[s].id].gen
        BY <1>5, <3>1, <3>3, <4>1 DEF RequestOK
      <4>. QED
        BY <1>2, <3>1, <4>2 DEF RequestOK
    <3>. QED
      BY <3>2, <3>3
  <2>. QED
    BY <2>1, <2>2
<1>7. OneRotationPerToken'
  BY <1>1 DEF RotationInv, OneRotationPerToken, NoRequest
<1>. QED
  BY <1>1, <1>2, <1>3, <1>4, <1>6, <1>7

LEMMA RespondRotation == ASSUME RotationInv, NEW r \in Requests, Respond(r) PROVE RotationInv'
<1>0. PICK q \in Request : q = req[r]
  BY DEF RotationInv, Types
<1>. DEFINE cur == q.gen + 1
<1>1. /\ req' = [req EXCEPT ![r] = NoRequest] /\ UNCHANGED <<disabled, login>>
      /\ row' = [i \in Ids |-> IF i = q.id /\ q.rotated /\ i \in Live
                               THEN [row[i] EXCEPT !.told = IF row[i].told < cur THEN cur
                                                            ELSE row[i].told]
                               ELSE row[i]]
  BY <1>0 DEF Respond, Current
<1>2. cur \in Int /\ cur > 0
  BY DEF Request
<1>3. ASSUME q.id \in Live, q.rotated
      PROVE  /\ row[q.id] \in Row /\ cur <= row[q.id].gen /\ row[q.id].told # -1
             /\ cur \in -1..MaxRotations /\ row[q.id].told <= row[q.id].gen
  <2>1. row[q.id] \in Row /\ RowOK(row[q.id]) /\ RequestOK(q) /\ q.id # NoId
    BY <1>0, <1>3, IdsAssumption DEF RotationInv, Types, Rows, Asked, Live
  <2>2. q.gen <= row[q.id].told /\ q.gen < row[q.id].gen /\ row[q.id].told <= row[q.id].gen
    BY <1>3, <2>1 DEF RequestOK, RowOK
  <2>3. row[q.id].gen \in 0..MaxRotations /\ row[q.id].told \in -1..MaxRotations
    BY <2>1 DEF Row
  <2>. QED
    BY <1>2, <2>1, <2>2, <2>3, RotationsAssumption DEF Request
<1>. HIDE DEF cur
<1>4. ASSUME NEW i \in Ids
      PROVE  /\ row'[i] \in Row
             /\ row'[i].st = row[i].st /\ row'[i].gen = row[i].gen /\ row'[i].age = row[i].age
             /\ row[i].told <= row'[i].told /\ row'[i].told <= row[i].gen
             /\ row'[i].lost = row[i].lost
             /\ i \notin Live => row'[i] = row[i]
             /\ i = q.id /\ q.rotated /\ i \in Live =>
                   /\ row'[i].told >= cur
                   /\ row[i].told = row[i].gen => row'[i].told = row[i].gen
  <2>0. PICK w \in Row : w = row[i]
    BY DEF RotationInv, Types
  <2>1. w.told \in Int /\ w.gen \in Int /\ w.told <= w.gen /\ w.told \in -1..MaxRotations
    BY <2>0 DEF RotationInv, Rows, RowOK, Row
  <2>2. CASE i = q.id /\ q.rotated /\ i \in Live
    <3>. DEFINE t == IF w.told < cur THEN cur ELSE w.told
                v == [w EXCEPT !.told = t]
    <3>1. cur <= w.gen /\ cur \in -1..MaxRotations
      BY <1>3, <2>0, <2>2
    <3>2. t \in -1..MaxRotations /\ w.told <= t /\ t <= w.gen /\ cur <= t
          /\ (w.told = w.gen => t = w.gen)
      BY <1>2, <2>1, <3>1
    <3>3. row'[i] = v
      BY <1>1, <2>0, <2>2
    <3>. HIDE DEF t
    <3>4. v \in Row
      BY <3>2, RowTold
    <3>5. v.st = w.st /\ v.gen = w.gen /\ v.age = w.age /\ v.told = t /\ v.lost = w.lost
      BY DEF Row
    <3>. HIDE DEF v
    <3>. QED
      BY <2>0, <2>2, <3>2, <3>3, <3>4, <3>5
  <2>3. CASE ~(i = q.id /\ q.rotated /\ i \in Live)
    <3>1. row'[i] = w
      BY <1>1, <2>0, <2>3
    <3>. QED
      BY <2>0, <2>1, <2>3, <3>1
  <2>. QED
    BY <2>2, <2>3
<1>5. row' \in [Ids -> Row]
  BY <1>1, <1>4
<1>6. /\ Types' /\ Rows' /\ Asked' /\ OneRotationPerToken'
      /\ Live' = Live /\ req'[r] = NoRequest
      /\ \A s \in Requests \ {r} : req'[s] = req[s]
  BY <1>1, <1>4, <1>5, RotationKeptByEnd
<1>7. TokenReachesClient'
  <2>. SUFFICES ASSUME NEW i \in Live, ~(row'[i].told \in {-1, row'[i].gen} \/ row'[i].lost)
                PROVE  \E s \in Requests : /\ req'[s].rotated /\ req'[s].id = i
                                           /\ Current(s)' = row'[i].gen
    BY <1>6 DEF TokenReachesClient
  <2>0. i \in Ids /\ row[i] \in Row
    BY DEF Live, RotationInv, Types
  <2>1. ~(row[i].told = row[i].gen) /\ ~row[i].lost /\ row'[i].gen = row[i].gen
    <3>1. CASE i = q.id /\ q.rotated
      BY <1>4, <2>0, <3>1
    <3>2. CASE ~(i = q.id /\ q.rotated)
      <4>1. row'[i] = row[i]
        BY <1>1, <2>0, <3>2
      <4>. QED
        BY <4>1
    <3>. QED
      BY <3>1, <3>2
  <2>2. row[i].told # -1
    <3>1. CASE i = q.id /\ q.rotated
      BY <1>3, <3>1
    <3>2. CASE ~(i = q.id /\ q.rotated)
      <4>1. row'[i] = row[i]
        BY <1>1, <2>0, <3>2
      <4>. QED
        BY <4>1
    <3>. QED
      BY <3>1, <3>2
  <2>3. PICK s \in Requests : req[s].rotated /\ req[s].id = i /\ Current(s) = row[i].gen
    BY <2>1, <2>2 DEF RotationInv, TokenReachesClient
  <2>4. s # r
    <3>. SUFFICES ASSUME s = r PROVE FALSE
      OBVIOUS
    <3>1. q.rotated /\ q.id = i /\ cur = row[i].gen
      BY <1>0, <2>3 DEF Current, cur
    <3>2. row'[i].told >= cur /\ row'[i].told <= row[i].gen /\ row'[i] \in Row
      BY <1>4, <2>0, <3>1
    <3>3. row'[i].told = row'[i].gen
      BY <1>2, <2>1, <3>1, <3>2 DEF Row
    <3>. QED
      BY <3>3
  <2>. QED
    BY <1>6, <2>1, <2>3, <2>4 DEF Current
<1>. QED
  BY <1>6, <1>7 DEF RotationInv

LEMMA LoseRotation == ASSUME RotationInv, NEW r \in Requests, Lose(r) PROVE RotationInv'
<1>1. /\ req' = [req EXCEPT ![r] = NoRequest] /\ UNCHANGED <<disabled, login>>
      /\ row' = [i \in Ids |-> IF i = req[r].id /\ req[r].rotated /\ i \in Live
                               THEN [row[i] EXCEPT !.lost = TRUE] ELSE row[i]]
  BY DEF Lose
<1>2. ASSUME NEW i \in Ids
      PROVE  /\ row'[i] \in Row
             /\ row'[i].st = row[i].st /\ row'[i].gen = row[i].gen /\ row'[i].age = row[i].age
             /\ row'[i].told = row[i].told /\ row[i].told <= row[i].gen
             /\ row[i].told \in Int
             /\ i \notin Live => row'[i] = row[i]
             /\ ~row'[i].lost => ~row[i].lost /\ ~(i = req[r].id /\ req[r].rotated /\ i \in Live)
  <2>0. PICK w \in Row : w = row[i]
    BY DEF RotationInv, Types
  <2>1. w.told \in Int /\ w.told <= w.gen
    BY <2>0 DEF RotationInv, Rows, RowOK, Row
  <2>. DEFINE v == [w EXCEPT !.lost = TRUE]
  <2>2. v \in Row
    BY RowMoves DEF Ages
  <2>3. v.st = w.st /\ v.gen = w.gen /\ v.age = w.age /\ v.told = w.told /\ v.lost = TRUE
    BY DEF Row
  <2>4. row'[i] = IF i = req[r].id /\ req[r].rotated /\ i \in Live THEN v ELSE w
    BY <1>1, <2>0
  <2>. HIDE DEF v
  <2>. QED
    BY <2>0, <2>1, <2>2, <2>3, <2>4
<1>3. row' \in [Ids -> Row]
  BY <1>1, <1>2
<1>4. \A i \in Ids : row[i].told <= row'[i].told /\ row'[i].told <= row[i].gen
  BY <1>2
<1>5. /\ Types' /\ Rows' /\ Asked' /\ OneRotationPerToken'
      /\ Live' = Live /\ req'[r] = NoRequest
      /\ \A s \in Requests \ {r} : req'[s] = req[s]
  BY <1>1, <1>2, <1>3, <1>4, RotationKeptByEnd
<1>6. TokenReachesClient'
  <2>. SUFFICES ASSUME NEW i \in Live, ~(row'[i].told \in {-1, row'[i].gen} \/ row'[i].lost)
                PROVE  \E s \in Requests : /\ req'[s].rotated /\ req'[s].id = i
                                           /\ Current(s)' = row'[i].gen
    BY <1>5 DEF TokenReachesClient
  <2>1. /\ row'[i].gen = row[i].gen /\ row'[i].told = row[i].told /\ ~row[i].lost
        /\ ~(i = req[r].id /\ req[r].rotated)
    BY <1>2 DEF Live
  <2>2. PICK s \in Requests : req[s].rotated /\ req[s].id = i /\ Current(s) = row[i].gen
    BY <2>1 DEF RotationInv, TokenReachesClient
  <2>. QED
    BY <1>5, <2>1, <2>2 DEF Current
<1>. QED
  BY <1>5, <1>6 DEF RotationInv

\* Rows change while no request moves: each keeps its token, or is deleted, or is
\* one that no request knows, with a token that nobody has or its client has.
LEMMA RotationKeptByRows ==
    ASSUME RotationInv, row' \in [Ids -> Row], UNCHANGED req,
           login' \in [Logins -> Login], disabled' \in BOOLEAN,
           \A i \in Ids :
              /\ RowOK(row'[i])
              /\ \/ row'[i] = Absent
                 \/ /\ row'[i].st = row[i].st /\ row'[i].gen = row[i].gen
                    /\ row'[i].told = row[i].told /\ row'[i].lost = row[i].lost
                 \/ /\ \A r \in Requests : req[r].id # i
                    /\ row'[i].told \in {-1, row'[i].gen}
    PROVE  RotationInv'
<1>1. Types' /\ Rows'
  BY DEF RotationInv, Types, Rows, RowOK
<1>2. Asked'
  <2>. SUFFICES ASSUME NEW r \in Requests PROVE RequestOK(req[r])'
    BY DEF Asked
  <2>1. RequestOK(req[r]) /\ req'[r] = req[r] /\ req[r] \in Request
    BY DEF RotationInv, Types, Asked
  <2>2. CASE req[r].id = NoId
    BY <2>1, <2>2 DEF RequestOK
  <2>3. CASE req[r].id # NoId
    <3>1. req[r].id \in Ids
      BY <2>1, <2>3 DEF Request
    <3>2. CASE row'[req[r].id] = Absent
      BY <2>1, <2>3, <3>1, <3>2, AbsentRow DEF RequestOK, Live
    <3>3. CASE row'[req[r].id] # Absent
      <4>1. LET i == req[r].id
            IN  /\ row'[i].st = row[i].st /\ row'[i].gen = row[i].gen /\ row'[i].told = row[i].told
                /\ i \in Live' <=> i \in Live
        BY <3>1, <3>3 DEF Live
      <4>. QED
        BY <2>1, <4>1 DEF RequestOK
    <3>. QED
      BY <3>2, <3>3
  <2>. QED
    BY <2>2, <2>3
<1>3. OneRotationPerToken'
  BY DEF RotationInv, OneRotationPerToken
<1>4. TokenReachesClient'
  <2>. SUFFICES ASSUME NEW i \in Live', ~(row'[i].told \in {-1, row'[i].gen} \/ row'[i].lost)
                PROVE  \E r \in Requests : /\ req'[r].rotated /\ req'[r].id = i
                                           /\ Current(r)' = row'[i].gen
    BY DEF TokenReachesClient
  <2>1. /\ i \in Live /\ row'[i].gen = row[i].gen
        /\ row'[i].told = row[i].told /\ row'[i].lost = row[i].lost
    BY AbsentRow DEF Live
  <2>2. PICK r \in Requests : req[r].rotated /\ req[r].id = i /\ Current(r) = row[i].gen
    BY <2>1 DEF RotationInv, TokenReachesClient
  <2>. QED
    BY <2>1, <2>2 DEF Current
<1>. QED
  BY <1>1, <1>2, <1>3, <1>4 DEF RotationInv

\* No request moves, and no row changes but by being deleted.
LEMMA RotationKeptByEnds ==
    ASSUME RotationInv, SessionsEnd, UNCHANGED req, login' \in [Logins -> Login],
           disabled' \in BOOLEAN
    PROVE  RotationInv'
<1>1. req' \in [Requests -> Request]
  BY DEF RotationInv, Types
<1>2. \A r \in Requests :
          /\ req'[r].rotated = req[r].rotated
          /\ req'[r].pc = "persist" /\ req'[r].rotate => req'[r].gen < MaxRotations
          /\ req'[r].id # NoId => req'[r].id = req[r].id /\ req'[r].gen = req[r].gen
          /\ req[r].rotated => /\ req'[r].id = req[r].id
                               /\ req'[r].pc \in {"handle", "delete", "done"}
  BY DEF RotationInv, Asked, RequestOK
<1>. QED
  BY <1>1, <1>2, RotationKept

LEMMA AgeRotation ==
    ASSUME RotationInv, NEW i \in Ids, NEW age \in Ages, Age(i, age) PROVE RotationInv'
<1>0. PICK w \in Row : w = row[i]
  BY DEF RotationInv, Types
<1>. DEFINE v == [w EXCEPT !.age = age]
<1>1. v \in Row
  BY RowMoves
<1>2. v.st = w.st /\ v.gen = w.gen /\ v.told = w.told /\ v.lost = w.lost /\ v.age = age
  BY DEF Row
<1>3. row' = [row EXCEPT ![i] = v] /\ UNCHANGED <<disabled, req, login>>
  BY <1>0 DEF Age, RotationInv, Types
<1>4. w.st = "live" /\ (age = "rotate" => w.gen < MaxRotations)
  BY <1>0 DEF Age, Live
<1>. HIDE DEF v
<1>5. row' \in [Ids -> Row] /\ row'[i] = v /\ \A j \in Ids \ {i} : row'[j] = row[j]
  BY <1>1, <1>3 DEF RotationInv, Types
<1>6. RowOK(w)
  BY <1>0 DEF RotationInv, Rows
<1>7. RowOK(v)
  BY <1>2, <1>4, <1>6 DEF RowOK
<1>8. ASSUME NEW j \in Ids
      PROVE  /\ RowOK(row'[j])
             /\ row'[j].st = row[j].st /\ row'[j].gen = row[j].gen
             /\ row'[j].told = row[j].told /\ row'[j].lost = row[j].lost
  BY <1>0, <1>2, <1>5, <1>7 DEF RotationInv, Rows
<1>9. login' \in [Logins -> Login] /\ disabled' \in BOOLEAN
  BY <1>3 DEF RotationInv, Types
<1>. QED
  BY <1>3, <1>5, <1>8, <1>9, RotationKeptByRows

\* The records of the logins keep their shape.
LEMMA LoginsKept ==
    ASSUME Types, Creations, newer \subseteq Used \X Used, NEW l \in Logins,
           \/ Verify(l) \/ Select(l) \/ AbandonLogin(l)
           \/ \E i \in Ids : Insert(l, i)
           \/ \E refused \in BOOLEAN : CommitLogin(l, refused)
    PROVE  login' \in [Logins -> Login]
<1>0. PICK q \in Login : q = login[l]
  BY DEF Types
<1>1. CASE Verify(l)
  <2>1. [q EXCEPT !.pc = "verified"] \in Login
    BY DEF Login
  <2>. QED
    BY <1>0, <1>1, <2>1 DEF Verify, Types
<1>2. CASE Select(l)
  <2>1. Overflow(l) \in SUBSET Ids
    BY <1>2 DEF Select, Overflow, Seen, Live, Creations, Creating
  <2>2. [q EXCEPT !.pc = "selected", !.victims = Overflow(l)] \in Login
    BY <2>1 DEF Login
  <2>3. login' = [login EXCEPT ![l] = [q EXCEPT !.pc = "selected", !.victims = Overflow(l)]]
    BY <1>0, <1>2 DEF Select, Types
  <2>. QED
    BY <2>2, <2>3 DEF Types
<1>3. CASE login' = [login EXCEPT ![l] = NoLogin]
  BY <1>3, NoLoginType DEF Types
<1>4. CASE \E i \in Ids : Insert(l, i)
  <2>1. PICK i \in Ids : Insert(l, i)
    BY <1>4
  <2>2. [q EXCEPT !.pc = "inserted", !.id = i, !.alone = Creating = {}] \in Login
    BY DEF Login
  <2>3. \A m \in Logins : [login[m] EXCEPT !.alone = @ /\ m \notin Creating] \in Login
    BY DEF Types, Login
  <2>. QED
    BY <1>0, <2>1, <2>2, <2>3 DEF Insert
<1>. QED
  BY <1>1, <1>2, <1>3, <1>4 DEF AbandonLogin, CommitLogin

LEMMA InsertRotation ==
    ASSUME RotationInv, NEW l \in Logins, NEW i \in Ids, Insert(l, i),
           login' \in [Logins -> Login]
    PROVE  RotationInv'
<1>0. PICK w \in Row : w = row[i]
  BY DEF RotationInv, Types
<1>. DEFINE v == [w EXCEPT !.st = "open"]
<1>1. v \in Row
  BY RowMoves DEF Ages
<1>2. v.st = "open" /\ v.gen = w.gen /\ v.told = w.told /\ v.lost = w.lost /\ v.age = w.age
  BY DEF Row
<1>3. row' = [row EXCEPT ![i] = v] /\ UNCHANGED <<disabled, req>>
  BY <1>0 DEF Insert, RotationInv, Types
<1>4. w.st = "none" /\ \A r \in Requests : req[r].id # i
  BY <1>0 DEF Insert, Unused
<1>. HIDE DEF v
<1>5. row' \in [Ids -> Row] /\ row'[i] = v /\ \A j \in Ids \ {i} : row'[j] = row[j]
  BY <1>1, <1>3 DEF RotationInv, Types
<1>6. RowOK(w)
  BY <1>0 DEF RotationInv, Rows
<1>7. RowOK(v) /\ v.told = -1
  BY <1>2, <1>4, <1>6 DEF RowOK
<1>8. ASSUME NEW j \in Ids
      PROVE  /\ RowOK(row'[j])
             /\ \/ /\ row'[j].st = row[j].st /\ row'[j].gen = row[j].gen
                   /\ row'[j].told = row[j].told /\ row'[j].lost = row[j].lost
                \/ /\ \A r \in Requests : req[r].id # j
                   /\ row'[j].told \in {-1, row'[j].gen}
  BY <1>4, <1>5, <1>7 DEF RotationInv, Rows
<1>9. disabled' \in BOOLEAN
  BY <1>3 DEF RotationInv, Types
<1>. QED
  BY <1>3, <1>5, <1>8, <1>9, RotationKeptByRows

LEMMA CommitRotation ==
    ASSUME RotationInv, Creations, NEW l \in Logins, NEW refused \in BOOLEAN,
           CommitLogin(l, refused), login' \in [Logins -> Login]
    PROVE  RotationInv'
<1>. DEFINE i == login[l].id
            gone == login[l].victims \intersect (Live \union {i})
<1>0. i \in Ids /\ row[i].st = "open"
  BY DEF CommitLogin, Creations, Creating
<1>1. PICK w \in Row : w = row[i]
  BY <1>0 DEF RotationInv, Types
<1>2. PICK t \in {-1, 0} : t = IF refused THEN -1 ELSE 0
  OBVIOUS
<1>. DEFINE v == [w EXCEPT !.st = "live", !.told = t]
<1>3. v \in Row
  <2>1. t \in -1..MaxRotations
    BY <1>2, RotationsAssumption
  <2>. QED
    BY <2>1, RowTold
<1>4. v.st = "live" /\ v.gen = w.gen /\ v.told = t /\ v.lost = w.lost /\ v.age = w.age
  BY DEF Row
<1>5. /\ row' = [j \in Ids |-> IF j \in gone THEN Absent ELSE IF j = i THEN v ELSE row[j]]
      /\ UNCHANGED <<disabled, req>>
  BY <1>1, <1>2 DEF CommitLogin
<1>. HIDE DEF v, gone
<1>6. RowOK(w)
  BY <1>0, <1>1 DEF RotationInv, Rows
<1>7. RowOK(v) /\ v.told \in {-1, v.gen}
  BY <1>0, <1>1, <1>2, <1>4, <1>6 DEF RowOK
<1>8. \A r \in Requests : req[r].id # i
  BY <1>0, IdsAssumption DEF RotationInv, Asked, RequestOK
<1>9. ASSUME NEW j \in Ids
      PROVE  /\ row'[j] \in Row /\ RowOK(row'[j])
             /\ \/ row'[j] = Absent
                \/ /\ row'[j].st = row[j].st /\ row'[j].gen = row[j].gen
                   /\ row'[j].told = row[j].told /\ row'[j].lost = row[j].lost
                \/ /\ \A r \in Requests : req[r].id # j
                   /\ row'[j].told \in {-1, row'[j].gen}
  <2>1. CASE j \in gone
    BY <1>5, <2>1, AbsentRow
  <2>2. CASE j \notin gone /\ j = i
    <3>1. row'[j] = v
      BY <1>5, <2>2
    <3>. QED
      BY <1>3, <1>7, <1>8, <2>2, <3>1
  <2>3. CASE j \notin gone /\ j # i
    <3>1. row'[j] = row[j]
      BY <1>5, <2>3
    <3>. QED
      BY <3>1 DEF RotationInv, Types, Rows
  <2>. QED
    BY <2>1, <2>2, <2>3
<1>10. row' \in [Ids -> Row]
  BY <1>5, <1>9
<1>11. disabled' \in BOOLEAN
  BY <1>5 DEF RotationInv, Types
<1>. QED
  BY <1>5, <1>9, <1>10, <1>11, RotationKeptByRows

-----------------------------------------------------------------------------
\* The order of the sessions, and the sessions of the logins

LEMMA WithoutOrder ==
    ASSUME StrictOrder(newer, Used), NEW S PROVE StrictOrder(Without(S), Used \ S)
<1>1. newer \subseteq Used \X Used
  BY DEF StrictOrder
<1>2. \A a, b : <<a, b>> \in Without(S) <=> <<a, b>> \in newer /\ a \notin S /\ b \notin S
  BY DEF Without
<1>3. Without(S) \subseteq (Used \ S) \X (Used \ S)
  BY <1>1 DEF Without
<1>. QED
  BY <1>2, <1>3 DEF StrictOrder

LEMMA FirstOrder ==
    ASSUME StrictOrder(newer, Used), NEW i \in Ids
    PROVE  StrictOrder(First(i), Used \union {i})
<1>. DEFINE U == Used \ {i}
<1>1. StrictOrder(Without({i}), U)
  BY WithoutOrder
<1>2. \A a, b : <<a, b>> \in First(i) <=> <<a, b>> \in Without({i}) \/ (a = i /\ b \in U)
  BY DEF First
<1>3. Without({i}) \subseteq U \X U
  BY <1>1 DEF StrictOrder
<1>4. i \notin U /\ Used \union {i} = U \union {i}
  OBVIOUS
<1>5. \A a, b \in U : <<a, b>> \in First(i) <=> <<a, b>> \in Without({i})
  BY <1>2, <1>4
<1>6. \A a : /\ <<a, i>> \notin First(i)
             /\ <<i, a>> \in First(i) <=> a \in U
  BY <1>2, <1>3, <1>4
<1>7. First(i) \subseteq (U \union {i}) \X (U \union {i})
  BY <1>3 DEF First
<1>. HIDE DEF U
<1>8. \A a, b \in U \union {i} : a # b => <<a, b>> \in First(i) \/ <<b, a>> \in First(i)
  BY <1>1, <1>5, <1>6 DEF StrictOrder
<1>9. \A a \in U \union {i} : <<a, a>> \notin First(i)
  BY <1>1, <1>5, <1>6 DEF StrictOrder
<1>10. \A a, b, c \in U \union {i} :
           <<a, b>> \in First(i) /\ <<b, c>> \in First(i) => <<a, c>> \in First(i)
  BY <1>1, <1>5, <1>6 DEF StrictOrder
<1>. QED
  BY <1>4, <1>7, <1>8, <1>9, <1>10 DEF StrictOrder

LEMMA DeleteOrder ==
    ASSUME StrictOrder(newer, Used), NEW S, Delete(S) PROVE StrictOrder(newer, Used)'
<1>1. Used' = Used \ (S \intersect Live)
  BY AbsentRow DEF Delete, Used, Live
<1>2. StrictOrder(newer', Used')
  BY <1>1, WithoutOrder DEF Delete
<1>. QED
  BY <1>2 DEF StrictOrder

LEMMA SameOrder ==
    ASSUME StrictOrder(newer, Used), newer' = newer,
           \A i \in Ids : row'[i].st = "none" <=> row[i].st = "none"
    PROVE  StrictOrder(newer, Used)'
<1>1. Used' = Used
  BY DEF Used
<1>. QED
  BY <1>1 DEF StrictOrder

LEMMA PersistOrder ==
    ASSUME Types, StrictOrder(newer, Used), NEW r \in Requests, Persist(r)
    PROVE  /\ StrictOrder(newer, Used)'
           /\ \A i \in Ids : row'[i].st = row[i].st
<1>0. PICK q \in Request : q = req[r]
  BY DEF Types
<1>1. CASE ~Finds(q.id, q.gen)
  BY <1>0, <1>1, SameOrder DEF Persist
<1>2. CASE Finds(q.id, q.gen)
  <2>1. q.id \in Ids /\ q.id \in Used
    BY <1>2 DEF Finds, Live, Used
  <2>2. PICK w \in Row : w = row[q.id]
    BY <2>1 DEF Types
  <2>. DEFINE age == IF w.age = "touch" \/ (w.age = "rotate" /\ q.rotate) THEN "fresh" ELSE w.age
              gen == IF q.rotate THEN w.gen + 1 ELSE w.gen
              v == [w EXCEPT !.age = age, !.gen = gen]
  <2>3. row' = [row EXCEPT ![q.id] = v] /\ newer' = First(q.id)
    BY <1>0, <1>2, <2>1, <2>2 DEF Persist, Types
  <2>4. v.st = w.st
    BY DEF Row
  <2>. HIDE DEF v
  <2>5. \A i \in Ids : row'[i].st = row[i].st
    BY <2>1, <2>2, <2>3, <2>4 DEF Types
  <2>6. Used' = Used \union {q.id}
    BY <2>1, <2>5 DEF Used
  <2>7. StrictOrder(newer', Used')
    BY <2>1, <2>3, <2>6, FirstOrder
  <2>. QED
    BY <2>5, <2>7 DEF StrictOrder
<1>. QED
  BY <1>1, <1>2

\* The sessions of open transactions stay, while no login moves.
LEMMA CreationsKept ==
    ASSUME Creations, UNCHANGED login,
           \A i \in Ids : row[i].st = "open" => row'[i].st = "open"
    PROVE  Creations'
<1>1. Creating' = Creating
  BY DEF Creating
<1>. QED
  BY <1>1 DEF Creations

\* A step that is none of a login: it deletes committed sessions or keeps the state of each.
StaysOpen ==
    /\ UNCHANGED login
    /\ \/ \E S : Delete(S)
       \/ newer' = newer /\ \A i \in Ids : row'[i].st = row[i].st

LEMMA StaysOpenKeeps ==
    ASSUME StrictOrder(newer, Used), Creations, StaysOpen
    PROVE  StrictOrder(newer, Used)' /\ Creations'
<1>1. CASE \E S : Delete(S)
  <2>1. PICK S : Delete(S)
    BY <1>1
  <2>2. \A i \in Ids : row[i].st = "open" => row'[i].st = "open"
    BY <2>1 DEF Delete, Live
  <2>. QED
    BY <2>1, <2>2, DeleteOrder, CreationsKept DEF StaysOpen
<1>2. CASE newer' = newer /\ \A i \in Ids : row'[i].st = row[i].st
  BY <1>2, SameOrder, CreationsKept DEF StaysOpen
<1>. QED
  BY <1>1, <1>2 DEF StaysOpen
\* The steps of a request other than Persist, and those of nobody.
LEMMA MostStayOpen ==
    ASSUME Types,
           \/ \E r \in Requests :
                 \/ \E k \in Kinds, i \in Ids, g \in 0..MaxRotations, goal \in Ids \union {NoId} :
                       Send(r, k, i, g, goal)
                 \/ Lookup(r) \/ Drop(r) \/ Read(r) \/ Logout(r) \/ LogoutAll(r)
                 \/ RevokeFind(r) \/ RevokeDelete(r) \/ Respond(r) \/ Lose(r)
           \/ Reset \/ SetDisabled
           \/ \E S \in SUBSET Ids : Sweep(S)
           \/ \E i \in Ids, age \in Ages : Age(i, age)
    PROVE  StaysOpen
<1>1. ASSUME NEW r \in Requests,
             \/ \E k \in Kinds, i \in Ids, g \in 0..MaxRotations, goal \in Ids \union {NoId} :
                   Send(r, k, i, g, goal)
             \/ Lookup(r) \/ Read(r) \/ RevokeFind(r)
      PROVE  StaysOpen
  BY <1>1 DEF Send, Lookup, Read, RevokeFind, StaysOpen
<1>2. ASSUME NEW r \in Requests,
             Drop(r) \/ Logout(r) \/ LogoutAll(r) \/ RevokeDelete(r)
      PROVE  StaysOpen
  BY <1>2 DEF Drop, Logout, LogoutAll, RevokeDelete, StaysOpen
<1>3. ASSUME NEW r \in Requests, Respond(r) PROVE StaysOpen
  <2>1. ASSUME NEW i \in Ids PROVE row'[i].st = row[i].st
    <3>1. PICK w \in Row : w = row[i]
      BY DEF Types
    <3>. DEFINE told == IF w.told < Current(r) THEN Current(r) ELSE w.told
                v == [w EXCEPT !.told = told]
    <3>2. row'[i] = v \/ row'[i] = w
      BY <1>3, <3>1 DEF Respond
    <3>3. v.st = w.st
      BY DEF Row
    <3>. HIDE DEF v
    <3>. QED
      BY <3>1, <3>2, <3>3
  <2>. QED
    BY <1>3, <2>1 DEF Respond, StaysOpen
<1>4. ASSUME NEW r \in Requests, Lose(r) PROVE StaysOpen
  <2>1. ASSUME NEW i \in Ids PROVE row'[i].st = row[i].st
    <3>1. PICK w \in Row : w = row[i]
      BY DEF Types
    <3>. DEFINE v == [w EXCEPT !.lost = TRUE]
    <3>2. row'[i] = v \/ row'[i] = w
      BY <1>4, <3>1 DEF Lose
    <3>3. v.st = w.st
      BY DEF Row
    <3>. HIDE DEF v
    <3>. QED
      BY <3>1, <3>2, <3>3
  <2>. QED
    BY <1>4, <2>1 DEF Lose, StaysOpen
<1>5. CASE Reset \/ SetDisabled \/ \E S \in SUBSET Ids : Sweep(S)
  BY <1>5 DEF Reset, SetDisabled, Sweep, StaysOpen
<1>6. ASSUME NEW i \in Ids, NEW age \in Ages, Age(i, age) PROVE StaysOpen
  <2>1. PICK w \in Row : w = row[i]
    BY DEF Types
  <2>. DEFINE v == [w EXCEPT !.age = age]
  <2>2. row' = [row EXCEPT ![i] = v] /\ UNCHANGED <<newer, login>>
    BY <1>6, <2>1 DEF Age, Types
  <2>3. v.st = w.st
    BY DEF Row
  <2>. HIDE DEF v
  <2>. QED
    BY <2>1, <2>2, <2>3 DEF StaysOpen, Types
<1>. QED
  BY <1>1, <1>2, <1>3, <1>4, <1>5, <1>6

LEMMA VerifyKeeps ==
    ASSUME SessionInv, NEW l \in Logins, Verify(l)
    PROVE  StrictOrder(newer, Used)' /\ Creations'
<1>0. PICK q \in Login : q = login[l]
  BY DEF SessionInv, RotationInv, Types
<1>. DEFINE p == [q EXCEPT !.pc = "verified"]
<1>1. p.pc = "verified" /\ p.id = q.id /\ p.victims = q.victims
  BY DEF Login
<1>2. login' = [login EXCEPT ![l] = p] /\ UNCHANGED <<row, newer>> /\ q.pc = "idle"
  BY <1>0 DEF Verify, SessionInv, RotationInv, Types
<1>. HIDE DEF p
<1>3. /\ login'[l] = p /\ \A m \in Logins \ {l} : login'[m] = login[m]
      /\ Creating' = Creating
  BY <1>0, <1>1, <1>2 DEF Creating, SessionInv, RotationInv, Types
<1>4. StrictOrder(newer, Used)'
  BY <1>2, SameOrder DEF SessionInv
<1>5. \A m \in Logins : login'[m].id = login[m].id /\ login'[m].victims = login[m].victims
  BY <1>0, <1>1, <1>3
<1>6. Creations'
  BY <1>2, <1>3, <1>5 DEF SessionInv, Creations
<1>. QED
  BY <1>4, <1>6

LEMMA InsertKeeps ==
    ASSUME SessionInv, NEW l \in Logins, NEW i \in Ids, Insert(l, i)
    PROVE  /\ StrictOrder(newer, Used)' /\ Creations'
           /\ Creating' = Creating \union {l} /\ l \notin Creating /\ Live' = Live
           /\ login'[l].pc = "inserted" /\ login'[l].alone = (Creating = {})
           /\ \A m \in Logins \ {l} :
                 /\ login'[m].pc = login[m].pc /\ login'[m].id = login[m].id
                 /\ login'[m].victims = login[m].victims
                 /\ login'[m].alone = (login[m].alone /\ m \notin Creating)
<1>0. PICK q \in Login : q = login[l]
  BY DEF SessionInv, RotationInv, Types
<1>. DEFINE p == [q EXCEPT !.pc = "inserted", !.id = i, !.alone = Creating = {}]
<1>1. p.pc = "inserted" /\ p.id = i /\ p.victims = q.victims /\ p.alone = (Creating = {})
  BY DEF Login
<1>2. /\ login'[l] = p /\ q.pc = "verified" /\ Unused(i) /\ newer' = First(i)
      /\ row' = [row EXCEPT ![i].st = "open"]
  BY <1>0 DEF Insert
<1>. HIDE DEF p
<1>3. ASSUME NEW m \in Logins \ {l}
      PROVE  /\ login'[m].pc = login[m].pc /\ login'[m].id = login[m].id
             /\ login'[m].victims = login[m].victims
             /\ login'[m].alone = (login[m].alone /\ m \notin Creating)
  <2>1. PICK w \in Login : w = login[m]
    BY DEF SessionInv, RotationInv, Types
  <2>. DEFINE v == [w EXCEPT !.alone = w.alone /\ m \notin Creating]
  <2>2. /\ v.pc = w.pc /\ v.id = w.id /\ v.victims = w.victims
        /\ v.alone = (w.alone /\ m \notin Creating)
    BY DEF Login
  <2>3. login'[m] = v
    BY <2>1 DEF Insert
  <2>. HIDE DEF v
  <2>. QED
    BY <2>1, <2>2, <2>3
<1>4. Creating' = Creating \union {l} /\ l \notin Creating
  BY <1>0, <1>1, <1>2, <1>3 DEF Creating
<1>5. /\ row[i].st = "none" /\ row'[i].st = "open"
      /\ \A j \in Ids \ {i} : row'[j] = row[j]
  <2>1. PICK w \in Row : w = row[i]
    BY DEF SessionInv, RotationInv, Types
  <2>2. [w EXCEPT !.st = "open"].st = "open"
    BY DEF Row
  <2>. QED
    BY <1>2, <2>1, <2>2 DEF Unused, SessionInv, RotationInv, Types
<1>6. Used' = Used \union {i} /\ Live' = Live
  BY <1>5 DEF Used, Live
<1>7. StrictOrder(newer', Used')
  BY <1>2, <1>6, FirstOrder DEF SessionInv
<1>8. StrictOrder(newer, Used)'
  BY <1>7 DEF StrictOrder
<1>9. /\ \A m \in Logins : i # login[m].id /\ i \notin login[m].victims
      /\ q.id = NoId /\ q.victims = {}
  BY <1>0, <1>2, <1>4 DEF Unused, SessionInv, Creations
<1>10. Creations'
  <2>1. \A m \in Creating' : login'[m].id \in Ids /\ row'[login'[m].id].st = "open"
    BY <1>1, <1>2, <1>3, <1>4, <1>5, <1>9 DEF SessionInv, Creations, Creating
  <2>2. \A m \in Logins \ Creating' : login'[m].id = NoId /\ login'[m].victims = {}
    BY <1>3, <1>4 DEF SessionInv, Creations
  <2>3. \A k, m \in Logins : k # m => /\ login'[k].id = login'[m].id => login'[k].id = NoId
                                      /\ login'[m].id \notin login'[k].victims
    BY <1>0, <1>1, <1>2, <1>3, <1>9 DEF SessionInv, Creations
  <2>. QED
    BY <2>1, <2>2, <2>3 DEF Creations
<1>. QED
  BY <1>1, <1>2, <1>3, <1>4, <1>6, <1>8, <1>10

LEMMA SelectKeeps ==
    ASSUME SessionInv, NEW l \in Logins, Select(l)
    PROVE  /\ StrictOrder(newer, Used)' /\ Creations'
           /\ Creating' = Creating /\ Live' = Live
           /\ login'[l].pc = "selected" /\ login'[l].id = login[l].id
           /\ login'[l].victims = Overflow(l) /\ login'[l].alone = login[l].alone
           /\ \A m \in Logins \ {l} : login'[m] = login[m]
<1>0. PICK q \in Login : q = login[l]
  BY DEF SessionInv, RotationInv, Types
<1>. DEFINE p == [q EXCEPT !.pc = "selected", !.victims = Overflow(l)]
<1>1. p.pc = "selected" /\ p.id = q.id /\ p.victims = Overflow(l) /\ p.alone = q.alone
  BY DEF Login
<1>2. login' = [login EXCEPT ![l] = p] /\ UNCHANGED <<row, newer>> /\ q.pc = "inserted"
  BY <1>0 DEF Select, SessionInv, RotationInv, Types
<1>. HIDE DEF p
<1>3. /\ login'[l] = p /\ \A m \in Logins \ {l} : login'[m] = login[m]
      /\ Creating' = Creating /\ l \in Creating /\ Live' = Live
  BY <1>0, <1>1, <1>2 DEF Creating, Live, SessionInv, RotationInv, Types
<1>4. StrictOrder(newer, Used)'
  BY <1>2, SameOrder DEF SessionInv
<1>5. \A m \in Logins \ {l} : login[m].id \notin Overflow(l)
  BY <1>3, IdsAssumption DEF Overflow, Seen, Live, SessionInv, Creations
<1>6. Creations'
  <2>1. \A m \in Creating' : login'[m].id \in Ids /\ row'[login'[m].id].st = "open"
    BY <1>0, <1>1, <1>2, <1>3 DEF SessionInv, Creations
  <2>2. \A m \in Logins \ Creating' : login'[m].id = NoId /\ login'[m].victims = {}
    BY <1>3 DEF SessionInv, Creations
  <2>3. \A k, m \in Logins : k # m => /\ login'[k].id = login'[m].id => login'[k].id = NoId
                                      /\ login'[m].id \notin login'[k].victims
    BY <1>0, <1>1, <1>3, <1>5 DEF SessionInv, Creations
  <2>. QED
    BY <2>1, <2>2, <2>3 DEF Creations
<1>. QED
  BY <1>0, <1>1, <1>3, <1>4, <1>6

\* The login has its own session in Live' unless it is among its own victims.
LEMMA CommitKeeps ==
    ASSUME SessionInv, NEW l \in Logins, NEW refused \in BOOLEAN, CommitLogin(l, refused)
    PROVE  /\ StrictOrder(newer, Used)' /\ Creations'
           /\ Creating' = Creating \ {l} /\ l \in Selected
           /\ Live' = (Live \union {login[l].id}) \ login[l].victims
           /\ \A m \in Logins \ {l} : login'[m] = login[m]
<1>. DEFINE i == login[l].id
            V == login[l].victims
            gone == V \intersect (Live \union {i})
<1>1. /\ login'[l] = NoLogin /\ \A m \in Logins \ {l} : login'[m] = login[m]
      /\ login[l].pc = "selected" /\ newer' = Without(gone)
  BY DEF CommitLogin, SessionInv, RotationInv, Types
<1>2. /\ l \in Creating /\ l \in Selected /\ i \in Ids /\ row[i].st = "open"
      /\ Creating' = Creating \ {l}
  BY <1>1 DEF Creating, Selected, NoLogin, SessionInv, Creations
<1>3. /\ \A j \in Ids \intersect gone : row'[j] = Absent
      /\ \A j \in Ids \ (gone \union {i}) : row'[j] = row[j]
      /\ i \notin gone => row'[i].st = "live"
  <2>1. PICK w \in Row : w = row[i]
    BY <1>2 DEF SessionInv, RotationInv, Types
  <2>. DEFINE t == IF refused THEN -1 ELSE 0
              v == [w EXCEPT !.st = "live", !.told = t]
  <2>2. row' = [j \in Ids |-> IF j \in gone THEN Absent ELSE IF j = i THEN v ELSE row[j]]
    BY <2>1 DEF CommitLogin
  <2>3. v.st = "live"
    BY DEF Row
  <2>. HIDE DEF gone, v
  <2>. QED
    BY <1>2, <2>2, <2>3
<1>4. Used' = Used \ gone
  BY <1>2, <1>3, AbsentRow DEF Used
<1>5. Live' = (Live \union {i}) \ V
  BY <1>2, <1>3, AbsentRow DEF Live
<1>6. StrictOrder(newer', Used')
  BY <1>1, <1>4, WithoutOrder DEF SessionInv
<1>7. StrictOrder(newer, Used)'
  BY <1>6 DEF StrictOrder
<1>8. Creations'
  <2>1. \A m \in Creating' : login'[m].id \in Ids /\ row'[login'[m].id].st = "open"
    BY <1>1, <1>2, <1>3, IdsAssumption DEF SessionInv, Creations, Creating
  <2>2. \A m \in Logins \ Creating' : login'[m].id = NoId /\ login'[m].victims = {}
    BY <1>1, <1>2 DEF SessionInv, Creations, NoLogin
  <2>3. \A k, m \in Logins : k # m => /\ login'[k].id = login'[m].id => login'[k].id = NoId
                                      /\ login'[m].id \notin login'[k].victims
    <3>1. \A m \in Logins : NoId \notin login[m].victims
      BY IdsAssumption DEF SessionInv, RotationInv, Types, Login
    <3>. QED
      BY <1>1, <3>1 DEF SessionInv, Creations, NoLogin
  <2>. QED
    BY <2>1, <2>2, <2>3 DEF Creations
<1>. QED
  BY <1>1, <1>2, <1>5, <1>7, <1>8

LEMMA AbandonKeeps ==
    ASSUME SessionInv, NEW l \in Logins, AbandonLogin(l)
    PROVE  /\ StrictOrder(newer, Used)' /\ Creations'
           /\ Creating' = Creating \ {l} /\ Live' = Live
           /\ login'[l] = NoLogin /\ \A m \in Logins \ {l} : login'[m] = login[m]
<1>. DEFINE i == login[l].id
<1>1. /\ login'[l] = NoLogin /\ \A m \in Logins \ {l} : login'[m] = login[m]
      /\ newer' = Without({i})
      /\ \A j \in Ids : row'[j] = IF j = i THEN Absent ELSE row[j]
  BY DEF AbandonLogin, SessionInv, RotationInv, Types
<1>2. Creating' = Creating \ {l}
  BY <1>1 DEF Creating, NoLogin
<1>3. i \in Ids => row[i].st = "open"
  BY IdsAssumption DEF SessionInv, Creations
<1>4. Used' = Used \ {i} /\ Live' = Live
  BY <1>1, <1>3, AbsentRow DEF Used, Live
<1>5. StrictOrder(newer', Used')
  BY <1>1, <1>4, WithoutOrder DEF SessionInv
<1>6. StrictOrder(newer, Used)'
  BY <1>5 DEF StrictOrder
<1>7. Creations'
  <2>1. \A m \in Creating' : login'[m].id \in Ids /\ row'[login'[m].id].st = "open"
    BY <1>1, <1>2, IdsAssumption DEF SessionInv, Creations, Creating
  <2>2. \A m \in Logins \ Creating' : login'[m].id = NoId /\ login'[m].victims = {}
    BY <1>1, <1>2 DEF SessionInv, Creations, NoLogin
  <2>3. \A k, m \in Logins : k # m => /\ login'[k].id = login'[m].id => login'[k].id = NoId
                                      /\ login'[m].id \notin login'[k].victims
    <3>1. \A m \in Logins : NoId \notin login[m].victims
      BY IdsAssumption DEF SessionInv, RotationInv, Types, Login
    <3>. QED
      BY <1>1, <3>1 DEF SessionInv, Creations, NoLogin
  <2>. QED
    BY <2>1, <2>2, <2>3 DEF Creations
<1>. QED
  BY <1>1, <1>2, <1>4, <1>6, <1>7

-----------------------------------------------------------------------------
\* The steps, and the theorems about tokens

LEMMA InitSession == Init => SessionInv
<1>. SUFFICES ASSUME Init PROVE SessionInv
  OBVIOUS
<1>1. Used = {} /\ newer = {}
  BY AbsentRow DEF Init, Used
<1>2. Creating = {} /\ \A l \in Logins : login[l] = NoLogin
  BY DEF Init, Creating, NoLogin
<1>3. Creations
  BY <1>2 DEF Creations, NoLogin
<1>4. StrictOrder(newer, Used)
  BY <1>1 DEF StrictOrder
<1>. QED
  BY <1>3, <1>4, InitRotation DEF SessionInv

\* A step of login l keeps the records of the logins.
LEMMA SessionLogins ==
    ASSUME SessionInv, NEW l \in Logins,
           \/ Verify(l) \/ Select(l) \/ AbandonLogin(l)
           \/ \E i \in Ids : Insert(l, i)
           \/ \E refused \in BOOLEAN : CommitLogin(l, refused)
    PROVE  login' \in [Logins -> Login]
<1>1. Types /\ Creations /\ newer \subseteq Used \X Used
  BY DEF SessionInv, RotationInv, StrictOrder
<1>. QED
  BY <1>1, LoginsKept

LEMMA RequestSession ==
    ASSUME SessionInv, NEW r \in Requests,
           \/ \E k \in Kinds, i \in Ids, g \in 0..MaxRotations, goal \in Ids \union {NoId} :
                 Send(r, k, i, g, goal)
           \/ Lookup(r) \/ Drop(r) \/ Persist(r) \/ Read(r) \/ Logout(r) \/ LogoutAll(r)
           \/ RevokeFind(r) \/ RevokeDelete(r) \/ Respond(r) \/ Lose(r)
    PROVE  SessionInv'
<1>1. RotationInv'
  BY SendRotation, LookupRotation, DeletingRotation, PersistRotation, RevokeFindRotation,
     RespondRotation, LoseRotation DEF SessionInv
<1>2. CASE Persist(r)
  <2>1. StrictOrder(newer, Used)' /\ \A i \in Ids : row'[i].st = row[i].st
    BY <1>2, PersistOrder DEF SessionInv, RotationInv
  <2>2. Creations'
    BY <1>2, <2>1, CreationsKept DEF SessionInv, Persist
  <2>. QED
    BY <1>1, <2>1, <2>2 DEF SessionInv
<1>3. CASE ~Persist(r)
  <2>1. StaysOpen
    BY <1>3, MostStayOpen DEF SessionInv, RotationInv
  <2>. QED
    BY <1>1, <2>1, StaysOpenKeeps DEF SessionInv
<1>. QED
  BY <1>2, <1>3

LEMMA LoginSession ==
    ASSUME SessionInv, NEW l \in Logins,
           \/ Verify(l) \/ Select(l) \/ AbandonLogin(l)
           \/ \E i \in Ids : Insert(l, i)
           \/ \E refused \in BOOLEAN : CommitLogin(l, refused)
    PROVE  SessionInv'
<1>0. login' \in [Logins -> Login]
  BY SessionLogins
<1>1. RotationInv
  BY DEF SessionInv
<1>2. CASE Verify(l)
  <2>1. SessionsEnd /\ disabled' \in BOOLEAN /\ UNCHANGED req
    BY <1>1, <1>2, NoneEnds DEF Verify, RotationInv, Types
  <2>. QED
    BY <1>0, <1>1, <1>2, <2>1, RotationKeptByEnds, VerifyKeeps DEF SessionInv
<1>3. CASE Select(l)
  <2>1. SessionsEnd /\ disabled' \in BOOLEAN /\ UNCHANGED req
    BY <1>1, <1>3, NoneEnds DEF Select, RotationInv, Types
  <2>. QED
    BY <1>0, <1>1, <1>3, <2>1, RotationKeptByEnds, SelectKeeps DEF SessionInv
<1>4. CASE AbandonLogin(l)
  <2>1. row' = [i \in Ids |-> IF i \in {login[l].id} THEN Absent ELSE row[i]]
    BY <1>4 DEF AbandonLogin
  <2>2. SessionsEnd /\ disabled' \in BOOLEAN /\ UNCHANGED req
    BY <1>1, <1>4, <2>1 DEF AbandonLogin, SessionsEnd, RotationInv, Types
  <2>. QED
    BY <1>0, <1>1, <1>4, <2>2, RotationKeptByEnds, AbandonKeeps DEF SessionInv
<1>5. ASSUME NEW i \in Ids, Insert(l, i) PROVE SessionInv'
  BY <1>0, <1>1, <1>5, InsertRotation, InsertKeeps DEF SessionInv
<1>6. ASSUME NEW refused \in BOOLEAN, CommitLogin(l, refused) PROVE SessionInv'
  BY <1>0, <1>1, <1>6, CommitRotation, CommitKeeps DEF SessionInv
<1>. QED
  BY <1>2, <1>3, <1>4, <1>5, <1>6

LEMMA OtherSession ==
    ASSUME SessionInv,
           \/ Reset \/ SetDisabled
           \/ \E S \in SUBSET Ids : Sweep(S)
           \/ \E i \in Ids, age \in Ages : Age(i, age)
    PROVE  SessionInv'
<1>0. RotationInv /\ Types
  BY DEF SessionInv, RotationInv
<1>1. StaysOpen
  BY <1>0, MostStayOpen
<1>2. CASE Reset \/ \E S \in SUBSET Ids : Sweep(S)
  <2>1. SessionsEnd
    BY <1>2 DEF Reset, Sweep, Delete, SessionsEnd
  <2>2. UNCHANGED req /\ login' \in [Logins -> Login] /\ disabled' \in BOOLEAN
    BY <1>0, <1>2 DEF Reset, Sweep, Types
  <2>. QED
    BY <1>0, <1>1, <2>1, <2>2, RotationKeptByEnds, StaysOpenKeeps DEF SessionInv
<1>3. CASE SetDisabled
  <2>1. SessionsEnd
    BY <1>0, <1>3, NoneEnds DEF SetDisabled
  <2>2. UNCHANGED req /\ login' \in [Logins -> Login] /\ disabled' \in BOOLEAN
    BY <1>0, <1>3 DEF SetDisabled, Types
  <2>. QED
    BY <1>0, <1>1, <2>1, <2>2, RotationKeptByEnds, StaysOpenKeeps DEF SessionInv
<1>4. ASSUME NEW i \in Ids, NEW age \in Ages, Age(i, age) PROVE SessionInv'
  BY <1>0, <1>1, <1>4, AgeRotation, StaysOpenKeeps DEF SessionInv
<1>. QED
  BY <1>2, <1>3, <1>4

LEMMA StutterSession == ASSUME SessionInv, UNCHANGED vars PROVE SessionInv'
<1>0. RotationInv /\ Types
  BY DEF SessionInv, RotationInv
<1>1. SessionsEnd
  BY <1>0, NoneEnds DEF vars
<1>2. UNCHANGED req /\ login' \in [Logins -> Login] /\ disabled' \in BOOLEAN /\ StaysOpen
  BY <1>0 DEF vars, Types, StaysOpen
<1>. QED
  BY <1>0, <1>1, <1>2, RotationKeptByEnds, StaysOpenKeeps DEF SessionInv

LEMMA NextSession == SessionInv /\ [Next]_vars => SessionInv'
<1>. SUFFICES ASSUME SessionInv, [Next]_vars PROVE SessionInv'
  OBVIOUS
<1>. QED
  BY RequestSession, LoginSession, OtherSession, StutterSession DEF Next

LEMMA AlwaysSession == Spec => []SessionInv
BY InitSession, NextSession, PTL DEF Spec

\* The state has its types, and the sessions in use are ordered by their last use,
\* whatever the requests and the logins do (lastUsedAt, createSession).
THEOREM TypeCorrect == Spec => []TypeOK
<1>1. SessionInv => TypeOK
  BY DEF SessionInv, RotationInv, Types, TypeOK
<1>. QED
  BY <1>1, AlwaysSession, PTL

\* Of the requests that carry one token, at most one is given a rotated token
\* (resolveSessionContext).
THEOREM OneRotation == Spec => []OneRotationPerToken
<1>1. SessionInv => OneRotationPerToken
  BY DEF SessionInv, RotationInv
<1>. QED
  BY <1>1, AlwaysSession, PTL

\* The token that a session holds is the one its client has or is on its way to it,
\* unless a response was lost (resolveSessionContext, attachSessionToRequest).
THEOREM TokenReaches == Spec => []TokenReachesClient
<1>1. SessionInv => TokenReachesClient
  BY DEF SessionInv, RotationInv
<1>. QED
  BY <1>1, AlwaysSession, PTL

\* A logout leaves its session behind only if the session has been given another
\* token since the request was authenticated (destroySession).
THEOREM LogoutMisses == Spec => LogoutMissesOnlyRotated
<1>. DEFINE Missed(r) == Logout(r) /\ req[r].id \in Live' =>
                row[req[r].id].gen > IF req[r].rotated THEN req[r].gen + 1 ELSE req[r].gen
<1>1. SessionInv => \A r \in Requests : Missed(r)
  <2>. SUFFICES ASSUME SessionInv, NEW r \in Requests, Logout(r), req[r].id \in Live'
                PROVE  row[req[r].id].gen > IF req[r].rotated THEN req[r].gen + 1
                                                              ELSE req[r].gen
    OBVIOUS
  <2>1. PICK q \in Request : q = req[r]
    BY DEF SessionInv, RotationInv, Types
  <2>2. q.id \in Live /\ ~Finds(q.id, Current(r)) /\ q.id \in Ids /\ q.id # NoId
    BY <2>1, AbsentRow, IdsAssumption DEF Logout, Delete, Live
  <2>3. row[q.id].gen # Current(r)
    BY <2>2 DEF Finds
  <2>4. RequestOK(q) /\ row[q.id] \in Row /\ RowOK(row[q.id])
    BY <2>1, <2>2 DEF SessionInv, RotationInv, Types, Rows, Asked
  <2>5. /\ q.gen \in Int /\ row[q.id].gen \in Int /\ row[q.id].told \in Int
        /\ q.gen <= row[q.id].told /\ row[q.id].told <= row[q.id].gen
        /\ q.rotated => q.gen < row[q.id].gen
    BY <2>2, <2>4 DEF Row, Request, RowOK, RequestOK
  <2>. QED
    BY <2>1, <2>3, <2>5 DEF Current
<1>2. (\A r \in Requests : Missed(r)) => [\A r \in Requests : Missed(r)]_vars
  OBVIOUS
<1>. QED
  BY <1>1, <1>2, AlwaysSession, PTL DEF LogoutMissesOnlyRotated

-----------------------------------------------------------------------------
\* The cap

\* At most n elements of a finite set have fewer than n others before them.
LEMMA FirstOnes ==
    ASSUME NEW S, IsFiniteSet(S), NEW R, StrictOrder(R, S), NEW n \in Nat \ {0}
    PROVE  LET Before(i) == {j \in S : <<j, i>> \in R}
               K == {i \in S : Cardinality(Before(i)) < n}
           IN  IsFiniteSet(K) /\ Cardinality(K) <= n
<1>. DEFINE Before(i) == {j \in S : <<j, i>> \in R}
            K == {i \in S : Cardinality(Before(i)) < n}
            f == [i \in K |-> Cardinality(Before(i))]
<1>1. \A i \in S : IsFiniteSet(Before(i)) /\ Cardinality(Before(i)) \in Nat
  BY FS_Subset, FS_CardinalityType
<1>2. ASSUME NEW i \in S, NEW j \in S, <<i, j>> \in R
      PROVE  Cardinality(Before(i)) < Cardinality(Before(j))
  <2>1. Before(i) \in SUBSET Before(j)
    BY <1>2 DEF StrictOrder
  <2>2. i \in Before(j) /\ i \notin Before(i)
    BY <1>2 DEF StrictOrder
  <2>3. /\ Cardinality(Before(i)) <= Cardinality(Before(j))
        /\ Cardinality(Before(j)) = Cardinality(Before(i)) => Before(j) = Before(i)
    BY <1>1, <2>1, FS_Subset
  <2>4. Before(i) # Before(j)
    BY <2>2
  <2>5. Cardinality(Before(i)) \in Nat /\ Cardinality(Before(j)) \in Nat
    BY <1>1
  <2>. HIDE DEF Before
  <2>. QED
    BY <2>3, <2>4, <2>5
<1>3. f \in [K -> 0..(n - 1)]
  <2>1. \A i \in K : Cardinality(Before(i)) \in Nat /\ Cardinality(Before(i)) < n
    BY <1>1
  <2>. HIDE DEF Before, K
  <2>. QED
    BY <2>1
<1>4. \A i, j \in K : i # j => f[i] # f[j]
  <2>. SUFFICES ASSUME NEW i \in K, NEW j \in K, i # j PROVE f[i] # f[j]
    OBVIOUS
  <2>1. <<i, j>> \in R \/ <<j, i>> \in R
    BY DEF StrictOrder
  <2>2. /\ f[i] = Cardinality(Before(i)) /\ f[j] = Cardinality(Before(j))
        /\ i \in S /\ j \in S
    OBVIOUS
  <2>3. Cardinality(Before(i)) \in Nat /\ Cardinality(Before(j)) \in Nat
    BY <1>1, <2>2
  <2>. HIDE DEF Before, K, f
  <2>. QED
    BY <1>2, <2>1, <2>2, <2>3
<1>. HIDE DEF f, K, Before
<1>5. f \in Injection(K, 0..(n - 1))
  BY <1>3, <1>4 DEF Injection, IsInjective
<1>6. IsFiniteSet(0..(n - 1)) /\ Cardinality(0..(n - 1)) = n
  BY FS_Interval
<1>7. IsFiniteSet(K) /\ Cardinality(K) <= n
  BY <1>5, <1>6, FS_Injection
<1>. QED
  BY <1>7 DEF K, Before

\* The ids of the logins of T are as many as T at most.
LEMMA FewIds ==
    ASSUME NEW T \in SUBSET Logins
    PROVE  LET I == {login[l].id : l \in T}
           IN  /\ IsFiniteSet(T) /\ IsFiniteSet(I)
               /\ Cardinality(I) <= Cardinality(T)
<1>. DEFINE I == {login[l].id : l \in T}
            f == [l \in T |-> login[l].id]
<1>1. IsFiniteSet(T)
  BY LoginsAssumption, FS_Subset
<1>2. f \in Surjection(T, I)
  BY DEF Surjection
<1>. QED
  BY <1>1, <1>2, FS_Surjection

LEMMA AfterFinite ==
    ASSUME SessionInv, NEW T \in SUBSET Selected
    PROVE  IsFiniteSet(After(T)) /\ Cardinality(After(T)) \in Nat /\ IsFiniteSet(Live)
<1>1. After(T) \in SUBSET Ids /\ Live \in SUBSET Ids
  BY DEF After, Live, Selected, Creating, SessionInv, Creations
<1>. QED
  BY <1>1, IdsAssumption, FS_Subset, FS_CardinalityType

\* What a login that has just selected its victims will leave behind.
LEMMA SelectedFits ==
    ASSUME SessionInv, NEW l \in Creating
    PROVE  /\ IsFiniteSet(Seen(l) \ Overflow(l))
           /\ Cardinality(Seen(l) \ Overflow(l)) <= Cap
<1>. DEFINE S == Seen(l)
            R == newer \intersect (S \X S)
            Before(i) == {j \in S : <<j, i>> \in R}
            K == {i \in S : Cardinality(Before(i)) < Cap}
<1>1. S \subseteq Used /\ S \in SUBSET Ids
  BY DEF Seen, Live, Used, SessionInv, Creations
<1>2. IsFiniteSet(S)
  BY <1>1, IdsAssumption, FS_Subset
<1>3. StrictOrder(R, S)
  BY <1>1 DEF SessionInv, StrictOrder
<1>4. \A i \in S : Rank(l, i) = Cardinality(Before(i))
  BY DEF Rank
<1>5. \A i \in S : Rank(l, i) \in Nat
  <2>. SUFFICES ASSUME NEW i \in S PROVE Rank(l, i) \in Nat
    OBVIOUS
  <2>1. Before(i) \in SUBSET S /\ Rank(l, i) = Cardinality(Before(i))
    BY <1>4
  <2>. HIDE DEF Before
  <2>2. IsFiniteSet(Before(i))
    BY <1>2, <2>1, FS_Subset
  <2>. QED
    BY <2>1, <2>2, FS_CardinalityType
<1>6. Seen(l) \ Overflow(l) = K
  <2>. HIDE DEF Before
  <2>1. \A i \in S : i \notin Overflow(l) <=> Cardinality(Before(i)) < Cap
    BY <1>4, <1>5, CapAssumption DEF Overflow
  <2>. QED
    BY <2>1
<1>7. IsFiniteSet(K) /\ Cardinality(K) <= Cap
  <2>. HIDE DEF S, R
  <2>. QED
    BY <1>2, <1>3, CapAssumption, FirstOnes
<1>. QED
  BY <1>6, <1>7

\* Nothing is added to what the logins will leave behind.
LEMMA CapKept ==
    ASSUME CapInv, SessionInv', Selected' \subseteq Selected, Live' \subseteq Live,
           Creating' \subseteq Creating,
           \A l \in Creating' : /\ login'[l].id = login[l].id
                                /\ login'[l].victims = login[l].victims
                                /\ login'[l].alone => login[l].alone
    PROVE  Capped' /\ Lone'
<1>1. ASSUME NEW T \in SUBSET Selected'
      PROVE  After(T)' \in SUBSET After(T) /\ T \in SUBSET Selected
  <2>1. \A l \in T : login'[l].id = login[l].id /\ login'[l].victims = login[l].victims
    BY DEF Selected, Creating
  <2>2. {login'[l].id : l \in T} = {login[l].id : l \in T}
    BY <2>1
  <2>3. UNION {login'[l].victims : l \in T} = UNION {login[l].victims : l \in T}
    BY <2>1
  <2>4. After(T)' = (Live' \union {login[l].id : l \in T}) \ UNION {login[l].victims : l \in T}
    BY <2>2, <2>3 DEF After
  <2>. QED
    BY <2>4 DEF After
<1>2. ASSUME NEW T \in SUBSET Selected', NEW n \in Int, Cardinality(After(T)) <= n
      PROVE  Cardinality(After(T)') <= n
  <2>1. IsFiniteSet(After(T)) /\ Cardinality(After(T)) \in Nat
    BY <1>1, AfterFinite DEF CapInv
  <2>2. /\ IsFiniteSet(After(T)') /\ Cardinality(After(T)') <= Cardinality(After(T))
    BY <1>1, <2>1, FS_Subset
  <2>3. Cardinality(After(T)') \in Nat
    BY <2>2, FS_CardinalityType
  <2>. QED
    BY <1>2, <2>1, <2>2, <2>3
<1>3. Cap + Cardinality(Logins) - 1 \in Int
  BY CapAssumption, LoginsAssumption, FS_CardinalityType
<1>4. Capped'
  <2>. SUFFICES ASSUME NEW T \in SUBSET Selected'
                PROVE  Cardinality(After(T)') <= Cap + Cardinality(Logins) - 1
    BY DEF Capped
  <2>1. Cardinality(After(T)) <= Cap + Cardinality(Logins) - 1
    BY <1>1 DEF CapInv, Capped
  <2>. QED
    BY <1>2, <1>3, <2>1
<1>5. Lone'
  <2>. SUFFICES ASSUME NEW l \in Creating', login'[l].alone
                PROVE  /\ Creating' = {l}
                       /\ l \in Selected' => Cardinality(After({l})') <= Cap
    BY DEF Lone
  <2>1. Creating = {l} /\ (l \in Selected => Cardinality(After({l})) <= Cap)
    BY DEF CapInv, Lone
  <2>. QED
    BY <1>2, <2>1, CapAssumption
<1>. QED
  BY <1>4, <1>5

LEMMA CapKeptSame ==
    ASSUME CapInv, SessionInv', UNCHANGED login, Live' \subseteq Live
    PROVE  Capped' /\ Lone'
BY CapKept DEF Selected, Creating

LEMMA InsertCap ==
    ASSUME CapInv, NEW l \in Logins, NEW i \in Ids, Insert(l, i), SessionInv'
    PROVE  Capped' /\ Lone'
<1>1. /\ Creating' = Creating \union {l} /\ l \notin Creating /\ Live' = Live
      /\ login'[l].pc = "inserted" /\ login'[l].alone = (Creating = {})
      /\ \A m \in Logins \ {l} :
            /\ login'[m].pc = login[m].pc /\ login'[m].id = login[m].id
            /\ login'[m].victims = login[m].victims
            /\ login'[m].alone = (login[m].alone /\ m \notin Creating)
  BY InsertKeeps DEF CapInv
<1>2. Selected' = Selected /\ l \notin Selected
  BY <1>1 DEF Selected, Creating
<1>3. ASSUME NEW T \in SUBSET Selected PROVE After(T)' = After(T)
  <2>1. \A m \in T : login'[m].id = login[m].id /\ login'[m].victims = login[m].victims
    BY <1>1, <1>2 DEF Selected
  <2>2. {login'[m].id : m \in T} = {login[m].id : m \in T}
    BY <2>1
  <2>3. UNION {login'[m].victims : m \in T} = UNION {login[m].victims : m \in T}
    BY <2>1
  <2>. QED
    BY <1>1, <2>2, <2>3 DEF After
<1>4. Capped'
  BY <1>2, <1>3 DEF CapInv, Capped
<1>5. Lone'
  <2>. SUFFICES ASSUME NEW m \in Creating', login'[m].alone
                PROVE  Creating' = {m} /\ m \notin Selected'
    BY DEF Lone
  <2>1. m = l
    BY <1>1 DEF Creating
  <2>. QED
    BY <1>1, <1>2, <2>1
<1>. QED
  BY <1>4, <1>5

LEMMA SelectCap ==
    ASSUME CapInv, NEW l \in Logins, Select(l), SessionInv'
    PROVE  Capped' /\ Lone'
<1>1. /\ Creating' = Creating /\ Live' = Live
      /\ login'[l].pc = "selected" /\ login'[l].id = login[l].id
      /\ login'[l].victims = Overflow(l) /\ login'[l].alone = login[l].alone
      /\ \A m \in Logins \ {l} : login'[m] = login[m]
  BY SelectKeeps DEF CapInv
<1>2. Selected' = Selected \union {l} /\ l \in Creating
  <2>1. l \in Creating
    BY DEF Select, Creating
  <2>2. \A m \in Logins : login'[m].pc = "selected" <=> login[m].pc = "selected" \/ m = l
    BY <1>1
  <2>. QED
    BY <2>1, <2>2 DEF Selected
<1>3. /\ IsFiniteSet(Seen(l) \ Overflow(l)) /\ Cardinality(Seen(l) \ Overflow(l)) <= Cap
      /\ Cardinality(Seen(l) \ Overflow(l)) \in Nat
  BY <1>2, SelectedFits, FS_CardinalityType DEF CapInv
<1>4. Cardinality(Logins) \in Nat
  BY LoginsAssumption, FS_CardinalityType
<1>5. ASSUME NEW T \in SUBSET Selected', l \notin T
      PROVE  Cardinality(After(T)') <= Cap + Cardinality(Logins) - 1
  <2>1. T \in SUBSET Selected
    BY <1>2, <1>5
  <2>2. \A m \in T : login'[m] = login[m]
    BY <1>1, <1>5 DEF Selected
  <2>3. {login'[m].id : m \in T} = {login[m].id : m \in T}
    BY <2>2
  <2>4. UNION {login'[m].victims : m \in T} = UNION {login[m].victims : m \in T}
    BY <2>2
  <2>5. After(T)' = After(T)
    BY <1>1, <2>3, <2>4 DEF After
  <2>. QED
    BY <2>1, <2>5 DEF CapInv, Capped
<1>6. ASSUME NEW T \in SUBSET Selected', l \in T
      PROVE  /\ Cardinality(After(T)') <= Cap + Cardinality(Logins) - 1
             /\ T = {l} => Cardinality(After(T)') <= Cap
  <2>. DEFINE O == T \ {l}
              I == {login[m].id : m \in O}
              A == Seen(l) \ Overflow(l)
  <2>1. O \in SUBSET Logins /\ T \in SUBSET Logins /\ l \in Logins
    BY <1>2 DEF Selected
  <2>2. IsFiniteSet(I) /\ Cardinality(I) <= Cardinality(O) /\ Cardinality(I) \in Nat
    BY <2>1, FewIds, FS_CardinalityType
  <2>3. Cardinality(O) <= Cardinality(Logins) - 1 /\ Cardinality(O) \in Nat
    <3>1. IsFiniteSet(Logins \ {l}) /\ Cardinality(Logins \ {l}) = Cardinality(Logins) - 1
      BY LoginsAssumption, FS_RemoveElement
    <3>2. O \in SUBSET (Logins \ {l})
      BY <2>1
    <3>. QED
      BY <3>1, <3>2, FS_Subset, FS_CardinalityType
  <2>4. After(T)' \in SUBSET (A \union I)
    <3>1. \A m \in O : login'[m].id = login[m].id
      BY <1>1, <2>1
    <3>2. After(T)' = (Live \union {login'[m].id : m \in T}) \ UNION {login'[m].victims : m \in T}
      BY <1>1 DEF After
    <3>3. {login'[m].id : m \in T} = {login[l].id} \union I
      BY <1>1, <1>6, <3>1
    <3>4. Overflow(l) \subseteq UNION {login'[m].victims : m \in T}
      BY <1>1, <1>6
    <3>. QED
      BY <3>2, <3>3, <3>4 DEF Seen
  <2>5. IsFiniteSet(A \union I) /\ Cardinality(A \union I) <= Cardinality(A) + Cardinality(I)
    <3>. HIDE DEF A, I
    <3>1. IsFiniteSet(A) /\ Cardinality(A) \in Nat
      BY <1>3 DEF A
    <3>2. IsFiniteSet(A \intersect I)
      BY <3>1, FS_Intersection
    <3>3. Cardinality(A \intersect I) \in Nat
      BY <3>2, FS_CardinalityType
    <3>4. /\ IsFiniteSet(A \union I)
          /\ Cardinality(A \union I) = Cardinality(A) + Cardinality(I) - Cardinality(A \intersect I)
      BY <2>2, <3>1, FS_Union
    <3>. QED
      BY <2>2, <3>1, <3>3, <3>4
  <2>6. Cardinality(After(T)') <= Cardinality(A) + Cardinality(I)
    <3>. HIDE DEF A, I
    <3>1. /\ IsFiniteSet(After(T)') /\ Cardinality(After(T)') <= Cardinality(A \union I)
      BY <2>4, <2>5, FS_Subset
    <3>2. Cardinality(After(T)') \in Nat /\ Cardinality(A \union I) \in Nat
      BY <2>5, <3>1, FS_CardinalityType
    <3>3. Cardinality(A) \in Nat
      BY <1>3 DEF A
    <3>. QED
      BY <2>2, <2>5, <3>1, <3>2, <3>3
  <2>7. T = {l} => Cardinality(I) = 0
    <3>. SUFFICES ASSUME T = {l} PROVE Cardinality(I) = 0
      OBVIOUS
    <3>1. I = {}
      OBVIOUS
    <3>. QED
      BY <3>1, FS_EmptySet
  <2>8. Cardinality(After(T)') \in Nat
    <3>1. IsFiniteSet(After(T)')
      BY <2>4, <2>5, FS_Subset
    <3>. QED
      BY <3>1, FS_CardinalityType
  <2>. HIDE DEF I, O
  <2>9. Cardinality(A) <= Cap /\ Cardinality(A) \in Nat
    BY <1>3
  <2>. HIDE DEF A
  <2>. QED
    BY <1>4, <2>2, <2>3, <2>6, <2>7, <2>8, <2>9, CapAssumption
<1>7. Capped'
  BY <1>5, <1>6 DEF Capped
<1>8. Lone'
  <2>. SUFFICES ASSUME NEW m \in Creating', login'[m].alone
                PROVE  /\ Creating' = {m}
                       /\ m \in Selected' => Cardinality(After({m})') <= Cap
    BY DEF Lone
  <2>1. login[m].alone /\ m \in Creating
    BY <1>1 DEF Creating
  <2>2. Creating = {m} /\ m = l
    BY <1>2, <2>1 DEF CapInv, Lone
  <2>3. {l} \in SUBSET Selected'
    BY <1>2
  <2>. QED
    BY <1>1, <1>6, <2>2, <2>3
<1>. QED
  BY <1>7, <1>8

\* The one step that adds sessions.
LEMMA CommitLeaves ==
    ASSUME CapInv, NEW l \in Logins, NEW refused \in BOOLEAN, CommitLogin(l, refused)
    PROVE  l \in Selected /\ Live' = After({l})
<1>1. l \in Selected /\ Live' = (Live \union {login[l].id}) \ login[l].victims
  BY CommitKeeps DEF CapInv
<1>2. /\ {login[m].id : m \in {l}} = {login[l].id}
      /\ UNION {login[m].victims : m \in {l}} = login[l].victims
  OBVIOUS
<1>. QED
  BY <1>1, <1>2 DEF After

LEMMA CommitCap ==
    ASSUME CapInv, NEW l \in Logins, NEW refused \in BOOLEAN, CommitLogin(l, refused), SessionInv'
    PROVE  Capped' /\ Lone'
<1>1. /\ Creating' = Creating \ {l} /\ l \in Selected
      /\ Live' = (Live \union {login[l].id}) \ login[l].victims
      /\ \A m \in Logins \ {l} : login'[m] = login[m]
  BY CommitKeeps DEF CapInv
<1>2. Selected' = Selected \ {l}
  BY <1>1 DEF Selected, Creating
<1>3. ASSUME NEW T \in SUBSET Selected'
      PROVE  Cardinality(After(T)') <= Cap + Cardinality(Logins) - 1
  <2>. DEFINE B == T \union {l}
  <2>1. B \in SUBSET Selected /\ \A m \in T : m # l /\ m \in Logins /\ login'[m] = login[m]
    BY <1>1, <1>2 DEF Selected
  <2>2. \A m \in T : login[m].id \notin login[l].victims
    BY <2>1 DEF CapInv, SessionInv, Creations
  <2>3. After(T)' = (Live' \union {login[m].id : m \in T}) \ UNION {login[m].victims : m \in T}
    <3>1. /\ {login'[m].id : m \in T} = {login[m].id : m \in T}
          /\ UNION {login'[m].victims : m \in T} = UNION {login[m].victims : m \in T}
      BY <2>1
    <3>. QED
      BY <3>1 DEF After
  <2>5. After(T)' \in SUBSET After(B)
    <3>. SUFFICES ASSUME NEW z \in After(T)' PROVE z \in After(B)
      OBVIOUS
    <3>1. /\ z \in Live' \union {login[m].id : m \in T}
          /\ \A m \in T : z \notin login[m].victims
      BY <2>3
    <3>2. z \in Live \union {login[m].id : m \in B} /\ z \notin login[l].victims
      BY <1>1, <2>2, <3>1
    <3>3. \A m \in B : z \notin login[m].victims
      BY <3>1, <3>2
    <3>. QED
      BY <3>2, <3>3 DEF After
  <2>6. /\ Cardinality(After(B)) <= Cap + Cardinality(Logins) - 1
        /\ IsFiniteSet(After(B)) /\ Cardinality(After(B)) \in Nat
    BY <2>1, AfterFinite DEF CapInv, Capped
  <2>7. IsFiniteSet(After(T)') /\ Cardinality(After(T)') <= Cardinality(After(B))
    BY <2>5, <2>6, FS_Subset
  <2>8. Cardinality(After(T)') \in Nat /\ Cap + Cardinality(Logins) - 1 \in Int
    BY <2>7, CapAssumption, LoginsAssumption, FS_CardinalityType
  <2>. QED
    BY <2>6, <2>7, <2>8
<1>4. Capped'
  BY <1>3 DEF Capped
<1>5. Lone'
  <2>1. \A m \in Creating' : ~login'[m].alone
    <3>. SUFFICES ASSUME NEW m \in Creating', login'[m].alone PROVE FALSE
      OBVIOUS
    <3>1. m \in Creating /\ m # l /\ login[m].alone /\ l \in Creating
      BY <1>1 DEF Creating, Selected
    <3>. QED
      BY <3>1 DEF CapInv, Lone
  <2>. QED
    BY <2>1 DEF Lone
<1>. QED
  BY <1>4, <1>5

LEMMA InitCap == Init => CapInv
<1>. SUFFICES ASSUME Init PROVE CapInv
  OBVIOUS
<1>1. Live = {} /\ Creating = {} /\ Selected = {}
  BY AbsentRow DEF Init, Live, Creating, Selected, NoLogin
<1>2. ASSUME NEW T \in SUBSET Selected
      PROVE  Cardinality(After(T)) <= Cap + Cardinality(Logins) - 1
  <2>1. After(T) = {}
    BY <1>1 DEF After
  <2>2. Cardinality(After(T)) = 0
    BY <2>1, FS_EmptySet
  <2>3. Cardinality(Logins) \in Nat
    BY LoginsAssumption, FS_CardinalityType
  <2>. QED
    BY <2>2, <2>3, CapAssumption
<1>. QED
  BY <1>1, <1>2, InitSession DEF CapInv, Capped, Lone

LEMMA NextCap == CapInv /\ [Next]_vars => CapInv'
<1>. SUFFICES ASSUME CapInv, [Next]_vars PROVE Capped' /\ Lone'
  BY NextSession DEF CapInv
<1>0. SessionInv' /\ SessionInv /\ Types
  BY NextSession DEF CapInv, SessionInv, RotationInv
<1>1. ASSUME StaysOpen PROVE Capped' /\ Lone'
  <2>1. Live' \subseteq Live
    BY <1>1, AbsentRow DEF StaysOpen, Delete, Live
  <2>. QED
    BY <1>0, <1>1, <2>1, CapKeptSame DEF StaysOpen
<1>2. ASSUME NEW r \in Requests, Persist(r) PROVE Capped' /\ Lone'
  <2>1. \A i \in Ids : row'[i].st = row[i].st
    BY <1>0, <1>2, PersistOrder DEF SessionInv
  <2>2. Live' \subseteq Live
    BY <2>1 DEF Live
  <2>. QED
    BY <1>0, <1>2, <2>2, CapKeptSame DEF Persist
<1>3. ASSUME NEW l \in Logins, Verify(l) PROVE Capped' /\ Lone'
  <2>1. PICK q \in Login : q = login[l]
    BY <1>0 DEF Types
  <2>. DEFINE p == [q EXCEPT !.pc = "verified"]
  <2>2. p.pc = "verified" /\ p.id = q.id /\ p.victims = q.victims /\ p.alone = q.alone
    BY DEF Login
  <2>3. login' = [login EXCEPT ![l] = p] /\ row' = row
    BY <1>0, <1>3, <2>1 DEF Verify, Types
  <2>. HIDE DEF p
  <2>4. login'[l] = p /\ \A m \in Logins \ {l} : login'[m] = login[m]
    BY <1>0, <2>3 DEF Types
  <2>5. /\ Selected' \subseteq Selected /\ Creating' \subseteq Creating /\ l \notin Creating'
        /\ Live' \subseteq Live
    BY <2>2, <2>3, <2>4 DEF Selected, Creating, Live
  <2>6. \A m \in Creating' : login'[m] = login[m]
    BY <2>4, <2>5 DEF Creating
  <2>. QED
    BY <1>0, <2>5, <2>6, CapKept
<1>4. ASSUME NEW l \in Logins, AbandonLogin(l) PROVE Capped' /\ Lone'
  <2>1. /\ Creating' = Creating \ {l} /\ Live' = Live
        /\ login'[l] = NoLogin /\ \A m \in Logins \ {l} : login'[m] = login[m]
    BY <1>0, <1>4, AbandonKeeps
  <2>2. Selected' \subseteq Selected
    BY <2>1 DEF Selected, NoLogin
  <2>3. \A m \in Creating' : login'[m] = login[m]
    BY <2>1 DEF Creating
  <2>. QED
    BY <1>0, <2>1, <2>2, <2>3, CapKept
<1>5. CASE UNCHANGED vars
  BY <1>1, <1>5 DEF vars, StaysOpen
<1>6. ASSUME NEW r \in Requests,
             \/ \E k \in Kinds, i \in Ids, g \in 0..MaxRotations, goal \in Ids \union {NoId} :
                   Send(r, k, i, g, goal)
             \/ Lookup(r) \/ Drop(r) \/ Persist(r) \/ Read(r) \/ Logout(r) \/ LogoutAll(r)
             \/ RevokeFind(r) \/ RevokeDelete(r) \/ Respond(r) \/ Lose(r)
      PROVE  Capped' /\ Lone'
  BY <1>0, <1>1, <1>2, <1>6, MostStayOpen
<1>7. ASSUME NEW l \in Logins,
             \/ Verify(l) \/ Select(l) \/ AbandonLogin(l)
             \/ \E i \in Ids : Insert(l, i)
             \/ \E refused \in BOOLEAN : CommitLogin(l, refused)
      PROVE  Capped' /\ Lone'
  BY <1>0, <1>3, <1>4, <1>7, InsertCap, SelectCap, CommitCap
<1>8. ASSUME \/ Reset \/ SetDisabled
             \/ \E S \in SUBSET Ids : Sweep(S)
             \/ \E i \in Ids, age \in Ages : Age(i, age)
      PROVE  Capped' /\ Lone'
  BY <1>0, <1>1, <1>8, MostStayOpen
<1>. QED
  BY <1>5, <1>6, <1>7, <1>8 DEF Next

LEMMA AlwaysCap == Spec => []CapInv
BY InitCap, NextCap, PTL DEF Spec

\* An account never has more sessions than the cap and one for each other login
\* that was under way at the same time (createSession).
THEOREM CapHolds == Spec => []CapUpToConcurrency
<1>1. CapInv => CapUpToConcurrency
  <2>. SUFFICES ASSUME CapInv PROVE CapUpToConcurrency
    OBVIOUS
  <2>1. After({}) = Live
    BY DEF After
  <2>2. {} \in SUBSET Selected
    OBVIOUS
  <2>. QED
    BY <2>1, <2>2 DEF CapInv, Capped, CapUpToConcurrency
<1>. QED
  BY <1>1, AlwaysCap, PTL

\* A login that overlaps no other leaves no more sessions than the cap, whatever the
\* logins before it have left (createSession).
THEOREM LoneRestores == Spec => LoneLoginRestoresCap
<1>. DEFINE Restores == \A l \in Logins, refused \in BOOLEAN :
                CommitLogin(l, refused) /\ login[l].alone => Cardinality(Live') <= Cap
<1>1. CapInv => Restores
  <2>. SUFFICES ASSUME CapInv, NEW l \in Logins, NEW refused \in BOOLEAN,
                       CommitLogin(l, refused), login[l].alone
                PROVE  Cardinality(Live') <= Cap
    OBVIOUS
  <2>1. l \in Selected /\ Live' = After({l})
    BY CommitLeaves
  <2>2. Cardinality(After({l})) <= Cap
    BY <2>1 DEF CapInv, Lone, Selected, Creating
  <2>. QED
    BY <2>1, <2>2
<1>2. Restores => [Restores]_vars
  OBVIOUS
<1>. QED
  BY <1>1, <1>2, AlwaysCap, PTL DEF LoneLoginRestoresCap
=============================================================================
