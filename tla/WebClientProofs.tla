-------------------------- MODULE WebClientProofs --------------------------
(***************************************************************************)
(* Proofs about WebClient, for any tabs, sessions and calls.               *)
(*                                                                         *)
(* The cookie: the token of a session that an answer carries is in that    *)
(* answer only, neither in the jar nor in a request (Unique), because who  *)
(* rotates a session makes the tokens of all others old.                   *)
(*                                                                         *)
(* The CSRF token: as long as no other call troubles it, a second run      *)
(* keeps the jar at the session of its requests, or at an old token        *)
(* (Calm), stage by stage from its fetch to its answer.                    *)
(***************************************************************************)
EXTENDS WebClient, TLAPS

\* What holds of a call by itself: it fetches only for a guarded function, and
\* once its handler has run it has its last answer.
Shape(q) ==
    /\ q.pc \in {"idle", "join"} => /\ ~q.fetching /\ ~q.again
                                    /\ q.set = "keep" /\ q.cookie = NoToken
    /\ q.pc = "join" => q.kind \in Guarded /\ q.awaits # None
    /\ q.pc \in {"sent", "found"} => q.set = "keep"
    /\ q.pc = "found" => q.user \in Sessions
    /\ q.pc \in {"found", "handle"} /\ q.user \in Sessions => q.set # NoToken
    /\ q.fetching => q.kind \in Guarded
    /\ q.kind \in SignsIn => q.header = NoToken /\ ~q.csrfOk
    /\ q.effect # "none" => /\ q.effect = "once" /\ q.pc = "answered"
                            /\ ~q.fetching /\ q.status # "csrf_invalid"

\* What holds of its tokens: they are those of the sessions L, or old.
Held(q, L) ==
    /\ q.set \in Sessions => q.set = q.user /\ q.set \in L
    /\ q.set = Old => q.user \in Sessions \ L
    /\ q.cookie \in Sessions => q.cookie \in L

\* What holds of a second run that nobody has troubled, with the jar j.
Calm(q, j) ==
    q.again /\ ~q.troubled =>
        /\ q.fetching /\ q.pc = "sent" => q.cookie = j
        /\ q.fetching /\ q.pc \in {"found", "handle"} /\ q.user \in Sessions => j \in {q.user, Old}
        /\ q.fetching /\ q.pc = "answered" /\ q.status = "ok" =>
              /\ q.body \in Sessions \union {Old}
              /\ j \in {q.body, Old} /\ q.set \in {"keep", q.body, Old}
        /\ ~q.fetching /\ q.pc = "sent" => q.cookie \in {q.header, Old}
        /\ ~q.fetching /\ q.pc \in {"found", "handle"} => q.user = NoToken \/ q.csrfOk
        /\ ~q.fetching => q.status # "csrf_invalid"

Shapes == \A c \in Calls : Shape(call[c])

Tokens == (jar \in Sessions => jar \in live) /\ \A c \in Calls : Held(call[c], live)

Unique ==
    \A c \in Calls : call[c].set \in Sessions =>
        /\ jar # call[c].set
        /\ \A d \in Calls \ {c} : call[d].set # call[c].set /\ call[d].cookie # call[c].set

Promises ==
    \A t \in Tabs : promise[t] # None => call[promise[t]].fetching /\ call[promise[t]].tab = t

Calms == \A c \in Calls : Calm(call[c], jar)

WebInv == /\ TypeOK /\ Shapes /\ Tokens /\ Unique /\ Promises /\ Calms
          /\ CookieKept /\ WaitsForFetch

-----------------------------------------------------------------------------
\* The records

LEMMA Disjoint ==
    /\ "keep" \notin Sessions /\ NoToken \notin Sessions /\ Old \notin Sessions
    /\ NoToken # Old /\ "keep" # NoToken /\ "keep" # Old
BY TokenAssumption, KeepAssumption

\* p is q with the tokens of C and F grown old, and troubled if b.
By(p, q, C, F, b) ==
    /\ p \in Call
    /\ p.pc = q.pc /\ p.tab = q.tab /\ p.kind = q.kind /\ p.fetching = q.fetching
    /\ p.again = q.again /\ p.awaits = q.awaits /\ p.user = q.user /\ p.csrfOk = q.csrfOk
    /\ p.status = q.status /\ p.effect = q.effect
    /\ p.cookie = Aged(q.cookie, C) /\ p.set = Aged(q.set, C)
    /\ p.header = Aged(q.header, F) /\ p.body = Aged(q.body, F)
    /\ p.troubled <=> q.troubled \/ b

LEMMA BySame == ASSUME NEW q \in Call PROVE By(q, q, {}, {}, FALSE)
BY DEF By, Aged, Call

LEMMA ByTroubled ==
    ASSUME NEW q \in Call, NEW b \in BOOLEAN
    PROVE  By([q EXCEPT !.troubled = q.troubled \/ b], q, {}, {}, b)
BY DEF By, Aged, Call

LEMMA AgedToken ==
    ASSUME NEW x \in Token, NEW C \in SUBSET Sessions PROVE Aged(x, C) \in Token
BY DEF Aged, Token

LEMMA ByAged ==
    ASSUME NEW q \in Call, NEW C \in SUBSET Sessions, NEW F \in SUBSET Sessions
    PROVE  By([q EXCEPT !.cookie = Aged(q.cookie, C), !.set = Aged(q.set, C),
                        !.header = Aged(q.header, F), !.body = Aged(q.body, F)],
              q, C, F, FALSE)
<1>. DEFINE ck == Aged(q.cookie, C)
            st == Aged(q.set, C)
            hd == Aged(q.header, F)
            bd == Aged(q.body, F)
            p == [q EXCEPT !.cookie = ck, !.set = st, !.header = hd, !.body = bd]
<1>1. ck \in Token /\ st \in Token \union {"keep"} /\ hd \in Token /\ bd \in Token
  BY AgedToken DEF Call, Aged, Token
<1>. HIDE DEF ck, st, hd, bd
<1>2. p \in Call
  BY <1>1 DEF Call
<1>3. /\ p.pc = q.pc /\ p.tab = q.tab /\ p.kind = q.kind /\ p.fetching = q.fetching
      /\ p.again = q.again /\ p.awaits = q.awaits /\ p.user = q.user /\ p.csrfOk = q.csrfOk
      /\ p.status = q.status /\ p.effect = q.effect /\ p.troubled = q.troubled
      /\ p.cookie = ck /\ p.set = st /\ p.header = hd /\ p.body = bd
  BY DEF Call
<1>. QED
  BY <1>2, <1>3 DEF By, ck, st, hd, bd

LEMMA TypedEnd ==
    ASSUME NEW q \in Call, NEW z \in Token \union {"keep"}, NEW u \in Sessions \union {NoToken}
    PROVE  [q EXCEPT !.set = z, !.user = u, !.effect = "once"] \in Call
BY DEF Call

LEMMA TypedTurn ==
    ASSUME NEW q \in Call, NEW k \in Token, NEW z \in Token \union {"keep"}
    PROVE  [q EXCEPT !.pc = "handle", !.cookie = k, !.set = z] \in Call
BY DEF Call

LEMMA TypedLogout ==
    ASSUME NEW q \in Call, NEW z \in Token \union {"keep"}
    PROVE  [q EXCEPT !.set = z, !.effect = "once"] \in Call
BY DEF Call

LEMMA AgeBy ==
    ASSUME WebInv, NEW d \in Calls, NEW C \in SUBSET Sessions, NEW F \in SUBSET Sessions
    PROVE  By(Age(C, F)[d], call[d], C, F, FALSE)
<1>1. PICK q \in Call : q = call[d]
  BY DEF WebInv, TypeOK
<1>2. Age(C, F)[d] = [q EXCEPT !.cookie = Aged(q.cookie, C), !.set = Aged(q.set, C),
                              !.header = Aged(q.header, F), !.body = Aged(q.body, F)]
  BY <1>1 DEF Age
<1>3. By([q EXCEPT !.cookie = Aged(q.cookie, C), !.set = Aged(q.set, C),
                   !.header = Aged(q.header, F), !.body = Aged(q.body, F)], q, C, F, FALSE)
  BY ByAged
<1>. QED
  BY <1>1, <1>2, <1>3

\* Call q sends a request with cookie j: it becomes p.
Sends(p, q, j) ==
    /\ p \in Call
    /\ p.pc = "sent" /\ p.awaits = None /\ p.cookie = j
    /\ p.user = NoToken /\ p.csrfOk = FALSE /\ p.set = "keep" /\ p.status = "none"
    /\ p.body = NoToken
    /\ p.tab = q.tab /\ p.kind = q.kind /\ p.again = q.again /\ p.header = q.header
    /\ p.effect = q.effect /\ p.troubled = q.troubled

LEMMA SendsFetch ==
    ASSUME NEW q \in Call, NEW j \in Token
    PROVE  Sends(Request(q, TRUE, j), q, j) /\ Request(q, TRUE, j).fetching
<1>. DEFINE p == Request(q, TRUE, j)
<1>0. NoToken \in Token
  BY DEF Token
<1>1. p \in Call
  BY <1>0 DEF Call, Request
<1>2. Sends(p, q, j)
  <2>1. /\ p.pc = "sent" /\ p.awaits = None /\ p.cookie = j /\ p.user = NoToken
        /\ p.csrfOk = FALSE /\ p.set = "keep" /\ p.status = "none" /\ p.body = NoToken
    BY DEF Call, Request
  <2>2. /\ p.tab = q.tab /\ p.kind = q.kind /\ p.again = q.again /\ p.header = q.header
        /\ p.effect = q.effect /\ p.troubled = q.troubled
    BY DEF Call, Request
  <2>. QED
    BY <1>1, <2>1, <2>2 DEF Sends
<1>3. p.fetching
  BY DEF Call, Request
<1>. QED
  BY <1>2, <1>3

LEMMA SendsOther ==
    ASSUME NEW q \in Call, NEW j \in Token
    PROVE  Sends(Request(q, FALSE, j), q, j) /\ ~Request(q, FALSE, j).fetching
<1>. DEFINE p == Request(q, FALSE, j)
<1>0. NoToken \in Token
  BY DEF Token
<1>1. p \in Call
  BY <1>0 DEF Call, Request
<1>2. Sends(p, q, j)
  <2>1. /\ p.pc = "sent" /\ p.awaits = None /\ p.cookie = j /\ p.user = NoToken
        /\ p.csrfOk = FALSE /\ p.set = "keep" /\ p.status = "none" /\ p.body = NoToken
    BY DEF Call, Request
  <2>2. /\ p.tab = q.tab /\ p.kind = q.kind /\ p.again = q.again /\ p.header = q.header
        /\ p.effect = q.effect /\ p.troubled = q.troubled
    BY DEF Call, Request
  <2>. QED
    BY <1>1, <2>1, <2>2 DEF Sends
<1>3. ~p.fetching
  BY DEF Call, Request
<1>. QED
  BY <1>2, <1>3

\* A call that is answered, with status x.
Ended(q, x) ==
    [q EXCEPT !.pc = "answered", !.status = x, !.cookie = NoToken, !.csrfOk = FALSE,
              !.user = IF q.set = "keep" THEN NoToken ELSE q.user]

LEMMA EndedFields ==
    ASSUME NEW q \in Call, NEW x \in {"none", "ok", "csrf_invalid", "refused"}
    PROVE  LET p == Ended(q, x)
           IN  /\ p \in Call
               /\ p.pc = "answered" /\ p.status = x /\ p.cookie = NoToken /\ p.csrfOk = FALSE
               /\ p.user = (IF q.set = "keep" THEN NoToken ELSE q.user)
               /\ p.set = q.set /\ p.header = q.header /\ p.body = q.body
               /\ p.tab = q.tab /\ p.kind = q.kind /\ p.fetching = q.fetching
               /\ p.again = q.again /\ p.awaits = q.awaits
               /\ p.effect = q.effect /\ p.troubled = q.troubled
<1>. DEFINE u == IF q.set = "keep" THEN NoToken ELSE q.user
            p == [q EXCEPT !.pc = "answered", !.status = x, !.cookie = NoToken, !.csrfOk = FALSE,
                           !.user = u]
<1>1. u \in Sessions \union {NoToken}
  BY DEF Call
<1>. HIDE DEF u
<1>0. NoToken \in Token
  BY DEF Token
<1>2. p \in Call
  <2>. DEFINE r == [q EXCEPT !.pc = "answered", !.status = x]
  <2>1. r \in Call
    BY ZenonT(40) DEF Call
  <2>2. p = [r EXCEPT !.cookie = NoToken, !.csrfOk = FALSE, !.user = u]
    OBVIOUS
  <2>. HIDE DEF r
  <2>3. [r EXCEPT !.cookie = NoToken, !.csrfOk = FALSE, !.user = u] \in Call
    BY <1>0, <1>1, <2>1, ZenonT(40) DEF Call
  <2>. QED
    BY <2>2, <2>3
<1>3. /\ p.pc = "answered" /\ p.status = x /\ p.cookie = NoToken /\ p.csrfOk = FALSE
      /\ p.user = u
      /\ p.set = q.set /\ p.header = q.header /\ p.body = q.body
      /\ p.tab = q.tab /\ p.kind = q.kind /\ p.fetching = q.fetching
      /\ p.again = q.again /\ p.awaits = q.awaits
      /\ p.effect = q.effect /\ p.troubled = q.troubled
  BY DEF Call
<1>. QED
  BY <1>2, <1>3 DEF Ended, u

LEMMA IdleFields ==
    /\ Idle \in Call
    /\ Idle.pc = "idle" /\ Idle.tab = None /\ Idle.kind = "page" /\ Idle.fetching = FALSE
    /\ Idle.again = FALSE /\ Idle.awaits = None /\ Idle.header = NoToken
    /\ Idle.cookie = NoToken /\ Idle.user = NoToken /\ Idle.csrfOk = FALSE
    /\ Idle.set = "keep" /\ Idle.status = "none" /\ Idle.body = NoToken
    /\ Idle.effect = "none" /\ Idle.troubled = FALSE
BY DEF Idle, Call, Token, Kinds, SignsIn, Guarded

-----------------------------------------------------------------------------
\* Bystanders

LEMMA ShapeBy ==
    ASSUME NEW q \in Call, NEW p, NEW C \in SUBSET Sessions, NEW F \in SUBSET Sessions, NEW b,
           By(p, q, C, F, b), Shape(q)
    PROVE  Shape(p)
<1>1. /\ q.set = "keep" => p.set = "keep"
      /\ q.cookie = NoToken => p.cookie = NoToken
      /\ q.set # NoToken => p.set # NoToken
      /\ q.header = NoToken => p.header = NoToken
  BY Disjoint DEF By, Aged
<1>. QED
  BY <1>1 DEF By, Shape

LEMMA HeldBy ==
    ASSUME NEW q \in Call, NEW p, NEW C \in SUBSET Sessions, NEW F, NEW b, NEW L, NEW M,
           By(p, q, C, F, b), Held(q, L), q.user \notin M \ L, L \ C \subseteq M,
           q.set \in C => q.set \notin M
    PROVE  Held(p, M)
<1>1. /\ p.set = Aged(q.set, C) /\ p.cookie = Aged(q.cookie, C) /\ p.user = q.user
      /\ Old \notin Sessions
  BY Disjoint DEF By
<1>2. p.set \in Sessions => p.set = p.user /\ p.set \in M
  BY <1>1 DEF Aged, Held
<1>3. p.set = Old => p.user \in Sessions \ M
  BY <1>1 DEF Aged, Held
<1>4. p.cookie \in Sessions => p.cookie \in M
  BY <1>1 DEF Aged, Held
<1>. QED
  BY <1>2, <1>3, <1>4 DEF Held

LEMMA CalmBy ==
    ASSUME NEW q \in Call, NEW p, NEW C \in SUBSET Sessions, NEW F \in SUBSET Sessions, NEW b,
           NEW j, NEW k, By(p, q, C, F, b), Calm(q, j),
           q.again => b \/ (F \subseteq C /\ k = Aged(j, C))
    PROVE  Calm(p, k)
<1>. SUFFICES ASSUME p.again, ~p.troubled PROVE Calm(p, k)
  BY DEF Calm
<1>1. /\ p.pc = q.pc /\ p.fetching = q.fetching /\ p.user = q.user /\ p.csrfOk = q.csrfOk
      /\ p.status = q.status /\ q.again /\ ~q.troubled /\ ~b
      /\ p.cookie = Aged(q.cookie, C) /\ p.set = Aged(q.set, C)
      /\ p.header = Aged(q.header, F) /\ p.body = Aged(q.body, F)
      /\ F \subseteq C /\ k = Aged(j, C)
  BY DEF By
<1>2. q.fetching /\ q.pc = "sent" => q.cookie = j
  BY <1>1 DEF Calm
<1>3. q.fetching /\ q.pc \in {"found", "handle"} /\ q.user \in Sessions => k \in {q.user, Old}
  BY <1>1 DEF Calm, Aged
<1>4. q.fetching /\ q.pc = "answered" /\ q.status = "ok" =>
          /\ p.body \in Sessions \union {Old}
          /\ k \in {p.body, Old} /\ p.set \in {"keep", p.body, Old}
  BY <1>1, Disjoint DEF Calm, Aged
<1>5. ~q.fetching /\ q.pc = "sent" => p.cookie \in {p.header, Old}
  BY <1>1 DEF Calm, Aged
<1>6. /\ ~q.fetching /\ q.pc \in {"found", "handle"} => q.user = NoToken \/ q.csrfOk
      /\ ~q.fetching => q.status # "csrf_invalid"
  BY <1>1 DEF Calm
<1>. QED
  BY <1>1, <1>2, <1>3, <1>4, <1>5, <1>6 DEF Calm

-----------------------------------------------------------------------------
\* What the API does to a request

\* Call c goes on without a new request, while the tokens of C and F grow old for
\* everybody else; a call that is in its second run is troubled if C does not tell it.
Serves(c, C, F) ==
    /\ C \in SUBSET Sessions /\ F \in SUBSET Sessions
    /\ jar' = Aged(jar, C)
    /\ UNCHANGED promise
    /\ \A d \in Calls \ {c} : \E b \in BOOLEAN :
          /\ By(call'[d], call[d], C, F, b)
          /\ call[d].again => b \/ F \subseteq C
          /\ call[d].user \notin live' \ live
          /\ call[d].set \in C => call[d].set \notin live'
    /\ live \ C \subseteq live'
    /\ LET p == call'[c]  q == call[c]
       IN  /\ p.pc \notin {"idle", "join"} /\ q.pc \notin {"idle", "join"}
           /\ p.tab = q.tab /\ p.fetching = q.fetching
           /\ Shape(p) /\ Held(p, live') /\ Calm(p, jar')
           /\ p.cookie \in {q.cookie, NoToken} \union C
           /\ p.set \in Sessions => p.set = q.set \/ p.set \in C \/ p.set \notin live
           /\ \A s \in live' \ astray' : p.set = s \/ (s \in live \ astray /\ s \notin C /\ q.set # s)

LEMMA ServesKeeps ==
    ASSUME WebInv, NEW c \in Calls, NEW C, NEW F, Serves(c, C, F), TypeOK'
    PROVE  WebInv'
<1>0. /\ C \in SUBSET Sessions /\ F \in SUBSET Sessions /\ jar' = Aged(jar, C)
      /\ promise' = promise /\ live \ C \subseteq live'
      /\ \A d \in Calls : call[d] \in Call /\ call'[d] \in Call
      /\ jar \in Token
  BY DEF Serves, WebInv, TypeOK
<1>1. ASSUME NEW d \in Calls \ {c}
      PROVE  \E b \in BOOLEAN :
                /\ By(call'[d], call[d], C, F, b)
                /\ call[d].again => b \/ F \subseteq C
                /\ call[d].user \notin live' \ live
                /\ call[d].set \in C => call[d].set \notin live'
  BY DEF Serves
<1>2. ASSUME NEW d \in Calls \ {c}
      PROVE  /\ Shape(call'[d]) /\ Held(call'[d], live') /\ Calm(call'[d], jar')
             /\ call'[d].set = Aged(call[d].set, C) /\ call'[d].cookie = Aged(call[d].cookie, C)
             /\ call'[d].pc = call[d].pc /\ call'[d].tab = call[d].tab
             /\ call'[d].fetching = call[d].fetching /\ call'[d].awaits = call[d].awaits
  <2>1. PICK b \in BOOLEAN : /\ By(call'[d], call[d], C, F, b)
                             /\ call[d].again => b \/ F \subseteq C
                             /\ call[d].user \notin live' \ live
                             /\ call[d].set \in C => call[d].set \notin live'
    BY <1>1
  <2>2. Shape(call[d]) /\ Held(call[d], live) /\ Calm(call[d], jar)
    BY DEF WebInv, Shapes, Tokens, Calms
  <2>3. Shape(call'[d])
    BY <1>0, <2>1, <2>2, ShapeBy
  <2>4. Held(call'[d], live')
    BY <1>0, <2>1, <2>2, HeldBy
  <2>5. Calm(call'[d], jar')
    BY <1>0, <2>1, <2>2, CalmBy
  <2>. QED
    BY <2>1, <2>3, <2>4, <2>5 DEF By
<1>3. PICK p \in Call : p = call'[c]
  BY <1>0
<1>4. PICK q \in Call : q = call[c]
  BY <1>0
<1>5. /\ p.pc \notin {"idle", "join"} /\ q.pc \notin {"idle", "join"}
      /\ p.tab = q.tab /\ p.fetching = q.fetching
      /\ Shape(p) /\ Held(p, live') /\ Calm(p, jar')
      /\ p.cookie \in {q.cookie, NoToken} \union C
      /\ p.set \in Sessions => p.set = q.set \/ p.set \in C \/ p.set \notin live
      /\ \A s \in live' \ astray' : p.set = s \/ (s \in live \ astray /\ s \notin C /\ q.set # s)
  BY <1>3, <1>4 DEF Serves
<1>6. Shapes' /\ Calms'
  BY <1>2, <1>3, <1>5 DEF Shapes, Calms
<1>7. Tokens'
  <2>1. jar' \in Sessions => jar' \in live'
    BY <1>0, Disjoint DEF WebInv, Tokens, Aged
  <2>. QED
    BY <1>2, <1>3, <1>5, <2>1 DEF Tokens
<1>8. Unique'
  <2>1. /\ jar \in Sessions => jar \in live
        /\ \A d \in Calls : call[d].cookie \in Sessions => call[d].cookie \in live
        /\ \A d \in Calls : call[d].set \in Sessions => call[d].set \in live
    BY DEF WebInv, Tokens, Held
  <2>2. ASSUME p.set \in Sessions
        PROVE  /\ jar' # p.set
               /\ \A d \in Calls \ {c} : call'[d].set # p.set /\ call'[d].cookie # p.set
    <3>1. CASE p.set = q.set
      BY <1>0, <1>2, <1>4, <2>2, <3>1, Disjoint DEF WebInv, Unique, Aged
    <3>2. CASE p.set \in C
      BY <1>0, <1>2, <2>2, <3>2, Disjoint DEF Aged
    <3>3. CASE p.set \notin live
      BY <1>0, <1>2, <2>1, <2>2, <3>3, Disjoint DEF Aged
    <3>. QED
      BY <1>5, <2>2, <3>1, <3>2, <3>3
  <2>3. ASSUME NEW d \in Calls \ {c}, call'[d].set \in Sessions
        PROVE  /\ jar' # call'[d].set /\ p.set # call'[d].set /\ p.cookie # call'[d].set
               /\ \A e \in Calls \ {c, d} : /\ call'[e].set # call'[d].set
                                            /\ call'[e].cookie # call'[d].set
    <3>1. call'[d].set = call[d].set /\ call[d].set \notin C
      BY <1>2, <2>3, Disjoint DEF Aged
    <3>2. jar' # call'[d].set
      BY <1>0, <2>3, <3>1, Disjoint DEF WebInv, Unique, Aged
    <3>3. p.set # call'[d].set
      BY <2>2, <2>3
    <3>4. p.cookie # call'[d].set
      BY <1>4, <1>5, <2>3, <3>1, Disjoint DEF WebInv, Unique
    <3>5. \A e \in Calls \ {c, d} : /\ call'[e].set # call'[d].set
                                    /\ call'[e].cookie # call'[d].set
      BY <1>2, <2>3, <3>1, Disjoint DEF WebInv, Unique, Aged
    <3>. QED
      BY <3>2, <3>3, <3>4, <3>5
  <2>. QED
    BY <1>3, <2>2, <2>3 DEF Unique
<1>9. CookieKept'
  <2>. SUFFICES ASSUME NEW s \in live' \ astray'
                PROVE  jar' = s \/ \E d \in Calls : call'[d].set = s
    BY DEF CookieKept
  <2>1. CASE p.set = s
    BY <1>3, <2>1
  <2>2. CASE s \in live \ astray /\ s \notin C /\ q.set # s
    <3>1. jar = s \/ \E d \in Calls \ {c} : call[d].set = s
      BY <1>4, <2>2 DEF WebInv, CookieKept
    <3>. QED
      BY <1>0, <1>2, <2>2, <3>1 DEF Aged
  <2>. QED
    BY <1>5, <2>1, <2>2
<1>10. Promises'
  <2>1. \A d \in Calls : call'[d].fetching = call[d].fetching /\ call'[d].tab = call[d].tab
    BY <1>2, <1>3, <1>4, <1>5
  <2>. QED
    BY <1>0, <2>1 DEF WebInv, TypeOK, Promises
<1>11. WaitsForFetch'
  <2>. SUFFICES ASSUME NEW d \in Calls, call'[d].pc = "join"
                PROVE  LET a == call'[call'[d].awaits]
                       IN  a.fetching /\ a.pc # "join" /\ a.tab = call'[d].tab
    BY DEF WaitsForFetch
  <2>1. d # c /\ call[d].pc = "join" /\ call'[d].awaits = call[d].awaits /\ call'[d].tab = call[d].tab
    BY <1>2, <1>3, <1>5
  <2>2. call[d].awaits \in Calls
    BY <1>0, <2>1, <1>6 DEF WebInv, Shapes, Shape, Call
  <2>3. LET a == call[call[d].awaits] IN a.fetching /\ a.pc # "join" /\ a.tab = call[d].tab
    BY <2>1 DEF WebInv, WaitsForFetch
  <2>. QED
    BY <1>2, <1>3, <1>4, <1>5, <2>1, <2>2, <2>3
<1>. QED
  BY <1>6, <1>7, <1>8, <1>9, <1>10, <1>11 DEF WebInv

\* Call c goes on by itself, to p.
LEMMA ServesAlone ==
    ASSUME WebInv, NEW c \in Calls, NEW p \in Call, call' = [call EXCEPT ![c] = p],
           UNCHANGED <<jar, cache, promise>>,
           live \subseteq live', live' \subseteq Sessions, astray' \subseteq live',
           \A d \in Calls \ {c} : call[d].user \notin live' \ live,
           p.pc \notin {"idle", "join"}, call[c].pc \notin {"idle", "join"},
           p.tab = call[c].tab, p.fetching = call[c].fetching,
           Shape(p), Held(p, live'), Calm(p, jar),
           p.cookie \in {call[c].cookie, NoToken},
           p.set \in Sessions => p.set = call[c].set \/ p.set \notin live,
           \A s \in live' \ astray' : p.set = s \/ (s \in live \ astray /\ call[c].set # s)
    PROVE  WebInv'
<1>1. /\ call'[c] = p /\ \A d \in Calls \ {c} : call'[d] = call[d]
      /\ \A d \in Calls : call[d] \in Call
  BY DEF WebInv, TypeOK
<1>2. TypeOK'
  BY DEF WebInv, TypeOK
<1>3. ASSUME NEW d \in Calls \ {c}
      PROVE  \E b \in BOOLEAN :
                /\ By(call'[d], call[d], {}, {}, b)
                /\ call[d].again => b \/ {} \subseteq {}
                /\ call[d].user \notin live' \ live
                /\ call[d].set \in {} => call[d].set \notin live'
  <2>1. By(call'[d], call[d], {}, {}, FALSE)
    BY <1>1, BySame
  <2>. QED
    BY <2>1
<1>4. jar' = Aged(jar, {}) /\ jar' = jar
  BY DEF Aged
<1>5. Serves(c, {}, {})
  BY <1>1, <1>3, <1>4 DEF Serves
<1>. QED
  BY <1>2, <1>5, ServesKeeps

LEMMA LookupKeeps == ASSUME WebInv, NEW c \in Calls, Lookup(c) PROVE WebInv'
<1>1. PICK q \in Call : q = call[c]
  BY DEF WebInv, TypeOK
<1>2. PICK due \in BOOLEAN :
          /\ due => q.cookie \in live
          /\ call' = [call EXCEPT ![c].pc = IF due THEN "found" ELSE "handle",
                                 ![c].user = IF q.cookie \in live THEN q.cookie ELSE NoToken,
                                 ![c].csrfOk = q.cookie \in live /\ call[c].header = q.cookie,
                                 ![c].header = NoToken,
                                 ![c].set = IF q.cookie = Old THEN NoToken ELSE "keep"]
  BY <1>1 DEF Lookup
<1>. DEFINE st == IF due THEN "found" ELSE "handle"
            u == IF q.cookie \in live THEN q.cookie ELSE NoToken
            ok == q.cookie \in live /\ q.header = q.cookie
            set == IF q.cookie = Old THEN NoToken ELSE "keep"
            p == [q EXCEPT !.pc = st, !.user = u, !.csrfOk = ok, !.header = NoToken, !.set = set]
<1>3. q.pc = "sent" /\ UNCHANGED <<live, astray, jar, cache, promise>> /\ live \subseteq Sessions
      /\ astray \subseteq live /\ Shape(q) /\ Held(q, live) /\ Calm(q, jar)
  BY <1>1 DEF Lookup, WebInv, TypeOK, Shapes, Tokens, Calms
<1>4. call' = [call EXCEPT ![c] = p]
  BY <1>1, <1>2 DEF WebInv, TypeOK
<1>5. /\ st \in {"found", "handle"} /\ u \in Sessions \union {NoToken} /\ ok \in BOOLEAN
      /\ set \in {NoToken, "keep"} /\ NoToken \in Token
      /\ st = "found" => u \in Sessions
      /\ u \in Sessions => u = q.cookie /\ u \in live /\ set = "keep"
      /\ u \notin Sessions => u = NoToken
      /\ u # NoToken => u \in Sessions
      /\ ok <=> u \in Sessions /\ q.header = u
  BY <1>2, <1>3, Disjoint DEF Token
<1>. HIDE DEF st, u, ok, set
<1>6. p \in Call
  <2>1. st \in {"idle", "join", "sent", "found", "handle", "answered"}
        /\ set \in Token \union {"keep"}
    BY <1>5
  <2>. DEFINE r == [q EXCEPT !.pc = st, !.user = u]
  <2>2. r \in Call
    BY <1>5, <2>1, ZenonT(40) DEF Call
  <2>3. p = [r EXCEPT !.csrfOk = ok, !.header = NoToken, !.set = set]
    OBVIOUS
  <2>. HIDE DEF r
  <2>4. [r EXCEPT !.csrfOk = ok, !.header = NoToken, !.set = set] \in Call
    BY <1>5, <2>1, <2>2, ZenonT(40) DEF Call
  <2>. QED
    BY <2>3, <2>4
<1>7. /\ p.pc = st /\ p.user = u /\ p.csrfOk = ok /\ p.header = NoToken /\ p.set = set
      /\ p.tab = q.tab /\ p.kind = q.kind /\ p.fetching = q.fetching /\ p.again = q.again
      /\ p.awaits = q.awaits /\ p.cookie = q.cookie /\ p.status = q.status
      /\ p.effect = q.effect /\ p.troubled = q.troubled
  BY DEF Call
<1>. HIDE DEF p
<1>8. Shape(p)
  BY <1>3, <1>5, <1>7, Disjoint DEF Shape
<1>9. Held(p, live)
  BY <1>3, <1>5, <1>7, Disjoint DEF Held
<1>10. Calm(p, jar)
  BY <1>3, <1>5, <1>7, Disjoint DEF Calm
<1>11. q.set = "keep" /\ p.set \notin Sessions /\ "keep" \notin Sessions
  BY <1>3, <1>5, <1>7, Disjoint DEF Shape
<1>. QED
  BY <1>1, <1>3, <1>4, <1>5, <1>6, <1>7, <1>8, <1>9, <1>10, <1>11, ServesAlone

\* A call that is answered: what of its tokens is left.
LEMMA EndedKeeps ==
    ASSUME NEW q \in Call, NEW x \in {"ok", "csrf_invalid", "refused"}, NEW L, NEW j,
           Shape(q), Held(q, L), Calm(q, j), q.pc = "handle",
           x = "ok" => ~q.fetching,
           x = "csrf_invalid" => ~q.fetching /\ q.user # NoToken /\ ~q.csrfOk
    PROVE  LET p == Ended(q, x)
           IN  /\ p \in Call /\ Shape(p) /\ Held(p, L) /\ Calm(p, j)
               /\ p.pc = "answered" /\ p.cookie = NoToken /\ p.set = q.set
               /\ p.tab = q.tab /\ p.fetching = q.fetching /\ p.effect = "none"
               /\ p.status = x
<1>. DEFINE p == Ended(q, x)
<1>1. /\ p \in Call
      /\ p.pc = "answered" /\ p.status = x /\ p.cookie = NoToken /\ p.csrfOk = FALSE
      /\ p.user = (IF q.set = "keep" THEN NoToken ELSE q.user)
      /\ p.set = q.set /\ p.header = q.header /\ p.body = q.body
      /\ p.tab = q.tab /\ p.kind = q.kind /\ p.fetching = q.fetching
      /\ p.again = q.again /\ p.awaits = q.awaits
      /\ p.effect = q.effect /\ p.troubled = q.troubled
  <2>1. x \in {"none", "ok", "csrf_invalid", "refused"}
    OBVIOUS
  <2>. QED
    BY <2>1, EndedFields
<1>. HIDE DEF p
<1>2. q.effect = "none"
  BY DEF Shape
<1>3. Shape(p)
  BY <1>1, <1>2 DEF Shape
<1>4. Held(p, L)
  BY <1>1, Disjoint DEF Held
<1>5. Calm(p, j)
  BY <1>1 DEF Calm
<1>. QED
  BY <1>1, <1>2, <1>3, <1>4, <1>5 DEF p

LEMMA RefuseKeeps == ASSUME WebInv, NEW c \in Calls, Refuse(c) PROVE WebInv'
<1>1. PICK q \in Call : q = call[c]
  BY DEF WebInv, TypeOK
<1>2. PICK x \in {"csrf_invalid", "refused"} :
          x = IF CsrfRefuses(q) THEN "csrf_invalid" ELSE "refused"
  OBVIOUS
<1>. DEFINE p == Ended(q, x)
<1>3. /\ q.pc = "handle" /\ UNCHANGED <<live, astray, jar, cache, promise>>
      /\ live \subseteq Sessions /\ astray \subseteq live
      /\ Shape(q) /\ Held(q, live) /\ Calm(q, jar)
  BY <1>1 DEF Refuse, WebInv, TypeOK, Shapes, Tokens, Calms
<1>4. call' = [call EXCEPT ![c] = p]
  BY <1>1, <1>2 DEF Refuse, Answer, Answered, Ended, WebInv, TypeOK
<1>5. x = "csrf_invalid" => ~q.fetching /\ q.user # NoToken /\ ~q.csrfOk
  BY <1>2 DEF CsrfRefuses
<1>6. /\ p \in Call /\ Shape(p) /\ Held(p, live) /\ Calm(p, jar)
      /\ p.pc = "answered" /\ p.cookie = NoToken /\ p.set = q.set
      /\ p.tab = q.tab /\ p.fetching = q.fetching
  BY <1>3, <1>5, EndedKeeps
<1>. HIDE DEF p
<1>. QED
  BY <1>1, <1>3, <1>4, <1>6, ServesAlone

LEMMA PageKeeps == ASSUME WebInv, NEW c \in Calls, Page(c) PROVE WebInv'
<1>1. PICK q \in Call : q = call[c]
  BY DEF WebInv, TypeOK
<1>. DEFINE p == Ended(q, "ok")
<1>2. /\ q.pc = "handle" /\ q.kind = "page" /\ UNCHANGED <<live, astray, jar, cache, promise>>
      /\ live \subseteq Sessions /\ astray \subseteq live
      /\ Shape(q) /\ Held(q, live) /\ Calm(q, jar)
  BY <1>1 DEF Page, Handles, WebInv, TypeOK, Shapes, Tokens, Calms
<1>3. call' = [call EXCEPT ![c] = p]
  BY <1>1 DEF Page, Answer, Answered, Ended, WebInv, TypeOK
<1>4. ~q.fetching
  BY <1>2 DEF Shape, Guarded
<1>5. /\ p \in Call /\ Shape(p) /\ Held(p, live) /\ Calm(p, jar)
      /\ p.pc = "answered" /\ p.cookie = NoToken /\ p.set = q.set
      /\ p.tab = q.tab /\ p.fetching = q.fetching
  BY <1>2, <1>4, EndedKeeps
<1>. HIDE DEF p
<1>. QED
  BY <1>1, <1>2, <1>3, <1>5, ServesAlone

\* The handler of q has run: p is its answer.
Ran(p, q) ==
    /\ p \in Call
    /\ p.pc = "answered" /\ p.status \in {"ok", "refused"} /\ p.cookie = NoToken
    /\ p.csrfOk = FALSE /\ p.effect = "once"
    /\ p.header = q.header /\ p.kind = q.kind /\ p.tab = q.tab /\ p.fetching = q.fetching

LEMMA RanKeeps ==
    ASSUME NEW q, NEW p, Ran(p, q), Shape(q), q.pc = "handle", ~q.fetching, NEW j
    PROVE  Shape(p) /\ Calm(p, j)
<1>1. Shape(p)
  BY DEF Ran, Shape
<1>2. Calm(p, j)
  BY DEF Ran, Calm
<1>. QED
  BY <1>1, <1>2

LEMMA SaveKeeps == ASSUME WebInv, NEW c \in Calls, Save(c) PROVE WebInv'
<1>1. PICK q \in Call : q = call[c]
  BY DEF WebInv, TypeOK
<1>2. PICK x \in {"ok", "refused"} : call' = [Answer(c, x) EXCEPT ![c].effect = More(@)]
  BY DEF Save
<1>. DEFINE e == Ended(q, x)
            p == [e EXCEPT !.effect = "once"]
<1>3. /\ q.pc = "handle" /\ ~q.fetching /\ UNCHANGED <<live, astray, jar, cache, promise>>
      /\ live \subseteq Sessions /\ astray \subseteq live
      /\ Shape(q) /\ Held(q, live) /\ Calm(q, jar) /\ q.effect = "none"
  BY <1>1 DEF Save, Handles, WebInv, TypeOK, Shapes, Tokens, Calms, Shape
<1>4. /\ e \in Call /\ Held(e, live)
      /\ e.pc = "answered" /\ e.status = x /\ e.cookie = NoToken /\ e.csrfOk = FALSE
      /\ e.header = q.header /\ e.kind = q.kind /\ e.tab = q.tab /\ e.fetching = q.fetching
      /\ e.set = q.set /\ e.effect = "none"
  <2>1. x \in {"none", "ok", "csrf_invalid", "refused"} /\ x \in {"ok", "csrf_invalid", "refused"}
    OBVIOUS
  <2>2. Held(e, live)
    BY <1>3, <2>1, EndedKeeps
  <2>3. /\ e \in Call
        /\ e.pc = "answered" /\ e.status = x /\ e.cookie = NoToken /\ e.csrfOk = FALSE
        /\ e.header = q.header /\ e.kind = q.kind /\ e.tab = q.tab /\ e.fetching = q.fetching
        /\ e.set = q.set /\ e.effect = q.effect
    BY <2>1, EndedFields, ZenonT(40)
  <2>. HIDE DEF e
  <2>. QED
    BY <1>3, <2>2, <2>3
<1>5. call' = [call EXCEPT ![c] = p]
  <2>1. Answer(c, x) = [call EXCEPT ![c] = e]
    BY <1>1 DEF Answer, Answered, Ended, WebInv, TypeOK
  <2>. HIDE DEF e
  <2>. QED
    BY <1>2, <1>4, <2>1 DEF More, WebInv, TypeOK
<1>. HIDE DEF e
<1>6. p \in Call
  BY <1>4 DEF Call
<1>7. /\ Ran(p, q) /\ p.set = e.set /\ p.user = e.user
  BY <1>4, <1>6 DEF Ran, Call
<1>. HIDE DEF p
<1>8. Shape(p) /\ Calm(p, jar)
  BY <1>3, <1>7, RanKeeps
<1>9. Held(p, live)
  BY <1>4, <1>7 DEF Held, Ran
<1>. QED
  BY <1>1, <1>3, <1>4, <1>5, <1>6, <1>7, <1>8, <1>9, ServesAlone DEF Ran

LEMMA LoginKeeps ==
    ASSUME WebInv, NEW c \in Calls, NEW s \in Sessions, Login(c, s) PROVE WebInv'
<1>1. PICK q \in Call : q = call[c]
  BY DEF WebInv, TypeOK
<1>. DEFINE e == Ended(q, "ok")
            p == [e EXCEPT !.set = s, !.user = s, !.effect = "once"]
<1>2. /\ q.pc = "handle" /\ q.kind \in SignsIn /\ ~CsrfRefuses(q)
      /\ s \notin live /\ \A d \in Calls : s # call[d].user
      /\ live' = live \union {s} /\ UNCHANGED <<astray, jar, cache, promise>>
      /\ call' = [Answer(c, "ok") EXCEPT ![c].set = s, ![c].user = s, ![c].effect = More(@)]
  BY <1>1 DEF Login, Handles
<1>3. /\ live \subseteq Sessions /\ astray \subseteq live
      /\ Shape(q) /\ Held(q, live) /\ q.effect = "none" /\ ~q.csrfOk /\ ~q.fetching
  BY <1>1, <1>2 DEF WebInv, TypeOK, Shapes, Tokens, Shape, SignsIn, Guarded
<1>4. q.user = NoToken
  BY <1>2, <1>3 DEF CsrfRefuses, SignsIn
<1>5. q.set \notin Sessions
  BY <1>3, <1>4, Disjoint DEF Held
<1>6. /\ e \in Call
      /\ e.pc = "answered" /\ e.status = "ok" /\ e.cookie = NoToken /\ e.csrfOk = FALSE
      /\ e.header = q.header /\ e.kind = q.kind /\ e.tab = q.tab /\ e.fetching = q.fetching
      /\ e.effect = "none"
  BY <1>3, EndedFields
<1>7. call' = [call EXCEPT ![c] = p]
  <2>1. Answer(c, "ok") = [call EXCEPT ![c] = e]
    BY <1>1 DEF Answer, Answered, Ended, WebInv, TypeOK
  <2>. HIDE DEF e
  <2>. QED
    BY <1>2, <1>6, <2>1 DEF More, WebInv, TypeOK
<1>. HIDE DEF e
<1>8. p \in Call
  <2>1. s \in Token \union {"keep"} /\ s \in Sessions \union {NoToken}
    BY DEF Token
  <2>. QED
    BY <1>6, <2>1, TypedEnd
<1>9. /\ Ran(p, q) /\ p.set = s /\ p.user = s
  BY <1>6, <1>8 DEF Ran, Call
<1>. HIDE DEF p
<1>10. Shape(p) /\ Calm(p, jar)
  BY <1>2, <1>3, <1>9, RanKeeps
<1>11. Held(p, live')
  BY <1>2, <1>9, Disjoint DEF Held, Ran
<1>12. live \subseteq live' /\ live' \subseteq Sessions /\ astray' \subseteq live'
       /\ \A d \in Calls \ {c} : call[d].user \notin live' \ live
  BY <1>2, <1>3
<1>13. \A r \in live' \ astray' : p.set = r \/ (r \in live \ astray /\ q.set # r)
  BY <1>2, <1>3, <1>5, <1>9
<1>14. /\ p.pc \notin {"idle", "join"} /\ q.pc \notin {"idle", "join"}
       /\ p.tab = q.tab /\ p.fetching = q.fetching /\ p.cookie = NoToken /\ p.set \notin live
  BY <1>2, <1>9 DEF Ran
<1>. QED
  BY <1>1, <1>2, <1>7, <1>8, <1>10, <1>11, <1>12, <1>13, <1>14, ServesAlone

LEMMA RotateKeeps == ASSUME WebInv, NEW c \in Calls, Rotate(c) PROVE WebInv'
<1>1. PICK q \in Call : q = call[c]
  BY DEF WebInv, TypeOK
<1>2. /\ q.pc = "found" /\ UNCHANGED <<live, astray, cache, promise>>
      /\ live \subseteq Sessions /\ astray \subseteq live
      /\ Shape(q) /\ Held(q, live) /\ Calm(q, jar)
  BY <1>1 DEF Rotate, WebInv, TypeOK, Shapes, Tokens, Calms
<1>3. q.user \in Sessions /\ q.set = "keep" /\ q.effect = "none" /\ q.fetching \in BOOLEAN
  BY <1>2 DEF Shape, Call
<1>4. CASE ~Matches(c)
  <2>. DEFINE p == [q EXCEPT !.pc = "handle"]
  <2>1. call' = [call EXCEPT ![c] = p] /\ UNCHANGED jar
    BY <1>1, <1>4 DEF Rotate, WebInv, TypeOK
  <2>2. /\ p \in Call
        /\ p.pc = "handle" /\ p.user = q.user /\ p.csrfOk = q.csrfOk /\ p.header = q.header
        /\ p.set = q.set /\ p.tab = q.tab /\ p.kind = q.kind /\ p.fetching = q.fetching
        /\ p.again = q.again /\ p.awaits = q.awaits /\ p.cookie = q.cookie
        /\ p.status = q.status /\ p.effect = q.effect /\ p.troubled = q.troubled
    BY DEF Call
  <2>. HIDE DEF p
  <2>3. Shape(p)
    BY <1>2, <1>3, <2>2, Disjoint DEF Shape
  <2>4. Held(p, live)
    BY <1>2, <2>2 DEF Held
  <2>5. Calm(p, jar)
    BY <1>2, <2>2 DEF Calm
  <2>. QED
    BY <1>1, <1>2, <1>3, <2>1, <2>2, <2>3, <2>4, <2>5, Disjoint, ServesAlone
<1>5. CASE Matches(c)
  <2>. DEFINE C == {q.user}
  <2>1. q.cookie = q.user /\ q.user \in live
    BY <1>1, <1>2, <1>3, <1>5 DEF Matches, Held
  <2>2. /\ jar' = Aged(jar, C)
        /\ call' = [Age(C, {}) EXCEPT ![c].pc = "handle", ![c].cookie = q.user, ![c].set = q.user]
    BY <1>1, <1>5 DEF Rotate
  <2>3. PICK a \in Call : a = Age(C, {})[c] /\ By(a, q, C, {}, FALSE)
    <3>1. By(Age(C, {})[c], q, C, {}, FALSE)
      BY <1>1, <1>3, AgeBy
    <3>. QED
      BY <3>1 DEF By
  <2>. DEFINE p == [a EXCEPT !.pc = "handle", !.cookie = q.user, !.set = q.user]
  <2>4. call'[c] = p /\ \A d \in Calls \ {c} : call'[d] = Age(C, {})[d]
    BY <2>2, <2>3 DEF Age
  <2>5. /\ p \in Call
        /\ p.pc = "handle" /\ p.user = q.user /\ p.csrfOk = q.csrfOk
        /\ p.set = q.user /\ p.tab = q.tab /\ p.kind = q.kind /\ p.fetching = q.fetching
        /\ p.again = q.again /\ p.awaits = q.awaits /\ p.cookie = q.user
        /\ p.status = q.status /\ p.effect = q.effect /\ (p.troubled <=> q.troubled)
        /\ p.header = q.header
    <3>1. p \in Call
      <4>1. q.user \in Token /\ q.user \in Token \union {"keep"}
        BY <1>3 DEF Token
      <4>. QED
        BY <4>1, TypedTurn
    <3>. QED
      BY <2>3, <3>1 DEF By, Aged, Call
  <2>. HIDE DEF p
  <2>6. ASSUME NEW d \in Calls \ {c}
        PROVE  \E b \in BOOLEAN :
                  /\ By(call'[d], call[d], C, {}, b)
                  /\ call[d].again => b \/ {} \subseteq C
                  /\ call[d].user \notin live' \ live
                  /\ call[d].set \in C => call[d].set \notin live'
    <3>1. By(call'[d], call[d], C, {}, FALSE)
      BY <1>3, <2>4, AgeBy
    <3>2. call[d].set # q.user
      BY <1>1, <1>3, <2>1 DEF WebInv, Unique
    <3>. QED
      BY <1>2, <3>1, <3>2
  <2>7. Shape(p)
    BY <1>2, <1>3, <2>5, Disjoint DEF Shape
  <2>8. Held(p, live')
    BY <1>2, <1>3, <2>1, <2>5, Disjoint DEF Held
  <2>9. Calm(p, jar')
    BY <1>2, <1>3, <2>2, <2>5 DEF Calm, Aged
  <2>10. \A s \in live' \ astray' : p.set = s \/ (s \in live \ astray /\ s \notin C /\ q.set # s)
    BY <1>2, <1>3, <2>5, Disjoint
  <2>11. Serves(c, C, {})
    BY <1>1, <1>2, <1>3, <2>2, <2>4, <2>5, <2>6, <2>7, <2>8, <2>9, <2>10 DEF Serves
  <2>12. TypeOK'
    <3>1. \A d \in Calls \ {c} : call'[d] \in Call
      BY <2>6 DEF By
    <3>2. DOMAIN call' = Calls /\ call' = [d \in Calls |-> call'[d]]
      BY <2>2 DEF Age
    <3>3. jar' \in Token
      BY <1>3, <2>2, AgedToken DEF WebInv, TypeOK
    <3>. QED
      BY <1>2, <2>4, <2>5, <3>1, <3>2, <3>3 DEF WebInv, TypeOK
  <2>. QED
    BY <2>11, <2>12, ServesKeeps
<1>. QED
  BY <1>4, <1>5

LEMMA IssueKeeps == ASSUME WebInv, NEW c \in Calls, IssueCsrf(c) PROVE WebInv'
<1>1. PICK q \in Call : q = call[c]
  BY DEF WebInv, TypeOK
<1>2. /\ q.pc = "handle" /\ q.fetching /\ q.user \in live
      /\ UNCHANGED <<live, astray, jar, promise>>
      /\ cache' = [t \in Tabs |-> Aged(cache[t], {q.user})]
      /\ live \subseteq Sessions /\ astray \subseteq live
      /\ Shape(q) /\ Held(q, live) /\ Calm(q, jar)
  BY <1>1 DEF IssueCsrf, Handles, WebInv, TypeOK, Shapes, Tokens, Calms
<1>. DEFINE s == q.user
            aged == Answered(Age({}, {s}), c, "ok")
<1>3. s \in Sessions /\ s \in Token /\ {s} \in SUBSET Sessions /\ q.effect = "none"
  BY <1>2 DEF Shape, Token
<1>4. call' = [d \in Calls |-> IF d = c THEN [aged[c] EXCEPT !.body = s]
                               ELSE [aged[d] EXCEPT !.troubled = @ \/ aged[d].again]]
  BY <1>1 DEF IssueCsrf
<1>5. ASSUME NEW d \in Calls \ {c} PROVE By(call'[d], call[d], {}, {s}, call[d].again)
  <2>1. PICK a : a = Age({}, {s})[d] /\ By(a, call[d], {}, {s}, FALSE)
    BY <1>3, AgeBy
  <2>2. aged[d] = a
    BY <2>1 DEF Answered, Age
  <2>3. a \in Call /\ a.again = call[d].again /\ a.again \in BOOLEAN /\ a.troubled \in BOOLEAN
    BY <2>1 DEF By, Call
  <2>. HIDE DEF aged
  <2>4. call'[d] = [a EXCEPT !.troubled = a.troubled \/ a.again]
    BY <1>4, <2>2
  <2>5. By(call'[d], a, {}, {}, a.again)
    BY <2>3, <2>4, ByTroubled
  <2>. QED
    BY <2>1, <2>3, <2>5 DEF By, Aged
<1>6. PICK a \in Call : a = Age({}, {s})[c] /\ By(a, q, {}, {s}, FALSE)
  <2>1. By(Age({}, {s})[c], q, {}, {s}, FALSE)
    BY <1>1, <1>3, AgeBy
  <2>. QED
    BY <2>1 DEF By
<1>. DEFINE e == Ended(a, "ok")
<1>7. /\ e \in Call
      /\ e.pc = "answered" /\ e.status = "ok" /\ e.cookie = NoToken /\ e.csrfOk = FALSE
      /\ e.user = (IF a.set = "keep" THEN NoToken ELSE a.user)
      /\ e.set = a.set /\ e.tab = a.tab /\ e.kind = a.kind /\ e.fetching = a.fetching
      /\ e.again = a.again /\ e.effect = a.effect /\ e.troubled = a.troubled
  BY EndedFields
<1>8. /\ e.pc = "answered" /\ e.status = "ok" /\ e.cookie = NoToken /\ e.csrfOk = FALSE
      /\ e.user = (IF q.set = "keep" THEN NoToken ELSE q.user)
      /\ e.set = q.set /\ e.tab = q.tab /\ e.kind = q.kind
      /\ e.fetching /\ e.fetching = q.fetching
      /\ e.effect = "none"
  <2>1. /\ a.set = q.set /\ a.user = q.user /\ a.tab = q.tab /\ a.kind = q.kind
        /\ a.fetching = q.fetching /\ a.effect = q.effect
    BY <1>6 DEF By, Aged
  <2>. QED
    BY <1>2, <1>3, <1>7, <2>1
<1>. DEFINE p == [e EXCEPT !.body = s]
<1>9. call'[c] = p
  <2>1. aged[c] = e
    BY <1>6 DEF Answered, Ended, Age
  <2>. HIDE DEF aged, e
  <2>. QED
    BY <1>4, <2>1
<1>. HIDE DEF aged, s, e
<1>10. /\ p \in Call
       /\ p.pc = "answered" /\ p.status = "ok" /\ p.cookie = NoToken /\ p.csrfOk = FALSE
       /\ p.user = (IF q.set = "keep" THEN NoToken ELSE q.user)
       /\ p.set = q.set /\ p.tab = q.tab /\ p.kind = q.kind
       /\ p.fetching /\ p.fetching = q.fetching
       /\ p.effect = "none" /\ p.body = s
       /\ p.again = e.again /\ p.troubled = e.troubled
       /\ p.header = e.header /\ p.awaits = e.awaits
  BY <1>3, <1>7, <1>8 DEF Call
<1>. HIDE DEF p
<1>11. p.again = q.again /\ p.troubled = q.troubled
  <2>1. /\ a.again = q.again /\ a.troubled = q.troubled
    BY <1>6 DEF By, Call
  <2>. QED
    BY <1>7, <1>10, <2>1
<1>12. Shape(p)
  BY <1>2, <1>10 DEF Shape, Guarded, SignsIn
<1>13. Held(p, live)
  BY <1>2, <1>10, Disjoint DEF Held
<1>14. Calm(p, jar)
  <2>. SUFFICES ASSUME p.again, ~p.troubled PROVE Calm(p, jar)
    BY DEF Calm
  <2>1. jar \in {s, Old}
    BY <1>2, <1>3, <1>11 DEF Calm, s
  <2>2. q.set \in {"keep", s, Old}
    BY <1>2, <1>3 DEF Shape, Held, Call, Token, s
  <2>. QED
    BY <1>3, <1>10, <2>1, <2>2 DEF Calm
<1>15. \A r \in live' \ astray' : p.set = r \/ (r \in live \ astray /\ r \notin {} /\ q.set # r)
  BY <1>2, <1>10
<1>16. jar' = Aged(jar, {}) /\ jar' = jar
  BY <1>2 DEF Aged
<1>17. ASSUME NEW d \in Calls \ {c}
       PROVE  \E b \in BOOLEAN :
                 /\ By(call'[d], call[d], {}, {s}, b)
                 /\ call[d].again => b \/ {s} \subseteq {}
                 /\ call[d].user \notin live' \ live
                 /\ call[d].set \in {} => call[d].set \notin live'
  <2>1. call[d].again \in BOOLEAN
    BY DEF WebInv, TypeOK, Call
  <2>. QED
    BY <1>2, <1>5, <2>1
<1>18. Serves(c, {}, {s})
  BY <1>1, <1>2, <1>3, <1>9, <1>10, <1>12, <1>13, <1>14, <1>15, <1>16, <1>17 DEF Serves
<1>19. TypeOK'
  <2>1. \A d \in Calls \ {c} : call'[d] \in Call
    BY <1>5 DEF By
  <2>2. call' \in [Calls -> Call]
    BY <1>4, <1>9, <1>10, <2>1
  <2>3. cache' \in [Tabs -> Token]
    BY <1>2, <1>3, AgedToken DEF WebInv, TypeOK, s
  <2>. QED
    BY <1>2, <2>2, <2>3 DEF WebInv, TypeOK
<1>. QED
  BY <1>18, <1>19, ServesKeeps

LEMMA LogoutKeeps == ASSUME WebInv, NEW c \in Calls, Logout(c) PROVE WebInv'
<1>1. PICK q \in Call : q = call[c]
  BY DEF WebInv, TypeOK
<1>. DEFINE gone == {s \in live : s = q.user /\ Current(c)}
            done == [Answered(Age(gone, gone), c, "ok") EXCEPT ![c].set = NoToken,
                                                              ![c].effect = More(@)]
<1>2. /\ q.pc = "handle" /\ ~q.fetching /\ q.kind = "logout" /\ UNCHANGED promise
      /\ IF gone # {} THEN Delete(gone, done)
         ELSE /\ call' = done
              /\ astray' = astray \union ({q.user} \intersect live)
              /\ UNCHANGED <<live, jar, cache>>
  BY <1>1 DEF Logout, Handles
<1>3. /\ live \subseteq Sessions /\ astray \subseteq live /\ jar \in Token
      /\ Shape(q) /\ Held(q, live) /\ q.effect = "none"
  BY <1>1, <1>2 DEF WebInv, TypeOK, Shapes, Tokens, Shape
<1>4. gone \in SUBSET Sessions /\ \A s \in gone : s = q.user
  BY <1>3
<1>5. gone # {} => \A s \in gone : q.cookie = s /\ s = q.user
  BY <1>1 DEF Current
<1>6. call' = done
  BY <1>2 DEF Delete
<1>7. PICK a \in Call : a = Age(gone, gone)[c] /\ By(a, q, gone, gone, FALSE)
  <2>1. By(Age(gone, gone)[c], q, gone, gone, FALSE)
    BY <1>1, <1>4, AgeBy
  <2>. QED
    BY <2>1 DEF By
<1>. HIDE DEF gone
<1>. DEFINE e == Ended(a, "ok")
            p == [e EXCEPT !.set = NoToken, !.effect = "once"]
<1>8. /\ e \in Call
      /\ e.pc = "answered" /\ e.status = "ok" /\ e.cookie = NoToken /\ e.csrfOk = FALSE
      /\ e.tab = a.tab /\ e.kind = a.kind /\ e.fetching = a.fetching /\ e.header = a.header
      /\ e.effect = a.effect
  BY EndedFields
<1>9. /\ a.tab = q.tab /\ a.kind = q.kind /\ a.fetching = q.fetching /\ a.effect = "none"
      /\ a.pc = "handle" /\ ~a.fetching
  BY <1>2, <1>3, <1>7 DEF By
<1>10. /\ call'[c] = p /\ \A d \in Calls \ {c} : call'[d] = Age(gone, gone)[d]
       /\ DOMAIN call' = Calls /\ call' = [d \in Calls |-> call'[d]]
  <2>1. PICK G \in [Calls -> Call] : G = Age(gone, gone) /\ G[c] = a
    <3>1. \A d \in Calls : Age(gone, gone)[d] \in Call
      BY <1>4, AgeBy DEF By
    <3>. QED
      BY <1>7, <3>1 DEF Age
  <2>2. Answered(G, c, "ok") = [G EXCEPT ![c] = e]
    BY <2>1 DEF Answered, Ended
  <2>. HIDE DEF e
  <2>3. done = [[G EXCEPT ![c] = e] EXCEPT ![c].set = NoToken, ![c].effect = More(@)]
    BY <2>1, <2>2
  <2>4. done = [G EXCEPT ![c] = p]
    <3>. DEFINE H == [G EXCEPT ![c] = e]
    <3>1. H \in [Calls -> Call] /\ H[c] = e /\ \A d \in Calls \ {c} : H[d] = G[d]
      BY <1>8, <2>1
    <3>2. e.effect = "none" /\ More(e.effect) = "once"
      BY <1>8, <1>9 DEF More
    <3>3. done = [H EXCEPT ![c].set = NoToken, ![c].effect = More(@)]
      BY <2>3
    <3>. HIDE DEF H, done
    <3>4. [H EXCEPT ![c].set = NoToken, ![c].effect = More(@)] = [H EXCEPT ![c] = p]
      BY <3>1, <3>2
    <3>. HIDE DEF p
    <3>5. [H EXCEPT ![c] = p] = [G EXCEPT ![c] = p]
      BY <2>1, <3>1
    <3>. QED
      BY <3>3, <3>4, <3>5
  <2>. HIDE DEF done, p
  <2>5. call' = [G EXCEPT ![c] = p]
    BY <1>6, <2>4
  <2>6. call'[c] = p /\ \A d \in Calls \ {c} : call'[d] = G[d]
    BY <2>1, <2>5
  <2>7. DOMAIN call' = Calls /\ call' = [d \in Calls |-> call'[d]]
    BY <2>1, <2>5
  <2>. QED
    BY <2>1, <2>6, <2>7
<1>. HIDE DEF e, done
<1>12. /\ p \in Call /\ Ran(p, a) /\ p.set = NoToken
  <2>1. NoToken \in Token \union {"keep"}
    BY DEF Token
  <2>2. p \in Call
    BY <1>8, <2>1, TypedLogout
  <2>. QED
    BY <1>8, <2>2 DEF Ran, Call
<1>. HIDE DEF p
<1>13. Shape(p) /\ Calm(p, jar')
  <2>1. Shape(a)
    BY <1>3, <1>4, <1>7, ShapeBy
  <2>. QED
    BY <1>9, <1>12, <2>1, RanKeeps
<1>14. Held(p, live') /\ p.cookie = NoToken /\ p.pc = "answered" /\ p.tab = q.tab
       /\ p.fetching = q.fetching
  BY <1>9, <1>12, Disjoint DEF Held, Ran
<1>15. /\ jar' = Aged(jar, gone) /\ live' = live \ gone
       /\ astray' \subseteq live'
       /\ \A s \in live \ gone : s \in astray => s \in astray'
       /\ \A s \in live \ gone : s = q.user => s \in astray'
       /\ \A t \in Tabs : cache'[t] = Aged(cache[t], gone)
       /\ cache' = [t \in Tabs |-> cache'[t]]
  <2>1. CASE gone # {}
    <3>1. \A s \in live : s = q.user => s \in gone
      BY <1>4, <2>1
    <3>2. /\ jar' = Aged(jar, gone) /\ live' = live \ gone /\ astray' = astray \ gone
          /\ cache' = [t \in Tabs |-> Aged(cache[t], gone)]
      BY <1>2, <2>1 DEF Delete
    <3>. QED
      BY <1>3, <3>1, <3>2
  <2>2. CASE gone = {}
    <3>1. /\ astray' = astray \union ({q.user} \intersect live)
          /\ UNCHANGED <<live, jar, cache>>
      BY <1>2, <2>2
    <3>. QED
      BY <1>3, <2>2, <3>1 DEF Aged, WebInv, TypeOK
  <2>. QED
    BY <2>1, <2>2
<1>16. ASSUME NEW d \in Calls \ {c}
       PROVE  \E b \in BOOLEAN :
                 /\ By(call'[d], call[d], gone, gone, b)
                 /\ call[d].again => b \/ gone \subseteq gone
                 /\ call[d].user \notin live' \ live
                 /\ call[d].set \in gone => call[d].set \notin live'
  <2>1. By(call'[d], call[d], gone, gone, FALSE)
    BY <1>4, <1>10, AgeBy
  <2>. QED
    BY <1>15, <2>1
<1>17. \A r \in live' \ astray' : p.set = r \/ (r \in live \ astray /\ r \notin gone /\ q.set # r)
  BY <1>3, <1>15 DEF Held
<1>18. Serves(c, gone, gone)
  BY <1>1, <1>2, <1>4, <1>10, <1>12, <1>13, <1>14, <1>15, <1>16, <1>17, Disjoint DEF Serves
<1>19. TypeOK'
  <2>1. \A d \in Calls \ {c} : call'[d] \in Call
    BY <1>16 DEF By
  <2>2. call' \in [Calls -> Call]
    BY <1>10, <1>12, <2>1
  <2>3. cache' \in [Tabs -> Token]
    BY <1>4, <1>15, AgedToken DEF WebInv, TypeOK
  <2>4. jar' \in Token
    BY <1>3, <1>4, <1>15, AgedToken
  <2>. QED
    BY <1>2, <1>3, <1>15, <2>2, <2>3, <2>4 DEF WebInv, TypeOK
<1>. QED
  BY <1>18, <1>19, ServesKeeps

-----------------------------------------------------------------------------
\* What the browser does

\* Call q goes on as p, with a new request or without one, when the jar is j.
Turn(p, q, L, j) ==
    /\ p \in Call
    /\ Shape(p) /\ Held(p, L) /\ Calm(p, j)
    /\ p.set \in {q.set, "keep"} /\ p.cookie \in {q.cookie, NoToken, j}

\* A bystander of the browser's step, with the troubles of a changed jar.
LEMMA TurnBy ==
    ASSUME NEW q \in Call, NEW p, NEW L, NEW j, NEW k, NEW b,
           Shape(q), Held(q, L), Calm(q, j), By(p, q, {}, {}, b), q.again => b \/ k = j
    PROVE  Turn(p, q, L, k)
<1>1. {} \in SUBSET Sessions /\ k = Aged(k, {}) /\ j = Aged(j, {})
  BY DEF Aged
<1>2. Shape(p)
  BY <1>1, ShapeBy
<1>3. Held(p, L)
  <2>1. q.user \notin L \ L /\ L \ {} \subseteq L /\ (q.set \in {} => q.set \notin L)
    OBVIOUS
  <2>. QED
    BY <1>1, <2>1, HeldBy
<1>4. Calm(p, k)
  <2>1. q.again => b \/ ({} \subseteq {} /\ k = Aged(j, {}))
    BY <1>1
  <2>. QED
    BY <1>1, <2>1, CalmBy
<1>5. p \in Call /\ p.set = q.set /\ p.cookie = q.cookie
  BY DEF By, Aged
<1>. QED
  BY <1>2, <1>3, <1>4, <1>5 DEF Turn

LEMMA TurnIdle == ASSUME NEW q, NEW L, NEW j PROVE Turn(Idle, q, L, j)
<1>1. Shape(Idle)
  BY IdleFields DEF Shape, SignsIn, Guarded
<1>2. Held(Idle, L)
  BY IdleFields, Disjoint DEF Held
<1>3. Calm(Idle, j)
  BY IdleFields DEF Calm
<1>. QED
  BY <1>1, <1>2, <1>3, IdleFields DEF Turn

\* A request that is sent: by a call that has no effect yet and whose header
\* belongs to its cookie if it is a second run.
LEMMA TurnSent ==
    ASSUME NEW q, NEW p, NEW r, NEW L, NEW j, Sends(p, q, j),
           j \in Sessions => j \in L,
           q.effect = "none", p.fetching => q.kind \in Guarded,
           q.kind \in SignsIn => q.header = NoToken,
           q.again /\ ~q.troubled /\ ~p.fetching => j \in {q.header, Old}
    PROVE  Turn(p, r, L, j)
<1>1. Shape(p)
  BY DEF Shape, Sends
<1>2. Held(p, L)
  BY Disjoint DEF Held, Sends
<1>3. Calm(p, j)
  BY DEF Calm, Sends
<1>. QED
  BY <1>1, <1>2, <1>3 DEF Turn, Sends

LEMMA TurnsKeep ==
    ASSUME WebInv, live' = live,
           jar' \in Sessions => jar' \in live /\ \A d \in Calls : call'[d].set # jar',
           \A d \in Calls : Turn(call'[d], call[d], live, jar')
    PROVE  Shapes' /\ Tokens' /\ Unique' /\ Calms'
<1>1. \A d \in Calls : /\ Shape(call'[d]) /\ Held(call'[d], live) /\ Calm(call'[d], jar')
                       /\ call'[d].set \in {call[d].set, "keep"}
                       /\ call'[d].cookie \in {call[d].cookie, NoToken, jar'}
  BY DEF Turn
<1>2. Shapes' /\ Calms'
  BY <1>1 DEF Shapes, Calms
<1>3. Tokens'
  BY <1>1 DEF Tokens
<1>4. Unique'
  <2>. SUFFICES ASSUME NEW c \in Calls, call'[c].set \in Sessions
                PROVE  /\ jar' # call'[c].set
                       /\ \A d \in Calls \ {c} : /\ call'[d].set # call'[c].set
                                                 /\ call'[d].cookie # call'[c].set
    BY DEF Unique
  <2>1. call'[c].set = call[c].set
    BY <1>1, Disjoint
  <2>2. jar' # call'[c].set
    OBVIOUS
  <2>. QED
    BY <1>1, <2>1, <2>2, Disjoint DEF WebInv, Unique
<1>. QED
  BY <1>2, <1>3, <1>4

\* The end of a fetch wakes whoever waits for it.
LEMMA FetchEnds ==
    ASSUME WebInv, NEW c \in Calls, call[c].fetching, NoPromise(c),
           \A d \in Calls \ Woken(c) :
              /\ call'[d].pc = call[d].pc /\ call'[d].tab = call[d].tab
              /\ call'[d].fetching = call[d].fetching /\ call'[d].awaits = call[d].awaits,
           \A d \in Woken(c) : call'[d].pc # "join"
    PROVE  Promises' /\ WaitsForFetch'
<1>1. \A d \in Calls : Shape(call[d]) /\ (call[d].fetching => call[d].pc # "join")
  BY DEF WebInv, Shapes, Shape
<1>2. Promises'
  <2>. SUFFICES ASSUME NEW t \in Tabs, promise'[t] # None
                PROVE  call'[promise'[t]].fetching /\ call'[promise'[t]].tab = t
    BY DEF Promises
  <2>1. promise'[t] = promise[t] /\ t # call[c].tab /\ promise[t] \in Calls
    BY DEF NoPromise, WebInv, TypeOK
  <2>2. call[promise[t]].fetching /\ call[promise[t]].tab = t
    BY <2>1 DEF WebInv, Promises
  <2>3. promise[t] \notin Woken(c)
    BY <1>1, <2>1, <2>2 DEF Woken, Waiting
  <2>. QED
    BY <2>1, <2>2, <2>3
<1>3. WaitsForFetch'
  <2>. SUFFICES ASSUME NEW d \in Calls, call'[d].pc = "join"
                PROVE  LET a == call'[call'[d].awaits]
                       IN  a.fetching /\ a.pc # "join" /\ a.tab = call'[d].tab
    BY DEF WaitsForFetch
  <2>1. d \notin Woken(c) /\ call[d].pc = "join" /\ call'[d].awaits = call[d].awaits
        /\ call'[d].tab = call[d].tab
    OBVIOUS
  <2>2. call[d].awaits \in Calls \ {c}
    BY <1>1, <2>1 DEF WebInv, TypeOK, Call, Shape, Woken, Waiting
  <2>3. LET a == call[call[d].awaits] IN a.fetching /\ a.pc # "join" /\ a.tab = call[d].tab
    BY <2>1 DEF WebInv, WaitsForFetch
  <2>4. call[d].awaits \notin Woken(c)
    BY <2>2, <2>3 DEF Woken, Waiting
  <2>. QED
    BY <2>1, <2>2, <2>3, <2>4
<1>. QED
  BY <1>2, <1>3

\* Nobody waits for a call that is not fetching.
LEMMA OthersWait ==
    ASSUME WebInv, NEW c \in Calls, ~call[c].fetching,
           \A d \in Calls \ {c} :
              /\ call'[d].pc = call[d].pc /\ call'[d].tab = call[d].tab
              /\ call'[d].fetching = call[d].fetching /\ call'[d].awaits = call[d].awaits,
           \A t \in Tabs : \/ promise'[t] \in {promise[t], None}
                           \/ promise'[t] = c /\ call'[c].fetching /\ call'[c].tab = t,
           call'[c].pc = "join" => /\ call'[c].awaits \in Calls
                                   /\ call[call'[c].awaits].fetching
                                   /\ call[call'[c].awaits].tab = call'[c].tab
    PROVE  Promises' /\ WaitsForFetch'
<1>1. \A d \in Calls : Shape(call[d]) /\ (call[d].fetching => call[d].pc # "join")
  BY DEF WebInv, Shapes, Shape
<1>2. Promises'
  <2>. SUFFICES ASSUME NEW t \in Tabs, promise'[t] # None
                PROVE  call'[promise'[t]].fetching /\ call'[promise'[t]].tab = t
    BY DEF Promises
  <2>1. CASE promise'[t] = promise[t]
    <3>1. promise[t] \in Calls /\ call[promise[t]].fetching /\ call[promise[t]].tab = t
      BY <2>1 DEF WebInv, TypeOK, Promises
    <3>. QED
      BY <2>1, <3>1
  <2>2. CASE promise'[t] = c /\ call'[c].fetching /\ call'[c].tab = t
    BY <2>2
  <2>. QED
    BY <2>1, <2>2
<1>3. WaitsForFetch'
  <2>. SUFFICES ASSUME NEW d \in Calls, call'[d].pc = "join"
                PROVE  LET a == call'[call'[d].awaits]
                       IN  a.fetching /\ a.pc # "join" /\ a.tab = call'[d].tab
    BY DEF WaitsForFetch
  <2>1. CASE d = c
    BY <1>1, <2>1
  <2>2. CASE d # c
    <3>1. call[d].pc = "join" /\ call'[d].awaits = call[d].awaits /\ call'[d].tab = call[d].tab
      BY <2>2
    <3>2. call[d].awaits \in Calls
      BY <1>1, <3>1 DEF WebInv, TypeOK, Call, Shape
    <3>3. LET a == call[call[d].awaits] IN a.fetching /\ a.pc # "join" /\ a.tab = call[d].tab
      BY <3>1 DEF WebInv, WaitsForFetch
    <3>. QED
      BY <3>1, <3>2, <3>3
  <2>. QED
    BY <2>1, <2>2
<1>. QED
  BY <1>2, <1>3

\* The jar after an answer, and who still has the cookie of a session.
LEMMA JarFacts ==
    ASSUME WebInv, NEW c \in Calls, Deliver(c)
    PROVE  /\ jar' = JarAfter(call[c]) /\ jar' \in Token /\ live' = live /\ astray' \subseteq live
           /\ jar' \in Sessions => jar' \in live /\ \A d \in Calls \ {c} : call[d].set # jar'
           /\ \A s \in live \ astray' : jar' = s \/ \E d \in Calls \ {c} : call[d].set = s
<1>1. PICK q \in Call : q = call[c]
  BY DEF WebInv, TypeOK
<1>2. /\ live \subseteq Sessions /\ astray \subseteq live /\ jar \in Token
      /\ Held(q, live) /\ (jar \in Sessions => jar \in live)
  BY <1>1 DEF WebInv, TypeOK, Tokens
<1>3. /\ jar' = JarAfter(q) /\ live' = live
      /\ astray' = astray \union (live \intersect
                    ((IF q.kind = "page" THEN {q.set} ELSE {}) \union
                     (IF jar' # jar /\ (q.set = NoToken \/ q.user # jar) THEN {jar} ELSE {})))
  BY <1>1 DEF Deliver
<1>4. \/ jar' = jar
      \/ jar' = q.set /\ q.set # "keep" /\ q.kind # "page"
  BY <1>3 DEF JarAfter
<1>5. q.set \in Token \union {"keep"}
  BY DEF Call
<1>6. jar' \in Token
  BY <1>2, <1>4, <1>5
<1>7. jar' \in Sessions => jar' \in live /\ \A d \in Calls \ {c} : call[d].set # jar'
  BY <1>1, <1>2, <1>4 DEF Held, WebInv, Unique
<1>8. \A s \in live \ astray' : jar' = s \/ \E d \in Calls \ {c} : call[d].set = s
  <2>. SUFFICES ASSUME NEW s \in live \ astray', \A d \in Calls \ {c} : call[d].set # s
                PROVE  jar' = s
    OBVIOUS
  <2>1. s \in live \ astray /\ s \in Sessions
    BY <1>2, <1>3
  <2>2. jar = s \/ q.set = s
    BY <1>1, <2>1 DEF WebInv, CookieKept
  <2>3. CASE q.set = s
    <3>1. q.kind # "page"
      BY <1>3, <2>3
    <3>. QED
      BY <1>3, <2>1, <2>3, <3>1, Disjoint DEF JarAfter
  <2>4. CASE jar = s /\ jar' # jar
    <3>1. q.set # NoToken /\ q.user = s
      BY <1>3, <2>4
    <3>2. q.set \in Sessions
      BY <1>2, <1>4, <1>5, <2>1, <2>4, <3>1 DEF Held, Token
    <3>. QED
      BY <1>2, <1>4, <2>4, <3>1, <3>2 DEF Held
  <2>. QED
    BY <2>2, <2>3, <2>4
<1>. QED
  BY <1>1, <1>2, <1>3, <1>6, <1>7, <1>8

LEMMA DeliveredKeeps ==
    ASSUME WebInv, NEW c \in Calls, Deliver(c), TypeOK',
           Turn(call'[c], call[c], live, jar'), call'[c].set = "keep",
           \A d \in Calls \ {c} : /\ Turn(call'[d], call[d], live, jar')
                                  /\ call[d].set \in Sessions => call'[d].set = call[d].set,
           Promises', WaitsForFetch'
    PROVE  WebInv'
<1>1. /\ jar' \in Token /\ live' = live /\ astray' \subseteq live
      /\ jar' \in Sessions => jar' \in live /\ \A d \in Calls \ {c} : call[d].set # jar'
      /\ \A s \in live \ astray' : jar' = s \/ \E d \in Calls \ {c} : call[d].set = s
  BY JarFacts
<1>2. jar' \in Sessions => jar' \in live /\ \A d \in Calls : call'[d].set # jar'
  BY <1>1, Disjoint DEF Turn
<1>3. \A d \in Calls : Turn(call'[d], call[d], live, jar')
  OBVIOUS
<1>4. Shapes' /\ Tokens' /\ Unique' /\ Calms'
  BY <1>1, <1>2, <1>3, TurnsKeep
<1>5. CookieKept'
  <2>1. live \subseteq Sessions
    BY DEF WebInv, TypeOK
  <2>. QED
    BY <1>1, <2>1 DEF CookieKept
<1>. QED
  BY <1>4, <1>5 DEF WebInv

\* The bystanders of an answer to c.
LEMMA RestTurns ==
    ASSUME WebInv, NEW c \in Calls, NEW d \in Calls \ {c}, NEW calls, NEW S,
           call' = Rest(c, calls, S), d \notin S, calls[d] = call[d]
    PROVE  /\ Turn(call'[d], call[d], live, jar') /\ call'[d].set = call[d].set
           /\ call'[d].pc = call[d].pc /\ call'[d].tab = call[d].tab
           /\ call'[d].fetching = call[d].fetching /\ call'[d].awaits = call[d].awaits
<1>1. PICK q \in Call : q = call[d]
  BY DEF WebInv, TypeOK
<1>2. PICK b \in BOOLEAN : b <=> q.again /\ jar' # jar
  OBVIOUS
<1>3. call'[d] = [q EXCEPT !.troubled = q.troubled \/ b]
  <2>1. call'[d] = [q EXCEPT !.troubled = q.troubled \/ (q.again /\ jar' # jar)]
    BY <1>1 DEF Rest
  <2>2. (q.troubled \/ (q.again /\ jar' # jar)) = (q.troubled \/ b)
    BY <1>2 DEF Call
  <2>. QED
    BY <2>1, <2>2
<1>4. By(call'[d], q, {}, {}, b)
  BY <1>3, ByTroubled
<1>5. Shape(q) /\ Held(q, live) /\ Calm(q, jar)
  BY <1>1 DEF WebInv, Shapes, Tokens, Calms
<1>6. q.again => b \/ jar' = jar
  BY <1>2
<1>7. Turn(call'[d], q, live, jar')
  BY <1>4, <1>5, <1>6, TurnBy
<1>. QED
  BY <1>1, <1>4, <1>7 DEF By, Aged

\* The types, call by call.
LEMMA BrowserTypes ==
    ASSUME WebInv, NEW c \in Calls, Deliver(c),
           cache' \in [Tabs -> Token], promise' \in [Tabs -> Calls \union {None}],
           NEW calls, NEW S, call' = Rest(c, calls, S),
           \A d \in Calls : Turn(call'[d], call[d], live, jar')
    PROVE  TypeOK'
<1>1. jar' \in Token /\ live' = live /\ astray' \subseteq live
  BY JarFacts
<1>2. call' \in [Calls -> Call]
  BY DEF Rest, Turn
<1>. QED
  BY <1>1, <1>2 DEF WebInv, TypeOK

LEMMA FinishKeeps == ASSUME WebInv, NEW c \in Calls, Finish(c) PROVE WebInv'
<1>1. /\ ~call[c].fetching /\ Deliver(c) /\ call' = Rest(c, call, {c})
      /\ \/ /\ cache' = [cache EXCEPT ![call[c].tab] = NoToken]
            /\ promise' = [promise EXCEPT ![call[c].tab] = None]
         \/ UNCHANGED <<cache, promise>>
  BY DEF Finish, NoPromise
<1>2. call'[c] = Idle
  BY <1>1 DEF Rest
<1>3. Turn(call'[c], call[c], live, jar') /\ call'[c].set = "keep" /\ call'[c].pc = "idle"
  BY <1>2, TurnIdle, IdleFields
<1>4. \A d \in Calls \ {c} :
         /\ Turn(call'[d], call[d], live, jar') /\ call'[d].set = call[d].set
         /\ call'[d].pc = call[d].pc /\ call'[d].tab = call[d].tab
         /\ call'[d].fetching = call[d].fetching /\ call'[d].awaits = call[d].awaits
  BY <1>1, RestTurns
<1>5. /\ cache' \in [Tabs -> Token] /\ promise' \in [Tabs -> Calls \union {None}]
      /\ \A t \in Tabs : promise'[t] \in {promise[t], None}
  BY <1>1 DEF WebInv, TypeOK, Token
<1>6. TypeOK'
  BY <1>1, <1>3, <1>4, <1>5, BrowserTypes
<1>7. Promises' /\ WaitsForFetch'
  BY <1>1, <1>3, <1>4, <1>5, OthersWait
<1>. QED
  BY <1>1, <1>3, <1>4, <1>6, <1>7, DeliveredKeeps

LEMMA RetryKeeps == ASSUME WebInv, NEW c \in Calls, Retry(c) PROVE WebInv'
<1>1. PICK q \in Call : q = call[c]
  BY DEF WebInv, TypeOK
<1>. DEFINE r == [q EXCEPT !.again = TRUE, !.troubled = FALSE]
            p == Request(r, TRUE, jar')
<1>2. /\ ~q.fetching /\ Deliver(c) /\ call' = Rest(c, SecondRun(c), {})
      /\ q.status = "csrf_invalid" /\ q.kind \in Guarded
      /\ cache' = [cache EXCEPT ![q.tab] = NoToken]
      /\ promise' = [promise EXCEPT ![q.tab] = c]
  BY <1>1 DEF Retry, Retries
<1>3. jar' = JarAfter(q) /\ jar' \in Token /\ (jar' \in Sessions => jar' \in live)
  BY <1>1, <1>2, JarFacts
<1>4. SecondRun(c) = [call EXCEPT ![c] = p]
  BY <1>1, <1>3 DEF SecondRun
<1>5. /\ r \in Call /\ r.again /\ ~r.troubled /\ r.kind = q.kind /\ r.tab = q.tab
      /\ r.effect = q.effect /\ r.header = q.header
  <2>1. r \in Call
    BY DEF Call
  <2>. QED
    BY <2>1 DEF Call
<1>. HIDE DEF r
<1>6. Sends(p, r, jar') /\ p.fetching
  BY <1>3, <1>5, SendsFetch
<1>. HIDE DEF p
<1>7. call'[c] = p /\ \A d \in Calls \ {c} : SecondRun(c)[d] = call[d]
  <2>1. SecondRun(c)[c] = p /\ \A d \in Calls \ {c} : SecondRun(c)[d] = call[d]
    BY <1>4 DEF WebInv, TypeOK
  <2>. QED
    BY <1>2, <2>1 DEF Rest
<1>8. Turn(p, q, live, jar')
  <2>1. q.effect = "none" /\ q.kind \notin SignsIn
    BY <1>1, <1>2 DEF WebInv, Shapes, Shape, SignsIn, Guarded
  <2>. QED
    BY <1>2, <1>3, <1>5, <1>6, <2>1, TurnSent
<1>9. \A d \in Calls \ {c} :
         /\ Turn(call'[d], call[d], live, jar') /\ call'[d].set = call[d].set
         /\ call'[d].pc = call[d].pc /\ call'[d].tab = call[d].tab
         /\ call'[d].fetching = call[d].fetching /\ call'[d].awaits = call[d].awaits
  BY <1>2, <1>7, RestTurns
<1>10. /\ cache' \in [Tabs -> Token] /\ promise' \in [Tabs -> Calls \union {None}]
       /\ \A t \in Tabs : promise'[t] = promise[t] \/ (promise'[t] = c /\ t = q.tab)
  BY <1>2 DEF WebInv, TypeOK, Token
<1>11. TypeOK'
  BY <1>1, <1>2, <1>7, <1>8, <1>9, <1>10, BrowserTypes
<1>12. p.tab = q.tab /\ p.pc = "sent" /\ p.set = "keep"
  BY <1>5, <1>6 DEF Sends
<1>13. Promises' /\ WaitsForFetch'
  BY <1>1, <1>2, <1>6, <1>7, <1>9, <1>10, <1>12, OthersWait
<1>. QED
  BY <1>1, <1>2, <1>7, <1>8, <1>9, <1>11, <1>12, <1>13, DeliveredKeeps

\* A call whose fetch has an answer is in that fetch.
LEMMA FetchFacts ==
    ASSUME WebInv, NEW c \in Calls, call[c].fetching
    PROVE  /\ call[c].pc # "join" /\ call[c].kind \in Guarded /\ call[c].effect = "none"
           /\ call[c].kind \notin SignsIn
           /\ \A d \in Waiting(c) : d # c /\ call[d].pc = "join"
  BY DEF WebInv, Shapes, Shape, Waiting, SignsIn, Guarded

LEMMA FetchFailsKeeps == ASSUME WebInv, NEW c \in Calls, FetchFails(c) PROVE WebInv'
<1>1. /\ call[c].fetching /\ Deliver(c) /\ NoPromise(c) /\ call' = Rest(c, call, Woken(c))
      /\ cache' = cache
  BY DEF FetchFails
<1>2. \A d \in Woken(c) : d \in Calls /\ call'[d] = Idle
  BY <1>1 DEF Rest, Woken, Waiting
<1>3. \A d \in Woken(c) : /\ Turn(call'[d], call[d], live, jar')
                          /\ call'[d].set = "keep" /\ call'[d].pc = "idle"
  BY <1>2, TurnIdle, IdleFields
<1>4. \A d \in Calls \ Woken(c) :
         /\ Turn(call'[d], call[d], live, jar') /\ call'[d].set = call[d].set
         /\ call'[d].pc = call[d].pc /\ call'[d].tab = call[d].tab
         /\ call'[d].fetching = call[d].fetching /\ call'[d].awaits = call[d].awaits
  <2>1. c \in Woken(c)
    BY DEF Woken
  <2>. QED
    BY <1>1, <2>1, RestTurns
<1>5. cache' \in [Tabs -> Token] /\ promise' \in [Tabs -> Calls \union {None}]
  BY <1>1 DEF WebInv, TypeOK, NoPromise
<1>6. TypeOK'
  BY <1>1, <1>3, <1>4, <1>5, BrowserTypes
<1>7. Promises' /\ WaitsForFetch'
  BY <1>1, <1>3, <1>4, FetchEnds
<1>8. \A d \in Calls \ {c} : /\ Turn(call'[d], call[d], live, jar')
                             /\ call[d].set \in Sessions => call'[d].set = call[d].set
  <2>1. \A d \in Waiting(c) : call[d].set = "keep"
    BY DEF WebInv, Shapes, Shape, Waiting
  <2>. QED
    BY <1>3, <1>4, <2>1, Disjoint DEF Woken
<1>9. Turn(call'[c], call[c], live, jar') /\ call'[c].set = "keep"
  BY <1>3 DEF Woken
<1>. QED
  BY <1>1, <1>6, <1>7, <1>8, <1>9, DeliveredKeeps

\* A call sends its request with the token that was fetched.
WithToken(q, b, j) == Request([q EXCEPT !.header = b], FALSE, j)

LEMMA HeaderTurn ==
    ASSUME NEW q \in Call, NEW b \in Token, NEW j \in Token, NEW L, NEW r,
           j \in Sessions => j \in L, q.effect = "none", q.kind \notin SignsIn,
           q.again /\ ~q.troubled => j \in {b, Old}
    PROVE  LET p == WithToken(q, b, j)
           IN  /\ p \in Call /\ Turn(p, r, L, j)
               /\ p.pc = "sent" /\ p.set = "keep" /\ p.again = q.again
<1>. DEFINE s == [q EXCEPT !.header = b]
            p == Request(s, FALSE, j)
<1>1. s \in Call
  BY DEF Call
<1>2. /\ s.header = b /\ s.effect = q.effect /\ s.kind = q.kind /\ s.again = q.again
      /\ s.troubled = q.troubled
  BY DEF Call
<1>. HIDE DEF s
<1>3. Sends(p, s, j) /\ ~p.fetching
  BY <1>1, SendsOther
<1>. HIDE DEF p
<1>4. Turn(p, r, L, j)
  BY <1>2, <1>3, TurnSent
<1>5. p.again = q.again /\ p \in Call /\ p.pc = "sent" /\ p.set = "keep"
  BY <1>2, <1>3 DEF Sends
<1>. QED
  BY <1>4, <1>5 DEF p, s, WithToken

LEMMA FetchedKeeps == ASSUME WebInv, NEW c \in Calls, Fetched(c) PROVE WebInv'
<1>1. PICK q \in Call : q = call[c]
  BY DEF WebInv, TypeOK
<1>. DEFINE calls == [d \in Calls |->
                        IF d \in Waiting(c) \union {c} THEN Resumed(d, c) ELSE call[d]]
            Sent(d) == WithToken(call[d], q.body, jar')
<1>2. /\ q.fetching /\ q.status = "ok" /\ q.pc = "answered" /\ Deliver(c) /\ NoPromise(c)
      /\ call' = Rest(c, calls, {})
      /\ cache' = [cache EXCEPT ![q.tab] = q.body]
  BY <1>1 DEF Fetched, Deliver
<1>3. jar' = JarAfter(q) /\ jar' \in Token /\ (jar' \in Sessions => jar' \in live)
  BY <1>1, <1>2, JarFacts
<1>4. q.body \in Token /\ Calm(q, jar)
  BY <1>1 DEF Call, WebInv, Calms
<1>5. call'[c] = Sent(c)
  BY <1>1, <1>2, <1>3 DEF Rest, Resumed, WithToken
<1>6. Turn(Sent(c), q, live, jar') /\ Sent(c).pc = "sent" /\ Sent(c).set = "keep"
  <2>1. q.effect = "none" /\ q.kind \notin SignsIn
    BY <1>1, <1>2, FetchFacts
  <2>2. q.again /\ ~q.troubled => jar' \in {q.body, Old}
    BY <1>2, <1>3, <1>4 DEF Calm, JarAfter
  <2>. QED
    BY <1>1, <1>3, <1>4, <2>1, <2>2, HeaderTurn
<1>7. ASSUME NEW d \in Waiting(c)
      PROVE  /\ Turn(call'[d], call[d], live, jar') /\ call'[d].pc = "sent"
             /\ call'[d].set = "keep" /\ call[d].set = "keep"
  <2>1. d \in Calls /\ d # c /\ call[d].pc = "join"
    BY <1>1, <1>2, FetchFacts DEF Waiting
  <2>2. PICK w \in Call : w = call[d]
    BY <2>1 DEF WebInv, TypeOK
  <2>3. w.effect = "none" /\ w.kind \notin SignsIn /\ ~w.again /\ w.set = "keep"
    BY <2>1, <2>2 DEF WebInv, Shapes, Shape, SignsIn, Guarded
  <2>. DEFINE p == WithToken(w, q.body, jar')
  <2>4. Turn(p, w, live, jar') /\ p.pc = "sent" /\ p.set = "keep" /\ ~p.again /\ p \in Call
    <3>1. w.again /\ ~w.troubled => jar' \in {q.body, Old}
      BY <2>3
    <3>2. Turn(p, w, live, jar') /\ p.pc = "sent" /\ p.set = "keep" /\ p.again = w.again /\ p \in Call
      BY <1>3, <1>4, <2>3, <3>1, HeaderTurn
    <3>. QED
      BY <2>3, <3>2
  <2>5. call'[d] = [p EXCEPT !.troubled = p.troubled \/ (p.again /\ jar' # jar)]
    BY <1>1, <1>2, <1>3, <2>1, <2>2 DEF Rest, Resumed, WithToken
  <2>. HIDE DEF p
  <2>6. call'[d] = [p EXCEPT !.troubled = p.troubled \/ FALSE]
    BY <2>4, <2>5
  <2>7. By(call'[d], p, {}, {}, FALSE)
    BY <2>4, <2>6, ByTroubled
  <2>8. Turn(call'[d], p, live, jar')
    BY <2>4, <2>7, TurnBy DEF Turn
  <2>9. call'[d].pc = "sent" /\ call'[d].set = "keep"
    BY <2>4, <2>7 DEF By, Aged
  <2>10. call'[d].cookie \in {p.cookie, NoToken, jar'} /\ p.cookie \in {w.cookie, NoToken, jar'}
    BY <2>4, <2>8 DEF Turn
  <2>. QED
    BY <2>2, <2>3, <2>8, <2>9, <2>10 DEF Turn
<1>8. \A d \in Calls \ Woken(c) :
         /\ Turn(call'[d], call[d], live, jar') /\ call'[d].set = call[d].set
         /\ call'[d].pc = call[d].pc /\ call'[d].tab = call[d].tab
         /\ call'[d].fetching = call[d].fetching /\ call'[d].awaits = call[d].awaits
  <2>. TAKE d \in Calls \ Woken(c)
  <2>1. d # c /\ d \notin Waiting(c) /\ calls[d] = call[d]
    BY DEF Woken
  <2>. HIDE DEF calls
  <2>. QED
    BY <1>2, <2>1, RestTurns
<1>. HIDE DEF calls, Sent
<1>9. \A d \in Calls : Turn(call'[d], call[d], live, jar')
  BY <1>1, <1>5, <1>6, <1>7, <1>8 DEF Woken
<1>10. cache' \in [Tabs -> Token] /\ promise' \in [Tabs -> Calls \union {None}]
  BY <1>2, <1>4 DEF WebInv, TypeOK, NoPromise
<1>11. TypeOK'
  BY <1>2, <1>9, <1>10, BrowserTypes
<1>12. Promises' /\ WaitsForFetch'
  <2>1. \A d \in Woken(c) : call'[d].pc # "join"
    BY <1>5, <1>6, <1>7 DEF Woken
  <2>. QED
    BY <1>1, <1>2, <1>8, <2>1, FetchEnds
<1>13. \A d \in Calls \ {c} : call[d].set \in Sessions => call'[d].set = call[d].set
  BY <1>7, <1>8, Disjoint DEF Woken
<1>. QED
  BY <1>1, <1>2, <1>5, <1>6, <1>9, <1>11, <1>12, <1>13, DeliveredKeeps

LEMMA LoseKeeps == ASSUME WebInv, NEW c \in Calls, Lose(c) PROVE WebInv'
<1>1. /\ call[c].pc \in {"sent", "answered"} /\ UNCHANGED <<live, jar, cache>>
      /\ astray' = astray \union (live \intersect {call[c].set})
      /\ jar \in Token /\ live \subseteq Sessions /\ astray \subseteq live
      /\ cache \in [Tabs -> Token] /\ promise \in [Tabs -> Calls \union {None}]
      /\ \A d \in Calls : call[d] \in Call /\ Shape(call[d])
  BY DEF Lose, WebInv, TypeOK, Shapes
<1>2. ASSUME NEW W \in SUBSET Calls, c \in W, call' = [d \in Calls |-> IF d \in W THEN Idle ELSE call[d]],
             \A d \in W \ {c} : call[d].pc = "join",
             promise' \in [Tabs -> Calls \union {None}], Promises', WaitsForFetch'
      PROVE  WebInv'
  <2>1. ASSUME NEW d \in Calls
        PROVE  Turn(call'[d], call[d], live, jar')
    <3>1. CASE d \in W
      BY <1>2, <3>1, TurnIdle
    <3>2. CASE d \notin W
      <4>1. PICK q \in Call : q = call[d] /\ call'[d] = q
        BY <1>1, <1>2, <3>2
      <4>2. Shape(q) /\ Held(q, live) /\ Calm(q, jar)
        BY <4>1 DEF WebInv, Shapes, Tokens, Calms
      <4>3. By(q, q, {}, {}, FALSE)
        BY BySame
      <4>4. Turn(q, q, live, jar')
        BY <1>1, <4>2, <4>3, TurnBy
      <4>. QED
        BY <4>1, <4>4
    <3>. QED
      BY <3>1, <3>2
  <2>2. \A d \in Calls \ {c} : call'[d].set = call[d].set
    BY <1>1, <1>2, IdleFields DEF Shape
  <2>3. jar' \in Sessions => jar' \in live /\ \A d \in Calls : call'[d].set # jar'
    BY <1>1, <2>1, Disjoint DEF WebInv, Tokens, Unique, Turn
  <2>4. Shapes' /\ Tokens' /\ Unique' /\ Calms'
    BY <1>1, <2>1, <2>3, TurnsKeep
  <2>5. CookieKept'
    BY <1>1, <2>2 DEF WebInv, CookieKept
  <2>6. TypeOK'
    BY <1>1, <1>2, <2>1 DEF Turn, TypeOK
  <2>. QED
    BY <1>2, <2>4, <2>5, <2>6 DEF WebInv
<1>3. CASE call[c].fetching
  <2>1. NoPromise(c) /\ call' = [d \in Calls |-> IF d \in Woken(c) THEN Idle ELSE call[d]]
    BY <1>3 DEF Lose
  <2>2. Woken(c) \in SUBSET Calls /\ c \in Woken(c) /\ \A d \in Woken(c) \ {c} : call[d].pc = "join"
    BY DEF Woken, Waiting
  <2>3. promise' \in [Tabs -> Calls \union {None}]
    BY <1>1, <2>1 DEF NoPromise
  <2>4. /\ \A d \in Woken(c) : call'[d].pc # "join"
        /\ \A d \in Calls \ Woken(c) : call'[d] = call[d]
    BY <2>1, <2>2, IdleFields
  <2>5. Promises' /\ WaitsForFetch'
    BY <1>3, <2>1, <2>4, FetchEnds
  <2>. QED
    BY <1>2, <2>1, <2>2, <2>3, <2>5
<1>4. CASE ~call[c].fetching
  <2>1. call' = [call EXCEPT ![c] = Idle] /\ promise' = promise
    BY <1>4 DEF Lose
  <2>2. /\ call' = [d \in Calls |-> IF d \in {c} THEN Idle ELSE call[d]]
        /\ call'[c] = Idle /\ \A d \in Calls \ {c} : call'[d] = call[d]
    BY <2>1 DEF WebInv, TypeOK
  <2>3. Promises' /\ WaitsForFetch'
    BY <1>4, <2>1, <2>2, IdleFields, OthersWait
  <2>. QED
    BY <1>1, <1>2, <2>1, <2>2, <2>3
<1>. QED
  BY <1>3, <1>4

LEMMA ReloadKeeps == ASSUME WebInv, NEW t \in Tabs, Reload(t) PROVE WebInv'
<1>1. /\ UNCHANGED <<live, astray, jar, call>>
      /\ cache' = [cache EXCEPT ![t] = NoToken] /\ promise' = [promise EXCEPT ![t] = None]
  BY DEF Reload
<1>2. Shapes' /\ Tokens' /\ Unique' /\ Calms' /\ CookieKept' /\ WaitsForFetch'
  BY <1>1 DEF WebInv, Shapes, Tokens, Unique, Calms, CookieKept, WaitsForFetch
<1>3. TypeOK'
  BY <1>1 DEF WebInv, TypeOK, Token
<1>4. Promises'
  BY <1>1 DEF WebInv, TypeOK, Promises
<1>. QED
  BY <1>2, <1>3, <1>4 DEF WebInv

LEMMA EndKeeps == ASSUME WebInv, NEW s \in Sessions, End(s) PROVE WebInv'
<1>1. /\ s \in live /\ live' = live \ {s} /\ astray' = astray \ {s}
      /\ jar' = Aged(jar, {s}) /\ cache' = [t \in Tabs |-> Aged(cache[t], {s})]
      /\ call' = Age({s}, {s}) /\ promise' = promise
  BY DEF End, Delete
<1>2. jar \in Token /\ live \subseteq Sessions /\ astray \subseteq live
      /\ cache \in [Tabs -> Token] /\ promise \in [Tabs -> Calls \union {None}]
      /\ (jar \in Sessions => jar \in live)
  BY DEF WebInv, TypeOK, Tokens
<1>3. ASSUME NEW d \in Calls
      PROVE  /\ By(call'[d], call[d], {s}, {s}, FALSE)
             /\ Shape(call'[d]) /\ Held(call'[d], live') /\ Calm(call'[d], jar')
  <2>1. PICK q \in Call : q = call[d] /\ By(call'[d], q, {s}, {s}, FALSE)
    <3>1. By(call'[d], call[d], {s}, {s}, FALSE)
      BY <1>1, AgeBy
    <3>. QED
      BY <3>1 DEF WebInv, TypeOK
  <2>2. Shape(q) /\ Held(q, live) /\ Calm(q, jar)
    BY <2>1 DEF WebInv, Shapes, Tokens, Calms
  <2>3. Shape(call'[d])
    BY <2>1, <2>2, ShapeBy
  <2>4. Held(call'[d], live')
    BY <1>1, <2>1, <2>2, HeldBy
  <2>5. Calm(call'[d], jar')
    BY <1>1, <2>1, <2>2, CalmBy
  <2>. QED
    BY <2>1, <2>3, <2>4, <2>5
<1>4. \A d \in Calls :
         /\ call'[d] \in Call
         /\ call'[d].set = Aged(call[d].set, {s}) /\ call'[d].cookie = Aged(call[d].cookie, {s})
         /\ call'[d].pc = call[d].pc /\ call'[d].tab = call[d].tab
         /\ call'[d].fetching = call[d].fetching /\ call'[d].awaits = call[d].awaits
  BY <1>3 DEF By
<1>5. TypeOK'
  <2>1. jar' \in Token /\ cache' \in [Tabs -> Token]
    BY <1>1, <1>2, AgedToken
  <2>2. call' \in [Calls -> Call]
    BY <1>1, <1>4 DEF Age
  <2>. QED
    BY <1>1, <1>2, <2>1, <2>2 DEF TypeOK
<1>6. Shapes' /\ Calms'
  BY <1>3 DEF Shapes, Calms
<1>7. Tokens'
  BY <1>1, <1>2, <1>3, Disjoint DEF Tokens, Aged
<1>8. Unique'
  <2>. SUFFICES ASSUME NEW c \in Calls, call'[c].set \in Sessions
                PROVE  /\ jar' # call'[c].set
                       /\ \A d \in Calls \ {c} : /\ call'[d].set # call'[c].set
                                                 /\ call'[d].cookie # call'[c].set
    BY DEF Unique
  <2>1. call'[c].set = call[c].set
    BY <1>4, Disjoint DEF Aged
  <2>2. jar' # call'[c].set
    BY <1>1, <2>1, Disjoint DEF WebInv, Unique, Aged
  <2>. QED
    BY <1>4, <2>1, <2>2, Disjoint DEF WebInv, Unique, Aged
<1>9. CookieKept'
  <2>. SUFFICES ASSUME NEW r \in live' \ astray'
                PROVE  jar' = r \/ \E d \in Calls : call'[d].set = r
    BY DEF CookieKept
  <2>1. r \in live \ astray /\ r # s
    BY <1>1
  <2>2. jar = r \/ \E d \in Calls : call[d].set = r
    BY <2>1 DEF WebInv, CookieKept
  <2>. QED
    BY <1>1, <1>4, <2>1, <2>2 DEF Aged
<1>10. Promises'
  BY <1>1, <1>2, <1>4 DEF WebInv, Promises
<1>11. WaitsForFetch'
  <2>1. \A d \in Calls : call[d].pc = "join" => call[d].awaits \in Calls
    BY DEF WebInv, TypeOK, Shapes, Shape, Call
  <2>. QED
    BY <1>4, <2>1 DEF WebInv, WaitsForFetch
<1>. QED
  BY <1>5, <1>6, <1>7, <1>8, <1>9, <1>10, <1>11 DEF WebInv

LEMMA StartKeeps ==
    ASSUME WebInv, NEW c \in Calls, NEW t \in Tabs, NEW k \in Kinds, Start(c, t, k)
    PROVE  WebInv'
<1>. DEFINE q == [Idle EXCEPT !.tab = t, !.kind = k]
            h == [q EXCEPT !.header = cache[t]]
            w == [q EXCEPT !.pc = "join", !.awaits = promise[t]]
<1>1. /\ call[c].pc = "idle" /\ UNCHANGED <<live, astray, jar, cache>>
      /\ \/ /\ k \notin Guarded
            /\ call' = [call EXCEPT ![c] = Request(q, FALSE, jar)]
            /\ UNCHANGED promise
         \/ /\ k \in Guarded /\ cache[t] # NoToken
            /\ call' = [call EXCEPT ![c] = Request(h, FALSE, jar)]
            /\ UNCHANGED promise
         \/ /\ k \in Guarded /\ promise[t] # None
            /\ call' = [call EXCEPT ![c] = w]
            /\ UNCHANGED promise
         \/ /\ k \in Guarded
            /\ promise' = [promise EXCEPT ![t] = c]
            /\ call' = [call EXCEPT ![c] = Request(q, TRUE, jar)]
  BY DEF Start
<1>2. /\ jar \in Token /\ live \subseteq Sessions /\ astray \subseteq live
      /\ cache[t] \in Token /\ promise \in [Tabs -> Calls \union {None}]
      /\ (jar \in Sessions => jar \in live)
      /\ call[c].set = "keep" /\ ~call[c].fetching
  BY <1>1 DEF WebInv, TypeOK, Tokens, Shapes, Shape
<1>3. /\ q \in Call /\ q.pc = "idle" /\ q.tab = t /\ q.kind = k /\ q.header = NoToken
      /\ q.effect = "none" /\ ~q.again /\ ~q.troubled /\ ~q.fetching /\ q.set = "keep"
      /\ q.cookie = NoToken /\ q.user = NoToken /\ ~q.csrfOk
  BY IdleFields DEF Call
<1>. HIDE DEF q
<1>4. /\ h \in Call /\ h.tab = t /\ h.kind = k /\ h.effect = "none" /\ ~h.again
  <2>1. h \in Call
    BY <1>2, <1>3 DEF Call
  <2>. QED
    BY <1>3, <2>1 DEF Call
<1>5. promise[t] # None =>
         /\ w \in Call /\ w.pc = "join" /\ w.tab = t /\ w.kind = k /\ w.header = NoToken
         /\ w.effect = "none" /\ ~w.again /\ ~w.fetching /\ w.set = "keep"
         /\ w.cookie = NoToken /\ w.awaits = promise[t] /\ w.user = NoToken /\ ~w.csrfOk
  <2>1. w \in Call
    BY <1>2, <1>3 DEF Call
  <2>. QED
    BY <1>3, <2>1 DEF Call
<1>. HIDE DEF h, w
<1>6. ASSUME NEW p \in Call, call' = [call EXCEPT ![c] = p],
             Turn(p, call[c], live, jar), p.set = "keep", p.tab = t,
             promise' = promise \/ (promise' = [promise EXCEPT ![t] = c] /\ p.fetching),
             p.pc = "join" => p.awaits = promise[t] /\ promise[t] # None
      PROVE  WebInv'
  <2>1. call'[c] = p /\ \A d \in Calls \ {c} : call'[d] = call[d]
    BY <1>6 DEF WebInv, TypeOK
  <2>2. ASSUME NEW d \in Calls PROVE Turn(call'[d], call[d], live, jar')
    <3>1. CASE d = c
      BY <1>1, <1>6, <2>1, <3>1
    <3>2. CASE d # c
      <4>1. PICK r \in Call : r = call[d] /\ call'[d] = r
        BY <2>1, <3>2 DEF WebInv, TypeOK
      <4>2. Shape(r) /\ Held(r, live) /\ Calm(r, jar)
        BY <4>1 DEF WebInv, Shapes, Tokens, Calms
      <4>3. By(r, r, {}, {}, FALSE)
        BY BySame
      <4>4. Turn(r, r, live, jar')
        BY <1>1, <4>2, <4>3, TurnBy
      <4>. QED
        BY <4>1, <4>4
    <3>. QED
      BY <3>1, <3>2
  <2>3. \A d \in Calls : call'[d].set = call[d].set
    BY <1>2, <1>6, <2>1
  <2>4. jar' \in Sessions => jar' \in live /\ \A d \in Calls : call'[d].set # jar'
    BY <1>1, <1>2, <2>3 DEF WebInv, Unique
  <2>5. Shapes' /\ Tokens' /\ Unique' /\ Calms'
    BY <1>1, <2>2, <2>4, TurnsKeep
  <2>6. CookieKept'
    BY <1>1, <2>3 DEF WebInv, CookieKept
  <2>7. TypeOK'
    BY <1>1, <1>6 DEF WebInv, TypeOK
  <2>8. promise[t] # None => /\ promise[t] \in Calls /\ call[promise[t]].fetching
                             /\ call[promise[t]].tab = t
    BY <1>2 DEF WebInv, Promises
  <2>9. \A u \in Tabs : \/ promise'[u] \in {promise[u], None}
                        \/ promise'[u] = c /\ call'[c].fetching /\ call'[c].tab = u
    BY <1>2, <1>6, <2>1
  <2>10. Promises' /\ WaitsForFetch'
    BY <1>2, <1>6, <2>1, <2>8, <2>9, OthersWait
  <2>. QED
    BY <2>5, <2>6, <2>7, <2>10 DEF WebInv
<1>7. CASE /\ k \notin Guarded
           /\ call' = [call EXCEPT ![c] = Request(q, FALSE, jar)]
           /\ UNCHANGED promise
  <2>. DEFINE p == Request(q, FALSE, jar)
  <2>1. Sends(p, q, jar) /\ ~p.fetching
    BY <1>2, <1>3, SendsOther
  <2>. HIDE DEF p
  <2>2. Turn(p, call[c], live, jar)
    BY <1>2, <1>3, <2>1, TurnSent
  <2>3. p \in Call /\ p.set = "keep" /\ p.tab = t /\ p.pc = "sent"
    BY <1>3, <2>1 DEF Sends
  <2>4. call' = [call EXCEPT ![c] = p]
    BY <1>7 DEF p
  <2>. QED
    BY <1>6, <1>7, <2>2, <2>3, <2>4
<1>8. CASE /\ k \in Guarded
           /\ call' = [call EXCEPT ![c] = Request(h, FALSE, jar)]
           /\ UNCHANGED promise
  <2>. DEFINE p == Request(h, FALSE, jar)
  <2>1. Sends(p, h, jar) /\ ~p.fetching
    BY <1>2, <1>4, SendsOther
  <2>. HIDE DEF p
  <2>2. Turn(p, call[c], live, jar)
    <3>1. h.kind \notin SignsIn
      BY <1>4, <1>8 DEF Guarded, SignsIn
    <3>. QED
      BY <1>2, <1>4, <2>1, <3>1, TurnSent
  <2>3. p \in Call /\ p.set = "keep" /\ p.tab = t /\ p.pc = "sent"
    BY <1>4, <2>1 DEF Sends
  <2>4. call' = [call EXCEPT ![c] = p]
    BY <1>8 DEF p
  <2>. QED
    BY <1>6, <1>8, <2>2, <2>3, <2>4
<1>9. CASE /\ k \in Guarded /\ promise[t] # None
           /\ call' = [call EXCEPT ![c] = w]
           /\ UNCHANGED promise
  <2>1. Shape(w)
    BY <1>2, <1>5, <1>9 DEF Shape
  <2>2. Held(w, live)
    BY <1>5, <1>9, Disjoint DEF Held
  <2>3. Calm(w, jar)
    BY <1>5, <1>9 DEF Calm
  <2>4. Turn(w, call[c], live, jar)
    BY <1>5, <1>9, <2>1, <2>2, <2>3 DEF Turn
  <2>. QED
    BY <1>5, <1>6, <1>9, <2>4
<1>10. CASE /\ k \in Guarded
            /\ promise' = [promise EXCEPT ![t] = c]
            /\ call' = [call EXCEPT ![c] = Request(q, TRUE, jar)]
  <2>. DEFINE p == Request(q, TRUE, jar)
  <2>1. Sends(p, q, jar) /\ p.fetching
    BY <1>2, <1>3, SendsFetch
  <2>. HIDE DEF p
  <2>2. Turn(p, call[c], live, jar)
    BY <1>2, <1>3, <1>10, <2>1, TurnSent
  <2>3. p \in Call /\ p.set = "keep" /\ p.tab = t /\ p.pc = "sent"
    BY <1>3, <2>1 DEF Sends
  <2>4. call' = [call EXCEPT ![c] = p]
    BY <1>10 DEF p
  <2>. QED
    BY <1>6, <1>10, <2>1, <2>2, <2>3, <2>4
<1>. QED
  BY <1>1, <1>7, <1>8, <1>9, <1>10

-----------------------------------------------------------------------------

LEMMA WebInit == Init => WebInv
<1>. SUFFICES ASSUME Init PROVE WebInv
  OBVIOUS
<1>1. /\ live = {} /\ astray = {} /\ jar = NoToken /\ \A c \in Calls : call[c] = Idle
      /\ \A t \in Tabs : promise[t] = None
  BY DEF Init
<1>2. TypeOK
  BY IdleFields DEF Init, TypeOK, Token
<1>3. Shapes
  BY <1>1, IdleFields DEF Shapes, Shape, SignsIn, Guarded
<1>4. Tokens /\ Unique
  BY <1>1, IdleFields, Disjoint DEF Tokens, Held, Unique
<1>5. Calms
  BY <1>1, IdleFields DEF Calms, Calm
<1>6. Promises /\ CookieKept /\ WaitsForFetch
  BY <1>1, IdleFields DEF Promises, CookieKept, WaitsForFetch
<1>. QED
  BY <1>2, <1>3, <1>4, <1>5, <1>6 DEF WebInv

LEMMA WebStep == WebInv /\ [Next]_vars => WebInv'
<1>. SUFFICES ASSUME WebInv, [Next]_vars PROVE WebInv'
  OBVIOUS
<1>1. ASSUME NEW c \in Calls, Serve(c) PROVE WebInv'
  BY <1>1, LookupKeeps, RotateKeeps, RefuseKeeps, IssueKeeps, SaveKeeps, PageKeeps,
     LogoutKeeps, LoginKeeps DEF Serve
<1>2. ASSUME NEW c \in Calls, Arrive(c) PROVE WebInv'
  BY <1>2, FetchedKeeps, FetchFailsKeeps, RetryKeeps, FinishKeeps DEF Arrive
<1>3. CASE UNCHANGED vars
  BY <1>3 DEF vars, WebInv, TypeOK, Shapes, Tokens, Unique, Promises, Calms, CookieKept,
              WaitsForFetch
<1>. QED
  BY <1>1, <1>2, <1>3, LoseKeeps, StartKeeps, ReloadKeeps, EndKeeps DEF Next

LEMMA WebSafe == Spec => []WebInv
BY WebInit, WebStep, PTL DEF Spec

\* The jar, the caches and every request hold tokens, and promises are calls
\* (client-api.ts).
THEOREM TypeCorrect == Spec => []TypeOK
<1>1. WebInv => TypeOK
  BY DEF WebInv
<1>. QED
  BY <1>1, WebSafe, PTL

\* However often a request is refused, retried or lost, a call of executeMutation
\* makes its handler run once at most: a second run follows only an answer that
\* the CSRF middleware gave before the handler.
THEOREM RunsOnce == Spec => []HandlerRunsOnce
<1>1. WebInv => HandlerRunsOnce
  BY DEF WebInv, Shapes, Shape, HandlerRunsOnce
<1>. QED
  BY <1>1, WebSafe, PTL

\* Whatever the tabs do, the second run of executeMutation is refused for its CSRF
\* token only if, since its fetch began, another call was issued a token of the
\* session or changed the cookie.
THEOREM RefusedIfTroubled == Spec => []RefusedTwiceOnlyIfTroubled
<1>1. WebInv => RefusedTwiceOnlyIfTroubled
  BY DEF WebInv, Calms, Calm, RefusedTwiceOnlyIfTroubled
<1>. QED
  BY <1>1, WebSafe, PTL

\* No order in which the answers of the API arrive makes the browser lose a live
\* session, but for the reasons that astray names (resolveSessionContext,
\* SessionMiddleware, destroySession).
THEOREM CookieStays == Spec => []CookieKept
<1>1. WebInv => CookieKept
  BY DEF WebInv
<1>. QED
  BY <1>1, WebSafe, PTL

\* Whoever joins the fetch of fetchCsrfToken waits for one that is under way in its
\* own tab, even when a second run has replaced the promise.
THEOREM JoinsAreWoken == Spec => []WaitsForFetch
<1>1. WebInv => WaitsForFetch
  BY DEF WebInv
<1>. QED
  BY <1>1, WebSafe, PTL
=============================================================================
