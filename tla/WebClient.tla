----------------------------- MODULE WebClient -----------------------------
(***************************************************************************)
(* One browser and the API: the cookie jar that its tabs share, the CSRF   *)
(* token each tab caches, the requests of client-api.ts with the one retry *)
(* of executeMutation, pages that the web server renders with the          *)
(* browser's cookie, and, on the other side, the lookup, rotation and CSRF *)
(* check of the API.  Requests are served, answered and lost in any order. *)
(*                                                                         *)
(* The value of a cookie or CSRF token is the session whose row holds its  *)
(* hash now; one that no row holds any more is Old, for ever: tokens are   *)
(* random and never issued twice.  The sessions are those of one account.  *)
(***************************************************************************)
EXTENDS FiniteSets

CONSTANTS
    Tabs,       \* tabs of the browser: each has the variables of client-api.ts
    Sessions,   \* session rows
    Calls,      \* calls of the exported functions, and page loads, under way
    NoToken,    \* no cookie, no token
    Old,        \* a token that no row holds
    None        \* no promise, no tab

ASSUME TokenAssumption == NoToken \notin Sessions /\ Old \notin Sessions /\ NoToken # Old
ASSUME KeepAssumption == "keep" \notin Sessions \union {NoToken, Old}
ASSUME NoneAssumption == None \notin Calls \union Tabs

VARIABLES
    live,       \* the session rows
    astray,     \* history: sessions whose cookie is not in the jar for a known reason
    jar,        \* the session cookie of the browser
    cache,      \* cache[t]: csrfTokenCache
    promise,    \* promise[t]: csrfTokenPromise, as the call whose fetch it is
    call        \* call[c]: a call and the request it has under way

vars == <<live, astray, jar, cache, promise, call>>

Token == Sessions \union {NoToken, Old}

\* The functions of client-api.ts by what they ask of executeMutation, and a
\* page or a read that server-api.ts renders.
SignsIn == {"login"}                        \* signIn, signUp, resetPassword: no CSRF header
Guarded == {"save", "logout"}               \* sent with a CSRF token
ClearsAfter == {"login", "logout"}
Kinds == SignsIn \union Guarded \union {"page"}

Call == [ pc : {"idle", "join", "sent", "found", "handle", "answered"},
          tab : Tabs \union {None}, kind : Kinds,
          fetching : BOOLEAN,               \* the request is GET /auth/csrf
          again : BOOLEAN,                  \* run(true)
          awaits : Calls \union {None},     \* whose promise it waits for
          header : Token,                   \* x-csrf-token
          cookie : Token,                   \* the cookie of the request
          user : Sessions \union {NoToken}, \* request.currentSession
          csrfOk : BOOLEAN,                 \* the header matches what the lookup read
          set : Token \union {"keep"},      \* Set-Cookie of the answer; NoToken clears
          status : {"none", "ok", "csrf_invalid", "refused"},
          body : Token,                     \* csrfToken of the answer
          effect : {"none", "once", "twice"},   \* history: how often its handler has run
          troubled : BOOLEAN ]              \* history: see RefusedTwiceOnlyIfTroubled

TypeOK ==
    /\ live \subseteq Sessions /\ astray \subseteq live
    /\ jar \in Token
    /\ cache \in [Tabs -> Token]
    /\ promise \in [Tabs -> Calls \union {None}]
    /\ call \in [Calls -> Call]

-----------------------------------------------------------------------------

Idle == [ pc |-> "idle", tab |-> None, kind |-> "page", fetching |-> FALSE,
          again |-> FALSE, awaits |-> None, header |-> NoToken, cookie |-> NoToken,
          user |-> NoToken, csrfOk |-> FALSE, set |-> "keep", status |-> "none",
          body |-> NoToken, effect |-> "none", troubled |-> FALSE ]

\* Call q sends a request with cookie j.
Request(q, fetching, j) ==
    [q EXCEPT !.pc = "sent", !.fetching = fetching, !.awaits = None, !.cookie = j,
              !.user = NoToken, !.csrfOk = FALSE, !.set = "keep", !.status = "none",
              !.body = NoToken]

Aged(x, S) == IF x \in S THEN Old ELSE x

\* The calls when the cookies of the sessions C, and the CSRF tokens of F, are no
\* longer the ones their rows hold.
Age(C, F) ==
    [c \in Calls |-> [call[c] EXCEPT !.cookie = Aged(@, C), !.set = Aged(@, C),
                                     !.header = Aged(@, F), !.body = Aged(@, F)]]

\* Rows of S are deleted.
Delete(S, calls) ==
    /\ live' = live \ S /\ astray' = astray \ S
    /\ jar' = Aged(jar, S)
    /\ cache' = [t \in Tabs |-> Aged(cache[t], S)]
    /\ call' = calls

\* The token the request is authenticated with still is the one of its session.
Current(c) == call[c].user \in live /\ call[c].cookie = call[c].user

More(e) == IF e = "none" THEN "once" ELSE "twice"

-----------------------------------------------------------------------------

Init == /\ live = {} /\ astray = {}
        /\ jar = NoToken
        /\ cache = [t \in Tabs |-> NoToken]
        /\ promise = [t \in Tabs |-> None]
        /\ call = [c \in Calls |-> Idle]

\* A function is called or a page is loaded.  fetchCsrfToken(false) takes the
\* cached token, joins the fetch under way, or starts one.
Start(c, t, k) ==
    /\ call[c].pc = "idle"
    /\ LET q == [Idle EXCEPT !.tab = t, !.kind = k] IN
       \/ /\ k \notin Guarded
          /\ call' = [call EXCEPT ![c] = Request(q, FALSE, jar)]
          /\ UNCHANGED promise
       \/ /\ k \in Guarded /\ cache[t] # NoToken
          /\ call' = [call EXCEPT ![c] = Request([q EXCEPT !.header = cache[t]], FALSE, jar)]
          /\ UNCHANGED promise
       \/ /\ k \in Guarded /\ cache[t] = NoToken /\ promise[t] # None
          /\ call' = [call EXCEPT ![c] = [q EXCEPT !.pc = "join", !.awaits = promise[t]]]
          /\ UNCHANGED promise
       \/ /\ k \in Guarded /\ cache[t] = NoToken /\ promise[t] = None
          /\ promise' = [promise EXCEPT ![t] = c]
          /\ call' = [call EXCEPT ![c] = Request(q, TRUE, jar)]
    /\ UNCHANGED <<live, astray, jar, cache>>

-----------------------------------------------------------------------------
\* The API

\* SessionMiddleware: a cookie that selects no row is cleared.  The CSRF hash is
\* read with the session, whatever is issued afterwards.  A session found when
\* SESSION_ROTATION_MS have passed is rotated.
Lookup(c) ==
    /\ call[c].pc = "sent"
    /\ LET s == call[c].cookie IN
       \E due \in BOOLEAN :
          /\ due => s \in live
          /\ call' = [call EXCEPT ![c].pc = IF due THEN "found" ELSE "handle",
                                 ![c].user = IF s \in live THEN s ELSE NoToken,
                                 ![c].csrfOk = s \in live /\ call[c].header = s,
                                 ![c].header = NoToken,
                                 ![c].set = IF s = Old THEN NoToken ELSE "keep"]
    /\ UNCHANGED <<live, astray, jar, cache, promise>>

MatchesSlip(c) == call[c].user \in live

\* updateMany: where id and tokenHash are those of the lookup.
Matches(c) == call[c].cookie = call[c].user

\* The rotation: the jar holds the token that is replaced, the answer the new one.
Rotate(c) ==
    /\ call[c].pc = "found"
    /\ IF Matches(c)
       THEN /\ call' = [Age({call[c].user}, {}) EXCEPT ![c].pc = "handle",
                                                       ![c].cookie = call[c].user,
                                                       ![c].set = call[c].user]
            /\ jar' = Aged(jar, {call[c].user})
       ELSE call' = [call EXCEPT ![c].pc = "handle"] /\ UNCHANGED jar
    /\ UNCHANGED <<live, astray, cache, promise>>

\* CsrfMiddleware: GET passes, anonymous passes, sign-in with a session does not.
CsrfRefuses(q) == ~q.fetching /\ q.kind # "page" /\ q.user # NoToken /\ ~q.csrfOk

NeedsSession(q) == q.fetching \/ q.kind \notin SignsIn

Handles(c) == /\ call[c].pc = "handle"
              /\ ~CsrfRefuses(call[c])
              /\ NeedsSession(call[c]) => call[c].user # NoToken

Answered(calls, c, status) ==
    [calls EXCEPT ![c].pc = "answered", ![c].status = status, ![c].cookie = NoToken,
                  ![c].csrfOk = FALSE, ![c].user = IF calls[c].set = "keep" THEN NoToken ELSE @]

Answer(c, status) == Answered(call, c, status)

\* 403 csrf_invalid; or any other refusal or failure before the handler does
\* anything: guards, throttling, validation, a policy.
Refuse(c) ==
    /\ call[c].pc = "handle"
    /\ call' = Answer(c, IF CsrfRefuses(call[c]) THEN "csrf_invalid" ELSE "refused")
    /\ UNCHANGED <<live, astray, jar, cache, promise>>

\* issueCsrfToken replaces the hash by the id of the session; it fails if the
\* session is gone.
IssueCsrf(c) ==
    /\ Handles(c) /\ call[c].fetching /\ call[c].user \in live
    /\ LET s == call[c].user  aged == Answered(Age({}, {s}), c, "ok") IN
       /\ cache' = [t \in Tabs |-> Aged(cache[t], {s})]
       /\ call' = [d \in Calls |-> IF d = c THEN [aged[c] EXCEPT !.body = s]
                                   ELSE [aged[d] EXCEPT !.troubled = @ \/ aged[d].again]]
    /\ UNCHANGED <<live, astray, jar, promise>>

\* A handler with an effect: it may still fail after it.
Save(c) ==
    /\ Handles(c) /\ ~call[c].fetching /\ call[c].kind = "save"
    /\ \E status \in {"ok", "refused"} :
          call' = [Answer(c, status) EXCEPT ![c].effect = More(@)]
    /\ UNCHANGED <<live, astray, jar, cache, promise>>

\* A page reads with the session of the browser.
Page(c) ==
    /\ Handles(c) /\ call[c].kind = "page"
    /\ call' = Answer(c, "ok")
    /\ UNCHANGED <<live, astray, jar, cache, promise>>

\* destroySession by the token of the request: a session whose token another
\* request has replaced stays.  The answer clears the cookie all the same.
Logout(c) ==
    /\ Handles(c) /\ ~call[c].fetching /\ call[c].kind = "logout"
    /\ LET gone == {s \in live : s = call[c].user /\ Current(c)}
           done == [Answered(Age(gone, gone), c, "ok") EXCEPT ![c].set = NoToken,
                                                              ![c].effect = More(@)] IN
       IF gone # {} THEN Delete(gone, done)
       ELSE /\ call' = done
            /\ astray' = astray \union ({call[c].user} \intersect live)
            /\ UNCHANGED <<live, jar, cache>>
    /\ UNCHANGED promise

\* createSession: a new row, whose CSRF token nobody has.
Login(c, s) ==
    /\ Handles(c) /\ call[c].kind \in SignsIn
    /\ s \notin live /\ \A d \in Calls : s # call[d].user
    /\ live' = live \union {s}
    /\ call' = [Answer(c, "ok") EXCEPT ![c].set = s, ![c].user = s, ![c].effect = More(@)]
    /\ UNCHANGED <<astray, jar, cache, promise>>

-----------------------------------------------------------------------------
\* The browser

\* What an arriving answer makes of the jar: that of a page goes to the web
\* server, which drops its Set-Cookie.
JarAfter(q) == IF q.kind = "page" \/ q.set = "keep" THEN jar ELSE q.set

\* An answer arrives.  A session loses the browser when a page has rotated its
\* token, or when an answer of no session or another one replaces its cookie.
Deliver(c) ==
    LET q == call[c] IN
    /\ q.pc = "answered"
    /\ jar' = JarAfter(q)
    /\ astray' = astray \union (live \intersect
                    ((IF q.kind = "page" THEN {q.set} ELSE {}) \union
                     (IF jar' # jar /\ (q.set = NoToken \/ q.user # jar) THEN {jar} ELSE {})))
    /\ UNCHANGED live

\* The calls after an answer to c, once those of S are over: nobody else has
\* touched them, but a changed jar troubles the second runs of others.
Rest(c, calls, S) ==
    [d \in Calls |-> IF d \in S THEN Idle
                     ELSE IF d = c THEN calls[c]
                     ELSE [calls[d] EXCEPT !.troubled = @ \/ (calls[d].again /\ jar' # jar)]]

Waiting(c) == {d \in Calls : call[d].pc = "join" /\ call[d].awaits = c}

NoPromise(c) == promise' = [promise EXCEPT ![call[c].tab] = None]

ResumedSlip(d, c) ==
    Request([call[d] EXCEPT !.header = IF call[d].again THEN NoToken ELSE call[c].body],
            FALSE, JarAfter(call[c]))

\* Call d goes on with the token that c has fetched.
Resumed(d, c) == Request([call[d] EXCEPT !.header = call[c].body], FALSE, JarAfter(call[c]))

\* The fetch resolves: its token is cached, whatever was fetched since, finally()
\* forgets the promise, whosever it is by now, and everybody who waits sends.
Fetched(c) ==
    /\ call[c].fetching /\ call[c].status = "ok"
    /\ Deliver(c)
    /\ cache' = [cache EXCEPT ![call[c].tab] = call[c].body]
    /\ NoPromise(c)
    /\ call' = Rest(c, [d \in Calls |->
                       IF d \in Waiting(c) \union {c} THEN Resumed(d, c) ELSE call[d]], {})

WokenSlip(c) == {c}

Woken(c) == Waiting(c) \union {c}

\* The fetch rejects, and so do the calls that wait for it.
FetchFails(c) ==
    /\ call[c].fetching /\ call[c].status # "ok"
    /\ Deliver(c)
    /\ NoPromise(c)
    /\ call' = Rest(c, call, Woken(c))
    /\ UNCHANGED cache

RetriesSlip(q) == q.status # "ok" /\ q.kind \in Guarded /\ ~q.again

\* executeMutation: one more run after csrf_invalid, and only after that.
Retries(q) == q.status = "csrf_invalid" /\ q.kind \in Guarded /\ ~q.again

\* run(true): a fetch of its own, even if another one is under way.
SecondRun(c) ==
    [call EXCEPT ![c] = Request([@ EXCEPT !.again = TRUE, !.troubled = FALSE], TRUE, JarAfter(@))]

Retry(c) ==
    /\ ~call[c].fetching /\ Retries(call[c])
    /\ Deliver(c)
    /\ cache' = [cache EXCEPT ![call[c].tab] = NoToken]
    /\ promise' = [promise EXCEPT ![call[c].tab] = c]
    /\ call' = Rest(c, SecondRun(c), {})

\* The caller is answered; clearCsrfToken where the function asks for it.
Finish(c) ==
    /\ ~call[c].fetching /\ ~Retries(call[c])
    /\ Deliver(c)
    /\ IF call[c].status = "ok" /\ call[c].kind \in ClearsAfter
       THEN cache' = [cache EXCEPT ![call[c].tab] = NoToken] /\ NoPromise(c)
       ELSE UNCHANGED <<cache, promise>>
    /\ call' = Rest(c, call, {c})

\* The request or its answer is lost: fetch() rejects.
Lose(c) ==
    /\ call[c].pc \in {"sent", "answered"}
    /\ astray' = astray \union (live \intersect {call[c].set})
    /\ IF call[c].fetching
       THEN NoPromise(c) /\ call' = [d \in Calls |-> IF d \in Woken(c) THEN Idle ELSE call[d]]
       ELSE call' = [call EXCEPT ![c] = Idle] /\ UNCHANGED promise
    /\ UNCHANGED <<live, jar, cache>>

\* A tab whose calls are over loads the application anew.
Reload(t) ==
    /\ \A c \in Calls : call[c].pc # "idle" => call[c].tab # t
    /\ cache[t] # NoToken
    /\ cache' = [cache EXCEPT ![t] = NoToken]
    /\ promise' = [promise EXCEPT ![t] = None]
    /\ UNCHANGED <<live, astray, jar, call>>

\* A session expires or is revoked from another device.
End(s) == s \in live /\ Delete({s}, Age({s}, {s})) /\ UNCHANGED promise

-----------------------------------------------------------------------------

Serve(c) == \/ Lookup(c) \/ Rotate(c) \/ Refuse(c) \/ IssueCsrf(c) \/ Save(c) \/ Page(c)
            \/ Logout(c) \/ \E s \in Sessions : Login(c, s)

Arrive(c) == Fetched(c) \/ FetchFails(c) \/ Retry(c) \/ Finish(c)

Next == \/ \E c \in Calls : \/ Serve(c) \/ Arrive(c) \/ Lose(c)
                            \/ \E t \in Tabs, k \in Kinds : Start(c, t, k)
        \/ \E t \in Tabs : Reload(t)
        \/ \E s \in Sessions : End(s)

Spec == Init /\ [][Next]_vars

-----------------------------------------------------------------------------

\* docs/web-hardening.md: 'Generic 403 responses must never trigger mutation
\* replay': whatever is answered, a call makes its handler run once at most.
HandlerRunsOnce == \A c \in Calls : call[c].effect # "twice"

\* A mutation is refused for its CSRF token although it has fetched one only if,
\* since then, another call has been issued a token or has changed the cookie:
\* tabs that use one session can disturb, but a call alone succeeds
\* (executeMutation, fetchCsrfToken, issueCsrfToken).
RefusedTwiceOnlyIfTroubled ==
    \A c \in Calls : call[c].again /\ ~call[c].fetching /\ call[c].status = "csrf_invalid" =>
        call[c].troubled

\* A session whose token is neither in the jar nor on its way was lost by a page
\* that rotated it, a lost answer, a logout that found another token, or an
\* answer of no or another session: no order of the answers to its own requests
\* loses it (resolveSessionContext, SessionMiddleware).
CookieKept ==
    \A s \in live \ astray : jar = s \/ \E c \in Calls : call[c].set = s

\* A call that has joined a fetch waits for one that is under way in its tab, so
\* that its end, good or bad, wakes it: nobody waits for ever (fetchCsrfToken).
WaitsForFetch ==
    \A c \in Calls : call[c].pc = "join" =>
        LET q == call[call[c].awaits] IN q.fetching /\ q.pc # "join" /\ q.tab = call[c].tab
=============================================================================
