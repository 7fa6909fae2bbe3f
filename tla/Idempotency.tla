---------------------------- MODULE Idempotency ----------------------------
(***************************************************************************)
(* The idempotency interceptor around one protected POST (signup, password *)
(* reset, project creation), for one value of the unique key (scope,       *)
(* Idempotency-Key, method, path): beginRequest, the handler,              *)
(* completeRequest or abandonRequest, and the cleanup of expired records.  *)
(* Records of other keys matter only as the backlog that a cleanup batch   *)
(* takes first.                                                            *)
(*                                                                         *)
(* Each prisma call is one step; calls may run in several processes, and   *)
(* any call may end at any step with its process.  The n-th record of the  *)
(* key is named n, and so is the one run of the handler it allows.         *)
(***************************************************************************)
EXTENDS Integers, Sequences, FiniteSets

CONSTANTS
    Calls,      \* concurrent requests with the key
    Payloads,   \* fingerprints: actor, body and parameters
    NoPayload,  \* none
    Batch,      \* IDEMPOTENCY_CLEANUP_BATCH_SIZE
    MaxRuns,    \* bound: records inserted for the key
    MaxAhead    \* bound: records of other keys that expired before this one

ASSUME CallsAssumption == IsFiniteSet(Calls)
ASSUME PayloadsAssumption == NoPayload \notin Payloads
ASSUME BatchAssumption == Batch \in Nat \ {0}
ASSUME BoundsAssumption == MaxRuns \in Nat /\ MaxAhead \in Nat

VARIABLES
    rec,        \* the record of the key; rec.id = 0 if there is none
    selected,   \* the id that a cleanup run has read and will delete (0: none)
    call,       \* call[c]: what request c holds
    ran,        \* ran[n]: the fingerprint of run n
    effects,    \* the runs whose effect is committed
    given,      \* history: the runs whose result a client was given as a success
    swept       \* history: the records that a cleanup removed

vars == <<rec, selected, call, ran, effects, given, swept>>

Record == [ id : 0..MaxRuns, fingerprint : Payloads \union {NoPayload},
            completed : BOOLEAN,        \* status
            over : BOOLEAN,             \* expiresAt < now
            ahead : 0..MaxAhead ]       \* expired records before it in the order of expiresAt

Call == [ pc : {"idle", "begin", "find", "run", "log", "complete", "abandon", "done"},
          fingerprint : Payloads \union {NoPayload},
          id : 0..MaxRuns,              \* recordId; of a success, the run it answers with
          answer : {"none", "new", "replay", "conflict", "error"} ]

TypeOK ==
    /\ rec \in Record
    /\ ran \in Seq(Payloads) /\ Len(ran) <= MaxRuns
    /\ selected \in 0..Len(ran) /\ rec.id \in 0..Len(ran)
    /\ call \in [Calls -> Call]
    /\ given \subseteq effects /\ effects \union swept \subseteq DOMAIN ran

-----------------------------------------------------------------------------

NoRecord == [id |-> 0, fingerprint |-> NoPayload, completed |-> FALSE, over |-> FALSE, ahead |-> 0]

NoCall == [pc |-> "idle", fingerprint |-> NoPayload, id |-> 0, answer |-> "none"]

\* The calls that may still insert a record.
Starting == {c \in Calls : call[c].pc = "begin"}

\* The calls whose handler is at work, or has returned without a trace so far.
Running == {c \in Calls : call[c].pc \in {"run", "log", "complete"}}

Goto(c, pc) == call' = [call EXCEPT ![c].pc = pc]

\* The caller gets the result of run n.
Succeed(c, answer, n) ==
    /\ call' = [call EXCEPT ![c].pc = "done", ![c].answer = answer, ![c].id = n]
    /\ given' = given \union {n}

\* The caller gets an error, or no answer at all.
Fail(c, answer) ==
    /\ call' = [call EXCEPT ![c] = [NoCall EXCEPT !.pc = "done", !.answer = answer]]
    /\ UNCHANGED given

-----------------------------------------------------------------------------

Init == /\ rec = NoRecord
        /\ selected = 0
        /\ call = [c \in Calls |-> NoCall]
        /\ ran = <<>>
        /\ effects = {} /\ given = {} /\ swept = {}

\* A request, or a retry, with this key.
Send(c, p) ==
    /\ call[c].pc = "idle"
    /\ Len(ran) + Cardinality(Starting) < MaxRuns
    /\ call' = [call EXCEPT ![c].pc = "begin", ![c].fingerprint = p]
    /\ UNCHANGED <<rec, selected, ran, effects, given, swept>>

\* Slips next to the code: what a plausible bug would make of the operator that
\* follows, kept to see that a property notices.
BeginSlip(c) ==
    /\ call[c].pc = "begin"
    /\ \/ /\ rec.id = 0 \/ rec.over
          /\ rec' = [NoRecord EXCEPT !.id = Len(ran) + 1, !.fingerprint = call[c].fingerprint]
          /\ ran' = Append(ran, call[c].fingerprint)
          /\ call' = [call EXCEPT ![c].pc = "run", ![c].id = Len(ran) + 1]
       \/ rec.id # 0 /\ ~rec.over /\ Goto(c, "find") /\ UNCHANGED <<rec, ran>>
    /\ UNCHANGED <<selected, effects, given, swept>>

\* idempotencyRequest.create: the unique key admits one record, expired or not.
Begin(c) ==
    /\ call[c].pc = "begin"
    /\ \/ /\ rec.id = 0
          /\ rec' = [NoRecord EXCEPT !.id = Len(ran) + 1, !.fingerprint = call[c].fingerprint]
          /\ ran' = Append(ran, call[c].fingerprint)
          /\ call' = [call EXCEPT ![c].pc = "run", ![c].id = Len(ran) + 1]
       \/ rec.id # 0 /\ Goto(c, "find") /\ UNCHANGED <<rec, ran>>
    /\ UNCHANGED <<selected, effects, given, swept>>

FindSlip(c) ==
    /\ call[c].pc = "find"
    /\ IF rec.id # 0 /\ rec.completed
       THEN Succeed(c, "replay", rec.id)
       ELSE Fail(c, "conflict")
    /\ UNCHANGED <<rec, selected, ran, effects, swept>>

\* findUnique after P2002: a replay of the stored response, or a conflict when
\* the record has gone, is for another payload, or is still pending.
Find(c) ==
    /\ call[c].pc = "find"
    /\ IF rec.id # 0 /\ rec.fingerprint = call[c].fingerprint /\ rec.completed
       THEN Succeed(c, "replay", rec.id)
       ELSE Fail(c, "conflict")
    /\ UNCHANGED <<rec, selected, ran, effects, swept>>

\* The handler commits its effect (user, password or project row), ...
Effect(c) ==
    /\ call[c].pc = "run"
    /\ effects' = effects \union {call[c].id}
    /\ Goto(c, "log")
    /\ UNCHANGED <<rec, selected, ran, given, swept>>

\* ... then writes its audit entry, and a session where it logs the user in.
Log(c) ==
    /\ call[c].pc = "log"
    /\ Goto(c, "complete")
    /\ UNCHANGED <<rec, selected, ran, effects, given, swept>>

\* Either may throw: catchError abandons the record.
Throw(c) ==
    /\ call[c].pc \in {"run", "log"}
    /\ Goto(c, "abandon")
    /\ UNCHANGED <<rec, selected, ran, effects, given, swept>>

\* completeRequest: update where id, which throws if the record has gone.
Complete(c) ==
    /\ call[c].pc = "complete"
    /\ \/ /\ rec.id = call[c].id
          /\ rec' = [rec EXCEPT !.completed = TRUE]
          /\ Succeed(c, "new", call[c].id)
       \/ rec.id # call[c].id /\ Goto(c, "abandon") /\ UNCHANGED <<rec, given>>
    /\ UNCHANGED <<selected, ran, effects, swept>>

\* The update fails, or is done but its answer is lost: catchError is reached.
CompleteFails(c) ==
    /\ call[c].pc = "complete"
    /\ rec' \in {rec, IF rec.id = call[c].id THEN [rec EXCEPT !.completed = TRUE] ELSE rec}
    /\ Goto(c, "abandon")
    /\ UNCHANGED <<selected, ran, effects, given, swept>>

AbandonSlip(c) ==
    /\ call[c].pc = "abandon"
    /\ rec' = IF ~rec.completed THEN NoRecord ELSE rec
    /\ Fail(c, "error")
    /\ UNCHANGED <<selected, ran, effects, swept>>

AbandonUnchecked(c) ==
    /\ call[c].pc = "abandon"
    /\ rec' = IF rec.id = call[c].id THEN NoRecord ELSE rec
    /\ Fail(c, "error")
    /\ UNCHANGED <<selected, ran, effects, swept>>

\* abandonRequest: deleteMany where id and status = pending, then the error.
Abandon(c) ==
    /\ call[c].pc = "abandon"
    /\ rec' = IF rec.id = call[c].id /\ ~rec.completed THEN NoRecord ELSE rec
    /\ Fail(c, "error")
    /\ UNCHANGED <<selected, ran, effects, swept>>

\* The process ends, or a database call before or in abandonRequest fails: what
\* was written stays.
Crash(c) ==
    /\ call[c].pc \notin {"idle", "done"}
    /\ Fail(c, "error")
    /\ UNCHANGED <<rec, selected, ran, effects, swept>>

\* The client may send the request again.
Forget(c) ==
    /\ call[c].pc = "done"
    /\ call' = [call EXCEPT ![c] = NoCall]
    /\ UNCHANGED <<rec, selected, ran, effects, given, swept>>

-----------------------------------------------------------------------------

\* expiresAt passes; k records of other keys expired before and are still there.
Expire(k) ==
    /\ rec.id # 0 /\ ~rec.over
    /\ rec' = [rec EXCEPT !.over = TRUE, !.ahead = k]
    /\ UNCHANGED <<selected, call, ran, effects, given, swept>>

SweepFindSlip ==
    /\ rec.over /\ selected = 0
    /\ \/ rec.ahead < Batch /\ selected' = rec.id /\ UNCHANGED rec
       \/ rec.ahead >= Batch /\ UNCHANGED <<rec, selected>>
    /\ UNCHANGED <<call, ran, effects, given, swept>>

\* cleanupExpiredRequests reads the ids of the Batch records that expired first;
\* the batch is either all ahead of this record, or takes it along.
SweepFind ==
    /\ rec.over /\ selected = 0
    /\ \/ rec.ahead < Batch /\ selected' = rec.id /\ UNCHANGED rec
       \/ /\ rec.ahead >= Batch
          /\ rec' = [rec EXCEPT !.ahead = @ - Batch]
          /\ UNCHANGED selected
    /\ UNCHANGED <<call, ran, effects, given, swept>>

\* deleteMany of those ids.
SweepDelete ==
    /\ selected # 0
    /\ IF rec.id = selected
       THEN rec' = NoRecord /\ swept' = swept \union {selected}
       ELSE UNCHANGED <<rec, swept>>
    /\ selected' = 0
    /\ UNCHANGED <<call, ran, effects, given>>

-----------------------------------------------------------------------------

\* The steps that the server takes for a request.
Serve(c) == \/ Begin(c) \/ Find(c) \/ Effect(c) \/ Log(c) \/ Throw(c) \/ Complete(c)
            \/ CompleteFails(c) \/ Abandon(c) \/ Crash(c)

Expiry == \E k \in 0..MaxAhead : Expire(k)

Next == \/ \E c \in Calls : Serve(c) \/ Forget(c) \/ \E p \in Payloads : Send(c, p)
        \/ Expiry \/ SweepFind \/ SweepDelete

Spec == Init /\ [][Next]_vars

\* Time passes, the cleanup runs at an interval, and what it has read it deletes.
FairSpec == Spec /\ WF_vars(Expiry) /\ WF_vars(SweepFind) /\ WF_vars(SweepDelete)

-----------------------------------------------------------------------------

\* Two handlers run for one key at the same time only when a cleanup removed the
\* record of the first (beginRequest, abandonRequest).
OneRunAtATime ==
    \A c, d \in Running : call[c].id < call[d].id => call[c].id \in swept

\* As long as no cleanup removes its record, a result that was given to a client
\* is the only one given for the key: retries replay it.
ResultsAgree == \A m, n \in given : m < n => m \in swept

\* A success, first or replayed, answers the payload of the caller with a
\* run of this very payload whose effect is there.
AnswerMatchesPayload ==
    \A c \in Calls : call[c].answer \in {"new", "replay"} =>
        call[c].id \in effects /\ ran[call[c].id] = call[c].fingerprint

\* No record blocks its key for ever, that of a crashed call included.
KeyIsFreed == \A n \in 1..MaxRuns : rec.id = n ~> rec.id # n
=============================================================================
