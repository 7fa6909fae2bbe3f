----------------------------- MODULE AuditChain -----------------------------
(***************************************************************************)
(* The hash chain of the audit log: AuditService.log, called by every      *)
(* module, and the retention cleanup that removes old entries.             *)
(*                                                                         *)
(* log() runs a serializable transaction that reads the head of the log,   *)
(* the first entry by createdAt and id descending, and inserts an entry    *)
(* with the hash of the head; a conflict (P2034) repeats it, three times   *)
(* at most.  A hash stands for the entry it is computed from.              *)
(*                                                                         *)
(* createdAt is a default of the database or of the query engine: a clock  *)
(* reading in milliseconds between the start of the transaction and its    *)
(* insert, up to Skew ticks behind for a process whose clock lags.  Ids    *)
(* are cuids, whose order within a millisecond means nothing.  The         *)
(* database is external: of two concurrent serializable transactions that  *)
(* would each change the head that the other has read, at most one         *)
(* commits.  It may abort one for less (Abort).                            *)
(***************************************************************************)
EXTENDS Clock, Integers, FiniteSets

CONSTANTS
    Writers,        \* concurrent calls of log()
    Ids,            \* ids of entries, positive numbers in their order
    MaxAttempts     \* the attempts of one call (3 in the code)

ASSUME IdsAssumption == Ids \subseteq Nat \ {0} /\ IsFiniteSet(Ids)
ASSUME AttemptsAssumption == MaxAttempts \in Nat \ {0}

VARIABLES
    log,        \* the entries in the table
    tx          \* tx[w]: the call of writer w

chainVars == <<log, now, tx>>

\* The place of an entry in the order of the head query.
EntryKey == [at : (-Skew)..MaxNow, id : Ids \union {0}]

NoKey == [at |-> -Skew, id |-> 0]       \* no entry: previousHash is null

Entry == [key : EntryKey, prev : EntryKey, held : BOOLEAN] \* held: legalHold

Tx == [ pc : {"idle", "begin", "read", "insert"},
        attempt : 1..MaxAttempts,
        began : 0..MaxNow,          \* when the transaction began
        head : EntryKey,            \* previousEntry
        since : SUBSET Entry ]      \* the entries committed since its snapshot

Before(k, m) == k.at < m.at \/ (k.at = m.at /\ k.id < m.id)

ChainTypeOK ==
    /\ log \subseteq Entry
    /\ \A e, f \in log : e.key.id = f.key.id => e = f
    /\ now \in 0..MaxNow
    /\ tx \in [Writers -> Tx]

-----------------------------------------------------------------------------

NoTx == [pc |-> "idle", attempt |-> 1, began |-> 0, head |-> NoKey, since |-> {}]

\* findFirst with orderBy createdAt desc, id desc
Head == IF log = {} THEN NoKey
        ELSE CHOOSE k \in {e.key : e \in log} : \A e \in log : ~Before(k, e.key)

\* Serializable isolation: an entry committed since w's snapshot comes after the
\* head that w has read, and w's entry k after the one which that entry followed.
Excluded(w, k) ==
    \E e \in tx[w].since : Before(tx[w].head, e.key) /\ Before(e.prev, k)

\* cuid(): unused, by the entries in the table and by what others refer to.
FreshIds == Ids \ ({e.key.id : e \in log} \union {e.prev.id : e \in log}
                   \union UNION {{tx[w].head.id} \union {e.key.id : e \in tx[w].since}
                                                 \union {e.prev.id : e \in tx[w].since}
                                 : w \in Writers})

-----------------------------------------------------------------------------

ChainInit == log = {} /\ now = 0 /\ tx = [w \in Writers |-> NoTx]

\* log() is called.
Call(w) ==
    /\ tx[w].pc = "idle"
    /\ tx' = [tx EXCEPT ![w].pc = "begin"]
    /\ UNCHANGED <<log, now>>

\* BEGIN
Begin(w) ==
    /\ tx[w].pc = "begin"
    /\ tx' = [tx EXCEPT ![w].pc = "read", ![w].began = now]
    /\ UNCHANGED <<log, now>>

\* The first statement takes the snapshot and reads the head.
Read(w) ==
    /\ tx[w].pc = "read"
    /\ tx' = [tx EXCEPT ![w].pc = "insert", ![w].head = Head]
    /\ UNCHANGED <<log, now>>

\* The insert and the commit.
Commit(w, at, id, held) ==
    /\ tx[w].pc = "insert"
    /\ id \in FreshIds
    /\ at \in (tx[w].began - Skew)..now
    /\ LET entry == [key |-> [at |-> at, id |-> id], prev |-> tx[w].head, held |-> held] IN
       /\ ~Excluded(w, entry.key)
       /\ log' = log \union {entry}
       /\ tx' = [v \in Writers |-> IF v = w THEN NoTx
                                   ELSE IF tx[v].pc = "insert"
                                   THEN [tx[v] EXCEPT !.since = @ \union {entry}]
                                   ELSE tx[v]]
    /\ UNCHANGED now

\* Slips next to the code: what a plausible bug would make of the operator that
\* follows, kept to see that a property notices.
AbortSlip(w) ==
    /\ tx[w].pc \in {"read", "insert"}
    /\ tx' = [tx EXCEPT ![w] = IF tx[w].attempt = MaxAttempts \/ tx[w].pc = "read" THEN NoTx
                               ELSE [tx[w] EXCEPT !.since = {}, !.attempt = @ + 1]]
    /\ UNCHANGED <<log, now>>

\* P2034 (or an error the engine does not know): the whole transaction again, or,
\* after the last attempt, an error for the caller.
Abort(w) ==
    /\ tx[w].pc \in {"read", "insert"}
    /\ tx' = [tx EXCEPT ![w] = IF tx[w].attempt < MaxAttempts
                               THEN [NoTx EXCEPT !.pc = "begin", !.attempt = tx[w].attempt + 1]
                               ELSE NoTx]
    /\ UNCHANGED <<log, now>>

\* Any other error, or the end of the process.
GiveUp(w) ==
    /\ tx[w].pc # "idle"
    /\ tx' = [tx EXCEPT ![w] = NoTx]
    /\ UNCHANGED <<log, now>>

\* DataRetentionService.cleanup: deleteMany where createdAt < cutoff, not held.
\* Its transaction is not serializable, so it excludes no other.
Retain(cutoff) ==
    /\ cutoff <= now
    /\ \E e \in log : e.key.at < cutoff /\ ~e.held
    /\ log' = {e \in log : e.key.at >= cutoff \/ e.held}
    /\ UNCHANGED <<now, tx>>

ChainTick == Passes /\ UNCHANGED <<log, tx>>

ChainNext == \/ \E w \in Writers :
                   \/ Call(w) \/ Begin(w) \/ Read(w) \/ Abort(w) \/ GiveUp(w)
                   \/ \E at \in (-Skew)..MaxNow, id \in Ids, held \in BOOLEAN : Commit(w, at, id, held)
             \/ \E cutoff \in 0..MaxNow : Retain(cutoff)
             \/ ChainTick

ChainSpec == ChainInit /\ [][ChainNext]_chainVars

-----------------------------------------------------------------------------

\* Two entries follow one entry only because of a clock: one of the two sorts
\* before the entry it follows.  In particular only one entry follows nothing,
\* and concurrent calls of log() never fork the chain by themselves.
ForksComeFromClock ==
    \A e, f \in log :
        e # f /\ e.prev = f.prev => Before(e.key, e.prev) \/ Before(f.key, f.prev)
=============================================================================
