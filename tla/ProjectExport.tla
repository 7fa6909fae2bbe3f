---------------------------- MODULE ProjectExport ----------------------------
(***************************************************************************)
(* Reading the projects that match a filter in batches, while they change: *)
(* the CSV export, which fetches batch after batch itself, and the list,   *)
(* of which a client asks for page after page (ProjectsService).           *)
(*                                                                         *)
(* The order is updatedAt descending, then id descending; the next batch   *)
(* has what comes after the last project of the one before.  Each batch is *)
(* a query of its own, so anything may be written between two.  updatedAt  *)
(* is set by the process that writes, whose clock may lag by Skew.  What a *)
(* project contains is reduced to whether it matches the filter.           *)
(***************************************************************************)
EXTENDS Clock, FiniteSets

CONSTANTS
    Projects,       \* ids, numbers in their order
    BatchSize,      \* batchSize of the export, limit of the list
    ExportLimit     \* EXPORT_SYNC_LIMIT

ASSUME ProjectsAssumption == Projects \subseteq Nat /\ IsFiniteSet(Projects)
ASSUME SizesAssumption == BatchSize \in Nat \ {0} /\ ExportLimit \in Nat

VARIABLES
    at,         \* at[p]: updatedAt; 0 without such a project
    live,       \* the projects in the table
    matching,   \* those of them that match the filter
    reader,     \* the export, or the client that lists
    written,    \* written[p]: how often the reader was given p (2: more than once)
    changed,    \* history: created, updated or deleted since the reader began
    kept,       \* history: matching at every moment since the reader began
    lagged      \* history: written since then by a process whose clock lags

listVars == <<at, live, matching, now, reader, written, changed, kept, lagged>>

\* The place of a project in the order of the query.
ProjectKey == [at : 0..MaxNow, id : Projects]

Reader == [ pc : {"idle", "read", "done"}, kind : {"export", "list"},
            cursor : {{}} \union {{k} : k \in ProjectKey} ] \* none before the first batch

ListTypeOK ==
    /\ at \in [Projects -> 0..MaxNow]
    /\ matching \subseteq live /\ live \subseteq Projects
    /\ now \in 0..MaxNow
    /\ reader \in Reader
    /\ written \in [Projects -> 0..2]
    /\ changed \subseteq Projects /\ kept \subseteq Projects /\ lagged \subseteq changed

-----------------------------------------------------------------------------

KeyOf(p) == [at |-> at[p], id |-> p]

\* k comes before m: the later one first, of one moment the greater id first.
Precedes(k, m) == k.at > m.at \/ (k.at = m.at /\ k.id > m.id)

\* Slips next to the code: what a plausible bug would make of the operator that
\* follows, kept to see that a property notices.
BeyondSlip(p) == \A k \in reader.cursor : at[p] < k.at

BeyondOrAtSlip(p) == \A k \in reader.cursor : ~Precedes(KeyOf(p), k)

\* The cursor clause of buildProjectWhere.
Beyond(p) == \A k \in reader.cursor : Precedes(k, KeyOf(p))

RestSlip == matching

\* What the query would return without its limit.
Rest == {p \in matching : Beyond(p)}

\* orderBy and take.
Batch == {p \in Rest : Cardinality({q \in Rest : Precedes(KeyOf(q), KeyOf(p))}) < BatchSize}

LastOf(S) == CHOOSE p \in S : \A q \in S : ~Precedes(KeyOf(p), KeyOf(q))

NoReader == [pc |-> "idle", kind |-> "list", cursor |-> {}]

Begun(kind) == /\ reader' = [pc |-> "read", kind |-> kind, cursor |-> {}]
               /\ written' = [p \in Projects |-> 0]
               /\ changed' = {} /\ kept' = matching /\ lagged' = {}

UncheckedExport == Begun("export")

\* The count at the start of exportProjects; over the limit it answers 400.
CheckedExport == Cardinality(matching) <= ExportLimit /\ Begun("export")

-----------------------------------------------------------------------------

ListInit ==
    /\ live \in SUBSET Projects /\ matching \in SUBSET live
    /\ now = 0 /\ at = [p \in Projects |-> 0]
    /\ reader = NoReader /\ written = [p \in Projects |-> 0]
    /\ changed = {} /\ kept = {} /\ lagged = {}

Export ==
    /\ reader.pc = "idle"
    /\ CheckedExport
    /\ UNCHANGED <<at, live, matching, now>>

List ==
    /\ reader.pc = "idle"
    /\ Begun("list")
    /\ UNCHANGED <<at, live, matching, now>>

\* One query and what is done with its rows.  The export ends with a batch that is
\* not full; the list asks for one row more and ends when it does not get it.
Fetch ==
    /\ reader.pc = "read"
    /\ written' = [p \in Projects |-> IF p \in Batch /\ written[p] < 2 THEN written[p] + 1
                                      ELSE written[p]]
    /\ LET over == IF reader.kind = "export" THEN Cardinality(Batch) < BatchSize
                   ELSE Cardinality(Rest) <= BatchSize
       IN reader' = [reader EXCEPT !.pc = IF over THEN "done" ELSE "read",
                                   !.cursor = IF over THEN @ ELSE {KeyOf(LastOf(Batch))}]
    /\ UNCHANGED <<at, live, matching, now, changed, kept, lagged>>

\* The answer is complete; or a query fails and the response is broken off, or the
\* client asks for no more pages.
Leave ==
    /\ reader.pc # "idle"
    /\ reader' = NoReader
    /\ written' = [p \in Projects |-> 0]
    /\ changed' = {} /\ kept' = {} /\ lagged' = {}
    /\ UNCHANGED <<at, live, matching, now>>

\* p is written by a process whose clock reads t, and matches from now on or not.
Written(p, t, match) ==
    /\ t <= now /\ now <= t + Skew
    /\ at' = [at EXCEPT ![p] = t]
    /\ live' = live \union {p}
    /\ matching' = IF match THEN matching \union {p} ELSE matching \ {p}
    /\ reader.pc = "read" => /\ changed' = changed \union {p}
                             /\ kept' = kept \intersect matching'
                             /\ lagged' = IF t < now THEN lagged \union {p} ELSE lagged
    /\ reader.pc # "read" => UNCHANGED <<changed, kept, lagged>>
    /\ UNCHANGED <<now, reader, written>>

\* createProject.  The id is new: one that was deleted is not used again while somebody reads.
Create(p, t, match) == p \notin live /\ p \notin changed /\ Written(p, t, match)

\* updateProject for a caller whom the policy lets through
Update(p, t, match) == p \in live /\ Written(p, t, match)

\* deleteProject
Delete(p) ==
    /\ p \in live
    /\ live' = live \ {p} /\ matching' = matching \ {p}
    /\ at' = [at EXCEPT ![p] = 0]
    /\ IF reader.pc = "read" THEN changed' = changed \union {p} /\ kept' = kept \ {p}
       ELSE UNCHANGED <<changed, kept>>
    /\ UNCHANGED <<now, reader, written, lagged>>

ListTick ==
    /\ Passes
    /\ UNCHANGED <<at, live, matching, reader, written, changed, kept, lagged>>

ListNext ==
    \/ Export \/ List \/ Fetch \/ Leave \/ ListTick
    \/ \E p \in Projects, t \in 0..MaxNow, match \in BOOLEAN :
          Create(p, t, match) \/ Update(p, t, match)
    \/ \E p \in Projects : Delete(p)

ListSpec == ListInit /\ [][ListNext]_listVars

\* The loop of exportProjects goes on by itself, and every query settles.  Nothing makes
\* a client ask for the next page of a list.
ExportStep == reader.kind = "export" /\ Fetch

FairListSpec == ListSpec /\ WF_listVars(ExportStep)

-----------------------------------------------------------------------------

\* A project that nobody touched while an export or a list went on is in it exactly
\* once, whatever happened to the others, and also among projects of one moment.
UntouchedOnce ==
    reader.pc = "done" => \A p \in kept \ changed : written[p] = 1

\* A reader is given a project twice only if it was written meanwhile by a process
\* whose clock is behind: an update moves a project up, out of the reader's way.
TwiceOnlyByClock == \A p \in Projects : written[p] > 1 => p \in lagged

\* The limit is compared with a count of before the first batch.  An export exceeds it by
\* no more projects than were created or changed while it ran.
LimitUpToChanges ==
    reader.kind = "export" =>
        Cardinality({p \in Projects : written[p] > 0}) <= ExportLimit + Cardinality(changed)

\* The loop of exportProjects ends, also while projects are created, updated and deleted.
ExportEnds == (reader.pc = "read" /\ reader.kind = "export") ~> (reader.pc # "read")
=============================================================================
