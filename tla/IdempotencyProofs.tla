-------------------------- MODULE IdempotencyProofs --------------------------
(***************************************************************************)
(* Proofs about Idempotency, for finitely many calls and any payloads,     *)
(* batches and bounds.                                                     *)
(*                                                                         *)
(* The record of the key is the newest one there was, or none (Latest).    *)
(* A handler at work has that record, or a cleanup has removed its own     *)
(* (Held): nobody else removes it, because each record has one call        *)
(* (Apart) and only this one abandons it.  So has a result that was given, *)
(* and there the record is completed, which no call abandons (Kept).       *)
(***************************************************************************)
EXTENDS Idempotency, FiniteSetTheorems, TLAPS

Types ==
    /\ rec \in Record
    /\ ran \in Seq(Payloads)
    /\ selected \in 0..Len(ran)
    /\ call \in [Calls -> Call]
    /\ effects \union swept \subseteq 1..Len(ran)

Room == Len(ran) + Cardinality(Starting) <= MaxRuns

Latest ==
    /\ rec.id \in {0, Len(ran)}
    /\ rec.id = 0 => ~rec.completed
    /\ rec.id # 0 => rec.fingerprint = ran[rec.id] /\ (rec.completed => rec.id \in effects)

\* What a call holds whose record was inserted and is not given up yet.
Busy(q) == q.pc \in {"run", "log", "complete", "abandon"}
Working(q) == q.pc \in {"run", "log", "complete"}

Held ==
    \A c \in Calls :
        /\ call[c].pc = "begin" => call[c].fingerprint \in Payloads
        /\ Busy(call[c]) =>
              /\ call[c].id \in 1..Len(ran) /\ ran[call[c].id] = call[c].fingerprint
              /\ call[c].pc \in {"log", "complete"} => call[c].id \in effects
              /\ Working(call[c]) => call[c].id = rec.id \/ call[c].id \in swept

Apart == \A c, d \in Calls :
             Busy(call[c]) /\ Busy(call[d]) /\ call[c].id = call[d].id => c = d

Answered ==
    \A c \in Calls :
        /\ call[c].pc # "done" => call[c].answer = "none"
        /\ call[c].answer \in {"new", "replay"} =>
              call[c].id \in effects /\ ran[call[c].id] = call[c].fingerprint

Kept == \A n \in given : n \in effects /\ (n \in swept \/ (rec.id = n /\ rec.completed))

IInv == Types /\ Room /\ Latest /\ Held /\ Apart /\ Answered /\ Kept

-----------------------------------------------------------------------------

LEMMA NoRecordType ==
    /\ NoRecord \in Record /\ NoRecord.id = 0 /\ ~NoRecord.completed
    /\ NoRecord.fingerprint = NoPayload
BY BoundsAssumption DEF NoRecord, Record

LEMMA NoCallType == NoCall \in Call /\ NoCall.pc = "idle" /\ NoCall.answer = "none"
BY BoundsAssumption DEF NoCall, Call

LEMMA StartingFinite == IsFiniteSet(Starting) /\ Cardinality(Starting) \in Nat
BY CallsAssumption, FS_Subset, FS_CardinalityType DEF Starting

LEMMA InitIInv == Init => IInv
<1>. SUFFICES ASSUME Init PROVE IInv
  OBVIOUS
<1>1. Len(ran) = 0 /\ ran \in Seq(Payloads)
  BY DEF Init
<1>2. \A c \in Calls : call[c] = NoCall
  BY DEF Init
<1>3. Types
  BY <1>1, NoRecordType, NoCallType DEF Init, Types
<1>4. Starting = {}
  BY <1>2, NoCallType DEF Starting
<1>5. Room
  BY <1>1, <1>4, FS_EmptySet, BoundsAssumption DEF Room
<1>6. Latest
  BY NoRecordType DEF Init, Latest
<1>7. Held /\ Apart /\ Answered
  BY <1>2, NoCallType DEF Held, Apart, Answered, Busy
<1>. QED
  BY <1>3, <1>5, <1>6, <1>7 DEF Init, IInv, Kept

\* No call begins: there is room as before.
LEMMA RoomStays ==
    ASSUME IInv, UNCHANGED ran, Starting' \subseteq Starting PROVE Room'
<1>1. Cardinality(Starting') <= Cardinality(Starting) /\ Cardinality(Starting') \in Nat
  BY StartingFinite, FS_Subset, FS_CardinalityType
<1>2. Len(ran) \in Nat /\ Cardinality(Starting) \in Nat
  BY StartingFinite DEF IInv, Types
<1>3. Len(ran) + Cardinality(Starting) <= MaxRuns
  BY DEF IInv, Room
<1>. HIDE DEF Starting
<1>. QED
  BY <1>1, <1>2, <1>3, BoundsAssumption DEF Room

\* A step of call c after its begin, which may complete or abandon its own record.
LEMMA CallMoves ==
    ASSUME IInv, NEW c \in Calls, NEW h \in Call, call' = [call EXCEPT ![c] = h],
           UNCHANGED <<selected, ran, swept>>,
           effects \subseteq effects', effects' \subseteq 1..Len(ran),
           \/ rec' = rec
           \/ /\ rec' \in Record /\ rec'.id = rec.id /\ rec'.fingerprint = rec.fingerprint
              /\ rec'.completed /\ rec.id \in effects
           \/ rec' = NoRecord /\ rec.id = call[c].id /\ ~rec.completed /\ call[c].pc = "abandon",
           given' = given \/ (given' = given \union {rec.id} /\ rec'.id = rec.id
                              /\ rec'.completed /\ rec.id # 0),
           h.pc # "begin",
           Busy(h) => Busy(call[c]) /\ h.id = call[c].id /\ h.fingerprint = call[c].fingerprint,
           Working(h) => Working(call[c]),
           h.pc \in {"log", "complete"} => h.id \in effects',
           h.pc # "done" => h.answer = "none",
           h.answer \in {"new", "replay"} => h.id \in effects' /\ ran[h.id] = h.fingerprint
    PROVE  IInv'
<1>1. call'[c] = h /\ \A d \in Calls \ {c} : call'[d] = call[d]
  BY DEF IInv, Types
<1>2. rec' \in Record /\ (rec.completed => rec'.completed /\ rec'.id = rec.id)
  BY NoRecordType DEF IInv, Types
<1>3. Types'
  BY <1>2 DEF IInv, Types
<1>4. Room'
  <2>1. Starting' \subseteq Starting
    BY <1>1 DEF Starting
  <2>. QED
    BY <2>1, RoomStays
<1>5. Latest'
  BY NoRecordType DEF IInv, Latest
<1>6. \A d \in Calls : Busy(call'[d]) =>
          /\ Busy(call[d]) /\ call'[d].id = call[d].id
          /\ call'[d].fingerprint = call[d].fingerprint
          /\ Working(call'[d]) => Working(call[d])
  BY <1>1
<1>7. Apart'
  <2>. SUFFICES ASSUME NEW d \in Calls, NEW e \in Calls, Busy(call'[d]), Busy(call'[e]),
                       call'[d].id = call'[e].id
                PROVE  d = e
    BY DEF Apart, Busy
  <2>. QED
    BY <1>6 DEF IInv, Apart
<1>8. Held'
  <2>. SUFFICES ASSUME NEW d \in Calls
                PROVE  /\ call'[d].pc = "begin" => call'[d].fingerprint \in Payloads
                       /\ Busy(call'[d]) =>
                             /\ call'[d].id \in 1..Len(ran) /\ ran[call'[d].id] = call'[d].fingerprint
                             /\ call'[d].pc \in {"log", "complete"} => call'[d].id \in effects'
                             /\ Working(call'[d]) => call'[d].id = rec'.id \/ call'[d].id \in swept
    BY DEF Held, Busy, Working
  <2>1. call'[d].pc = "begin" => call'[d].fingerprint \in Payloads
    BY <1>1 DEF IInv, Held
  <2>2. ASSUME Busy(call'[d])
        PROVE  /\ call'[d].id \in 1..Len(ran) /\ ran[call'[d].id] = call'[d].fingerprint
               /\ call'[d].pc \in {"log", "complete"} => call'[d].id \in effects'
    BY <1>1, <1>6, <2>2 DEF IInv, Held
  <2>3. ASSUME Busy(call'[d]), Working(call'[d])
        PROVE  call'[d].id = rec'.id \/ call'[d].id \in swept
    <3>1. Busy(call[d]) /\ Working(call[d]) /\ call'[d].id = call[d].id
      BY <1>6, <2>3
    <3>2. call[d].id = rec.id \/ call[d].id \in swept
      BY <3>1 DEF IInv, Held
    <3>3. CASE rec'.id = rec.id
      BY <3>1, <3>2, <3>3
    <3>4. CASE rec'.id # rec.id
      <4>1. rec.id = call[c].id /\ call[c].pc = "abandon"
        BY <3>4
      <4>2. d # c
        BY <3>1, <4>1 DEF Working
      <4>3. call[d].id # rec.id
        BY <3>1, <4>1, <4>2 DEF IInv, Apart, Busy
      <4>. QED
        BY <3>1, <3>2, <4>3
    <3>. QED
      BY <3>3, <3>4
  <2>. QED
    BY <2>1, <2>2, <2>3
<1>9. Answered'
  <2>. SUFFICES ASSUME NEW d \in Calls
                PROVE  /\ call'[d].pc # "done" => call'[d].answer = "none"
                       /\ call'[d].answer \in {"new", "replay"} =>
                             call'[d].id \in effects' /\ ran[call'[d].id] = call'[d].fingerprint
    BY DEF Answered
  <2>1. CASE d = c
    BY <1>1, <2>1
  <2>2. CASE d # c
    BY <1>1, <2>2 DEF IInv, Answered
  <2>. QED
    BY <2>1, <2>2
<1>10. Kept'
  <2>1. ASSUME NEW n \in given
        PROVE  n \in effects' /\ (n \in swept \/ (rec'.id = n /\ rec'.completed))
    BY <1>2, <2>1 DEF IInv, Kept
  <2>2. ASSUME given' = given \union {rec.id}, rec'.id = rec.id, rec'.completed, rec.id # 0
        PROVE  rec.id \in effects'
    <3>1. CASE rec' = rec
      BY <2>2, <3>1 DEF IInv, Latest
    <3>2. CASE rec.id \in effects
      BY <3>2
    <3>3. CASE rec' = NoRecord
      BY <2>2, <3>3, NoRecordType
    <3>. QED
      BY <3>1, <3>2, <3>3
  <2>. QED
    BY <2>1, <2>2 DEF Kept
<1>. QED
  BY <1>3, <1>4, <1>5, <1>7, <1>8, <1>9, <1>10 DEF IInv

LEMMA SendKeepsIInv ==
    ASSUME IInv, NEW c \in Calls, NEW p \in Payloads, Send(c, p) PROVE IInv'
<1>. DEFINE h == [call[c] EXCEPT !.pc = "begin", !.fingerprint = p]
<1>1. /\ h \in Call /\ h.pc = "begin" /\ h.fingerprint = p /\ h.answer = "none"
  BY DEF Send, Call, IInv, Types, Answered
<1>2. call' = [call EXCEPT ![c] = h]
  BY DEF Send, IInv, Types
<1>. HIDE DEF h
<1>3. call'[c] = h /\ \A d \in Calls \ {c} : call'[d] = call[d]
  BY <1>2 DEF IInv, Types
<1>4. Types'
  BY <1>1, <1>2 DEF Send, IInv, Types
<1>5. Room'
  <2>1. Starting' = Starting \union {c} /\ c \notin Starting
    BY <1>1, <1>3 DEF Send, Starting
  <2>2. Cardinality(Starting') = Cardinality(Starting) + 1
    BY <2>1, StartingFinite, FS_AddElement
  <2>3. Len(ran) \in Nat /\ Cardinality(Starting) \in Nat
    BY StartingFinite DEF IInv, Types
  <2>4. Len(ran) + Cardinality(Starting) < MaxRuns /\ ran' = ran
    BY DEF Send
  <2>. HIDE DEF Starting
  <2>. QED
    BY <2>2, <2>3, <2>4, BoundsAssumption DEF Room
<1>6. UNCHANGED <<rec, selected, ran, effects, given, swept>>
  BY DEF Send
<1>7. \A d \in Calls : Busy(call'[d]) \/ call'[d].answer # "none" => call'[d] = call[d]
  BY <1>1, <1>3 DEF Busy
<1>8. \A d \in Calls : call'[d].pc = "begin" => call'[d].fingerprint \in Payloads
  BY <1>1, <1>3 DEF IInv, Held
<1>9. Held'
  BY <1>6, <1>7, <1>8 DEF IInv, Held, Busy
<1>10. Apart'
  BY <1>7 DEF IInv, Apart, Busy
<1>11. Answered'
  BY <1>6, <1>7 DEF IInv, Answered
<1>. QED
  BY <1>4, <1>5, <1>6, <1>9, <1>10, <1>11 DEF IInv, Latest, Kept

\* The call whose insert succeeds has a record of its own, the newest.
LEMMA InsertKeepsIInv ==
    ASSUME IInv, NEW c \in Calls, call[c].pc = "begin", rec.id = 0,
           rec' = [NoRecord EXCEPT !.id = Len(ran) + 1, !.fingerprint = call[c].fingerprint],
           ran' = Append(ran, call[c].fingerprint),
           call' = [call EXCEPT ![c].pc = "run", ![c].id = Len(ran) + 1],
           UNCHANGED <<selected, effects, given, swept>>
    PROVE  IInv'
<1>1. PICK p \in Payloads : call[c].fingerprint = p
  BY DEF IInv, Held
<1>2. PICK n \in Nat : n = Len(ran)
  BY DEF IInv, Types
<1>3. /\ Starting' = Starting \ {c} /\ c \in Starting
  BY DEF Starting, IInv, Types
<1>4. Cardinality(Starting') = Cardinality(Starting) - 1 /\ Cardinality(Starting) \in Nat
  BY <1>3, StartingFinite, FS_RemoveElement
<1>5. n + Cardinality(Starting) <= MaxRuns
  BY <1>2 DEF IInv, Room
<1>6. Cardinality(Starting') \in Nat
  BY <1>3, StartingFinite, FS_Subset, FS_CardinalityType
<1>. HIDE DEF Starting
<1>7. n + 1 \in 1..MaxRuns /\ n + 1 + Cardinality(Starting') <= MaxRuns
  BY <1>4, <1>5, <1>6, BoundsAssumption
<1>8. /\ ran' \in Seq(Payloads) /\ Len(ran') = n + 1 /\ ran'[n + 1] = p
      /\ \A m \in 1..n : ran'[m] = ran[m]
  BY <1>1, <1>2 DEF IInv, Types
<1>. PICK m \in 0..MaxRuns : m = n + 1
  BY <1>7
<1>. DEFINE ids == 0..MaxRuns
            q == [NoRecord EXCEPT !.id = m, !.fingerprint = p]
            h == [call[c] EXCEPT !.pc = "run", !.id = m]
<1>9. /\ q \in Record /\ q.id = m /\ q.fingerprint = p /\ ~q.completed
  <2>1. NoRecord \in Record /\ m \in ids
    BY NoRecordType
  <2>2. q.completed = FALSE
    BY DEF NoRecord
  <2>. HIDE DEF ids
  <2>3. q.id = m /\ q.fingerprint = p
    BY DEF NoRecord
  <2>4. Record = [id : ids, fingerprint : Payloads \union {NoPayload}, completed : BOOLEAN,
                  over : BOOLEAN, ahead : 0..MaxAhead]
    BY DEF Record, ids
  <2>5. q \in Record
    BY <2>1, <2>4
  <2>. QED
    BY <2>2, <2>3, <2>5
<1>10. /\ h \in Call /\ h.pc = "run" /\ h.id = m /\ h.fingerprint = p /\ h.answer = "none"
  <2>1. call[c] \in Call /\ call[c].answer = "none" /\ m \in ids
    BY DEF IInv, Types, Answered
  <2>2. Call = [ pc : {"idle", "begin", "find", "run", "log", "complete", "abandon", "done"},
                 fingerprint : Payloads \union {NoPayload}, id : ids,
                 answer : {"none", "new", "replay", "conflict", "error"} ]
    BY DEF Call
  <2>. HIDE DEF ids
  <2>. QED
    BY <1>1, <2>1, <2>2
<1>11. rec' = q /\ call' = [call EXCEPT ![c] = h]
  BY <1>1, <1>2 DEF IInv, Types
<1>. HIDE DEF q, h, ids
<1>12. call'[c] = h /\ \A d \in Calls \ {c} : call'[d] = call[d]
  BY <1>11 DEF IInv, Types
<1>13. effects \union swept \subseteq 1..n /\ selected \in 0..n
  BY <1>2 DEF IInv, Types
<1>14. Types'
  <2>1. rec' \in Record /\ ran' \in Seq(Payloads)
    BY <1>8, <1>9, <1>11
  <2>4. call' \in [Calls -> Call]
    BY <1>10, <1>11 DEF IInv, Types
  <2>2. selected' \in 0..Len(ran')
    BY <1>8, <1>13
  <2>3. effects' \union swept' \subseteq 1..Len(ran')
    BY <1>8, <1>13
  <2>. QED
    BY <2>1, <2>2, <2>3, <2>4 DEF Types
<1>15. Room'
  BY <1>7, <1>8 DEF Room
<1>16. Latest'
  BY <1>8, <1>9, <1>11 DEF Latest
<1>17. ASSUME NEW d \in Calls, Busy(call[d])
       PROVE  /\ call[d].id \in 1..(n + 1) /\ call[d].id # n + 1
              /\ ran'[call[d].id] = call[d].fingerprint
              /\ Working(call[d]) => call[d].id \in swept
  <2>1. /\ call[d].id \in 1..n /\ ran[call[d].id] = call[d].fingerprint
        /\ Working(call[d]) => call[d].id = rec.id \/ call[d].id \in swept
    BY <1>2, <1>17 DEF IInv, Held
  <2>2. call[d].id # 0 /\ call[d].id # n + 1 /\ call[d].id \in 1..(n + 1)
    BY <2>1
  <2>. QED
    BY <1>8, <2>1, <2>2
<1>18. Held'
  <2>. SUFFICES ASSUME NEW d \in Calls
                PROVE  /\ call'[d].pc = "begin" => call'[d].fingerprint \in Payloads
                       /\ Busy(call'[d]) =>
                             /\ call'[d].id \in 1..(n + 1) /\ ran'[call'[d].id] = call'[d].fingerprint
                             /\ call'[d].pc \in {"log", "complete"} => call'[d].id \in effects
                             /\ Working(call'[d]) => call'[d].id = rec'.id \/ call'[d].id \in swept
    BY <1>8 DEF Held, Busy, Working
  <2>1. CASE d = c
    BY <1>8, <1>9, <1>10, <1>11, <1>12, <2>1
  <2>2. CASE d # c
    <3>1. call'[d] = call[d]
      BY <1>12, <2>2
    <3>2. /\ call[d].pc = "begin" => call[d].fingerprint \in Payloads
          /\ Busy(call[d]) => (call[d].pc \in {"log", "complete"} => call[d].id \in effects)
      BY DEF IInv, Held
    <3>. QED
      <4>1. ASSUME Busy(call[d])
            PROVE  call[d].id \in 1..(n + 1) /\ ran'[call[d].id] = call[d].fingerprint
        BY <1>17, <4>1
      <4>2. ASSUME Busy(call[d]), Working(call[d]) PROVE call[d].id \in swept
        BY <1>17, <4>2
      <4>. QED
        BY <3>1, <3>2, <4>1, <4>2
  <2>. QED
    BY <2>1, <2>2
<1>19. Apart'
  <2>. SUFFICES ASSUME NEW d \in Calls, NEW e \in Calls, Busy(call'[d]), Busy(call'[e]),
                       call'[d].id = call'[e].id
                PROVE  d = e
    BY DEF Apart, Busy
  <2>1. \A x \in Calls \ {c} : Busy(call'[x]) => call'[x].id # n + 1
    <3>. SUFFICES ASSUME NEW x \in Calls \ {c}, Busy(call'[x]) PROVE call'[x].id # n + 1
      OBVIOUS
    <3>1. call'[x] = call[x]
      BY <1>12
    <3>2. call[x].id # n + 1
      BY <1>17, <3>1
    <3>. QED
      BY <3>1, <3>2
  <2>2. call'[c].id = n + 1
    BY <1>10, <1>12
  <2>3. CASE d = c \/ e = c
    BY <2>1, <2>2, <2>3
  <2>4. CASE d # c /\ e # c
    BY <1>12, <2>4 DEF IInv, Apart
  <2>. QED
    BY <2>3, <2>4
<1>20. Answered'
  <2>. SUFFICES ASSUME NEW d \in Calls
                PROVE  /\ call'[d].pc # "done" => call'[d].answer = "none"
                       /\ call'[d].answer \in {"new", "replay"} =>
                             call'[d].id \in effects /\ ran'[call'[d].id] = call'[d].fingerprint
    BY DEF Answered
  <2>1. CASE d = c
    BY <1>10, <1>12, <2>1
  <2>2. CASE d # c
    <3>1. call'[d] = call[d]
      BY <1>12, <2>2
    <3>2. /\ call[d].pc # "done" => call[d].answer = "none"
          /\ call[d].answer \in {"new", "replay"} =>
                call[d].id \in effects /\ ran[call[d].id] = call[d].fingerprint
      BY DEF IInv, Answered
    <3>3. call[d].id \in effects => ran'[call[d].id] = ran[call[d].id]
      BY <1>8, <1>13
    <3>. QED
      BY <3>1, <3>2, <3>3
  <2>. QED
    BY <2>1, <2>2
<1>21. Kept'
  BY NoRecordType DEF IInv, Kept, Latest
<1>. QED
  BY <1>14, <1>15, <1>16, <1>18, <1>19, <1>20, <1>21 DEF IInv

\* Where Goto leads.
LEMMA Goes ==
    ASSUME IInv, NEW c \in Calls, NEW pc \in {"find", "log", "complete", "abandon"}, Goto(c, pc),
           call[c].pc # "done"
    PROVE  \E h \in Call : /\ call' = [call EXCEPT ![c] = h]
                           /\ h.pc = pc /\ h.id = call[c].id /\ h.answer = "none"
                           /\ h.fingerprint = call[c].fingerprint
<1>. DEFINE h == [call[c] EXCEPT !.pc = pc]
<1>1. h \in Call /\ h.pc = pc /\ h.id = call[c].id /\ h.fingerprint = call[c].fingerprint
      /\ h.answer = "none"
  BY DEF Call, IInv, Types, Answered
<1>2. call' = [call EXCEPT ![c] = h]
  BY DEF Goto
<1>. QED
  BY <1>1, <1>2

\* A failed call holds nothing.
LEMMA Fails ==
    ASSUME IInv, NEW c \in Calls, NEW a \in {"conflict", "error"}, Fail(c, a)
    PROVE  \E h \in Call : /\ call' = [call EXCEPT ![c] = h]
                           /\ h.pc = "done" /\ h.answer = a
<1>. DEFINE h == [NoCall EXCEPT !.pc = "done", !.answer = a]
<1>1. h \in Call /\ h.pc = "done" /\ h.answer = a
  BY NoCallType DEF Call
<1>2. call' = [call EXCEPT ![c] = h]
  BY DEF Fail
<1>. QED
  BY <1>1, <1>2

LEMMA Succeeds ==
    ASSUME IInv, NEW c \in Calls, NEW a \in {"new", "replay"}, NEW n \in 0..MaxRuns,
           Succeed(c, a, n)
    PROVE  \E h \in Call : /\ call' = [call EXCEPT ![c] = h]
                           /\ h.pc = "done" /\ h.answer = a /\ h.id = n
                           /\ h.fingerprint = call[c].fingerprint
<1>. DEFINE h == [call[c] EXCEPT !.pc = "done", !.answer = a, !.id = n]
<1>1. /\ h \in Call /\ h.pc = "done" /\ h.answer = a /\ h.id = n
      /\ h.fingerprint = call[c].fingerprint
  BY DEF Call, IInv, Types
<1>2. call' = [call EXCEPT ![c] = h]
  BY DEF Succeed, IInv, Types
<1>. QED
  BY <1>1, <1>2

LEMMA BeginKeepsIInv ==
    ASSUME IInv, NEW c \in Calls, Begin(c) PROVE IInv'
<1>1. CASE rec.id = 0
  BY <1>1, InsertKeepsIInv DEF Begin
<1>2. CASE rec.id # 0
  <2>1. Goto(c, "find") /\ UNCHANGED <<rec, ran, selected, effects, given, swept>>
        /\ call[c].pc = "begin"
    BY <1>2 DEF Begin
  <2>2. PICK h \in Call : /\ call' = [call EXCEPT ![c] = h]
                          /\ h.pc = "find" /\ h.answer = "none"
    BY <2>1, Goes
  <2>. QED
    BY <2>1, <2>2, CallMoves DEF IInv, Types, Busy, Working
<1>. QED
  BY <1>1, <1>2

LEMMA FindKeepsIInv ==
    ASSUME IInv, NEW c \in Calls, Find(c) PROVE IInv'
<1>1. UNCHANGED <<rec, selected, ran, effects, swept>>
  BY DEF Find
<1>2. CASE rec.id # 0 /\ rec.fingerprint = call[c].fingerprint /\ rec.completed
  <2>1. Succeed(c, "replay", rec.id) /\ rec.id \in 0..MaxRuns
    BY <1>2 DEF Find, IInv, Types, Record
  <2>2. PICK h \in Call : /\ call' = [call EXCEPT ![c] = h]
                          /\ h.pc = "done" /\ h.answer = "replay" /\ h.id = rec.id
                          /\ h.fingerprint = call[c].fingerprint
    BY <2>1, Succeeds
  <2>3. rec.id \in effects /\ ran[rec.id] = call[c].fingerprint
    BY <1>2 DEF IInv, Latest
  <2>4. given' = given \union {rec.id}
    BY <2>1 DEF Succeed
  <2>. QED
    BY <1>1, <1>2, <2>2, <2>3, <2>4, CallMoves DEF IInv, Types, Busy, Working
<1>3. CASE ~(rec.id # 0 /\ rec.fingerprint = call[c].fingerprint /\ rec.completed)
  <2>1. Fail(c, "conflict")
    BY <1>3 DEF Find
  <2>2. PICK h \in Call : call' = [call EXCEPT ![c] = h] /\ h.pc = "done" /\ h.answer = "conflict"
    BY <2>1, Fails
  <2>. QED
    BY <1>1, <2>1, <2>2, CallMoves DEF Fail, IInv, Types, Busy, Working
<1>. QED
  BY <1>2, <1>3

LEMMA EffectKeepsIInv ==
    ASSUME IInv, NEW c \in Calls, Effect(c) PROVE IInv'
<1>1. /\ call[c].pc = "run" /\ Goto(c, "log")
      /\ UNCHANGED <<rec, selected, ran, given, swept>>
      /\ effects' = effects \union {call[c].id}
  BY DEF Effect
<1>2. PICK h \in Call : /\ call' = [call EXCEPT ![c] = h]
                        /\ h.pc = "log" /\ h.id = call[c].id /\ h.answer = "none"
                        /\ h.fingerprint = call[c].fingerprint
  BY <1>1, Goes
<1>3. call[c].id \in 1..Len(ran)
  BY <1>1 DEF IInv, Held, Busy
<1>4. effects \subseteq effects' /\ effects' \subseteq 1..Len(ran)
  BY <1>1, <1>3 DEF IInv, Types
<1>. QED
  BY <1>1, <1>2, <1>4, CallMoves DEF Busy, Working

LEMMA LogKeepsIInv ==
    ASSUME IInv, NEW c \in Calls, Log(c) PROVE IInv'
<1>1. /\ call[c].pc = "log" /\ Goto(c, "complete")
      /\ UNCHANGED <<rec, selected, ran, effects, given, swept>>
  BY DEF Log
<1>2. PICK h \in Call : /\ call' = [call EXCEPT ![c] = h]
                        /\ h.pc = "complete" /\ h.id = call[c].id /\ h.answer = "none"
                        /\ h.fingerprint = call[c].fingerprint
  BY <1>1, Goes
<1>3. call[c].id \in effects
  BY <1>1 DEF IInv, Held, Busy
<1>. QED
  BY <1>1, <1>2, <1>3, CallMoves DEF IInv, Types, Busy, Working

LEMMA ThrowKeepsIInv ==
    ASSUME IInv, NEW c \in Calls, Throw(c) PROVE IInv'
<1>1. /\ call[c].pc \in {"run", "log"} /\ Goto(c, "abandon")
      /\ UNCHANGED <<rec, selected, ran, effects, given, swept>>
  BY DEF Throw
<1>2. PICK h \in Call : /\ call' = [call EXCEPT ![c] = h]
                        /\ h.pc = "abandon" /\ h.id = call[c].id /\ h.answer = "none"
                        /\ h.fingerprint = call[c].fingerprint
  BY <1>1, Goes
<1>. QED
  BY <1>1, <1>2, CallMoves DEF IInv, Types, Busy, Working

\* What the update of completeRequest makes of the record.
LEMMA Completed ==
    ASSUME IInv, NEW c \in Calls, call[c].pc = "complete", rec.id = call[c].id,
           rec' = [rec EXCEPT !.completed = TRUE]
    PROVE  /\ rec' \in Record /\ rec'.id = rec.id /\ rec'.fingerprint = rec.fingerprint
           /\ rec'.completed /\ rec.id \in effects /\ rec.id # 0
           /\ rec.id \in 0..MaxRuns /\ ran[rec.id] = call[c].fingerprint
<1>1. rec \in Record
  BY DEF IInv, Types
<1>2. rec' \in Record /\ rec'.completed
  BY <1>1 DEF Record
<1>3. rec'.id = rec.id /\ rec'.fingerprint = rec.fingerprint /\ rec.id \in 0..MaxRuns
  BY <1>1 DEF Record
<1>4. rec.id \in effects /\ ran[rec.id] = call[c].fingerprint /\ rec.id # 0
  BY DEF IInv, Held, Busy
<1>. QED
  BY <1>2, <1>3, <1>4

LEMMA CompleteKeepsIInv ==
    ASSUME IInv, NEW c \in Calls, Complete(c) PROVE IInv'
<1>1. call[c].pc = "complete" /\ UNCHANGED <<selected, ran, effects, swept>>
  BY DEF Complete
<1>2. CASE rec.id = call[c].id
  <2>1. rec' = [rec EXCEPT !.completed = TRUE] /\ Succeed(c, "new", rec.id)
    BY <1>2 DEF Complete
  <2>2. /\ rec' \in Record /\ rec'.id = rec.id /\ rec'.fingerprint = rec.fingerprint
        /\ rec'.completed /\ rec.id \in effects /\ rec.id # 0
        /\ rec.id \in 0..MaxRuns /\ ran[rec.id] = call[c].fingerprint
    BY <1>1, <1>2, <2>1, Completed
  <2>3. PICK h \in Call : /\ call' = [call EXCEPT ![c] = h]
                          /\ h.pc = "done" /\ h.answer = "new" /\ h.id = rec.id
                          /\ h.fingerprint = call[c].fingerprint
    BY <2>1, <2>2, Succeeds
  <2>4. given' = given \union {rec.id}
    BY <2>1 DEF Succeed
  <2>. QED
    BY <1>1, <2>2, <2>3, <2>4, CallMoves DEF IInv, Types, Busy, Working
<1>3. CASE rec.id # call[c].id
  <2>1. Goto(c, "abandon") /\ UNCHANGED <<rec, given>>
    BY <1>3 DEF Complete
  <2>2. PICK h \in Call : /\ call' = [call EXCEPT ![c] = h]
                          /\ h.pc = "abandon" /\ h.id = call[c].id /\ h.answer = "none"
                          /\ h.fingerprint = call[c].fingerprint
    BY <1>1, <2>1, Goes
  <2>. QED
    BY <1>1, <2>1, <2>2, CallMoves DEF IInv, Types, Busy, Working
<1>. QED
  BY <1>2, <1>3

LEMMA CompleteFailsKeepsIInv ==
    ASSUME IInv, NEW c \in Calls, CompleteFails(c) PROVE IInv'
<1>1. /\ call[c].pc = "complete" /\ Goto(c, "abandon")
      /\ UNCHANGED <<selected, ran, effects, given, swept>>
  BY DEF CompleteFails
<1>2. PICK h \in Call : /\ call' = [call EXCEPT ![c] = h]
                        /\ h.pc = "abandon" /\ h.id = call[c].id /\ h.answer = "none"
                        /\ h.fingerprint = call[c].fingerprint
  BY <1>1, Goes
<1>3. CASE rec' = rec
  BY <1>1, <1>2, <1>3, CallMoves DEF IInv, Types, Busy, Working
<1>4. CASE rec.id = call[c].id /\ rec' = [rec EXCEPT !.completed = TRUE]
  <2>1. /\ rec' \in Record /\ rec'.id = rec.id /\ rec'.fingerprint = rec.fingerprint
        /\ rec'.completed /\ rec.id \in effects
    BY <1>1, <1>4, Completed
  <2>. QED
    BY <1>1, <1>2, <2>1, CallMoves DEF IInv, Types, Busy, Working
<1>. QED
  BY <1>3, <1>4 DEF CompleteFails

LEMMA AbandonKeepsIInv ==
    ASSUME IInv, NEW c \in Calls, Abandon(c) PROVE IInv'
<1>1. /\ call[c].pc = "abandon" /\ Fail(c, "error")
      /\ UNCHANGED <<selected, ran, effects, given, swept>>
  BY DEF Abandon, Fail
<1>2. PICK h \in Call : call' = [call EXCEPT ![c] = h] /\ h.pc = "done" /\ h.answer = "error"
  BY <1>1, Fails
<1>3. rec' = rec \/ (rec' = NoRecord /\ rec.id = call[c].id /\ ~rec.completed)
  BY DEF Abandon
<1>. QED
  BY <1>1, <1>2, <1>3, CallMoves DEF IInv, Types, Busy, Working

LEMMA CrashKeepsIInv ==
    ASSUME IInv, NEW c \in Calls, Crash(c) PROVE IInv'
<1>1. Fail(c, "error") /\ UNCHANGED <<rec, selected, ran, effects, given, swept>>
  BY DEF Crash, Fail
<1>2. PICK h \in Call : call' = [call EXCEPT ![c] = h] /\ h.pc = "done" /\ h.answer = "error"
  BY <1>1, Fails
<1>. QED
  BY <1>1, <1>2, CallMoves DEF IInv, Types, Busy, Working

LEMMA ForgetKeepsIInv ==
    ASSUME IInv, NEW c \in Calls, Forget(c) PROVE IInv'
<1>1. call' = [call EXCEPT ![c] = NoCall] /\ UNCHANGED <<rec, selected, ran, effects, given, swept>>
  BY DEF Forget
<1>. QED
  BY <1>1, NoCallType, CallMoves DEF IInv, Types, Busy, Working

\* The record expires, or its place among the expired ones changes.
LEMMA RecordAges ==
    ASSUME IInv, rec' \in Record, rec'.id = rec.id, rec'.completed = rec.completed,
           rec'.fingerprint = rec.fingerprint, selected' \in 0..Len(ran),
           UNCHANGED <<call, ran, effects, given, swept>>
    PROVE  IInv'
<1>1. Types' /\ Room'
  BY DEF IInv, Types, Room, Starting
<1>2. Latest' /\ Held' /\ Apart' /\ Answered' /\ Kept'
  BY DEF IInv, Latest, Held, Apart, Answered, Kept
<1>. QED
  BY <1>1, <1>2 DEF IInv

LEMMA ExpireKeepsIInv ==
    ASSUME IInv, NEW k \in 0..MaxAhead, Expire(k) PROVE IInv'
<1>1. rec \in Record /\ rec' = [rec EXCEPT !.over = TRUE, !.ahead = k]
  BY DEF Expire, IInv, Types
<1>2. rec' \in Record
  BY <1>1 DEF Record
<1>3. rec'.id = rec.id /\ rec'.fingerprint = rec.fingerprint
  BY <1>1 DEF Record
<1>4. rec'.completed = rec.completed
  BY <1>1 DEF Record
<1>. QED
  BY <1>2, <1>3, <1>4, RecordAges DEF Expire, IInv, Types

LEMMA SweepFindKeepsIInv ==
    ASSUME IInv, SweepFind PROVE IInv'
<1>1. rec \in Record /\ rec.id \in 0..Len(ran) /\ selected \in 0..Len(ran)
  BY DEF IInv, Types, Latest
<1>2. CASE rec.ahead < Batch /\ selected' = rec.id /\ UNCHANGED rec
  BY <1>1, <1>2, RecordAges DEF SweepFind
<1>3. CASE rec.ahead >= Batch /\ rec' = [rec EXCEPT !.ahead = @ - Batch] /\ UNCHANGED selected
  <2>1. rec.ahead - Batch \in 0..MaxAhead
    BY <1>1, <1>3, BatchAssumption, BoundsAssumption DEF Record
  <2>2. rec' \in Record
    BY <1>1, <1>3, <2>1 DEF Record
  <2>3. rec'.id = rec.id /\ rec'.fingerprint = rec.fingerprint
    BY <1>1, <1>3 DEF Record
  <2>4. rec'.completed = rec.completed
    BY <1>1, <1>3 DEF Record
  <2>. QED
    BY <1>1, <1>3, <2>2, <2>3, <2>4, RecordAges DEF SweepFind
<1>. QED
  BY <1>2, <1>3 DEF SweepFind

LEMMA SweepDeleteKeepsIInv ==
    ASSUME IInv, SweepDelete PROVE IInv'
<1>1. selected' = 0 /\ UNCHANGED <<call, ran, effects, given>>
  BY DEF SweepDelete
<1>2. Len(ran) \in Nat
  BY DEF IInv, Types
<1>3. CASE rec.id # selected
  BY <1>1, <1>2, <1>3, RecordAges DEF SweepDelete, IInv, Types
<1>4. CASE rec.id = selected
  <2>1. rec' = NoRecord /\ swept' = swept \union {rec.id} /\ rec.id # 0
    BY <1>4 DEF SweepDelete
  <2>2. rec.id \in 1..Len(ran)
    BY <1>2, <2>1 DEF IInv, Latest
  <2>3. Types'
    BY <1>1, <1>2, <2>1, <2>2, NoRecordType DEF IInv, Types
  <2>4. Room' /\ Apart' /\ Answered'
    BY <1>1 DEF IInv, Room, Starting, Apart, Answered
  <2>5. Latest'
    BY <2>1, NoRecordType DEF Latest
  <2>6. Held'
    BY <1>1, <2>1 DEF IInv, Held
  <2>7. Kept'
    BY <1>1, <2>1 DEF IInv, Kept
  <2>. QED
    BY <2>3, <2>4, <2>5, <2>6, <2>7 DEF IInv
<1>. QED
  BY <1>3, <1>4

-----------------------------------------------------------------------------

LEMMA StepIInv == ASSUME IInv, [Next]_vars PROVE IInv'
<1>1. ASSUME NEW c \in Calls, Serve(c) PROVE IInv'
  BY <1>1, BeginKeepsIInv, FindKeepsIInv, EffectKeepsIInv, LogKeepsIInv, ThrowKeepsIInv,
     CompleteKeepsIInv, CompleteFailsKeepsIInv, AbandonKeepsIInv, CrashKeepsIInv DEF Serve
<1>2. ASSUME NEW c \in Calls, Forget(c) PROVE IInv'
  BY <1>2, ForgetKeepsIInv
<1>3. ASSUME NEW c \in Calls, NEW p \in Payloads, Send(c, p) PROVE IInv'
  BY <1>3, SendKeepsIInv
<1>4. CASE Expiry
  BY <1>4, ExpireKeepsIInv DEF Expiry
<1>5. CASE SweepFind
  BY <1>5, SweepFindKeepsIInv
<1>6. CASE SweepDelete
  BY <1>6, SweepDeleteKeepsIInv
<1>7. CASE UNCHANGED vars
  BY <1>7 DEF vars, IInv, Types, Room, Starting, Latest, Held, Apart, Answered, Kept
<1>. QED
  BY <1>1, <1>2, <1>3, <1>4, <1>5, <1>6, <1>7 DEF Next

\* The invariant that the theorems rest on, for every reachable state.
THEOREM Inductive == Spec => []IInv
<1>. QED
  BY InitIInv, StepIInv, PTL DEF Spec

\* Every variable keeps its type; no run is ever counted that was not recorded.
THEOREM TypeCorrect == Spec => []TypeOK
<1>1. IInv => TypeOK
  <2>. SUFFICES ASSUME IInv PROVE TypeOK
    OBVIOUS
  <2>1. PICK n \in Nat : n = Len(ran)
    BY DEF IInv, Types
  <2>2. n <= MaxRuns
    BY <2>1, StartingFinite, BoundsAssumption DEF IInv, Room
  <2>3. rec.id \in 0..n
    BY <2>1 DEF IInv, Latest
  <2>4. DOMAIN ran = 1..n
    BY <2>1 DEF IInv, Types
  <2>5. given \subseteq effects
    BY DEF IInv, Kept
  <2>. QED
    BY <2>1, <2>2, <2>3, <2>4, <2>5 DEF IInv, Types, TypeOK
<1>. QED
  BY <1>1, Inductive, PTL

\* The handler runs for one call of a key at a time unless a cleanup has removed the
\* record under the earlier one: beginRequest and abandonRequest see to that alone.
THEOREM OneRun == Spec => []OneRunAtATime
<1>1. IInv => OneRunAtATime
  <2>. SUFFICES ASSUME IInv, NEW c \in Running, NEW d \in Running, call[c].id < call[d].id
                PROVE  call[c].id \in swept
    BY DEF OneRunAtATime
  <2>1. PICK n \in Nat : n = Len(ran)
    BY DEF IInv, Types
  <2>2. c \in Calls /\ d \in Calls /\ Busy(call[c]) /\ Busy(call[d]) /\ Working(call[c])
    BY DEF Running, Busy, Working
  <2>3. call[c].id \in 1..n /\ call[d].id \in 1..n
    BY <2>1, <2>2 DEF IInv, Held
  <2>4. call[c].id = rec.id \/ call[c].id \in swept
    BY <2>2 DEF IInv, Held
  <2>5. call[c].id # n /\ call[c].id # 0
    BY <2>3
  <2>. QED
    BY <2>1, <2>4, <2>5 DEF IInv, Latest
<1>. QED
  BY <1>1, Inductive, PTL

\* Two different results are given for one key only when a cleanup has removed the record
\* of the first: a retry replays what completeRequest stored.
THEOREM Agree == Spec => []ResultsAgree
<1>1. IInv => ResultsAgree
  <2>. SUFFICES ASSUME IInv, NEW m \in given, NEW n \in given, m < n PROVE m \in swept
    BY DEF ResultsAgree
  <2>1. PICK l \in Nat : l = Len(ran)
    BY DEF IInv, Types
  <2>2. m \in 1..l /\ n \in 1..l
    BY <2>1 DEF IInv, Types, Kept
  <2>3. m # l
    BY <2>2
  <2>4. m \in swept \/ rec.id = m
    BY DEF IInv, Kept
  <2>. QED
    BY <2>1, <2>2, <2>3, <2>4 DEF IInv, Latest
<1>. QED
  BY <1>1, Inductive, PTL

\* A success answers the caller's own payload with a run whose effect is committed,
\* whether the response is new or the one that beginRequest found stored.
THEOREM Matches == Spec => []AnswerMatchesPayload
<1>1. IInv => AnswerMatchesPayload
  BY DEF IInv, Answered, AnswerMatchesPayload
<1>. QED
  BY <1>1, Inductive, PTL
=============================================================================
