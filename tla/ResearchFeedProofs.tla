--------------------------- MODULE ResearchFeedProofs ---------------------------
(***************************************************************************)
(* Proofs about ResearchFeed.  Every copy of the results, wherever it is   *)
(* and however it got there, is a delta of the store's events behind some  *)
(* cursor; a copy that somebody continues from is a delta behind 0.        *)
(***************************************************************************)
EXTENDS ResearchFeed, FiniteSetTheorems, TLAPS

FinishedIn(r) == {c \in Cases : r[c] # 0}

\* d holds what the events r have between after and its own cursor; it says complete only at the end.
Delta(d, after, r, done) ==
  /\ d.cursor <= Cardinality(FinishedIn(r))
  /\ d.rows \subseteq FinishedIn(r)
  /\ {c \in FinishedIn(r) : after < r[c] /\ r[c] <= d.cursor} \subseteq d.rows
  /\ d.complete => done /\ d.cursor = Cardinality(FinishedIn(r))

Whole(s, r, done) == Delta(s, 0, r, done)

StoreInv ==
  /\ \A c \in Cases : rev[c] <= Cursor
  /\ complete => Finished = Cases

CopyInv ==
  /\ Whole(ui, rev, complete)
  /\ db # Null => Whole(db, rev, complete)
  /\ memory # Null => Whole(memory, rev, complete)
  /\ stored # Null => Whole(stored, rev, complete)
  /\ \A e \in saving : Whole(e, rev, complete)
  /\ reading # Null => Whole(reading.entry, rev, complete)

Behind == IF db = Null THEN 0 ELSE db.cursor

MirrorInv ==
  mirroring # Null => Delta(mirroring, Behind, rev, complete) /\ Behind <= mirroring.cursor

\* Without a base, the answer continues what the page shows.
AskInv ==
  ask # Null =>
    /\ ask.base # Null => Whole(ask.base, rev, complete) /\ ask.after = ask.base.cursor
    /\ ask.session <= session
    /\ ask.base = Null /\ ask.session = session => page = "polling" /\ ask.after = ui.cursor
    /\ ask.got.complete => complete
    /\ ask.step = "answered" => Delta(ask.got, ask.after, rev, complete)

SessionInv ==
  /\ memory # Null => memory.session = session
  /\ stored # Null => stored.session = session
  /\ reading # Null /\ reading.current => reading.entry.session = session

IInv == TypeOK /\ StoreInv /\ CopyInv /\ MirrorInv /\ AskInv /\ SessionInv

-----------------------------------------------------------------------------
(* Deltas *)

\* The finished cases are finitely many, and the cursor counts them.
LEMMA CursorCounts ==
  /\ Finished = FinishedIn(rev) /\ Cursor = Cardinality(FinishedIn(rev))
  /\ \A r : IsFiniteSet(FinishedIn(r)) /\ Cardinality(FinishedIn(r)) \in Nat
             /\ Cardinality(FinishedIn(r)) <= Cardinality(Cases)
<1>1. \A r : IsFiniteSet(FinishedIn(r)) /\ Cardinality(FinishedIn(r)) <= Cardinality(Cases)
  BY FeedAssumption, FS_Subset DEF FinishedIn
<1> QED BY <1>1, FS_CardinalityType DEF Finished, FinishedIn, Cursor

\* The store only grows: a new event lies behind every cursor, and after the last one nothing comes.
LEMMA StoreGrows ==
  ASSUME TypeOK, StoreInv, (\E c \in Cases : Finish(c)) \/ Conclude \/ UNCHANGED feed
  PROVE  /\ StoreInv'
         /\ rev' \in [Cases -> Nat] /\ complete' \in BOOLEAN
         /\ complete => complete'
         /\ \A d \in Snapshot \cup Entry, after \in Nat :
              Delta(d, after, rev, complete) => Delta(d, after, rev', complete')
<1> USE DEF FinishedIn
<1>1. CASE UNCHANGED feed
  BY <1>1 DEF feed, StoreInv, Cursor, Finished, TypeOK
<1>2. CASE Conclude
  BY <1>2, CursorCounts DEF Conclude, StoreInv, Cursor, Finished, Delta, TypeOK
<1>3. ASSUME NEW c \in Cases, Finish(c) PROVE StoreInv' /\ rev' \in [Cases -> Nat] /\ complete' \in BOOLEAN
         /\ (complete => complete')
         /\ \A d \in Snapshot \cup Entry, after \in Nat :
              Delta(d, after, rev, complete) => Delta(d, after, rev', complete')
  <2>1. rev[c] = 0 /\ rev' = [rev EXCEPT ![c] = Cursor + 1] /\ complete' = complete /\ ~complete
    BY <1>3 DEF Finish, StoreInv, Finished, TypeOK
  <2>2. Cursor \in Nat /\ IsFiniteSet(Finished)
    BY CursorCounts
  <2>3. FinishedIn(rev') = FinishedIn(rev) \cup {c} /\ c \notin FinishedIn(rev)
    BY <2>1, <2>2 DEF TypeOK
  <2>4. Cardinality(FinishedIn(rev')) = Cursor + 1
    BY <2>2, <2>3, FS_AddElement, CursorCounts
  <2>5. rev' \in [Cases -> Nat] /\ \A x \in Cases : rev'[x] = IF x = c THEN Cursor + 1 ELSE rev[x]
    BY <2>1, <2>2 DEF TypeOK
  <2>6. StoreInv'
    <3>1. Cursor' = Cursor + 1 BY <2>4 DEF Cursor, Finished
    <3>2. \A x \in Cases : rev'[x] <= Cursor' BY <2>2, <2>5, <3>1 DEF StoreInv, TypeOK
    <3> QED BY <2>1, <3>2 DEF StoreInv
  <2>7. ASSUME NEW d \in Snapshot \cup Entry, NEW after \in Nat, Delta(d, after, rev, complete)
        PROVE  Delta(d, after, rev', complete')
    <3>1. d.cursor \in Nat /\ d.cursor <= Cursor /\ ~d.complete
      BY <2>1, <2>7, CursorCounts DEF Delta, Snapshot, Entry
    <3> HIDE DEF FinishedIn
    <3>2. ASSUME NEW x \in FinishedIn(rev'), after < rev'[x], rev'[x] <= d.cursor PROVE x \in d.rows
      <4>1. x \in Cases BY DEF FinishedIn
      <4>2. x # c BY <2>2, <2>5, <3>1, <3>2, <4>1
      <4>3. x \in FinishedIn(rev) /\ rev'[x] = rev[x] BY <2>3, <2>5, <4>1, <4>2
      <4> QED BY <2>7, <3>2, <4>3 DEF Delta
    <3>3. d.cursor <= Cardinality(FinishedIn(rev')) BY <2>2, <2>4, <3>1
    <3>4. d.rows \subseteq FinishedIn(rev') BY <2>3, <2>7 DEF Delta
    <3> QED BY <3>1, <3>2, <3>3, <3>4 DEF Delta
  <2> QED BY <2>1, <2>5, <2>6, <2>7 DEF TypeOK
<1> QED BY <1>1, <1>2, <1>3

\* A delta behind a cursor and rows that cover the cursor are together the whole.
LEMMA Together ==
  ASSUME NEW r \in [Cases -> Nat], NEW done, NEW after \in Nat, NEW d, NEW rows, NEW s,
         d.cursor \in Nat, Delta(d, after, r, done),
         rows \subseteq FinishedIn(r), {c \in FinishedIn(r) : r[c] <= after} \subseteq rows,
         s.cursor = d.cursor, s.complete = d.complete, s.rows = d.rows \cup rows
  PROVE  Whole(s, r, done)
<1>1. ASSUME NEW c \in FinishedIn(r), r[c] <= d.cursor PROVE c \in s.rows
  <2>1. r[c] \in Nat BY DEF FinishedIn
  <2>2. CASE after < r[c] BY <1>1, <2>2 DEF Delta
  <2>3. CASE r[c] <= after BY <2>3
  <2> QED BY <2>1, <2>2, <2>3
<1> QED BY <1>1 DEF Whole, Delta

\* What a whole copy covers, and more rows do it no harm.
LEMMA WholeCovers ==
  ASSUME NEW r \in [Cases -> Nat], NEW done, NEW s, Whole(s, r, done)
  PROVE  /\ {c \in FinishedIn(r) : r[c] <= s.cursor} \subseteq s.rows
         /\ s.rows \subseteq FinishedIn(r)
BY DEF Whole, Delta, FinishedIn

-----------------------------------------------------------------------------
(* Types *)

LEMMA TypeInit == Init => TypeOK
<1> SUFFICES ASSUME Init PROVE TypeOK
  OBVIOUS
<1>1. rev \in [Cases -> Nat] /\ complete \in BOOLEAN
  BY DEF Init
<1>3. disturbed \in 0..Disturbances /\ session \in Nat /\ saving \in SUBSET Entry
  BY FeedAssumption DEF Init
<1>2. ui \in Snapshot
  BY DEF Init, Snapshot, Blank
<1> QED BY <1>1, <1>2, <1>3 DEF Init, TypeOK

LEMMA TypeNext ==
  ASSUME TypeOK, [Next]_vars
  PROVE  TypeOK'
<1> USE FeedAssumption, NullAssumption
<1>0. Cursor \in Nat /\ Finished \subseteq Cases /\ \A i : After(i) \subseteq Finished
  BY CursorCounts DEF Finished, After
<1>a. Blank \in Snapshot
  BY DEF Blank, Snapshot
<1>b. \A e \in Entry : [x \in DOMAIN Blank |-> e[x]] \in Snapshot
  BY DEF Blank, Snapshot, Entry
<1>c. Disturb => disturbed' \in 0..Disturbances
  BY DEF Disturb, TypeOK
<1>1. ASSUME NEW c \in Cases, Finish(c) PROVE TypeOK'
  BY <1>1, <1>0 DEF Finish, TypeOK, cache
<1>2. CASE Conclude BY <1>2 DEF Conclude, TypeOK, cache
<1>3. CASE MirrorRead
  <2>1. mirroring' \in Snapshot
    BY <1>3, <1>0 DEF MirrorRead, TypeOK, Snapshot
  <2> QED BY <1>3, <2>1 DEF MirrorRead, TypeOK, cache, feed
<1>4. CASE MirrorWrite
  <2>1. db' \in Snapshot
    BY <1>4 DEF MirrorWrite, TypeOK, Snapshot
  <2> QED BY <1>4, <2>1 DEF MirrorWrite, TypeOK, cache, feed
<1>5. CASE MirrorFails BY <1>5, <1>c DEF MirrorFails, TypeOK, cache, feed
<1>6. CASE Restore
  <2>1. reading' \in Loading \cup {Null} /\ ui' \in Snapshot /\ page' \in {"mounted", "waiting", "polling"}
    <3>1. CASE memory = Null /\ stored # Null
      <4>1. stored \in Entry BY <3>1 DEF TypeOK
      <4>2. [entry |-> stored, current |-> TRUE] \in Loading BY <4>1 DEF Loading
      <4> QED BY <1>6, <3>1, <4>2 DEF Restore, TypeOK
    <3>2. CASE ~(memory = Null /\ stored # Null)
      BY <1>6, <1>a, <1>b, <3>2 DEF Restore, TypeOK
    <3> QED BY <3>1, <3>2
  <2> QED BY <1>6, <2>1 DEF Restore, TypeOK, feed
<1>7. CASE Restored
  <2>1. memory' \in Entry \cup {Null} /\ ui' \in Snapshot /\ page' \in {"mounted", "waiting", "polling"}
    BY <1>7, <1>a, <1>b DEF Restored, TypeOK, Loading
  <2> QED BY <1>7, <2>1 DEF Restored, TypeOK, feed
<1>8. CASE Ask
  <2>1. ui' \in Snapshot /\ ask' \in Question \cup {Null}
    <3>1. CASE memory # Null /\ memory.complete
      <4>1. memory \in Entry /\ ui \in Snapshot BY <3>1 DEF TypeOK
      <4>2. [cursor |-> memory.cursor, complete |-> TRUE, rows |-> ui.rows \cup memory.rows] \in Snapshot
        BY <4>1 DEF Entry, Snapshot
      <4> QED BY <1>8, <3>1, <4>2 DEF Ask, TypeOK
    <3>2. CASE ~(memory # Null /\ memory.complete)
      <4>1. (IF memory = Null THEN ui.cursor ELSE memory.cursor) \in Nat
        BY DEF TypeOK, Entry, Snapshot
      <4> QED BY <1>8, <1>a, <3>2, <4>1 DEF Ask, TypeOK, Question
    <3> QED BY <3>1, <3>2
  <2> QED BY <1>8, <2>1 DEF Ask, TypeOK, cache, feed
<1>9. CASE Answer
  <2>1. ask' \in Question
    <3>1. CASE AnswerState BY <3>1 DEF AnswerState, TypeOK, Question, Snapshot
    <3>2. CASE AnswerRows BY <3>2, <1>0 DEF AnswerRows, TypeOK, Question, Snapshot
    <3>3. CASE AnswerSaved
      <4>1. [db EXCEPT !.rows = {c \in db.rows : rev[c] > ask.after /\ rev[c] <= db.cursor}] \in Snapshot
        BY <3>3 DEF AnswerSaved, TypeOK, Snapshot
      <4> QED BY <3>3, <4>1 DEF AnswerSaved, TypeOK, Question
    <3> QED BY <1>9, <3>1, <3>2, <3>3 DEF Answer
  <2> QED BY <1>9, <2>1 DEF Answer, AnswerState, AnswerRows, AnswerSaved, TypeOK, cache, feed
<1>10. CASE AskFails BY <1>10, <1>c DEF AskFails, TypeOK, cache, feed
<1>11. CASE Receive
  <2>1. Merged(ask.base) \in Entry
    BY <1>11 DEF Receive, TypeOK, Question, Merged, Entry, Snapshot
  <2>2. memory' \in Entry \cup {Null} /\ stored' \in Entry \cup {Null} /\ saving' \in SUBSET Entry /\ ui' \in Snapshot
    BY <1>11, <2>1 DEF Receive, Show, TypeOK, Entry, Snapshot
  <2> QED BY <1>11, <2>2 DEF Receive, TypeOK, feed
<1>12. ASSUME NEW e \in saving, Saved(e) PROVE TypeOK'
  BY <1>12 DEF Saved, TypeOK, feed
<1>13. CASE Remount BY <1>13, <1>a, <1>c DEF Remount, TypeOK, cache, feed
<1>14. CASE Reload BY <1>14, <1>a, <1>c DEF Reload, TypeOK, feed
<1>15. ASSUME Cleared PROVE /\ memory' \in Entry \cup {Null} /\ stored' \in Entry \cup {Null}
                            /\ reading' \in Loading \cup {Null} /\ saving' \in SUBSET Entry
  BY <1>15 DEF Cleared, TypeOK, Loading
<1>16. CASE Act BY <1>16, <1>15, <1>c DEF Act, TypeOK, feed
<1>17. CASE SignOut BY <1>17, <1>15, <1>a, <1>c DEF SignOut, TypeOK, feed
<1>18. CASE UNCHANGED vars BY <1>18 DEF vars, TypeOK, cache, feed
<1> QED BY <1>1, <1>2, <1>3, <1>4, <1>5, <1>6, <1>7, <1>8, <1>9, <1>10, <1>11, <1>12, <1>13, <1>14, <1>16, <1>17, <1>18
        DEF Next, Mirror, Store

-----------------------------------------------------------------------------
(* Copies *)

LEMMA FeedStep ==
  ASSUME [Next]_vars
  PROVE  (\E c \in Cases : Finish(c)) \/ Conclude \/ UNCHANGED feed
BY DEF Next, vars, Mirror, Answer, Store, MirrorRead, MirrorWrite, MirrorFails, Restore, Restored, Ask, AnswerState,
       AnswerRows, AnswerSaved, AskFails, Receive, Saved, Remount, Reload, Act, SignOut

\* What holds of the copies now still holds of them after the store's step.
LEMMA CopiesAge ==
  ASSUME IInv, [Next]_vars
  PROVE  /\ StoreInv' /\ rev' \in [Cases -> Nat] /\ complete' \in BOOLEAN /\ (complete => complete')
         /\ Whole(ui, rev', complete')
         /\ db # Null => Whole(db, rev', complete')
         /\ memory # Null => Whole(memory, rev', complete')
         /\ stored # Null => Whole(stored, rev', complete')
         /\ \A e \in saving : Whole(e, rev', complete')
         /\ reading # Null => Whole(reading.entry, rev', complete')
         /\ mirroring # Null => Delta(mirroring, Behind, rev', complete') /\ Behind <= mirroring.cursor
         /\ ask # Null /\ ask.base # Null => Whole(ask.base, rev', complete')
         /\ ask # Null /\ ask.step = "answered" => Delta(ask.got, ask.after, rev', complete')
<1>1. /\ StoreInv' /\ rev' \in [Cases -> Nat] /\ complete' \in BOOLEAN /\ (complete => complete')
      /\ \A d \in Snapshot \cup Entry, after \in Nat :
              Delta(d, after, rev, complete) => Delta(d, after, rev', complete')
  BY FeedStep, StoreGrows DEF IInv
<1>2. Behind \in Nat
  BY DEF Behind, IInv, TypeOK, Snapshot
<1>3. /\ ui \in Snapshot /\ db \in Snapshot \cup {Null} /\ memory \in Entry \cup {Null} /\ stored \in Entry \cup {Null}
      /\ saving \subseteq Entry /\ (reading # Null => reading.entry \in Entry) /\ mirroring \in Snapshot \cup {Null}
      /\ ask # Null => ask.base \in Entry \cup {Null} /\ ask.got \in Snapshot /\ ask.after \in Nat
  BY DEF IInv, TypeOK, Loading, Question
<1> QED BY <1>1, <1>2, <1>3 DEF IInv, CopyInv, MirrorInv, AskInv, Whole

LEMMA BlankIsWhole ==
  ASSUME NEW r \in [Cases -> Nat], NEW done
  PROVE  Whole(Blank, r, done)
<1>1. Cardinality(FinishedIn(r)) \in Nat
  BY CursorCounts
<1>2. {c \in FinishedIn(r) : 0 < r[c] /\ r[c] <= 0} = {}
  BY DEF FinishedIn
<1> QED BY <1>1, <1>2 DEF Whole, Delta, Blank

LEMMA MirrorKept ==
  ASSUME IInv, [Next]_vars
  PROVE  MirrorInv'
<1> USE DEF IInv, MirrorInv, Behind
<1>1. CASE UNCHANGED <<db, mirroring>>
  BY <1>1, CopiesAge
<1>2. CASE MirrorRead
  <2>1. /\ mirroring' = [cursor |-> Cursor, complete |-> complete,
                         rows |-> IF db = Null THEN Finished ELSE After(db.cursor)]
        /\ db' = db /\ rev' = rev /\ complete' = complete
    BY <1>2 DEF MirrorRead, feed
  <2>2. Cursor = Cardinality(FinishedIn(rev)) /\ Finished = FinishedIn(rev) /\ Cursor \in Nat
    BY CursorCounts
  <2>3. Delta(mirroring', Behind, rev, complete)
    BY <2>1, <2>2 DEF Delta, After
  <2>4. Behind <= Cursor
    BY <2>2 DEF CopyInv, Whole, Delta
  <2> QED BY <2>1, <2>3, <2>4
<1>3. CASE MirrorWrite \/ MirrorFails
  BY <1>3 DEF MirrorWrite, MirrorFails
<1> QED BY <1>1, <1>2, <1>3 DEF Next, vars, Mirror, Answer, Store, Finish, Conclude, Restore, Restored, Ask, AnswerState,
       AnswerRows, AnswerSaved, AskFails, Receive, Saved, Remount, Reload, Act, SignOut

\* The answer makes a whole copy with its base, or with what the page shows.
LEMMA AnswerIsWhole ==
  ASSUME IInv, Receive, ask.session = session
  PROVE  /\ Whole(ui', rev, complete)
         /\ ask.base # Null \/ ask.after = 0 => Whole(Merged(ask.base), rev, complete)
<1> DEFINE next == Merged(ask.base)
           known == IF ask.base = Null THEN {} ELSE ask.base.rows
<1>1. /\ ask # Null /\ ask.step = "answered" /\ ask.after \in Nat /\ ask.got.cursor \in Nat /\ rev \in [Cases -> Nat]
      /\ ask.base # Null => ask.base.cursor \in Nat
  BY DEF Receive, IInv, TypeOK, Question, Snapshot, Entry
<1>2. Delta(ask.got, ask.after, rev, complete)
  BY <1>1 DEF IInv, AskInv
<1>3. next.cursor = ask.got.cursor /\ next.complete = ask.got.complete /\ next.rows = ask.got.rows \cup known
  BY DEF Merged
<1>4. ui'.cursor = ask.got.cursor /\ ui'.complete = ask.got.complete /\ ui'.rows = ask.got.rows \cup (known \cup ui.rows)
  BY <1>3 DEF Receive, Show
<1>5. known \subseteq FinishedIn(rev) /\ ui.rows \subseteq FinishedIn(rev)
  BY WholeCovers, <1>1 DEF IInv, AskInv, CopyInv
<1>6. ask.base # Null => {c \in FinishedIn(rev) : rev[c] <= ask.after} \subseteq known
  BY WholeCovers, <1>1 DEF IInv, AskInv
<1>7. ask.base = Null => {c \in FinishedIn(rev) : rev[c] <= ask.after} \subseteq ui.rows
  BY WholeCovers, <1>1 DEF IInv, AskInv, CopyInv
<1>8. ask.after = 0 => {c \in FinishedIn(rev) : rev[c] <= ask.after} = {}
  BY <1>1 DEF FinishedIn
<1>9. Whole(ui', rev, complete)
  <2>1. known \cup ui.rows \subseteq FinishedIn(rev)
        /\ {c \in FinishedIn(rev) : rev[c] <= ask.after} \subseteq known \cup ui.rows
    BY <1>5, <1>6, <1>7
  <2> HIDE DEF known
  <2> QED BY <1>1, <1>2, <1>4, <2>1, Together
<1>10. ASSUME ask.base # Null \/ ask.after = 0 PROVE Whole(next, rev, complete)
  <2>1. {c \in FinishedIn(rev) : rev[c] <= ask.after} \subseteq known
    BY <1>6, <1>8, <1>10
  <2> HIDE DEF known, next
  <2> QED BY <1>1, <1>2, <1>3, <1>5, <2>1, Together
<1> QED BY <1>9, <1>10

LEMMA CopiesKept ==
  ASSUME IInv, [Next]_vars
  PROVE  CopyInv'
<1> USE CopiesAge DEF CopyInv
<1>0. rev' \in [Cases -> Nat] /\ Whole(Blank, rev', complete')
  BY BlankIsWhole
<1>a. ASSUME NEW s PROVE Whole([x \in DOMAIN Blank |-> s[x]], rev', complete') <=> Whole(s, rev', complete')
  BY DEF Whole, Delta, Blank
<1>1. CASE UNCHANGED <<db, cache, ui>>
  BY <1>1 DEF cache
<1>2. CASE MirrorWrite
  <2>1. /\ UNCHANGED <<feed, cache, ui>> /\ mirroring # Null
        /\ db' = [mirroring EXCEPT !.rows = IF db = Null THEN @ ELSE @ \cup db.rows]
    BY <1>2 DEF MirrorWrite
  <2>2. mirroring \in Snapshot /\ Behind \in Nat /\ (db # Null => db.rows \subseteq Cases)
    BY <2>1 DEF IInv, TypeOK, Behind, Snapshot
  <2>3. Delta(mirroring, Behind, rev', complete')
    BY <2>1
  <2> DEFINE known == IF db = Null THEN {} ELSE db.rows
  <2>4. db'.cursor = mirroring.cursor /\ db'.complete = mirroring.complete /\ db'.rows = mirroring.rows \cup known
        /\ mirroring.cursor \in Nat
    BY <2>1, <2>2 DEF Snapshot
  <2>5. known \subseteq FinishedIn(rev') /\ {c \in FinishedIn(rev') : rev'[c] <= Behind} \subseteq known
    BY <1>0, WholeCovers DEF Behind, FinishedIn
  <2> HIDE DEF known
  <2>6. Whole(db', rev', complete')
    BY <1>0, <2>2, <2>3, <2>4, <2>5, Together
  <2> QED BY <2>1, <2>6 DEF cache
<1>3. CASE Restore
  BY <1>0, <1>3, <1>a DEF Restore
<1>4. CASE Restored
  BY <1>0, <1>4, <1>a DEF Restored
<1>5. CASE Ask
  <2>1. CASE memory # Null /\ memory.complete
    <3>1. UNCHANGED <<db, cache, feed>>
          /\ ui'.cursor = memory.cursor /\ ui'.complete /\ ui'.rows = memory.rows \cup ui.rows
      BY <1>5, <2>1 DEF Ask
    <3>2. Whole(memory, rev', complete') /\ Whole(ui, rev', complete')
      BY <2>1
    <3>3. Whole(ui', rev', complete')
      BY <2>1, <3>1, <3>2 DEF Whole, Delta
    <3> QED BY <3>1, <3>3 DEF cache
  <2>2. CASE ~(memory # Null /\ memory.complete)
    BY <1>5, <2>2 DEF Ask, cache
  <2> QED BY <2>1, <2>2
<1>6. CASE Receive
  <2>1. UNCHANGED <<feed, db, reading>>
    BY <1>6 DEF Receive
  <2>2. CASE ask.session = session
    <3>1. Whole(ui', rev', complete') /\ (ask.base # Null \/ ask.after = 0 => Whole(Merged(ask.base), rev', complete'))
      BY <1>6, <2>1, <2>2, AnswerIsWhole DEF feed
    <3> QED BY <1>6, <2>1, <2>2, <3>1 DEF Receive
  <2>3. CASE ask.session # session
    BY <1>6, <2>1, <2>3 DEF Receive
  <2> QED BY <2>2, <2>3
<1>7. ASSUME NEW e \in saving, Saved(e) PROVE CopyInv'
  BY <1>7 DEF Saved
<1>8. CASE Remount \/ Reload
  BY <1>0, <1>8 DEF Remount, Reload, cache
<1>9. CASE Act \/ SignOut
  <2>1. Cleared /\ db' = db /\ ui' \in {ui, Blank} BY <1>9 DEF Act, SignOut
  <2>2. reading' # Null => reading # Null /\ reading'.entry = reading.entry
    BY <2>1 DEF Cleared, IInv, TypeOK, Loading
  <2> QED BY <1>0, <2>1, <2>2 DEF Cleared
<1> QED BY <1>1, <1>2, <1>3, <1>4, <1>5, <1>6, <1>7, <1>8, <1>9 DEF Next, vars, Mirror, Answer, Store, Finish, Conclude,
       MirrorRead, MirrorFails, AnswerState, AnswerRows, AnswerSaved, AskFails

-----------------------------------------------------------------------------
(* Requests and sessions *)

LEMMA QuestionKept ==
  ASSUME IInv, [Next]_vars
  PROVE  AskInv'
<1> USE CopiesAge DEF AskInv
<1>1. CASE UNCHANGED <<ask, session, page, ui>>
  BY <1>1 DEF IInv
<1>2. CASE Restore \/ Restored
  BY <1>2 DEF IInv, Restore, Restored
<1>3. CASE Ask
  <2>1. ask' = Null \/
          /\ ask' = [step |-> "state", base |-> memory, session |-> session,
                     after |-> IF memory = Null THEN ui.cursor ELSE memory.cursor, got |-> Blank]
          /\ page' = "polling" /\ ui' = ui /\ session' = session
    BY <1>3 DEF Ask
  <2> QED BY <2>1 DEF IInv, TypeOK, Blank
<1>4. CASE AnswerState
  <2>1. ask' = [ask EXCEPT !.step = "rows", !.got.complete = complete] /\ ask # Null
        /\ UNCHANGED <<feed, session, page, ui>>
    BY <1>4 DEF AnswerState
  <2>2. /\ ask'.base = ask.base /\ ask'.session = ask.session /\ ask'.after = ask.after
        /\ ask'.step = "rows" /\ ask'.got.complete = complete
    BY <2>1 DEF IInv, TypeOK, Question, Snapshot
  <2> QED BY <2>1, <2>2 DEF IInv, feed
<1>5. CASE AnswerRows
  <2>1. /\ ask' = [ask EXCEPT !.step = "answered", !.got.cursor = Cursor, !.got.rows = After(ask.after)] /\ ask # Null
        /\ ask.step = "rows" /\ UNCHANGED <<feed, session, page, ui>>
    BY <1>5 DEF AnswerRows
  <2>2. /\ ask'.base = ask.base /\ ask'.session = ask.session /\ ask'.after = ask.after
        /\ ask'.got.complete = ask.got.complete /\ ask'.got.cursor = Cursor /\ ask'.got.rows = After(ask.after)
    BY <2>1 DEF IInv, TypeOK, Question, Snapshot
  <2>3. Cursor = Cardinality(FinishedIn(rev)) /\ Finished = FinishedIn(rev) /\ Cursor \in Nat
    BY CursorCounts
  <2>4. Delta(ask'.got, ask.after, rev, complete)
    <3>1. rev \in [Cases -> Nat] /\ ask.after \in Nat /\ (ask.got.complete => complete)
      BY <2>1 DEF IInv, TypeOK, Question
    <3>2. ask'.got.rows = {c \in FinishedIn(rev) : ask.after < rev[c]}
      BY <2>2, <2>3, <3>1 DEF After, FinishedIn
    <3> QED BY <2>2, <2>3, <3>1, <3>2 DEF Delta
  <2> QED BY <2>1, <2>2, <2>4 DEF IInv, feed
<1>6. CASE AnswerSaved
  <2> DEFINE got == [db EXCEPT !.rows = {c \in db.rows : rev[c] > ask.after /\ rev[c] <= db.cursor}]
  <2>1. ask' = [ask EXCEPT !.step = "answered", !.got = got] /\ ask # Null /\ db # Null
        /\ UNCHANGED <<feed, session, page, ui>>
    BY <1>6 DEF AnswerSaved
  <2>2. /\ ask'.base = ask.base /\ ask'.session = ask.session /\ ask'.after = ask.after /\ ask'.got = got
    BY <2>1 DEF IInv, TypeOK, Question
  <2>3. /\ got.cursor = db.cursor /\ got.complete = db.complete
        /\ got.rows = {c \in db.rows : rev[c] > ask.after /\ rev[c] <= db.cursor}
    BY <2>1 DEF IInv, TypeOK, Snapshot
  <2>4. rev \in [Cases -> Nat] /\ ask.after \in Nat /\ Whole(db, rev, complete)
    BY <2>1 DEF IInv, TypeOK, Question, CopyInv
  <2> HIDE DEF got
  <2>5. Delta(got, ask.after, rev, complete)
    BY <2>3, <2>4 DEF Whole, Delta, FinishedIn
  <2>6. got.complete => complete
    BY <2>5 DEF Delta
  <2> QED BY <2>1, <2>2, <2>5, <2>6 DEF IInv, feed
<1>7. CASE AskFails \/ Receive \/ Remount \/ Reload
  BY <1>7 DEF AskFails, Receive, Remount, Reload
<1>8. CASE SignOut
  BY <1>8 DEF IInv, SignOut, TypeOK, Question
<1> QED BY <1>1, <1>2, <1>3, <1>4, <1>5, <1>6, <1>7, <1>8 DEF Next, vars, Mirror, Answer, Store, Finish, Conclude,
       MirrorRead, MirrorWrite, MirrorFails, Saved, Act

LEMMA SessionKept ==
  ASSUME IInv, [Next]_vars
  PROVE  SessionInv'
<1> USE DEF SessionInv
<1>1. CASE UNCHANGED <<memory, stored, reading, session>>
  BY <1>1 DEF IInv
<1>2. CASE Restore
  BY <1>2 DEF IInv, Restore
<1>3. CASE Restored
  BY <1>3 DEF IInv, Restored
<1>4. CASE Receive
  BY <1>4 DEF IInv, Receive, Merged
<1>5. ASSUME NEW e \in saving, Saved(e) PROVE SessionInv'
  BY <1>5 DEF IInv, Saved, TypeOK
<1>6. CASE Reload
  BY <1>6 DEF IInv, Reload
<1>7. CASE Act \/ SignOut
  <2>1. Cleared BY <1>7 DEF Act, SignOut
  <2> QED BY <2>1 DEF Cleared, IInv, TypeOK, Loading
<1> QED BY <1>1, <1>2, <1>3, <1>4, <1>5, <1>6, <1>7 DEF Next, vars, cache, Mirror, Answer, Store, Finish, Conclude,
       MirrorRead, MirrorWrite, MirrorFails, Ask, AnswerState, AnswerRows, AnswerSaved, AskFails, Remount

-----------------------------------------------------------------------------
(* Theorems *)

\* Every copy in the store's mirror, the tab's caches and on the page is a whole prefix of the events.
THEOREM Invariant == Spec => []IInv
<1>1. Init => IInv
  <2> SUFFICES ASSUME Init PROVE IInv
    OBVIOUS
  <2>1. TypeOK BY TypeInit
  <2>2. rev \in [Cases -> Nat] /\ Finished = {} /\ ~complete
    BY <2>1 DEF Init, Finished, TypeOK
  <2>3. StoreInv
    BY <2>2, CursorCounts DEF Init, StoreInv
  <2>4. Whole(ui, rev, complete)
    BY <2>2, BlankIsWhole DEF Init
  <2> QED BY <2>1, <2>3, <2>4 DEF Init, IInv, CopyInv, MirrorInv, AskInv, SessionInv
<1>2. IInv /\ [Next]_vars => IInv'
  <2> SUFFICES ASSUME IInv, [Next]_vars PROVE IInv'
    OBVIOUS
  <2>1. TypeOK' BY TypeNext DEF IInv
  <2>2. StoreInv' BY CopiesAge
  <2> QED BY <2>1, <2>2, CopiesKept, MirrorKept, QuestionKept, SessionKept DEF IInv
<1> QED BY <1>1, <1>2, PTL DEF Spec

\* Types of the store, its mirror, the caches, the request and the page.
THEOREM TypeCorrect == Spec => []TypeOK
<1>1. IInv => TypeOK BY DEF IInv
<1> QED BY <1>1, Invariant, PTL

\* No cursor in the mirror, a cache or the page skips a row, whatever was aborted, cleared, reloaded or late.
THEOREM NothingSkipped == Spec => []CursorCovers
<1>1. IInv => CursorCovers
  <2> SUFFICES ASSUME IInv, NEW s \in Copies PROVE {c \in Finished : rev[c] <= s.cursor} \subseteq s.rows
    BY DEF CursorCovers
  <2>1. Whole(s, rev, complete) BY DEF Copies, IInv, CopyInv
  <2> QED BY <2>1, WholeCovers, CursorCounts DEF IInv, TypeOK
<1> QED BY <1>1, Invariant, PTL

\* What is shown, cached or mirrored as complete has the result of every case.
THEOREM CompleteIsWhole == Spec => []CompleteHasAll
<1>1. IInv => CompleteHasAll
  <2> SUFFICES ASSUME IInv, NEW s \in Copies, s.complete PROVE s.rows = Cases
    BY DEF CompleteHasAll
  <2>1. Whole(s, rev, complete) BY DEF Copies, IInv, CopyInv
  <2>2. complete /\ s.cursor = Cursor /\ s.rows \subseteq Finished
    BY <2>1, CursorCounts DEF Whole, Delta
  <2>3. \A c \in Cases : c \in Finished /\ rev[c] <= s.cursor
    BY <2>2 DEF IInv, StoreInv
  <2>4. {c \in Finished : rev[c] <= s.cursor} \subseteq s.rows
    BY <2>1, WholeCovers, CursorCounts DEF IInv, TypeOK
  <2> QED BY <2>2, <2>3, <2>4 DEF Finished
<1> QED BY <1>1, Invariant, PTL

\* A sign-out leaves nothing of its session in the caches, and what was in flight adds nothing later.
THEOREM SessionsStayApart == Spec => []SessionsApart
<1>1. IInv => SessionsApart BY DEF IInv, SessionInv, SessionsApart
<1> QED BY <1>1, Invariant, PTL

\* The mirror never loses a row and its cursor never goes back, whichever pass fails.
THEOREM MirrorOnlyGrows == Spec => MirrorKeeps
<1>1. IInv /\ [Next]_vars => [db # Null => db' # Null /\ db.rows \subseteq db'.rows /\ db.cursor <= db'.cursor]_vars
  <2> SUFFICES ASSUME IInv, [Next]_vars, db # Null
               PROVE  db' # Null /\ db.rows \subseteq db'.rows /\ db.cursor <= db'.cursor
    OBVIOUS
  <2>1. CASE db' = db
    BY <2>1 DEF IInv, TypeOK, Snapshot
  <2>2. CASE MirrorWrite
    <3>1. mirroring # Null /\ db' = [mirroring EXCEPT !.rows = mirroring.rows \cup db.rows] /\ mirroring \in Snapshot
      BY <2>2 DEF MirrorWrite, IInv, TypeOK
    <3>2. db'.rows = mirroring.rows \cup db.rows /\ db'.cursor = mirroring.cursor
      BY <3>1 DEF Snapshot
    <3>3. db.cursor <= mirroring.cursor
      BY <3>1 DEF IInv, MirrorInv, Behind
    <3>4. db' \in Snapshot
      BY TypeNext, <3>1 DEF IInv, TypeOK, Snapshot
    <3> QED BY <3>2, <3>3, <3>4, NullAssumption
  <2> QED BY <2>1, <2>2 DEF Next, vars, Mirror, Answer, Store, Finish, Conclude, MirrorRead, MirrorFails, Restore, Restored,
       Ask, AnswerState, AnswerRows, AnswerSaved, AskFails, Receive, Saved, Remount, Reload, Act, SignOut
<1> QED BY <1>1, Invariant, PTL DEF Spec, MirrorKeeps
=============================================================================
