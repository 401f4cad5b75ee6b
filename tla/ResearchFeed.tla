----------------------------- MODULE ResearchFeed -----------------------------
(***************************************************************************)
(* How the results of a study reach a page: the completion events of the   *)
(* worker's store (backend/app/research/store.py), their mirror in the     *)
(* database (research/database.py) and the polling page with its cache     *)
(* (frontend/src/services/studioResearch.js, studioResearchCache.js and    *)
(* pages/StudioResearch/StudioResearch.jsx).  One study, one worker, one   *)
(* browser tab.  Everybody reads deltas behind a cursor.                   *)
(***************************************************************************)
EXTENDS Naturals, FiniteSets

CONSTANTS
  Cases,
  Disturbances,  \* bound on page changes, reloads, clears, sign-outs and failed requests or passes
  Sources,    \* where the page reads: {"live"}, {"saved"} or both
  Null

ASSUME FeedAssumption == IsFiniteSet(Cases) /\ Cases # {} /\ Disturbances \in Nat /\ Sources \subseteq {"live", "saved"}

VARIABLES
  rev,        \* events: the revision at which a case finished, 0 while it has not
  complete,   \* studies.state is complete
  db,         \* the mirrored snapshot, or Null
  mirroring,  \* what the mirror pass that holds the advisory lock has read, or Null
  source,     \* study.database: the page reads the mirror instead of the store
  session,    \* the visitor's session
  memory,     \* the tab's cache entry for the study, or Null
  stored,     \* its copy in sessionStorage, or Null
  saving,     \* entries being compressed for sessionStorage
  reading,    \* a sessionStorage copy being decompressed, or Null
  page,       \* mounted (nothing read), waiting (for reading) or polling
  ask,        \* the page's request in flight, or Null
  ui,         \* what the page shows
  disturbed

feed == <<rev, complete>>
cache == <<memory, stored, saving, reading>>
vars == <<feed, db, mirroring, source, session, cache, page, ask, ui, disturbed>>

Snapshot == [cursor : Nat, rows : SUBSET Cases, complete : BOOLEAN]
Entry == [cursor : Nat, rows : SUBSET Cases, complete : BOOLEAN, session : Nat]
Loading == [entry : Entry, current : BOOLEAN]
Question == [step : {"state", "rows", "answered"}, base : Entry \cup {Null}, session : Nat,
             after : Nat, got : Snapshot]

ASSUME NullAssumption == Null \notin Snapshot /\ Null \notin Entry /\ Null \notin Loading /\ Null \notin Question

Blank == [cursor |-> 0, rows |-> {}, complete |-> FALSE]

Init ==
  /\ rev = [c \in Cases |-> 0] /\ complete = FALSE
  /\ db = Null /\ mirroring = Null
  /\ source \in Sources
  /\ session = 0
  /\ memory = Null /\ stored = Null /\ saving = {} /\ reading = Null
  /\ page = "mounted" /\ ask = Null /\ ui = Blank
  /\ disturbed = 0

Disturb == disturbed < Disturbances /\ disturbed' = disturbed + 1

-----------------------------------------------------------------------------
(* The store and its mirror *)

Finished == {c \in Cases : rev[c] # 0}
Cursor == Cardinality(Finished)               \* COALESCE(MAX(revision), 0)
After(n) == {c \in Finished : rev[c] > n}

\* save(): the result and its event, in one transaction.
Finish(c) ==
  /\ rev[c] = 0
  /\ rev' = [rev EXCEPT ![c] = Cursor + 1]
  /\ UNCHANGED <<complete, db, mirroring, source, session, cache, page, ask, ui, disturbed>>

\* The worker's last write.
Conclude ==
  /\ Finished = Cases /\ ~complete
  /\ complete' = TRUE
  /\ UNCHANGED <<rev, db, mirroring, source, session, cache, page, ask, ui, disturbed>>

\* mirror_once: under the lock, the mirrored cursor and then one snapshot of the store.
MirrorRead ==
  /\ mirroring = Null
  /\ mirroring' = [cursor |-> Cursor, complete |-> complete,
                   rows |-> IF db = Null THEN Finished ELSE After(db.cursor)]
  /\ UNCHANGED <<feed, db, source, session, cache, page, ask, ui, disturbed>>

\* Seeded bug: a pass replaces the mirrored rows by the ones it read.
MirrorReplaces ==
  /\ mirroring # Null
  /\ db' = mirroring
  /\ mirroring' = Null
  /\ UNCHANGED <<feed, source, session, cache, page, ask, ui, disturbed>>

\* The snapshot and the upserted rows are committed together.
MirrorWrite ==
  /\ mirroring # Null
  /\ db' = [mirroring EXCEPT !.rows = IF db = Null THEN @ ELSE @ \cup db.rows]
  /\ mirroring' = Null
  /\ UNCHANGED <<feed, source, session, cache, page, ask, ui, disturbed>>

\* The transaction fails or its API dies: nothing is written; retried in 5 s.
MirrorFails ==
  /\ Disturb
  /\ mirroring # Null
  /\ mirroring' = Null
  /\ UNCHANGED <<feed, db, source, session, cache, page, ask, ui>>

-----------------------------------------------------------------------------
(* The page *)

\* restore(): memory, else sessionStorage, which is decompressed first.
Restore ==
  /\ page = "mounted" /\ reading = Null
  /\ IF memory = Null /\ stored # Null
     THEN /\ reading' = [entry |-> stored, current |-> TRUE]
          /\ page' = "waiting"
          /\ UNCHANGED ui
     ELSE /\ page' = "polling"
          /\ ui' = IF memory = Null THEN Blank ELSE [x \in DOMAIN Blank |-> memory[x]]
          /\ UNCHANGED reading
  /\ UNCHANGED <<feed, db, mirroring, source, session, memory, stored, saving, ask, disturbed>>

\* Decompressed: a newer entry in memory wins, a clear in between voids it.
Restored ==
  /\ reading # Null
  /\ LET found == IF ~reading.current THEN Null ELSE IF memory # Null THEN memory ELSE reading.entry
     IN /\ memory' = IF reading.current THEN found ELSE memory
        /\ IF page = "waiting"
           THEN /\ page' = "polling"
                /\ ui' = IF found = Null THEN Blank ELSE [x \in DOMAIN Blank |-> found[x]]
           ELSE UNCHANGED <<page, ui>>
  /\ reading' = Null
  /\ UNCHANGED <<feed, db, mirroring, source, session, stored, saving, ask, disturbed>>

\* Seeded bug: the page stops asking once it shows every row.
AskUntilFull ==
  /\ page = "polling" /\ ask = Null /\ ui.rows # Cases
  /\ ask' = [step |-> "state", base |-> memory, session |-> session,
             after |-> IF memory = Null THEN ui.cursor ELSE memory.cursor, got |-> Blank]
  /\ UNCHANGED <<feed, db, mirroring, source, session, cache, page, ui, disturbed>>

\* studyRequest: a complete cached study is shown as it is; otherwise the server is asked
\* for what follows the cached cursor, or the page's own without a cache.
Ask ==
  /\ page = "polling" /\ ask = Null /\ ~ui.complete
  /\ IF memory # Null /\ memory.complete
     THEN /\ ui' = [cursor |-> memory.cursor, complete |-> TRUE, rows |-> ui.rows \cup memory.rows]
          /\ UNCHANGED ask
     ELSE /\ ask' = [step |-> "state", base |-> memory, session |-> session,
                     after |-> IF memory = Null THEN ui.cursor ELSE memory.cursor, got |-> Blank]
          /\ UNCHANGED ui
  /\ UNCHANGED <<feed, db, mirroring, source, session, cache, page, disturbed>>

\* The live server reads the study (authorized)...
AnswerState ==
  /\ ask # Null /\ source = "live" /\ ask.step = "state"
  /\ ask' = [ask EXCEPT !.step = "rows", !.got.complete = complete]
  /\ UNCHANGED <<feed, db, mirroring, source, session, cache, page, ui, disturbed>>

\* Seeded bug: the cursor is older than the rows read with it allow for.
AnswerRowsAhead ==
  /\ ask # Null /\ source = "live" /\ ask.step = "rows"
  /\ ask' = [ask EXCEPT !.step = "answered", !.got.cursor = Cardinality(Cases), !.got.rows = After(ask.after)]
  /\ UNCHANGED <<feed, db, mirroring, source, session, cache, page, ui, disturbed>>

\* ...and then cursor and rows in one transaction (changes).
AnswerRows ==
  /\ ask # Null /\ source = "live" /\ ask.step = "rows"
  /\ ask' = [ask EXCEPT !.step = "answered", !.got.cursor = Cursor, !.got.rows = After(ask.after)]
  /\ UNCHANGED <<feed, db, mirroring, source, session, cache, page, ui, disturbed>>

\* The saved study is read in one repeatable-read transaction.
AnswerSaved ==
  /\ ask # Null /\ source = "saved" /\ ask.step = "state" /\ db # Null
  /\ ask' = [ask EXCEPT !.step = "answered",
               !.got = [db EXCEPT !.rows = {c \in db.rows : rev[c] > ask.after /\ rev[c] <= db.cursor}]]
  /\ UNCHANGED <<feed, db, mirroring, source, session, cache, page, ui, disturbed>>

\* Not found, an error, no answer: the page asks again later.
AskFails ==
  /\ Disturb
  /\ ask # Null
  /\ ask' = Null
  /\ UNCHANGED <<feed, db, mirroring, source, session, cache, page, ui>>

\* What the answer amounts to with the rows the request started from.
Merged(base) == [cursor |-> ask.got.cursor, complete |-> ask.got.complete, session |-> ask.session,
                 rows |-> ask.got.rows \cup (IF base = Null THEN {} ELSE base.rows)]

Show(next) == ui' = [cursor |-> next.cursor, complete |-> next.complete, rows |-> ui.rows \cup next.rows]

\* Seeded bug: a delta without the rows before it is cached like a full snapshot.
ReceiveDelta ==
  /\ ask # Null /\ ask.step = "answered"
  /\ IF ask.session = session
     THEN /\ Show(Merged(ask.base))
          /\ memory' = Merged(ask.base) /\ stored' = Null /\ saving' = saving \cup {Merged(ask.base)}
     ELSE UNCHANGED <<ui, memory, stored, saving>>
  /\ ask' = Null
  /\ UNCHANGED <<feed, db, mirroring, source, session, reading, page, disturbed>>

\* The answer is merged, cached when it makes a full snapshot, and shown; one that comes
\* after a sign-out is discarded (checkSession).  saveResearchCache sets memory at once.
Receive ==
  /\ ask # Null /\ ask.step = "answered"
  /\ IF ask.session = session
     THEN LET next == Merged(ask.base)
          IN /\ Show(next)
             /\ IF ask.base # Null \/ ask.after = 0
                THEN memory' = next /\ stored' = Null /\ saving' = saving \cup {next}
                ELSE UNCHANGED <<memory, stored, saving>>
     ELSE UNCHANGED <<ui, memory, stored, saving>>
  /\ ask' = Null
  /\ UNCHANGED <<feed, db, mirroring, source, session, reading, page, disturbed>>

\* Seeded bug: a compressed entry is stored whatever memory holds by then.
SavedAnyway(e) ==
  /\ e \in saving
  /\ stored' = e
  /\ saving' = saving \ {e}
  /\ UNCHANGED <<feed, db, mirroring, source, session, memory, reading, page, ask, ui, disturbed>>

\* Compressed: stored if it is still the entry in memory and fits.
Saved(e) ==
  /\ e \in saving
  /\ stored' \in {stored} \cup (IF memory = e THEN {e} ELSE {})
  /\ saving' = saving \ {e}
  /\ UNCHANGED <<feed, db, mirroring, source, session, memory, reading, page, ask, ui, disturbed>>

-----------------------------------------------------------------------------
(* The visitor *)

\* Another study and back: the effect is aborted and mounts again.
Remount ==
  /\ Disturb
  /\ page' = "mounted" /\ ask' = Null /\ ui' = Blank
  /\ UNCHANGED <<feed, db, mirroring, source, session, cache>>

\* The tab is reloaded: only sessionStorage survives.
Reload ==
  /\ Disturb
  /\ page' = "mounted" /\ ask' = Null /\ ui' = Blank
  /\ memory' = Null /\ saving' = {} /\ reading' = Null
  /\ UNCHANGED <<feed, db, mirroring, source, session, stored>>

Cleared ==
  /\ memory' = Null /\ stored' = Null
  /\ reading' = IF reading = Null THEN Null ELSE [reading EXCEPT !.current = FALSE]
  /\ UNCHANGED saving

\* A start or pause of the study succeeds: its cache entry is cleared, polling goes on.
Act ==
  /\ Disturb /\ page = "polling" /\ source = "live"
  /\ Cleared
  /\ UNCHANGED <<feed, db, mirroring, source, session, page, ask, ui>>

\* The session ends and another begins; a request in flight is not cancelled by that.
SignOut ==
  /\ Disturb
  /\ session' = session + 1
  /\ Cleared
  /\ page' = "mounted" /\ ui' = Blank
  /\ UNCHANGED <<feed, db, mirroring, source, ask>>

-----------------------------------------------------------------------------
Mirror == MirrorRead \/ MirrorWrite
Answer == AnswerState \/ AnswerRows \/ AnswerSaved
Store == \E e \in saving : Saved(e)

Next ==
  \/ \E c \in Cases : Finish(c)
  \/ Conclude \/ Mirror \/ MirrorFails
  \/ Restore \/ Restored \/ Ask \/ Answer \/ AskFails \/ Receive \/ Store
  \/ Remount \/ Reload \/ Act \/ SignOut

Spec == Init /\ [][Next]_vars

\* The page's timers and promises, the servers and the replicate() task get on; each
\* retries what failed.
Fairness ==
  /\ WF_vars(Restore) /\ WF_vars(Restored) /\ WF_vars(Ask) /\ WF_vars(Store)
  /\ WF_vars(Answer) /\ WF_vars(Receive) /\ WF_vars(Mirror)

FairSpec == Spec /\ Fairness

-----------------------------------------------------------------------------
(* Properties *)

TypeOK ==
  /\ rev \in [Cases -> Nat] /\ complete \in BOOLEAN
  /\ db \in Snapshot \cup {Null} /\ mirroring \in Snapshot \cup {Null}
  /\ source \in Sources /\ session \in Nat /\ disturbed \in 0..Disturbances
  /\ memory \in Entry \cup {Null} /\ stored \in Entry \cup {Null} /\ saving \in SUBSET Entry
  /\ reading \in Loading \cup {Null}
  /\ page \in {"mounted", "waiting", "polling"}
  /\ ask \in Question \cup {Null}
  /\ ui \in Snapshot

\* The snapshots somebody may later continue from or show as final.
Copies == {ui} \cup {x \in {db, memory, stored} : x # Null}

\* A cursor covers its rows: whoever asks only for what follows it misses nothing.
CursorCovers ==
  \A s \in Copies : {c \in Finished : rev[c] <= s.cursor} \subseteq s.rows

\* A study shown, cached or mirrored as complete has every result: it is never asked
\* for again.
CompleteHasAll == \A s \in Copies : s.complete => s.rows = Cases

\* Nothing of an ended session is in the cache, whatever was in flight when it ended.
SessionsApart == \A s \in {memory, stored} \ {Null} : s.session = session

\* database.py promises of mirror_once that it never deletes: rows and cursor only grow.
MirrorKeeps == [][db # Null => db' # Null /\ db.rows \subseteq db'.rows /\ db.cursor <= db'.cursor]_vars

\* A completed study ends up complete in the mirror, though its last write adds no row, and on the page,
\* whatever was cached, aborted, cleared or reloaded on the way.
FeedArrives ==
  /\ complete ~> (db # Null /\ db.complete)
  /\ complete ~> ui.complete
=============================================================================
