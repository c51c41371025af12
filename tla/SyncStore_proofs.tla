--------------------------- MODULE SyncStore_proofs ---------------------------
(***************************************************************************)
(* The properties of SyncStore, proved for any number of concurrent runs,  *)
(* items, applications, days and purges.                                   *)
(*                                                                         *)
(* None of them is inductive alone.  The argument has three layers:        *)
(*  - QInv: what the write lock protects.  From the flush of a run's first *)
(*    event until that run ends nobody else changes the review queue, so   *)
(*    what the run read about suggestions is still true at its commit.     *)
(*    Nothing is assumed about where the runs execute.                     *)
(*  - DInv: what the event loop protects.  If every run is on the loop, no *)
(*    other run acts between a run's look at the ledger and its flush.     *)
(*  - FInv: what neither protects.  The endpoints of the thread pool may   *)
(*    change the timeline a run has read, so it speaks of the applications *)
(*    that were not overtaken, again wherever the runs execute.            *)
(***************************************************************************)
EXTENDS SyncStore, TLAPS

USE DEF history

(* Only the holder of the write lock has flushed rows, and a suggestion is  *)
(* only added after the flush of its event.                                 *)
LockInv ==
    /\ lock = Free => txEvents = {} /\ txLedger = {} /\ txQueue = {}
    /\ \A s \in Sessions : s # lock => bufQueue[s] = {}

(* The suggestions that the next commit would add. *)
Uncommitted == IF lock = Free THEN {} ELSE txQueue \cup bufQueue[lock]

QueueInv ==
    /\ \A p, q \in queue \cup Uncommitted : p.item = q.item => p = q
    /\ \A q \in Uncommitted :
          /\ q.review = "pending"
          /\ \A p \in queue : p.item # q.item
          /\ ~\E p \in queue :
                p.app = q.app /\ p.status = q.status /\ p.review # "pending"

QInv == TypeOK /\ LockInv /\ QueueInv

(* A committed synced event of this epoch is in the ledger; a flushed one   *)
(* is marked by its run, is of this epoch, and is not in the ledger; an     *)
(* item about to be saved is new to the ledger and to its run.              *)
LedgerInv ==
    /\ \A s \in Sessions : buf[s] \subseteq seen[s]
    /\ \A e \in events : e.epoch <= epoch
    /\ \A e \in events :
          e.item # NoItem /\ e.epoch = epoch => e.item \in ledger
    /\ \A e \in txEvents :
          /\ e.item \in Items \ ledger
          /\ e.item \in txLedger \cup buf[lock]
          /\ e.item \in seen[lock]
          /\ e.epoch = epoch
    /\ \A e, f \in txEvents : e.item = f.item => e = f
    /\ \A s \in Sessions :
          pick[s] # NoPick => pick[s].item \notin ledger \cup seen[s]

DInv == QInv /\ LedgerInv /\ AtMostOncePerPurge

(* The application and the floor that admitted a flushed event, or an item  *)
(* about to be saved, are still there, unless the application was overtaken. *)
FloorInv ==
    /\ \A e \in txEvents : e.app \notin overtaken =>
          apps[e.app] # Absent /\ AtOrAboveFloor(events, e.app, e.day)
    /\ \A s \in Sessions : pick[s] # NoPick /\ pick[s].app \notin overtaken =>
          /\ apps[pick[s].app] # Absent
          /\ AtOrAboveFloor(EventsSeenBy(s), pick[s].app, pick[s].day)

FInv == QInv /\ FloorInv /\ EventsHaveApplication

-----------------------------------------------------------------------------
(* Type correctness is inductive by itself.                                 *)

LEMMA NewSuggestionsType ==
  ASSUME TypeOK, NEW s \in Sessions, pick[s] # NoPick
  PROVE  NewSuggestions(s, pick[s]) \subseteq Suggestion
<1>1. pick[s] \in Pick
  BY DEF TypeOK
<1> QED BY <1>1 DEF NewSuggestions, Pick, Suggestion, Review

LEMMA ManualRowType ==
  ASSUME TypeOK, NEW a \in Apps, NEW d \in Days, ManualRow(a, d)
  PROVE  /\ events' \subseteq Event
         /\ \A e \in events' : e \in events \/ (e.item = NoItem /\ e.epoch = 0)
<1>1. PICK i \in FreeIds(events) :
        events' = events \cup
          {[id |-> i, app |-> a, day |-> d, item |-> NoItem, epoch |-> 0]}
  BY DEF ManualRow
<1> QED BY <1>1 DEF FreeIds, TypeOK, Event

(* What every endpoint may do to the review queue: change verdicts.         *)
LEMMA VerdictsOnly ==
  ASSUME TypeOK, UserStep
  PROVE  /\ queue' \subseteq Suggestion
         /\ \A r \in queue' : \E p \in queue : p.item = r.item
         /\ (\A p, q \in queue : p.item = q.item => p = q)
               => (\A p, q \in queue' : p.item = q.item => p = q)
<1> DEFINE Verdicts ==
      /\ queue' \subseteq Suggestion
      /\ \A r \in queue' : \E p \in queue : p.item = r.item
      /\ (\A p, q \in queue : p.item = q.item => p = q)
            => (\A p, q \in queue' : p.item = q.item => p = q)
<1>1. queue \subseteq Suggestion
  BY DEF TypeOK
<1>2. \A q \in queue, v \in Review :
        [q EXCEPT !.review = v] \in Suggestion /\ [q EXCEPT !.review = v].item = q.item
  BY <1>1 DEF Suggestion
<1>3. ASSUME NEW q \in queue, NEW v \in Review, Reviewed(q, v)
      PROVE  Verdicts
  <2> DEFINE new == [q EXCEPT !.review = v]
  <2>1. new \in Suggestion /\ new.item = q.item
    BY <1>2
  <2>2. queue' = (queue \ {q}) \cup {new}
    BY <1>3 DEF Reviewed
  <2> HIDE DEF new
  <2> QED BY <1>1, <2>1, <2>2
<1>4. ASSUME RejectPending PROVE Verdicts
  <2> DEFINE f(q) == IF q.review = "pending" THEN [q EXCEPT !.review = "rejected"] ELSE q
  <2>1. queue' = {f(q) : q \in queue}
    BY <1>4 DEF RejectPending
  <2>2. \A q \in queue : f(q) \in Suggestion /\ f(q).item = q.item
    BY <1>1, <1>2 DEF Review
  <2> HIDE DEF f
  <2> QED BY <2>1, <2>2
<1>5. ASSUME queue' = queue PROVE Verdicts
  BY <1>1, <1>5
<1>6. (\E q \in queue, v \in Review : Reviewed(q, v)) \/ RejectPending \/ queue' = queue
  BY DEF UserStep, DeleteApp, AddEvent, CreateApp, SetStatus, Approve, Reject,
     DeleteEvent, EditEventDay, PurgeSource, Review
<1> HIDE DEF Verdicts
<1>7. Verdicts
  BY <1>3, <1>4, <1>5, <1>6
<1> QED BY <1>7 DEF Verdicts

(* Every endpoint runs while nobody holds the write lock and leaves the     *)
(* sessions alone.                                                          *)
LEMMA UserFrame ==
  ASSUME UserStep
  PROVE  /\ lock = Free
         /\ UNCHANGED <<lock, txEvents, txLedger, txQueue, buf, bufQueue, pick, seen>>
BY DEF UserStep, DeleteApp, AddEvent, CreateApp, SetStatus, Approve, Reject,
   RejectPending, DeleteEvent, EditEventDay, PurgeSource, LoopEndpoint, Endpoint,
   tx, run

(* What every endpoint may do to the timeline: add rows without an item,    *)
(* remove rows, and edit rows keeping their id, application and item.       *)
LEMMA UserRows ==
  ASSUME TypeOK, UserStep
  PROVE  /\ events' \subseteq Event
         /\ apps' \in [Apps -> Statuses \cup {Absent}]
         /\ \A e \in events' :
               \/ e \in events
               \/ e.item = NoItem /\ e.epoch = 0
               \/ \E f \in events : /\ f \notin events'
                                   /\ e.id = f.id /\ e.app = f.app
                                   /\ e.item = f.item /\ e.epoch = f.epoch
                                   /\ \A g \in events' : g \in events \/ g = e
<1> DEFINE Rows ==
      \A e \in events' :
         \/ e \in events
         \/ e.item = NoItem /\ e.epoch = 0
         \/ \E f \in events : /\ f \notin events'
                             /\ e.id = f.id /\ e.app = f.app
                             /\ e.item = f.item /\ e.epoch = f.epoch
                             /\ \A g \in events' : g \in events \/ g = e
<1>1. events \subseteq Event /\ apps \in [Apps -> Statuses \cup {Absent}]
      /\ queue \subseteq Suggestion
  BY DEF TypeOK
<1>2. ASSUME NEW a \in Apps, NEW d \in Days, ManualRow(a, d)
      PROVE  events' \subseteq Event /\ Rows
  BY <1>2, ManualRowType
<1>3. ASSUME NEW e \in events, NEW d \in Days, EditEventDay(e, d)
      PROVE  events' \subseteq Event /\ Rows
  <2> DEFINE new == [e EXCEPT !.day = d]
  <2>1. new \in Event /\ new.id = e.id /\ new.app = e.app /\ new.item = e.item
        /\ new.epoch = e.epoch
    BY <1>1 DEF Event
  <2>2. events' = (events \ {e}) \cup {new}
    BY <1>3 DEF EditEventDay
  <2> HIDE DEF new
  <2>3. CASE e = new
    BY <1>1, <2>1, <2>2, <2>3
  <2>4. CASE e # new
    BY <1>1, <2>1, <2>2, <2>4
  <2> QED BY <2>3, <2>4
<1>4. ASSUME events' \subseteq events
      PROVE  events' \subseteq Event /\ Rows
  BY <1>1, <1>4
<1>5. \/ events' \subseteq events
      \/ \E a \in Apps, d \in Days : ManualRow(a, d)
      \/ \E e \in events, d \in Days : EditEventDay(e, d)
  BY DEF UserStep, DeleteApp, AddEvent, CreateApp, SetStatus, Approve, Reject,
     RejectPending, DeleteEvent, PurgeSource
<1>6. events' \subseteq Event /\ Rows
  BY <1>2, <1>3, <1>4, <1>5
<1>7. apps' \in [Apps -> Statuses \cup {Absent}]
  BY <1>1 DEF UserStep, DeleteApp, AddEvent, CreateApp, SetStatus, Approve, Reject,
     RejectPending, DeleteEvent, EditEventDay, PurgeSource, Suggestion
<1> QED BY <1>6, <1>7

LEMMA TypeStep == TypeOK /\ [StoreNext]_store => TypeOK'
<1> SUFFICES ASSUME TypeOK, [StoreNext]_store PROVE TypeOK'
  OBVIOUS
<1> USE StoreAssumption
<1>1. ASSUME NEW s \in Sessions, NEW x \in Items, ProcessItem(s, x)
      PROVE  TypeOK'
  <2>1. CASE SkipSynced(s, x) \/ MarkOnly(s, x)
    BY <2>1 DEF TypeOK, SkipSynced, MarkOnly, MarkSynced, tables, tx
  <2>2. ASSUME NEW a \in Apps, NEW d \in Days \cup {NoDay},
               NEW st \in Statuses \cup {NoStatus}, Admit(s, x, a, d, st)
        PROVE  TypeOK'
    <3>1. d \in Days
      BY <2>2 DEF Admit, Predates
    <3>2. [item |-> x, app |-> a, day |-> d,
           asks |-> IF AsksForStatus(a, st) THEN st ELSE NoStatus] \in Pick
      BY <3>1 DEF Pick
    <3> QED BY <2>2, <3>2 DEF TypeOK, Admit, tables, tx
  <2> QED BY <1>1, <2>1, <2>2
          DEF ProcessItem, MarkUnmatched, MarkAppGone, MarkPredating
<1>2. ASSUME NEW s \in Sessions, SaveEvent(s)
      PROVE  TypeOK'
  <2>1. pick[s] \in Pick
    BY <1>2 DEF TypeOK, SaveEvent
  <2>2. txEvents' \subseteq Event
    BY <1>2, <2>1 DEF TypeOK, SaveEvent, FreeIds, Pick, Event
  <2>3. NewSuggestions(s, pick[s]) \subseteq Suggestion
    BY <1>2, NewSuggestionsType DEF SaveEvent
  <2>4. pick[s].item \in Items
    BY <2>1 DEF Pick
  <2> QED BY <1>2, <2>2, <2>3, <2>4 DEF TypeOK, SaveEvent, MarkSynced, tables
<1>3. ASSUME NEW s \in Sessions,
             Commit(s) \/ (\E a \in Apps : CommitThenDelete(s, a)) \/ Rollback(s)
      PROVE  TypeOK'
  BY <1>3 DEF TypeOK, Commit, CommitThenDelete, Overtake, EndTransaction, Rollback,
     tables, tx
<1>4. CASE Crash
  BY <1>4 DEF TypeOK, Crash, tables
<1>5. CASE UserStep
  <2>1. ledger' \subseteq Items /\ epoch' \in Nat
    BY <1>5 DEF TypeOK, UserStep, DeleteApp, AddEvent, CreateApp, SetStatus, Approve,
       Reject, RejectPending, DeleteEvent, EditEventDay, PurgeSource
  <2>2. overtaken' = overtaken \/ \E a \in Apps : Overtake(a)
    BY <1>5 DEF TypeOK, Event, UserStep, DeleteApp, AddEvent, CreateApp, SetStatus,
       Approve, Reject, RejectPending, DeleteEvent, EditEventDay, PurgeSource
  <2>3. overtaken' \subseteq Apps
    BY <2>2 DEF TypeOK, Overtake
  <2> QED BY <1>5, <2>1, <2>3, UserFrame, UserRows, VerdictsOnly DEF TypeOK
<1>6. CASE UNCHANGED store
  BY <1>6 DEF TypeOK, store, tables, tx, run
<1> QED BY <1>1, <1>2, <1>3, <1>4, <1>5, <1>6 DEF StoreNext, RunStep

-----------------------------------------------------------------------------
(* QInv: the lock and the review queue. *)

LEMMA InitQ == StoreInit => QInv
BY StoreAssumption DEF StoreInit, QInv, TypeOK, LockInv, QueueInv, Uncommitted

LEMMA SaveKeepsQueue ==
  ASSUME QInv, NEW s \in Sessions, SaveEvent(s)
  PROVE  LockInv' /\ QueueInv'
<1> USE StoreAssumption DEF tables
<1>1. LockInv'
  BY DEF QInv, LockInv, TypeOK, SaveEvent, CanWrite
<1> DEFINE new == NewSuggestions(s, pick[s])
<1>2. Uncommitted = txQueue \cup bufQueue[s]
  BY DEF Uncommitted, SaveEvent, CanWrite, QInv, LockInv
<1>3. Uncommitted' = Uncommitted \cup new
  BY <1>2 DEF Uncommitted, SaveEvent, QInv, TypeOK
<1>4. \A q \in new : /\ q.item = pick[s].item /\ q.review = "pending"
                    /\ \A p \in queue \cup Uncommitted : p.item # pick[s].item
                    /\ \A r \in queue : ~(/\ r.app = q.app /\ r.status = q.status
                                          /\ r.review # "pending")
  BY <1>2 DEF NewSuggestions, HasSuggestion, AlreadyReviewed
<1>5. \A p, q \in new : p = q
  BY DEF NewSuggestions
<1>6. queue' = queue
  BY DEF SaveEvent
<1> HIDE DEF new
<1>7. QueueInv'
  BY <1>3, <1>4, <1>5, <1>6 DEF QInv, QueueInv
<1> QED BY <1>1, <1>7

(* A commit moves exactly the uncommitted suggestions to the queue. *)
LEMMA CommitQueue ==
  ASSUME QInv, NEW s \in Sessions, EndTransaction(s)
  PROVE  queue' = queue \cup Uncommitted /\ Uncommitted' = {} /\ LockInv'
<1> USE StoreAssumption DEF EndTransaction
<1>1. queue' = queue \cup Uncommitted
  BY DEF Uncommitted, CanWrite, QInv, LockInv
<1>2. Uncommitted' = {}
  BY DEF Uncommitted
<1>3. LockInv'
  BY DEF QInv, TypeOK, LockInv, CanWrite
<1> QED BY <1>1, <1>2, <1>3

LEMMA StepQ == QInv /\ [StoreNext]_store => QInv'
<1> SUFFICES ASSUME QInv, [StoreNext]_store PROVE LockInv' /\ QueueInv'
  BY TypeStep DEF QInv
<1> USE StoreAssumption
<1>1. ASSUME NEW s \in Sessions, NEW x \in Items, ProcessItem(s, x)
      PROVE  LockInv' /\ QueueInv'
  <2>1. UNCHANGED <<queue, lock, txEvents, txLedger, txQueue, bufQueue>>
    BY <1>1 DEF ProcessItem, SkipSynced, MarkUnmatched, MarkAppGone, MarkPredating,
       MarkOnly, Admit, tables, tx
  <2> QED BY <2>1 DEF QInv, LockInv, QueueInv, Uncommitted
<1>2. ASSUME NEW s \in Sessions, SaveEvent(s)
      PROVE  LockInv' /\ QueueInv'
  BY <1>2, SaveKeepsQueue
<1>3. ASSUME NEW s \in Sessions, EndTransaction(s)
      PROVE  LockInv' /\ QueueInv'
  BY <1>3, CommitQueue DEF QInv, QueueInv
<1>4. ASSUME NEW s \in Sessions, Rollback(s)
      PROVE  LockInv' /\ QueueInv'
  <2>1. LockInv'
    BY <1>4 DEF Rollback, QInv, TypeOK, LockInv, tx
  <2>2. Uncommitted' \subseteq Uncommitted /\ queue' = queue
    BY <1>4 DEF Rollback, QInv, TypeOK, Uncommitted, tx, tables
  <2> QED BY <2>1, <2>2 DEF QInv, QueueInv
<1>5. CASE Crash
  BY <1>5 DEF Crash, QInv, LockInv, QueueInv, Uncommitted, tables
<1>6. CASE UserStep
  <2>1. LockInv' /\ Uncommitted' = {}
    BY <1>6, UserFrame DEF QInv, LockInv, Uncommitted
  <2> QED BY <1>6, <2>1, VerdictsOnly DEF QInv, QueueInv
<1>7. CASE UNCHANGED store
  BY <1>7 DEF store, tables, tx, run, QInv, LockInv, QueueInv, Uncommitted
<1> QED BY <1>1, <1>2, <1>3, <1>4, <1>5, <1>6, <1>7
        DEF StoreNext, RunStep, Commit, CommitThenDelete

LEMMA AlwaysQ == StoreSpec => []QInv
BY InitQ, StepQ, PTL DEF StoreSpec

(* Every table and every session holds rows of its type, whatever the runs  *)
(* and the endpoints do.                                                    *)
THEOREM TypeCorrect == StoreSpec => []TypeOK
<1>1. QInv => TypeOK
  BY DEF QInv
<1> QED BY <1>1, AlwaysQ, PTL

(* The review queue never holds two suggestions of one item, wherever the   *)
(* runs execute and whatever is purged and processed again.                 *)
THEOREM SuggestionsUnique == StoreSpec => []OneSuggestionPerItem
<1>1. QInv => OneSuggestionPerItem
  BY DEF QInv, QueueInv, OneSuggestionPerItem
<1> QED BY <1>1, AlwaysQ, PTL

(* A status a person approved or rejected for an application is not asked   *)
(* for again by any later or concurrent sync.                               *)
THEOREM ReviewIsFinal == StoreSpec => NoRepeatedSuggestion
<1> DEFINE Final ==
      \A q \in queue' :
          (\A p \in queue : p.item # q.item)
              => ~\E p \in queue : /\ p.app = q.app /\ p.status = q.status
                                   /\ p.review # "pending"
<1>1. ASSUME QInv, StoreNext PROVE Final
  <2>1. ASSUME NEW s \in Sessions, EndTransaction(s) PROVE Final
    BY <1>1, <2>1, CommitQueue DEF QInv, QueueInv
  <2>2. CASE UserStep
    BY <1>1, <2>2, VerdictsOnly DEF QInv
  <2>3. ASSUME ~\E s \in Sessions : EndTransaction(s), ~UserStep
        PROVE  queue' = queue
    BY <1>1, <2>3 DEF StoreNext, RunStep, ProcessItem, SkipSynced, MarkUnmatched,
       MarkAppGone, MarkPredating, MarkOnly, Admit, SaveEvent, Commit,
       CommitThenDelete, Rollback, Crash, tables
  <2> QED BY <2>1, <2>2, <2>3
<1>2. QInv /\ [StoreNext]_store => [Final]_store
  BY <1>1
<1>3. StoreSpec => [][Final]_store
  BY <1>2, AlwaysQ, PTL DEF StoreSpec
<1> QED BY <1>3 DEF NoRepeatedSuggestion

-----------------------------------------------------------------------------
(* DInv: every run on the event loop. *)

(* Whoever acts, no other run of the loop is about to save an item. *)
LEMMA TurnAlone ==
  ASSUME Threads = {}, NEW s \in Sessions, HasTurn(s)
  PROVE  \A t \in Sessions : t # s => pick[t] = NoPick
BY DEF HasTurn

LEMMA SaveKeepsLedger ==
  ASSUME DInv, Threads = {}, NEW s \in Sessions, HasTurn(s), SaveEvent(s)
  PROVE  LedgerInv'
<1> USE StoreAssumption DEF tables
<1> DEFINE p == pick[s]
<1>1. PICK i \in FreeIds(events \cup txEvents) :
        txEvents' = txEvents \cup
          {[id |-> i, app |-> p.app, day |-> p.day, item |-> p.item, epoch |-> epoch]}
  BY DEF SaveEvent
<1> DEFINE row ==
      [id |-> i, app |-> p.app, day |-> p.day, item |-> p.item, epoch |-> epoch]
<1>2. p.item \in Items /\ p.item \notin ledger /\ p.item \notin seen[s]
  BY DEF SaveEvent, DInv, QInv, TypeOK, LedgerInv, Pick
<1>3. \A e \in txEvents : lock = s /\ e.item # p.item
  BY <1>2 DEF SaveEvent, CanWrite, DInv, QInv, LockInv, LedgerInv
<1>4. /\ row.item = p.item /\ row.epoch = epoch
      /\ txEvents' = txEvents \cup {row}
  BY <1>1
<1>5. /\ buf' = [buf EXCEPT ![s] = {p.item}] /\ txLedger' = txLedger \cup buf[s]
      /\ seen' = [seen EXCEPT ![s] = @ \cup {p.item}]
      /\ pick' = [pick EXCEPT ![s] = NoPick] /\ lock' = s
      /\ UNCHANGED <<events, ledger, epoch>>
  BY DEF SaveEvent, MarkSynced
<1> HIDE DEF p, row
<1>6. \A t \in Sessions : buf'[t] \subseteq seen'[t]
  BY <1>5 DEF DInv, QInv, TypeOK, LedgerInv
<1>7. \A e \in txEvents' :
        /\ e.item \in Items \ ledger'
        /\ e.item \in txLedger' \cup buf'[lock']
        /\ e.item \in seen'[lock']
        /\ e.epoch = epoch'
  <2>1. row.item \in buf'[s] /\ row.item \in seen'[s]
    BY <1>4, <1>5 DEF DInv, QInv, TypeOK
  <2>2. \A e \in txEvents : e.item \in txLedger' /\ e.item \in seen'[s]
    BY <1>3, <1>5 DEF DInv, QInv, TypeOK, LedgerInv
  <2> QED BY <1>2, <1>4, <1>5, <2>1, <2>2 DEF DInv, LedgerInv
<1>8. \A e, f \in txEvents' : e.item = f.item => e = f
  BY <1>3, <1>4 DEF DInv, LedgerInv
<1>9. \A t \in Sessions : pick'[t] # NoPick => pick'[t].item \notin ledger' \cup seen'[t]
  BY <1>5, TurnAlone DEF DInv, QInv, TypeOK
<1> QED BY <1>5, <1>6, <1>7, <1>8, <1>9 DEF DInv, LedgerInv

LEMMA CommitKeepsLedger ==
  ASSUME DInv, Threads = {}, NEW s \in Sessions, HasTurn(s), EndTransaction(s),
         events' \subseteq events \cup txEvents
  PROVE  LedgerInv' /\ AtMostOncePerPurge'
<1> USE StoreAssumption
<1>1. /\ ledger' = ledger \cup txLedger \cup buf[s] /\ txEvents' = {}
      /\ buf' = [buf EXCEPT ![s] = {}] /\ seen' = [seen EXCEPT ![s] = {}]
      /\ pick[s] = NoPick /\ UNCHANGED <<pick, epoch>>
  BY DEF EndTransaction
<1>2. \A e \in txEvents : lock = s /\ e.item \in ledger' /\ e.epoch = epoch
  BY <1>1 DEF EndTransaction, DInv, QInv, LockInv, LedgerInv, CanWrite
<1>3. \A t \in Sessions : buf'[t] \subseteq seen'[t]
  BY <1>1 DEF DInv, QInv, TypeOK, LedgerInv
<1>4. \A t \in Sessions : pick'[t] = NoPick
  BY <1>1, TurnAlone
<1>5. \A e \in events' :
        e.epoch <= epoch' /\ (e.item # NoItem /\ e.epoch = epoch' => e.item \in ledger')
  BY <1>1, <1>2 DEF DInv, QInv, TypeOK, LedgerInv, Event
<1>6. LedgerInv'
  BY <1>1, <1>3, <1>4, <1>5 DEF LedgerInv
<1>7. AtMostOncePerPurge'
  <2> SUFFICES ASSUME NEW e \in events', NEW f \in events',
                      e.item # NoItem, e.item = f.item, e.epoch = f.epoch
               PROVE  e = f
    BY DEF AtMostOncePerPurge
  <2>1. CASE e \in events /\ f \in events
    BY <2>1 DEF DInv, AtMostOncePerPurge
  <2>2. CASE e \in txEvents /\ f \in txEvents
    BY <2>2 DEF DInv, LedgerInv
  <2>3. CASE (e \in events /\ f \in txEvents) \/ (e \in txEvents /\ f \in events)
    BY <2>3 DEF DInv, LedgerInv
  <2> QED BY <2>1, <2>2, <2>3
<1> QED BY <1>6, <1>7

LEMMA StepD == Threads = {} /\ DInv /\ [StoreNext]_store => DInv'
<1> SUFFICES ASSUME Threads = {}, DInv, [StoreNext]_store
             PROVE  LedgerInv' /\ AtMostOncePerPurge'
  BY StepQ DEF DInv
<1> USE StoreAssumption
<1>1. ASSUME NEW s \in Sessions, NEW x \in Items, ProcessItem(s, x)
      PROVE  LedgerInv' /\ AtMostOncePerPurge'
  <2>1. CASE SkipSynced(s, x) \/ MarkOnly(s, x)
    <3>1. /\ UNCHANGED <<events, ledger, lock, txEvents, txLedger, pick, epoch>>
          /\ pick[s] = NoPick
      BY <1>1, <2>1 DEF ProcessItem, SkipSynced, MarkOnly, tables, tx
    <3>2. /\ \A t \in Sessions : /\ buf'[t] \subseteq seen'[t]
                                /\ buf[t] \subseteq buf'[t] /\ seen[t] \subseteq seen'[t]
          /\ \A t \in Sessions : t # s => seen'[t] = seen[t]
      BY <2>1 DEF SkipSynced, MarkOnly, MarkSynced, DInv, QInv, TypeOK, LedgerInv
    <3>3. txEvents # {} => lock \in Sessions
      BY DEF DInv, QInv, TypeOK, LockInv
    <3> QED BY <3>1, <3>2, <3>3 DEF DInv, LedgerInv, AtMostOncePerPurge
  <2>2. ASSUME NEW a \in Apps, NEW d \in Days \cup {NoDay},
               NEW st \in Statuses \cup {NoStatus}, Admit(s, x, a, d, st)
        PROVE  LedgerInv' /\ AtMostOncePerPurge'
    <3>1. UNCHANGED <<events, ledger, lock, txEvents, txLedger, buf, seen, epoch>>
      BY <2>2 DEF Admit, tables, tx
    <3>2. x \notin ledger /\ x \notin seen[s]
      BY <1>1, <2>2 DEF ProcessItem, Admit, IsSynced, LedgerSeenBy
    <3>3. \A t \in Sessions : pick'[t] # NoPick =>
            pick'[t].item \notin ledger \cup seen[t]
      BY <2>2, <3>2 DEF Admit, DInv, QInv, TypeOK, LedgerInv
    <3> QED BY <3>1, <3>3 DEF DInv, LedgerInv, AtMostOncePerPurge
  <2> QED BY <1>1, <2>1, <2>2
          DEF ProcessItem, MarkUnmatched, MarkAppGone, MarkPredating
<1>2. ASSUME NEW s \in Sessions, HasTurn(s), SaveEvent(s)
      PROVE  LedgerInv' /\ AtMostOncePerPurge'
  <2>1. events' = events
    BY <1>2 DEF SaveEvent, tables
  <2> QED BY <1>2, <2>1, SaveKeepsLedger DEF DInv, AtMostOncePerPurge
<1>3. ASSUME NEW s \in Sessions, HasTurn(s),
             Commit(s) \/ \E a \in Apps : CommitThenDelete(s, a)
      PROVE  LedgerInv' /\ AtMostOncePerPurge'
  <2>1. EndTransaction(s) /\ events' \subseteq events \cup txEvents
    BY <1>3 DEF Commit, CommitThenDelete
  <2> QED BY <1>3, <2>1, CommitKeepsLedger
<1>4. ASSUME NEW s \in Sessions, Rollback(s)
      PROVE  LedgerInv' /\ AtMostOncePerPurge'
  BY <1>4 DEF Rollback, DInv, QInv, TypeOK, LockInv, LedgerInv, AtMostOncePerPurge,
     tables, tx
<1>5. CASE Crash
  BY <1>5 DEF Crash, DInv, LedgerInv, AtMostOncePerPurge, tables
<1>6. CASE UserStep
  <2>1. /\ epoch' \in Nat /\ epoch <= epoch'
        /\ (epoch' = epoch /\ ledger' = ledger)
             \/ (epoch' = epoch + 1 /\ ledger' = {} /\ events' = events)
    BY <1>6 DEF DInv, QInv, TypeOK, UserStep, DeleteApp, AddEvent, CreateApp,
       SetStatus, Approve, Reject, RejectPending, DeleteEvent, EditEventDay, PurgeSource
  <2>2. txEvents' = {} /\ UNCHANGED <<buf, seen, pick>>
    BY <1>6, UserFrame DEF DInv, QInv, LockInv
  <2>3. TypeOK
    BY DEF DInv, QInv
  <2>4. \A e \in events' : e.item # NoItem =>
          \E f \in events : e.item = f.item /\ e.epoch = f.epoch
    BY <1>6, <2>3, UserRows
  <2>5. \A e \in events' : e.epoch <= epoch
    BY <1>6, <2>3, UserRows DEF DInv, LedgerInv, TypeOK
  <2>6. \A e \in events' : e.epoch \in Nat
    BY <1>6, <2>3, UserRows DEF Event
  <2>7. \A e \in events' : e.epoch <= epoch'
    BY <2>1, <2>3, <2>5, <2>6 DEF TypeOK
  <2>8. \A e \in events' : e.item # NoItem /\ e.epoch = epoch' => e.item \in ledger'
    <3>1. CASE epoch' = epoch /\ ledger' = ledger
      BY <2>4, <3>1 DEF DInv, LedgerInv
    <3>2. CASE epoch' = epoch + 1
      BY <2>3, <2>5, <2>6, <3>2 DEF TypeOK
    <3> QED BY <2>1, <3>1, <3>2
  <2>9. LedgerInv'
    BY <2>1, <2>2, <2>7, <2>8 DEF DInv, LedgerInv
  <2>10. AtMostOncePerPurge'
    BY <1>6, <2>3, UserRows DEF DInv, AtMostOncePerPurge
  <2> QED BY <2>9, <2>10
<1>7. CASE UNCHANGED store
  BY <1>7 DEF store, tables, tx, run, DInv, LedgerInv, AtMostOncePerPurge
<1> QED BY <1>1, <1>2, <1>3, <1>4, <1>5, <1>6, <1>7 DEF StoreNext, RunStep

(* With every run on the event loop, no interleaving of runs, aborts,       *)
(* crashes and endpoints makes two events of one item between two purges.   *)
THEOREM DedupHolds == Threads = {} => (StoreSpec => []AtMostOncePerPurge)
<1> SUFFICES ASSUME Threads = {} PROVE StoreSpec => []AtMostOncePerPurge
  OBVIOUS
<1>1. StoreInit => DInv
  BY InitQ, StoreAssumption DEF StoreInit, DInv, LedgerInv, AtMostOncePerPurge
<1>2. DInv /\ [StoreNext]_store => DInv'
  BY StepD
<1>3. DInv => AtMostOncePerPurge
  BY DEF DInv
<1> QED BY <1>1, <1>2, <1>3, PTL DEF StoreSpec

-----------------------------------------------------------------------------
(* FInv: the applications that were not overtaken. *)

(* A floor stays a floor when rows are added, and an event at or above it   *)
(* is no lower floor.                                                       *)
LEMMA FloorGrows ==
  ASSUME NEW rows, NEW more, NEW a, NEW d, AtOrAboveFloor(rows, a, d)
  PROVE  AtOrAboveFloor(rows \cup more, a, d)
BY DEF AtOrAboveFloor

LEMMA FloorRests ==
  ASSUME QInv, FloorInv, NEW a \in Apps \ overtaken, NEW d \in Days,
         AtOrAboveFloor(events \cup txEvents, a, d)
  PROVE  AtOrAboveFloor(events, a, d)
<1>1. PICK e \in events \cup txEvents : e.app = a /\ e.day <= d
  BY DEF AtOrAboveFloor
<1>2. CASE e \in events
  BY <1>1, <1>2 DEF AtOrAboveFloor
<1>3. CASE e \in txEvents
  <2>1. PICK f \in events : f.app = a /\ f.day <= e.day
    BY <1>1, <1>3 DEF FloorInv, AtOrAboveFloor
  <2>2. f.day \in Nat /\ e.day \in Nat /\ d \in Nat
    BY <1>3, <2>1, StoreAssumption DEF QInv, TypeOK, Event
  <2> QED BY <1>1, <2>1, <2>2 DEF AtOrAboveFloor
<1> QED BY <1>1, <1>2, <1>3

(* An application a run has read about, and that no endpoint overtakes,     *)
(* keeps its status row and every event it has.                             *)
LEMMA UserLeaves ==
  ASSUME TypeOK, UserStep, NEW s \in Sessions, pick[s] # NoPick,
         pick[s].app \notin overtaken'
  PROVE  /\ pick[s].app \notin overtaken
         /\ apps[pick[s].app] # Absent => apps'[pick[s].app] # Absent
         /\ \A e \in events : e.app = pick[s].app => e \in events'
<1> DEFINE b == pick[s].app
           Leaves == /\ b \notin overtaken
                     /\ apps[b] # Absent => apps'[b] # Absent
                     /\ \A e \in events : e.app = b => e \in events'
<1>1. apps \in [Apps -> Statuses \cup {Absent}] /\ queue \subseteq Suggestion
  BY DEF TypeOK
<1>2. b \in Apps
  BY DEF TypeOK, Pick
<1>3. ASSUME NEW a \in Apps, Overtake(a) PROVE a # b /\ b \notin overtaken
  BY <1>3, <1>2 DEF Overtake, InUse
<1>4. ASSUME NEW a \in Apps, DeleteApp(a) PROVE Leaves
  BY <1>1, <1>2, <1>3, <1>4 DEF DeleteApp
<1>5. ASSUME NEW e \in events,
             DeleteEvent(e) \/ \E d \in Days : EditEventDay(e, d)
      PROVE  Leaves
  <2>1. e.app \in Apps
    BY DEF TypeOK, Event
  <2>2. apps' = apps /\ Overtake(e.app) /\ \A f \in events : f # e => f \in events'
    BY <1>5 DEF DeleteEvent, EditEventDay
  <2> QED BY <1>3, <2>1, <2>2
<1>6. ASSUME NEW a \in Apps, NEW d \in Days, ManualRow(a, d), overtaken' = overtaken,
             \A c \in Apps : apps'[c] = Absent => apps[c] = Absent
      PROVE  Leaves
  BY <1>2, <1>6 DEF ManualRow
<1>7. ASSUME NEW a \in Apps, NEW d \in Days, NEW st \in Statuses,
             CreateApp(a, st, d) \/ SetStatus(a, st, d)
      PROVE  Leaves
  <2>1. /\ apps' = [apps EXCEPT ![a] = st] /\ ManualRow(a, d)
        /\ overtaken' = overtaken
    BY <1>7 DEF CreateApp, SetStatus
  <2>2. \A c \in Apps : apps'[c] = Absent => apps[c] = Absent
    BY <1>1, <2>1, StoreAssumption
  <2> QED BY <1>6, <2>1, <2>2
<1>8. ASSUME NEW a \in Apps, NEW d \in Days, NEW q \in queue, Approve(q, a, d)
      PROVE  Leaves
  <2>1. /\ apps' = [apps EXCEPT ![a] = q.status] /\ ManualRow(a, d)
        /\ overtaken' = overtaken
    BY <1>8 DEF Approve
  <2>2. q.status # Absent
    BY <1>1, StoreAssumption DEF Suggestion
  <2>3. \A c \in Apps : apps'[c] = Absent => apps[c] = Absent
    BY <1>1, <2>1, <2>2
  <2> QED BY <1>6, <2>1, <2>3
<1>9. ASSUME NEW a \in Apps, NEW d \in Days, AddEvent(a, d) PROVE Leaves
  BY <1>6, <1>9 DEF AddEvent
<1>10. ASSUME UNCHANGED <<apps, events, overtaken>> PROVE Leaves
  BY <1>10
<1> HIDE DEF Leaves
<1>11. Leaves
  BY <1>4, <1>5, <1>7, <1>8, <1>9, <1>10
  DEF UserStep, Reject, RejectPending, PurgeSource
<1> QED BY <1>11 DEF Leaves

(* An endpoint that does not overlap a run leaves no event without its      *)
(* application; nor does one that does.                                     *)
LEMMA UserKeepsApplications ==
  ASSUME TypeOK, EventsHaveApplication, UserStep
  PROVE  EventsHaveApplication'
<1> USE StoreAssumption
<1>1. apps \in [Apps -> Statuses \cup {Absent}] /\ events \subseteq Event
      /\ queue \subseteq Suggestion
  BY DEF TypeOK
<1>2. ASSUME NEW a \in Apps, NEW d \in Days, ManualRow(a, d), overtaken' = overtaken,
             apps'[a] # Absent, \A b \in Apps : apps'[b] = Absent => apps[b] = Absent
      PROVE  EventsHaveApplication'
  BY <1>1, <1>2 DEF ManualRow, EventsHaveApplication, Event
<1>3. ASSUME NEW a \in Apps, DeleteApp(a)
      PROVE  EventsHaveApplication'
  BY <1>1, <1>3 DEF DeleteApp, Overtake, EventsHaveApplication, Event
<1>4. ASSUME NEW e \in events, NEW d \in Days, EditEventDay(e, d)
      PROVE  EventsHaveApplication'
  <2> DEFINE new == [e EXCEPT !.day = d]
  <2>1. new.app = e.app
    BY <1>1 DEF Event
  <2>2. events' = (events \ {e}) \cup {new} /\ apps' = apps
        /\ overtaken \subseteq overtaken'
    BY <1>4 DEF EditEventDay, Overtake
  <2> HIDE DEF new
  <2> QED BY <2>1, <2>2 DEF EventsHaveApplication
<1>5. ASSUME events' \subseteq events, apps' = apps, overtaken \subseteq overtaken'
      PROVE  EventsHaveApplication'
  BY <1>5 DEF EventsHaveApplication
<1>6. ASSUME NEW e \in events, DeleteEvent(e)
      PROVE  EventsHaveApplication'
  BY <1>5, <1>6 DEF DeleteEvent, Overtake
<1>7. ASSUME NEW a \in Apps, NEW d \in Days, NEW st \in Statuses,
             CreateApp(a, st, d) \/ SetStatus(a, st, d)
      PROVE  EventsHaveApplication'
  <2>1. /\ apps' = [apps EXCEPT ![a] = st] /\ ManualRow(a, d)
        /\ overtaken' = overtaken
    BY <1>7 DEF CreateApp, SetStatus
  <2>2. apps'[a] # Absent /\ \A b \in Apps : apps'[b] = Absent => apps[b] = Absent
    BY <1>1, <2>1
  <2> QED BY <1>2, <2>1, <2>2
<1>8. ASSUME NEW a \in Apps, NEW d \in Days, NEW q \in queue, Approve(q, a, d)
      PROVE  EventsHaveApplication'
  <2>1. /\ apps' = [apps EXCEPT ![a] = q.status] /\ ManualRow(a, d)
        /\ overtaken' = overtaken
    BY <1>8 DEF Approve
  <2>2. q.status # Absent
    BY <1>1 DEF Suggestion
  <2>3. apps'[a] # Absent /\ \A b \in Apps : apps'[b] = Absent => apps[b] = Absent
    BY <1>1, <2>1, <2>2
  <2> QED BY <1>2, <2>1, <2>3
<1>9. ASSUME NEW a \in Apps, NEW d \in Days, AddEvent(a, d)
      PROVE  EventsHaveApplication'
  <2>1. apps' = apps /\ apps[a] # Absent /\ ManualRow(a, d) /\ overtaken' = overtaken
    BY <1>9 DEF AddEvent
  <2> QED BY <1>2, <2>1
<1> QED BY <1>3, <1>4, <1>5, <1>6, <1>7, <1>8, <1>9
        DEF UserStep, Reject, RejectPending, PurgeSource

LEMMA StepF == FInv /\ [StoreNext]_store => FInv'
<1> SUFFICES ASSUME FInv, [StoreNext]_store
             PROVE  FloorInv' /\ EventsHaveApplication'
  BY StepQ DEF FInv
<1> USE StoreAssumption
<1>1. ASSUME NEW s \in Sessions, NEW x \in Items, ProcessItem(s, x)
      PROVE  FloorInv' /\ EventsHaveApplication'
  <2>0. UNCHANGED <<apps, events, lock, txEvents, overtaken>>
    BY <1>1 DEF ProcessItem, SkipSynced, MarkUnmatched, MarkAppGone, MarkPredating,
       MarkOnly, Admit, tables, tx
  <2>1. CASE SkipSynced(s, x) \/ MarkOnly(s, x)
    BY <2>0, <2>1 DEF SkipSynced, MarkOnly, FInv, FloorInv, EventsSeenBy,
       AtOrAboveFloor, EventsHaveApplication
  <2>2. ASSUME NEW a \in Apps, NEW d \in Days \cup {NoDay},
               NEW st \in Statuses \cup {NoStatus}, Admit(s, x, a, d, st)
        PROVE  FloorInv' /\ EventsHaveApplication'
    <3>1. apps[a] # Absent /\ AtOrAboveFloor(EventsSeenBy(s), a, d)
      BY <2>2 DEF Admit, Predates
    <3> DEFINE p == [item |-> x, app |-> a, day |-> d,
                     asks |-> IF AsksForStatus(a, st) THEN st ELSE NoStatus]
    <3>2. pick' = [pick EXCEPT ![s] = p] /\ p.app = a /\ p.day = d
      BY <2>2 DEF Admit
    <3> HIDE DEF p
    <3>3. \A t \in Sessions : pick'[t] # NoPick /\ pick'[t].app \notin overtaken =>
            /\ apps[pick'[t].app] # Absent
            /\ AtOrAboveFloor(EventsSeenBy(t), pick'[t].app, pick'[t].day)
      BY <3>1, <3>2 DEF FInv, QInv, TypeOK, FloorInv
    <3> QED BY <2>0, <3>3 DEF FInv, FloorInv, EventsSeenBy, AtOrAboveFloor,
               EventsHaveApplication
  <2> QED BY <1>1, <2>1, <2>2
          DEF ProcessItem, MarkUnmatched, MarkAppGone, MarkPredating
<1>2. ASSUME NEW s \in Sessions, SaveEvent(s)
      PROVE  FloorInv' /\ EventsHaveApplication'
  <2> DEFINE p == pick[s]
  <2>1. PICK i \in FreeIds(events \cup txEvents) :
          txEvents' = txEvents \cup
            {[id |-> i, app |-> p.app, day |-> p.day, item |-> p.item, epoch |-> epoch]}
    BY <1>2 DEF SaveEvent
  <2>2. p # NoPick /\ p \in Pick
    BY <1>2 DEF SaveEvent, FInv, QInv, TypeOK
  <2>3. p.app \in Apps /\ p.day \in Days
    BY <2>2 DEF Pick
  <2>4. p.app \notin overtaken =>
          apps[p.app] # Absent /\ AtOrAboveFloor(events, p.app, p.day)
    <3> SUFFICES ASSUME p.app \notin overtaken
                 PROVE  apps[p.app] # Absent /\ AtOrAboveFloor(events, p.app, p.day)
      OBVIOUS
    <3>1. apps[p.app] # Absent /\ AtOrAboveFloor(EventsSeenBy(s), p.app, p.day)
      BY <2>2 DEF FInv, FloorInv
    <3>2. AtOrAboveFloor(events \cup txEvents, p.app, p.day)
      BY <3>1, FloorGrows DEF EventsSeenBy
    <3> QED BY <2>3, <3>1, <3>2, FloorRests DEF FInv
  <2>5. /\ UNCHANGED <<apps, events, overtaken>>
        /\ lock' = s /\ lock \in {s, Free} /\ pick' = [pick EXCEPT ![s] = NoPick]
    BY <1>2 DEF SaveEvent, CanWrite, tables
  <2>6. \A t \in Sessions : pick'[t] # NoPick =>
          t # s /\ pick'[t] = pick[t] /\ EventsSeenBy(t) = events /\ EventsSeenBy(t)' = events
    BY <2>5 DEF FInv, QInv, TypeOK, EventsSeenBy
  <2>7. \A e \in txEvents' : e.app \notin overtaken =>
          apps[e.app] # Absent /\ AtOrAboveFloor(events, e.app, e.day)
    BY <2>1, <2>4 DEF FInv, FloorInv
  <2>8. \A t \in Sessions : pick'[t] # NoPick /\ pick'[t].app \notin overtaken =>
          apps[pick'[t].app] # Absent /\ AtOrAboveFloor(events, pick'[t].app, pick'[t].day)
    BY <2>6 DEF FInv, FloorInv
  <2>9. FloorInv'
    BY <2>5, <2>6, <2>7, <2>8 DEF FloorInv, AtOrAboveFloor
  <2>10. EventsHaveApplication'
    BY <2>5 DEF FInv, EventsHaveApplication
  <2> QED BY <2>9, <2>10
<1>3. ASSUME NEW s \in Sessions, EndTransaction(s)
      PROVE  /\ \A e \in txEvents : lock = s
             /\ \A t \in Sessions : pick[t] # NoPick => EventsSeenBy(t) = events
             /\ lock' = Free /\ txEvents' = {} /\ pick' = pick
  BY <1>3 DEF EndTransaction, CanWrite, FInv, QInv, LockInv, EventsSeenBy
<1>4. ASSUME NEW s \in Sessions, Commit(s)
      PROVE  FloorInv' /\ EventsHaveApplication'
  <2>1. /\ events' = events \cup txEvents /\ UNCHANGED <<apps, overtaken>>
        /\ EndTransaction(s)
    BY <1>4 DEF Commit
  <2>2. FloorInv'
    BY <1>3, <2>1 DEF FInv, FloorInv, EventsSeenBy, AtOrAboveFloor
  <2> QED BY <2>1, <2>2 DEF FInv, FloorInv, EventsHaveApplication
<1>5. ASSUME NEW s \in Sessions, NEW a \in Apps, CommitThenDelete(s, a)
      PROVE  FloorInv' /\ EventsHaveApplication'
  <2>1. /\ events' = {e \in events : e.app # a} \cup txEvents
        /\ apps' = [apps EXCEPT ![a] = Absent] /\ EndTransaction(s)
        /\ overtaken' = overtaken \cup {b \in {a} : InUse(b)}
    BY <1>5 DEF CommitThenDelete, Overtake
  <2>2. \A t \in Sessions : pick[t] # NoPick /\ pick[t].app \notin overtaken' =>
          pick[t].app # a /\ pick[t].app \notin overtaken
    BY <2>1 DEF InUse
  <2>3. \A e \in txEvents : e.app \notin overtaken' => e.app # a /\ e.app \notin overtaken
    BY <2>1 DEF InUse
  <2>4. apps \in [Apps -> Statuses \cup {Absent}] /\ events \subseteq Event
        /\ txEvents \subseteq Event /\ \A t \in Sessions : pick[t] \in Pick \cup {NoPick}
    BY DEF FInv, QInv, TypeOK
  <2>5. ASSUME NEW t \in Sessions, pick'[t] # NoPick, pick'[t].app \notin overtaken'
        PROVE  /\ apps'[pick'[t].app] # Absent
               /\ AtOrAboveFloor(EventsSeenBy(t)', pick'[t].app, pick'[t].day)
    <3>1. pick'[t] = pick[t] /\ EventsSeenBy(t) = events /\ EventsSeenBy(t)' = events'
      BY <1>3, <2>1, <2>5 DEF EventsSeenBy
    <3>2. pick[t].app # a /\ pick[t].app \in Apps /\ pick[t].app \notin overtaken
      BY <2>2, <2>4, <2>5, <3>1 DEF Pick
    <3>3. apps[pick[t].app] # Absent /\ AtOrAboveFloor(events, pick[t].app, pick[t].day)
      BY <2>5, <3>1, <3>2 DEF FInv, FloorInv
    <3> QED BY <2>1, <2>4, <3>1, <3>2, <3>3 DEF AtOrAboveFloor
  <2>6. FloorInv'
    BY <1>3, <2>1, <2>5 DEF FloorInv
  <2>7. \A e \in events' : e.app \notin overtaken' => apps'[e.app] # Absent
    BY <2>1, <2>3, <2>4 DEF FInv, FloorInv, EventsHaveApplication, Event
  <2> QED BY <2>6, <2>7 DEF EventsHaveApplication
<1>6. ASSUME NEW s \in Sessions, Rollback(s)
      PROVE  FloorInv' /\ EventsHaveApplication'
  <2>1. /\ txEvents' \subseteq txEvents /\ UNCHANGED <<apps, events, overtaken>>
        /\ pick' = [pick EXCEPT ![s] = NoPick]
    BY <1>6 DEF Rollback, tables, tx
  <2>2. \A t \in Sessions : pick'[t] # NoPick =>
          pick'[t] = pick[t] /\ EventsSeenBy(t)' = EventsSeenBy(t)
    BY <1>6, <2>1 DEF Rollback, FInv, QInv, TypeOK, EventsSeenBy, tables, tx
  <2>3. FloorInv'
    BY <2>1, <2>2 DEF FInv, FloorInv, AtOrAboveFloor
  <2> QED BY <2>1, <2>3 DEF FInv, EventsHaveApplication
<1>7. CASE Crash
  BY <1>7 DEF Crash, FInv, FloorInv, EventsHaveApplication, tables
<1>8. CASE UserStep
  <2>1. TypeOK
    BY DEF FInv, QInv
  <2>2. txEvents' = {} /\ lock = Free /\ lock' = Free /\ pick' = pick
    BY <1>8, UserFrame DEF FInv, QInv, LockInv
  <2>3. ASSUME NEW t \in Sessions, pick'[t] # NoPick, pick'[t].app \notin overtaken'
        PROVE  /\ apps'[pick'[t].app] # Absent
               /\ AtOrAboveFloor(EventsSeenBy(t)', pick'[t].app, pick'[t].day)
    <3>1. pick'[t] = pick[t] /\ EventsSeenBy(t) = events /\ EventsSeenBy(t)' = events'
      BY <2>2 DEF EventsSeenBy
    <3>2. /\ pick[t].app \notin overtaken
          /\ apps[pick[t].app] # Absent => apps'[pick[t].app] # Absent
          /\ \A e \in events : e.app = pick[t].app => e \in events'
      BY <1>8, <2>1, <2>3, <3>1, UserLeaves
    <3>3. apps[pick[t].app] # Absent /\ AtOrAboveFloor(events, pick[t].app, pick[t].day)
      BY <2>3, <3>1, <3>2 DEF FInv, FloorInv
    <3> QED BY <3>1, <3>2, <3>3 DEF AtOrAboveFloor
  <2>4. FloorInv'
    BY <2>2, <2>3 DEF FloorInv
  <2> QED BY <1>8, <2>1, <2>4, UserKeepsApplications DEF FInv
<1>9. CASE UNCHANGED store
  BY <1>9 DEF store, tables, tx, run, FInv, FloorInv, EventsSeenBy, AtOrAboveFloor,
     EventsHaveApplication
<1> QED BY <1>1, <1>2, <1>4, <1>5, <1>6, <1>7, <1>8, <1>9 DEF StoreNext, RunStep

LEMMA AlwaysF == StoreSpec => []FInv
<1>1. StoreInit => FInv
  BY InitQ, StoreAssumption DEF StoreInit, FInv, FloorInv, EventsHaveApplication
<1> QED BY <1>1, StepF, PTL DEF StoreSpec

(* No event outlives its application, wherever the runs execute, except of  *)
(* one that a pool thread deleted while a run was saving an event of it.    *)
THEOREM NoOrphans == StoreSpec => []EventsHaveApplication
<1>1. FInv => EventsHaveApplication
  BY DEF FInv
<1> QED BY <1>1, AlwaysF, PTL

(* A row a sync commits lies on or after a dated event its application had  *)
(* before, unless a pool thread changed that application's timeline between *)
(* the look and the flush: no sync moves a floor.                           *)
THEOREM FloorRespected == StoreSpec => SyncRespectsFloor
<1> DEFINE Respects ==
      \A e \in events' \ events :
          e.item # NoItem /\ ~(\E f \in events : f.id = e.id)
            /\ e.app \notin overtaken
              => AtOrAboveFloor(events, e.app, e.day)
<1>1. ASSUME FInv, StoreNext PROVE Respects
  <2>1. CASE UserStep
    BY <1>1, <2>1, UserRows DEF FInv, QInv
  <2>2. ASSUME NEW s \in Sessions, Commit(s) \/ \E a \in Apps : CommitThenDelete(s, a)
        PROVE  Respects
    BY <1>1, <2>2 DEF Commit, CommitThenDelete, FInv, FloorInv
  <2>3. ASSUME ~UserStep,
               ~\E s \in Sessions : Commit(s) \/ \E a \in Apps : CommitThenDelete(s, a)
        PROVE  events' = events
    BY <1>1, <2>3 DEF StoreNext, RunStep, ProcessItem, SkipSynced,
       MarkUnmatched, MarkAppGone, MarkPredating, MarkOnly, Admit, SaveEvent,
       Rollback, Crash, tables
  <2> QED BY <2>1, <2>2, <2>3
<1>2. FInv /\ [StoreNext]_store => [Respects]_store
  BY <1>1
<1>3. StoreSpec => [][Respects]_store
  BY <1>2, AlwaysF, PTL DEF StoreSpec
<1> QED BY <1>3 DEF SyncRespectsFloor
=============================================================================
