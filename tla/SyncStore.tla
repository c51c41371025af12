------------------------------ MODULE SyncStore ------------------------------
(***************************************************************************)
(* The database as one sync source and the people reviewing its results    *)
(* use it: the rows of `applications`, `events`, `synced_items` (the dedup *)
(* ledger of this source) and `pending_matches` (status suggestions), and  *)
(* the SQLAlchemy sessions through which sync runs write them.             *)
(*                                                                         *)
(* What makes the store more than four tables is how a session reaches it. *)
(* SessionLocal is built with autoflush=False, so a row given to db.add()  *)
(* stays in the session (`buf`, `bufQueue`) until a flush or a commit.     *)
(* The first flush takes SQLite's single write lock, which is held until   *)
(* the transaction ends; its rows (`txEvents`, `txLedger`, `txQueue`) are  *)
(* seen by that session alone.  Every query sees the committed tables plus *)
(* the flushed rows of its own session, and nothing else.                  *)
(*                                                                         *)
(* A sync run is one transaction: it processes items one by one and        *)
(* commits at its end.  The endpoints of the user interface are short      *)
(* transactions of their own; they wait for the write lock (busy_timeout). *)
(*                                                                         *)
(* Who can run when: syncs and `async def` endpoints share one event loop. *)
(* A sync gives it up between two items (asyncio.to_thread, while it       *)
(* fetches the next one) but never between the reads that decide about an  *)
(* item and the flush of its event (`pick` is what it read).  Endpoints    *)
(* that are plain `def` run in a thread pool, and `Threads` are runs on a  *)
(* thread and a loop of their own (the LinkedIn sync and the syncs it      *)
(* starts for new applications): those may step in between.                *)
(***************************************************************************)
EXTENDS Naturals

CONSTANTS
    Sessions,   \* the sync runs that may be under way at the same time
    Threads,    \* those of them that run outside the main event loop
    Items,      \* external ids of the source (message ids, event uids, ...)
    Apps,       \* ids of applications
    Days,       \* calendar days an item or an event may be dated
    Statuses,   \* values of main_status
    RowIds,     \* primary keys of events
    MaxPurges,  \* bound: how often the ledger may be purged
    NoItem,     \* external_id of a row that no sync created
    NoDay,      \* date_hint of an item whose date header cannot be parsed
    NoStatus,   \* a classification that suggests no status
    Absent,     \* main_status of an id no application has
    NoPick,     \* the run is between two items
    Free        \* nobody holds the write lock

ASSUME StoreAssumption ==
    /\ Threads \subseteq Sessions
    /\ Days \subseteq Nat
    /\ MaxPurges \in Nat
    /\ NoDay \notin Days
    /\ NoItem \notin Items
    /\ NoStatus \notin Statuses
    /\ Absent \notin Statuses
    /\ Free \notin Sessions
    /\ NoPick \notin
         [item: Items, app: Apps, day: Days, asks: Statuses \cup {NoStatus}]

VARIABLES
    apps,       \* main_status of every application, Absent when there is none
    events,     \* committed timeline rows
    ledger,     \* committed external ids of synced_items
    queue,      \* committed status suggestions of pending_matches
    lock,       \* the session that holds the write lock, or Free
    txEvents,   \* events the lock holder has flushed and not committed
    txLedger,   \* ledger rows it has flushed and not committed
    txQueue,    \* suggestions it has flushed and not committed
    buf,        \* ledger rows added to each session and not flushed
    bufQueue,   \* suggestions added to each session and not flushed
    pick,       \* what each session has read about the item it will save
    seen,       \* the items the current run of each session has processed
    epoch,      \* history: how often the ledger has been purged
    overtaken   \* history: applications that were deleted, or that lost or
                \* re-dated an event, when a run had read about them

tables == <<apps, events, ledger, queue>>
tx     == <<lock, txEvents, txLedger, txQueue>>
run    == <<buf, bufQueue, pick, seen>>
history == <<epoch, overtaken>>
store  == <<tables, tx, run, history>>

Review == {"pending", "approved", "rejected"}

(* `epoch` is a history field: the number of purges before the row's item   *)
(* was processed, 0 for a row without an item.  No action reads it.         *)
Event ==
    [id: RowIds, app: Apps, day: Days, item: Items \cup {NoItem}, epoch: Nat]

(* A PendingMatch with status_only=True.  Its external_id is                *)
(* "<external id of the item>__status", so the item is its key.             *)
Suggestion == [item: Items, app: Apps, status: Statuses, review: Review]

(* The item a run decided to save, its application and day, and the status  *)
(* it will ask for.                                                         *)
Pick == [item: Items, app: Apps, day: Days, asks: Statuses \cup {NoStatus}]

TypeOK ==
    /\ apps \in [Apps -> Statuses \cup {Absent}]
    /\ events \subseteq Event
    /\ ledger \subseteq Items
    /\ queue \subseteq Suggestion
    /\ lock \in Sessions \cup {Free}
    /\ txEvents \subseteq Event
    /\ txLedger \subseteq Items
    /\ txQueue \subseteq Suggestion
    /\ buf \in [Sessions -> SUBSET Items]
    /\ bufQueue \in [Sessions -> SUBSET Suggestion]
    /\ pick \in [Sessions -> Pick \cup {NoPick}]
    /\ seen \in [Sessions -> SUBSET Items]
    /\ epoch \in Nat
    /\ overtaken \subseteq Apps

StoreInit ==
    /\ apps = [a \in Apps |-> Absent]
    /\ events = {} /\ ledger = {} /\ queue = {}
    /\ lock = Free
    /\ txEvents = {} /\ txLedger = {} /\ txQueue = {}
    /\ buf = [s \in Sessions |-> {}]
    /\ bufQueue = [s \in Sessions |-> {}]
    /\ pick = [s \in Sessions |-> NoPick]
    /\ seen = [s \in Sessions |-> {}]
    /\ epoch = 0 /\ overtaken = {}

-----------------------------------------------------------------------------
(* What a session's queries return. *)

EventsSeenBy(s) == IF lock = s THEN events \cup txEvents ELSE events
LedgerSeenBy(s) == IF lock = s THEN ledger \cup txLedger ELSE ledger

(* load_synced_ids / is_synced *)
IsSynced(s, x) == x \in LedgerSeenBy(s)

(* effective_bewerbung_floor(app) <= day, without naming the minimum: some  *)
(* dated event of the application is not later than the day.  With no dated *)
(* event at all the floor is None and nothing is at or above it.            *)
AtOrAboveFloor(rows, a, d) == \E e \in rows : e.app = a /\ e.day <= d

(* _predates_bewerbung *)
BelowSomeFloor(s, a, d) ==                  \* mutant: no floor rejects nothing
    ~(d # NoDay /\ ((\E e \in EventsSeenBy(s) : e.app = a)
                      => AtOrAboveFloor(EventsSeenBy(s), a, d)))
Predates(s, a, d) == ~(d # NoDay /\ AtOrAboveFloor(EventsSeenBy(s), a, d))

(* No run on the event loop is between the reads and the flush of an item;  *)
(* such a run, waiting for the lock or not, keeps the loop to itself.       *)
LoopIdle == \A t \in Sessions \ Threads : pick[t] = NoPick
HasTurn(s) ==
    s \in Threads \/ \A t \in Sessions \ (Threads \cup {s}) : pick[t] = NoPick

CanWrite(s) == lock \in {s, Free}

(* The ids SQLite may give a row inserted while `rows` exist.  It takes     *)
(* max(rowid) + 1, so the id of a deleted row comes back; here any id that  *)
(* is not in use.                                                           *)
FreeIds(rows) == RowIds \ {e.id : e \in rows}

-----------------------------------------------------------------------------
(* process_item() and _save_deterministic_event().  The item's application  *)
(* `a`, its day `d` and its suggested status `st` come from the matching    *)
(* and keyword rules, which no property of the store depends on.            *)

(* The item is in the ledger already: return False. *)
SkipSynced(s, x) ==
    /\ IsSynced(s, x)
    /\ seen' = [seen EXCEPT ![s] = @ \cup {x}]
    /\ UNCHANGED <<tables, tx, buf, bufQueue, pick, history>>

(* mark_synced: a ledger row added to the session. *)
NotMarked(added, x) == added            \* mutant: the call is missing
MarkSynced(added, x) == added \cup {x}

(* mark_synced() and return False: no application matched, or the matched   *)
(* one is gone, or the item lies before the application's floor.            *)
MarkOnly(s, x) ==
    /\ ~IsSynced(s, x)
    /\ buf' = [buf EXCEPT ![s] = MarkSynced(@, x)]
    /\ seen' = [seen EXCEPT ![s] = @ \cup {x}]
    /\ UNCHANGED <<tables, tx, bufQueue, pick, history>>

MarkUnmatched(s, x) == MarkOnly(s, x)
MarkAppGone(s, x, a) == apps[a] = Absent /\ MarkOnly(s, x)
MarkPredating(s, x, a, d) ==
    apps[a] # Absent /\ Predates(s, a, d) /\ MarkOnly(s, x)

(* The classification names a status the application does not have. *)
AsksForStatus(a, st) == st # NoStatus /\ st # apps[a]

(* "exists": the item has a suggestion already, reviewed or not. *)
NotLookedUp(rows, x) == FALSE               \* mutant: the query is missing
HasSuggestion(rows, x) == \E q \in rows : q.item = x

(* "already_reviewed": a person decided on this status for this application. *)
NotRemembered(rows, a, st) == FALSE         \* mutant: the query is missing
AlreadyReviewed(rows, a, st) ==
    \E q \in rows : q.app = a /\ q.status = st /\ q.review # "pending"

(* The checks all pass: the run goes on to save the item's event. *)
Admit(s, x, a, d, st) ==
    /\ ~IsSynced(s, x)
    /\ apps[a] # Absent
    /\ ~Predates(s, a, d)
    /\ pick' = [pick EXCEPT ![s] =
                  [item |-> x, app |-> a, day |-> d,
                   asks |-> IF AsksForStatus(a, st) THEN st ELSE NoStatus]]
    /\ UNCHANGED <<tables, tx, buf, bufQueue, seen, history>>

(* The suggestions _save_deterministic_event() queues for a picked item: at *)
(* most one.  The queries run after the flush of the event, so they see     *)
(* what the session had buffered.                                           *)
WhateverStatus(s, p) ==                     \* mutant: no test for "no status"
    {[item |-> p.item, app |-> p.app, status |-> p.asks, review |-> "pending"]}
NewSuggestions(s, p) ==
    LET rows == queue \cup txQueue \cup bufQueue[s]
    IN  IF /\ p.asks # NoStatus
           /\ ~HasSuggestion(rows, p.item)
           /\ ~AlreadyReviewed(rows, p.app, p.asks)
        THEN {[item |-> p.item, app |-> p.app, status |-> p.asks,
               review |-> "pending"]}
        ELSE {}

(* db.add(new_event); db.flush() -- which also flushes what the session had *)
(* buffered -- then mark_synced() and the suggestion, both only added.      *)
(* Without foreign keys the insert succeeds even if the application has     *)
(* been deleted since it was read.                                          *)
SaveEvent(s) ==
    LET p == pick[s]
    IN
    /\ p # NoPick
    /\ CanWrite(s)
    /\ \E i \in FreeIds(events \cup txEvents) :
          txEvents' = txEvents \cup
            {[id |-> i, app |-> p.app, day |-> p.day, item |-> p.item,
              epoch |-> epoch]}
    /\ lock' = s
    /\ txLedger' = txLedger \cup buf[s]
    /\ txQueue' = txQueue \cup bufQueue[s]
    /\ buf' = [buf EXCEPT ![s] = MarkSynced({}, p.item)]
    /\ bufQueue' = [bufQueue EXCEPT ![s] = NewSuggestions(s, p)]
    /\ pick' = [pick EXCEPT ![s] = NoPick]
    /\ seen' = [seen EXCEPT ![s] = @ \cup {p.item}]
    /\ UNCHANGED <<tables, history>>

(* The end of a run without commit: an exception, an early return, or the   *)
(* flush of SaveEvent that waited for busy_timeout and raised "database is  *)
(* locked", after which the session is of no use.  db.close() rolls back.   *)
Rollback(s) ==
    /\ IF lock = s
       THEN lock' = Free /\ txEvents' = {} /\ txLedger' = {} /\ txQueue' = {}
       ELSE UNCHANGED tx
    /\ buf' = [buf EXCEPT ![s] = {}]
    /\ bufQueue' = [bufQueue EXCEPT ![s] = {}]
    /\ pick' = [pick EXCEPT ![s] = NoPick]
    /\ seen' = [seen EXCEPT ![s] = {}]
    /\ UNCHANGED <<tables, history>>

(* The process dies: every open session is rolled back by SQLite. *)
Crash ==
    /\ lock' = Free /\ txEvents' = {} /\ txLedger' = {} /\ txQueue' = {}
    /\ buf' = [s \in Sessions |-> {}]
    /\ bufQueue' = [s \in Sessions |-> {}]
    /\ pick' = [s \in Sessions |-> NoPick]
    /\ seen' = [s \in Sessions |-> {}]
    /\ UNCHANGED <<tables, history>>

(* db.commit() at the end of a run. *)
EndTransaction(s) ==
    /\ pick[s] = NoPick
    /\ CanWrite(s)
    /\ ledger' = ledger \cup txLedger \cup buf[s]
    /\ queue' = queue \cup txQueue \cup bufQueue[s]
    /\ lock' = Free
    /\ txEvents' = {} /\ txLedger' = {} /\ txQueue' = {}
    /\ buf' = [buf EXCEPT ![s] = {}]
    /\ bufQueue' = [bufQueue EXCEPT ![s] = {}]
    /\ seen' = [seen EXCEPT ![s] = {}]
    /\ UNCHANGED <<pick, epoch>>

Commit(s) ==
    /\ EndTransaction(s)
    /\ events' = events \cup txEvents
    /\ UNCHANGED <<apps, overtaken>>

(* A run is about to save an event of the application, or has flushed one.  *)
InUse(a) ==
    \/ \E s \in Sessions : pick[s] # NoPick /\ pick[s].app = a
    \/ \E e \in txEvents : e.app = a
Overtake(a) == overtaken' = overtaken \cup {b \in {a} : InUse(b)}

(* delete_application while the run holds the write lock: the cascade reads *)
(* the application's events, its first DELETE waits for the lock, and what  *)
(* it deletes once the run has committed is what it had read.               *)
CommitThenDelete(s, a) ==
    /\ lock = s
    /\ EndTransaction(s)
    /\ apps[a] # Absent
    /\ apps' = [apps EXCEPT ![a] = Absent]
    /\ events' = {e \in events : e.app # a} \cup txEvents
    /\ Overtake(a)

-----------------------------------------------------------------------------
(* The endpoints: one transaction each, waiting for the write lock.  An     *)
(* `async def` one runs on the event loop, a plain `def` one in a thread.   *)

Endpoint == lock = Free /\ UNCHANGED <<tx, run>>
LoopEndpoint == LoopIdle /\ Endpoint

ManualRow(a, d) ==
    \E i \in FreeIds(events) :
        events' = events \cup
          {[id |-> i, app |-> a, day |-> d, item |-> NoItem, epoch |-> 0]}

(* create_application: the application and its "Bewerbung eingereicht". *)
CreateApp(a, st, d) ==
    /\ LoopEndpoint
    /\ apps[a] = Absent
    /\ apps' = [apps EXCEPT ![a] = st]
    /\ ManualRow(a, d)
    /\ UNCHANGED <<ledger, queue, history>>

DeleteAppOnly(a) ==                         \* mutant: no cascade
    /\ Endpoint
    /\ apps[a] # Absent
    /\ apps' = [apps EXCEPT ![a] = Absent]
    /\ UNCHANGED <<events, ledger, queue, epoch>>
    /\ Overtake(a)

(* delete_application: events go with it, suggestions keep its id. *)
DeleteApp(a) ==
    /\ Endpoint
    /\ apps[a] # Absent
    /\ apps' = [apps EXCEPT ![a] = Absent]
    /\ events' = {e \in events : e.app # a}
    /\ UNCHANGED <<ledger, queue, epoch>>
    /\ Overtake(a)

(* update_application with another main_status adds a status event. *)
SetStatus(a, st, today) ==
    /\ LoopEndpoint
    /\ apps[a] \notin {Absent, st}
    /\ apps' = [apps EXCEPT ![a] = st]
    /\ ManualRow(a, today)
    /\ UNCHANGED <<ledger, queue, history>>

AddEvent(a, d) ==
    /\ Endpoint
    /\ apps[a] # Absent
    /\ ManualRow(a, d)
    /\ UNCHANGED <<apps, ledger, queue, history>>

(* delete_event: the ledger row of a synced event stays. *)
DeleteEvent(e) ==
    /\ Endpoint
    /\ e \in events
    /\ events' = events \ {e}
    /\ UNCHANGED <<apps, ledger, queue, epoch>>
    /\ Overtake(e.app)

(* update_event with another datum. *)
EditEventDay(e, d) ==
    /\ Endpoint
    /\ e \in events
    /\ events' = (events \ {e}) \cup {[e EXCEPT !.day = d]}
    /\ UNCHANGED <<apps, ledger, queue, epoch>>
    /\ Overtake(e.app)

(* purge_source, called by every /reset endpoint. *)
PurgeSource ==
    /\ Endpoint
    /\ epoch < MaxPurges
    /\ ledger' = {}
    /\ epoch' = epoch + 1
    /\ UNCHANGED <<apps, events, queue, overtaken>>

Reviewed(q, verdict) ==
    queue' = (queue \ {q}) \cup {[q EXCEPT !.review = verdict]}

(* approve_match of a status suggestion, for the application the user chose *)
(* in the review list.  The row's review_status is not consulted.           *)
Approve(q, a, today) ==
    /\ LoopEndpoint
    /\ q \in queue
    /\ apps[a] # Absent
    /\ apps' = [apps EXCEPT ![a] = q.status]
    /\ ManualRow(a, today)
    /\ Reviewed(q, "approved")
    /\ UNCHANGED <<ledger, history>>

(* reject_match *)
Reject(q) ==
    /\ LoopEndpoint
    /\ q \in queue
    /\ Reviewed(q, "rejected")
    /\ UNCHANGED <<apps, events, ledger, history>>

(* cleanup_calendar_status *)
RejectPending ==
    /\ Endpoint
    /\ queue' = {IF q.review = "pending" THEN [q EXCEPT !.review = "rejected"] ELSE q :
                  q \in queue}
    /\ UNCHANGED <<apps, events, ledger, history>>

-----------------------------------------------------------------------------
(* One item of a run.  A source lists each external id once per run.        *)
ProcessItem(s, x) ==
    /\ pick[s] = NoPick
    /\ x \notin seen[s]
    /\ \/ SkipSynced(s, x)
       \/ MarkUnmatched(s, x)
       \/ \E a \in Apps :
             \/ MarkAppGone(s, x, a)
             \/ \E d \in Days \cup {NoDay} :
                   \/ MarkPredating(s, x, a, d)
                   \/ \E st \in Statuses \cup {NoStatus} : Admit(s, x, a, d, st)

RunStep ==
    \E s \in Sessions :
        /\ HasTurn(s)
        /\ \/ \E x \in Items : ProcessItem(s, x)
           \/ SaveEvent(s)
           \/ Commit(s)
           \/ \E a \in Apps : CommitThenDelete(s, a)
           \/ Rollback(s)

UserStep ==
    \/ \E a \in Apps :
          \/ DeleteApp(a)
          \/ \E d \in Days :
                \/ AddEvent(a, d)
                \/ \E st \in Statuses : CreateApp(a, st, d) \/ SetStatus(a, st, d)
                \/ \E q \in queue : Approve(q, a, d)
    \/ \E q \in queue : Reject(q)
    \/ \E e \in events :
          \/ DeleteEvent(e)
          \/ \E d \in Days : EditEventDay(e, d)
    \/ RejectPending
    \/ PurgeSource

StoreNext == RunStep \/ UserStep \/ Crash

StoreSpec == StoreInit /\ [][StoreNext]_store

-----------------------------------------------------------------------------
(* Properties. *)

(* Between two purges of the ledger no item produces two timeline events,   *)
(* however many runs are under way, abort, or restart.  purge_source keeps  *)
(* the events, so the count starts anew with each purge.                    *)
AtMostOncePerPurge ==
    \A e, f \in events :
        e.item # NoItem /\ e.item = f.item /\ e.epoch = f.epoch => e = f

(* No item has two suggestions in the review queue, whatever is purged and  *)
(* processed again ("exists" in _save_deterministic_event).                 *)
OneSuggestionPerItem ==
    \A p, q \in queue : p.item = q.item => p = q

(* A row a sync commits is never the first dated event of its application   *)
(* and never lowers the application's floor: only people move the floor.    *)
(* The exception: an application that was overtaken, one of whose events a  *)
(* thread of the pool deleted or re-dated between a run's look at the floor *)
(* and its flush.                                                           *)
SyncRespectsFloor ==
    [][\A e \in events' \ events :
          e.item # NoItem /\ ~(\E f \in events : f.id = e.id)
            /\ e.app \notin overtaken
              => AtOrAboveFloor(events, e.app, e.day)]_store

(* Every timeline event belongs to an application that exists (the cascade  *)
(* of Application.events): no event outlives its application to turn up in  *)
(* the next one that is given its id.  The exception: an application that   *)
(* delete_application, on a thread of the pool, deletes while a run saves   *)
(* an event of it.                                                          *)
EventsHaveApplication ==
    \A e \in events : apps[e.app] # Absent \/ e.app \in overtaken

(* Once a status was approved or rejected for an application, no sync asks  *)
(* for the same status again.                                               *)
NoRepeatedSuggestion ==
    [][\A q \in queue' :
          (\A p \in queue : p.item # q.item)
              => ~\E p \in queue : /\ p.app = q.app /\ p.status = q.status
                                   /\ p.review # "pending"]_store
=============================================================================
