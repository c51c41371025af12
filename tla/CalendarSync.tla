----------------------------- MODULE CalendarSync -----------------------------
(***************************************************************************)
(* The Google and iCloud calendar syncs: a run lists the entries of a time *)
(* window around now, saves new ones as timeline events, lets known events *)
(* follow entries that were moved, and queues a suggestion to delete every *)
(* event of the window whose entry the listing does not have.  People      *)
(* decide about the suggestions in the review queue.                       *)
(*                                                                         *)
(* The items of a run are one step here: what other sessions do between    *)
(* two items, and the transaction around them, is the subject of SyncStore.*)
(* Time runs in half-days, so that a day has an earlier and a later hour.  *)
(***************************************************************************)
EXTENDS Naturals, FiniteSets

CONSTANTS
    Uids,        \* ids of calendar entries
    Slots,       \* the times an entry may be put at
    Back, Ahead, \* the window: 180 days back, 90 days ahead
    MaxTime,     \* bound: half-days that pass
    MaxId,       \* bound: ids of events
    MaxChanges,  \* bound: changes in the calendar
    MaxPurges,   \* bound: resets of the ledger
    Gone,        \* an entry that does not exist
    NoUid        \* external_id of an event a person has added

ASSUME CalendarAssumption ==
    /\ Slots \subseteq Nat /\ Back \in Nat /\ Ahead \in Nat
    /\ MaxTime \in Nat /\ MaxId \in Nat /\ MaxChanges \in Nat /\ MaxPurges \in Nat
    /\ Gone \notin Slots /\ NoUid \notin Uids /\ IsFiniteSet(Uids)

VARIABLES
    now,      \* the time, counted from Back
    cal,      \* the calendar: when each entry is
    events,   \* the application's timeline
    ledger,   \* synced_items of the source
    queue,    \* the source's orphaned_calendar_event suggestions
    phase,    \* where the run is
    listed,   \* what the calendar's server has answered
    missed,   \* entries of the window that the answer, or its parsing, left out
    base,     \* the run's `now`
    hidden,   \* history: entries of the ledger that are not to be on the timeline:
              \* a run only marked them, or a person has deleted their event
    changes, purges

tables == <<events, ledger, queue>>
run == <<phase, listed, missed, base>>
vars == <<now, cal, tables, run, hidden, changes, purges>>

DayOf(t) == t \div 2

Event == [id: 1..MaxId, uid: Uids \cup {NoUid}, day: Nat]
Suggestion == [event: 1..MaxId, review: {"pending", "approved", "rejected"}]
Entries == [Uids -> Slots \cup {Gone}]

TypeOK ==
    /\ now \in Back..(Back + MaxTime) /\ base \in Back..(Back + MaxTime)
    /\ cal \in Entries /\ listed \in Entries
    /\ events \subseteq Event /\ ledger \subseteq Uids /\ queue \subseteq Suggestion
    /\ phase \in {"off", "items", "orphans"} /\ missed \subseteq Uids
    /\ hidden \subseteq ledger
    /\ changes \in 0..MaxChanges /\ purges \in 0..MaxPurges

NothingListed == [u \in Uids |-> Gone]

Init ==
    /\ now = Back /\ base = Back
    /\ cal = NothingListed /\ listed = NothingListed
    /\ events = {} /\ ledger = {} /\ queue = {}
    /\ phase = "off" /\ missed = {} /\ hidden = {} /\ changes = 0 /\ purges = 0

-----------------------------------------------------------------------------
(* A run: _do_gcal, _do_icloud_cal. *)

(* The entries that have not ended when the window begins, and begin before *)
(* it ends.                                                                 *)
InWindow(t) == t + Back >= now /\ t <= now + Ahead

InReach == {u \in Uids : cal[u] # Gone /\ InWindow(cal[u])}

(* What is read of them: Google answers with the first 200 and no second    *)
(* page is asked for; iCloud goes on when one of its calendars cannot be    *)
(* read, and passes over entries that do not parse.                         *)
List ==
    /\ phase = "off"
    /\ \E read \in SUBSET InReach :
         /\ listed' = [u \in Uids |-> IF u \in read THEN cal[u] ELSE Gone]
         /\ missed' = InReach \ read
    /\ base' = now
    /\ phase' = "items"
    /\ UNCHANGED <<now, cal, tables, hidden, changes, purges>>

FreshOnly == {u \in Uids : listed[u] # Gone} \ ledger
                                            \* mutant: known ids do not get into uid_set
UidSet == {u \in Uids : listed[u] # Gone}

(* .filter_by(source, external_id).first() *)
FirstOf(e) == \A f \in events \ {e} : f.uid = e.uid => e.id < f.id

(* A known entry that was moved takes its event along. *)
StayPut(e) == e                             \* mutant: datum not compared
Follow(e) ==
    IF e.uid \in UidSet \cap ledger /\ FirstOf(e)
      THEN [e EXCEPT !.day = DayOf(listed[e.uid])]
      ELSE e

(* SQLite gives a new row max(rowid) + 1. *)
LastId == CHOOSE i \in 0..MaxId :
              /\ i = 0 \/ \E e \in events : e.id = i
              /\ \A e \in events : e.id <= i

(* Of the entries the ledger does not have, process_item saves `saved` and   *)
(* only marks `marked` (its application is gone, or the entry lies before    *)
(* the floor); no application matched the others, or they raised.            *)
ProcessItems ==
    /\ phase = "items"
    /\ \E saved \in SUBSET (UidSet \ ledger) :
         /\ LastId + Cardinality(saved) <= MaxId
         /\ \E number \in [saved -> 1..Cardinality(saved)] :
              /\ \A u, v \in saved : number[u] = number[v] => u = v
              /\ events' = {Follow(e) : e \in events} \cup
                   {[id |-> LastId + number[u], uid |-> u, day |-> DayOf(listed[u])] :
                       u \in saved}
         /\ \E marked \in SUBSET (UidSet \ (ledger \cup saved)) :
              /\ ledger' = ledger \cup saved \cup marked
              /\ hidden' = hidden \cup marked
    /\ phase' = "orphans"
    /\ UNCHANGED <<now, cal, queue, listed, missed, base, changes, purges>>

(* An exception: rolled back, and the rest of the run does not take place. *)
Abort ==
    /\ phase \in {"items", "orphans"}
    /\ phase' = "off"
    /\ listed' = NothingListed /\ missed' = {}
    /\ UNCHANGED <<now, cal, tables, base, hidden, changes, purges>>

(* The event's own day, not its hour, decides. *)
Orphans ==
    {e \in events : /\ e.uid # NoUid
                    /\ e.day >= DayOf(base - Back) /\ e.day <= DayOf(base + Ahead)
                    /\ e.uid \notin UidSet}

(* queue_orphaned_calendar_event: "exists", whatever was decided. *)
StillPending(i) ==                          \* mutant: decided suggestions not counted
    \E q \in queue : q.event = i /\ q.review = "pending"
HasSuggestion(i) == \E q \in queue : q.event = i

(* An event that is deleted between the query and the commit gets its       *)
(* suggestion all the same, as if it were deleted right after.              *)
QueueOrphans ==
    /\ phase = "orphans"
    /\ queue' = IF UidSet = {} THEN queue
                ELSE queue \cup {[event |-> e.id, review |-> "pending"] :
                                    e \in {o \in Orphans : ~HasSuggestion(o.id)}}
    /\ phase' = "off"
    /\ listed' = NothingListed /\ missed' = {}
    /\ UNCHANGED <<now, cal, events, ledger, base, hidden, changes, purges>>

-----------------------------------------------------------------------------
(* Endpoints. *)

AddEvent(d) ==
    /\ LastId < MaxId
    /\ events' = events \cup {[id |-> LastId + 1, uid |-> NoUid, day |-> d]}
    /\ UNCHANGED <<now, cal, ledger, queue, run, hidden, changes, purges>>

DeleteEvent(e) ==
    /\ e \in events
    /\ events' = events \ {e}
    /\ hidden' = hidden \cup ({e.uid} \cap ledger)
    /\ UNCHANGED <<now, cal, ledger, queue, run, changes, purges>>

EditEventDay(e, d) ==
    /\ e \in events
    /\ events' = (events \ {e}) \cup {[e EXCEPT !.day = d]}
    /\ UNCHANGED <<now, cal, ledger, queue, run, hidden, changes, purges>>

(* reset_calendar_sync (of either source): events are kept. *)
Reset ==
    /\ purges < MaxPurges
    /\ purges' = purges + 1
    /\ ledger' = {} /\ hidden' = {}
    /\ UNCHANGED <<now, cal, events, queue, run, changes>>

Decide(q, verdict) ==
    queue' = (queue \ {q}) \cup {[q EXCEPT !.review = verdict]}

(* approve_match: the event with the suggestion's event_id goes, and its    *)
(* ledger row with it.  The calendar is not asked again.  On the event loop.*)
KeepMark(q) ==                              \* mutant: the ledger row stays
    /\ phase = "off"
    /\ q \in queue
    /\ events' = {e \in events : e.id # q.event}
    /\ Decide(q, "approved")
    /\ UNCHANGED <<now, cal, ledger, run, hidden, changes, purges>>
Approve(q) ==
    /\ phase = "off"
    /\ q \in queue
    /\ events' = {e \in events : e.id # q.event}
    /\ ledger' = ledger \ {e.uid : e \in {f \in events : f.id = q.event}}
    /\ hidden' = hidden \cap ledger'
    /\ Decide(q, "approved")
    /\ UNCHANGED <<now, cal, run, changes, purges>>

Reject(q) ==
    /\ phase = "off"
    /\ q \in queue
    /\ Decide(q, "rejected")
    /\ UNCHANGED <<now, cal, events, ledger, run, hidden, changes, purges>>

-----------------------------------------------------------------------------
(* The calendar's owner, and time. *)

PutEntry(u, t) ==
    /\ changes < MaxChanges
    /\ cal[u] # t
    /\ changes' = changes + 1
    /\ cal' = [cal EXCEPT ![u] = t]
    /\ UNCHANGED <<now, tables, run, hidden, purges>>

RemoveEntry(u) ==
    /\ changes < MaxChanges
    /\ cal[u] # Gone
    /\ changes' = changes + 1
    /\ cal' = [cal EXCEPT ![u] = Gone]
    /\ UNCHANGED <<now, tables, run, hidden, purges>>

Tick ==
    /\ now < Back + MaxTime
    /\ now' = now + 1
    /\ UNCHANGED <<cal, tables, run, hidden, changes, purges>>

Outside ==
    \/ Tick
    \/ \E u \in Uids : RemoveEntry(u) \/ \E t \in Slots : PutEntry(u, t)

Backend ==
    \/ List \/ ProcessItems \/ Abort \/ QueueOrphans
    \/ \E e \in events : DeleteEvent(e)
    \/ \E d \in {DayOf(t) : t \in Slots} :
          AddEvent(d) \/ \E e \in events : EditEventDay(e, d)
    \/ Reset
    \/ \E q \in queue : Approve(q) \/ Reject(q)

Next == Outside \/ Backend
Spec == Init /\ [][Next]_vars

(* Nothing changes outside the backend while a run is under way: a run is   *)
(* not to blame for what the calendar's server has not told it yet.         *)
CalmNext == Backend \/ (phase = "off" /\ Outside)
CalmSpec == Init /\ [][CalmNext]_vars

-----------------------------------------------------------------------------
(* Properties. *)

(* One suggestion per event, ever: what a person has rejected does not come *)
(* back with the next sync (queue_orphaned_calendar_event).                 *)
OneSuggestionPerEvent ==
    \A p, q \in queue : p.event = q.event => p = q

(* An event is suggested for deletion only when the calendar, as it is when *)
(* the suggestion is made, has no such entry in the window, or the run has  *)
(* not got to read it; whatever the event's own day was edited to and       *)
(* whoever had its id before (orphan queries of _do_gcal, _do_icloud_cal).  *)
(* An entry put off beyond the window does count as gone.                   *)
SuggestedAreGone ==
    [][\A q \in queue' \ queue : q.review = "pending" =>
          \A e \in events : e.id = q.event => e.uid \notin InReach \ missed]_vars

(* What a wrong suggestion, or one whose id has passed to another event,    *)
(* takes from the timeline when it is approved comes back with the next     *)
(* sync: the ledger knows no entry that has no event, unless a run only     *)
(* marked it or a person deleted the event itself (approve_match).          *)
ApprovalsHeal ==
    \A u \in ledger : u \in hidden \/ \E e \in events : e.uid = u

(* "moved/renamed events are updated on re-sync": as long as nobody has     *)
(* reset the ledger, once a run has processed its items every event of a    *)
(* listed entry has the day the listing says, whatever was edited, deleted, *)
(* approved, or moved to and fro before.  (After a reset an entry may get a *)
(* second event, of which only the first one follows.)                      *)
FollowsCalendar ==
    [][purges = 0 /\ phase = "items" /\ phase' = "orphans" =>
          \A e \in events' : e.uid \in UidSet => e.day = DayOf(listed[e.uid])]_vars
=============================================================================
