------------------------- MODULE CalendarSync_proofs -------------------------
(* Proofs about CalendarSync, for every calendar, window and bound. *)
EXTENDS CalendarSync, FiniteSetTheorems, WellFoundedInduction, TLAPS

(* The rows of the queue are records with two fields; no more is said of    *)
(* their types, nor of the events' ids, for none of it matters.             *)
IsRow(q) == q = [event |-> q.event, review |-> q.review]

IInv ==
    /\ \A q \in queue : IsRow(q)
    /\ OneSuggestionPerEvent

(* A decision about a suggestion leaves the event it is about. *)
LEMMA DecisionKeeps ==
    ASSUME IInv, NEW q \in queue, NEW verdict, Decide(q, verdict)
    PROVE  IInv'
<1> DEFINE r == [q EXCEPT !.review = verdict]
<1>1. r = [event |-> q.event, review |-> verdict]
  BY DEF IInv, IsRow
<1>2. r.event = q.event /\ IsRow(r)
  BY <1>1 DEF IsRow
<1> HIDE DEF r
<1>3. queue' = (queue \ {q}) \cup {r}
  BY DEF Decide, r
<1>4. \A a \in queue' : IsRow(a)
  BY <1>2, <1>3 DEF IInv
<1>5. ASSUME NEW a \in queue', NEW b \in queue', a.event = b.event
      PROVE  a = b
  BY <1>2, <1>3, <1>5 DEF IInv, OneSuggestionPerEvent
<1> QED BY <1>4, <1>5 DEF IInv, OneSuggestionPerEvent, IsRow

(* A run gives one suggestion to each orphan that has none. *)
LEMMA RunKeeps ==
    ASSUME IInv, QueueOrphans
    PROVE  IInv'
<1> DEFINE fresh == {o \in Orphans : ~HasSuggestion(o.id)}
           made  == {[event |-> e.id, review |-> "pending"] : e \in fresh}
<1>1. queue' = queue \/ queue' = queue \cup made
  BY DEF QueueOrphans
<1>2. \A a \in made : IsRow(a) /\ a.review = "pending"
  BY DEF IsRow
<1>3. ASSUME NEW a \in made, NEW b \in queue
      PROVE  a.event # b.event
  <2>1. PICK e \in fresh : a = [event |-> e.id, review |-> "pending"]
    OBVIOUS
  <2>2. a.event = e.id
    BY <2>1
  <2> QED BY <2>2 DEF HasSuggestion
<1> HIDE DEF made
<1>4. \A a \in queue' : IsRow(a)
  BY <1>1, <1>2 DEF IInv
<1>5. ASSUME NEW a \in queue', NEW b \in queue', a.event = b.event
      PROVE  a = b
  <2>1. CASE a \in queue /\ b \in queue
    BY <2>1, <1>5 DEF IInv, OneSuggestionPerEvent
  <2>2. CASE a \in made /\ b \in made
    BY <2>2, <1>2, <1>5 DEF IsRow
  <2>3. CASE a \in made /\ b \in queue
    BY <2>3, <1>3, <1>5
  <2>4. CASE a \in queue /\ b \in made
    BY <2>4, <1>3, <1>5
  <2> QED BY <2>1, <2>2, <2>3, <2>4, <1>1
<1> QED BY <1>4, <1>5 DEF IInv, OneSuggestionPerEvent, IsRow

LEMMA Invariance == IInv /\ [Next]_vars => IInv'
<1> SUFFICES ASSUME IInv, [Next]_vars PROVE IInv'
  OBVIOUS
<1>1. CASE QueueOrphans
  BY <1>1, RunKeeps
<1>2. CASE \E q \in queue : Approve(q) \/ Reject(q)
  <2>1. PICK q \in queue : Decide(q, "approved") \/ Decide(q, "rejected")
    BY <1>2 DEF Approve, Reject
  <2> QED BY <2>1, DecisionKeeps
<1>3. CASE queue' = queue
  BY <1>3 DEF IInv, OneSuggestionPerEvent, IsRow
<1>4. Outside => queue' = queue
  BY DEF Outside, Tick, RemoveEntry, PutEntry, tables
<1>5. (List \/ ProcessItems \/ Abort \/ Reset) => queue' = queue
  BY DEF List, ProcessItems, Abort, Reset, tables
<1>6. (\E e \in events : DeleteEvent(e)) => queue' = queue
  BY DEF DeleteEvent
<1>7. (\E d \in {DayOf(t) : t \in Slots} :
          AddEvent(d) \/ \E e \in events : EditEventDay(e, d)) => queue' = queue
  BY DEF AddEvent, EditEventDay
<1>8. UNCHANGED vars => queue' = queue
  BY DEF vars, tables
<1> QED BY <1>1, <1>2, <1>3, <1>4, <1>5, <1>6, <1>7, <1>8 DEF Next, Backend

(* No event gets two suggestions, whatever is listed, lost, moved, decided, *)
(* reset or reused: the dedup of queue_orphaned_calendar_event.             *)
THEOREM AskedOnce == Spec => []OneSuggestionPerEvent
<1>1. Init => IInv
  BY DEF Init, IInv, OneSuggestionPerEvent
<1>2. IInv => OneSuggestionPerEvent
  BY DEF IInv
<1> QED BY <1>1, <1>2, Invariance, PTL DEF Spec

-----------------------------------------------------------------------------
(* Why events follow the calendar: before the first reset every synced      *)
(* event has its entry in the ledger and is the only one of its entry.      *)

IsEvent(e) == e = [id |-> e.id, uid |-> e.uid, day |-> e.day]

Tracked ==
    /\ \A e \in events : IsEvent(e)
    /\ purges \in Nat
    /\ purges = 0 =>
         /\ \A e \in events : e.uid # NoUid => e.uid \in ledger
         /\ \A e, f \in events : e.uid # NoUid /\ e.uid = f.uid => e = f

LEMMA MovesOnly ==
    ASSUME NEW e, IsEvent(e), NEW d
    PROVE  LET m == [e EXCEPT !.day = d]
           IN  IsEvent(m) /\ m.uid = e.uid /\ m.day = d
<1>1. [e EXCEPT !.day = d] = [id |-> e.id, uid |-> e.uid, day |-> d]
  BY DEF IsEvent
<1> QED BY <1>1 DEF IsEvent

(* A run keeps events tracked, and they follow: the two facts share the     *)
(* same case distinction.                                                   *)
LEMMA RunTracks ==
    ASSUME Tracked, ProcessItems
    PROVE  /\ Tracked'
           /\ purges = 0 =>
                \A e \in events' : e.uid \in UidSet => e.day = DayOf(listed[e.uid])
<1> DEFINE moved == {Follow(e) : e \in events}
           made(S, n) ==
             {[id |-> LastId + n[u], uid |-> u, day |-> DayOf(listed[u])] : u \in S}
<1>1. PICK saved \in SUBSET (UidSet \ ledger) :
        \E number \in [saved -> 1..Cardinality(saved)] :
           /\ events' = moved \cup made(saved, number)
           /\ \E marked \in SUBSET (UidSet \ (ledger \cup saved)) :
                 ledger' = ledger \cup saved \cup marked
  BY DEF ProcessItems
<1>2. PICK number : events' = moved \cup made(saved, number)
  BY <1>1
<1>3. ledger \subseteq ledger' /\ saved \subseteq ledger' /\ purges' = purges
  BY <1>1 DEF ProcessItems
<1> DEFINE new == made(saved, number)
<1>4. \A e \in new : /\ IsEvent(e) /\ e.uid \in saved
                     /\ e.day = DayOf(listed[e.uid])
  BY DEF IsEvent
<1>5. \A e, f \in new : e.uid = f.uid => e = f
  OBVIOUS
<1>6. ASSUME NEW e \in events
      PROVE  IsEvent(Follow(e)) /\ Follow(e).uid = e.uid
  BY MovesOnly DEF Follow, Tracked
<1>7. UidSet \subseteq Uids /\ NoUid \notin UidSet
  BY CalendarAssumption DEF UidSet
<1> HIDE DEF new
<1>8. events' = moved \cup new
  BY <1>2 DEF new
<1>9. \A e \in events' : IsEvent(e)
  BY <1>4, <1>6, <1>8
<1>10. ASSUME purges = 0, NEW e \in events', e.uid # NoUid
       PROVE  e.uid \in ledger'
  BY <1>3, <1>4, <1>6, <1>8, <1>10 DEF Tracked
<1>11. ASSUME purges = 0, NEW e \in events', NEW f \in events',
              e.uid # NoUid, e.uid = f.uid
       PROVE  e = f
  <2>1. CASE e \in new /\ f \in new
    BY <2>1, <1>5, <1>11
  <2>2. CASE e \in moved /\ f \in moved
    <3>1. PICK a \in events, b \in events : e = Follow(a) /\ f = Follow(b)
      BY <2>2
    <3>2. a.uid = b.uid /\ a.uid # NoUid
      BY <3>1, <1>6, <1>11
    <3> QED BY <3>1, <3>2, <1>11 DEF Tracked
  <2>3. CASE e \in moved /\ f \in new
    <3>1. PICK a \in events : e = Follow(a)
      BY <2>3
    <3>2. a.uid \in ledger /\ f.uid \notin ledger
      BY <3>1, <2>3, <1>4, <1>6, <1>11 DEF Tracked
    <3> QED BY <3>1, <3>2, <1>6, <1>11
  <2>4. CASE e \in new /\ f \in moved
    <3>1. PICK a \in events : f = Follow(a)
      BY <2>4
    <3>2. a.uid \in ledger /\ e.uid \notin ledger
      BY <3>1, <2>4, <1>4, <1>6, <1>11 DEF Tracked
    <3> QED BY <3>1, <3>2, <1>6, <1>11
  <2> QED BY <2>1, <2>2, <2>3, <2>4, <1>8
<1>12. ASSUME purges = 0, NEW e \in events', e.uid \in UidSet
       PROVE  e.day = DayOf(listed[e.uid])
  <2>1. CASE e \in new
    BY <2>1, <1>4
  <2>2. CASE e \in moved
    <3>1. PICK a \in events : e = Follow(a)
      BY <2>2
    <3>2. a.uid \in UidSet \cap ledger
      BY <3>1, <1>6, <1>7, <1>12 DEF Tracked
    <3>3. FirstOf(a)
      BY <3>2, <1>7, <1>12 DEF FirstOf, Tracked
    <3>4. e = [a EXCEPT !.day = DayOf(listed[a.uid])]
      BY <3>1, <3>2, <3>3 DEF Follow
    <3> QED BY <3>4, MovesOnly DEF Tracked
  <2> QED BY <2>1, <2>2, <1>8
<1> QED BY <1>3, <1>9, <1>10, <1>11, <1>12 DEF Tracked

LEMMA TrackedInvariance == Tracked /\ [Next]_vars => Tracked'
<1> SUFFICES ASSUME Tracked, [Next]_vars PROVE Tracked'
  OBVIOUS
<1>1. CASE ProcessItems
  BY <1>1, RunTracks
<1>2. CASE UNCHANGED <<events, ledger, purges>>
  BY <1>2 DEF Tracked, IsEvent
<1>3. CASE Reset
  BY <1>3 DEF Reset, Tracked, IsEvent
<1>4. ASSUME NEW e \in events, DeleteEvent(e) PROVE Tracked'
  BY <1>4 DEF DeleteEvent, Tracked, IsEvent
<1>5. ASSUME NEW d, AddEvent(d) PROVE Tracked'
  BY <1>5 DEF AddEvent, Tracked, IsEvent
<1>6. ASSUME NEW e \in events, NEW d, EditEventDay(e, d) PROVE Tracked'
  <2> DEFINE m == [e EXCEPT !.day = d]
  <2>1. IsEvent(m) /\ m.uid = e.uid
    BY MovesOnly DEF Tracked
  <2>2. /\ events' = (events \ {e}) \cup {m}
        /\ ledger' = ledger /\ purges' = purges
    BY <1>6 DEF EditEventDay
  <2> HIDE DEF m
  <2> QED BY <2>1, <2>2 DEF Tracked, IsEvent
<1>7. ASSUME NEW q \in queue, Approve(q) PROVE Tracked'
  <2>1. /\ events' \subseteq events /\ purges' = purges
        /\ ledger' = ledger \ {e.uid : e \in {f \in events : f.id = q.event}}
        /\ \A e \in events' : e.id # q.event
    BY <1>7 DEF Approve
  <2>2. ASSUME purges = 0, NEW e \in events', e.uid # NoUid
        PROVE  e.uid \in ledger'
    BY <2>1, <2>2 DEF Tracked
  <2> QED BY <2>1, <2>2 DEF Tracked, IsEvent
<1>8. (Outside \/ List \/ Abort \/ QueueOrphans \/ \E q \in queue : Reject(q))
         => UNCHANGED <<events, ledger, purges>>
  BY DEF Outside, Tick, RemoveEntry, PutEntry, List, Abort, QueueOrphans, Reject, tables
<1>9. UNCHANGED vars => UNCHANGED <<events, ledger, purges>>
  BY DEF vars, tables
<1> QED BY <1>1, <1>2, <1>3, <1>4, <1>5, <1>6, <1>7, <1>8, <1>9 DEF Next, Backend

(* As long as nobody resets the ledger, every run leaves every event of a   *)
(* listed entry on the day the calendar says.                               *)
THEOREM EventsFollow == Spec => FollowsCalendar
<1>1. Init => Tracked
  BY DEF Init, Tracked
<1>2. Tracked /\ [Next]_vars =>
        [purges = 0 /\ phase = "items" /\ phase' = "orphans" =>
           \A e \in events' : e.uid \in UidSet => e.day = DayOf(listed[e.uid])]_vars
  <2> SUFFICES ASSUME Tracked, Next, purges = 0, phase = "items", phase' = "orphans"
               PROVE  \A e \in events' :
                        e.uid \in UidSet => e.day = DayOf(listed[e.uid])
    OBVIOUS
  <2>1. ProcessItems
    BY DEF Next, Backend, Outside, Tick, RemoveEntry, PutEntry, List, Abort,
           QueueOrphans, AddEvent, EditEventDay, DeleteEvent, Reset, Approve, Reject, run
  <2> QED BY <2>1, RunTracks
<1> QED BY <1>1, <1>2, TrackedInvariance, PTL DEF Spec, FollowsCalendar

-----------------------------------------------------------------------------
(* Why no entry that was read is suggested: no two events have one id, and  *)
(* while a run is under way its listing has whatever the calendar has in    *)
(* the window, except for what was missed.                                  *)

Numbered ==
    /\ \A e \in events : IsEvent(e) /\ e.id \in 1..MaxId /\ e.uid \in Uids \cup {NoUid}
    /\ \A e, f \in events : e.id = f.id => e = f

AsListed ==
    phase # "off" => \A u \in InReach \ missed : listed[u] # Gone

(* A finite set of numbers that is not empty has a greatest one.            *)
LEMMA HasGreatest ==
  ASSUME NEW S, S \subseteq Nat, IsFiniteSet(S), S # {}
  PROVE  \E x \in S : \A y \in S : y <= x
<1> DEFINE Bounded(T) == \E x \in T : \A y \in T : y <= x
           R == StrictSubsetOrdering(S)
           Bad == {T \in FiniteSubsetsOf(S) : T # {} /\ ~Bounded(T)}
<1>1. ASSUME Bad # {} PROVE FALSE
  <2>1. PICK A \in Bad : \A B \in Bad : ~(<<B, A>> \in R)
    <3>1. IsWellFoundedOn(R, FiniteSubsetsOf(S))
      BY FS_StrictSubsetOrderingWellFounded
    <3>2. Bad \subseteq FiniteSubsetsOf(S)
      OBVIOUS
    <3> HIDE DEF R, Bad
    <3> QED BY <1>1, <3>1, <3>2, WFMin
  <2>2. PICK x \in A : TRUE
    OBVIOUS
  <2>3. A \subseteq S /\ IsFiniteSet(A) /\ ~Bounded(A)
    BY DEF FiniteSubsetsOf
  <2>4. A \ {x} \in FiniteSubsetsOf(S)
    BY <2>3, FS_RemoveElement DEF FiniteSubsetsOf
  <2>5. <<A \ {x}, A>> \in R
    BY <2>2, <2>3 DEF StrictSubsetOrdering
  <2>6. A \ {x} = {} \/ Bounded(A \ {x})
    BY <2>1, <2>4, <2>5
  <2> HIDE DEF R, Bad
  <2>7. x \in Nat /\ \A y \in A : y \in Nat
    BY <2>2, <2>3
  <2>8. CASE A \ {x} = {}
    BY <2>2, <2>3, <2>7, <2>8
  <2>9. CASE Bounded(A \ {x})
    <3>1. PICK z \in A \ {x} : \A y \in A \ {x} : y <= z
      BY <2>9
    <3>2. z \in Nat
      BY <2>7
    <3>3. CASE x <= z
      BY <2>3, <3>1, <3>3
    <3>4. CASE ~(x <= z)
      <4>1. \A y \in A : y <= x
        BY <2>7, <3>1, <3>2, <3>4
      <4> QED BY <2>2, <2>3, <4>1
    <3> QED BY <3>3, <3>4
  <2> QED BY <2>6, <2>8, <2>9
<1>2. S \in FiniteSubsetsOf(S)
  BY DEF FiniteSubsetsOf
<1> QED BY <1>1, <1>2

(* max(rowid) is the id of no later event.                                  *)
LEMMA LastIsLast ==
  ASSUME Numbered
  PROVE  LastId \in 0..MaxId /\ \A e \in events : e.id <= LastId
<1> DEFINE I == {e.id : e \in events}
<1>1. I \subseteq 1..MaxId
  BY DEF Numbered
<1>2. IsFiniteSet(I)
  <2>1. IsFiniteSet(1..MaxId)
    BY CalendarAssumption, FS_Interval
  <2> HIDE DEF I
  <2> QED BY <1>1, <2>1, FS_Subset
<1>3. \E i \in 0..MaxId :
        /\ i = 0 \/ \E e \in events : e.id = i
        /\ \A e \in events : e.id <= i
  <2>1. CASE events = {}
    BY <2>1, CalendarAssumption
  <2>2. CASE events # {}
    <3>1. I # {} /\ I \subseteq Nat
      BY <1>1, <2>2
    <3>2. \E x \in I : \A y \in I : y <= x
      <4> HIDE DEF I
      <4> QED BY <1>2, <3>1, HasGreatest
    <3>3. PICK x \in I : \A y \in I : y <= x
      BY <3>2
    <3>4. x \in 0..MaxId
      BY <1>1, CalendarAssumption
    <3> QED BY <3>3, <3>4
  <2> QED BY <2>1, <2>2
<1> QED BY <1>3 DEF LastId

(* New events get ids of their own.                                         *)
LEMMA RunNumbers ==
  ASSUME Numbered, ProcessItems
  PROVE  Numbered'
<1>1. PICK saved \in SUBSET (UidSet \ ledger) :
        /\ LastId + Cardinality(saved) <= MaxId
        /\ \E number \in [saved -> 1..Cardinality(saved)] :
             /\ \A u, v \in saved : number[u] = number[v] => u = v
             /\ events' = {Follow(e) : e \in events} \cup
                  {[id |-> LastId + number[u], uid |-> u, day |-> DayOf(listed[u])] :
                      u \in saved}
  BY DEF ProcessItems
<1>2. PICK number \in [saved -> 1..Cardinality(saved)] :
        /\ \A u, v \in saved : number[u] = number[v] => u = v
        /\ events' = {Follow(e) : e \in events} \cup
             {[id |-> LastId + number[u], uid |-> u, day |-> DayOf(listed[u])] : u \in saved}
  BY <1>1
<1> DEFINE moved == {Follow(e) : e \in events}
           new == {[id |-> LastId + number[u], uid |-> u, day |-> DayOf(listed[u])] :
                       u \in saved}
<1>3. Cardinality(saved) \in Nat
  <2>1. saved \subseteq Uids
    BY DEF UidSet
  <2> QED BY <2>1, CalendarAssumption, FS_Subset, FS_CardinalityType
<1>4. LastId \in Nat /\ (\A e \in events : e.id <= LastId) /\ MaxId \in Nat
  BY LastIsLast, CalendarAssumption
<1>5. \A u \in saved : /\ number[u] \in Nat /\ number[u] >= 1
                       /\ LastId + number[u] <= MaxId
  BY <1>1, <1>2, <1>3, <1>4
<1>6. \A e \in new : /\ IsEvent(e) /\ e.id \in 1..MaxId /\ e.id > LastId
                     /\ e.uid \in Uids
  BY <1>4, <1>5 DEF IsEvent, UidSet
<1>7. \A e, f \in new : e.id = f.id => e = f
  <2>1. \A u, v \in saved : LastId + number[u] = LastId + number[v] => u = v
    BY <1>2, <1>4, <1>5
  <2> QED BY <2>1
<1>8. ASSUME NEW e \in events
      PROVE  /\ IsEvent(Follow(e)) /\ Follow(e).id = e.id /\ Follow(e).uid = e.uid
  <2>1. \A d : LET m == [e EXCEPT !.day = d]
               IN  IsEvent(m) /\ m.id = e.id /\ m.uid = e.uid
    <3> TAKE d
    <3>1. [e EXCEPT !.day = d] = [id |-> e.id, uid |-> e.uid, day |-> d]
      BY DEF IsEvent, Numbered
    <3> QED BY <3>1 DEF IsEvent
  <2> QED BY <2>1 DEF Follow, Numbered
<1>9. events' = moved \cup new
  BY <1>2
<1> HIDE DEF new
<1>10. \A e \in moved : /\ IsEvent(e) /\ e.id \in 1..MaxId /\ e.id <= LastId
                        /\ e.uid \in Uids \cup {NoUid}
  BY <1>4, <1>8 DEF Numbered
<1>11. \A e, f \in moved : e.id = f.id => e = f
  BY <1>8 DEF Numbered
<1>12. \A e \in moved, f \in new : e.id # f.id
  BY <1>4, <1>6, <1>10
<1> HIDE DEF moved
<1> QED BY <1>6, <1>7, <1>9, <1>10, <1>11, <1>12 DEF Numbered

LEMMA NumberedInvariance == Numbered /\ [Next]_vars => Numbered'
<1> SUFFICES ASSUME Numbered, [Next]_vars PROVE Numbered'
  OBVIOUS
<1>1. CASE ProcessItems
  BY <1>1, RunNumbers
<1>2. CASE events' \subseteq events
  BY <1>2 DEF Numbered, IsEvent
<1>3. ASSUME NEW d, AddEvent(d) PROVE Numbered'
  <2> DEFINE n == [id |-> LastId + 1, uid |-> NoUid, day |-> d]
  <2>1. LastId < MaxId /\ events' = events \cup {n}
    BY <1>3 DEF AddEvent
  <2>2. LastId \in Nat /\ (\A e \in events : e.id <= LastId) /\ MaxId \in Nat
    BY LastIsLast, CalendarAssumption
  <2>3. /\ IsEvent(n) /\ n.id \in 1..MaxId /\ n.uid = NoUid /\ n.id > LastId
    BY <2>1, <2>2 DEF IsEvent
  <2> HIDE DEF n
  <2>4. \A e \in events : e.id # n.id
    BY <2>2, <2>3 DEF Numbered
  <2> QED BY <2>1, <2>3, <2>4 DEF Numbered, IsEvent
<1>4. ASSUME NEW e \in events, NEW d, EditEventDay(e, d) PROVE Numbered'
  <2> DEFINE m == [e EXCEPT !.day = d]
  <2>1. m = [id |-> e.id, uid |-> e.uid, day |-> d]
    BY DEF Numbered, IsEvent
  <2>2. IsEvent(m) /\ m.uid = e.uid /\ m.id = e.id
    BY <2>1 DEF IsEvent
  <2>3. events' = (events \ {e}) \cup {m}
    BY <1>4 DEF EditEventDay
  <2> HIDE DEF m
  <2> QED BY <2>2, <2>3 DEF Numbered, IsEvent
<1>5. (Outside \/ List \/ Abort \/ QueueOrphans \/ Reset
        \/ (\E q \in queue : Approve(q) \/ Reject(q)) \/ \E e \in events : DeleteEvent(e))
         => events' \subseteq events
  BY DEF Outside, Tick, RemoveEntry, PutEntry, List, Abort, QueueOrphans, Reset, Approve, Reject,
         DeleteEvent, tables
<1>6. UNCHANGED vars => events' \subseteq events
  BY DEF vars, tables
<1> QED BY <1>1, <1>2, <1>3, <1>4, <1>5, <1>6 DEF Next, Backend

(* In a calm run the listing and the calendar do not part.                 *)
LEMMA ListedInvariance == AsListed /\ [CalmNext]_vars => AsListed'
<1> SUFFICES ASSUME AsListed, [CalmNext]_vars PROVE AsListed'
  OBVIOUS
<1>1. CASE List
  <2>1. PICK read \in SUBSET InReach :
          /\ listed' = [u \in Uids |-> IF u \in read THEN cal[u] ELSE Gone]
          /\ missed' = InReach \ read
    BY <1>1 DEF List
  <2>2. InReach' = InReach
    BY <1>1 DEF List, InReach, InWindow
  <2>3. ASSUME NEW u \in InReach \ missed'
        PROVE  listed'[u] # Gone
    BY <2>1, <2>3 DEF InReach
  <2> QED BY <2>2, <2>3 DEF AsListed
<1>2. CASE UNCHANGED <<now, cal, listed, missed>> /\ (phase' = phase \/ ProcessItems)
  BY <1>2 DEF ProcessItems, AsListed, InReach, InWindow
<1>3. CASE phase' = "off"
  BY <1>3 DEF AsListed
<1>4. (phase = "off" /\ Outside) \/ Abort \/ QueueOrphans => phase' = "off"
  BY DEF Outside, Tick, RemoveEntry, PutEntry, run, Abort, QueueOrphans
<1>5. ProcessItems \/ Reset \/ (\E q \in queue : Approve(q) \/ Reject(q))
        \/ (\E e \in events : DeleteEvent(e))
        \/ (\E d \in {DayOf(t) : t \in Slots} :
              AddEvent(d) \/ \E e \in events : EditEventDay(e, d))
        => UNCHANGED <<now, cal, listed, missed>> /\ (phase' = phase \/ ProcessItems)
  BY DEF ProcessItems, Reset, Approve, Reject, DeleteEvent, AddEvent, EditEventDay, run
<1>6. UNCHANGED vars => UNCHANGED <<now, cal, listed, missed>> /\ phase' = phase
  BY DEF vars, run
<1> QED BY <1>1, <1>2, <1>3, <1>4, <1>5, <1>6 DEF CalmNext, Backend

(* As long as the calendar stays put during a run, no event is suggested    *)
(* for deletion whose entry the calendar still has within the window and    *)
(* the run has read: not by an id that was given again, nor by a day that   *)
(* was edited.                                                              *)
THEOREM ReadAreKept == CalmSpec => SuggestedAreGone
<1>1. Init => IInv /\ Numbered /\ AsListed
  BY DEF Init, IInv, OneSuggestionPerEvent, Numbered, AsListed
<1>2. CalmNext => Next
  BY DEF CalmNext, Next
<1>3. IInv /\ Numbered /\ AsListed /\ [CalmNext]_vars => IInv' /\ Numbered' /\ AsListed'
  BY <1>2, Invariance, NumberedInvariance, ListedInvariance
<1>4. IInv /\ Numbered /\ AsListed /\ [CalmNext]_vars =>
        [\A q \in queue' \ queue : q.review = "pending" =>
            \A e \in events : e.id = q.event => e.uid \notin InReach \ missed]_vars
  <2> SUFFICES ASSUME IInv, Numbered, AsListed, CalmNext,
                      NEW q \in queue' \ queue, q.review = "pending",
                      NEW e \in events, e.id = q.event
               PROVE  e.uid \notin InReach \ missed
    OBVIOUS
  <2>1. CASE QueueOrphans
    <3>1. PICK o \in Orphans : q = [event |-> o.id, review |-> "pending"]
      BY <2>1 DEF QueueOrphans
    <3>2. o = e
      BY <3>1 DEF Orphans, Numbered
    <3>3. e.uid \in Uids /\ listed[e.uid] = Gone
      BY <3>2 DEF Orphans, Numbered, UidSet
    <3> QED BY <2>1, <3>3 DEF QueueOrphans, AsListed
  <2>2. CASE \E p \in queue : Approve(p) \/ Reject(p)
    <3>1. PICK p \in queue, verdict \in {"approved", "rejected"} :
            queue' = (queue \ {p}) \cup {[p EXCEPT !.review = verdict]}
      BY <2>2 DEF Approve, Reject, Decide
    <3>2. q = [p EXCEPT !.review = verdict]
      BY <3>1
    <3>3. q = [event |-> p.event, review |-> verdict]
      BY <3>2 DEF IInv, IsRow
    <3> QED BY <3>3
  <2>3. CASE queue' = queue
    BY <2>3
  <2>4. Outside \/ List \/ ProcessItems \/ Abort \/ Reset
          \/ (\E f \in events : DeleteEvent(f))
          \/ (\E d \in {DayOf(t) : t \in Slots} :
                AddEvent(d) \/ \E f \in events : EditEventDay(f, d))
          => queue' = queue
    BY DEF Outside, Tick, RemoveEntry, PutEntry, List, ProcessItems, Abort, Reset, DeleteEvent,
           AddEvent, EditEventDay, tables
  <2> QED BY <2>1, <2>2, <2>3, <2>4 DEF CalmNext, Backend
<1> QED BY <1>1, <1>3, <1>4, PTL DEF CalmSpec, SuggestedAreGone

-----------------------------------------------------------------------------
(* Why a wrong suggestion costs nothing that the next sync does not bring   *)
(* back: an event that goes takes its ledger row along or is hidden, and    *)
(* no move and no edit takes an event from its entry.                       *)

Healing == (\A e \in events : IsEvent(e)) /\ ApprovalsHeal

(* A run marks an entry for an event it saves, or hides it.                 *)
LEMMA RunHeals ==
    ASSUME Healing, ProcessItems
    PROVE  Healing'
<1>1. PICK saved \in SUBSET (UidSet \ ledger) :
        /\ \E number \in [saved -> 1..Cardinality(saved)] :
             events' = {Follow(e) : e \in events} \cup
               {[id |-> LastId + number[u], uid |-> u, day |-> DayOf(listed[u])] : u \in saved}
        /\ \E marked \in SUBSET (UidSet \ (ledger \cup saved)) :
              ledger' = ledger \cup saved \cup marked /\ hidden' = hidden \cup marked
  BY DEF ProcessItems
<1>2. PICK marked \in SUBSET (UidSet \ (ledger \cup saved)) :
        ledger' = ledger \cup saved \cup marked /\ hidden' = hidden \cup marked
  BY <1>1
<1>3. PICK number \in [saved -> 1..Cardinality(saved)] :
        events' = {Follow(e) : e \in events} \cup
          {[id |-> LastId + number[u], uid |-> u, day |-> DayOf(listed[u])] : u \in saved}
  BY <1>1
<1> DEFINE new == {[id |-> LastId + number[u], uid |-> u, day |-> DayOf(listed[u])] : u \in saved}
<1>4. \A e \in new : IsEvent(e)
  BY DEF IsEvent
<1>5. ASSUME NEW u \in saved PROVE \E e \in new : e.uid = u
  <2> WITNESS [id |-> LastId + number[u], uid |-> u, day |-> DayOf(listed[u])] \in new
  <2> QED OBVIOUS
<1> HIDE DEF new
<1>6. ASSUME NEW e \in events
      PROVE  IsEvent(Follow(e)) /\ Follow(e).uid = e.uid
  BY MovesOnly DEF Follow, Healing
<1>7. events' = {Follow(e) : e \in events} \cup new
  BY <1>3 DEF new
<1>8. \A e \in events' : IsEvent(e)
  BY <1>4, <1>6, <1>7
<1>9. ASSUME NEW u \in ledger', u \notin hidden'
      PROVE  \E e \in events' : e.uid = u
  <2>1. CASE u \in saved
    BY <2>1, <1>5, <1>7
  <2>2. CASE u \in ledger /\ u \notin hidden
    <3>1. PICK e \in events : e.uid = u
      BY <2>2 DEF Healing, ApprovalsHeal
    <3> QED BY <3>1, <1>6, <1>7
  <2> QED BY <2>1, <2>2, <1>2, <1>9
<1> QED BY <1>8, <1>9 DEF Healing, ApprovalsHeal

LEMMA HealingInvariance == Healing /\ [Next]_vars => Healing'
<1> SUFFICES ASSUME Healing, [Next]_vars PROVE Healing'
  OBVIOUS
<1>1. CASE ProcessItems
  BY <1>1, RunHeals
<1>2. CASE UNCHANGED <<events, ledger, hidden>>
  BY <1>2 DEF Healing, ApprovalsHeal, IsEvent
<1>3. CASE Reset
  BY <1>3 DEF Reset, Healing, ApprovalsHeal, IsEvent
<1>4. ASSUME NEW e \in events, DeleteEvent(e) PROVE Healing'
  BY <1>4 DEF DeleteEvent, Healing, ApprovalsHeal, IsEvent
<1>5. ASSUME NEW d, AddEvent(d) PROVE Healing'
  BY <1>5 DEF AddEvent, Healing, ApprovalsHeal, IsEvent
<1>6. ASSUME NEW e \in events, NEW d, EditEventDay(e, d) PROVE Healing'
  <2> DEFINE m == [e EXCEPT !.day = d]
  <2>1. IsEvent(m) /\ m.uid = e.uid
    BY MovesOnly DEF Healing
  <2>2. /\ events' = (events \ {e}) \cup {m}
        /\ ledger' = ledger /\ hidden' = hidden
    BY <1>6 DEF EditEventDay
  <2> HIDE DEF m
  <2> QED BY <2>1, <2>2 DEF Healing, ApprovalsHeal, IsEvent
<1>7. ASSUME NEW q \in queue, Approve(q) PROVE Healing'
  <2>1. /\ events' = {e \in events : e.id # q.event}
        /\ ledger' = ledger \ {e.uid : e \in {f \in events : f.id = q.event}}
        /\ hidden' = hidden \cap ledger'
    BY <1>7 DEF Approve
  <2>2. ASSUME NEW u \in ledger', u \notin hidden'
        PROVE  \E e \in events' : e.uid = u
    <3>1. u \in ledger /\ u \notin hidden
      BY <2>1, <2>2
    <3>2. PICK e \in events : e.uid = u
      BY <3>1 DEF Healing, ApprovalsHeal
    <3>3. e.id # q.event
      BY <2>1, <2>2, <3>2
    <3> QED BY <2>1, <3>2, <3>3
  <2> QED BY <2>1, <2>2 DEF Healing, ApprovalsHeal, IsEvent
<1>8. (Outside \/ List \/ Abort \/ QueueOrphans \/ \E q \in queue : Reject(q))
         => UNCHANGED <<events, ledger, hidden>>
  BY DEF Outside, Tick, RemoveEntry, PutEntry, List, Abort, QueueOrphans, Reject, tables
<1>9. UNCHANGED vars => UNCHANGED <<events, ledger, hidden>>
  BY DEF vars, tables
<1> QED BY <1>1, <1>2, <1>3, <1>4, <1>5, <1>6, <1>7, <1>8, <1>9 DEF Next, Backend

(* Whatever is listed in part, suggested wrongly and approved: the ledger   *)
(* keeps no entry from coming back but those a run only marked and those    *)
(* whose event a person has deleted directly.                               *)
THEOREM ApprovedComeBack == Spec => []ApprovalsHeal
<1>1. Init => Healing
  BY DEF Init, Healing, ApprovalsHeal
<1>2. Healing => ApprovalsHeal
  BY DEF Healing
<1> QED BY <1>1, <1>2, HealingInvariance, PTL DEF Spec
=============================================================================
