---------------------------- MODULE MailSync_proofs ----------------------------
(* Proofs about MailSync, for any number of runs, messages and half-days,    *)
(* and any size of a batch.                                                  *)
EXTENDS MailSync, TLAPS, FiniteSetTheorems

(* What run r still answers for: while it goes through its messages every    *)
(* message in the box is dealt with by somebody, in its list, or missed; and *)
(* once it has committed the list is empty.                                  *)
Answers(r) ==
    /\ pc[r] = "off" => /\ todo[r] = {} /\ marks[r] = {}
                        /\ looked[r] = {} /\ missed[r] = {}
    /\ pc[r] = "items" =>
         \A m \in box : \/ m \in seen \cup excused \cup looked[r] \cup missed[r]
                        \/ <<m, m>> \in todo[r]
    /\ pc[r] = "cursor" =>
         /\ todo[r] = {}
         /\ \A m \in box : m \in seen \cup excused \cup missed[r]

(* A message is known by itself: Gmail's ids, or positions in an inbox from  *)
(* which nothing is deleted.                                                 *)
IInv ==
    /\ TypeOK
    /\ provider = "icloud" => box = 1..mails
    /\ cursor # Never => cursor <= now
    /\ ledger \subseteq seen
    /\ \A r \in Runs : marks[r] \subseteq looked[r]
    /\ \A r \in Runs : \A p \in todo[r] : p[1] = p[2]
    /\ \A r \in Runs : Answers(r)
    /\ NothingSkipped

USE MailAssumption DEF Mails

LEMMA IdIsSelf ==
    ASSUME TypeOK, provider = "icloud" => box = 1..mails, NEW m \in box
    PROVE  Id(m) = m
<1>1. CASE provider = "gmail"
  BY <1>1 DEF Id
<1>2. CASE provider = "icloud"
  <2>1. m \in Nat /\ mails \in Nat /\ m \in 1..mails
    BY DEF TypeOK
  <2>2. {k \in box : k <= m} = 1..m
    BY <1>2, <2>1
  <2>3. Cardinality(1..m) = m
    BY <2>1, FS_Interval
  <2> QED BY <1>2, <2>2, <2>3 DEF Id
<1> QED BY <1>1, <1>2 DEF TypeOK

LEMMA SearchKeeps == ASSUME IInv, NEW r \in Runs, Search(r) PROVE IInv'
<1> DEFINE found == {m \in box : Listable(m, cursor)}
           late  == Latest(found)
<1>0. /\ todo' = [todo EXCEPT ![r] = {<<Id(m), m>> : m \in {k \in late : Id(k) \notin ledger}}]
      /\ missed' = [missed EXCEPT ![r] = found \ late]
      /\ pc' = [pc EXCEPT ![r] = "items"]
      /\ UNCHANGED <<provider, now, mails, at, box, cursor, ledger, lock, marks, looked,
                     seen, excused>>
  BY DEF Search
<1>1. late \subseteq found
  BY DEF Latest
<1>2. \A m \in box : Id(m) = m
  BY IdIsSelf DEF IInv
<1>3. found \subseteq box /\ box \subseteq Mails
  BY DEF IInv, TypeOK
<1> DEFINE open == {k \in late : Id(k) \notin ledger}
           list == {<<Id(m), m>> : m \in open}
<1>a. /\ \A q \in list : \E m \in open : q = <<m, m>>
      /\ \A m \in open : <<m, m>> \in list
  BY <1>1, <1>2, <1>3
<1>b. open \subseteq Mails /\ \A m \in late : m \in open \/ m \in ledger
  BY <1>1, <1>2, <1>3
<1>c. todo' = [todo EXCEPT ![r] = list]
  BY <1>0
<1> HIDE DEF list, open
<1>d. list \subseteq Mails \X Mails /\ \A q \in list : q[1] = q[2]
  BY <1>a, <1>b
<1>4. TypeOK'
  BY <1>0, <1>c, <1>d, <1>1, <1>3 DEF IInv, TypeOK
<1>5. \A m \in box : ~Listable(m, cursor) => m \in seen \cup excused
  BY DEF IInv, NothingSkipped
<1>6. \A m \in found : m \in seen \cup (found \ late) \/ <<m, m>> \in todo'[r]
  BY <1>a, <1>b, <1>c DEF IInv, TypeOK
<1>7. \A s \in Runs : \A q \in todo'[s] : q[1] = q[2]
  BY <1>c, <1>d DEF IInv, TypeOK
<1> HIDE DEF late
<1>8. ASSUME NEW s \in Runs PROVE Answers(s)'
  <2>1. CASE s = r
    BY <1>0, <1>5, <1>6, <2>1 DEF Answers, IInv, TypeOK
  <2>2. CASE s # r
    BY <1>0, <2>2 DEF Answers, IInv, TypeOK
  <2> QED BY <2>1, <2>2
<1>9. NothingSkipped'
  BY <1>0 DEF NothingSkipped, Listable, IInv
<1> QED BY <1>0, <1>4, <1>7, <1>8, <1>9 DEF IInv

(* What one message of a run changes, in general: it leaves the list, for a  *)
(* reason.                                                                   *)
LEMMA MessageKeeps ==
    ASSUME IInv, NEW r \in Runs, NEW p \in todo[r], TypeOK',
           UNCHANGED <<provider, now, mails, at, box, cursor, ledger, pc, seen, excused>>,
           \A s \in Runs \ {r} : /\ todo'[s] = todo[s] /\ marks'[s] = marks[s]
                                 /\ looked'[s] = looked[s] /\ missed'[s] = missed[s],
           todo'[r] = todo[r] \ {p},
           looked[r] \subseteq looked'[r], missed[r] \subseteq missed'[r],
           p[2] \in seen \cup looked'[r] \cup missed'[r],
           marks'[r] \subseteq marks[r] \cup (looked'[r] \cap {p[1]})
    PROVE  IInv'
<1>1. ASSUME NEW s \in Runs PROVE Answers(s)'
  <2>1. CASE s = r
    <3>1. pc[r] = "items"
      <4>1. pc[r] \in {"off", "items", "cursor"}
        BY DEF IInv, TypeOK
      <4>2. todo[r] # {} /\ Answers(r)
        BY DEF IInv
      <4> QED BY <4>1, <4>2 DEF Answers
    <3>2. ASSUME NEW m \in box
          PROVE  m \in seen \cup excused \cup looked'[r] \cup missed'[r] \/ <<m, m>> \in todo'[r]
      <4>1. m \in seen \cup excused \cup looked[r] \cup missed[r] \/ <<m, m>> \in todo[r]
        BY <3>1 DEF IInv, Answers
      <4>2. <<m, m>> = p => m = p[2]
        OBVIOUS
      <4> QED BY <4>1, <4>2
    <3> QED BY <2>1, <3>1, <3>2 DEF Answers
  <2>2. CASE s # r
    BY <2>2 DEF Answers, IInv
  <2> QED BY <2>1, <2>2
<1>2. \A s \in Runs : marks'[s] \subseteq looked'[s]
  BY DEF IInv
<1>3. \A s \in Runs : \A q \in todo'[s] : q[1] = q[2]
  BY DEF IInv
<1>4. NothingSkipped'
  BY DEF NothingSkipped, Listable, IInv
<1> QED BY <1>1, <1>2, <1>3, <1>4 DEF IInv

LEMMA DoneKeeps ==
    ASSUME IInv, NEW r \in Runs, NEW p \in todo[r],
           Ignore(r, p) \/ Mark(r, p) \/ Save(r, p) \/ AlreadySynced(r, p) \/ Fail(r, p)
    PROVE  IInv'
<1>0. p[1] = p[2] /\ p[1] \in Mails /\ p[2] \in Mails
  BY DEF IInv, TypeOK
<1>1. CASE Ignore(r, p)
  BY <1>0, <1>1, MessageKeeps DEF Ignore, Done, IInv, TypeOK
<1>2. CASE Mark(r, p)
  BY <1>0, <1>2, MessageKeeps DEF Mark, Done, IInv, TypeOK
<1>3. CASE Save(r, p)
  BY <1>0, <1>3, MessageKeeps DEF Save, Done, IInv, TypeOK
<1>4. CASE AlreadySynced(r, p)
  BY <1>0, <1>4, MessageKeeps DEF AlreadySynced, IInv, TypeOK
<1>5. CASE Fail(r, p)
  BY <1>0, <1>5, MessageKeeps DEF Fail, IInv, TypeOK
<1> QED BY <1>1, <1>2, <1>3, <1>4, <1>5

LEMMA CommitKeeps == ASSUME IInv, NEW r \in Runs, Commit(r) PROVE IInv'
<1>1. TypeOK'
  BY DEF IInv, TypeOK, Commit, Released
<1>2. ASSUME NEW s \in Runs PROVE Answers(s)'
  BY DEF IInv, TypeOK, Commit, Answers
<1>3. NothingSkipped'
  BY DEF Commit, NothingSkipped, Listable, IInv
<1> QED BY <1>1, <1>2, <1>3 DEF IInv, Commit, TypeOK

LEMMA EndKeeps == ASSUME IInv, NEW r \in Runs, SetCursor(r) \/ Abort(r) PROVE IInv'
<1>1. TypeOK'
  BY DEF IInv, TypeOK, SetCursor, Abort, Off, Released
<1>2. ASSUME NEW s \in Runs PROVE Answers(s)'
  <2>1. /\ box' = box /\ seen' = seen /\ excused \subseteq excused'
        /\ Off(r)
    BY DEF SetCursor, Abort
  <2>2. CASE s = r
    BY <2>1, <2>2 DEF IInv, TypeOK, Off, Answers
  <2>3. CASE s # r
    <3>1. /\ pc'[s] = pc[s] /\ todo'[s] = todo[s] /\ marks'[s] = marks[s]
          /\ looked'[s] = looked[s] /\ missed'[s] = missed[s]
      BY <2>1, <2>3 DEF IInv, TypeOK, Off
    <3> QED BY <2>1, <3>1 DEF IInv, Answers
  <2> QED BY <2>2, <2>3
<1>3. CASE SetCursor(r)
  <2>1. \A m \in box : m \in seen \cup excused \cup missed[r]
    BY <1>3 DEF SetCursor, IInv, Answers
  <2>2. /\ excused' = excused \cup {m \in missed[r] : ~Listable(m, now)}
        /\ cursor' = now /\ UNCHANGED <<provider, at, box, seen>>
    BY <1>3 DEF SetCursor
  <2>3. \A m : Listable(m, cursor)' = Listable(m, now)
    BY <2>2 DEF Listable
  <2>4. NothingSkipped'
    BY <2>1, <2>2, <2>3 DEF NothingSkipped
  <2> QED BY <1>1, <1>2, <1>3, <2>4 DEF IInv, SetCursor, Off, TypeOK
<1>4. CASE Abort(r)
  <2>1. NothingSkipped'
    BY <1>4 DEF Abort, NothingSkipped, Listable, IInv
  <2> QED BY <1>1, <1>2, <1>4, <2>1 DEF IInv, Abort, Off, TypeOK
<1> QED BY <1>3, <1>4

LEMMA ArriveKeeps == ASSUME IInv, Arrive PROVE IInv'
<1>1. TypeOK'
  BY DEF IInv, TypeOK, Arrive
<1>2. ASSUME NEW s \in Runs PROVE Answers(s)'
  BY DEF IInv, TypeOK, Arrive, Answers
<1>3. /\ \A m \in box : at'[m] = at[m]
      /\ at'[mails + 1] = now /\ box' = box \cup {mails + 1}
      /\ UNCHANGED <<provider, cursor, seen, excused>>
  BY DEF IInv, TypeOK, Arrive
<1>4. at \in [Mails -> Nat] /\ now \in Nat /\ mails \in Nat /\ box \subseteq 1..mails
  BY DEF IInv, TypeOK
<1>5. ASSUME NEW n, n = mails + 1 PROVE Listable(n, cursor)'
  <2>1. CASE cursor = Never
    BY <1>3, <2>1 DEF Listable
  <2>2. CASE cursor # Never
    <3>1. cursor \in Nat /\ cursor <= now
      BY <2>2 DEF IInv, TypeOK
    <3>2. now \div 2 >= cursor \div 2
      BY <1>4, <3>1
    <3>3. provider \in {"gmail", "icloud"} /\ now >= cursor
      BY <1>4, <3>1 DEF IInv, TypeOK
    <3> QED BY <1>3, <1>5, <3>2, <3>3 DEF Listable, DayOf
  <2> QED BY <2>1, <2>2
<1>6. ASSUME NEW m \in box, ~Listable(m, cursor)' PROVE m \in seen \cup excused
  <2>1. ~Listable(m, cursor)
    BY <1>3, <1>4, <1>6 DEF Listable
  <2> QED BY <2>1 DEF IInv, NothingSkipped
<1>7. NothingSkipped'
  <2> SUFFICES ASSUME NEW m \in box', ~Listable(m, cursor)'
               PROVE  m \in seen' \cup excused'
    BY DEF NothingSkipped, Listable
  <2> QED BY <1>3, <1>5, <1>6
<1>8. provider' = "icloud" => box' = 1..mails'
  BY <1>3, <1>4 DEF IInv, Arrive
<1> QED BY <1>1, <1>2, <1>7, <1>8 DEF IInv, Arrive

LEMMA ResetKeeps == ASSUME IInv, AllOff, Reset PROVE IInv'
<1>1. TypeOK'
  BY DEF IInv, TypeOK, Reset, runs
<1>2. ASSUME NEW s \in Runs PROVE Answers(s)'
  BY DEF IInv, Reset, runs, AllOff, Answers
<1>3. NothingSkipped'
  BY DEF Reset, NothingSkipped, Listable
<1> QED BY <1>1, <1>2, <1>3 DEF IInv, Reset, runs

LEMMA DeleteKeeps ==
    ASSUME IInv, provider = "gmail", NEW m \in box, Delete(m)
    PROVE  IInv'
<1>1. TypeOK'
  BY DEF IInv, TypeOK, Delete, runs
<1>2. ASSUME NEW s \in Runs PROVE Answers(s)'
  BY DEF IInv, Delete, runs, Answers
<1>3. NothingSkipped'
  BY DEF Delete, NothingSkipped, Listable, IInv
<1> QED BY <1>1, <1>2, <1>3 DEF IInv, Delete, runs

LEMMA TickKeeps == ASSUME IInv, Tick PROVE IInv'
<1>1. TypeOK'
  BY DEF IInv, TypeOK, Tick, runs
<1>2. ASSUME NEW s \in Runs PROVE Answers(s)'
  BY DEF IInv, Tick, runs, Answers
<1>3. NothingSkipped'
  BY DEF Tick, NothingSkipped, Listable, IInv
<1>4. cursor' # Never => cursor' <= now'
  BY DEF Tick, IInv, TypeOK
<1> QED BY <1>1, <1>2, <1>3, <1>4 DEF IInv, Tick, runs

LEMMA StutterKeeps == IInv /\ UNCHANGED vars => IInv'
<1> SUFFICES ASSUME IInv, UNCHANGED vars PROVE IInv'
  OBVIOUS
<1>1. TypeOK' /\ NothingSkipped'
  BY DEF IInv, TypeOK, NothingSkipped, Listable, vars, runs
<1>2. ASSUME NEW s \in Runs PROVE Answers(s)'
  BY DEF IInv, vars, runs, Answers
<1> QED BY <1>1, <1>2 DEF IInv, vars, runs

LEMMA Invariance == IInv /\ [CalmNext]_vars => IInv'
<1> SUFFICES ASSUME IInv, [CalmNext]_vars PROVE IInv'
  OBVIOUS
<1>1. ASSUME NEW r \in Runs, RunStep(r) PROVE IInv'
  BY <1>1, SearchKeeps, DoneKeeps, CommitKeeps, EndKeeps DEF RunStep
<1> QED BY <1>1, ResetKeeps, DeleteKeeps, ArriveKeeps, TickKeeps, StutterKeeps
        DEF CalmNext

LEMMA Initially == Init => IInv
BY DEF Init, IInv, TypeOK, Answers, NothingSkipped, Listable

LEMMA Always == CalmSpec => []IInv
BY Initially, Invariance, PTL DEF CalmSpec

(* No message falls behind the cursor unseen, other than those that the run  *)
(* which moved the cursor could not load or was not told about: whatever     *)
(* runs overlap, abort, or cross midnight.                                   *)
THEOREM NothingIsSkipped == CalmSpec => []NothingSkipped
<1>1. IInv => NothingSkipped
  BY DEF IInv
<1> QED BY <1>1, Always, PTL

(* As long as positions stand for messages, the ledger keeps runs only from  *)
(* messages that have been processed since the last reset.                   *)
THEOREM LedgerIsTrue == CalmSpec => []LedgerIsHistory
<1>1. IInv => LedgerIsHistory
  BY IdIsSelf DEF IInv, LedgerIsHistory
<1> QED BY <1>1, Always, PTL
=============================================================================
