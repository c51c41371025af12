------------------------------- MODULE MailSync -------------------------------
(***************************************************************************)
(* The Gmail and iCloud Mail syncs (_do_gmail, _do_icloud_mail): what a    *)
(* run asks the provider for, what it does about each message, and the two *)
(* things it leaves behind: the ledger of message ids, and the time of the *)
(* last sync, behind which no later run looks.                             *)
(*                                                                         *)
(* The providers differ in three ways.  Gmail searches from a second on,   *)
(* iCloud from a day on, and of that only the last messages; Gmail has ids *)
(* of its own, iCloud numbers the messages of the inbox; a Gmail run keeps *)
(* the event loop to itself, an iCloud run gives it up at each fetch.      *)
(* Messages are those that match the contacts and applications searched    *)
(* for; time runs in half-days, so that a day has an earlier and a later   *)
(* hour.  The rows a message becomes are the subject of SyncStore.         *)
(***************************************************************************)
EXTENDS Naturals, FiniteSets

CONSTANTS
    Runs,      \* runs that may be under way at the same time
    MaxMails,  \* bound: messages that arrive
    MaxTime,   \* bound: half-days that pass
    Batch,     \* messages an iCloud run looks at (100)
    Never,     \* gmail_last_sync / mail_last_sync is NULL
    Nobody     \* nobody holds the write lock

ASSUME MailAssumption ==
    /\ MaxMails \in Nat /\ MaxTime \in Nat /\ Batch \in Nat
    /\ Never \notin Nat /\ Nobody \notin Runs

VARIABLES
    provider,  \* the mail service
    now,
    mails,     \* how many messages have arrived; they are 1..mails
    at,        \* when each of them arrived
    box,       \* those that have not been deleted
    cursor,    \* gmail_last_sync, mail_last_sync
    ledger,    \* synced_items of the source
    lock,      \* the run that holds the write lock
    pc,        \* where each run is
    todo,      \* the <<id, message>> pairs it has not come to yet
    marks,     \* ids it has marked and not committed
    looked,    \* messages it is done with
    missed,    \* history: messages it could not load or was not told about
    seen,      \* history: messages a committed run was done with
    excused    \* history: messages behind the cursor that were missed

runs == <<pc, todo, marks, looked, missed>>
vars == <<provider, now, mails, at, box, cursor, ledger, lock, runs, seen, excused>>

Mails == 1..MaxMails

TypeOK ==
    /\ provider \in {"gmail", "icloud"}
    /\ now \in 0..MaxTime /\ mails \in 0..MaxMails
    /\ at \in [Mails -> 0..MaxTime]
    /\ box \subseteq 1..mails
    /\ cursor \in 0..MaxTime \cup {Never}
    /\ ledger \subseteq Mails
    /\ lock \in Runs \cup {Nobody}
    /\ pc \in [Runs -> {"off", "items", "cursor"}]
    /\ todo \in [Runs -> SUBSET (Mails \X Mails)]
    /\ marks \in [Runs -> SUBSET Mails]
    /\ looked \in [Runs -> SUBSET Mails] /\ missed \in [Runs -> SUBSET Mails]
    /\ seen \subseteq Mails /\ excused \subseteq Mails

Init ==
    /\ provider \in {"gmail", "icloud"}
    /\ now = 0 /\ mails = 0 /\ at = [m \in Mails |-> 0] /\ box = {}
    /\ cursor = Never /\ ledger = {} /\ lock = Nobody
    /\ pc = [r \in Runs |-> "off"]
    /\ todo = [r \in Runs |-> {}] /\ marks = [r \in Runs |-> {}]
    /\ looked = [r \in Runs |-> {}] /\ missed = [r \in Runs |-> {}]
    /\ seen = {} /\ excused = {}

-----------------------------------------------------------------------------
(* What a run asks for. *)

DayOf(t) == t \div 2

(* The query of a run that starts with cursor c: "after:<seconds>", or      *)
(* SINCE with the date that _since_date makes of it.                        *)
Listable(m, c) ==
    \/ c = Never
    \/ provider = "gmail" /\ at[m] >= c
    \/ provider = "icloud" /\ DayOf(at[m]) >= DayOf(c)

(* ids[-100:] *)
Latest(S) ==
    IF provider = "gmail" THEN S
    ELSE {m \in S : Cardinality({k \in S : k > m}) < Batch}

(* The message id; or the sequence number, which counts what is there. *)
Id(m) == IF provider = "gmail" THEN m ELSE Cardinality({k \in box : k <= m})

AllOff == \A r \in Runs : pc[r] = "off"

(* The provider answers, and the ids of the ledger are left out. *)
Search(r) ==
    /\ pc[r] = "off"
    /\ provider = "gmail" => AllOff
    /\ LET found == {m \in box : Listable(m, cursor)}
       IN  /\ todo' = [todo EXCEPT ![r] =
                        {<<Id(m), m>> : m \in {k \in Latest(found) : Id(k) \notin ledger}}]
           /\ missed' = [missed EXCEPT ![r] = found \ Latest(found)]
    /\ pc' = [pc EXCEPT ![r] = "items"]
    /\ UNCHANGED <<provider, now, mails, at, box, cursor, ledger, lock, marks, looked,
                   seen, excused>>

-----------------------------------------------------------------------------
(* One message of a run: the one with the lowest id. *)

Turn(r, p) == p \in todo[r] /\ \A q \in todo[r] : p[1] <= q[1]

Done(r, p) ==
    /\ Turn(r, p)
    /\ p[2] \in box
    /\ todo' = [todo EXCEPT ![r] = @ \ {p}]
    /\ looked' = [looked EXCEPT ![r] = @ \cup {p[2]}]
    /\ UNCHANGED <<provider, now, mails, at, box, cursor, ledger, pc, missed, seen, excused>>

(* Its headers name nobody: iCloud Mail remembers that in memory only. *)
Ignore(r, p) ==
    /\ provider = "icloud"
    /\ Done(r, p)
    /\ UNCHANGED <<lock, marks>>

(* mark_synced() without an event: in Gmail's phase 1, or process_item(). *)
Mark(r, p) ==
    /\ p[1] \notin ledger
    /\ Done(r, p)
    /\ marks' = [marks EXCEPT ![r] = @ \cup {p[1]}]
    /\ UNCHANGED lock

(* process_item() flushes the event of the message, and marks it. *)
Save(r, p) ==
    /\ p[1] \notin ledger
    /\ lock \in {r, Nobody}
    /\ Done(r, p)
    /\ marks' = [marks EXCEPT ![r] = @ \cup {p[1]}]
    /\ lock' = r

(* is_synced(): another run has committed it since. *)
AlreadySynced(r, p) ==
    /\ Turn(r, p)
    /\ p[1] \in ledger
    /\ todo' = [todo EXCEPT ![r] = @ \ {p}]
    /\ UNCHANGED <<provider, now, mails, at, box, cursor, ledger, lock, pc, marks, looked,
                   missed, seen, excused>>

(* It cannot be loaded or processed, or is gone: added to `errors`. *)
FailMarked(r, p) ==                         \* mutant: marked before it is loaded
    /\ Turn(r, p)
    /\ todo' = [todo EXCEPT ![r] = @ \ {p}]
    /\ missed' = [missed EXCEPT ![r] = @ \cup {p[2]}]
    /\ marks' = [marks EXCEPT ![r] = @ \cup {p[1]}]
    /\ UNCHANGED <<provider, now, mails, at, box, cursor, ledger, lock, pc, looked,
                   seen, excused>>
Fail(r, p) ==
    /\ Turn(r, p)
    /\ todo' = [todo EXCEPT ![r] = @ \ {p}]
    /\ missed' = [missed EXCEPT ![r] = @ \cup {p[2]}]
    /\ UNCHANGED <<provider, now, mails, at, box, cursor, ledger, lock, pc, marks, looked,
                   seen, excused>>

-----------------------------------------------------------------------------
(* The end of a run. *)

Released(r) == lock' = IF lock = r THEN Nobody ELSE lock

(* db.commit() *)
Commit(r) ==
    /\ pc[r] = "items"
    /\ todo[r] = {}
    /\ lock \in {r, Nobody} \/ marks[r] = {}
    /\ ledger' = ledger \cup marks[r]
    /\ seen' = seen \cup looked[r]
    /\ pc' = [pc EXCEPT ![r] = "cursor"]
    /\ marks' = [marks EXCEPT ![r] = {}]
    /\ looked' = [looked EXCEPT ![r] = {}]
    /\ Released(r)
    /\ UNCHANGED <<provider, now, mails, at, box, cursor, todo, missed, excused>>

Off(r) ==
    /\ pc' = [pc EXCEPT ![r] = "off"]
    /\ todo' = [todo EXCEPT ![r] = {}]
    /\ marks' = [marks EXCEPT ![r] = {}]
    /\ looked' = [looked EXCEPT ![r] = {}]
    /\ missed' = [missed EXCEPT ![r] = {}]

(* mail_last_sync = now; db.commit() *)
SetCursor(r) ==
    /\ pc[r] = "cursor"
    /\ lock = Nobody
    /\ cursor' = now
    /\ excused' = excused \cup {m \in missed[r] : ~Listable(m, now)}
    /\ Off(r)
    /\ UNCHANGED <<provider, now, mails, at, box, ledger, lock, seen>>

(* The search fails, nothing is to be searched for, the database is locked, *)
(* a batch raises, the process ends: rolled back.                           *)
CursorAnyway(r) ==                          \* mutant: the cursor set in `finally`
    /\ pc[r] # "off"
    /\ Off(r)
    /\ Released(r)
    /\ cursor' = now
    /\ UNCHANGED <<provider, now, mails, at, box, ledger, seen, excused>>
Abort(r) ==
    /\ pc[r] # "off"
    /\ Off(r)
    /\ Released(r)
    /\ UNCHANGED <<provider, now, mails, at, box, cursor, ledger, seen, excused>>

-----------------------------------------------------------------------------
(* reset_gmail_sync, reset_mail_sync: all messages count as not seen. *)
Reset ==
    /\ lock = Nobody
    /\ cursor' = Never /\ ledger' = {}
    /\ seen' = {} /\ excused' = {}
    /\ UNCHANGED <<provider, now, mails, at, box, lock, runs>>

(* The account, and time. *)
Arrive ==
    /\ mails < MaxMails
    /\ mails' = mails + 1
    /\ at' = [at EXCEPT ![mails + 1] = now]
    /\ box' = box \cup {mails + 1}
    /\ missed' = [r \in Runs |->
                    IF pc[r] = "off" THEN missed[r] ELSE missed[r] \cup {mails + 1}]
    /\ UNCHANGED <<provider, now, cursor, ledger, lock, pc, todo, marks, looked, seen, excused>>

Delete(m) ==
    /\ m \in box
    /\ box' = box \ {m}
    /\ UNCHANGED <<provider, now, mails, at, cursor, ledger, lock, runs, seen, excused>>

Tick ==
    /\ now < MaxTime
    /\ now' = now + 1
    /\ UNCHANGED <<provider, mails, at, box, cursor, ledger, lock, runs, seen, excused>>

RunStep(r) ==
    \/ Search(r)
    \/ \E p \in todo[r] :
          \/ Ignore(r, p) \/ Mark(r, p) \/ Save(r, p)
          \/ AlreadySynced(r, p) \/ Fail(r, p)
    \/ Commit(r) \/ SetCursor(r) \/ Abort(r)

Next ==
    \/ \E r \in Runs : RunStep(r)
    \/ Reset
    \/ \E m \in box : Delete(m)
    \/ Arrive \/ Tick

Spec == Init /\ [][Next]_vars

(* Nobody resets the sync during a run, or deletes a message from the inbox *)
(* whose messages are known by their position.                              *)
CalmNext ==
    \/ \E r \in Runs : RunStep(r)
    \/ AllOff /\ Reset
    \/ provider = "gmail" /\ \E m \in box : Delete(m)
    \/ Arrive \/ Tick
CalmSpec == Init /\ [][CalmNext]_vars

-----------------------------------------------------------------------------
(* Properties. *)

(* A message that no later run will ask for has been dealt with by one that *)
(* was committed, unless the run that moved the cursor past it was not told *)
(* about it or could not load it: aborted runs, runs that overlap and runs  *)
(* on both sides of midnight lose nothing else.                             *)
NothingSkipped ==
    \A m \in box : ~Listable(m, cursor) => m \in seen \cup excused

(* "Dedup table for already-processed external IDs" (the project status):   *)
(* a message that the ledger keeps a run from looking at has been processed.*)
LedgerIsHistory == \A m \in box : Id(m) \in ledger => m \in seen
=============================================================================
