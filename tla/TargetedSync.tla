---------------------------- MODULE TargetedSync ----------------------------
(***************************************************************************)
(* The sync of one application across all sources (sync_targeted.py)       *)
(* beside the account-wide syncs of notes, reminders, calls and documents, *)
(* assignment by hand, and the resets.                                     *)
(*                                                                         *)
(* A targeted run asks six sources at once, all of them on one database    *)
(* session; then it commits, matches the calls against the contacts the    *)
(* application has by now, commits again, scores, and leaves its result    *)
(* for the page that polls it.  An account-wide run lists its source (it   *)
(* gives up the event loop while it waits) and files what it found in one  *)
(* go.  Runs share the ledger, but not always the key of an item: the      *)
(* call list of an account-wide run prefixes its ids, and notes are found  *)
(* by hand under their own id, not its hash.                               *)
(*                                                                         *)
(* Kinds: "mail" (Gmail, iCloud Mail), "entry" (Google and iCloud          *)
(* calendars), "note" (notes and reminders: matched by text), "call",      *)
(* "file".  Reading and saving one item is one step here: nothing on the   *)
(* event loop can come between, and what a pool thread does in that gap is *)
(* in SyncStore.                                                           *)
(***************************************************************************)
EXTENDS Naturals, FiniteSets, FiniteSetsExt

CONSTANTS
    Apps,       \* applications (numbers: an index lists them in this order)
    Items,      \* mails, calendar entries, notes, calls, files
    People,     \* correspondents: an e-mail domain and a telephone number
    Targeters,  \* targeted runs that may be under way at a time
    Batchers,   \* account-wide runs that may be under way at a time
    Kind,       \* kind of each item
    Names,      \* applications whose company or role an item's text has
    From,       \* the correspondent of an item
    Day,        \* its date
    Start,      \* day of an application's own first event, or NoDay
    Company,    \* correspondents known from the company profile's website
    Asks,       \* mails whose wording suggests a status
    MailLimit,  \* _MAX_TARGETED_MAIL_MATCHES
    MaxCalls,   \* bound: calls of the API and files written
    NoDay, Idle, Free

ASSUME TargetedAssumption ==
    /\ Apps \subseteq Nat /\ IsFiniteSet(Apps)
    /\ Kind \in [Items -> {"mail", "entry", "note", "call", "file"}]
    /\ Names \in [Items -> SUBSET Apps]
    /\ From \in [Items -> People]
    /\ NoDay \notin Nat
    /\ Day \in [Items -> Nat \cup {NoDay}]
    /\ Start \in [Apps -> Nat \cup {NoDay}]
    /\ Company \in [Apps -> SUBSET People]
    /\ Asks \subseteq Items
    /\ MailLimit \in Nat /\ MaxCalls \in Nat
    /\ Targeters \subseteq Nat /\ Free \notin Targeters

VARIABLES
    status,     \* "active", "rejected" or "gone", for each application
    known,      \* committed keys of the ledger
    filed,      \* committed timeline entries of each application and key
    contacts,   \* committed correspondents linked to each application
    suggested,  \* mails with a status suggestion in the queue
    behind,     \* files modified before the folder's cursor (last_sync)
    lock,       \* the targeted run that holds SQLite's write lock, or Free
    run,        \* what each targeted run holds, or Idle
    batch,      \* what each account-wide run holds, or Idle
    hand,       \* a live assignment waiting for the foreign service, or Idle
    results,    \* _task_results and the progress that goes with it
    linked,     \* history: correspondents that were ever linked to each application
    settled,    \* history: keys of the ledger that are not to be on a timeline: only
                \* marked by a run, or their entry was deleted on request
    calls       \* history: what people have asked for

tables == <<status, known, filed, contacts, suggested, behind, linked, settled>>
vars == <<tables, lock, run, batch, hand, results, calls>>

(* A call of the API, or a file that is written.                            *)
Call == calls < MaxCalls /\ calls' = calls + 1

Of(kind) == {i \in Items : Kind[i] = kind}
Sources == {"mail", "entry", "note"}

(* What the ledger and the timeline call an item: _sync_calls_for_app takes *)
(* the bare id of a call, _do_icloud_calls prefixes it; the syncs hash a    *)
(* note's id, the live search does not; a suggestion has a suffix.          *)
Key(i, form) == <<i, form>>
BatchKey(i) == Key(i, IF Kind[i] = "call" THEN "prefixed" ELSE "id")
RunKey(i) == Key(i, IF Kind[i] = "call" THEN "bare" ELSE "id")
LiveKey(i) == Key(i, IF Kind[i] = "note" THEN "raw" ELSE "id")
SuggestionKey(i) == Key(i, "status")
Keys ==
    {BatchKey(i) : i \in Items} \cup {RunKey(i) : i \in Items}
      \cup {LiveKey(i) : i \in Items} \cup {SuggestionKey(i) : i \in Asks}

(* effective_bewerbung_floor, _predates_bewerbung *)
DatedDays(a) ==
    ({Start[a]} \cup {Day[k[1]] : k \in {k \in Keys : filed[<<a, k>>] > 0}})
      \ {NoDay}
Floor(a) == IF DatedDays(a) = {} THEN NoDay ELSE Min(DatedDays(a))
Predates(i, floor) == Day[i] = NoDay \/ floor = NoDay \/ Day[i] < floor

Plus(pairs) ==
    [p \in DOMAIN filed |-> filed[p] + (IF p \in pairs THEN 1 ELSE 0)]
Minus(pairs) == [p \in DOMAIN filed |-> IF p \in pairs THEN 0 ELSE filed[p]]

-----------------------------------------------------------------------------
(* A targeted run.                                                          *)

(* _do_sync: what the run knows from its start.  `vouched` is the snapshot  *)
(* of trusted domains, `floor` the events it loaded with the application;   *)
(* `left` the sources that will answer and have not (one that is not        *)
(* connected, does not apply or fails adds nothing), `mails` those fetched  *)
(* to be saved.  Of its session: entries flushed, keys marked, contacts     *)
(* created, and whether a flush has failed.                                 *)
Snapshot(a) == Company[a] \cup contacts[a]
NewRun(a, reports, answering) ==
    [app |-> a, reports |-> reports, at |-> "sources",
     vouched |-> Snapshot(a), floor |-> Floor(a), left |-> answering,
     mails |-> {}, new |-> {}, marks |-> {}, met |-> {}, failed |-> FALSE]

Run ==
    [app : Apps, reports : BOOLEAN, at : {"sources", "calls", "scoring"},
     vouched : SUBSET People, floor : Nat \cup {NoDay},
     left : SUBSET (Sources \cup {"mailbox"}), mails : SUBSET Items,
     new : SUBSET (Apps \X Keys), marks : SUBSET Keys, met : SUBSET People,
     failed : BOOLEAN]

ASSUME IdleAssumption == Idle \notin Run

(* Slots are alike, so the first idle one is taken.                         *)
Begin(a, reports, answering) ==
    \E t \in Targeters :
    /\ run[t] = Idle /\ \A u \in Targeters : u < t => run[u] # Idle
    /\ status[a] # "gone"
    /\ Floor(a) = NoDay => answering \subseteq {"note"}
    /\ run' = [run EXCEPT ![t] = NewRun(a, reports, answering)]
    /\ UNCHANGED <<tables, lock, batch, hand>>

(* A person asks for it and polls; the run behind a new application reports *)
(* nothing (its LinkedIn part is in LinkedInSync).                          *)
SyncForApp(a, answering) ==
    /\ Begin(a, TRUE, answering)
    /\ results' = [results EXCEPT ![a] = "asked"]
PostCreateSync(a, answering) ==
    /\ Begin(a, FALSE, answering)
    /\ UNCHANGED results

(* is_synced: what is committed and what this session has flushed.          *)
IsSynced(t, i) == RunKey(i) \in known \cup {p[2] : p \in run[t].new}

(* _text_matches on the terms, or a domain of the snapshot.                 *)
VouchedByNow(t, i) ==                   \* mutant: the live contacts of the session
    From[i] \in run[t].vouched \cup run[t].met
Vouched(t, i) == From[i] \in run[t].vouched
Named(t, i) == run[t].app \in Names[i]
Matches(t, i) ==
    CASE Kind[i] = "mail"  -> Named(t, i) \/ Vouched(t, i)
      [] Kind[i] = "entry" -> Vouched(t, i)
      [] Kind[i] = "note"  -> Named(t, i)
      [] Kind[i] = "call"  -> Vouched(t, i)

(* The first flush takes the write lock.  While another session holds it,   *)
(* the flush fails after busy_timeout; SQLAlchemy rolls the transaction     *)
(* back and refuses every later use of the session.                         *)
Save(t, open, source) ==
    LET r     == run[t]
        old   == {i \in open : Predates(i, r.floor)}
        fresh == open \ old
        left  == r.left \ {source}
    IN  IF r.failed \/ (fresh # {} /\ lock \notin {t, Free})
        THEN /\ run' = [run EXCEPT ![t] =
                  [r EXCEPT !.left = left, !.mails = {}, !.new = {},
                            !.marks = {}, !.met = {},
                            !.failed = r.failed \/ fresh # {}]]
             /\ lock' = IF lock = t THEN Free ELSE lock
        ELSE /\ run' = [run EXCEPT ![t] =
                  [r EXCEPT !.left = left, !.mails = {},
                            !.new = r.new \cup {<<r.app, RunKey(i)>> : i \in fresh},
                            !.marks = r.marks \cup {RunKey(i) : i \in open},
                            !.met = r.met \cup {From[i] : i \in
                               {j \in fresh : Kind[j] \in {"mail", "entry"}}}]]
             /\ lock' = IF fresh # {} THEN t ELSE lock

Found(t, kind) == {i \in Of(kind) : ~IsSynced(t, i) /\ Matches(t, i)}

(* Mail: those the ledger does not know are fetched one by one (here: as    *)
(* many as the mailbox yields); more than the limit ends the source.  Gmail *)
(* is asked without giving up the event loop, iCloud's server with it.      *)
CollectMails(t) ==
    /\ run[t] # Idle /\ "mail" \in run[t].left
    /\ \E found \in SUBSET Found(t, "mail") :
          LET r == run[t] IN
          run' = [run EXCEPT ![t] =
                    IF found = {} \/ Cardinality(found) > MailLimit
                    THEN [r EXCEPT !.left = r.left \ {"mail"}]
                    ELSE [r EXCEPT !.left = (r.left \ {"mail"}) \cup {"mailbox"},
                                   !.mails = found]]
    /\ UNCHANGED <<tables, lock, batch, hand, results>>

(* process_item asks the ledger again.                                      *)
AsCollected(t) == run[t].mails                          \* mutant: not asked again
AskAgain(t) == {i \in run[t].mails : ~IsSynced(t, i)}

FileMails(t) ==
    /\ run[t] # Idle /\ "mailbox" \in run[t].left
    /\ Save(t, AskAgain(t), "mailbox")
    /\ UNCHANGED <<tables, batch, hand, results>>

FoundEntries(t) == Found(t, "entry")
FileEntries(t) ==
    /\ run[t] # Idle /\ "entry" \in run[t].left
    /\ Save(t, FoundEntries(t), "entry")
    /\ UNCHANGED <<tables, batch, hand, results>>

FoundNotes(t) == Found(t, "note")
FileNotes(t) ==
    /\ run[t] # Idle /\ "note" \in run[t].left
    /\ Save(t, FoundNotes(t), "note")
    /\ UNCHANGED <<tables, batch, hand, results>>

(* db.commit(): everything the session holds, or nothing.                   *)
Written(r) == r.new # {} \/ r.marks # {}
CommitRun(t) ==
    LET r == run[t] IN
    /\ Written(r) => lock \in {t, Free}
    /\ known' = known \cup r.marks
    /\ filed' = Plus(r.new)
    /\ contacts' = [contacts EXCEPT ![r.app] = @ \cup r.met]
    /\ linked' = [linked EXCEPT ![r.app] = @ \cup r.met]
    /\ settled' = settled \cup {k \in r.marks : Predates(k[1], r.floor)}
    /\ suggested' = suggested \cup {i \in Asks : <<r.app, RunKey(i)>> \in r.new}
    /\ lock' = IF lock = t THEN Free ELSE lock
    /\ UNCHANGED <<status, behind>>

(* The end of a run, however it ended: _bg stores what it got.              *)
EndSilently(t) ==                       \* mutant: an exception leaves no result
    /\ run' = [run EXCEPT ![t] = Idle]
    /\ results' = IF run[t].reports /\ ~run[t].failed
                  THEN [results EXCEPT ![run[t].app] = "done"] ELSE results
EndRun(t) ==
    /\ run' = [run EXCEPT ![t] = Idle]
    /\ results' = IF run[t].reports THEN [results EXCEPT ![run[t].app] = "done"]
                  ELSE results

(* All sources have answered.  The commit expires every object: the contact *)
(* list the calls are matched against is read anew.                         *)
CommitSources(t) ==
    /\ run[t] # Idle /\ run[t].at = "sources" /\ run[t].left = {}
    /\ ~run[t].failed
    /\ CommitRun(t)
    /\ run' = [run EXCEPT ![t] =
                 [@ EXCEPT !.at = "calls", !.vouched = contacts'[run[t].app],
                           !.new = {}, !.marks = {}, !.met = {}]]
    /\ UNCHANGED <<batch, hand, results>>

(* The commit fails: PendingRollbackError behind a failed flush, a lock that *)
(* was not to be had, a full disk.  Nothing of the run is saved.            *)
SourcesLost(t) ==
    /\ run[t] # Idle /\ run[t].at = "sources" /\ run[t].left = {}
    /\ lock' = IF lock = t THEN Free ELSE lock
    /\ EndRun(t)
    /\ UNCHANGED <<tables, batch, hand>>

(* _sync_calls_for_app and the commit behind it.  The floor is read anew.   *)
FileCalls(t) ==
    /\ run[t] # Idle /\ run[t].at = "calls"
    /\ LET r     == run[t]
           found == Found(t, "call")
           old   == {i \in found : Predates(i, Floor(r.app))}
           new   == {<<r.app, RunKey(i)>> : i \in found \ old}
       IN  /\ found # {} => lock = Free
           /\ filed' = Plus(new)
           /\ known' = known \cup {RunKey(i) : i \in found}
           /\ settled' = settled \cup {RunKey(i) : i \in old}
    /\ run' = [run EXCEPT ![t].at = "scoring"]
    /\ UNCHANGED <<status, contacts, suggested, behind, linked, lock, batch, hand, results>>

(* No contacts, no agent, or no lock.                                       *)
NoCalls(t) ==
    /\ run[t] # Idle /\ run[t].at = "calls"
    /\ run' = [run EXCEPT ![t].at = "scoring"]
    /\ UNCHANGED <<tables, lock, batch, hand, results>>

(* score_application, best effort; then the result.                         *)
Finish(t) ==
    /\ run[t] # Idle /\ run[t].at = "scoring"
    /\ EndRun(t)
    /\ UNCHANGED <<tables, lock, batch, hand>>

-----------------------------------------------------------------------------
(* Account-wide runs: notes and reminders, calls, files.                    *)

(* build_firm_index leaves rejected applications out; it is built before    *)
(* the source is asked.  A folder is listed from the cursor on.             *)
Indexed == {a \in Apps : status[a] = "active"}
StartBatch(b, kind) ==
    /\ batch[b] = Idle
    /\ batch' = [batch EXCEPT ![b] =
          [kind |-> kind, apps |-> Indexed,
           listed |-> IF kind = "file" THEN Of("file") \ behind ELSE Of(kind)]]
    /\ UNCHANGED <<tables, lock, run, hand, results>>

Batch == [kind : {"note", "call", "file"}, apps : SUBSET Apps,
          listed : SUBSET Items]

(* Where each kind is filed.  A note goes to the first application it       *)
(* names; one that is gone or too old for it is marked, one that names      *)
(* nobody is not.  A call goes to every application its contacts are linked *)
(* to and that it does not predate.  A folder that names several            *)
(* applications is skipped, and its files need no date.                     *)
Hints(b, i) == Names[i] \cap batch[b].apps
Open(b) == {i \in batch[b].listed : BatchKey(i) \notin known}
Linked(i) == {a \in Apps : status[a] # "gone" /\ From[i] \in contacts[a]}

NoteTarget(b, i) == Min(Hints(b, i))
Homes(b, i) ==
    CASE Kind[i] = "note" ->
           IF Hints(b, i) = {} THEN {}
           ELSE {a \in {NoteTarget(b, i)} :
                   status[a] # "gone" /\ ~Predates(i, Floor(a))}
      [] Kind[i] = "call" -> {a \in Linked(i) : ~Predates(i, Floor(a))}
      [] Kind[i] = "file" -> IF Cardinality(Hints(b, i)) = 1 THEN Hints(b, i) ELSE {}

Filings(b) ==
    {<<p[1], BatchKey(p[2])>> : p \in
        {q \in Apps \X Open(b) : q[1] \in Homes(b, q[2])}}
Marked(b) ==
    {i \in Open(b) : Homes(b, i) # {} \/ (Kind[i] = "note" /\ Hints(b, i) # {})}

(* The folder's cursor moves when a file was filed, past all files.         *)
FinishBatch(b) ==
    /\ batch[b] # Idle /\ lock = Free
    /\ filed' = Plus(Filings(b))
    /\ known' = known \cup {BatchKey(i) : i \in Marked(b)}
    /\ settled' = settled \cup {BatchKey(i) : i \in {j \in Marked(b) : Homes(b, j) = {}}}
    /\ behind' = IF batch[b].kind = "file" /\ Filings(b) # {}
                 THEN Of("file") ELSE behind
    /\ batch' = [batch EXCEPT ![b] = Idle]
    /\ UNCHANGED <<status, contacts, suggested, linked, lock, run, hand, results>>

(* The agent does not answer, or another run holds the lock: rolled back.   *)
BatchFails(b) ==
    /\ batch[b] # Idle
    /\ batch' = [batch EXCEPT ![b] = Idle]
    /\ UNCHANGED <<tables, lock, run, hand, results>>

-----------------------------------------------------------------------------
(* By hand.  These endpoints run in pool threads and wait for the lock.     *)

EndpointTurn == lock = Free
OnlyTimeline == UNCHANGED <<status, contacts, behind, linked, lock, run, batch, results>>

(* list_candidates.  The list may be old when a person picks from it: what  *)
(* has been decided or assigned since is still on it.                       *)
LiveMails(a) == {i \in Of("mail") : filed[<<a, LiveKey(i)>>] = 0}
LiveEntries == Of("entry")
LiveNotes == Of("note")
ElsewhereFiled(a) ==
    {p \in (Apps \ {a}) \X Keys :
       Kind[p[2][1]] \in {"mail", "entry", "note"} /\ filed[p] > 0}
OnReview == suggested

(* manual_assign of an item found by the live search: the duplicate check,  *)
(* then the mail or the entry is fetched, then it is saved.                 *)
AskForItem(a, i) ==
    /\ hand = Idle /\ status[a] # "gone"
    /\ i \in LiveMails(a) \cup LiveEntries \cup LiveNotes
    /\ filed[<<a, LiveKey(i)>>] = 0
    /\ hand' = [app |-> a, item |-> i]
    /\ UNCHANGED <<tables, lock, run, batch, results>>

AssignLive ==
    /\ hand # Idle /\ EndpointTurn
    /\ filed' = Plus({<<hand.app, LiveKey(hand.item)>>})
    /\ known' = known \cup {LiveKey(hand.item)}
    /\ hand' = Idle
    /\ UNCHANGED <<suggested, settled>> /\ OnlyTimeline

AskFails ==
    /\ hand # Idle
    /\ hand' = Idle
    /\ UNCHANGED <<tables, lock, run, batch, results>>

(* manual_assign of another application's entry, after the confirmation.    *)
MoveEntry(a, b, k) ==
    /\ EndpointTurn /\ status[b] # "gone"
    /\ <<a, k>> \in ElsewhereFiled(b)
    /\ filed' = [filed EXCEPT ![<<a, k>>] = @ - 1, ![<<b, k>>] = @ + 1]
    /\ UNCHANGED <<known, suggested, settled, hand>> /\ OnlyTimeline

(* manual_assign of a suggestion: its review_status is not asked.           *)
AllOthers(a, k) == Apps \ {a}                   \* mutant: not looked up
Conflicts(a, k) == {b \in Apps \ {a} : filed[<<b, k>>] > 0}
AssignSuggestion(a, i) ==
    LET k == SuggestionKey(i) IN
    /\ EndpointTurn /\ status[a] # "gone"
    /\ i \in OnReview
    /\ IF Conflicts(a, k) = {} THEN filed' = Plus({<<a, k>>})
       ELSE \E b \in Conflicts(a, k) :
              filed' = [filed EXCEPT ![<<b, k>>] = @ - 1, ![<<a, k>>] = @ + 1]
    /\ UNCHANGED <<known, suggested, settled, hand>> /\ OnlyTimeline

(* reset_targeted_sync: the application's entries of every source, and the  *)
(* whole account's ledger of seven sources.                                 *)
CalendarsLeftOut == {"mail", "note", "call"}    \* mutant
ForgottenKinds == {"mail", "entry", "note", "call"}
ResetTargeted(a) ==
    /\ EndpointTurn /\ status[a] # "gone"
    /\ filed' = Minus({a} \X Keys)
    /\ known' = {k \in known : Kind[k[1]] \notin ForgottenKinds}
    /\ settled' = settled \cap known'
    /\ UNCHANGED <<suggested, hand>> /\ OnlyTimeline

(* Source resets: notes, reminders and files keep their entries, calls do   *)
(* not; the folder's cursor starts over.                                    *)
ResetSource(kind) ==
    /\ EndpointTurn
    /\ known' = {k \in known : Kind[k[1]] # kind}
    /\ filed' = IF kind = "call" THEN Minus({p \in DOMAIN filed : Kind[p[2][1]] = "call"})
                ELSE filed
    /\ behind' = IF kind = "file" THEN {} ELSE behind
    /\ settled' = settled \cap known'
    /\ UNCHANGED <<status, contacts, suggested, linked, lock, run, batch, hand, results>>

(* delete_event, bulk_delete_events; a duplicate that the clean-up deletes   *)
(* or a person confirms.  The ledger keeps the key: what a person has        *)
(* deleted is not to come back.                                              *)
DeleteEntry(a, k) ==
    /\ EndpointTurn /\ filed[<<a, k>>] > 0
    /\ filed' = [filed EXCEPT ![<<a, k>>] = @ - 1]
    /\ settled' = settled \cup ({k} \cap known)
    /\ UNCHANGED <<known, suggested, hand>> /\ OnlyTimeline

(* add_contact, link_contact *)
LinkContact(a, p) ==
    /\ EndpointTurn /\ status[a] # "gone" /\ p \notin contacts[a]
    /\ contacts' = [contacts EXCEPT ![a] = @ \cup {p}]
    /\ linked' = [linked EXCEPT ![a] = @ \cup {p}]
    /\ UNCHANGED <<status, known, filed, suggested, behind, settled, lock, run, batch,
                   hand, results>>

(* delete_contact, bulk_delete_contacts, bulk_unlink_applications: the calls *)
(* go whose title has the contact's name; with the deletion of a contact     *)
(* from the list of contacts none go.  The ledger keeps their keys.          *)
UnlinkContact(a, p) ==
    /\ EndpointTurn /\ p \in contacts[a]
    /\ contacts' = [contacts EXCEPT ![a] = @ \ {p}]
    /\ \E titled \in SUBSET {k \in Keys : Kind[k[1]] = "call" /\ filed[<<a, k>>] > 0} :
         /\ filed' = Minus({a} \X titled)
         /\ settled' = settled \cup (titled \cap known)
    /\ UNCHANGED <<status, known, suggested, behind, linked, lock, run, batch, hand,
                   results>>

(* attach_file: one file, whatever the ledger says; a folder's files only   *)
(* when it does not know them.                                              *)
AttachFile(a, i) ==
    /\ EndpointTurn /\ status[a] # "gone" /\ Kind[i] = "file"
    /\ filed' = Plus({<<a, RunKey(i)>>})
    /\ known' = known \cup {RunKey(i)}
    /\ UNCHANGED <<suggested, settled, hand>> /\ OnlyTimeline

AttachFolder(a) ==
    LET new == {i \in Of("file") : RunKey(i) \notin known} IN
    /\ EndpointTurn /\ status[a] # "gone"
    /\ new # {}
    /\ filed' = Plus({<<a, RunKey(i)>> : i \in new})
    /\ known' = known \cup {RunKey(i) : i \in new}
    /\ UNCHANGED <<suggested, settled, hand>> /\ OnlyTimeline

(* A file is written, so that the next listing has it again.                *)
TouchFile(i) ==
    /\ i \in behind
    /\ behind' = behind \ {i}
    /\ UNCHANGED <<status, known, filed, contacts, suggested, linked, settled, lock,
                   run, batch, hand, results>>

Reject(a) ==
    /\ EndpointTurn /\ status[a] = "active"
    /\ status' = [status EXCEPT ![a] = "rejected"]
    /\ UNCHANGED <<known, filed, contacts, suggested, behind, linked, settled, lock,
                   run, batch, hand, results>>

DeleteApp(a) ==
    /\ EndpointTurn /\ status[a] # "gone"
    /\ status' = [status EXCEPT ![a] = "gone"]
    /\ filed' = Minus({a} \X Keys)
    /\ contacts' = [contacts EXCEPT ![a] = {}]
    /\ settled' = settled \cup {k \in known : filed[<<a, k>>] > 0}
    /\ UNCHANGED <<known, suggested, behind, linked, lock, run, batch, hand, results>>

(* The process ends: sessions are rolled back, results were in memory.  A   *)
(* page that polls usually gives up with the request that fails; one whose  *)
(* polls fall on either side of the restart is told {"done": false} from    *)
(* then on (get_result).                                                    *)
Restart ==
    /\ lock' = Free
    /\ run' = [t \in Targeters |-> Idle]
    /\ batch' = [b \in Batchers |-> Idle]
    /\ hand' = Idle
    /\ results' = [a \in Apps |-> "none"]
    /\ UNCHANGED tables

-----------------------------------------------------------------------------
Init ==
    /\ status = [a \in Apps |-> "active"]
    /\ known = {}
    /\ filed = [p \in Apps \X Keys |-> 0]
    /\ contacts = [a \in Apps |-> {}]
    /\ suggested = {} /\ behind = {}
    /\ linked = [a \in Apps |-> {}] /\ settled = {}
    /\ lock = Free
    /\ run = [t \in Targeters |-> Idle]
    /\ batch = [b \in Batchers |-> Idle]
    /\ hand = Idle
    /\ results = [a \in Apps |-> "none"]
    /\ calls = 0

RunStep(t) ==
    \/ CollectMails(t) \/ FileMails(t) \/ FileEntries(t) \/ FileNotes(t)
    \/ CommitSources(t) \/ SourcesLost(t)
    \/ FileCalls(t) \/ NoCalls(t) \/ Finish(t)

BatchStep(b) == FinishBatch(b) \/ BatchFails(b)

Ask ==
    \/ \E a \in Apps, answering \in SUBSET Sources :
          SyncForApp(a, answering) \/ PostCreateSync(a, answering)
    \/ \E b \in Batchers, kind \in {"note", "call", "file"} : StartBatch(b, kind)
    \/ \E a \in Apps, i \in Items : AskForItem(a, i) \/ AttachFile(a, i)
    \/ \E a, b \in Apps, k \in Keys : MoveEntry(a, b, k)
    \/ \E a \in Apps, k \in Keys : DeleteEntry(a, k)
    \/ \E a \in Apps, p \in People : LinkContact(a, p) \/ UnlinkContact(a, p)
    \/ \E a \in Apps, i \in Asks : AssignSuggestion(a, i)
    \/ \E a \in Apps : ResetTargeted(a) \/ AttachFolder(a) \/ Reject(a) \/ DeleteApp(a)
    \/ \E kind \in {"note", "call", "file"} : ResetSource(kind)
    \/ \E i \in Items : TouchFile(i)

Next ==
    \/ Ask /\ Call
    \/ \E t \in Targeters : RunStep(t) /\ UNCHANGED calls
    \/ \E b \in Batchers : BatchStep(b) /\ UNCHANGED calls
    \/ (AssignLive \/ AskFails \/ Restart) /\ UNCHANGED calls

Spec == Init /\ [][Next]_vars

TypeOK ==
    /\ status \in [Apps -> {"active", "rejected", "gone"}]
    /\ known \subseteq Keys
    /\ filed \in [Apps \X Keys -> Nat]
    /\ contacts \in [Apps -> SUBSET People]
    /\ suggested \subseteq Asks /\ behind \subseteq Of("file")
    /\ linked \in [Apps -> SUBSET People] /\ settled \subseteq Keys
    /\ lock \in Targeters \cup {Free}
    /\ run \in [Targeters -> Run \cup {Idle}]
    /\ batch \in [Batchers -> Batch \cup {Idle}]
    /\ hand \in [app : Apps, item : Items] \cup {Idle}
    /\ results \in [Apps -> {"none", "asked", "done"}]
    /\ calls \in 0..MaxCalls

(* Refinement: however targeted runs, account-wide runs, failed flushes,    *)
(* restarts, resets and people interleave, what is committed behaves like   *)
(* ItemSource: an import files only keys the ledger did not know, each once *)
(* and for one application (a call of the account-wide sync: once for each),*)
(* and the ledger knows it from the same commit on.                         *)
Index == INSTANCE ItemSource WITH
    Shared <- {BatchKey(i) : i \in Of("call")}
FilesEachItemOnce == Index!Spec

(* No cascade: a run files a calendar entry only on the strength of a       *)
(* correspondent that a person, or a commit before it, had linked to the    *)
(* application, never of one it has itself created from a mail of the same  *)
(* run (the incident behind _domain_snapshot).                              *)
NoCascade ==
    [][run' # run =>
         \A a \in Apps, i \in Of("entry") :
            filed'[<<a, RunKey(i)>>] > filed[<<a, RunKey(i)>>]
            => From[i] \in Company[a] \cup linked[a]]_filed

(* Nothing vanishes: an item the ledger knows, which no sync will bring     *)
(* again, is on a timeline, unless the run that marked it found it too old  *)
(* for its application, or its entry was deleted on request since the last  *)
(* reset.  Runs that fail, and resets, which delete the entries of one      *)
(* application and empty the ledger of all, leave nothing behind that is    *)
(* known and nowhere.  Files are not among what a targeted reset forgets.   *)
NothingVanishes ==
    \A k \in known : Kind[k[1]] # "file" =>
        k \in settled \/ \E a \in Apps : filed[<<a, k>>] > 0

(* Nobody waits for a run that is not there any more: while the page polls  *)
(* for an application's result, a run that will report it is under way,     *)
(* whatever became of its session.  A restart ends the claim (see there).   *)
AnswersAreComing ==
    \A a \in Apps : results[a] = "asked" =>
        \E t \in Targeters : run[t] # Idle /\ run[t].app = a /\ run[t].reports
=============================================================================
