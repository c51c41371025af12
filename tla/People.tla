------------------------------- MODULE People -------------------------------
(***************************************************************************)
(* Contacts: who corresponds about which application.                      *)
(*                                                                         *)
(* Contacts come from the senders of mails (sync_common.py), the address   *)
(* books of iCloud and Google (sync_icloud.py, sync_google.py), LinkedIn's *)
(* list of connections (sync_linkedin.py) and people.  Each source has its *)
(* own way to tell whether it knows a person: the address in any spelling, *)
(* then full name and company; or the address as spelled, then the surname *)
(* alone.  What a contact is linked to decides where later mails, calls    *)
(* and LinkedIn messages are filed.  Duplicates are merged by people, or   *)
(* found by a clean-up and decided on in the review queue.                 *)
(*                                                                         *)
(* A name is a set of words, so that their order does not matter, as       *)
(* _normalize_name has it.  `firma` stands for the fields a sync only      *)
(* fills when they are empty (rolle and linkedin_url are alike).  Dates    *)
(* are left out: every application has a first entry older than all that   *)
(* is filed here.  One mail is one step; runs that overlap are the subject *)
(* of SyncStore, MailSync and TargetedSync.                                *)
(***************************************************************************)
EXTENDS Naturals, FiniteSets, FiniteSetsExt, Sequences, SequencesExt

CONSTANTS
    Apps,       \* applications
    Firm,       \* the company of each application
    Akin,       \* sets of applications with the same dedup_key
    People,     \* persons (what a contact was made for: history only)
    Words,      \* words of names
    Emails,     \* addresses as spelled
    Lower,      \* the spelling func.lower() gives an address
    Domain,     \* the domain of an address, or Generic
    Firms, Phones,
    Cards,      \* entries of the address books and the list of connections,
                \*   in their order
    Mails,      \* mails by their senders
    MaxId,      \* bound: contact ids
    MaxCalls,   \* bound: calls and mails (not the clean-up of contacts)
    Nothing, Generic, Idle

ASSUME PeopleAssumption ==
    /\ IsFiniteSet(Apps)
    /\ Firm \in [Apps -> Firms]
    /\ Akin \subseteq SUBSET Apps
    /\ Lower \in [Emails -> Emails]
    /\ \A e \in Emails : Lower[Lower[e]] = Lower[e]
    /\ DOMAIN Domain = Emails
    /\ Cards \in Seq([person : People, email : Emails \cup {Nothing},
                      name : SUBSET Words, first : SUBSET Words,
                      firma : Firms \cup {Nothing}, phones : SUBSET Phones])
    /\ Mails \subseteq [person : People, email : Emails, name : SUBSET Words,
                        first : SUBSET Words, phones : SUBSET Phones,
                        names : SUBSET Apps, automated : BOOLEAN,
                        mailbox : BOOLEAN, tracking : BOOLEAN]
    /\ MaxId \in Nat /\ MaxCalls \in Nat
    /\ Nothing \notin Emails \cup Firms

VARIABLES
    status,     \* "active", "rejected" or "gone", for each application
    rows,       \* contacts by id
    entries,    \* timeline entries that have to do with people
    messages,   \* LinkedInMessage: full names of the conversations' partners
    proposals,  \* duplicate_contact rows of the review queue
    book,       \* a contacts sync that is waiting for the address books
    cancel,     \* _CONTACTS_SYNC_CANCEL
    calls,      \* history: calls and mails so far
    last        \* history: what the last step was for

tables == <<status, rows, entries, messages, proposals>>
vars == <<tables, book, cancel, calls, last>>

Call == calls < MaxCalls /\ calls' = calls + 1

Contact ==
    [email : Emails \cup {Nothing}, name : SUBSET Words, first : SUBSET Words,
     firma : Firms \cup {Nothing}, phones : SUBSET Phones, apps : SUBSET Apps,
     who : SUBSET People]

Live == {a \in Apps : status[a] # "gone"}
Active == {a \in Apps : status[a] = "active"}

(* SQLite gives a new row the highest id in use plus one: the id of a       *)
(* deleted contact comes back when it was the highest.                      *)
NewId(rs) == Max(DOMAIN rs \cup {0}) + 1
Put(rs, c, r) == [d \in DOMAIN rs \cup {c} |-> IF d = c THEN r ELSE rs[d]]
Without(rs, c) == [d \in DOMAIN rs \ {c} |-> rs[d]]

(* The first row of a query; 0 for none.                                    *)
First(found) == IF found = {} THEN 0 ELSE Min(found)
OneOf(c, d) == IF c # 0 THEN c ELSE d

Display(r) == r.name \cup r.first
Spelled(rs, e) == {c \in DOMAIN rs : e # Nothing /\ rs[c].email = e}
Addressed(rs, e) ==
    {c \in DOMAIN rs : rs[c].email # Nothing /\ Lower[rs[c].email] = Lower[e]}
Surnamed(rs, name) == {c \in DOMAIN rs : rs[c].name = name}

Entry(a, kind, words, e) == [app |-> a, kind |-> kind, words |-> words, email |-> e]

(* attach_linkedin_messages_for_contact *)
Attached(es, r) ==
    es \cup {Entry(a, "message", Display(r), Nothing) :
               a \in {b \in r.apps : Display(r) \in messages}}

-----------------------------------------------------------------------------
(* A mail.                                                                  *)

(* The indexes skip rejected applications and addresses of public mail      *)
(* services; a text hint of an automated sender does not count.             *)
Known(e) == Domain[e] # Generic
ByEmail(e) ==
    UNION {rows[c].apps \cap Active : c \in {d \in Addressed(rows, e) : Known(e)}}
ByDomain(e) ==
    UNION {rows[c].apps \cap Active :
             c \in {d \in DOMAIN rows : /\ rows[d].email # Nothing /\ Known(e)
                                        /\ Domain[rows[d].email] = Domain[e]}}
ByText(m) == IF m.automated THEN {} ELSE m.names \cap Active
Matching(m) ==
    IF ByEmail(m.email) # {} THEN ByEmail(m.email)
    ELSE IF ByDomain(m.email) # {} THEN ByDomain(m.email)
    ELSE ByText(m)

(* _upsert_contact: the address in any spelling, else the full name at the  *)
(* application's company.  A tracking address of an applicant system is     *)
(* looked up but never stored.                                              *)
SameName(m, a) ==
    {c \in DOMAIN rows : rows[c].firma = Firm[a] /\ Display(rows[c]) = m.name \cup m.first}
Sender(m, a) ==
    OneOf(First(Addressed(rows, m.email)), First(SameName(m, a)))

Stored(m) == IF m.tracking THEN Nothing ELSE Lower[m.email]
Refreshed(m, a) ==
    LET c == Sender(m, a) IN
    [rows[c] EXCEPT !.email = IF @ = Nothing THEN Stored(m) ELSE @,
                    !.phones = @ \cup m.phones,
                    !.apps = @ \cup {a}]
FromMail(m, a) ==
    [email |-> Stored(m), name |-> m.name, first |-> m.first, firma |-> Firm[a],
     phones |-> m.phones, apps |-> {a}, who |-> {m.person}]

(* process_item and _save_deterministic_event.  A department's mailbox gets *)
(* an entry and no contact.                                                 *)
MailFiled(m) ==
    \E a \in Matching(m) :
    LET filed == entries \cup {Entry(a, "mail", m.name \cup m.first, Lower[m.email])}
        c     == IF Sender(m, a) = 0 THEN NewId(rows) ELSE Sender(m, a)
        r     == IF Sender(m, a) = 0 THEN FromMail(m, a) ELSE Refreshed(m, a)
    IN  /\ last' = "sync"
        /\ IF m.mailbox
           THEN entries' = filed /\ UNCHANGED rows
           ELSE /\ c <= MaxId
                /\ rows' = Put(rows, c, r)
                /\ entries' = Attached(filed, r)
        /\ UNCHANGED <<status, messages, proposals, book, cancel>>

-----------------------------------------------------------------------------
(* The address books.                                                       *)

(* _find_apps_where_contact_mentioned: the other party of a mail has the    *)
(* address, or the words, among theirs.                                     *)
Mentioned(words, e) ==
    {x.app : x \in {y \in entries :
       /\ y.kind = "mail" /\ y.app \in Active
       /\ \/ e # Nothing /\ y.email = Lower[e]
          \/ words # {} /\ words \subseteq y.words}}

(* How an import looks a card up: the address as spelled, else the surname, *)
(* else the full name in the field of the surname.                          *)
Namesake(rs, k) == First(Surnamed(rs, k.name))
Legacy(rs, k) == First(Surnamed(rs, k.name \cup k.first))
Lookup(rs, k) ==
    OneOf(First(Spelled(rs, k.email)), OneOf(Namesake(rs, k), Legacy(rs, k)))

(* _merge_parsed_contact without force, and the split of a legacy name.     *)
AnyFirma(r, k) == IF k.firma = Nothing THEN r.firma ELSE k.firma   \* mutant: overwrites
FilledFirma(r, k) == IF r.firma = Nothing THEN k.firma ELSE r.firma
Completed(r, k) ==
    [r EXCEPT !.firma = FilledFirma(r, k),
              !.phones = @ \cup k.phones,
              !.name = IF r.first = {} /\ k.first # {} THEN k.name ELSE @,
              !.first = IF @ = {} THEN k.first ELSE @]

FromCard(k, apps) ==
    [email |-> k.email, name |-> k.name, first |-> k.first, firma |-> k.firma,
     phones |-> k.phones, apps |-> apps, who |-> {k.person}]

(* _sync_contacts_from_parsed: card after card.  Only a card that becomes a *)
(* contact is linked to the applications that mention it: by its FN, here   *)
(* the words of both names, where the links added afterwards go by          *)
(* display_name.                                                            *)
NotAttached(es, r) == es                \* mutant: attached on the next import
Greeted(es, r) == Attached(es, r)
ImportCard(s, k) ==
    LET c   == Lookup(s.rows, k)
        new == FromCard(k, Mentioned(k.name \cup k.first, k.email))
    IN  IF c # 0
        THEN [s EXCEPT !.rows = Put(@, c, Completed(@[c], k))]
        ELSE [rows    |-> Put(s.rows, NewId(s.rows), new),
              entries |-> Greeted(s.entries, new)]

(* The cards `ks` of the providers that answer, iCloud's before Google's.   *)
(* Once a run was cancelled the loop breaks before its first card.          *)
Card1 == Range(Cards)
ImportOf(ks, s, k) == IF k \in ks THEN ImportCard(s, k) ELSE s
Found == [rows |-> rows, entries |-> entries]
Imported(ks) ==
    IF cancel THEN Found
    ELSE FoldLeft(LAMBDA s, k : ImportOf(ks, s, k), Found, Cards)

(* The links added afterwards to all contacts; messages are not attached.   *)
Backfilled(rs) ==
    IF cancel THEN rs
    ELSE [c \in DOMAIN rs |->
           [rs[c] EXCEPT !.apps = @ \cup Mentioned(Display(rs[c]), rs[c].email)]]

(* _sync_all_contacts: it clears the flag, then waits for the address book. *)
StartContactsSync ==
    /\ book = Idle
    /\ book' = [kind |-> "all"]
    /\ cancel' = FALSE
    /\ last' = "sync"
    /\ UNCHANGED tables

(* The Google half is awaited once iCloud's cards are in the session, but   *)
(* what is awaited never gives up the event loop, so no other request of    *)
(* it, a cancel among them, can come between.  Endpoints in pool threads    *)
(* can, behind the two commits on the way; they are left out here.          *)
FinishContactsSync ==
    /\ book # Idle /\ book.kind = "all"
    /\ \E ks \in SUBSET Card1 :
         LET s == Imported(ks) IN
         /\ \A c \in DOMAIN s.rows : c <= MaxId
         /\ rows' = Backfilled(s.rows)
         /\ entries' = s.entries
    /\ book' = Idle
    /\ last' = "sync"
    /\ UNCHANGED <<status, messages, proposals, cancel>>

(* The process ends behind a commit on the way: _refresh_if_needed's, when  *)
(* Google's token has run out and iCloud's cards are in, or the one before  *)
(* the links are added.                                                     *)
ContactsSyncCut ==
    /\ book # Idle /\ book.kind = "all"
    /\ \E ks \in SUBSET Card1 :
         LET s == Imported(ks) IN
         /\ \A c \in DOMAIN s.rows : c <= MaxId
         /\ rows' = s.rows /\ entries' = s.entries
    /\ book' = Idle /\ cancel' = FALSE
    /\ last' = "sync"
    /\ UNCHANGED <<status, messages, proposals>>

CancelContactsSync ==
    /\ cancel' = TRUE
    /\ last' = "edit"
    /\ UNCHANGED <<tables, book>>

(* import_linkedin_connections: one turn of the same loop, which looks at   *)
(* the same flag; nothing clears it first.                                  *)
ImportConnection(k) ==
    LET s == IF cancel THEN Found ELSE ImportCard(Found, k) IN
    /\ \A c \in DOMAIN s.rows : c <= MaxId
    /\ rows' = s.rows /\ entries' = s.entries
    /\ last' = "sync"
    /\ UNCHANGED <<status, messages, proposals, book, cancel>>

(* The Sync or Re-Sync of one contact: the row is read before the address   *)
(* books are asked for.                                                     *)
StartScopedSync(c, force) ==
    /\ book = Idle /\ c \in DOMAIN rows
    /\ book' = [kind |-> "one", id |-> c, force |-> force, read |-> rows[c]]
    /\ last' = "sync"
    /\ UNCHANGED <<tables, cancel>>

(* The last card of that address, else the first with that surname or full  *)
(* name.                                                                    *)
Card(r) ==
    LET email == {i \in DOMAIN Cards : /\ r.email # Nothing /\ Cards[i].email # Nothing
                                       /\ Lower[Cards[i].email] = Lower[r.email]}
        name  == {i \in DOMAIN Cards : r.name \in {Cards[i].name, Cards[i].name \cup Cards[i].first}}
    IN  IF email # {} THEN Max(email) ELSE First(name)

(* Only columns that differ from what was read are written, onto whatever   *)
(* the row is by now; phone numbers are read late.                          *)
Overwritten(r, read, k) ==
    [r EXCEPT !.first = IF k.first \in {{}, read.first} THEN @ ELSE k.first,
              !.firma = IF k.firma \in {Nothing, read.firma} THEN @ ELSE k.firma,
              !.phones = k.phones]
FilledIn(r, read, k) ==
    [r EXCEPT !.firma = IF read.firma = Nothing /\ k.firma # Nothing THEN k.firma ELSE @,
              !.phones = @ \cup k.phones]
FinishScopedSync ==
    /\ book # Idle /\ book.kind = "one"
    /\ LET i == Card(book.read) IN
         rows' = IF i = 0 \/ book.id \notin DOMAIN rows THEN rows
                 ELSE Put(rows, book.id,
                          IF book.force THEN Overwritten(rows[book.id], book.read, Cards[i])
                          ELSE FilledIn(rows[book.id], book.read, Cards[i]))
    /\ last' = IF book.force THEN "edit" ELSE "sync"
    /\ book' = Idle
    /\ UNCHANGED <<status, entries, messages, proposals, cancel>>

(* The address book does not answer, or the process ends.                   *)
BookFails ==
    /\ book # Idle
    /\ book' = Idle
    /\ cancel' \in {cancel, FALSE}
    /\ last' = "sync"
    /\ UNCHANGED tables

(* import_contacts: cards somebody picked from a search.                    *)
ImportPicked(k, apps) ==
    LET c == OneOf(First(Spelled(rows, k.email)), Namesake(rows, k))
        r == IF c = 0 THEN FromCard(k, apps)
             ELSE [rows[c] EXCEPT !.apps = @ \cup apps]
        d == IF c = 0 THEN NewId(rows) ELSE c
    IN  /\ d <= MaxId /\ apps \subseteq Live
        /\ rows' = Put(rows, d, r)
        /\ entries' = IF c # 0 /\ apps \subseteq rows[c].apps THEN entries
                      ELSE IF apps = {} THEN entries ELSE Attached(entries, r)
        /\ last' = "edit"
        /\ UNCHANGED <<status, messages, proposals, book, cancel>>

(* _upsert_linkedin_messages, then the contacts of all applications or of   *)
(* the one that is synced.                                                  *)
ImportMessages(names, apps) ==
    /\ messages' = messages \cup names
    /\ entries' = entries \cup
         {Entry(p[1], "message", Display(rows[p[2]]), Nothing) :
            p \in {q \in Apps \X DOMAIN rows :
               /\ Display(rows[q[2]]) \in messages'
               /\ q[1] \in rows[q[2]].apps
               /\ apps = Apps \/ rows[q[2]].apps \cap apps # {}}}
    /\ last' = "sync"
    /\ UNCHANGED <<status, rows, proposals, book, cancel>>

(* A call is filed under the name of the first contact with the number, in  *)
(* every application of those that have it.                                 *)
CallFiled(phone) ==
    LET callers == {c \in DOMAIN rows : phone \in rows[c].phones} IN
    /\ callers # {}
    /\ entries' = entries \cup
         {Entry(a, "call", Display(rows[Min(callers)]), Nothing) :
            a \in UNION {rows[c].apps : c \in callers}}
    /\ last' = "sync"
    /\ UNCHANGED <<status, rows, messages, proposals, book, cancel>>

-----------------------------------------------------------------------------
(* By hand.                                                                 *)

Editing == last' = "edit" /\ UNCHANGED <<status, messages, proposals, book, cancel>>
Removing == last' = "removal" /\ UNCHANGED <<messages, proposals, book, cancel>>

(* create_contact, add_contact: no duplicate is looked for.                 *)
CreateContact(k, apps) ==
    /\ NewId(rows) <= MaxId /\ apps \subseteq Live
    /\ rows' = Put(rows, NewId(rows), FromCard(k, apps))
    /\ entries' = Attached(entries, FromCard(k, apps))
    /\ Editing

(* patch_contact, update_contact *)
PatchContact(c, f, e) ==
    /\ c \in DOMAIN rows
    /\ rows' = [rows EXCEPT ![c] = [@ EXCEPT !.firma = f, !.email = e]]
    /\ UNCHANGED entries /\ Editing

(* link_contact attaches no messages.                                       *)
LinkContact(c, a) ==
    /\ c \in DOMAIN rows /\ a \in Live
    /\ rows' = [rows EXCEPT ![c].apps = @ \cup {a}]
    /\ UNCHANGED entries /\ Editing

(* _delete_call_events_for_contact: calls whose title has the name.         *)
CallsOf(c, a) ==
    {x \in entries : /\ x.kind = "call" /\ x.app = a
                     /\ Display(rows[c]) \subseteq x.words}
StillLinked(c, a) == rows[c]            \* mutant: the link is forgotten
Unlinked(c, a) == [rows[c] EXCEPT !.apps = @ \ {a}]

(* From the contact's side the contact stays; from the application's side   *)
(* it is deleted with its last link.                                        *)
UnlinkApplication(c, a) ==
    /\ c \in DOMAIN rows /\ a \in rows[c].apps
    /\ rows' = Put(rows, c, Unlinked(c, a))
    /\ entries' = entries \ CallsOf(c, a)
    /\ UNCHANGED status /\ Removing
RemoveContact(c, a) ==
    /\ c \in DOMAIN rows /\ a \in rows[c].apps
    /\ rows' = IF rows[c].apps = {a} THEN Without(rows, c)
               ELSE Put(rows, c, Unlinked(c, a))
    /\ entries' = entries \ CallsOf(c, a)
    /\ UNCHANGED status /\ Removing

DeleteContact(c) ==
    /\ c \in DOMAIN rows
    /\ rows' = Without(rows, c)
    /\ UNCHANGED <<status, entries>> /\ Removing

(* merge_contacts: links and phone numbers are united; of the address one   *)
(* is kept.  The alias it stores is read by no sync.                        *)
United(w, l) == rows[w].apps \cup rows[l].apps
MergeContacts(w, l, e) ==
    /\ w # l /\ {w, l} \subseteq DOMAIN rows
    /\ e \in {rows[w].email, rows[l].email}
    /\ rows' = Without(Put(rows, w,
                 [rows[w] EXCEPT !.email = e, !.apps = United(w, l),
                                 !.phones = @ \cup rows[l].phones,
                                 !.who = @ \cup rows[l].who]), l)
    /\ last' = "merge"
    /\ UNCHANGED <<status, entries, messages, proposals, book, cancel>>

-----------------------------------------------------------------------------
(* The clean-up and the review queue.                                       *)

Score(c) ==
    3 * Cardinality(rows[c].apps)
      + (IF rows[c].email # Nothing THEN 1 ELSE 0)
      + (IF rows[c].phones # {} THEN 1 ELSE 0)

(* Contacts are alike when surname and company are; the best of them stays. *)
Alike(c) == {d \in DOMAIN rows : /\ rows[d].name = rows[c].name
                                 /\ rows[d].firma = rows[c].firma}
Keeper(c) ==
    Min({d \in Alike(c) : \A x \in Alike(c) : Score(x) <= Score(d)})

(* Pairs somebody has looked at and rejected, whichever of them is kept.    *)
OrderedPairs ==                         \* mutant: the pair as it was proposed
    {{<<q.keep, q.dup>>} : q \in {x \in proposals : x.state = "rejected"}}
RejectedPairs ==
    {{<<q.keep, q.dup>>, <<q.dup, q.keep>>} :
       q \in {x \in proposals : x.state = "rejected"}}
Duplicates ==
    {<<Keeper(c), c>> : c \in {d \in DOMAIN rows : Keeper(d) # d}}
      \ UNION RejectedPairs

Cleanup ==
    /\ proposals' = proposals \cup
         {[keep |-> p[1], dup |-> p[2], state |-> "pending"] :
            p \in {x \in Duplicates :
                     ~\E q \in proposals : q.keep = x[1] /\ q.dup = x[2]}}
    /\ last' = "sync"
    /\ UNCHANGED <<status, rows, entries, messages, book, cancel>>

Decided(q, state) == (proposals \ {q}) \cup {[q EXCEPT !.state = state]}

(* approve_match: the ids are taken as they are, whoever has them by now,   *)
(* and a row that was decided before can be decided again.                  *)
ApproveDuplicate(q) ==
    /\ {q.keep, q.dup} \subseteq DOMAIN rows
    /\ rows' = Without(Put(rows, q.keep,
                 [rows[q.keep] EXCEPT !.apps = United(q.keep, q.dup),
                                      !.who = @ \cup rows[q.dup].who]), q.dup)
    /\ proposals' = Decided(q, "approved")
    /\ last' = "merge"
    /\ UNCHANGED <<status, entries, messages, book, cancel>>

RejectDuplicate(q) ==
    /\ proposals' = Decided(q, "rejected")
    /\ last' = "edit"
    /\ UNCHANGED <<status, rows, entries, messages, book, cancel>>

-----------------------------------------------------------------------------
(* Applications.                                                            *)

(* merge_applications and the clean-up's own: entries and contacts move.    *)
EntriesDropped(w, l) == {x \in entries : x.app # l}    \* mutant: delete-orphan cascade
Moved(w, l) ==
    {IF x.app = l THEN [x EXCEPT !.app = w] ELSE x : x \in entries}
Absorb(w, l) ==
    /\ status' = [status EXCEPT ![l] = "gone"]
    /\ entries' = Moved(w, l)
    /\ rows' = [c \in DOMAIN rows |->
                 [rows[c] EXCEPT !.apps = (@ \ {l}) \cup (IF l \in @ THEN {w} ELSE {})]]
    /\ last' = "merge"
    /\ UNCHANGED <<messages, proposals, book, cancel>>

MergeApplications(w, l) ==
    /\ w # l /\ {w, l} \subseteq Live
    /\ Absorb(w, l)

AppScore(a) ==
    3 * Cardinality({x \in entries : x.app = a})
      + 2 * Cardinality({c \in DOMAIN rows : a \in rows[c].apps})
CleanupApplications(g) ==
    LET alike == g \cap Live IN
    \E w \in alike, l \in alike :
      /\ w # l
      /\ \A a \in alike : AppScore(a) <= AppScore(w)
      /\ Absorb(w, l)

RejectApplication(a) ==
    /\ status[a] = "active"
    /\ status' = [status EXCEPT ![a] = "rejected"]
    /\ last' = "edit"
    /\ UNCHANGED <<rows, entries, messages, proposals, book, cancel>>

DeleteApplication(a) ==
    /\ a \in Live
    /\ status' = [status EXCEPT ![a] = "gone"]
    /\ entries' = {x \in entries : x.app # a}
    /\ rows' = [c \in DOMAIN rows |-> Unlinked(c, a)]
    /\ Removing

-----------------------------------------------------------------------------
Init ==
    /\ status = [a \in Apps |-> "active"]
    /\ rows = <<>>
    /\ entries = {} /\ messages = {} /\ proposals = {}
    /\ book = Idle /\ cancel = FALSE
    /\ calls = 0 /\ last = "edit"

FullNames == {k.name \cup k.first : k \in Card1}
Scopes == {Apps} \cup {{a} : a \in Apps}
Picks == {{}} \cup {{a} : a \in Apps}

Sync ==
    \/ \E m \in Mails : MailFiled(m)
    \/ StartContactsSync \/ CancelContactsSync
    \/ \E k \in Card1 : ImportConnection(k)
    \/ \E c \in DOMAIN rows, force \in BOOLEAN : StartScopedSync(c, force)
    \/ \E k \in Card1, apps \in Picks : ImportPicked(k, apps)
    \/ \E n \in FullNames, apps \in Scopes : ImportMessages({n}, apps)
    \/ \E p \in Phones : CallFiled(p)

Edit ==
    \/ \E k \in Card1, apps \in Picks : CreateContact(k, apps)
    \/ \E c \in DOMAIN rows, f \in Firms, e \in Emails : PatchContact(c, f, e)
    \/ \E c \in DOMAIN rows, a \in Apps :
          LinkContact(c, a) \/ UnlinkApplication(c, a) \/ RemoveContact(c, a)
    \/ \E c \in DOMAIN rows : DeleteContact(c)
    \/ \E w, l \in DOMAIN rows, e \in Emails \cup {Nothing} : MergeContacts(w, l, e)
    \/ \E q \in proposals : ApproveDuplicate(q) \/ RejectDuplicate(q)
    \/ \E w, l \in Apps : MergeApplications(w, l)
    \/ \E g \in Akin : CleanupApplications(g)
    \/ \E a \in Apps : RejectApplication(a) \/ DeleteApplication(a)

Next ==
    \/ (Sync \/ Edit) /\ Call
    \/ /\ \/ FinishContactsSync \/ ContactsSyncCut \/ FinishScopedSync \/ BookFails
          \/ Cleanup
       /\ UNCHANGED calls

Spec == Init /\ [][Next]_vars

Proposal == [keep : 1..MaxId, dup : 1..MaxId, state : {"pending", "approved", "rejected"}]

TypeOK ==
    /\ status \in [Apps -> {"active", "rejected", "gone"}]
    /\ DOMAIN rows \subseteq 1..MaxId
    /\ \A c \in DOMAIN rows : rows[c] \in Contact /\ rows[c].apps \subseteq Live
    /\ \A x \in entries : x.app \in Live
    /\ messages \subseteq FullNames
    /\ proposals \subseteq Proposal
    /\ book # Idle => book.kind = "all" \/ book.read \in Contact
    /\ cancel \in BOOLEAN /\ calls \in 0..MaxCalls
    /\ last \in {"sync", "edit", "removal", "merge"}

(* Nothing is lost: unless somebody asks for a removal, every application's *)
(* people and timeline entries are still there afterwards, with it or with  *)
(* the application it was merged into.                                      *)
Correspondents(a) == UNION {rows[c].who : c \in {d \in DOMAIN rows : a \in rows[d].apps}}
EntriesOf(a) == {<<x.kind, x.words, x.email>> : x \in {y \in entries : y.app = a}}
Kept(a, b) ==
    /\ Correspondents(a) \subseteq Correspondents(b)'
    /\ EntriesOf(a) \subseteq EntriesOf(b)'
NothingLost ==
    [][last' # "removal" =>
         \A a \in Live : \E b \in Live' : (a \in Live' => a = b) /\ Kept(a, b)]_tables

(* Whom somebody has called two different contacts the clean-up does not    *)
(* propose again, whichever of them it would keep by then.                  *)
RejectedStayRejected ==
    [][\A q \in proposals' \ proposals :
         q.state = "pending" =>
           ~\E x \in proposals : x.state = "rejected" /\ {x.keep, x.dup} = {q.keep, q.dup}
      ]_proposals

(* A LinkedIn conversation shows up the moment a contact of its partner's   *)
(* name appears, however that contact came to be, in each application it    *)
(* comes with.  The exception: an entry without a first name makes a        *)
(* contact, and another entry of the same answer gives it the first name.   *)
NamedAtOnce(c) ==
    \/ book' = book
    \/ rows'[c].first = {}
    \/ \A k \in Card1 : k.person \in rows'[c].who => k.first # {}
MessagesFollow ==
    [][\A c \in DOMAIN rows' \ DOMAIN rows :
         \A a \in rows'[c].apps :
           NamedAtOnce(c) /\ Display(rows'[c]) \in messages =>
             Entry(a, "message", Display(rows'[c]), Nothing) \in entries']_rows

(* A sync completes contacts: of one that was left alone while the address  *)
(* books were being asked it takes no link, no telephone number, and no     *)
(* field that is filled; the words of its name stay, in the name or in the  *)
(* first name, where a name from before the split is taken apart.  There is *)
(* an exception the code makes: a contact without a first name is given     *)
(* both names of a card of its e-mail address, whatever it was called.      *)
Untouched(c) == book = Idle \/ book.kind = "all" \/ book.read = rows[c]
Renamed(s) ==
    \E k \in Card1 : /\ k.email # Nothing /\ k.email = s.email
                     /\ k.first # {} /\ s.first = k.first /\ s.name = k.name
Keeps(r, s) ==
    /\ r.email # Nothing => s.email = r.email
    /\ r.firma # Nothing => s.firma = r.firma
    /\ r.first # {} => s.first = r.first /\ s.name = r.name
    /\ r.name \subseteq Display(s) \/ Renamed(s)
    /\ r.phones \subseteq s.phones /\ r.apps \subseteq s.apps
PassiveKeeps ==
    [][last' = "sync" =>
         \A c \in DOMAIN rows : /\ c \in DOMAIN rows'
                                /\ Untouched(c) => Keeps(rows[c], rows'[c])]_rows
=============================================================================
