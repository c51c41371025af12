# Rapport in TLA+

Rapport is a self-hosted CRM for a job search: a FastAPI backend over SQLite
(`backend/app`), a native agent on the user's computer (`agent/`), and a React
frontend. What it does on its own, and what is hard about it, is *synchronising*:
mail, calendars, notes, files and LinkedIn are read again and again, their items
are matched to applications, and become events of an application's timeline,
suggestions for a person to review, or nothing. This directory holds TLA+ models
of that machinery, TLC configurations that check them on small instances, and
proofs checked by TLAPS.

Run `tlc -config X.cfg MCModule` and `tlapm Module_proofs.tla` in this directory.

## 1. Inventory

| Part | Keeps | Does | Hard about it |
|---|---|---|---|
| Sync pipeline and store (`sync_common.py`, `database.py`, `models.py`) | `applications`, `events`, `synced_items` (dedup ledger), `pending_matches` | match an item, save its event, mark it, suggest a status | one SQLite write lock, sessions without autoflush, runs that are one long transaction |
| Review queue (`review.py`) | `pending_matches.review_status` | approve, reject | stale rows, ids reused after a delete |
| Applications (`applications.py`) | status, timeline, contacts | CRUD, ghosting rule | plain `def` endpoints run in threads beside the syncs |
| Mail sources (`sync_icloud.py`, `sync_google.py`) | `mail_last_sync` / `gmail_last_sync` | fetch since last sync, process a batch | a watermark that moves although an item failed |
| Calendar sources (`sync_google.py`, `sync_icloud.py`) | ledger, orphan suggestions | follow moved entries, detect removed ones | partial listings read as removals |
| Notes, reminders, calls (`sync_icloud.py`) | ledger | match texts and numbers, file | one item under several keys; agent unreachable |
| Contacts (`sync_icloud.py`, `sync_google.py`, `contacts.py`) | `contacts`, their links and numbers, `linkedin_messages` | senders of mails, address books, LinkedIn's list, people | every source tells persons apart in its own way; rows read before an await |
| Local files (`sync_files.py`) | ledger, attachments, cursor | list from the cursor, match by folder, attach | a cursor that moves past files nobody has filed |
| Targeted sync (`sync_targeted.py`) | shares the above, `_task_results` | one application across six sources at once; candidates, assignment by hand, reset | one session for all sources, a ledger that other applications share, matches that feed on matches |
| LinkedIn sync (`sync_linkedin.py`) | process-wide `_state`, cookies | login, two-factor code, scrape, commit | own threads, overlapping starts, stale credentials |
| Company sync (`sync_company.py`, `companies.py`) | `company_profiles`, in-memory jobs | enrich, link contacts | long jobs, polling |
| Background loop (`main.py`) | `_RUNNING_SOURCES` | every 20 minutes all sources, then a backup | manual starts beside it |
| Backup and restore (`backup.py`, `agent/routers/backup.py`) | backup folder, key file, live database | copy, rotate, restore | crash between two files, shared temporary file, three retention tiers |
| Merge and aliases (`merge.py`, `dedup.py`) | `merge_aliases` | join applications, contacts | later syncs must honour aliases |
| Cleanup (`cleanup.py`) | events, contacts | AI-assisted repair of rows | works on a snapshot |
| Database layer (`database.py`) | schema, marker files, tenant filter, PRAGMAs | 53 migrations at every start, ownership of old rows | nothing records which migrations have run; a start may die after any statement |
| Auth, settings, chat, AI provider, analytics, import/export, audit, geo, i18n | users, keys, messages, audit log | request/response | chat tool loop, audit de-duplication |
| Agent (`agent/`) | config, permissions, backup folder | serve calls, notes, files, backups to the backend | rotation; permission transitions |
| Frontend (`frontend/`) | view state | polls progress, calls the API | stale views |

Components act on each other through the database, through the process-wide
dictionaries of progress and of LinkedIn, through HTTP calls from the backend to
the agent and to the providers, and through one asyncio event loop: `async def`
endpoints and all syncs except LinkedIn's share it, plain `def` endpoints run in
a thread pool, and a manual LinkedIn sync has a thread with a loop of its own.

What makes each part correct, in a sentence:

- Store and review: an item becomes at most one event, is asked about at most
  once, and a person's decision is final; events never outlive their application.
- Calendars: an event follows its entry, none whose entry was read is suggested for
  deletion and no event twice, and a wrong suggestion costs nothing for good.
- All sources: an import files an item once, for one application, and the ledger
  knows it from the same commit on, whichever path and session it takes.
- Targeted sync: a match never rests on what the same run has just created, nothing
  is known to the ledger and nowhere on a timeline unless a person or the floor wants
  it so, and whoever asked gets an answer.
- Mail: nothing that was in the source is skipped for good because
  a run failed, was cut short or raced a reset.
- Background loop: every enabled source runs again and again, and so does a due
  backup.
- LinkedIn: at most one sync at a time, a truthful status, prompts that end.
- Backup: a bundle decrypts itself, the live database stays readable, what is
  reported as saved stays until later ones take its place, and rotation keeps the
  promised days and weeks.
- Contacts, merge, cleanup: a sync completes contacts and takes nothing from them (but
  the name of one without a first name, see `Renamed`), no step but a removal loses
  a correspondent or an entry, and a decision on a duplicate is final.
- Database set-up: every start completes the schema and converts old rows, leaves what
  people decided alone, and a second start finds nothing to do.
- Applications: status and timeline agree.
- Audit: every change is logged once.
- Accounts: rows belong to one user, and rows without an owner are claimed once.

`PROJECT.json` lists the components with their sources and status, and under
`hazards` the places in the code where these properties are at risk.

## 2. Modules

| Module | Models | Configurations |
|---|---|---|
| `SyncStore` | applications, timeline, ledger and status suggestions, and the sessions that write them | `MCSyncStore`: `SyncStore.cfg` |
| `CalendarSync` | one calendar source: listing, following, orphan suggestions, review | `MCCalendarSync`: `CalendarSync.cfg` |
| `MailSync` | Gmail and iCloud Mail: search, ledger of messages, time of the last sync, reset | `MCMailSync`: `MailSync.cfg`, `MailSyncPositions.cfg` |
| `SyncScheduler` | the background loop and the runs started beside it | `MCSyncScheduler`: `SyncScheduler.cfg` |
| `LinkedInSync` | life cycle of a LinkedIn sync: start, login, code, cookies, verdict | `MCLinkedInSync`: `LinkedInSync.cfg` |
| `BackupService` | the backend's side of backup and restore, and the Fernet key | `MCBackupService`: `BackupService.cfg` |
| `BackupRotation` | the agent's backup folder | `MCBackupRotation`: `BackupRotation.cfg` |
| `BackupDelivery` | a backup from end to end: `do_backup`'s call and report, composed with `BackupRotation` | `MCBackupDelivery`: `BackupDelivery.cfg` |
| `Startup` | `init_db`: the migrations of every start, over any older database | `MCStartup`: `Startup.cfg` |
| `ItemSource` | abstract: what all syncs promise about the ledger and the timeline | instantiated by `TargetedSync` |
| `TargetedSync` | targeted runs beside account-wide runs of notes, calls and files, assignment by hand and resets | `MCTargetedSync`: `TargetedSync.cfg` |
| `People` | contacts from all their sources, merging, clean-up and review of duplicates | `MCPeople`: `People.cfg` |

Proofs are in `SyncStore_proofs`, `CalendarSync_proofs`, `MailSync_proofs`,
`LinkedInSync_proofs`, `Backup_proofs` (about `BackupService`, `BackupRotation` and
`BackupDelivery`), `Startup_proofs`, `TargetedSync_proofs` and `People_proofs`. The `map` of
`PROJECT.json` gives for each definition the lines it stands for.

### SyncStore

Four variables are the committed tables: `apps` (`main_status` by id), `events`,
`ledger` (`synced_items` of one source) and `queue` (`pending_matches` with
`status_only`). The others are how sessions reach them. `SessionLocal` has
`autoflush=False`, so what a run adds stays in `buf` and `bufQueue`. The first
flush takes the write lock (`lock`), and its rows (`txEvents`, `txLedger`,
`txQueue`) are visible to that run alone until `Commit`. `pick` is what a run
has read about the item it is about to save.

One item of a run is one of `SkipSynced`, `MarkUnmatched`, `MarkAppGone`,
`MarkPredating`, or `Admit` followed by `SaveEvent`; these are the early returns
and the body of `process_item` and `_save_deterministic_event`. `Admit` and
`SaveEvent` are two steps because the flush may wait for the lock. Which
application, day and status an item yields is left open, so the matching rules
may give any answer. `Rollback` stands for every way in which a run ends without
its commit. Endpoints (`CreateApp`, `DeleteApp`, `SetStatus`, `AddEvent`,
`DeleteEvent`, `EditEventDay`, `PurgeSource`, `Approve`, `Reject`,
`RejectPending`) are a transaction each; those declared `async def` need
`LoopIdle`, the others may step in anywhere the lock is free.
`CommitThenDelete` is the one endpoint that reads before it waits for the lock.

`overtaken` is history: the applications that were deleted, or one of whose events was
deleted or re-dated, by a thread of the pool while a run had read about them
(`InUse`: an item of theirs is picked, or an event flushed). Of such an application the
run's look at its row and at its floor is stale, so `EventsHaveApplication` and
`SyncRespectsFloor` are false of it and exempt it; they hold of every other one.

A session's identity map does not hide what others commit here: it is weak, and
`app.events` is loaded again for each item, so a query sees the latest commit
and the session's own flushed rows.

### CalendarSync

A run is `List` (what it reads of the window of 180 days back and 90 ahead),
`ProcessItems` (new entries saved or marked, known ones followed) and `QueueOrphans`.
`List` reads any part of the window: iCloud goes on when one of its calendars cannot be
read and passes over entries that do not parse, Google answers with 200 entries and is
not asked for a second page. `missed` are the entries a run has not got to read, and
`hidden` is history: entries of the ledger that a run only marked, or whose event a
person has deleted. `Abort` is an exception in the last two steps. The items of a run are
one step: `SyncStore` is about what happens between them. Time runs in half-days
because the listing is bounded by an hour and the orphan query by a day.
Ids are SQLite's: `max(rowid) + 1`, so the id of a deleted last row comes back.

### MailSync

One module for both services; `Init` chooses the `provider`. A run is `Search` (the
query from the cursor on, the answer, and the ids of the ledger left out), then for
each message `Ignore`, `Mark`, `Save`, `AlreadySynced` or `Fail`, then `Commit` of the
ledger rows and `SetCursor`, which is a commit of its own. `Abort` ends a run without
its next commit, be it an exception, a missing AI key or a crash (which aborts every
run). `Arrive`, `Delete` and `Tick` are the account and the clock.

Gmail asks for messages `after:` a second, iCloud `SINCE` a day (`DayOf`), so time
runs in half-days; both sides are taken to mean the same days. A Gmail message has an
id, an iCloud message the number `imap.search` gives, which is its place in the inbox:
`Id`. Requests to Gmail block the event loop, so a Gmail run has no other beside it;
an iCloud run waits in threads, and two of them interleave (`AllOff` in `Search`).
The iCloud search and the load of the ledger are one step. A message here is one that
the search finds; which contacts and companies make it so is left out.

`seen`, `missed` and `excused` are history: the messages that committed runs were done
with, those a run was not told about or could not load, and those of the latter that
its new cursor left behind.

### SyncScheduler

`StartPass`, `RunSource`, `SourceEnds`, `PassEnds` and `BackupEnds` are
`_background_sync_loop` (its backup step, `main.py:108-143`, included) and `_run_source`;
`guard` is `_RUNNING_SOURCES`. The sources that `ManualStarts` starts do not touch the
guard, as in the code. There is one loop, so a guard entry left behind is the
only thing that can make `RunSource` refuse. A pass without an account is a
stutter. `NoTimeout` are the sources whose client waits for its server without limit:
`imaplib.IMAP4_SSL` (`sync_icloud.py:117`) and `DAVClient` are opened without a timeout,
so the instances have `icloud_mail` in it.

### LinkedInSync

`status` and `code` are `_state["status"]` and `_2fa_code_input`; `account` and
`cookies` the `LinkedInSync` row; `pc`, `creds` and `jar` belong to a run and its
browser. `Check` and `Begin` are the two halves of the starters. The scraping of
jobs and messages is the step from `work` to `Finish` or `RunRaises`.
`CookiesDropped` is `_commit_with_retry`, whose rollback loses what it retries.
The wait for a code (`TakeCode`, `PushApproved`, `CodeTimeout`) is the loop inside
`_handle_2fa_checkpoint`. `LoginAccepted` may leave no valid cookies: `wait_for_url` also
accepts the login page itself, so a refused password may be taken for a login.

### BackupService

`data`, `secrets` and `key` are the volume: a version of the application data,
the keys under which secrets in the database are encrypted, and `fernet.key`.
`BackupDatabase` and `BackupKey` are the two halves of a bundle,
`RestoreDatabase` and `RestoreKey` those of a restore; `step` says which of them
has the event loop. A bundle on its way is in `sending` and is stored (`AgentStores`) or
lost (`SendFails`). `ReadKey`, `GenerateKey`, `WriteKey` and `StoreSecret` are a settings
request that encrypts a secret. `RotateOut` deletes any bundle at any time: this module is
about what is in bundles. What becomes of them is the subject of the next two.
`MaxBundles` only keeps the instance small.

### BackupRotation

`files` is the folder, a file known by its modification time, `taken` a history
of all files ever written, `doomed` what a request has decided to delete and has
not deleted yet. `Hourly`, `Daily` and `Weekly` are the three tiers of
`_select_files_to_keep`, written as sets rather than as slices of sorted lists.
A request fails in the listing (`ListFails`: a file that another request deletes) or at a
file it cannot delete (`UnlinkFails`). Its `RotationInit`, `RotationNext`, `RotationSpec`
and `RotationTypeOK` are named so that one proof module can extend it together with
`BackupService`.

### BackupDelivery

`call` is `do_backup` from `agent_post` on, `http` its request. `Send`, `Accepted`,
`Refused`, `GivesUp` (the 30 seconds of `agent_post`), `Recorded` and `CommitFails` are the
backend's side; `Store`, `List`, `Delete`, `RotationFails` and `Answer` the agent's, made
of the actions of `BackupRotation`. The two fail by themselves: a call that is given up
leaves its request to the agent, which may store the bundle long after; `BackendDies`,
`AgentStops`. Nothing keeps a backup by hand from running beside the hourly one. Files are
known by the time they were written; `named` holds the second in each file's name, so a
bundle sent in the same second is written over the first and `Delete`, which goes by path,
deletes whatever is there. `reported` is history: the files of successful backups.

### Startup

`InitDb` is the list of migrations in the order of `init_db`, each with the number of
columns or tables it adds; `step` is the one it is at and `db.added` how far each has
come. `AddColumn` is one ALTER or CREATE, which sqlite3 commits at once; `half` says
that it has altered and not committed its rows. The row migrations are actions of
their own (`GespraecheToEvents`, `BackfillPreRejection`, ...), over one application
with one row of each kind. `Crash` may follow any statement, `Edit` is what people do
between two starts, `Restore` replaces the database while the marker files beside it
(`markers`) stay. `torn` is history: a migration that died between its ALTER and its
backfill is skipped by every later start, and the properties say so.

### TargetedSync and ItemSource

A targeted run is `Begin`, the sources that answer in any order (`CollectMails`,
`FileMails`, `FileEntries`, `FileNotes`), `CommitSources` or `SourcesLost`, `FileCalls`
or `NoCalls`, and `Finish`. `run[t]` is its session: `new` entries flushed, `marks` of
the ledger, contacts `met`; `Save` is a flush, which takes the write lock or fails and
with it the whole session. `vouched` and `floor` are snapshots taken at the start. An
account-wide run is `StartBatch`, `FinishBatch` or `BatchFails`. `hand` is an assignment
waiting for the foreign service. An item is known to the ledger by a `Key`, and the
paths do not agree on it: `RunKey`, `BatchKey` and `LiveKey`. `DeleteEntry` (one entry or
many), `LinkContact` and `UnlinkContact` (which takes calls along that have the contact's
name in their title) leave the ledger alone, as the endpoints do. `linked` and `settled`
are history: who was ever linked to an application, and the keys of the ledger that are
not to be on a timeline, because a run found the item too old or somebody deleted its
entry. `Restart` ends every wait in `results`; a page whose polls fall on either side of a
restart is told `done: false` from then on (`get_result`), which no property covers.

`ItemSource` has three actions: `Import` files keys the ledger did not know, each once
and in one application unless the key is `Shared`; `Assign` is a person filing or moving
one entry; `Forget` is a reset or a deletion. `TargetedSync` implements it with its own
`known` and `filed` and with the calls of account-wide runs as `Shared`: `Index!Spec`.
Because keys differ by path, the promise is about keys; one call may well be filed under
both of its keys (see the known consequences).

### People

`rows` are the contacts by id, `entries` what the timeline knows of people, `messages`
the LinkedIn conversations, `proposals` the duplicates in the review queue. `who` in a
row is history: the persons a contact stands for. A contact comes from `MailFiled`
(`_upsert_contact`), `FinishContactsSync` (both address books), `ImportConnection`,
`ImportPicked` or `CreateContact`; `Lookup`, `Sender` and `Card` are the three ways the
code tells whether it knows a person. `StartScopedSync` reads a row, `FinishScopedSync`
writes what differs from what was read; in between anything may happen to it.
`MergeContacts`, `ApproveDuplicate` and `Absorb` (applications) unite, `Cleanup` proposes.
A contacts sync gives up the event loop only while it waits for the first address book;
`ContactsSyncCut` is the process ending behind one of the two commits on its way (the
refresh of Google's token, and the one before the links are added).
An import is a fold over the cards of an answer (`Imported`): each card sees what the
cards before it have made. `NamedAtOnce` is what `MessagesFollow` excuses: a card without
a first name makes a contact, a later card of the same answer completes its name, and the
code, which attaches messages only when it makes a contact (`sync_linkedin.py:2004`), does
not look again.

## 3. What the runs show

| Run | Specification | Properties | Distinct states |
|---|---|---|---|
| `store` | `StoreSpec` | `TypeOK`, `AtMostOncePerPurge`, `OneSuggestionPerItem`, `EventsHaveApplication`, `NoRepeatedSuggestion`, `SyncRespectsFloor` | 3,868,000 |
| `linkedin` | `Spec` | `TypeOK`, `StatusTruthful`, `PromptEnds`, `SyncAvailable` | 20,000 |
| `rotation` | `RotationSpec` | `DaysRecoverable`, `WeeksRecoverable`, `LatestKept`, `FolderBounded` | 154,000 |
| `delivery` | `OneASecondSpec` | `ReportedIsKept` | 637,000 |
| `backup_bundles` | `CalmSpec` | `BundlesSelfContained`, `SecretsReadable` | 97,000 |
| `scheduler` | `Spec` | `EnabledSourcesRun`, `DueBackupsRun` | 1,400 |
| `calendar` | `CalmSpec` | `OneSuggestionPerEvent`, `SuggestedAreGone`, `ApprovalsHeal`, `FollowsCalendar` | 1,327,000 |
| `mail` | `CalmSpec` | `NothingSkipped`, `LedgerIsHistory` | 820,000 |
| `mail_positions` | `Spec` | `LedgerIsHistory` is violated | |
| `startup` | `Spec` | `TypeOK`, `SchemaComplete`, `LegacyRowsConverted`, `ChoicesKept`, `SettlesInTwoStarts` | 1,857,000 |
| `targeted` | `Spec` | `TypeOK`, `AnswersAreComing`, `FilesEachItemOnce` (refines `ItemSource`), `NoCascade`, `NothingVanishes` | 539,000 |
| `people` | `Spec` | `TypeOK`, `NothingLost`, `RejectedStayRejected`, `MessagesFollow`, `PassiveKeeps` | 267,000 |

The violated property quotes a comment that the code does not keep: the ledger knows an
iCloud message by its place in the inbox. Once a message is deleted the others move up,
and a message that nobody has looked at is skipped because its place was recorded.

What the larger runs show in a sentence each:

- `store`: whichever way two runs, the reviews, a purge and the edits of people interleave,
  an item is an event once and a suggestion once, and a decided status is not asked for
  again; an event has its application and a run lowers no floor, unless a thread of the
  pool overtook the run.
- `delivery`: whichever way two calls, their answers, the commit of `last_backup` and the
  two processes fail, a backup that was reported as successful is in the folder or has
  made way for `keep_hourly` later ones that are.
- `calendar`: with listings that leave out any part of the window, no event whose entry
  was read is suggested for deletion, none is suggested twice, every event of an entry
  that was read has its day, and what an approval takes the ledger does not keep from
  coming back. What was not read is in `missed`, which `SuggestedAreGone` excuses.
- `scheduler`: every enabled source and every due backup gets its turn for ever, as long
  as servers whose clients have no timeout answer (`ServersAnswer`).
- `startup`: whatever release a database comes from and wherever a start was cut short,
  the next completed start has all columns and has converted the old rows (except those
  of a migration in `torn`), never undoes a choice of a person, and from the third quiet
  start on changes nothing.
- `targeted`: with two targeted runs, an account-wide run, an assignment and a restart in
  any order, what is committed implements `ItemSource`; a run files a calendar entry only
  on the strength of a contact committed before it; whatever fails, is reset or deleted,
  an item the ledger knows is on a timeline unless it was too old or deleted on request;
  and a result that is polled for has a run that will report it.
- `people`: no step but a removal loses a correspondent or an entry of an application, a
  rejected pair is not proposed again, a LinkedIn conversation appears with the contact of
  its partner's name, and a sync only completes the contacts it did not wait for, but for
  the names that `Renamed` is about.

### The calm specifications

Three modules have a second specification, `CalmSpec`, that leaves out named
interleavings, because the property is false with them, and `BackupDelivery` has one,
`OneASecondSpec`; one property assumes a constant to be empty. They are listed here so
that nobody takes the property for more than it is.

- `AtMostOncePerPurge` of `SyncStore` is checked and proved with `Threads = {}`; with a
  run on a thread of its own two runs both miss the item in the ledger and both save it.
  (`EventsHaveApplication` and `SyncRespectsFloor` need no calm, but exempt what is
  `overtaken`.)
- `BackupService!CalmSpec`: no crash between the two files of a restore, and no
  settings request overtaken by a restore or by another request. Under `Spec` TLC
  finds `SecretsReadable` violated by each: a crash leaves the restored database
  with the old key, and two first requests each generate a key, of which the
  second one written wins.
- `CalendarSync!CalmSpec`: the calendar does not change between the listing and
  the end of the run. What a provider has not told yet is not the run's mistake.
- `BackupDelivery!OneASecondSpec`: no two calls in one second. With two, the newest
  bundle may be deleted (below).
- `MailSync!CalmSpec`: no reset during a run, and no deletion from an iCloud inbox.
  Under `Spec` TLC finds `NothingSkipped` violated by a reset: the run's commit brings
  the cursor back, and what the reset was to have read again (`purge_source`: "so items
  get reprocessed on next sync") stays behind it. Deletions violate `LedgerIsHistory`,
  which is the run `mail_positions`.

### Known consequences that no run checks

Met while reading or modelling. Where a model covers the code it does what the code
does, and a property that says otherwise is false in it.

Syncs and backup:

- *A loop that waits for itself.* `database.py:21-22` expects of WAL mode that it
  "eliminates" lock contention, but there is one writer. A run that holds the write
  lock needs the event loop to finish; a second run waits for that lock on the loop,
  up to the 60 seconds of `busy_timeout` (`database.py:23`).
- *A server that hangs.* A pass waits in `gather` for every source (`main.py:106`) and
  `icloud_mail` opens `imaplib.IMAP4_SSL` without a timeout (`sync_icloud.py:117`): if that
  server stops answering, no source runs again and no backup is made until a restart,
  although the loop is to "run all enabled sync sources every `_BG_INTERVAL_MINUTES`
  minutes" (`main.py:42`). This is what the premise `ServersAnswer` leaves out.
- *Two backups in one second.* Their bundles share a path, and a rotation that listed the
  old file as surplus deletes the new one that was written over it
  (`agent/routers/backup.py:109`), although "the keep_hourly most recent files" are to be
  kept "unconditionally" (line 32).
- *Orphans of a partial listing.* An entry that was not read (see `List`) counts as deleted
  from the calendar as soon as any other entry was read, and its event is suggested for
  deletion, although the orphan query is to remove events "whose calendar entries no longer
  exist" (`sync_icloud.py:1000`). `ApprovalsHeal` says why little is lost: whoever approves
  the suggestion removes the ledger row as well, and the next complete listing brings the
  event back.
- *A run overtaken by a thread.* `delete_application` and `delete_event` are plain `def`:
  a run inserts an event for the application it read before, which is gone, or below a
  floor that is.
- *Two runs of a source.* `_RUNNING_SOURCES` "prevents duplicate concurrent runs"
  (`main.py:21`), but the endpoints that start a sync by hand do not consult it.
- *Messages behind the mail cursor.* The cursor becomes the end of the run, not its
  start. Messages that arrive between the listing and the end of a run, that fail to
  load, or that are not among the last 100 are not asked for again (Gmail), or only
  until the day is over (iCloud). `NothingSkipped` excuses exactly these, in `excused`.
- *Cookies of another account.* A LinkedIn sync writes its cookies to the row by
  its id. If the credentials were replaced while it ran, the row holds new
  credentials and the old account's cookies.
- *Restore on the event loop.* `src.backup(dst)` waits for the write lock without
  giving up the loop that the lock's holder, a sync between two items, needs. Both
  wait: `RestoreDatabase` needs `lock = Nobody`, `SyncCommit` needs
  `step = "free"`.
- *Approval by id.* `approve_match` deletes the event that has the suggestion's
  `event_id` by now. If the event was deleted and its id given to another one, or
  the entry has returned to the calendar, that event goes. `Approve` of
  `CalendarSync` does the same.
- *After a reset* an entry may get a second event, and only the first one follows
  later moves; `FollowsCalendar` says so (`purges = 0`).
- *Two LinkedIn syncs.* A second one starts while the first waits for a code
  (`sync_linkedin.py:195`; the docstring at 209 says only one can run at a time).
- *A backup that failed and did not.* When the agent's answer or the commit of
  `last_backup` is lost, the bundle is in the folder and the backup is reported as failed;
  the next one is made at once. `ReportedIsKept` is about the other direction only.
- *The oldest day.* An appointment that ended earlier on the oldest day of the window is
  no longer listed and is suggested for deletion (`sync_google.py:923`).
- *Put off beyond the window.* So is one that was moved to a day more than 90 days ahead,
  while its event still has the old day (`sync_google.py:937`).
- *Half a bundle.* `write_bytes` of the agent is not atomic; a truncated bundle takes part
  in later rotations (`agent/routers/backup.py:102`).
- *The audit trigger* looks for an entry of the last two seconds, which another change of
  the same application may have written (`database.py:984`).
- *Tiers overlap.* The docstring of `_select_files_to_keep` speaks of days "not
  already covered by the hourly tier"; the code leaves out the files of the tiers
  above, not their days and weeks, so a second file of a covered day takes a slot.

Targeted syncs and files (`TargetedSync`):

- The calls of a targeted run are matched against the contacts the application has after
  the first commit, so a contact created from a mail of the same run does count for calls
  (`sync_targeted.py:1172`; the comment at 1118 describes the snapshot for the domains).
- `reset_targeted_sync` deletes the application's events of every source and purges seven
  sources for the whole account: its files never return, and other applications' items
  that the live matching would place differently are imported again.
- An item that predates the application is marked, which hides it from every other one.
- Calls have a key with and one without a prefix, and notes an id and its hash, so one
  call, or one note, can be filed twice through different paths.
- A suggestion can be assigned again and again; nothing asks for its review status.
- Of two overlapping runs of one application the first to end reports "done" while the
  second is still at work.
- The cursor of the folder moves past files that matched nothing or failed, once any file
  was filed (`sync_files.py:107`); attaching a single file ignores the ledger.

Database set-up (`Startup`):

- A crash between an ALTER and the backfill of the same migration is never repaired, since
  the column says that the migration is done. `_migrate_status_fields` converts only rows
  whose `main_status` is NULL, in a column it adds as NOT NULL with a default, so no old
  status is ever converted (`database.py:85`).
- An interview event or a last event that somebody deleted returns at the next start, and
  so does a telephone number while the old column exists; `pre_rejection_status` is
  written over; `_fix_mail_event_dates` runs at every start.
- A restored bundle of an older release is not migrated until the next start, and marker
  files that are not part of it keep some of its rows unconverted for good.
- The trigger on the status is missing until the second start of a new database.

People (`People`):

- An import of an address book matches by surname alone when the address is new: a second
  person of the same surname is merged into the first, company and number included.
- A scoped Sync reads the row before it awaits the address books. A field somebody fills
  meanwhile is overwritten, a row deleted meanwhile fails the request, an id given again
  gets the wrong person's data. `PassiveKeeps` excuses exactly these.
- The passive import gives a contact without a first name both names of the card
  (`sync_icloud.py:1740-1746`), although it may have found the contact by its address and
  the contact may be called anything; the docstring of the merge behind it says "never
  overwrites or removes existing data" (lines 1585-1588). `PassiveKeeps` excuses exactly
  this (`Renamed`).
- `approve_match` takes the ids as they are and can decide twice; telephone numbers and
  the address of the contact that goes are lost.
- Linking by hand, the mention backfill and merges attach no LinkedIn conversations; the
  aliases stored by a merge of contacts are read by no sync.
- The cancel flag of a contacts sync cannot be raised inside the import loop, which never
  yields, and outlives its run: an import of LinkedIn connections after it imports nothing.
- Calls are deleted by a substring of the contact's name.

### Bounds, and why they are enough

- `SyncStore`: two runs, two items, one application, one purge, two days, two event ids.
  Every property compares two rows, or one row and a decision; two runs and two items give
  every pair, and the same item in two runs. Two days let the floor move. Two ids suffice
  for two events of an item, and for a floor event and the event a run adds. Items and
  sessions are symmetric: nothing orders or tells them apart.
- `CalendarSync`: two entries, two slots on different days inside the window and one
  beyond it, one step of time, two ids, three changes, one reset: enough for an entry
  to be added, moved within the window and out of it and removed, for an id to be
  given twice, and for a listing with one of two entries, without which no orphan is
  looked for. The two slots lie far from the edges of the window.
- `MailSync`: two runs, three messages, a batch of two, time 0 to 2 in half-days: a
  third message falls out of the batch, two runs overlap with a message each and one to
  share, and the clock passes a midnight with an hour before it in which a message may
  arrive on the cursor's own day. Runs are symmetric.
- `SyncScheduler`: two sources, because the point is that one waits for the other;
  one manual run of each, one restart. No bound on passes: the state graph is
  finite and its cycles are what the liveness properties are about.
- `LinkedInSync`: two runs at a time and three in all, two accounts.
- `BackupService`: two keys, because one is replaced by another; one change of
  data, three bundles, one sync. One request at a time, since `CalmSpec` has no
  more.
- `BackupRotation`: two overlapping requests and eleven time steps, with days of
  one and of two backups and weeks of two days, so four weeks pass, and files move
  through all tiers with `KeepHourly = 1`, `KeepDaily = KeepWeekly = 2`.
- `BackupDelivery`: two calls at a time and five files in all, so that a call which was
  given up meets two later ones and the rotations of both; `KeepHourly = KeepDaily = 1`,
  `KeepWeekly = 0`, so that a file is surplus as soon as two newer ones are there. What
  tiers do over weeks is the subject of `BackupRotation`.
- `Startup`: a database without any migration and one of a release in between, with every
  stage and interview date; two edits and one crash, so that each migration can be cut
  short after an edit and an edit can follow a repaired start. Migrations touch disjoint
  columns, so one row of each kind is enough.
- `TargetedSync`: two applications, one item of each kind, a note that names both, an
  entry that rests on a contact alone, two targeted runs, one account-wide run, three
  calls: two runs and a reset, a run, an assignment and a move, or a contact linked, a run
  and the contact or an entry deleted, in every order of their steps. One item of a
  kind suffices because an item meets others only through contacts
  and the floor, and those are met across kinds; a limit of one mail is reached by one.
- `People`: two persons of one surname and one company, of whom one is spelled in two ways,
  two applications that are alike, three ids, four calls: enough for a contact to arrive,
  be linked, merged and given its id again. A clean-up is not counted.

### Fairness

- `SyncScheduler`: every task of the loop that can go on does; requests with a
  timeout end; the sleep ends. Sources in `NoTimeout` get no fairness for their
  end: the instances have `icloud_mail` in it, since `imaplib.IMAP4_SSL` is opened without
  a timeout. The two properties that hold therefore begin with `ServersAnswer` (such a
  client's run ends again and again, or is not under way). Nothing is assumed
  about users, backups falling due or restarts. `BackupEnds` is fair as one action, so it
  may fail every time.
- `LinkedInSync`: a task that was started is run (`Begin`), and every step it takes
  by itself is bounded by a timeout (`TaskStep`): the browser's, or the five
  minutes of the code. A push approval, an exception, a code typed by a person and
  a restart are never assumed.
- `BackupService!Fairness` says that a request that has the loop goes on and that a
  sync commits; no liveness property is among the runs.
- The other modules have safety properties only and no fairness. That a result will come
  is stated for `TargetedSync` as an invariant: the run that reports it exists.

## 4. What is proved

TLAPS proves these for all values of the constants that satisfy each module's
`ASSUME` (which TLC evaluates for the instances):

| Theorem | States | Inductive invariant |
|---|---|---|
| `SyncStore_proofs!TypeCorrect` | `StoreSpec => []TypeOK` | `QInv` |
| `SyncStore_proofs!SuggestionsUnique` | `StoreSpec => []OneSuggestionPerItem` | `QInv` |
| `SyncStore_proofs!ReviewIsFinal` | `StoreSpec => NoRepeatedSuggestion` | `QInv` |
| `SyncStore_proofs!DedupHolds` | `Threads = {} => (StoreSpec => []AtMostOncePerPurge)` | `DInv` |
| `SyncStore_proofs!NoOrphans` | `StoreSpec => []EventsHaveApplication` | `FInv` |
| `SyncStore_proofs!FloorRespected` | `StoreSpec => SyncRespectsFloor` | `FInv` |
| `CalendarSync_proofs!AskedOnce` | `Spec => []OneSuggestionPerEvent` | `IInv` |
| `CalendarSync_proofs!EventsFollow` | `Spec => FollowsCalendar` | `Tracked` |
| `CalendarSync_proofs!ReadAreKept` | `CalmSpec => SuggestedAreGone` | `IInv`, `Numbered`, `AsListed` |
| `CalendarSync_proofs!ApprovedComeBack` | `Spec => []ApprovalsHeal` | `Healing` |
| `MailSync_proofs!NothingIsSkipped` | `CalmSpec => []NothingSkipped` | `IInv` |
| `MailSync_proofs!LedgerIsTrue` | `CalmSpec => []LedgerIsHistory` | `IInv` |
| `LinkedInSync_proofs!TypeCorrect` | `Spec => []TypeOK` | itself |
| `LinkedInSync_proofs!StatusIsTruthful` | `Spec => []StatusTruthful` | with `TypeOK` |
| `Backup_proofs!BundlesStayWhole` | `CalmSpec => []BundlesSelfContained` | `ServiceInv` |
| `Backup_proofs!SecretsStayReadable` | `CalmSpec => []SecretsReadable` | `ServiceInv` |
| `Backup_proofs!DaysStayRecoverable` | `RotationSpec => []DaysRecoverable` | `RotationInv` |
| `Backup_proofs!WeeksStayRecoverable` | `RotationSpec => []WeeksRecoverable` | `RotationInv` |
| `Backup_proofs!LatestStay` | `RotationSpec => []LatestKept` | `RotationInv` |
| `Backup_proofs!FolderStaysBounded` | `RotationSpec => FolderBounded` | `RotationInv` |
| `Backup_proofs!DeliveryRotates` | `OneASecondSpec => RotationSpec` | `DeliveryInv` |
| `Backup_proofs!ReportedBackupsStay` | `OneASecondSpec => []ReportedIsKept` | `DeliveryInv` |
| `Startup_proofs!StartupIsTyped` | `Spec => []TypeOK` | `IInv` |
| `Startup_proofs!SchemaStaysComplete` | `Spec => []SchemaComplete` | `IInv` |
| `Startup_proofs!OldRowsAreConverted` | `Spec => []LegacyRowsConverted` | `IInv` |
| `Startup_proofs!ChoicesAreKept` | `Spec => []ChoicesKept` | `IInv` |
| `Startup_proofs!TwoStartsSettle` | `Spec => SettlesInTwoStarts` | `IInv` |
| `TargetedSync_proofs!ImplementsItemSource` | `Spec => FilesEachItemOnce` | `IInv` |
| `TargetedSync_proofs!NeverACascade` | `Spec => NoCascade` | `IInv` |
| `TargetedSync_proofs!KnownIsSomewhere` | `Spec => []NothingVanishes` | with `IInv` |
| `TargetedSync_proofs!AnswersCome` | `Spec => []AnswersAreComing` | with `TypeOK` |
| `TargetedSync_proofs!TypeCorrect` | `Spec => []TypeOK` | itself |
| `People_proofs!PeopleAreTyped` | `Spec => []TypeOK` | `Inv` |
| `People_proofs!NothingIsLost` | `Spec => NothingLost` | `Inv` |
| `People_proofs!MessagesFollowContacts` | `Spec => MessagesFollow` | `Inv` |
| `People_proofs!PassiveSyncsKeep` | `Spec => PassiveKeeps` | `Inv` |
| `People_proofs!RejectedPairsStayRejected` | `Spec => RejectedStayRejected` | `Shaped` |

**SyncStore.** None of the properties is inductive: each is about committed rows
and is endangered by rows that are not committed yet. `QInv` is what the write
lock protects. A suggestion exists outside the committed queue only in the session
that holds the lock, so from the flush of an event to the commit of its run nobody
else can change the queue, and what the run read about suggestions is true when it
commits. That needs no assumption about where runs execute, and so it holds for
LinkedIn's threads too. `DInv` adds what the event loop protects: no other run
acts between a look at the ledger and the flush, hence the assumption
`Threads = {}`, and a flushed event's item is not in the committed ledger. `FInv`
is what neither protects, the application and the floor a run has read: they are still
there as long as the application is not `overtaken` (`UserLeaves`), for runs on threads
too, and an event that a run has flushed above the floor never becomes the floor another
item of the run rests on alone (`FloorRests`).

**CalendarSync.** `OneSuggestionPerEvent` is nearly inductive. `FollowsCalendar`
needs `Tracked`: before the first reset, every synced event's entry is in the ledger
and has one event, so "the first event of the entry" is each event. It is proved
under `Spec`, without the calm that TLC's run assumes. `SuggestedAreGone` relates a new
suggestion to the calendar as it is then, by way of the listing (`AsListed`: in a calm
run every entry of the window stays either listed or missed) and of the id the suggestion
holds. `ApprovalsHeal` needs no calm: runs that follow a moved entry and people who edit a
day never take an event from its entry (`MovesOnly`), a mark comes with an event or is
hidden, and an approval takes the marks of all events it deletes.
`Numbered` says that no two events have one id although ids are given again; that
`max(rowid)` exists is an induction over finite sets of numbers (`HasGreatest`). Nothing
is assumed of the times entries may have.

**MailSync.** The cursor moves in a step that looks at no message, long after the
search and from one of several runs, so the invariant has to say what a run owes:
`IInv` states that each run under way *answers for* every message in the box: a committed
run was done with it or it is excused, or this run is done with it, has missed it or still
has it to do. After the commit only the missed ones are left, and those that the new
cursor leaves behind are what `SetCursor` excuses.

**LinkedInSync.** `StatusTruthful` is preserved because a status that announces a
run is set only by a run that goes on, and every end of a run sets another status.

**BackupService.** `ServiceInv` says why the two halves of a bundle agree although they
are read one after the other: a key is only written where there is none, when
nothing can be encrypted yet; a request under way holds the present key; and a
restore has no request beside it.

**BackupRotation.** Each rotation decides by a listing that may be old. Call a backup
*essential* if, among all that were ever taken, it is one of the `KeepHourly` newest or
the newest one of a recent enough day or week. `RotationInv` says that every essential backup
is in the folder and on nobody's list of files to delete. The lemmas show that the tiers
keep every essential file they are shown, and that a backup which has stopped being
essential never becomes so again (`EssentialShrinks`). That is why an old listing, and
the order in which two requests delete, do no harm. `FolderBounded` needs cardinalities:
a tier maps its files into the latest periods, one file to a period, and a set of the `n`
newest members has at most `n` (`NewestBound`, `TierBound`, `SumBound`).

**BackupDelivery.** As long as no two calls share a second, no path is written twice, and
every step of a call is a step of the rotation or leaves the folder alone: it implements
`RotationSpec`, so that what was proved of days, weeks and the latest files holds of whole
backups. `DeliveryInv` adds that an answer "ok" is read only by the call whose file was
written, because a call starts again only when its request is over. `ReportedIsKept`
follows from `RotationInv`: a file that is not there is not among the `KeepHourly` newest
that were ever taken, and those are all in the folder (`MadeWay`).

**Startup.** Nothing in the code records which migrations have run; each looks at the
schema or the rows. The invariant therefore speaks of what a migration leaves behind:
`Post(m)` holds once a start has been through `m` since anybody last changed something
(`Did`), and survives every later migration of the same start, which is where their order
matters. `Sound` is what any database satisfies at any time, also one in a backup, so that
a restore is just another initial state; `torn` takes up what a crash leaves undone
forever. `MarkersTrue` says that a marker file means what it says, `HalfDone` the same
between the commit and the marker, and `MarkersFirst` that nobody can have decided anything
before all markers are written: this is why repeating a migration after a crash cannot undo
a choice. Two migrations read what a later one of the same start writes; they are `Settled`
by the second start (`Twice`), and `SettlesInTwoStarts` follows migration by migration. The
proof holds for every set of databases in `Upgrades` and any number of edits and crashes;
the list of migrations itself is that of the code, looked up in `Listed` and `Placed`. It
made the model say what it means in two places, where the arms of a `CASE` overlapped.

**TargetedSync.** What a run found new when it flushed must still be new when it commits,
minutes and many awaits later. `IInv` says why it is: whoever holds flushed entries holds
the write lock, and whoever does not hold it cannot add to the ledger; a failed flush
leaves a session with nothing. With it each commit is an `Import` of `ItemSource`, what
people do an `Assign`, resets and deletions a `Forget`, and all other steps stutter. For
`NoCascade` it adds that the snapshot of a run, and the correspondents of the entries it
has flushed, were linked by a person or a commit before, which no unlinking undoes
(`linked`, `LinksInv`). `NothingVanishes` is about the ledger of all applications at once,
which grows only with commits of runs and assignments by hand: each new key comes with an
entry of the same commit or is settled (`RunsHide`, `BatchesHide`), what takes an entry
away either leaves it with another application, settles its key or forgets it, and a targeted reset forgets
every key it takes entries from, files apart (`PeopleHide`). TLC checked `IInv` on the
instance before it was proved.

**People.** `Inv` says that contacts are linked to applications that are there, entries
belong to one, and the contacts a request has read are contacts. What matters is what one
step does to many rows. An import is unrolled card by card (`CardAfterCard`); `ImportInv` says
what holds after each card of what was there before (contacts only grow, no entry goes) and of
what this import has made (`Made`: its messages are attached), and `OneCard` that a card keeps
it. The induction is over the number of cards (`UpTo`). That contacts *only grow* is true of
a name up to the exception of `PassiveKeeps`: the proof shows that a name is replaced only
where a card of the contact's own address has been found (`Belongs`), and that two cards in
a row do no more than one (`GrownTwice`), since after the first there is a first name.
Merges of contacts and of applications map each lost row to the one that takes its place, which
is the `\E b` of `NothingLost`. For `RejectedStayRejected` only three steps touch the queue: a
decision adds the same pair, decided, and the clean-up adds no pair that was rejected in either
order. `Apps` is assumed finite, as a database table is: the clean-up counts the
applications of a contact.

Only model-checked: the liveness properties (`EnabledSourcesRun`, `DueBackupsRun`,
`PromptEnds`, `SyncAvailable`), since fairness and ENABLED are out of the
prover's reach. Every other property of the passing runs is a theorem. What stays on trust
between the two: `DedupHolds` assumes `Threads = {}`, and those marked
`CalmSpec` leave out the interleavings of section 3.

## 5. What is not modelled

- In the modelled parts: how an item is matched to an application and classified
  (any outcome is possible), titles, links and other fields that no property reads;
  which part of a calendar's window a run reads (any part may be left out); several
  instances of one iCloud uid; dates of what concerns contacts; endpoints in
  pool threads behind the two commits on the way of a contacts sync; several rows of a
  kind in one database that is migrated; the merging of companies;
  the notes login with pyicloud, which nothing calls; disconnecting an account during a
  run and the repair of old mail rows (`backfill_gmail_autor`); the contents of bundles
  (so a truncated file is not told from a whole one);
  the fixed name of the backend's two temporary files; bundles of older versions.
- Not started: the components with status `not_modelled` in `PROJECT.json`, each
  with its reason. Among them, request/response code with no state of its own (PDF
  and Excel, geocoding, i18n), code whose outcome a remote service decides (the AI
  provider), packaging, and the frontend.

## 6. Plan

Done, in this order: `SyncStore` (every source goes through it), `LinkedInSync` (most
actors), `BackupRotation`, `BackupService`, `SyncScheduler`, `CalendarSync`, `MailSync`,
`Startup`, `ItemSource` with `TargetedSync` (which includes notes, reminders, calls and
files), `People` (contacts, merging, clean-up), `BackupDelivery` (the first composition).

To come, the most important first:

1. `Applications`: the status machine, its overrides and ghosting. Theorem: status and last
   status event agree.
2. `AuditTrail`: `add_audit` beside the database trigger, which looks for an entry of
   the last two seconds. `approve_match` flushes the status before it calls
   `add_audit`, and quick changes share an entry.
3. `Ownership`: tenant filter, rows without an owner and who claims them.
4. `CompanyJobs`: in-memory jobs, polling and restarts; `ChatLoop`: the bound on tool
   calls; `PermissionMonitor` of the agent.
5. `LinkedInSync` extended by the commit of scraped jobs.
6. `MailSync` and `CalendarSync` as further implementations of `ItemSource`.
7. Composition: `SyncScheduler` with `SyncStore`'s runs as its sources and
   `BackupDelivery` as its backup.

The pure algorithms among them (title normalisation and similarity in `dedup.py`,
the floor, the retention tiers) are to be compared with a reference definition over
bounded inputs. Each safety property is to be proved once TLC agrees, beginning with
the audit trail.
