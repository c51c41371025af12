------------------------------- MODULE Startup --------------------------------
(***************************************************************************)
(* init_db(): what the backend does to its database whenever it starts.    *)
(* Some fifty migrations run in a fixed order, each on a connection of its *)
(* own; nothing records which of them have run, so each looks whether it   *)
(* has something to do.  Between two starts people work with the rows, and *)
(* the process may die after any statement: sqlite3 commits an ALTER or    *)
(* CREATE at once, everything else when the migration commits.             *)
(*                                                                         *)
(* Of the rows the model keeps one application with its contact, company,  *)
(* events and CV, and of each what some migration reads or writes; of the  *)
(* schema how many of its columns each migration has added.                *)
(***************************************************************************)
EXTENDS Naturals, Sequences, FiniteSets

CONSTANTS
    Upgrades,    \* sets of migrations that the database of a release may lack
    MaxEdits,    \* bound: changes made by people
    MaxCrashes   \* bound: starts cut short

ASSUME StartupAssumption == MaxEdits \in Nat /\ MaxCrashes \in Nat

VARIABLES
    file,      \* the database file exists
    tables,    \* create_all has been completed on it
    db,        \* its contents
    markers,   \* marker files beside it
    proc,      \* the process: down, init, up, failed
    step,      \* the migration init_db is at
    half,      \* it has altered the schema and not committed the rest
    bundle,    \* a backup of the database, with the two histories it goes with
    choices,   \* history: what people decided and have not changed since
    torn,      \* history: migrations that will not be completed any more
    restored,  \* history: the database was replaced while the process was up
    quiet,     \* completed starts since somebody last changed something
    edits, crashes

vars == <<file, tables, db, markers, proc, step, half, bundle, choices, torn, restored,
          quiet, edits, crashes>>

-----------------------------------------------------------------------------
(* The migrations.  One that adds columns adds each that is not there yet; *)
(* `checked` says that it first looks whether its table exists.            *)

Adds(name, n)        == [name |-> name, columns |-> n, checked |-> TRUE]
AddsBlindly(name, n) == [name |-> name, columns |-> n, checked |-> FALSE]
Only(name)           == [name |-> name, columns |-> 0, checked |-> TRUE]

StatusFields               == AddsBlindly("status_fields", 7)
IcloudColumns              == Adds("icloud", 2)
CallsColumn                == Adds("calls", 1)
GoogleEmail                == Adds("google_email", 1)
GoogleContacts             == Adds("google_contacts", 2)
SettingsFiles              == Adds("settings_files", 1)
SettingsGoogleContacts     == Adds("settings_google_contacts", 1)
SettingsLinkedinContacts   == Adds("settings_linkedin_contacts", 1)
LinkedinGranular           == Adds("linkedin_granular", 2)
StepFixMailEventDates      == Only("fix_mail_dates")
ContactsM2m                == Adds("contacts_m2m", 1)  \* the table contact_application
Attachments                == Adds("attachments", 1)  \* the table attachments
EventExternalId            == AddsBlindly("event_external_id", 1)
EventDatumZeit             == AddsBlindly("event_datum_zeit", 1)
EventPlaceholder           == Adds("event_placeholder", 1)
EventExternalUrl           == Adds("event_external_url", 1)
EventMailDirection         == Adds("event_mail_direction", 1)
LinkedinJobId              == AddsBlindly("linkedin_job_id", 1)
PreRejectionStatus         == AddsBlindly("pre_rejection", 1)
AuditLog                   == AddsBlindly("audit_log", 2)  \* audit_log_level, the table audit_log
AuditLogEntities           == Adds("audit_log_entities", 3)
AuditLogEntityType         == Adds("audit_log_entity_type", 1)
ContactCompanyProfile      == AddsBlindly("contact_company_profile", 1)
ContactVorname             == AddsBlindly("contact_vorname", 1)
CompanyLogo                == AddsBlindly("company_logo", 1)
CompanyParent              == AddsBlindly("company_parent", 1)
AiAssessment               == AddsBlindly("ai_assessment", 4)
ApplicationOrt             == AddsBlindly("ort", 1)
Salary                     == AddsBlindly("salary", 15)
AiScoring                  == AddsBlindly("ai_scoring", 7)
Bewerberzahl               == AddsBlindly("bewerberzahl", 1)
ZielfirmaBekannt           == AddsBlindly("zielfirma_bekannt", 1)
StepCreateTables           == Only("create_all")
UserIdColumns              == AddsBlindly("user_id", 19)
ContactPhones              == AddsBlindly("contact_phones", 1)
UserProfile                == AddsBlindly("user_profile", 7)
UserHomeLocation           == AddsBlindly("user_home_location", 3)
UserSalaryDefaults         == AddsBlindly("user_salary_defaults", 8)
OrtCoords                  == Adds("ort_coords", 2)
DriveDistance              == Adds("drive_distance", 2)
CvTextCache                == AddsBlindly("cv_text", 1)
LinkedinProfileCache       == AddsBlindly("linkedin_profile", 2)
UiLanguage                 == AddsBlindly("ui_language", 1)
CompanyProfiles            == AddsBlindly("company_profiles", 2)
StepBackfillCompanyProfiles == Only("backfill_profiles")
StepBackfillWebsites       == Only("backfill_websites")
StepBackfillEvents         == Only("backfill_events")
StepGespraecheToEvents     == Only("gespraeche")
StepNoonBackfill           == Only("noon")
StepFlagPlaceholders       == Only("flag_placeholders")
StepMessageUrl             == Only("message_url")
BackupRetention            == Adds("backup_retention", 2)
StepCleanupOrphans         == Only("cleanup_orphans")

(* The order of init_db(). *)
InitDb == <<
    StatusFields, IcloudColumns, CallsColumn, GoogleEmail, GoogleContacts,
    SettingsFiles, SettingsGoogleContacts, SettingsLinkedinContacts,
    LinkedinGranular, StepFixMailEventDates, ContactsM2m, Attachments,
    EventExternalId, EventDatumZeit, EventPlaceholder, EventExternalUrl,
    EventMailDirection, LinkedinJobId, PreRejectionStatus, AuditLog,
    AuditLogEntities, AuditLogEntityType, ContactCompanyProfile, ContactVorname,
    CompanyLogo, CompanyParent, AiAssessment, ApplicationOrt, Salary, AiScoring,
    Bewerberzahl, ZielfirmaBekannt, StepCreateTables, UserIdColumns, ContactPhones,
    UserProfile, UserHomeLocation, UserSalaryDefaults, OrtCoords, DriveDistance,
    CvTextCache, LinkedinProfileCache, UiLanguage, CompanyProfiles,
    StepBackfillCompanyProfiles, StepBackfillWebsites, StepBackfillEvents,
    StepGespraecheToEvents, StepNoonBackfill, StepFlagPlaceholders, StepMessageUrl,
    BackupRetention, StepCleanupOrphans >>

Migrations == {InitDb[i].name : i \in 1..Len(InitDb)}
Columns == [m \in Migrations |->
             (CHOOSE x \in {InitDb[i] : i \in 1..Len(InitDb)} : x.name = m).columns]

-----------------------------------------------------------------------------
(* The database. *)

Repairs == {"entity_type", "website", "message_url", "orphan"}
Choices == {"cleared", "timed", "linkedin_off"}

Database == [
    added    : [Migrations -> 0..19],           \* columns each migration has added
    trigger  : BOOLEAN,                         \* trg_main_status_change
    main     : {"applied", "fb", "rejected"},   \* main_status
    legacy   : {"none", "rejected"},            \* the column `status` it replaces
    pre      : {"none", "hr", "fb", "applied"}, \* pre_rejection_status
    events   : SUBSET {"bewerbung", "gespraech", "fb"},
    interview: BOOLEAN,                         \* gespraech_1
    linked   : BOOLEAN,                         \* the contact is linked to it
    enabled  : BOOLEAN,                         \* linkedin_enabled
    cv       : BOOLEAN,                         \* cv_extracted_text
    time     : {"null", "noon", "real"},        \* datum_zeit of an event
    flag     : BOOLEAN,                         \* datum_zeit_is_placeholder
    old      : BOOLEAN,                         \* that event predates v4.6.5
    late     : BOOLEAN,                         \* datum of a mail event is after its receipt
    telefon  : BOOLEAN,                         \* legacy number of the contact
    phone    : BOOLEAN,                         \* the same number in contact_phones
    profile  : BOOLEAN,                         \* company_profile_id
    faults   : SUBSET Repairs ]                 \* rows as earlier releases left them

(* What create_all() makes, with rows that the present code has written. *)
FreshDb == [
    added |-> Columns, trigger |-> FALSE,
    main |-> "applied", legacy |-> "none", pre |-> "none",
    events |-> {"bewerbung"}, interview |-> FALSE, linked |-> TRUE, enabled |-> FALSE,
    cv |-> TRUE, time |-> "real", flag |-> FALSE, old |-> FALSE, late |-> FALSE,
    telefon |-> FALSE, phone |-> TRUE, profile |-> TRUE, faults |-> {} ]

(* A database of a release that had all the tables and lacked the           *)
(* migrations M.                                                            *)
OldDb(M, main, interview) ==
    [FreshDb EXCEPT
        !.added   = [m \in Migrations |-> IF m \in M THEN 0 ELSE Columns[m]],
        !.trigger = "audit_log" \notin M,
        !.main    = IF "status_fields" \in M THEN "applied" ELSE main,
        !.legacy  = IF "status_fields" \in M THEN "rejected" ELSE "none",
        !.events  = IF "backfill_events" \in M THEN {}
                    ELSE {"bewerbung"} \cup (IF main = "rejected" THEN {"fb"} ELSE {}),
        !.interview = interview,
        !.linked  = "contacts_m2m" \notin M,
        !.cv      = "cv_text" \notin M,
        !.time    = IF "event_datum_zeit" \in M THEN "null" ELSE "noon",
        !.old     = TRUE,
        !.late    = TRUE,
        !.telefon = "contact_phones" \in M,
        !.phone   = "contact_phones" \notin M,
        !.profile = "backfill_profiles" \notin M,
        !.faults  = Repairs]

OldDbs(M) == {OldDb(M, main, interview) :
                  main \in {"applied", "fb", "rejected"}, interview \in BOOLEAN}

Bundle == [db : Database, choices : SUBSET Choices, torn : SUBSET Migrations]

(* Types; and no column is added twice, which sqlite would refuse.          *)
TypeOK ==
    /\ file \in BOOLEAN /\ tables \in BOOLEAN
    /\ db \in Database /\ \A m \in Migrations : db.added[m] <= Columns[m]
    /\ markers \subseteq {"noon", "flagged", "cleaned"}
    /\ proc \in {"down", "init", "up", "failed"} /\ step \in 1..Len(InitDb) /\ half \in BOOLEAN
    /\ bundle \in Bundle
    /\ choices \subseteq Choices
    /\ torn \subseteq Migrations /\ restored \in BOOLEAN
    /\ quiet \in 0..2 /\ edits \in 0..MaxEdits /\ crashes \in 0..MaxCrashes

Init ==
    /\ \/ file = FALSE /\ tables = FALSE /\ db = FreshDb
       \/ /\ file = TRUE /\ tables = TRUE
          /\ \E M \in Upgrades : db \in OldDbs(M)
    /\ markers = {}
    /\ proc = "down" /\ step = 1 /\ half = FALSE
    /\ \E old \in UNION {OldDbs(M) : M \in Upgrades} :
           /\ old.interview /\ old.main = "rejected"
           /\ bundle = [db |-> old, choices |-> {}, torn |-> {}]
    /\ choices = {} /\ torn = {} /\ restored = FALSE
    /\ quiet = 0 /\ edits = 0 /\ crashes = 0

-----------------------------------------------------------------------------
(* One start. *)

Now == InitDb[step]
Has(m) == db.added[m] = Columns[m]
Behind == {"linkedin_granular", "contacts_m2m", "cv_text"}  \* fill rows only right after the ALTER

(* Mutant: it looks for the first only.                                      *)
LacksFirst == IF half /\ Now.name = "linkedin_granular" THEN db.added[Now.name] < 2
              ELSE db.added[Now.name] = 0 /\ Now.columns > 0

(* Mutant: both columns of linkedin_granular are not looked for.            *)
LacksBoth == IF Now.name = "linkedin_granular" THEN db.added[Now.name] = 0 \/ half
             ELSE db.added[Now.name] < Now.columns

(* A migration looks for each of its columns; linkedin_granular looks for   *)
(* the first and adds both.  Once _migrate_status_fields has touched rows    *)
(* of the old column, the rest of it is one transaction.                     *)
Lacks ==
    LET n == db.added[Now.name]
    IN  CASE Now.name = "linkedin_granular" -> n = 0 \/ (half /\ n < 2)
          [] Now.name = "status_fields" /\ db.legacy # "none" -> n < 2
          [] OTHER -> n < Now.columns

Proceed ==
    /\ half' = FALSE
    /\ IF step < Len(InitDb)
       THEN step' = step + 1 /\ UNCHANGED <<proc, restored, quiet>>
       ELSE /\ step' = 1 /\ proc' = "up" /\ restored' = FALSE
            /\ quiet' = IF quiet < 2 THEN quiet + 1 ELSE 2

people == <<bundle, choices, torn, edits, crashes>>

Start ==
    /\ proc \in {"down", "failed"}
    /\ proc' = "init" /\ step' = 1 /\ half' = FALSE
    /\ UNCHANGED <<file, tables, db, markers, people, restored, quiet>>

(* No database file yet: a migration has nothing to do. *)
NothingThere ==
    /\ proc = "init" /\ ~file /\ Now.name # "create_all"
    /\ Proceed
    /\ UNCHANGED <<file, tables, db, markers, people>>

(* ALTER TABLE on a table that create_all had not come to. *)
AlterFails ==
    /\ proc = "init" /\ file /\ ~tables /\ ~Now.checked
    /\ proc' = "failed"
    /\ UNCHANGED <<file, tables, db, markers, people, step, half, restored, quiet>>

AddColumn ==
    /\ proc = "init" /\ tables
    /\ Lacks
    /\ db' = [db EXCEPT !.added[Now.name] = @ + 1]
    /\ half' = (Now.name \in Behind)
    /\ UNCHANGED <<file, tables, markers, people, proc, step, restored, quiet>>

(* create_all makes the tables one after the other. *)
CreateFirstTables ==
    /\ proc = "init" /\ Now.name = "create_all" /\ ~file
    /\ file' = TRUE /\ half' = TRUE
    /\ UNCHANGED <<tables, db, markers, people, proc, step, restored, quiet>>

CreateTables ==
    /\ proc = "init" /\ Now.name = "create_all" /\ file
    /\ tables' = TRUE
    /\ Proceed
    /\ UNCHANGED <<file, db, markers, people>>

-----------------------------------------------------------------------------
(* What a migration does to rows once its columns are there: d is what it   *)
(* commits.                                                                 *)

At(m) == proc = "init" /\ tables /\ Now.name = m /\ ~Lacks

Commit(d) ==
    /\ db' = d
    /\ Proceed
    /\ UNCHANGED <<file, tables, markers, people>>

RowMigrations ==
    {"status_fields", "linkedin_granular", "fix_mail_dates", "contacts_m2m", "pre_rejection",
     "audit_log", "audit_log_entity_type", "create_all", "contact_phones", "cv_text",
     "backfill_profiles", "backfill_websites", "backfill_events", "gespraeche", "noon",
     "flag_placeholders", "message_url", "cleanup_orphans"}

(* Nothing but columns. *)
ColumnsDone ==
    /\ Now.name \notin RowMigrations /\ At(Now.name)
    /\ Commit(db)

(* The old status is looked up only where main_status IS NULL, which a      *)
(* column added with NOT NULL DEFAULT 'applied' never is.                   *)
DropStatus ==
    /\ At("status_fields")
    /\ Commit([db EXCEPT !.added["status_fields"] = StatusFields.columns, !.legacy = "none"])

EnableLinkedin ==
    /\ At("linkedin_granular")
    /\ Commit([db EXCEPT !.enabled = @ \/ half])

FixMailEventDates ==
    /\ At("fix_mail_dates")
    /\ Commit([db EXCEPT !.late = FALSE])

LinkContacts ==
    /\ At("contacts_m2m")
    /\ Commit([db EXCEPT !.linked = @ \/ half])

(* Mutant: the statements in the other order, fb only for what was hr.      *)
StageByStage ==
    /\ At("pre_rejection")
    /\ Commit(IF db.main # "rejected" THEN db
              ELSE [db EXCEPT !.pre = CASE "fb" \in db.events /\ @ = "hr" -> "fb"
                                        [] @ = "none" /\ "gespraech" \in db.events -> "hr"
                                        [] OTHER -> @])

(* The stage before a rejection, from the events; a status event of a       *)
(* higher stage overwrites what is there.                                   *)
BackfillPreRejection ==
    /\ At("pre_rejection")
    /\ Commit(IF db.main # "rejected" THEN db
              ELSE [db EXCEPT !.pre = IF "fb" \in db.events THEN "fb"
                                      ELSE IF @ = "none" /\ "gespraech" \in db.events THEN "hr"
                                      ELSE @])

InstallTrigger ==
    /\ At("audit_log")
    /\ Commit([db EXCEPT !.trigger = TRUE])

RepairRows(m, fault) ==
    /\ At(m)
    /\ Commit([db EXCEPT !.faults = @ \ {fault}])

BackfillPhones ==
    /\ At("contact_phones")
    /\ Commit([db EXCEPT !.phone = @ \/ db.telefon])

ExtractCv ==
    /\ At("cv_text")
    /\ Commit([db EXCEPT !.cv = @ \/ half])

BackfillCompanyProfiles ==
    /\ At("backfill_profiles")
    /\ Commit([db EXCEPT !.profile = TRUE])

(* An application without any event. *)
BackfillEvents ==
    /\ At("backfill_events")
    /\ Commit([db EXCEPT !.events = IF @ # {} THEN @
                                    ELSE {"bewerbung"} \cup (IF db.main = "fb" THEN {"fb"} ELSE {})])

(* Mutant: only for applications without any event.                         *)
GespraecheIfNoEvents ==
    /\ At("gespraeche")
    /\ Commit([db EXCEPT !.events = IF db.interview /\ @ = {} THEN {"gespraech"} ELSE @])

GespraecheToEvents ==
    /\ At("gespraeche")
    /\ Commit([db EXCEPT !.events = @ \cup (IF db.interview THEN {"gespraech"} ELSE {})])

(* Three migrations run once: they look for a marker file, commit, and      *)
(* write it.                                                                *)
Skip(m, marker) ==
    /\ At(m) /\ marker \in markers
    /\ Commit(db)

OnceCommit(m, marker, d) ==
    /\ At(m) /\ marker \notin markers /\ ~half
    /\ db' = d /\ half' = TRUE
    /\ UNCHANGED <<file, tables, markers, people, proc, step, restored, quiet>>

(* Mutant: nothing is written beside the database.                          *)
ForgetMark(m, marker) ==
    /\ At(m) /\ marker \notin markers /\ half
    /\ Proceed
    /\ UNCHANGED <<file, tables, db, markers, people>>

OnceMark(m, marker) ==
    /\ At(m) /\ marker \notin markers /\ half
    /\ markers' = markers \cup {marker}
    /\ Proceed
    /\ UNCHANGED <<file, tables, db, people>>

NoonTime == IF db.time = "null" THEN [db EXCEPT !.time = "noon", !.flag = TRUE] ELSE db

BackfillNoon ==
    \/ Skip("noon", "noon")
    \/ OnceCommit("noon", "noon", NoonTime)
    \/ OnceMark("noon", "noon")

Flagged == IF db.time # "null" /\ db.old THEN [db EXCEPT !.flag = TRUE] ELSE db

FlagPlaceholders ==
    \/ Skip("flag_placeholders", "flagged")
    \/ OnceCommit("flag_placeholders", "flagged", Flagged)
    \/ OnceMark("flag_placeholders", "flagged")

CleanupOrphans ==
    \/ Skip("cleanup_orphans", "cleaned")
    \/ OnceCommit("cleanup_orphans", "cleaned", [db EXCEPT !.faults = @ \ {"orphan"}])
    \/ OnceMark("cleanup_orphans", "cleaned")

RepairStep ==
    \/ RepairRows("audit_log_entity_type", "entity_type")
    \/ RepairRows("backfill_websites", "website")
    \/ RepairRows("message_url", "message_url")

(* The process dies between two statements. *)
Crash ==
    /\ proc = "init" /\ crashes < MaxCrashes
    /\ proc' = "down" /\ half' = FALSE
    /\ torn' = torn \cup (IF half /\ Now.name \in Behind THEN {Now.name} ELSE {})
    /\ crashes' = crashes + 1
    /\ UNCHANGED <<file, tables, db, markers, step, bundle, choices, restored, quiet, edits>>

-----------------------------------------------------------------------------
(* Between two starts. *)

Stop ==
    /\ proc = "up"
    /\ proc' = "down"
    /\ UNCHANGED <<file, tables, db, markers, people, step, half, restored, quiet>>

Edit(d, c) ==
    /\ proc = "up" /\ edits < MaxEdits
    /\ \A m \in Migrations : Has(m)
    /\ db' = d /\ choices' = c
    /\ quiet' = 0 /\ edits' = edits + 1
    /\ UNCHANGED <<file, tables, markers, proc, step, half, bundle, torn, restored, crashes>>

MoveTo(stage) ==
    /\ db.main # stage
    /\ Edit([db EXCEPT !.main = stage,
                       !.pre = IF stage = "rejected" THEN db.main ELSE @,
                       !.events = @ \cup (IF stage = "fb" THEN {"fb"} ELSE {})], choices)

DeleteEvent(e) ==
    /\ e \in db.events
    /\ Edit([db EXCEPT !.events = @ \ {e}], choices)

SetInterviewDate == ~db.interview /\ Edit([db EXCEPT !.interview = TRUE], choices)

EditTime(t) ==
    /\ db.time # t
    /\ Edit([db EXCEPT !.time = t, !.flag = FALSE],
            (choices \ {"cleared", "timed"}) \cup {IF t = "null" THEN "cleared" ELSE "timed"})

MoveMail == ~db.late /\ Edit([db EXCEPT !.late = TRUE], choices)

DeletePhone == db.phone /\ Edit([db EXCEPT !.phone = FALSE], choices)

ToggleLinkedin ==
    Edit([db EXCEPT !.enabled = ~@],
         IF db.enabled THEN choices \cup {"linkedin_off"} ELSE choices \ {"linkedin_off"})

TakeBackup ==
    /\ proc = "up" /\ ~restored
    /\ bundle' = [db |-> db, choices |-> choices, torn |-> torn]
    /\ UNCHANGED <<file, tables, db, markers, proc, step, half, choices, torn, restored,
                   quiet, edits, crashes>>

(* The database is replaced under the running process; marker files are not *)
(* part of a bundle, so what they stand for is not done again.              *)
Restore ==
    /\ proc = "up" /\ edits < MaxEdits
    /\ db' = bundle.db /\ choices' = bundle.choices
    /\ torn' = bundle.torn \cup
               (IF "noon" \in markers THEN {"noon"} ELSE {}) \cup
               (IF "flagged" \in markers THEN {"flag_placeholders"} ELSE {}) \cup
               (IF "cleaned" \in markers THEN {"cleanup_orphans"} ELSE {})
    /\ restored' = TRUE /\ quiet' = 0 /\ edits' = edits + 1
    /\ UNCHANGED <<file, tables, markers, proc, step, half, bundle, crashes>>

Next ==
    \/ Start \/ NothingThere \/ AlterFails \/ AddColumn
    \/ CreateFirstTables \/ CreateTables \/ ColumnsDone \/ DropStatus
    \/ EnableLinkedin \/ FixMailEventDates \/ LinkContacts \/ BackfillPreRejection
    \/ InstallTrigger \/ BackfillPhones \/ ExtractCv \/ RepairStep
    \/ BackfillCompanyProfiles \/ BackfillEvents \/ GespraecheToEvents
    \/ BackfillNoon \/ FlagPlaceholders \/ CleanupOrphans
    \/ Crash \/ Stop
    \/ \E s \in {"applied", "fb", "rejected"} : MoveTo(s)
    \/ \E e \in {"bewerbung", "gespraech", "fb"} : DeleteEvent(e)
    \/ SetInterviewDate
    \/ \E t \in {"null", "real"} : EditTime(t)
    \/ MoveMail \/ DeletePhone \/ ToggleLinkedin
    \/ TakeBackup \/ Restore

Spec == Init /\ [][Next]_vars

-----------------------------------------------------------------------------
(* Properties. *)

Complete == proc = "up" /\ ~restored

(* Whatever release the database came from, whatever was restored and       *)
(* wherever earlier starts were cut short: a process that is up finds every *)
(* column its models name (a column the ORM selects and the table lacks     *)
(* fails every query), except where a crash fell between the two ALTERs of  *)
(* linkedin_granular, which is never made good.                             *)
SchemaComplete ==
    Complete => \A m \in Migrations : Has(m) \/ m \in torn

(* After a start that nobody has interfered with, no row is left in a form  *)
(* that only earlier releases read, unless the migration concerned was cut  *)
(* in half or the rows came back later, by a restore.                       *)
LegacyRowsConverted ==
    Complete /\ quiet >= 1 =>
        /\ db.interview => "gespraech" \in db.events
        /\ db.telefon => db.phone
        /\ db.linked \/ "contacts_m2m" \in torn
        /\ db.cv \/ "cv_text" \in torn
        /\ db.profile /\ db.events # {} /\ ~db.late
        /\ db.time = "null" => "cleared" \in choices \/ "noon" \in torn
        /\ db.time = "noon" => db.flag \/ "flag_placeholders" \in torn
        /\ db.faults \subseteq (IF "cleanup_orphans" \in torn THEN {"orphan"} ELSE {})

(* "silently overwrite that choice" and "never fights a user's later,       *)
(* deliberate toggle-off": no start changes a time a person cleared or set, *)
(* nor switches LinkedIn on again, not even after a crash between a commit  *)
(* and its marker.                                                          *)
ChoicesKept ==
    /\ "cleared" \in choices => db.time = "null"
    /\ "timed" \in choices => db.time = "real" /\ ~db.flag
    /\ "linkedin_off" \in choices => ~db.enabled

(* Two complete starts in a row settle the database: a third changes        *)
(* nothing.  (One does not: the stage before a rejection is derived from    *)
(* events that a later migration of the same start creates.)                *)
SettlesInTwoStarts == [][proc = "init" /\ quiet >= 2 => db' = db]_vars
=============================================================================
