---------------------------- MODULE Startup_proofs ----------------------------
(***************************************************************************)
(* The database after any number of starts, crashes, edits and restored    *)
(* backups, whatever release it came from and however many migrations it   *)
(* lacks.                                                                  *)
(*                                                                         *)
(* Nothing records which migrations have run, so the invariant says what   *)
(* each one has left behind (Post) once a start has been through it since  *)
(* anybody last changed something (Did), and what a second start settles   *)
(* (Settled, Twice).  Sound is what any database satisfies at any time,    *)
(* also one in a backup; MarkersTrue and HalfDone tie the marker files to  *)
(* the rows they stand for, before and after the file is written.          *)
(***************************************************************************)
EXTENDS Startup, TLAPS

-----------------------------------------------------------------------------
(* Where a start is.                                                        *)

(* It has been through m.                                                   *)
Past(m) == proc = "init" /\ \E i \in 1..(step - 1) : InitDb[i].name = m

(* It has gone into m and not been through it.                              *)
HalfAt(m) == proc = "init" /\ half /\ Now.name = m
Excused == IF proc = "init" /\ half THEN {Now.name} ELSE {}

(* Since anybody changed something, some start has been through m; and an   *)
(* earlier one had been completed.                                          *)
Did(m)   == quiet >= 1 \/ Past(m)
Twice(m) == quiet >= 2 \/ (quiet >= 1 /\ Past(m))

(* The columns of m are there; the second of linkedin_granular may be       *)
(* missing for good.                                                        *)
Full(d, m) == IF m = "linkedin_granular" THEN d.added[m] >= 1 ELSE d.added[m] = Columns[m]

-----------------------------------------------------------------------------
(* The inductive invariant. *)

(* What a database satisfies at any time, t its unfinished migrations and e *)
(* the one under way: rows that are filled only right after an ALTER.       *)
ColumnsSound(d, t, e) ==
    /\ \A m \in Migrations : d.added[m] <= Columns[m]
    /\ d.added["linkedin_granular"] = 1 => "linkedin_granular" \in t \cup e
    /\ d.added["contacts_m2m"] = 1 => d.linked \/ "contacts_m2m" \in t \cup e
    /\ d.added["cv_text"] = 1 => d.cv \/ "cv_text" \in t \cup e

ChoicesSound(d, c) ==
    /\ "cleared" \in c => d.time = "null"
    /\ "timed" \in c => d.time = "real" /\ ~d.flag
    /\ "linkedin_off" \in c => ~d.enabled /\ d.added["linkedin_granular"] = 2
    /\ d.time = "noon" => d.flag \/ d.old

Sound(d, t, c, e) == ColumnsSound(d, t, e) /\ ChoicesSound(d, c)

(* What each migration that runs once leaves behind, until a restore.       *)
NoonDone    == db.time = "null" => "cleared" \in choices \/ "noon" \in torn
FlagsDone   == db.time = "noon" => db.flag \/ "flag_placeholders" \in torn
OrphansDone == "orphan" \in db.faults => "cleanup_orphans" \in torn

MarkersTrue ==
    /\ "noon" \in markers => NoonDone
    /\ "flagged" \in markers => FlagsDone
    /\ "cleaned" \in markers => OrphansDone

(* What holds between a commit and its marker, and between the ALTERs of    *)
(* linkedin_granular and its UPDATE.                                        *)
HalfDone ==
    /\ HalfAt("noon") => NoonDone
    /\ HalfAt("flag_placeholders") => FlagsDone
    /\ HalfAt("cleanup_orphans") => OrphansDone
    /\ HalfAt("linkedin_granular") => "linkedin_off" \notin choices

AllMarkers == {"noon", "flagged", "cleaned"}

(* Nobody can decide anything before a start was completed.                 *)
MarkersFirst ==
    proc = "up" \/ choices # {} \/ bundle.choices # {} => markers = AllMarkers

TablesFirst ==
    /\ ~tables => db = FreshDb
    /\ ~file => ~tables
    /\ proc = "up" \/ Did("create_all") => tables

(* What m has seen to when a start has been through it.                     *)
Post(m) ==
    /\ Full(db, m)
    /\ m = "status_fields" => db.legacy = "none"
    /\ m = "fix_mail_dates" => ~db.late
    /\ m = "audit_log_entity_type" => "entity_type" \notin db.faults
    /\ m = "contact_phones" => (db.telefon => db.phone)
    /\ m = "backfill_profiles" => db.profile
    /\ m = "backfill_websites" => "website" \notin db.faults
    /\ m = "backfill_events" => db.events # {}
    /\ m = "gespraeche" => (db.interview => "gespraech" \in db.events)
    /\ m = "noon" => "noon" \in markers
    /\ m = "flag_placeholders" => "flagged" \in markers
    /\ m = "message_url" => "message_url" \notin db.faults
    /\ m = "cleanup_orphans" => "cleaned" \in markers

(* Two migrations come before what they read: the trigger before its table, *)
(* the stage of a rejection before the events.                              *)
Settled(m) ==
    /\ m = "audit_log" => db.trigger
    /\ m = "pre_rejection" /\ db.main = "rejected" =>
          /\ "fb" \in db.events => db.pre = "fb"
          /\ db.pre = "none" => "gespraech" \notin db.events

Done ==
    /\ \A m \in Migrations : Did(m) => Post(m)
    /\ \A m \in Migrations : Twice(m) => Settled(m)
    /\ proc = "up" /\ ~restored => \A m \in Migrations : Full(db, m)
    /\ proc = "init" /\ quiet >= 1 => ~half

IInv ==
    /\ TypeOK
    /\ Sound(db, torn, choices, Excused)
    /\ Sound(bundle.db, bundle.torn, bundle.choices, {})
    /\ MarkersTrue /\ HalfDone /\ MarkersFirst /\ TablesFirst
    /\ Done

LEMMA Listed ==
  /\ DOMAIN InitDb = 1..53 /\ Len(InitDb) = 53
  /\ \A i, j \in 1..53 : InitDb[i].name = InitDb[j].name => i = j
  /\ \A i \in 1..53 : InitDb[i].columns \in 0..19
BY SMTT(60) DEF InitDb, Adds, AddsBlindly, Only,
     StatusFields, IcloudColumns, CallsColumn, GoogleEmail, GoogleContacts,
     SettingsFiles, SettingsGoogleContacts, SettingsLinkedinContacts,
     LinkedinGranular, StepFixMailEventDates, ContactsM2m, Attachments,
     EventExternalId, EventDatumZeit, EventPlaceholder, EventExternalUrl,
     EventMailDirection, LinkedinJobId, PreRejectionStatus, AuditLog,
     AuditLogEntities, AuditLogEntityType, ContactCompanyProfile,
     ContactVorname, CompanyLogo, CompanyParent, AiAssessment, ApplicationOrt,
     Salary, AiScoring, Bewerberzahl, ZielfirmaBekannt, StepCreateTables,
     UserIdColumns, ContactPhones, UserProfile, UserHomeLocation,
     UserSalaryDefaults, OrtCoords, DriveDistance, CvTextCache,
     LinkedinProfileCache, UiLanguage, CompanyProfiles,
     StepBackfillCompanyProfiles, StepBackfillWebsites, StepBackfillEvents,
     StepGespraecheToEvents, StepNoonBackfill, StepFlagPlaceholders,
     StepMessageUrl, BackupRetention, StepCleanupOrphans

(* Some of them are looked up by name.                                      *)
LEMMA Placed ==
  /\ InitDb[1].name = "status_fields" /\ InitDb[1].columns = 7
  /\ InitDb[9].name = "linkedin_granular" /\ InitDb[9].columns = 2
  /\ InitDb[10].name = "fix_mail_dates"
  /\ InitDb[11].name = "contacts_m2m" /\ InitDb[11].columns = 1
  /\ InitDb[19].name = "pre_rejection" /\ InitDb[20].name = "audit_log"
  /\ InitDb[22].name = "audit_log_entity_type"
  /\ InitDb[33].name = "create_all" /\ InitDb[33].columns = 0
  /\ InitDb[35].name = "contact_phones"
  /\ InitDb[41].name = "cv_text" /\ InitDb[41].columns = 1
  /\ InitDb[45].name = "backfill_profiles" /\ InitDb[46].name = "backfill_websites"
  /\ InitDb[47].name = "backfill_events" /\ InitDb[48].name = "gespraeche"
  /\ InitDb[49].name = "noon" /\ InitDb[50].name = "flag_placeholders"
  /\ InitDb[51].name = "message_url" /\ InitDb[53].name = "cleanup_orphans"
BY DEF InitDb, Adds, AddsBlindly, Only, StatusFields, LinkedinGranular,
       StepFixMailEventDates, ContactsM2m, PreRejectionStatus, AuditLog,
       AuditLogEntityType, StepCreateTables, ContactPhones, CvTextCache,
       StepBackfillCompanyProfiles, StepBackfillWebsites, StepBackfillEvents,
       StepGespraecheToEvents, StepNoonBackfill, StepFlagPlaceholders, StepMessageUrl,
       StepCleanupOrphans

(* Columns gives the number that stands beside the name.                    *)
LEMMA ColumnsAsListed ==
  /\ \A i \in 1..53 : InitDb[i].name \in Migrations
                      /\ Columns[InitDb[i].name] = InitDb[i].columns
  /\ \A m \in Migrations : \E i \in 1..53 : m = InitDb[i].name
  /\ Columns \in [Migrations -> 0..19]
<1>1. /\ \A i \in 1..53 : InitDb[i].name \in Migrations
      /\ \A m \in Migrations : \E i \in 1..53 : m = InitDb[i].name
  BY Listed DEF Migrations
<1>2. ASSUME NEW i \in 1..53 PROVE Columns[InitDb[i].name] = InitDb[i].columns
  <2> DEFINE All == {InitDb[j] : j \in 1..Len(InitDb)}
  <2>1. \A x \in All : x.name = InitDb[i].name => x = InitDb[i]
    BY Listed
  <2>2. InitDb[i] \in All
    BY Listed
  <2>3. Columns[InitDb[i].name] = (CHOOSE x \in All : x.name = InitDb[i].name).columns
    BY <1>1 DEF Columns
  <2> QED BY <2>1, <2>2, <2>3
<1>3. Columns \in [Migrations -> 0..19]
  <2>1. ASSUME NEW m \in Migrations PROVE Columns[m] \in 0..19
    <3>1. PICK i \in 1..53 : m = InitDb[i].name
      BY <1>1
    <3>2. Columns[m] = InitDb[i].columns
      BY <1>2, <3>1
    <3> QED BY <3>2, Listed
  <2>2. Columns = [m \in Migrations |-> Columns[m]]
    BY DEF Columns
  <2> QED BY <2>1, <2>2
<1> QED BY <1>1, <1>2, <1>3

(* The migrations the rest of the proof names, and their columns.           *)
LEMMA Known ==
  /\ {"status_fields", "linkedin_granular", "fix_mail_dates", "contacts_m2m",
      "pre_rejection", "audit_log", "audit_log_entity_type", "create_all",
      "contact_phones", "cv_text", "backfill_profiles", "backfill_websites",
      "backfill_events", "gespraeche", "noon", "flag_placeholders", "message_url",
      "cleanup_orphans"} \subseteq Migrations
  /\ Columns["status_fields"] = 7 /\ Columns["linkedin_granular"] = 2
  /\ Columns["contacts_m2m"] = 1 /\ Columns["cv_text"] = 1 /\ Columns["create_all"] = 0
  /\ \A m \in Migrations : Columns[m] \in Nat /\ Columns[m] <= 19
BY Placed, ColumnsAsListed

(* The migration a start is at is one of the list.                          *)
LEMMA NowListed ==
  ASSUME TypeOK
  PROVE  /\ step \in 1..53 /\ Now.name = InitDb[step].name /\ Now.name \in Migrations
         /\ Columns[Now.name] = Now.columns
BY Listed, ColumnsAsListed DEF TypeOK, Now

(* What it means for the history of starts that a migration is left behind. *)
LEMMA Proceeding ==
  ASSUME TypeOK, proc = "init", Proceed
  PROVE  /\ Excused' = {} /\ \A m \in Migrations : ~HalfAt(m)'
         /\ proc' \in {"init", "up"} /\ step' \in 1..53 /\ quiet' \in 0..2
         /\ quiet' >= quiet
         /\ \A m \in Migrations : /\ Did(m)' => Did(m) \/ m = Now.name
                                  /\ Twice(m)' => quiet >= 1 /\ (Twice(m) \/ m = Now.name)
         /\ proc' = "up" => quiet' >= 1
<1>0. /\ step \in 1..53 /\ Len(InitDb) = 53 /\ quiet \in 0..2
      /\ \A m \in Migrations : \E i \in 1..53 : m = InitDb[i].name
  BY Listed, ColumnsAsListed DEF TypeOK
<1>1. half' = FALSE
  BY DEF Proceed
<1>2. Excused' = {} /\ \A m \in Migrations : ~HalfAt(m)'
  BY <1>1 DEF Excused, HalfAt
<1>3. CASE step < 53
  <2>1. step' = step + 1 /\ UNCHANGED <<proc, restored, quiet>>
    BY <1>0, <1>3 DEF Proceed
  <2>2. \A m : Past(m)' => Past(m) \/ m = Now.name
    BY <1>0, <2>1 DEF Past, Now
  <2>3. proc' = "init" /\ step' \in 1..53 /\ quiet' \in 0..2 /\ quiet' >= quiet
    BY <1>0, <1>3, <2>1
  <2>5. \A m \in Migrations : /\ Did(m)' => Did(m) \/ m = Now.name
                              /\ Twice(m)' => quiet >= 1 /\ (Twice(m) \/ m = Now.name)
    BY <1>0, <2>1, <2>2 DEF Did, Twice
  <2> QED BY <1>2, <2>1, <2>3, <2>5
<1>4. CASE step = 53
  <2>1. step' = 1 /\ proc' = "up"
    BY <1>0, <1>4 DEF Proceed
  <2>3. quiet' = IF quiet < 2 THEN quiet + 1 ELSE 2
    BY <1>0, <1>4 DEF Proceed
  <2>4. quiet' \in 0..2 /\ quiet' >= 1 /\ quiet' >= quiet /\ (quiet' >= 2 => quiet >= 1)
    BY <1>0, <2>3
  <2>5. \A m \in Migrations : Past(m) \/ m = Now.name
    BY <1>0, <1>4 DEF Past, Now
  <2>6. \A m : ~Past(m)'
    BY <2>1 DEF Past
  <2>7. \A m \in Migrations : /\ Did(m)' => Did(m) \/ m = Now.name
                              /\ Twice(m)' => quiet >= 1 /\ (Twice(m) \/ m = Now.name)
    BY <2>4, <2>5, <2>6 DEF Did, Twice
  <2>8. step' \in 1..53
    BY <2>1
  <2> QED BY <1>2, <2>1, <2>4, <2>7, <2>8
<1> QED BY <1>0, <1>3, <1>4

(* Going on to the next migration leaves flags flags.                       *)
LEMMA ProceedingFlags ==
  ASSUME TypeOK, Proceed
  PROVE  half' \in BOOLEAN /\ half' = FALSE /\ restored' \in BOOLEAN
<1>1. half' = FALSE
  BY DEF Proceed
<1>2. restored' \in BOOLEAN
  <2>1. restored \in BOOLEAN
    BY DEF TypeOK
  <2>2. restored' = restored \/ restored' = FALSE
    BY DEF Proceed
  <2> QED BY <2>1, <2>2
<1> QED BY <1>1, <1>2

-----------------------------------------------------------------------------
(* Databases. *)

Fields == {"added", "trigger", "main", "legacy", "pre", "events", "interview", "linked",
           "enabled", "cv", "time", "flag", "old", "late", "telefon", "phone", "profile",
           "faults"}

(* The two agree on all but the fields F.                                   *)
Same(d, e, F) == \A f \in Fields \ F : e[f] = d[f]

(* What an assignment to one field leaves behind.                           *)
LEMMA Assigned ==
  ASSUME NEW d \in Database, NEW v
  PROVE  /\ Same(d, [d EXCEPT !.late = v], {"late"})
         /\ Same(d, [d EXCEPT !.linked = v], {"linked"})
         /\ Same(d, [d EXCEPT !.events = v], {"events"})
         /\ Same(d, [d EXCEPT !.pre = v], {"pre"})
         /\ Same(d, [d EXCEPT !.trigger = v], {"trigger"})
         /\ Same(d, [d EXCEPT !.faults = v], {"faults"})
         /\ Same(d, [d EXCEPT !.phone = v], {"phone"})
         /\ Same(d, [d EXCEPT !.cv = v], {"cv"})
         /\ Same(d, [d EXCEPT !.profile = v], {"profile"})
         /\ Same(d, [d EXCEPT !.enabled = v], {"enabled"})
         /\ Same(d, [d EXCEPT !.flag = v], {"flag"})
         /\ [d EXCEPT !.late = v].late = v /\ [d EXCEPT !.linked = v].linked = v
         /\ [d EXCEPT !.events = v].events = v /\ [d EXCEPT !.pre = v].pre = v
         /\ [d EXCEPT !.trigger = v].trigger = v /\ [d EXCEPT !.faults = v].faults = v
         /\ [d EXCEPT !.phone = v].phone = v /\ [d EXCEPT !.cv = v].cv = v
         /\ [d EXCEPT !.profile = v].profile = v /\ [d EXCEPT !.enabled = v].enabled = v
         /\ [d EXCEPT !.flag = v].flag = v
BY DEF Same, Fields, Database

(* The types that matter.                                                   *)
LEMMA AddedType ==
  ASSUME NEW d \in Database, NEW m \in Migrations
  PROVE  d.added[m] \in Nat
BY DEF Database

(* A migration that has nothing to add has all its columns.                 *)
LEMMA Through ==
  ASSUME TypeOK, ColumnsSound(db, torn, Excused), Now.name # "status_fields", ~Lacks
  PROVE Full(db, Now.name)
<1> DEFINE n == db.added[Now.name]
<1>1. Now.name \in Migrations /\ Columns[Now.name] = Now.columns /\ n \in Nat
      /\ Columns[Now.name] \in Nat
  BY NowListed, AddedType, Known DEF TypeOK
<1>2. n <= Columns[Now.name]
  BY <1>1 DEF ColumnsSound
<1>3. CASE Now.name = "linkedin_granular"
  BY <1>1, <1>3 DEF Lacks, Full
<1>4. CASE Now.name # "linkedin_granular"
  <2>1. ~(n < Now.columns)
    BY <1>4 DEF Lacks
  <2> HIDE DEF n
  <2>2. n = Columns[Now.name]
    BY <1>1, <1>2, <2>1
  <2> QED BY <1>4, <2>2 DEF Full, n
<1> QED BY <1>3, <1>4

-----------------------------------------------------------------------------
(* The steps of a start. *)

(* What a migration owes to the next one.                                   *)
LEMMA Committed ==
  ASSUME IInv, proc = "init", Proceed, UNCHANGED people, UNCHANGED file,
         tables' \in BOOLEAN, db' \in Database,
         markers \subseteq markers', markers' \subseteq AllMarkers,
         Sound(db', torn, choices, {}), MarkersTrue',
         ~tables' => db' = FreshDb, ~file => ~tables',
         tables \/ Now.name = "create_all" => tables',
         \A m \in Migrations : Post(m) \/ m = Now.name => Post(m)',
         quiet >= 1 => \A m \in Migrations : Settled(m) \/ m = Now.name => Settled(m)'
  PROVE  IInv'
<1>1. TypeOK
  BY DEF IInv
<1>2. /\ Excused' = {} /\ \A m \in Migrations : ~HalfAt(m)'
      /\ proc' \in {"init", "up"} /\ step' \in 1..53 /\ quiet' \in 0..2
      /\ \A m \in Migrations :
            /\ Did(m)' => Did(m) \/ m = Now.name
            /\ Twice(m)' => quiet >= 1 /\ (Twice(m) \/ m = Now.name)
      /\ proc' = "up" => quiet' >= 1
  BY <1>1, Proceeding
<1>3. half' \in BOOLEAN /\ half' = FALSE /\ restored' \in BOOLEAN
  BY <1>1, ProceedingFlags
<1>4. TypeOK'
  <2>1. Len(InitDb) = 53
    BY Listed
  <2>2. \A m \in Migrations : db'.added[m] <= Columns[m]
    BY DEF Sound, ColumnsSound
  <2>3. proc' \in {"down", "init", "up", "failed"} /\ step' \in 1..Len(InitDb) /\ quiet' \in 0..2
    BY <1>2, <2>1
  <2>4. file' \in BOOLEAN /\ bundle' \in Bundle /\ choices' \subseteq Choices
        /\ torn' \subseteq Migrations /\ edits' \in 0..MaxEdits /\ crashes' \in 0..MaxCrashes
    BY <1>1 DEF TypeOK, people
  <2>5. markers' \subseteq {"noon", "flagged", "cleaned"}
    BY DEF AllMarkers
  <2> QED BY <1>3, <2>2, <2>3, <2>4, <2>5 DEF TypeOK
<1>5. \A m \in Migrations : Did(m)' => Post(m)'
  BY <1>2 DEF IInv, Done
<1>6. Did("noon")' /\ Did("flag_placeholders")' /\ Did("cleanup_orphans")'
        => markers' = AllMarkers
  BY <1>5, Known DEF Post, AllMarkers
<1>7. proc' = "up" => \A m : Did(m)'
  BY <1>2 DEF Did
<1>8. MarkersFirst'
  BY <1>6, <1>7 DEF IInv, MarkersFirst, people
<1>9. TablesFirst'
  BY <1>2, <1>7, Known DEF IInv, TablesFirst
<1>10. Done'
  <2>1. \A m \in Migrations : Twice(m)' => Settled(m)'
    BY <1>2 DEF IInv, Done
  <2>2. proc' = "up" => \A m \in Migrations : Full(db', m)
    BY <1>5, <1>7 DEF Post
  <2>3. ~half'
    BY <1>3
  <2> QED BY <1>5, <2>1, <2>2, <2>3 DEF Done
<1>11. HalfDone'
  BY <1>2, Known DEF HalfDone
<1>12. Sound(db, torn, choices, Excused)' /\ Sound(bundle.db, bundle.torn, bundle.choices, {})'
  BY <1>2 DEF IInv, people
<1> QED BY <1>4, <1>8, <1>9, <1>10, <1>11, <1>12 DEF IInv

(* The migrations that touch neither columns nor decisions nor what the     *)
(* markers stand for.                                                       *)
Harmless == {"late", "pre", "trigger", "faults", "phone", "profile", "events"}

LEMMA Minor ==
  ASSUME IInv, NEW m, At(m), m \notin Behind, m # "status_fields",
         NEW d \in Database, Commit(d), Same(db, d, Harmless), d.faults \subseteq db.faults,
         \A n \in Migrations : (Post(n) \/ n = m) /\ Full(d, n) => Post(n)',
         quiet >= 1 => \A n \in Migrations : Settled(n) \/ n = m => Settled(n)'
  PROVE  IInv'
<1>1. /\ proc = "init" /\ tables /\ Now.name = m /\ ~Lacks /\ db' = d /\ Proceed
      /\ UNCHANGED <<file, tables, markers>> /\ UNCHANGED people
  BY DEF At, Commit
<1>2. m \in Migrations /\ Full(db, m)
  BY <1>1, NowListed, Through DEF IInv, Sound
<1>3. d.added = db.added /\ d.linked = db.linked /\ d.cv = db.cv /\ d.time = db.time
      /\ d.flag = db.flag /\ d.old = db.old /\ d.enabled = db.enabled
  BY DEF Same, Fields, Harmless
<1>4. \A n \in Migrations : Full(db, n) => Full(d, n)
  BY <1>3 DEF Full
<1>5. Sound(d, torn, choices, {})
  <2>1. \A n \in Behind : n \notin Excused
    BY <1>1 DEF Excused
  <2> QED BY <1>3, <2>1 DEF IInv, Sound, ColumnsSound, ChoicesSound, Behind
<1>6. MarkersTrue'
  BY <1>1, <1>3 DEF IInv, MarkersTrue, NoonDone, FlagsDone, OrphansDone, people
<1>7. \A n \in Migrations : Post(n) \/ n = Now.name => Post(n)'
  BY <1>1, <1>2, <1>4 DEF Post
<1>8. tables' \in BOOLEAN /\ markers \subseteq markers' /\ markers' \subseteq AllMarkers
  BY <1>1 DEF IInv, TypeOK, AllMarkers
<1>9. file' = file /\ tables' /\ (~file => ~tables')
  BY <1>1 DEF IInv, TablesFirst
<1>10. Sound(db', torn, choices, {}) /\ db' \in Database
  BY <1>1, <1>5
<1>11. quiet >= 1 => \A n \in Migrations : Settled(n) \/ n = Now.name => Settled(n)'
  BY <1>1
<1> QED BY <1>1, <1>6, <1>7, <1>8, <1>9, <1>10, <1>11, Committed

(* The migrations of that kind.                                             *)
LEMMA MinorSteps ==
  ASSUME IInv
  PROVE  /\ FixMailEventDates => IInv'
         /\ InstallTrigger => IInv'
         /\ BackfillPhones => IInv'
         /\ BackfillCompanyProfiles => IInv'
         /\ BackfillEvents => IInv'
         /\ GespraecheToEvents => IInv'
         /\ BackfillPreRejection => IInv'
<1> USE DEF Harmless, Behind
<1>0. db \in Database
  BY DEF IInv, TypeOK
<1>1. CASE FixMailEventDates
  <2> DEFINE d == [db EXCEPT !.late = FALSE]
  <2>1. At("fix_mail_dates") /\ Commit(d) /\ db' = d
    BY <1>1 DEF FixMailEventDates, Commit
  <2>2. d \in Database
    BY <1>0 DEF Database
  <2>3. Same(db, d, {"late"}) /\ d.late = FALSE
    BY <1>0, Assigned
  <2> HIDE DEF d
  <2>4. Same(db, d, Harmless) /\ d.faults \subseteq db.faults
    BY <2>3 DEF Same, Fields
  <2>5. \A n \in Migrations : /\ Post(n) /\ Full(d, n) => Post(n)'
                              /\ Settled(n) => Settled(n)'
    BY <2>1, <2>3 DEF Post, Same, Fields, Settled, Commit
  <2>6. Full(d, "fix_mail_dates") => Post("fix_mail_dates")' 
    BY <2>1, <2>3 DEF Post
  <2>7. Settled("fix_mail_dates")'
    BY DEF Settled
  <2> QED BY <2>1, <2>2, <2>4, <2>5, <2>6, <2>7, Minor
<1>2. CASE InstallTrigger
  <2> DEFINE d == [db EXCEPT !.trigger = TRUE]
  <2>1. At("audit_log") /\ Commit(d) /\ db' = d
    BY <1>2 DEF InstallTrigger, Commit
  <2>2. d \in Database
    BY <1>0 DEF Database
  <2>3. Same(db, d, {"trigger"}) /\ d.trigger = TRUE
    BY <1>0, Assigned
  <2> HIDE DEF d
  <2>4. Same(db, d, Harmless) /\ d.faults \subseteq db.faults
    BY <2>3 DEF Same, Fields
  <2>5. \A n \in Migrations : /\ Post(n) /\ Full(d, n) => Post(n)'
                              /\ Settled(n) => Settled(n)'
    BY <2>1, <2>3 DEF Post, Same, Fields, Settled, Commit
  <2>6. Full(d, "audit_log") => Post("audit_log")'
    BY <2>1, <2>3 DEF Post, Same, Fields
  <2>7. Settled("audit_log")'
    BY <2>1, <2>3 DEF Settled
  <2> QED BY <2>1, <2>2, <2>4, <2>5, <2>6, <2>7, Minor
<1>3. CASE BackfillCompanyProfiles
  <2> DEFINE d == [db EXCEPT !.profile = TRUE]
  <2>1. At("backfill_profiles") /\ Commit(d) /\ db' = d
    BY <1>3 DEF BackfillCompanyProfiles, Commit
  <2>2. d \in Database
    BY <1>0 DEF Database
  <2>3. Same(db, d, {"profile"}) /\ d.profile = TRUE
    BY <1>0, Assigned
  <2> HIDE DEF d
  <2>4. Same(db, d, Harmless) /\ d.faults \subseteq db.faults
    BY <2>3 DEF Same, Fields
  <2>5. \A n \in Migrations : /\ Post(n) /\ Full(d, n) => Post(n)'
                              /\ Settled(n) => Settled(n)'
    BY <2>1, <2>3 DEF Post, Same, Fields, Settled, Commit
  <2>6. Full(d, "backfill_profiles") => Post("backfill_profiles")'
    BY <2>1, <2>3 DEF Post, Same, Fields
  <2>7. Settled("backfill_profiles")'
    BY <2>1, <2>3 DEF Settled
  <2> QED BY <2>1, <2>2, <2>4, <2>5, <2>6, <2>7, Minor
<1>4. CASE BackfillPhones
  <2> DEFINE v == db.phone \/ db.telefon
             d == [db EXCEPT !.phone = v]
  <2>1. At("contact_phones") /\ Commit(d) /\ db' = d
    BY <1>4 DEF BackfillPhones, Commit
  <2>2. d \in Database
    BY <1>0 DEF Database
  <2>3. v \in BOOLEAN /\ (db.telefon => v) /\ (db.phone => v)
    OBVIOUS
  <2> HIDE DEF v
  <2>4. Same(db, d, {"phone"}) /\ d.phone = v
    BY <1>0, Assigned
  <2> HIDE DEF d
  <2>5. Same(db, d, Harmless) /\ d.faults \subseteq db.faults
    BY <2>4 DEF Same, Fields
  <2>6. d.telefon = db.telefon /\ (d.telefon => d.phone)
    <3>1. d.telefon = db.telefon
      BY <2>4 DEF Same, Fields
    <3> QED BY <2>3, <2>4, <3>1
  <2>7. \A n \in Migrations : /\ Post(n) /\ Full(d, n) => Post(n)'
                              /\ Settled(n) => Settled(n)'
    BY <2>1, <2>4, <2>6 DEF Post, Same, Fields, Settled, Commit
  <2>8. Full(d, "contact_phones") => Post("contact_phones")'
    BY <2>1, <2>6 DEF Post
  <2>9. Settled("contact_phones")'
    BY DEF Settled
  <2> QED BY <2>1, <2>2, <2>5, <2>7, <2>8, <2>9, Minor
<1>5. CASE BackfillEvents
  <2> DEFINE v == IF db.events # {} THEN db.events
                  ELSE {"bewerbung"} \cup (IF db.main = "fb" THEN {"fb"} ELSE {})
             d == [db EXCEPT !.events = v]
  <2>1. At("backfill_events") /\ Commit(d) /\ db' = d
    BY <1>5 DEF BackfillEvents, Commit
  <2>2. d \in Database
    BY <1>0 DEF Database
  <2>3. Same(db, d, {"events"}) /\ d.events = v
    <3> HIDE DEF v
    <3> QED BY <1>0, Assigned
  <2> HIDE DEF d
  <2>4. Same(db, d, Harmless) /\ d.faults \subseteq db.faults
    BY <2>3 DEF Same, Fields
  <2>5. /\ \A n \in Migrations : Post(n) /\ Full(d, n) => Post(n)'
        /\ Full(d, "backfill_events") => Post("backfill_events")'
    BY <2>1, <2>3 DEF Post, Same, Fields, Commit
  <2>6. ASSUME quiet >= 1, NEW n \in Migrations, Settled(n) \/ n = "backfill_events"
        PROVE  Settled(n)'
    <3>1. Post("backfill_events")
      BY <2>6, Known DEF IInv, Done, Did
    <3>2. d.events = db.events
      BY <2>3, <3>1 DEF Post
    <3> QED BY <2>1, <2>3, <2>6, <3>2 DEF Settled, Same, Fields
  <2> QED BY <2>1, <2>2, <2>4, <2>5, <2>6, Minor
<1>6. CASE GespraecheToEvents
  <2> DEFINE v == db.events \cup (IF db.interview THEN {"gespraech"} ELSE {})
             d == [db EXCEPT !.events = v]
  <2>1. At("gespraeche") /\ Commit(d) /\ db' = d
    BY <1>6 DEF GespraecheToEvents, Commit
  <2>2. d \in Database
    BY <1>0 DEF Database
  <2>3. Same(db, d, {"events"}) /\ d.events = v
    <3> HIDE DEF v
    <3> QED BY <1>0, Assigned
  <2> HIDE DEF d
  <2>4. Same(db, d, Harmless) /\ d.faults \subseteq db.faults
    BY <2>3 DEF Same, Fields
  <2>5. /\ \A n \in Migrations : Post(n) /\ Full(d, n) => Post(n)'
        /\ Full(d, "gespraeche") => Post("gespraeche")'
    BY <2>1, <2>3 DEF Post, Same, Fields, Commit
  <2>6. ASSUME quiet >= 1, NEW n \in Migrations, Settled(n) \/ n = "gespraeche"
        PROVE  Settled(n)'
    <3>1. Post("gespraeche")
      BY <2>6, Known DEF IInv, Done, Did
    <3>2. d.events = db.events
      BY <2>3, <3>1 DEF Post
    <3> QED BY <2>1, <2>3, <2>6, <3>2 DEF Settled, Same, Fields
  <2> QED BY <2>1, <2>2, <2>4, <2>5, <2>6, Minor
<1>7. CASE BackfillPreRejection
  <2> DEFINE v == IF "fb" \in db.events THEN "fb"
                  ELSE IF db.pre = "none" /\ "gespraech" \in db.events THEN "hr"
                  ELSE db.pre
             e == [db EXCEPT !.pre = v]
             d == IF db.main # "rejected" THEN db ELSE e
  <2>1. At("pre_rejection") /\ Commit(d) /\ db' = d
    BY <1>7 DEF BackfillPreRejection, Commit
  <2>2. e \in Database
    BY <1>0 DEF Database
  <2>0. /\ "fb" \in db.events => v = "fb"
        /\ v = "none" => "gespraech" \notin db.events
    OBVIOUS
  <2> HIDE DEF v
  <2>3. Same(db, e, {"pre"}) /\ e.pre = v
    BY <1>0, Assigned
  <2> HIDE DEF e
  <2>4. d \in Database /\ Same(db, d, {"pre"}) /\ (db.main = "rejected" => d.pre = v)
    BY <1>0, <2>2, <2>3 DEF Same
  <2> HIDE DEF d
  <2>5. Same(db, d, Harmless) /\ d.faults \subseteq db.faults
    BY <2>4 DEF Same, Fields
  <2>6. /\ \A n \in Migrations : Post(n) /\ Full(d, n) => Post(n)'
        /\ Full(d, "pre_rejection") => Post("pre_rejection")'
    BY <2>1, <2>4 DEF Post, Same, Fields, Commit
  <2>7. d.main = db.main /\ d.events = db.events /\ d.trigger = db.trigger
    BY <2>4 DEF Same, Fields
  <2>8. \A n \in Migrations : Settled(n) \/ n = "pre_rejection" => Settled(n)'
    BY <2>1, <2>0, <2>4, <2>7 DEF Settled
  <2> QED BY <2>1, <2>4, <2>5, <2>6, <2>8, Minor
<1> QED BY <1>1, <1>2, <1>3, <1>4, <1>5, <1>6, <1>7

(* The migrations that run once, with their marker files.                   *)
RunsOnce(m, k) ==
    \/ m = "noon" /\ k = "noon"
    \/ m = "flag_placeholders" /\ k = "flagged"
    \/ m = "cleanup_orphans" /\ k = "cleaned"

(* Steps that leave every row alone.                                        *)
LEMMA IdleSteps ==
  ASSUME IInv
  PROVE  /\ ColumnsDone => IInv'
         /\ \A m, k : RunsOnce(m, k) /\ Skip(m, k) => IInv'
<1>0. /\ db \in Database /\ db.faults \subseteq db.faults
      /\ Same(db, db, Harmless)
  BY DEF IInv, TypeOK, Same
<1>1. ASSUME NEW m, At(m), Commit(db), m \notin Behind, m # "status_fields",
             Full(db, m) => Post(m), Settled(m)
      PROVE  IInv'
  <2>1. \A n \in Migrations : /\ Post(n) => Post(n)'
                              /\ Settled(n) => Settled(n)'
    BY <1>1 DEF Commit, Post, Full, Settled
  <2>2. /\ Full(db, m) => Post(m)'
        /\ Settled(m)'
    BY <1>1 DEF Commit, Post, Full, Settled
  <2> QED BY <1>0, <1>1, <2>1, <2>2, Minor
<1>2. CASE ColumnsDone
  <2>1. At(Now.name) /\ Commit(db) /\ Now.name \notin RowMigrations
    BY <1>2 DEF ColumnsDone
  <2>2. /\ Now.name \notin Behind /\ Now.name # "status_fields"
        /\ Full(db, Now.name) => Post(Now.name)
        /\ Settled(Now.name)
    BY <2>1 DEF RowMigrations, Behind, Post, Settled
  <2> QED BY <1>1, <2>1, <2>2
<1>3. ASSUME NEW m, NEW k, RunsOnce(m, k), Skip(m, k)
      PROVE  IInv'
  <2>1. At(m) /\ Commit(db) /\ k \in markers
    BY <1>3 DEF Skip
  <2>2. /\ m \notin Behind /\ m # "status_fields"
        /\ Full(db, m) => Post(m)
        /\ Settled(m)
    BY <1>3, <2>1 DEF RunsOnce, Behind, Post, Settled
  <2> QED BY <1>1, <2>1, <2>2
<1> QED BY <1>2, <1>3

(* Rows that earlier releases left behind.                                  *)
LEMMA RepairSteps ==
  ASSUME IInv, RepairStep
  PROVE  IInv'
<1>0. db \in Database
  BY DEF IInv, TypeOK
<1>1. PICK m \in {"audit_log_entity_type", "backfill_websites", "message_url"},
           f \in {"entity_type", "website", "message_url"} :
        /\ RepairRows(m, f)
        /\ \/ m = "audit_log_entity_type" /\ f = "entity_type"
           \/ m = "backfill_websites" /\ f = "website"
           \/ m = "message_url" /\ f = "message_url"
  BY DEF RepairStep
<1> DEFINE v == db.faults \ {f}
           d == [db EXCEPT !.faults = v]
<1>2. At(m) /\ Commit(d) /\ db' = d
  BY <1>1 DEF RepairRows, Commit
<1>3. d \in Database
  BY <1>0 DEF Database
<1>4. Same(db, d, {"faults"}) /\ d.faults = v
  <2> HIDE DEF v
  <2> QED BY <1>0, Assigned
<1> HIDE DEF d
<1>5. Same(db, d, Harmless) /\ d.faults \subseteq db.faults
  BY <1>4 DEF Same, Fields, Harmless
<1>6. /\ \A n \in Migrations : /\ Post(n) /\ Full(d, n) => Post(n)'
                               /\ Settled(n) => Settled(n)'
      /\ Full(d, m) => Post(m)'
      /\ Settled(m)'
  BY <1>1, <1>2, <1>4 DEF Post, Same, Fields, Settled, Commit
<1>7. m \notin Behind /\ m # "status_fields"
  BY DEF Behind
<1> QED BY <1>2, <1>3, <1>5, <1>6, <1>7, Minor

(* The marker is written last.                                              *)
LEMMA OnceMarkSteps ==
  ASSUME IInv, NEW m, NEW k, RunsOnce(m, k), OnceMark(m, k)
  PROVE  IInv'
<1>1. /\ proc = "init" /\ tables /\ Now.name = m /\ ~Lacks /\ half
      /\ db' = db /\ markers' = markers \cup {k} /\ Proceed
      /\ UNCHANGED <<file, tables>> /\ UNCHANGED people
  BY DEF OnceMark, At
<1>2. \/ m = "noon" /\ k = "noon"
      \/ m = "flag_placeholders" /\ k = "flagged"
      \/ m = "cleanup_orphans" /\ k = "cleaned"
  BY DEF RunsOnce
<1>3. Full(db, m)
  BY <1>1, <1>2, Through DEF IInv, Sound
<1>4. Sound(db', torn, choices, {})
  <2>1. \A n \in Behind : n \notin Excused
    BY <1>1, <1>2 DEF Excused, Behind
  <2> QED BY <1>1, <2>1 DEF IInv, Sound, ColumnsSound, Behind
<1>5. MarkersTrue'
  BY <1>1, <1>2
  DEF IInv, MarkersTrue, HalfDone, HalfAt, NoonDone, FlagsDone, OrphansDone, people
<1>6. \A n \in Migrations : Post(n) \/ n = Now.name => Post(n)'
  BY <1>1, <1>2, <1>3 DEF Post, Full
<1>7. quiet >= 1 => \A n \in Migrations : Settled(n) \/ n = Now.name => Settled(n)'
  BY <1>1, <1>2 DEF Settled
<1>8. tables' \in BOOLEAN /\ db' \in Database
      /\ markers \subseteq markers' /\ markers' \subseteq AllMarkers
  BY <1>1, <1>2 DEF IInv, TypeOK, AllMarkers
<1>9. file' = file /\ tables' /\ (~file => ~tables')
  BY <1>1 DEF IInv, TablesFirst
<1> QED BY <1>1, <1>4, <1>5, <1>6, <1>7, <1>8, <1>9, Committed

(* The migrations that fill rows only right after their ALTER.              *)
LEMMA BehindSteps ==
  ASSUME IInv
  PROVE  (EnableLinkedin => IInv') /\ (LinkContacts => IInv') /\ (ExtractCv => IInv')
<1>0. db \in Database /\ half \in BOOLEAN
  BY DEF IInv, TypeOK
<1>1. ASSUME NEW m \in Behind, At(m), NEW d \in Database, Commit(d),
             Same(db, d, {"enabled", "linked", "cv"}),
             db.linked \/ (half /\ m = "contacts_m2m") => d.linked,
             db.cv \/ (half /\ m = "cv_text") => d.cv,
             d.enabled => db.enabled \/ (half /\ m = "linkedin_granular")
      PROVE  IInv'
  <2>1. /\ proc = "init" /\ tables /\ Now.name = m /\ ~Lacks /\ db' = d /\ Proceed
        /\ UNCHANGED <<file, tables, markers>> /\ UNCHANGED people
    BY <1>1 DEF At, Commit
  <2>2. m # "status_fields" /\ Full(db, m)
    BY <2>1, Through DEF IInv, Sound, Behind
  <2>3. /\ d.added = db.added /\ d.time = db.time /\ d.flag = db.flag /\ d.old = db.old
        /\ d.faults = db.faults /\ d.events = db.events /\ d.main = db.main
        /\ d.pre = db.pre /\ d.trigger = db.trigger /\ d.late = db.late
        /\ d.legacy = db.legacy /\ d.telefon = db.telefon /\ d.phone = db.phone
        /\ d.profile = db.profile /\ d.interview = db.interview
    BY <1>1 DEF Same, Fields
  <2>4. db.added["linkedin_granular"] = 1 /\ m = "linkedin_granular" => ~half
    BY <2>1 DEF Lacks
  <2>5. \A n \in Excused : n = m /\ half
    BY <2>1 DEF Excused
  <2>6. ColumnsSound(d, torn, {})
    BY <1>1, <2>3, <2>4, <2>5 DEF IInv, Sound, ColumnsSound, Behind
  <2>7. ChoicesSound(d, choices)
    <3>1. half /\ m = "linkedin_granular" => "linkedin_off" \notin choices
      BY <2>1 DEF IInv, HalfDone, HalfAt
    <3> QED BY <1>1, <2>3, <3>1 DEF IInv, Sound, ChoicesSound
  <2>8. MarkersTrue'
    BY <2>1, <2>3 DEF IInv, MarkersTrue, NoonDone, FlagsDone, OrphansDone, people
  <2>9. \A n \in Migrations : /\ Post(n) \/ n = Now.name => Post(n)'
                              /\ Settled(n) \/ n = Now.name => Settled(n)'
    BY <2>1, <2>2, <2>3 DEF Post, Full, Settled, Behind
  <2>10. tables' \in BOOLEAN /\ markers \subseteq markers' /\ markers' \subseteq AllMarkers
    BY <2>1 DEF IInv, TypeOK, AllMarkers
  <2>11. file' = file /\ tables' /\ (~file => ~tables')
    BY <2>1 DEF IInv, TablesFirst
  <2>12. Sound(db', torn, choices, {}) /\ db' \in Database
    BY <1>1, <2>1, <2>6, <2>7 DEF Sound
  <2> QED BY <2>1, <2>8, <2>9, <2>10, <2>11, <2>12, Committed
<1>2. CASE EnableLinkedin
  <2> DEFINE v == db.enabled \/ half
             d == [db EXCEPT !.enabled = v]
  <2>1. At("linkedin_granular") /\ Commit(d)
    BY <1>2 DEF EnableLinkedin
  <2>2. v \in BOOLEAN /\ (v => db.enabled \/ half)
    OBVIOUS
  <2> HIDE DEF v
  <2>3. d \in Database
    BY <1>0, <2>2 DEF Database
  <2>4. Same(db, d, {"enabled"}) /\ d.enabled = v
    BY <1>0, Assigned
  <2> HIDE DEF d
  <2>5. Same(db, d, {"enabled", "linked", "cv"})
    BY <2>4 DEF Same
  <2>6. d.linked = db.linked /\ d.cv = db.cv
    BY <2>4 DEF Same, Fields
  <2>7. d.enabled => db.enabled \/ half
    BY <2>2, <2>4
  <2> QED BY <1>1, <2>1, <2>3, <2>5, <2>6, <2>7 DEF Behind
<1>3. CASE LinkContacts
  <2> DEFINE v == db.linked \/ half
             d == [db EXCEPT !.linked = v]
  <2>1. At("contacts_m2m") /\ Commit(d)
    BY <1>3 DEF LinkContacts
  <2>2. v \in BOOLEAN /\ (db.linked \/ half => v)
    OBVIOUS
  <2> HIDE DEF v
  <2>3. d \in Database
    BY <1>0, <2>2 DEF Database
  <2>4. Same(db, d, {"linked"}) /\ d.linked = v
    BY <1>0, Assigned
  <2> HIDE DEF d
  <2>5. Same(db, d, {"enabled", "linked", "cv"})
    BY <2>4 DEF Same
  <2>6. d.enabled = db.enabled /\ d.cv = db.cv
    BY <2>4 DEF Same, Fields
  <2>7. db.linked \/ half => d.linked
    BY <2>2, <2>4
  <2> QED BY <1>1, <2>1, <2>3, <2>5, <2>6, <2>7 DEF Behind
<1>4. CASE ExtractCv
  <2> DEFINE v == db.cv \/ half
             d == [db EXCEPT !.cv = v]
  <2>1. At("cv_text") /\ Commit(d)
    BY <1>4 DEF ExtractCv
  <2>2. v \in BOOLEAN /\ (db.cv \/ half => v)
    OBVIOUS
  <2> HIDE DEF v
  <2>3. d \in Database
    BY <1>0, <2>2 DEF Database
  <2>4. Same(db, d, {"cv"}) /\ d.cv = v
    BY <1>0, Assigned
  <2> HIDE DEF d
  <2>5. Same(db, d, {"enabled", "linked", "cv"})
    BY <2>4 DEF Same
  <2>6. d.enabled = db.enabled /\ d.linked = db.linked
    BY <2>4 DEF Same, Fields
  <2>7. db.cv \/ half => d.cv
    BY <2>2, <2>4
  <2> QED BY <1>1, <2>1, <2>3, <2>5, <2>6, <2>7 DEF Behind
<1> QED BY <1>2, <1>3, <1>4

(* The old status column goes, with the rest of its migration.              *)
LEMMA DropStatusStep ==
  ASSUME IInv, DropStatus
  PROVE  IInv'
<1> DEFINE a == [db.added EXCEPT !["status_fields"] = 7]
           d == [db EXCEPT !.added = a, !.legacy = "none"]
<1>0. db \in Database /\ db.added \in [Migrations -> 0..19]
  BY DEF IInv, TypeOK, Database
<1>1. /\ proc = "init" /\ tables /\ Now.name = "status_fields" /\ Proceed
      /\ UNCHANGED <<file, tables, markers>> /\ UNCHANGED people
  BY DEF DropStatus, At, Commit
<1>2. db' = d
  BY DEF DropStatus, Commit, StatusFields, AddsBlindly
<1>3. /\ a \in [Migrations -> 0..19] /\ a["status_fields"] = 7
      /\ \A n \in Migrations \ {"status_fields"} : a[n] = db.added[n]
  BY <1>0, Known
<1> HIDE DEF a
<1>4. d \in Database
  BY <1>0, <1>3 DEF Database
<1>5. Same(db, d, {"added", "legacy"}) /\ d.added = a /\ d.legacy = "none"
  BY <1>0 DEF Same, Fields, Database
<1> HIDE DEF d
<1>6. /\ d.time = db.time /\ d.flag = db.flag /\ d.old = db.old
      /\ d.faults = db.faults /\ d.events = db.events /\ d.main = db.main
      /\ d.pre = db.pre /\ d.trigger = db.trigger /\ d.late = db.late
      /\ d.telefon = db.telefon /\ d.phone = db.phone /\ d.enabled = db.enabled
      /\ d.profile = db.profile /\ d.interview = db.interview
      /\ d.linked = db.linked /\ d.cv = db.cv
  BY <1>5 DEF Same, Fields
<1>7. Sound(d, torn, choices, {})
  <2>1. \A n \in Behind : n \notin Excused /\ n \in Migrations \ {"status_fields"}
    BY <1>1, Known DEF Excused, Behind
  <2>2. \A n \in Migrations : a[n] <= Columns[n]
    BY <1>3, Known DEF IInv, Sound, ColumnsSound
  <2>3. \A n \in Behind : d.added[n] = db.added[n]
    BY <1>3, <1>5, <2>1
  <2> QED BY <1>5, <1>6, <2>1, <2>2, <2>3
          DEF IInv, Sound, ColumnsSound, ChoicesSound, Behind
<1>8. MarkersTrue'
  BY <1>1, <1>2, <1>6 DEF IInv, MarkersTrue, NoonDone, FlagsDone, OrphansDone, people
<1>9. \A n \in Migrations : /\ Post(n) \/ n = Now.name => Post(n)'
                            /\ Settled(n) \/ n = Now.name => Settled(n)'
  <2>1. \A n \in Migrations : Full(db, n) \/ n = "status_fields" => Full(d, n)
    BY <1>3, <1>5, Known DEF Full
  <2> QED BY <1>1, <1>2, <1>5, <1>6, <2>1 DEF Post, Settled
<1>10. tables' \in BOOLEAN /\ markers \subseteq markers' /\ markers' \subseteq AllMarkers
  BY <1>1 DEF IInv, TypeOK, AllMarkers
<1>11. file' = file /\ tables' /\ (~file => ~tables')
  BY <1>1 DEF IInv, TablesFirst
<1>12. Sound(db', torn, choices, {}) /\ db' \in Database
  BY <1>2, <1>4, <1>7
<1> QED BY <1>1, <1>8, <1>9, <1>10, <1>11, <1>12, Committed

(* The database that create_all makes needs none of them.                   *)
LEMMA Fresh ==
  /\ FreshDb \in Database
  /\ \A t : ColumnsSound(FreshDb, t, {})
  /\ ChoicesSound(FreshDb, {})
  /\ \A m \in Migrations : Full(FreshDb, m)
<1> DEFINE d == FreshDb
<1>1. Columns \in [Migrations -> 0..19]
  BY ColumnsAsListed
<1>2. FreshDb \in Database
  BY <1>1 DEF FreshDb, Database, Repairs
<1>3. /\ FreshDb.added = Columns /\ FreshDb.linked = TRUE /\ FreshDb.cv = TRUE
      /\ FreshDb.time = "real"
  BY DEF FreshDb
<1> QED BY <1>2, <1>3, Known DEF ColumnsSound, ChoicesSound, Full

(* There is no table, or create_all has made them.                          *)
LEMMA TableSteps ==
  ASSUME IInv
  PROVE  (NothingThere => IInv') /\ (CreateTables => IInv')
<1>1. CASE NothingThere
  <2>1. /\ proc = "init" /\ ~file /\ Now.name # "create_all" /\ Proceed
        /\ UNCHANGED <<file, tables, db, markers>> /\ UNCHANGED people
    BY <1>1 DEF NothingThere
  <2>2. db = FreshDb /\ ~tables /\ ~Did("create_all")
    BY <2>1 DEF IInv, TablesFirst
  <2>3. \A m \in {"noon", "flag_placeholders", "cleanup_orphans"} : Now.name # m
    <3>1. ~ \E i \in 1..(step - 1) : InitDb[i].name = "create_all"
      BY <2>1, <2>2 DEF Did, Past
    <3>2. step \in 1..53 /\ Now.name = InitDb[step].name
      BY NowListed DEF IInv
    <3>3. step <= 33
      BY <3>1, <3>2, Placed
    <3> QED BY <3>2, <3>3, Listed, Placed
  <2>4. Post(Now.name)
    <3>1. Now.name \in Migrations
      BY NowListed DEF IInv
    <3>2. Full(db, Now.name)
      BY <2>2, <3>1, Fresh
    <3>3. /\ db.legacy = "none" /\ ~db.late /\ db.faults = {} /\ ~db.telefon
          /\ db.profile /\ db.events = {"bewerbung"} /\ ~db.interview
      BY <2>2 DEF FreshDb
    <3> QED BY <2>3, <3>2, <3>3 DEF Post
  <2>5. \A m \in Migrations : Post(m) \/ m = Now.name => Post(m)'
    BY <2>1, <2>4 DEF Post, Full
  <2>7. Sound(db', torn, choices, {}) /\ db' \in Database
    BY <2>1, <2>2, Fresh DEF IInv, Sound
  <2>8. MarkersTrue'
    BY <2>1 DEF IInv, MarkersTrue, NoonDone, FlagsDone, OrphansDone, people
  <2>9. ~(quiet >= 1)
    BY <2>2 DEF Did
  <2>10. /\ markers \subseteq markers' /\ markers' \subseteq AllMarkers
         /\ tables' \in BOOLEAN
    BY <2>1 DEF IInv, TypeOK, AllMarkers
  <2>11. file' = file /\ ~tables' /\ db' = FreshDb
    BY <2>1, <2>2
  <2> QED BY <2>1, <2>2, <2>5, <2>7, <2>8, <2>9, <2>10, <2>11, Committed
<1>2. CASE CreateTables
  <2>1. /\ proc = "init" /\ Now.name = "create_all" /\ file /\ tables' = TRUE /\ Proceed
        /\ UNCHANGED <<file, db, markers>> /\ UNCHANGED people
    BY <1>2 DEF CreateTables
  <2>2. Full(db, "create_all")
    <3>1. db.added["create_all"] \in Nat /\ db.added["create_all"] <= 0
      BY AddedType, Known DEF IInv, TypeOK, Sound, ColumnsSound
    <3>2. db.added["create_all"] = 0
      BY <3>1
    <3> QED BY <3>2, Known DEF Full
  <2>3. \A m \in Migrations : /\ Post(m) \/ m = Now.name => Post(m)'
                              /\ Settled(m) \/ m = Now.name => Settled(m)'
    BY <2>1, <2>2 DEF Post, Full, Settled
  <2>4. Sound(db', torn, choices, {}) /\ db' \in Database
    <3>1. \A n \in Behind : n \notin Excused
      BY <2>1 DEF Excused, Behind
    <3>2. db' = db /\ db \in Database
      BY <2>1 DEF IInv, TypeOK
    <3> QED BY <3>1, <3>2 DEF IInv, Sound, ColumnsSound, Behind
  <2>5. MarkersTrue'
    BY <2>1 DEF IInv, MarkersTrue, NoonDone, FlagsDone, OrphansDone, people
  <2>6. /\ markers \subseteq markers' /\ markers' \subseteq AllMarkers
        /\ tables' \in BOOLEAN /\ tables'
    BY <2>1 DEF IInv, TypeOK, AllMarkers
  <2> QED BY <2>1, <2>3, <2>4, <2>5, <2>6, Committed
<1> QED BY <1>1, <1>2

(* Steps that do not end a migration.                                       *)
LEMMA Within ==
  ASSUME IInv, UNCHANGED <<proc, step, quiet, restored, markers>>, UNCHANGED people,
         proc = "init", TypeOK',
         Sound(db', torn, choices, Excused'), MarkersTrue', HalfDone',
         ~tables' => db' = FreshDb, ~file' => ~tables', tables => tables',
         \A m \in Migrations : Post(m) => Post(m)',
         quiet < 1
  PROVE  IInv'
<1>1. \A m : /\ Did(m)' <=> Did(m)
             /\ ~Twice(m)'
  BY DEF Did, Twice, Past, IInv, TypeOK
<1>2. MarkersFirst'
  BY DEF IInv, MarkersFirst, people
<1>3. TablesFirst'
  BY <1>1 DEF IInv, TablesFirst
<1>4. Done'
  BY <1>1 DEF IInv, Done, TypeOK
<1>5. Sound(db, torn, choices, Excused)' /\ Sound(bundle.db, bundle.torn, bundle.choices, {})'
  BY DEF IInv, people
<1> QED BY <1>2, <1>3, <1>4, <1>5 DEF IInv

(* One ALTER TABLE: only where a start has not been yet.                    *)
LEMMA AddColumnStep ==
  ASSUME IInv, AddColumn
  PROVE  IInv'
<1> DEFINE n == db.added[Now.name]
           a == [db.added EXCEPT ![Now.name] = @ + 1]
           d == [db EXCEPT !.added = a]
<1>0. db \in Database /\ db.added \in [Migrations -> 0..19]
  BY DEF IInv, TypeOK, Database
<1>1. /\ proc = "init" /\ tables /\ Lacks
      /\ UNCHANGED <<file, tables, markers, proc, step, restored, quiet>> /\ UNCHANGED people
  BY DEF AddColumn
<1>2. db' = d
  BY DEF AddColumn
<1>3. /\ Now.name \in Migrations /\ Columns[Now.name] = Now.columns
      /\ Columns[Now.name] \in Nat /\ Columns[Now.name] <= 19 /\ n \in Nat
  BY <1>0, NowListed, Known DEF IInv
<1>4. n < Columns[Now.name]
  <2>1. CASE Now.name = "linkedin_granular"
    BY <1>1, <1>3, <2>1, Known DEF Lacks
  <2>2. CASE Now.name = "status_fields"
    BY <1>1, <1>3, <2>2, Known DEF Lacks
  <2>3. CASE Now.name # "linkedin_granular" /\ Now.name # "status_fields"
    BY <1>1, <1>3, <2>3 DEF Lacks
  <2> QED BY <2>1, <2>2, <2>3
<1>5. /\ a \in [Migrations -> 0..19] /\ a[Now.name] = n + 1
      /\ \A m \in Migrations \ {Now.name} : a[m] = db.added[m]
  <2>1. n + 1 \in 0..19
    BY <1>3, <1>4
  <2> QED BY <1>0, <1>3, <2>1
<1>6. half' = (Now.name \in Behind)
  BY DEF AddColumn
<1>7. Now.name \notin Behind => Excused' = {}
  BY <1>1, <1>6 DEF Excused
<1>8. Now.name \in Behind => Excused' = {Now.name}
  BY <1>1, <1>6 DEF Excused, Now
<1> HIDE DEF a
<1>9. d \in Database
  BY <1>0, <1>5 DEF Database
<1>10. Same(db, d, {"added"}) /\ d.added = a
  BY <1>0 DEF Same, Fields, Database
<1> HIDE DEF d, n
<1>11. /\ d.time = db.time /\ d.flag = db.flag /\ d.old = db.old
       /\ d.faults = db.faults /\ d.events = db.events /\ d.main = db.main
       /\ d.pre = db.pre /\ d.trigger = db.trigger /\ d.late = db.late
       /\ d.telefon = db.telefon /\ d.phone = db.phone /\ d.enabled = db.enabled
       /\ d.profile = db.profile /\ d.interview = db.interview
       /\ d.linked = db.linked /\ d.cv = db.cv /\ d.legacy = db.legacy
  BY <1>10 DEF Same, Fields
<1>12. Post(Now.name) => Now.name = "linkedin_granular" /\ n >= 1
  <2>1. CASE Now.name = "linkedin_granular"
    BY <2>1 DEF Post, Full, n
  <2>2. CASE Now.name # "linkedin_granular"
    <3>1. Post(Now.name) => n = Columns[Now.name]
      BY <2>2 DEF Post, Full, n
    <3> QED BY <1>3, <1>4, <3>1
  <2> QED BY <2>1, <2>2
<1>13. \A m \in Migrations : Post(m) => Post(m)'
  <2>1. \A m \in Migrations : Post(m) => Full(d, m)
    <3>1. n + 1 >= 1
      BY <1>3
    <3> QED BY <1>5, <1>10, <1>12, <3>1 DEF Post, Full
  <2> QED BY <1>1, <1>2, <1>11, <2>1 DEF Post
<1>14. quiet < 1
  <2>1. ASSUME quiet >= 1 PROVE FALSE
    <3>1. Post(Now.name) /\ ~half
      BY <1>1, <1>3, <2>1 DEF IInv, Done, Did
    <3>2. Now.name = "linkedin_granular" /\ n >= 1
      BY <1>12, <3>1
    <3>3. Lacks => n = 0
      BY <3>1, <3>2 DEF Lacks, n
    <3> QED BY <1>1, <1>3, <3>2, <3>3
  <2> QED BY <2>1 DEF IInv, TypeOK
<1>15. ColumnsSound(d, torn, Excused')
  <2>1. \A m \in Migrations : a[m] <= Columns[m]
    BY <1>3, <1>4, <1>5 DEF IInv, Sound, ColumnsSound
  <2>2. \A m \in Behind : m # Now.name => m \notin Excused /\ a[m] = db.added[m]
    BY <1>5, Known DEF Excused, Behind
  <2> QED BY <1>8, <1>10, <1>11, <2>1, <2>2 DEF IInv, Sound, ColumnsSound, Behind
<1>16. Now.name = "linkedin_granular" => "linkedin_off" \notin choices
  BY <1>3, <1>4, Known DEF IInv, Sound, ChoicesSound, n
<1>17. ChoicesSound(d, choices)
  BY <1>5, <1>10, <1>11, <1>16, Known DEF IInv, Sound, ChoicesSound
<1>18. MarkersTrue'
  BY <1>1, <1>2, <1>11 DEF IInv, MarkersTrue, NoonDone, FlagsDone, OrphansDone, people
<1>19. HalfDone'
  BY <1>1, <1>6, <1>16 DEF HalfDone, HalfAt, Behind, Now, people
<1>20. TypeOK'
  <2>1. half' \in BOOLEAN
    BY <1>6
  <2>2. \A m \in Migrations : db'.added[m] <= Columns[m]
    BY <1>2, <1>15 DEF ColumnsSound
  <2> QED BY <1>1, <1>2, <1>9, <2>1, <2>2 DEF IInv, TypeOK, people
<1>21. tables' /\ (~file' => ~tables')
  BY <1>1 DEF IInv, TablesFirst
<1>22. Sound(db', torn, choices, Excused')
  BY <1>2, <1>15, <1>17 DEF Sound
<1> QED BY <1>1, <1>13, <1>14, <1>18, <1>19, <1>20, <1>21, <1>22, Within

(* The commit of a migration that runs once; its marker is still missing.   *)
LEMMA OnceCommitted ==
  ASSUME IInv, NEW m, NEW k, NEW d \in Database, RunsOnce(m, k), OnceCommit(m, k, d),
         d.time # db.time => db.time = "null" /\ d.time = "noon" /\ d.flag,
         d.flag # db.flag => d.flag /\ d.time # "null",
         d.faults \subseteq db.faults, Same(db, d, {"time", "flag", "faults"}),
         m = "noon" => d.time # "null",
         m = "flag_placeholders" => (d.time = "noon" => d.flag),
         m = "cleanup_orphans" => "orphan" \notin d.faults
  PROVE  IInv'
<1>1. /\ proc = "init" /\ tables /\ Now.name = m /\ k \notin markers /\ ~half
      /\ db' = d /\ half' = TRUE
      /\ UNCHANGED <<file, tables, markers, proc, step, restored, quiet>> /\ UNCHANGED people
  BY DEF OnceCommit, At
<1>2. /\ d.added = db.added /\ d.old = db.old /\ d.events = db.events /\ d.main = db.main
      /\ d.pre = db.pre /\ d.trigger = db.trigger /\ d.late = db.late
      /\ d.telefon = db.telefon /\ d.phone = db.phone /\ d.enabled = db.enabled
      /\ d.profile = db.profile /\ d.interview = db.interview
      /\ d.linked = db.linked /\ d.cv = db.cv /\ d.legacy = db.legacy
  BY DEF Same, Fields
<1>3. choices = {}
  BY <1>1 DEF IInv, MarkersFirst, RunsOnce, AllMarkers
<1>4. quiet < 1
  <2>1. ASSUME quiet >= 1 PROVE FALSE
    <3>1. Post(m)
      BY <2>1, Known DEF IInv, Done, Did, RunsOnce
    <3> QED BY <1>1, <3>1 DEF Post, RunsOnce
  <2> QED BY <2>1 DEF IInv, TypeOK
<1>5. Excused' = {m} /\ m \notin Behind /\ \A x \in Behind : x \notin Excused
  BY <1>1 DEF Excused, Now, RunsOnce, Behind
<1>6. Sound(db', torn, choices, Excused')
  <2>1. ColumnsSound(d, torn, Excused')
    BY <1>2, <1>5 DEF IInv, Sound, ColumnsSound, Behind
  <2>2. ChoicesSound(d, choices)
    <3>1. d.time = "noon" => d.flag \/ d.old
      BY <1>2 DEF IInv, Sound, ChoicesSound
    <3> QED BY <1>3, <3>1 DEF ChoicesSound
  <2> QED BY <1>1, <2>1, <2>2 DEF Sound
<1>7. MarkersTrue'
  BY <1>1 DEF IInv, MarkersTrue, NoonDone, FlagsDone, OrphansDone, people
<1>8. HalfDone'
  BY <1>1 DEF HalfDone, HalfAt, NoonDone, FlagsDone, OrphansDone, Now, RunsOnce
<1>9. \A n \in Migrations : Post(n) => Post(n)'
  BY <1>1, <1>2 DEF Post, Full
<1>10. TypeOK'
  <2>1. half' \in BOOLEAN
    BY <1>1
  <2>2. \A n \in Migrations : db'.added[n] <= Columns[n]
    BY <1>1, <1>2 DEF IInv, TypeOK
  <2> QED BY <1>1, <2>1, <2>2 DEF IInv, TypeOK, people
<1>11. tables' /\ (~file' => ~tables')
  BY <1>1 DEF IInv, TablesFirst
<1> QED BY <1>1, <1>4, <1>6, <1>7, <1>8, <1>9, <1>10, <1>11, Within

(* The migrations that run once.                                            *)
LEMMA OnceSteps ==
  ASSUME IInv
  PROVE  /\ BackfillNoon => IInv'
         /\ FlagPlaceholders => IInv'
         /\ CleanupOrphans => IInv'
<1>0. db \in Database
  BY DEF IInv, TypeOK
<1>1. \A m, k : RunsOnce(m, k) => (Skip(m, k) \/ OnceMark(m, k) => IInv')
  BY IdleSteps, OnceMarkSteps
<1>2. ASSUME OnceCommit("noon", "noon", NoonTime) PROVE IInv'
  <2> DEFINE d == NoonTime
  <2>1. CASE db.time = "null"
    <3>1. d = [db EXCEPT !.time = "noon", !.flag = TRUE]
      BY <2>1 DEF NoonTime
    <3> HIDE DEF d
    <3>2. d \in Database
      BY <1>0, <3>1 DEF Database
    <3>3. d.time = "noon" /\ d.flag = TRUE /\ d.faults = db.faults
          /\ Same(db, d, {"time", "flag", "faults"})
      BY <1>0, <3>1 DEF Database, Same, Fields
    <3>4. d.flag
      BY <3>3
    <3> QED BY <1>2, <2>1, <3>2, <3>3, <3>4, OnceCommitted DEF RunsOnce, d
  <2>2. CASE db.time # "null"
    <3>1. NoonTime = db
      BY <2>2 DEF NoonTime
    <3>2. Same(db, db, {"time", "flag", "faults"})
      BY DEF Same
    <3> QED BY <1>0, <1>2, <2>2, <3>1, <3>2, OnceCommitted DEF RunsOnce
  <2> QED BY <2>1, <2>2
<1>3. ASSUME OnceCommit("flag_placeholders", "flagged", Flagged) PROVE IInv'
  <2> DEFINE d == Flagged
  <2>1. CASE db.time # "null" /\ db.old
    <3>1. d = [db EXCEPT !.flag = TRUE]
      BY <2>1 DEF Flagged
    <3> HIDE DEF d
    <3>2. d \in Database
      BY <1>0, <3>1 DEF Database
    <3>3. d.time = db.time /\ d.flag = TRUE /\ d.faults = db.faults
          /\ Same(db, d, {"time", "flag", "faults"})
      BY <1>0, <3>1 DEF Database, Same, Fields
    <3>4. d.flag
      BY <3>3
    <3> QED BY <1>3, <2>1, <3>2, <3>3, <3>4, OnceCommitted DEF RunsOnce, d
  <2>2. CASE ~(db.time # "null" /\ db.old)
    <3>1. Flagged = db
      BY <2>2 DEF Flagged
    <3>2. Same(db, db, {"time", "flag", "faults"})
      BY DEF Same
    <3>3. db.time = "noon" => db.flag
      BY <2>2 DEF IInv, Sound, ChoicesSound
    <3> QED BY <1>0, <1>3, <3>1, <3>2, <3>3, OnceCommitted DEF RunsOnce
  <2> QED BY <2>1, <2>2
<1>4. ASSUME OnceCommit("cleanup_orphans", "cleaned", [db EXCEPT !.faults = @ \ {"orphan"}])
      PROVE  IInv'
  <2> DEFINE v == db.faults \ {"orphan"}
             d == [db EXCEPT !.faults = v]
  <2>1. OnceCommit("cleanup_orphans", "cleaned", d)
    BY <1>4
  <2>2. d \in Database
    BY <1>0 DEF Database
  <2>3. Same(db, d, {"faults"}) /\ d.faults = v
    <3> HIDE DEF v
    <3> QED BY <1>0, Assigned
  <2> HIDE DEF d
  <2>4. d.time = db.time /\ d.flag = db.flag /\ Same(db, d, {"time", "flag", "faults"})
        /\ d.faults \subseteq db.faults /\ "orphan" \notin d.faults
    BY <2>3 DEF Same, Fields
  <2> QED BY <2>1, <2>2, <2>4, OnceCommitted DEF RunsOnce
<1> QED BY <1>1, <1>2, <1>3, <1>4
        DEF BackfillNoon, FlagPlaceholders, CleanupOrphans, RunsOnce

(* create_all has begun.                                                    *)
LEMMA CreateFirstStep ==
  ASSUME IInv, CreateFirstTables
  PROVE  IInv'
<1>1. /\ proc = "init" /\ Now.name = "create_all" /\ ~file /\ file' = TRUE /\ half' = TRUE
      /\ UNCHANGED <<tables, db, markers, proc, step, restored, quiet>> /\ UNCHANGED people
  BY DEF CreateFirstTables
<1>2. db = FreshDb /\ ~tables /\ ~Did("create_all")
  BY <1>1 DEF IInv, TablesFirst
<1>3. quiet < 1
  BY <1>2 DEF IInv, TypeOK, Did
<1>4. Sound(db', torn, choices, Excused')
  BY <1>1, <1>2, Fresh DEF IInv, Sound, ColumnsSound
<1>5. MarkersTrue' /\ HalfDone'
  BY <1>1 DEF IInv, MarkersTrue, HalfDone, HalfAt, NoonDone, FlagsDone, OrphansDone, Now, people
<1>6. \A m \in Migrations : Post(m) => Post(m)'
  BY <1>1 DEF Post, Full
<1>7. TypeOK'
  <2>1. half' \in BOOLEAN /\ file' \in BOOLEAN
    BY <1>1
  <2> QED BY <1>1, <2>1 DEF IInv, TypeOK, people
<1> QED BY <1>1, <1>2, <1>3, <1>4, <1>5, <1>6, <1>7, Within

-----------------------------------------------------------------------------
(* Between two starts. *)

(* The process starts or ends: the files are left alone.                    *)
LEMMA ProcessSteps ==
  ASSUME IInv, Start \/ AlterFails \/ Crash \/ Stop
  PROVE  IInv'
<1>1. /\ UNCHANGED <<file, tables, db, markers, bundle, choices, restored, quiet, edits>>
      /\ proc' # "up" /\ (proc' # "init" \/ step' = 1)
  BY DEF Start, AlterFails, Crash, Stop, people
<1>2. /\ torn \subseteq torn' /\ torn' \subseteq Migrations /\ crashes' \in 0..MaxCrashes
      /\ Excused' = {} /\ \A m : ~HalfAt(m)'
      /\ ColumnsSound(db, torn', {})
      /\ proc' \in {"down", "init", "failed"} /\ step' \in 1..Len(InitDb)
  <2>1. CASE Start
    <3>1. half' = FALSE /\ torn' = torn /\ crashes' = crashes /\ proc' = "init" /\ step' = 1
          /\ proc # "init"
      BY <2>1 DEF Start, people
    <3>2. Excused = {} /\ Excused' = {} /\ \A m : ~HalfAt(m)'
      BY <3>1 DEF Excused, HalfAt
    <3> QED BY <3>1, <3>2, Listed DEF IInv, TypeOK, Sound
  <2>2. CASE AlterFails
    <3>1. torn' = torn /\ crashes' = crashes /\ proc' = "failed" /\ step' = step /\ ~tables
      BY <2>2 DEF AlterFails, people
    <3>2. Excused' = {} /\ \A m : ~HalfAt(m)'
      BY <3>1 DEF Excused, HalfAt
    <3>3. ColumnsSound(db, torn', {})
      BY <3>1, Fresh DEF IInv, TablesFirst
    <3> QED BY <3>1, <3>2, <3>3 DEF IInv, TypeOK
  <2>3. CASE Crash
    <3>1. /\ proc = "init" /\ proc' = "down" /\ step' = step /\ crashes < MaxCrashes
          /\ crashes' = crashes + 1
          /\ torn' = torn \cup (IF half /\ Now.name \in Behind THEN {Now.name} ELSE {})
      BY <2>3 DEF Crash
    <3>2. Excused' = {} /\ \A m : ~HalfAt(m)'
      BY <3>1 DEF Excused, HalfAt
    <3>3. torn \subseteq torn' /\ torn' \subseteq Migrations
      BY <3>1, NowListed DEF IInv, TypeOK
    <3>4. crashes' \in 0..MaxCrashes
      BY <3>1, StartupAssumption DEF IInv, TypeOK
    <3>5. \A m \in Behind : m \in Excused => m \in torn'
      BY <3>1 DEF Excused
    <3>6. ColumnsSound(db, torn', {})
      BY <3>3, <3>5 DEF IInv, Sound, ColumnsSound, Behind
    <3> QED BY <3>1, <3>2, <3>3, <3>4, <3>6 DEF IInv, TypeOK
  <2>4. CASE Stop
    <3>1. torn' = torn /\ crashes' = crashes /\ proc = "up" /\ proc' = "down" /\ step' = step
      BY <2>4 DEF Stop, people
    <3>2. Excused = {} /\ Excused' = {} /\ \A m : ~HalfAt(m)'
      BY <3>1 DEF Excused, HalfAt
    <3> QED BY <3>1, <3>2 DEF IInv, TypeOK, Sound
  <2> QED BY <2>1, <2>2, <2>3, <2>4
<1>3. half' = half \/ half' = FALSE
  BY DEF Start, AlterFails, Crash, Stop
<1>4. proc' = "init" => ~half'
  BY DEF Start, AlterFails, Crash, Stop
<1>5. TypeOK'
  <2>1. half' \in BOOLEAN
    BY <1>3 DEF IInv, TypeOK
  <2>2. proc' \in {"down", "init", "up", "failed"}
    BY <1>2
  <2> QED BY <1>1, <1>2, <2>1, <2>2 DEF IInv, TypeOK
<1>6. \A m : (Did(m)' => quiet >= 1) /\ (Twice(m)' => quiet >= 2)
  BY <1>1 DEF Did, Twice, Past
<1>7. Done'
  <2>1. \A m \in Migrations : (Post(m) => Post(m)') /\ (Settled(m) => Settled(m)')
    BY <1>1 DEF Post, Full, Settled
  <2> QED BY <1>1, <1>4, <1>6, <2>1 DEF IInv, Done, Did, Twice
<1>8. TablesFirst' /\ MarkersFirst'
  BY <1>1, <1>6 DEF IInv, TablesFirst, MarkersFirst, Did
<1>9. MarkersTrue' /\ HalfDone'
  BY <1>1, <1>2, Known DEF IInv, MarkersTrue, HalfDone, NoonDone, FlagsDone, OrphansDone
<1>10. Sound(db, torn, choices, Excused)' /\ Sound(bundle.db, bundle.torn, bundle.choices, {})'
  BY <1>1, <1>2 DEF IInv, Sound
<1> QED BY <1>5, <1>7, <1>8, <1>9, <1>10 DEF IInv

(* A change by a person.                                                    *)
LEMMA Edited ==
  ASSUME IInv, NEW d \in Database, NEW c \in SUBSET Choices, Edit(d, c),
         d.added = db.added, d.linked = db.linked, d.cv = db.cv, d.faults \subseteq db.faults,
         ChoicesSound(d, c),
         d.time = "null" => \/ "cleared" \in c
                            \/ db.time = "null" /\ ("cleared" \in choices => "cleared" \in c),
         d.time = "noon" => db.time = "noon" /\ d.flag = db.flag
  PROVE  IInv'
<1>1. /\ proc = "up" /\ edits < MaxEdits /\ db' = d /\ choices' = c /\ quiet' = 0
      /\ edits' = edits + 1 /\ \A m \in Migrations : Has(m)
      /\ UNCHANGED <<file, tables, markers, proc, step, half, bundle, torn, restored, crashes>>
  BY DEF Edit
<1>2. Excused = {} /\ Excused' = {} /\ \A m : ~HalfAt(m)'
  BY <1>1 DEF Excused, HalfAt
<1>3. \A m : ~Did(m)' /\ ~Twice(m)'
  BY <1>1 DEF Did, Twice, Past
<1>4. TypeOK'
  <2>1. edits' \in 0..MaxEdits
    BY <1>1, StartupAssumption DEF IInv, TypeOK
  <2>2. quiet' \in 0..2
    BY <1>1
  <2> QED BY <1>1, <2>1, <2>2 DEF IInv, TypeOK
<1>5. Sound(d, torn, c, {})
  BY <1>2 DEF IInv, Sound, ColumnsSound
<1>6. MarkersTrue' /\ HalfDone'
  BY <1>1, <1>2, Known DEF IInv, MarkersTrue, HalfDone, NoonDone, FlagsDone, OrphansDone
<1>7. MarkersFirst' /\ TablesFirst'
  BY <1>1, <1>3 DEF IInv, MarkersFirst, TablesFirst
<1>8. Done'
  BY <1>1, <1>3, Known DEF IInv, Done, Has, Full
<1> QED BY <1>1, <1>2, <1>4, <1>5, <1>6, <1>7, <1>8 DEF IInv

(* The changes people make.                                                 *)
LEMMA EditSteps ==
  ASSUME IInv
  PROVE  /\ \A s \in {"applied", "fb", "rejected"} : MoveTo(s) => IInv'
         /\ \A e \in {"bewerbung", "gespraech", "fb"} : DeleteEvent(e) => IInv'
         /\ SetInterviewDate => IInv'
         /\ \A t \in {"null", "real"} : EditTime(t) => IInv'
         /\ MoveMail => IInv'
         /\ DeletePhone => IInv'
         /\ ToggleLinkedin => IInv'
<1>0. db \in Database /\ choices \in SUBSET Choices /\ ChoicesSound(db, choices)
  BY DEF IInv, TypeOK, Sound
<1>1. ASSUME NEW d \in Database, Edit(d, choices),
             Same(db, d, {"main", "pre", "events", "interview", "late", "phone"})
      PROVE  IInv'
  <2>1. /\ d.added = db.added /\ d.linked = db.linked /\ d.cv = db.cv
        /\ d.faults = db.faults /\ d.time = db.time /\ d.flag = db.flag /\ d.old = db.old
        /\ d.enabled = db.enabled
    BY <1>1 DEF Same, Fields
  <2>2. ChoicesSound(d, choices)
    BY <1>0, <2>1 DEF ChoicesSound
  <2> QED BY <1>0, <1>1, <2>1, <2>2, Edited
<1>2. ASSUME NEW s \in {"applied", "fb", "rejected"}, MoveTo(s) PROVE IInv'
  <2> DEFINE p == IF s = "rejected" THEN db.main ELSE db.pre
             w == db.events \cup (IF s = "fb" THEN {"fb"} ELSE {})
             d == [db EXCEPT !.main = s, !.pre = p, !.events = w]
  <2>1. Edit(d, choices)
    BY <1>2 DEF MoveTo
  <2>2. db.main # "rejected" \/ s # "rejected"
    BY <1>2 DEF MoveTo
  <2>3. p \in {"none", "hr", "fb", "applied"} /\ w \in SUBSET {"bewerbung", "gespraech", "fb"}
    BY <1>0, <2>2 DEF Database
  <2> HIDE DEF p, w
  <2>4. d \in Database
    BY <1>0, <2>3 DEF Database
  <2>5. Same(db, d, {"main", "pre", "events", "interview", "late", "phone"})
    BY <1>0 DEF Same, Fields, Database
  <2> HIDE DEF d
  <2> QED BY <1>1, <2>1, <2>4, <2>5
<1>3. ASSUME NEW e \in {"bewerbung", "gespraech", "fb"}, DeleteEvent(e) PROVE IInv'
  <2> DEFINE d == [db EXCEPT !.events = @ \ {e}]
  <2>1. Edit(d, choices)
    BY <1>3 DEF DeleteEvent
  <2>2. d \in Database
    BY <1>0 DEF Database
  <2>3. Same(db, d, {"main", "pre", "events", "interview", "late", "phone"})
    BY <1>0 DEF Same, Fields, Database
  <2> HIDE DEF d
  <2> QED BY <1>1, <2>1, <2>2, <2>3
<1>4. CASE SetInterviewDate
  <2> DEFINE d == [db EXCEPT !.interview = TRUE]
  <2>1. Edit(d, choices)
    BY <1>4 DEF SetInterviewDate
  <2>2. d \in Database
    BY <1>0 DEF Database
  <2>3. Same(db, d, {"main", "pre", "events", "interview", "late", "phone"})
    BY <1>0 DEF Same, Fields, Database
  <2> HIDE DEF d
  <2> QED BY <1>1, <2>1, <2>2, <2>3
<1>5. CASE MoveMail
  <2> DEFINE d == [db EXCEPT !.late = TRUE]
  <2>1. Edit(d, choices)
    BY <1>5 DEF MoveMail
  <2>2. d \in Database
    BY <1>0 DEF Database
  <2>3. Same(db, d, {"main", "pre", "events", "interview", "late", "phone"})
    BY <1>0 DEF Same, Fields, Database
  <2> HIDE DEF d
  <2> QED BY <1>1, <2>1, <2>2, <2>3
<1>6. CASE DeletePhone
  <2> DEFINE d == [db EXCEPT !.phone = FALSE]
  <2>1. Edit(d, choices)
    BY <1>6 DEF DeletePhone
  <2>2. d \in Database
    BY <1>0 DEF Database
  <2>3. Same(db, d, {"main", "pre", "events", "interview", "late", "phone"})
    BY <1>0 DEF Same, Fields, Database
  <2> HIDE DEF d
  <2> QED BY <1>1, <2>1, <2>2, <2>3
<1>7. ASSUME NEW t \in {"null", "real"}, EditTime(t) PROVE IInv'
  <2> DEFINE d == [db EXCEPT !.time = t, !.flag = FALSE]
             c == (choices \ {"cleared", "timed"})
                    \cup {IF t = "null" THEN "cleared" ELSE "timed"}
  <2>1. Edit(d, c)
    BY <1>7 DEF EditTime
  <2>2. d \in Database /\ c \in SUBSET Choices
    BY <1>0 DEF Database, Choices
  <2>3. /\ d.added = db.added /\ d.linked = db.linked /\ d.cv = db.cv
        /\ d.faults = db.faults /\ d.time = t /\ d.flag = FALSE /\ d.old = db.old
        /\ d.enabled = db.enabled
    BY <1>0 DEF Database
  <2>4. /\ t = "null" => "cleared" \in c /\ "timed" \notin c
        /\ t = "real" => "timed" \in c /\ "cleared" \notin c
        /\ "linkedin_off" \in c => "linkedin_off" \in choices
    OBVIOUS
  <2> HIDE DEF d, c
  <2>5. ~d.flag
    BY <2>3
  <2>6. ChoicesSound(d, c)
    BY <1>0, <2>3, <2>4, <2>5 DEF ChoicesSound
  <2> QED BY <2>1, <2>2, <2>3, <2>4, <2>6, Edited
<1>8. CASE ToggleLinkedin
  <2> DEFINE v == ~db.enabled
             d == [db EXCEPT !.enabled = v]
             c == IF db.enabled THEN choices \cup {"linkedin_off"} ELSE choices \ {"linkedin_off"}
  <2>1. Edit(d, c)
    BY <1>8 DEF ToggleLinkedin
  <2>2. v \in BOOLEAN /\ (db.enabled => ~v)
    OBVIOUS
  <2>3. /\ c \in SUBSET Choices
        /\ "cleared" \in c <=> "cleared" \in choices
        /\ "timed" \in c <=> "timed" \in choices
        /\ "linkedin_off" \in c => db.enabled
    BY <1>0 DEF Choices
  <2> HIDE DEF v, c
  <2>4. d \in Database
    BY <1>0, <2>2 DEF Database
  <2>5. /\ d.added = db.added /\ d.linked = db.linked /\ d.cv = db.cv
        /\ d.faults = db.faults /\ d.time = db.time /\ d.flag = db.flag /\ d.old = db.old
        /\ d.enabled = v
    BY <1>0 DEF Database
  <2>6. db.added["linkedin_granular"] = 2
    BY <2>1, Known DEF Edit, Has
  <2> HIDE DEF d
  <2>7. "linkedin_off" \in c => ~d.enabled
    BY <2>2, <2>3, <2>5
  <2>8. ChoicesSound(d, c)
    BY <1>0, <2>3, <2>5, <2>6, <2>7 DEF ChoicesSound
  <2> QED BY <2>1, <2>3, <2>4, <2>5, <2>8, Edited
<1> QED BY <1>2, <1>3, <1>4, <1>5, <1>6, <1>7, <1>8

(* A backup is taken, or put in the place of the database.                  *)
LEMMA BundleSteps ==
  ASSUME IInv
  PROVE  (TakeBackup => IInv') /\ (Restore => IInv')
<1>1. CASE TakeBackup
  <2>1. /\ proc = "up" /\ ~restored
        /\ bundle' = [db |-> db, choices |-> choices, torn |-> torn]
        /\ UNCHANGED <<file, tables, db, markers, proc, step, half, choices, torn, restored,
                       quiet, edits, crashes>>
    BY <1>1 DEF TakeBackup
  <2>2. Excused = {} /\ Excused' = {} /\ \A m : ~HalfAt(m)'
    BY <2>1 DEF Excused, HalfAt
  <2>3. bundle'.db = db /\ bundle'.choices = choices /\ bundle'.torn = torn
    BY <2>1
  <2>4. TypeOK'
    <3>1. bundle' \in Bundle
      BY <2>1 DEF IInv, TypeOK, Bundle
    <3> QED BY <2>1, <3>1 DEF IInv, TypeOK
  <2>5. Done'
    BY <2>1 DEF IInv, Done, Did, Twice, Past, Post, Settled, Full
  <2>6. Sound(db, torn, choices, Excused)' /\ Sound(bundle.db, bundle.torn, bundle.choices, {})'
    BY <2>1, <2>2, <2>3 DEF IInv
  <2>7. MarkersTrue' /\ HalfDone'
    BY <2>1, <2>2, Known DEF IInv, MarkersTrue, HalfDone, NoonDone, FlagsDone, OrphansDone
  <2>8. MarkersFirst' /\ TablesFirst'
    BY <2>1 DEF IInv, MarkersFirst, TablesFirst, Did, Past
  <2> QED BY <2>4, <2>5, <2>6, <2>7, <2>8 DEF IInv
<1>2. CASE Restore
  <2>1. /\ proc = "up" /\ edits < MaxEdits
        /\ db' = bundle.db /\ choices' = bundle.choices
        /\ restored' = TRUE /\ quiet' = 0 /\ edits' = edits + 1
        /\ UNCHANGED <<file, tables, markers, proc, step, half, bundle, crashes>>
    BY <1>2 DEF Restore
  <2>2. /\ bundle.torn \subseteq torn' /\ torn' \subseteq bundle.torn \cup Migrations
        /\ "noon" \in markers => "noon" \in torn'
        /\ "flagged" \in markers => "flag_placeholders" \in torn'
        /\ "cleaned" \in markers => "cleanup_orphans" \in torn'
    BY <1>2, Known DEF Restore
  <2>3. bundle.db \in Database /\ bundle.choices \subseteq Choices
        /\ bundle.torn \subseteq Migrations
    BY DEF IInv, TypeOK, Bundle
  <2>4. Excused' = {} /\ (\A m : ~HalfAt(m)') /\ \A m : ~Did(m)' /\ ~Twice(m)'
    BY <2>1 DEF Excused, HalfAt, Did, Twice, Past
  <2>5. Sound(db', torn', choices', {})
    BY <2>1, <2>2 DEF IInv, Sound, ColumnsSound
  <2>6. TypeOK'
    <3>1. edits' \in 0..MaxEdits /\ quiet' \in 0..2
      BY <2>1, StartupAssumption DEF IInv, TypeOK
    <3>2. restored' \in BOOLEAN
      BY <2>1
    <3>3. \A m \in Migrations : db'.added[m] <= Columns[m]
      BY <2>5 DEF Sound, ColumnsSound
    <3> QED BY <2>1, <2>2, <2>3, <3>1, <3>2, <3>3 DEF IInv, TypeOK
  <2>7. Done'
    BY <2>1, <2>4 DEF Done
  <2>8. MarkersTrue' /\ HalfDone'
    BY <2>1, <2>2, <2>4 DEF MarkersTrue, HalfDone, NoonDone, FlagsDone, OrphansDone
  <2>9. MarkersFirst' /\ TablesFirst'
    BY <2>1, <2>4 DEF IInv, MarkersFirst, TablesFirst
  <2>10. Sound(db, torn, choices, Excused)' /\ Sound(bundle.db, bundle.torn, bundle.choices, {})'
    BY <2>1, <2>4, <2>5 DEF IInv
  <2> QED BY <2>6, <2>7, <2>8, <2>9, <2>10 DEF IInv
<1> QED BY <1>1, <1>2

(* Nothing happens.                                                         *)
LEMMA StutterStep ==
  ASSUME IInv, UNCHANGED vars
  PROVE  IInv'
<1>1. UNCHANGED <<file, tables, db, markers, proc, step, half, bundle, choices, torn, restored,
                  quiet, edits, crashes>>
  BY DEF vars
<1>2. TypeOK' /\ MarkersTrue' /\ MarkersFirst'
  BY <1>1 DEF IInv, TypeOK, MarkersTrue, NoonDone, FlagsDone, OrphansDone, MarkersFirst
<1>3. Excused' = Excused /\ \A m : HalfAt(m)' => HalfAt(m)
  BY <1>1 DEF Excused, HalfAt, Now
<1>4. Sound(db, torn, choices, Excused)' /\ Sound(bundle.db, bundle.torn, bundle.choices, {})'
  BY <1>1, <1>3 DEF IInv
<1>5. HalfDone'
  BY <1>1, <1>3 DEF IInv, HalfDone, NoonDone, FlagsDone, OrphansDone
<1>6. Done' /\ TablesFirst'
  BY <1>1 DEF IInv, Done, TablesFirst, Did, Twice, Past, Post, Settled, Full
<1> QED BY <1>2, <1>4, <1>5, <1>6 DEF IInv

-----------------------------------------------------------------------------
(* The invariant holds. *)

(* What earlier releases left is sound: a table without its column is one   *)
(* that a migration has still to come to.                                   *)
LEMMA OldIsSound ==
  ASSUME NEW M, NEW d \in OldDbs(M)
  PROVE  d \in Database /\ Sound(d, {}, {}, {})
<1>1. PICK main \in {"applied", "fb", "rejected"}, interview \in BOOLEAN :
        d = OldDb(M, main, interview)
  BY DEF OldDbs
<1> DEFINE a == [m \in Migrations |-> IF m \in M THEN 0 ELSE Columns[m]]
           trigger == "audit_log" \notin M
           main1   == IF "status_fields" \in M THEN "applied" ELSE main
           legacy  == IF "status_fields" \in M THEN "rejected" ELSE "none"
           events  == IF "backfill_events" \in M THEN {}
                      ELSE {"bewerbung"} \cup (IF main = "rejected" THEN {"fb"} ELSE {})
           linked  == "contacts_m2m" \notin M
           cv      == "cv_text" \notin M
           time    == IF "event_datum_zeit" \in M THEN "null" ELSE "noon"
           telefon == "contact_phones" \in M
           phone   == "contact_phones" \notin M
           profile == "backfill_profiles" \notin M
<1>2. d = [FreshDb EXCEPT
             !.added = a, !.trigger = trigger, !.main = main1, !.legacy = legacy,
             !.events = events, !.interview = interview, !.linked = linked, !.cv = cv,
             !.time = time, !.old = TRUE, !.late = TRUE, !.telefon = telefon,
             !.phone = phone, !.profile = profile, !.faults = Repairs]
  BY <1>1 DEF OldDb
<1>3. /\ a \in [Migrations -> 0..19]
      /\ \A m \in Migrations : a[m] = 0 \/ (m \notin M /\ a[m] = Columns[m])
  BY ColumnsAsListed
<1>4. /\ trigger \in BOOLEAN /\ linked \in BOOLEAN /\ cv \in BOOLEAN /\ telefon \in BOOLEAN
      /\ phone \in BOOLEAN /\ profile \in BOOLEAN
  OBVIOUS
<1>5. /\ main1 \in {"applied", "fb", "rejected"} /\ legacy \in {"none", "rejected"}
      /\ events \in SUBSET {"bewerbung", "gespraech", "fb"} /\ time \in {"null", "noon", "real"}
  OBVIOUS
<1>6. ("contacts_m2m" \notin M => linked) /\ ("cv_text" \notin M => cv)
  OBVIOUS
<1> HIDE DEF a, trigger, main1, legacy, events, linked, cv, time, telefon, phone, profile
<1>7. d \in Database
  <2>1. d = [added |-> a, trigger |-> trigger, main |-> main1, legacy |-> legacy,
             pre |-> "none", events |-> events, interview |-> interview, linked |-> linked,
             enabled |-> FALSE, cv |-> cv, time |-> time, flag |-> FALSE, old |-> TRUE,
             late |-> TRUE, telefon |-> telefon, phone |-> phone, profile |-> profile,
             faults |-> Repairs]
    BY <1>2 DEF FreshDb
  <2> QED BY <1>3, <1>4, <1>5, <2>1 DEF Database, Repairs
<1>8. d.added = a /\ d.old = TRUE /\ d.linked = linked /\ d.cv = cv
  BY <1>2, Fresh DEF Database
<1>9. \A m \in Migrations : d.added[m] <= Columns[m]
  BY <1>3, <1>8, Known
<1>10. d.added["linkedin_granular"] # 1
  BY <1>3, <1>8, Known
<1>11. d.added["contacts_m2m"] = 1 => d.linked
  <2>1. d.added["contacts_m2m"] = 1 => "contacts_m2m" \notin M
    BY <1>3, <1>8, Known
  <2> QED BY <1>6, <1>8, <2>1
<1>12. d.added["cv_text"] = 1 => d.cv
  <2>1. d.added["cv_text"] = 1 => "cv_text" \notin M
    BY <1>3, <1>8, Known
  <2> QED BY <1>6, <1>8, <2>1
<1>13. d.old
  BY <1>8
<1> QED BY <1>7, <1>9, <1>10, <1>11, <1>12, <1>13 DEF Sound, ColumnsSound, ChoicesSound

(* Every database there may be to begin with.                               *)
LEMMA InitIInv == Init => IInv
<1> SUFFICES ASSUME Init PROVE IInv
  OBVIOUS
<1>1. /\ markers = {} /\ proc = "down" /\ step = 1 /\ half = FALSE
      /\ choices = {} /\ torn = {} /\ restored = FALSE
      /\ quiet = 0 /\ edits = 0 /\ crashes = 0
  BY DEF Init
<1>2. /\ file \in BOOLEAN /\ tables \in BOOLEAN /\ (~file => ~tables)
      /\ db \in Database /\ Sound(db, {}, {}, {}) /\ (~tables => db = FreshDb)
  <2>1. CASE file = FALSE /\ tables = FALSE /\ db = FreshDb
    BY <2>1, Fresh DEF Sound
  <2>2. CASE file = TRUE /\ tables = TRUE /\ \E M \in Upgrades : db \in OldDbs(M)
    BY <2>2, OldIsSound
  <2> QED BY <2>1, <2>2 DEF Init
<1>3. PICK old \in UNION {OldDbs(M) : M \in Upgrades} :
        bundle = [db |-> old, choices |-> {}, torn |-> {}]
  BY DEF Init
<1>4. old \in Database /\ Sound(old, {}, {}, {})
  BY OldIsSound
<1>5. bundle.db = old /\ bundle.choices = {} /\ bundle.torn = {} /\ bundle \in Bundle
  BY <1>3, <1>4 DEF Bundle
<1>6. TypeOK
  <2>1. edits \in 0..MaxEdits /\ crashes \in 0..MaxCrashes /\ step \in 1..Len(InitDb)
        /\ quiet \in 0..2
    BY <1>1, StartupAssumption, Listed
  <2>2. half \in BOOLEAN /\ restored \in BOOLEAN
    BY <1>1
  <2>3. \A m \in Migrations : db.added[m] <= Columns[m]
    BY <1>2 DEF Sound, ColumnsSound
  <2> QED BY <1>1, <1>2, <1>5, <2>1, <2>2, <2>3 DEF TypeOK
<1>7. \A m : ~Did(m) /\ ~Twice(m) /\ ~HalfAt(m)
  BY <1>1 DEF Did, Twice, Past, HalfAt
<1>8. Excused = {}
  BY <1>1 DEF Excused
<1>9. MarkersTrue /\ HalfDone
  BY <1>1, <1>7 DEF MarkersTrue, HalfDone
<1>10. MarkersFirst /\ TablesFirst
  BY <1>1, <1>2, <1>5, <1>7 DEF MarkersFirst, TablesFirst
<1>11. Done
  BY <1>1, <1>7 DEF Done
<1> QED BY <1>1, <1>2, <1>4, <1>5, <1>6, <1>8, <1>9, <1>10, <1>11 DEF IInv

(* Every step, by the lemma for its kind.                                   *)
LEMMA NextIInv == IInv /\ [Next]_vars => IInv'
<1> SUFFICES ASSUME IInv, [Next]_vars PROVE IInv'
  OBVIOUS
<1>1. CASE Start \/ AlterFails \/ Crash \/ Stop
  BY <1>1, ProcessSteps
<1>2. CASE NothingThere \/ CreateTables
  BY <1>2, TableSteps
<1>3. CASE AddColumn
  BY <1>3, AddColumnStep
<1>4. CASE CreateFirstTables
  BY <1>4, CreateFirstStep
<1>5. CASE ColumnsDone
  BY <1>5, IdleSteps
<1>6. CASE DropStatus
  BY <1>6, DropStatusStep
<1>7. CASE EnableLinkedin \/ LinkContacts \/ ExtractCv
  BY <1>7, BehindSteps
<1>8. CASE \/ FixMailEventDates \/ InstallTrigger \/ BackfillPhones
           \/ BackfillCompanyProfiles \/ BackfillEvents \/ GespraecheToEvents
           \/ BackfillPreRejection
  BY <1>8, MinorSteps
<1>9. CASE RepairStep
  BY <1>9, RepairSteps
<1>10. CASE BackfillNoon \/ FlagPlaceholders \/ CleanupOrphans
  BY <1>10, OnceSteps
<1>11. CASE \/ \E s \in {"applied", "fb", "rejected"} : MoveTo(s)
            \/ \E e \in {"bewerbung", "gespraech", "fb"} : DeleteEvent(e)
            \/ SetInterviewDate
            \/ \E t \in {"null", "real"} : EditTime(t)
            \/ MoveMail \/ DeletePhone \/ ToggleLinkedin
  BY <1>11, EditSteps
<1>12. CASE TakeBackup \/ Restore
  BY <1>12, BundleSteps
<1>13. CASE UNCHANGED vars
  BY <1>13, StutterStep
<1> QED BY <1>1, <1>2, <1>3, <1>4, <1>5, <1>6, <1>7, <1>8, <1>9, <1>10, <1>11, <1>12, <1>13
        DEF Next

(* The invariant.                                                           *)
LEMMA Always == Spec => []IInv
BY InitIInv, NextIInv, PTL DEF Spec

-----------------------------------------------------------------------------
(* The theorems. *)

(* The type invariant: and no column is added twice, which sqlite would     *)
(* refuse.                                                                  *)
THEOREM StartupIsTyped == Spec => []TypeOK
<1>1. IInv => TypeOK
  BY DEF IInv
<1> QED BY <1>1, Always, PTL

(* A process that is up finds every column its models name, except the one  *)
(* a crash between the ALTERs of linkedin_granular may cost.                *)
THEOREM SchemaStaysComplete == Spec => []SchemaComplete
<1>1. IInv => SchemaComplete
  <2> SUFFICES ASSUME IInv, Complete, NEW m \in Migrations PROVE Has(m) \/ m \in torn
    BY DEF SchemaComplete
  <2>1. Full(db, m) /\ Excused = {}
    BY DEF IInv, Done, Complete, Excused
  <2>2. CASE m = "linkedin_granular"
    <3>1. db.added[m] \in Nat /\ db.added[m] >= 1 /\ db.added[m] <= 2
      BY <2>1, <2>2, AddedType, Known DEF IInv, TypeOK, Full
    <3>2. db.added[m] = 1 \/ db.added[m] = 2
      BY <3>1
    <3> QED BY <2>1, <2>2, <3>2, Known DEF IInv, Sound, ColumnsSound, Has
  <2>3. CASE m # "linkedin_granular"
    BY <2>1, <2>3 DEF Full, Has
  <2> QED BY <2>2, <2>3
<1> QED BY <1>1, Always, PTL

(* After a start that nobody has interfered with, no row is left in a form  *)
(* that only earlier releases read.                                         *)
THEOREM OldRowsAreConverted == Spec => []LegacyRowsConverted
<1>1. IInv => LegacyRowsConverted
  <2> SUFFICES ASSUME IInv, Complete, quiet >= 1 PROVE LegacyRowsConverted
    BY DEF LegacyRowsConverted
  <2>1. Excused = {} /\ \A m \in Migrations : Post(m)
    BY DEF IInv, Done, Did, Complete, Excused
  <2>2. /\ ~db.late /\ db.profile /\ db.events # {}
        /\ db.interview => "gespraech" \in db.events
        /\ db.telefon => db.phone
    BY <2>1, Known DEF Post
  <2>3. db.faults \subseteq {"orphan"}
    <3>1. /\ "entity_type" \notin db.faults /\ "website" \notin db.faults
          /\ "message_url" \notin db.faults
      BY <2>1, Known DEF Post
    <3> QED BY <3>1 DEF IInv, TypeOK, Database, Repairs
  <2>4. NoonDone /\ FlagsDone /\ OrphansDone
    BY <2>1, Known DEF IInv, MarkersTrue, Post
  <2>5. (db.linked \/ "contacts_m2m" \in torn) /\ (db.cv \/ "cv_text" \in torn)
    <3>1. db.added["contacts_m2m"] = 1 /\ db.added["cv_text"] = 1
      BY <2>1, Known DEF Post, Full
    <3> QED BY <2>1, <3>1 DEF IInv, Sound, ColumnsSound
  <2> QED BY <2>2, <2>3, <2>4, <2>5 DEF LegacyRowsConverted, NoonDone, FlagsDone, OrphansDone
<1> QED BY <1>1, Always, PTL

(* No start changes a time that a person cleared or set, nor switches       *)
(* LinkedIn on again, not even after a crash between a commit and its       *)
(* marker.                                                                  *)
THEOREM ChoicesAreKept == Spec => []ChoicesKept
<1>1. IInv => ChoicesKept
  BY DEF IInv, Sound, ChoicesSound, ChoicesKept
<1> QED BY <1>1, Always, PTL

(* A field that is given the value it has.                                  *)
LEMMA Reassigned ==
  ASSUME NEW d \in Database
  PROVE  /\ \A v : v = d.late => [d EXCEPT !.late = v] = d
         /\ \A v : v = d.linked => [d EXCEPT !.linked = v] = d
         /\ \A v : v = d.events => [d EXCEPT !.events = v] = d
         /\ \A v : v = d.pre => [d EXCEPT !.pre = v] = d
         /\ \A v : v = d.trigger => [d EXCEPT !.trigger = v] = d
         /\ \A v : v = d.faults => [d EXCEPT !.faults = v] = d
         /\ \A v : v = d.phone => [d EXCEPT !.phone = v] = d
         /\ \A v : v = d.cv => [d EXCEPT !.cv = v] = d
         /\ \A v : v = d.profile => [d EXCEPT !.profile = v] = d
         /\ \A v : v = d.enabled => [d EXCEPT !.enabled = v] = d
         /\ \A v, a : v = d.legacy /\ a = d.added => [d EXCEPT !.added = a, !.legacy = v] = d
BY DEF Database

(* After a completed start there is no column to add.                       *)
LEMMA Nothing ==
  ASSUME IInv, proc = "init", quiet >= 1
  PROVE  ~half /\ ~Lacks /\ (\A m \in Migrations : Post(m)) /\ tables
<1>1. ~half /\ (\A m \in Migrations : Post(m)) /\ tables
  BY Known DEF IInv, Done, TablesFirst, Did
<1>2. Now.name \in Migrations /\ Columns[Now.name] = Now.columns
  BY NowListed DEF IInv
<1>3. Post(Now.name)
  BY <1>1, <1>2
<1>4. Full(db, Now.name)
  BY <1>3 DEF Post
<1>5. db.added[Now.name] \in Nat /\ Now.columns \in Nat
  BY <1>2, AddedType, Known DEF IInv, TypeOK
<1>6. CASE Now.name = "linkedin_granular"
  BY <1>1, <1>4, <1>5, <1>6 DEF Full, Lacks
<1>7. CASE Now.name = "status_fields"
  <2>1. db.legacy = "none"
    BY <1>3, <1>7 DEF Post
  <2>2. Lacks => db.added[Now.name] < Now.columns
    BY <1>7, <2>1 DEF Lacks
  <2> QED BY <1>1, <1>2, <1>4, <1>5, <1>7, <2>2 DEF Full
<1>8. CASE Now.name # "linkedin_granular" /\ Now.name # "status_fields"
  <2>1. Lacks => db.added[Now.name] < Now.columns
    BY <1>8 DEF Lacks
  <2> QED BY <1>1, <1>2, <1>4, <1>5, <1>8, <2>1 DEF Full
<1> QED BY <1>6, <1>7, <1>8

(* Two complete starts in a row settle the database: a third changes        *)
(* nothing.                                                                 *)
THEOREM TwoStartsSettle == Spec => SettlesInTwoStarts
<1>1. ASSUME IInv, Next, proc = "init", quiet >= 2
      PROVE  db' = db
  <2>0. db \in Database /\ quiet \in 0..2
    BY <1>1 DEF IInv, TypeOK
  <2>1. quiet >= 1
    BY <1>1, <2>0
  <2>2. ~half /\ ~Lacks /\ tables /\ \A m \in Migrations : Post(m)
    BY <1>1, <2>1, Nothing
  <2>3. \A m \in Migrations : Settled(m)
    BY <1>1 DEF IInv, Done, Twice
  <2>4. ~AddColumn
    BY <2>2 DEF AddColumn
  <2>5. CASE \/ Start \/ NothingThere \/ AlterFails \/ CreateFirstTables \/ CreateTables
             \/ Crash \/ Stop \/ TakeBackup
    BY <2>5 DEF Start, NothingThere, AlterFails, CreateFirstTables, CreateTables, Crash, Stop,
               TakeBackup
  <2>6. CASE ColumnsDone
    BY <2>6 DEF ColumnsDone, Commit
  <2>7. CASE DropStatus
    <3> DEFINE a == [db.added EXCEPT !["status_fields"] = 7]
    <3>1. db' = [db EXCEPT !.added = a, !.legacy = "none"]
      BY <2>7 DEF DropStatus, Commit, StatusFields, AddsBlindly
    <3>2. db.added["status_fields"] = 7 /\ db.legacy = "none"
      BY <2>2, Known DEF Post, Full
    <3>3. a = db.added
      BY <2>0, <3>2 DEF Database
    <3> HIDE DEF a
    <3> QED BY <2>0, <3>1, <3>2, <3>3, Reassigned
  <2>8. CASE EnableLinkedin
    <3> DEFINE v == db.enabled \/ half
    <3>1. db' = [db EXCEPT !.enabled = v]
      BY <2>8 DEF EnableLinkedin, Commit
    <3>2. v = db.enabled
      <4>1. db.enabled \in BOOLEAN
        BY <2>0 DEF Database
      <4> QED BY <2>2, <4>1
    <3> HIDE DEF v
    <3> QED BY <2>0, <3>1, <3>2, Reassigned
  <2>9. CASE LinkContacts
    <3> DEFINE v == db.linked \/ half
    <3>1. db' = [db EXCEPT !.linked = v]
      BY <2>9 DEF LinkContacts, Commit
    <3>2. v = db.linked
      <4>1. db.linked \in BOOLEAN
        BY <2>0 DEF Database
      <4> QED BY <2>2, <4>1
    <3> HIDE DEF v
    <3> QED BY <2>0, <3>1, <3>2, Reassigned
  <2>10. CASE ExtractCv
    <3> DEFINE v == db.cv \/ half
    <3>1. db' = [db EXCEPT !.cv = v]
      BY <2>10 DEF ExtractCv, Commit
    <3>2. v = db.cv
      <4>1. db.cv \in BOOLEAN
        BY <2>0 DEF Database
      <4> QED BY <2>2, <4>1
    <3> HIDE DEF v
    <3> QED BY <2>0, <3>1, <3>2, Reassigned
  <2>11. CASE FixMailEventDates
    <3>1. db' = [db EXCEPT !.late = FALSE]
      BY <2>11 DEF FixMailEventDates, Commit
    <3>2. ~db.late
      BY <2>2, Known DEF Post
    <3>3. FALSE = db.late
      <4>1. db.late \in BOOLEAN
        BY <2>0 DEF Database
      <4> QED BY <3>2, <4>1
    <3> QED BY <2>0, <3>1, <3>3, Reassigned
  <2>12. CASE InstallTrigger
    <3>1. db' = [db EXCEPT !.trigger = TRUE]
      BY <2>12 DEF InstallTrigger, Commit
    <3>2. db.trigger
      BY <2>3, Known DEF Settled
    <3>3. TRUE = db.trigger
      <4>1. db.trigger \in BOOLEAN
        BY <2>0 DEF Database
      <4> QED BY <3>2, <4>1
    <3> QED BY <2>0, <3>1, <3>3, Reassigned
  <2>13. CASE BackfillCompanyProfiles
    <3>1. db' = [db EXCEPT !.profile = TRUE]
      BY <2>13 DEF BackfillCompanyProfiles, Commit
    <3>2. db.profile
      BY <2>2, Known DEF Post
    <3>3. TRUE = db.profile
      <4>1. db.profile \in BOOLEAN
        BY <2>0 DEF Database
      <4> QED BY <3>2, <4>1
    <3> QED BY <2>0, <3>1, <3>3, Reassigned
  <2>14. CASE BackfillPhones
    <3> DEFINE v == db.phone \/ db.telefon
    <3>1. db' = [db EXCEPT !.phone = v]
      BY <2>14 DEF BackfillPhones, Commit
    <3>2. db.telefon => db.phone
      BY <2>2, Known DEF Post
    <3>3. v = db.phone
      <4>1. db.phone \in BOOLEAN
        BY <2>0 DEF Database
      <4> QED BY <3>2, <4>1
    <3> HIDE DEF v
    <3> QED BY <2>0, <3>1, <3>3, Reassigned
  <2>15. CASE BackfillEvents
    <3>1. db.events # {}
      BY <2>2, Known DEF Post
    <3>2. db' = [db EXCEPT !.events = db.events]
      BY <2>15, <3>1 DEF BackfillEvents, Commit
    <3> QED BY <2>0, <3>2, Reassigned
  <2>16. CASE GespraecheToEvents
    <3> DEFINE v == db.events \cup (IF db.interview THEN {"gespraech"} ELSE {})
    <3>1. db.interview => "gespraech" \in db.events
      BY <2>2, Known DEF Post
    <3>2. db' = [db EXCEPT !.events = v]
      BY <2>16 DEF GespraecheToEvents, Commit
    <3>3. v = db.events
      BY <3>1
    <3> HIDE DEF v
    <3> QED BY <2>0, <3>2, <3>3, Reassigned
  <2>17. CASE BackfillPreRejection
    <3> DEFINE v == IF "fb" \in db.events THEN "fb"
                    ELSE IF db.pre = "none" /\ "gespraech" \in db.events THEN "hr"
                    ELSE db.pre
    <3>1. db' = IF db.main # "rejected" THEN db ELSE [db EXCEPT !.pre = v]
      BY <2>17 DEF BackfillPreRejection, Commit
    <3>2. db.main = "rejected" => v = db.pre
      BY <2>3, Known DEF Settled
    <3> HIDE DEF v
    <3>3. db.main = "rejected" => [db EXCEPT !.pre = v] = db
      BY <2>0, <3>2, Reassigned
    <3> QED BY <3>1, <3>3
  <2>18. CASE RepairStep
    <3>1. PICK m \in {"audit_log_entity_type", "backfill_websites", "message_url"},
               f \in {"entity_type", "website", "message_url"} :
            /\ RepairRows(m, f)
            /\ \/ m = "audit_log_entity_type" /\ f = "entity_type"
               \/ m = "backfill_websites" /\ f = "website"
               \/ m = "message_url" /\ f = "message_url"
      BY <2>18 DEF RepairStep
    <3> DEFINE v == db.faults \ {f}
    <3>2. db' = [db EXCEPT !.faults = v]
      BY <3>1 DEF RepairRows, Commit
    <3>3. f \notin db.faults
      BY <2>2, <3>1, Known DEF Post
    <3>4. v = db.faults
      BY <3>3
    <3> HIDE DEF v
    <3> QED BY <2>0, <3>2, <3>4, Reassigned
  <2>19. CASE BackfillNoon \/ FlagPlaceholders \/ CleanupOrphans
    <3>1. AllMarkers \subseteq markers
      BY <2>2, Known DEF Post, AllMarkers
    <3>2. \A m, k, d : k \in AllMarkers => ~OnceCommit(m, k, d) /\ ~OnceMark(m, k)
      BY <3>1 DEF OnceCommit, OnceMark
    <3>3. \E m, k : Skip(m, k)
      BY <2>19, <3>2 DEF BackfillNoon, FlagPlaceholders, CleanupOrphans, AllMarkers
    <3> QED BY <3>3 DEF Skip, Commit
  <2>20. \A d, c : ~Edit(d, c)
    BY <1>1 DEF Edit
  <2>21. ~Restore
    BY <1>1 DEF Restore
  <2>22. /\ ~ \E s \in {"applied", "fb", "rejected"} : MoveTo(s)
         /\ ~ \E e \in {"bewerbung", "gespraech", "fb"} : DeleteEvent(e)
         /\ ~SetInterviewDate
         /\ ~ \E t \in {"null", "real"} : EditTime(t)
         /\ ~MoveMail /\ ~DeletePhone /\ ~ToggleLinkedin
    BY <2>20 DEF MoveTo, DeleteEvent, SetInterviewDate, EditTime, MoveMail, DeletePhone,
                ToggleLinkedin
  <2> QED BY <1>1, <2>4, <2>5, <2>6, <2>7, <2>8, <2>9, <2>10, <2>11, <2>12, <2>13, <2>14,
             <2>15, <2>16, <2>17, <2>18, <2>19, <2>21, <2>22 DEF Next
<1>2. IInv /\ [Next]_vars => [proc = "init" /\ quiet >= 2 => db' = db]_vars
  BY <1>1
<1> QED BY <1>2, Always, PTL DEF Spec, SettlesInTwoStarts
=============================================================================
