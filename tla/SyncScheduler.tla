---------------------------- MODULE SyncScheduler ----------------------------
(***************************************************************************)
(* The background loop of the backend (main.py): a pass every 20 minutes   *)
(* starts every enabled source, waits for all of them to end, makes a      *)
(* backup if one is due, and sleeps.  _RUNNING_SOURCES is the guard        *)
(* against two runs of a source.  The endpoints behind the "sync now"      *)
(* buttons start runs of the same sources.                                 *)
(***************************************************************************)
EXTENDS Naturals, FiniteSets

CONSTANTS
    Sources,      \* gmail, gcal, icloud_mail, ..., local_files
    NoTimeout,    \* sources whose client waits for its server without limit
                  \* (imaplib.IMAP4_SSL and DAVClient are opened without a timeout)
    MaxManual,    \* bound: runs of a source by button at one time
    MaxRestarts   \* bound: restarts of the process

ASSUME SchedulerAssumption ==
    /\ NoTimeout \subseteq Sources
    /\ MaxManual \in Nat /\ MaxRestarts \in Nat

VARIABLES
    registered, \* the first account exists
    enabled,    \* sources switched on in its SyncSettings
    backupOn,   \* its BackupConfig is enabled and has a folder
    due,        \* last_backup is frequency_hours ago, or there was none
    phase,      \* where the loop is
    queued,     \* tasks of this pass that have not begun
    running,    \* sources that run for the loop
    guard,      \* _RUNNING_SOURCES
    manual,     \* runs that endpoints have started, per source
    restarts

settings == <<registered, enabled, backupOn>>
vars == <<settings, due, phase, queued, running, guard, manual, restarts>>

TypeOK ==
    /\ registered \in BOOLEAN /\ backupOn \in BOOLEAN /\ due \in BOOLEAN
    /\ phase \in {"sleep", "pass", "backup"}
    /\ enabled \subseteq Sources /\ queued \subseteq Sources /\ running \subseteq Sources
    /\ guard \subseteq Sources \cup {"backup"}
    /\ manual \in [Sources -> 0..MaxManual]
    /\ restarts \in 0..MaxRestarts

Started ==
    /\ phase' = "sleep" /\ queued' = {} /\ running' = {} /\ guard' = {}
    /\ manual' = [s \in Sources |-> 0]

Init ==
    /\ registered = FALSE /\ enabled = Sources /\ backupOn = FALSE /\ due = TRUE
    /\ phase = "sleep" /\ queued = {} /\ running = {} /\ guard = {}
    /\ manual = [s \in Sources |-> 0]
    /\ restarts = 0

-----------------------------------------------------------------------------
(* The loop. *)

(* Without an account the loop goes back to sleep (a stutter). *)
StartPass ==
    /\ phase = "sleep"
    /\ registered
    /\ phase' = "pass"
    /\ queued' = enabled
    /\ UNCHANGED <<settings, due, running, guard, manual, restarts>>

RunSource(s) ==
    /\ s \in queued
    /\ queued' = queued \ {s}
    /\ IF s \in guard
         THEN UNCHANGED <<running, guard>>
         ELSE /\ running' = running \cup {s}
              /\ guard' = guard \cup {s}
    /\ UNCHANGED <<settings, due, phase, manual, restarts>>

(* The run returns or raises; the guard is released in the finally. *)
StaysGuarded(s) ==                          \* mutant: no discard
    /\ s \in running
    /\ running' = running \ {s}
    /\ UNCHANGED <<settings, due, phase, queued, guard, manual, restarts>>
SourceEnds(s) ==
    /\ s \in running
    /\ running' = running \ {s}
    /\ guard' = guard \ {s}
    /\ UNCHANGED <<settings, due, phase, queued, manual, restarts>>

(* gather returns once every task has ended. *)
PassEnds ==
    /\ phase = "pass" /\ queued = {} /\ running = {}
    /\ IF backupOn /\ due /\ "backup" \notin guard
         THEN phase' = "backup" /\ guard' = guard \cup {"backup"}
         ELSE phase' = "sleep" /\ guard' = guard
    /\ UNCHANGED <<settings, due, queued, running, manual, restarts>>

(* do_backup sets last_backup if it was successful.  By then it may have    *)
(* been switched off.                                                       *)
BackupStaysGuarded(ok) ==                   \* mutant: discard only on success
    /\ phase = "backup"
    /\ phase' = "sleep"
    /\ guard' = IF ok THEN guard \ {"backup"} ELSE guard
    /\ due' = (due /\ ~ok)
    /\ UNCHANGED <<settings, queued, running, manual, restarts>>
BackupEnds(ok) ==
    /\ phase = "backup"
    /\ phase' = "sleep"
    /\ guard' = guard \ {"backup"}
    /\ due' = (due /\ ~ok)
    /\ UNCHANGED <<settings, queued, running, manual, restarts>>

-----------------------------------------------------------------------------
(* Users, time and the host. *)

Register ==
    /\ ~registered
    /\ registered' = TRUE
    /\ UNCHANGED <<enabled, backupOn, due, phase, queued, running, guard, manual, restarts>>

Toggle(s) ==
    /\ registered
    /\ enabled' = IF s \in enabled THEN enabled \ {s} ELSE enabled \cup {s}
    /\ UNCHANGED <<registered, backupOn, due, phase, queued, running, guard, manual, restarts>>

ToggleBackup ==
    /\ registered
    /\ backupOn' = ~backupOn
    /\ UNCHANGED <<registered, enabled, due, phase, queued, running, guard, manual, restarts>>

(* The "sync now" endpoints add a background task whatever runs already. *)
ManualStarts(s) ==
    /\ registered
    /\ manual[s] < MaxManual
    /\ manual' = [manual EXCEPT ![s] = @ + 1]
    /\ UNCHANGED <<settings, due, phase, queued, running, guard, restarts>>

ManualEnds(s) ==
    /\ manual[s] > 0
    /\ manual' = [manual EXCEPT ![s] = @ - 1]
    /\ UNCHANGED <<settings, due, phase, queued, running, guard, restarts>>

(* POST /backup/run: do_backup without the guard. *)
ManualBackup ==
    /\ backupOn /\ due
    /\ due' = FALSE
    /\ UNCHANGED <<settings, phase, queued, running, guard, manual, restarts>>

BackupFallsDue ==
    /\ ~due
    /\ due' = TRUE
    /\ UNCHANGED <<settings, phase, queued, running, guard, manual, restarts>>

Restart ==
    /\ restarts < MaxRestarts
    /\ restarts' = restarts + 1
    /\ Started
    /\ UNCHANGED <<settings, due>>

Next ==
    \/ StartPass \/ PassEnds
    \/ \E s \in Sources : RunSource(s) \/ SourceEnds(s)
    \/ \E ok \in BOOLEAN : BackupEnds(ok)
    \/ Register \/ ToggleBackup \/ ManualBackup \/ BackupFallsDue \/ Restart
    \/ \E s \in Sources : Toggle(s) \/ ManualStarts(s) \/ ManualEnds(s)

(* The event loop runs every task that can go on; a request that has a      *)
(* timeout is answered or fails; the sleep ends.  Nothing is assumed of a   *)
(* client without one.                                                      *)
Fairness ==
    /\ WF_vars(StartPass) /\ WF_vars(PassEnds)
    /\ WF_vars(\E ok \in BOOLEAN : BackupEnds(ok))
    /\ \A s \in Sources : WF_vars(RunSource(s))
    /\ \A s \in Sources \ NoTimeout : WF_vars(SourceEnds(s))

Spec == Init /\ [][Next]_vars /\ Fairness

-----------------------------------------------------------------------------
(* Properties. *)

(* Every client that waits without limit is answered, or fails, in the end. *)
ServersAnswer == \A h \in NoTimeout : []<>(h \notin running)

(* As long as servers answer: once there is an account, a source that stays *)
(* switched on is run again and again by the loop, whatever other runs,     *)
(* settings and restarts do (_background_sync_loop, _run_source).           *)
EnabledSourcesRun ==
    ServersAnswer =>
        \A s \in Sources : []<>(~registered \/ s \notin enabled \/ s \in running)

(* "Backup: run if enabled and due", as long as servers answer: a backup    *)
(* that stays due is tried again and again, although earlier ones failed.   *)
DueBackupsRun ==
    ServersAnswer => []<>(~registered \/ ~backupOn \/ ~due \/ phase = "backup")
=============================================================================
