---------------------------- MODULE BackupRotation ----------------------------
(***************************************************************************)
(* The backup folder on the user's computer: the agent writes the bundles  *)
(* it is sent and rotates old ones out in three tiers (write_backup and    *)
(* _select_files_to_keep of agent/routers/backup.py).                      *)
(*                                                                         *)
(* write_backup is a plain `def` endpoint, so two requests (the hourly one *)
(* and a manual one) run in two threads: each writes its file, lists the   *)
(* folder, and then deletes one file after the other.  A file is known by  *)
(* its modification time; its day and week are those of the host's clock.  *)
(***************************************************************************)
EXTENDS Naturals, FiniteSets

CONSTANTS
    Writers,     \* requests that may be served at the same time
    MaxTime,     \* bound: the clock stops here
    DayOf,       \* the calendar day of each time
    WeekOf,      \* the ISO (year, week) of each time
    KeepHourly,  \* keep_count
    KeepDaily,   \* keep_daily
    KeepWeekly   \* keep_weekly

Times == 0..MaxTime

(* save_settings stores max(1, keep_count), max(0, keep_daily), ... *)
ASSUME RotationAssumption ==
    /\ MaxTime \in Nat
    /\ DayOf \in [Times -> Nat] /\ WeekOf \in [Times -> Nat]
    /\ KeepHourly \in Nat \ {0} /\ KeepDaily \in Nat /\ KeepWeekly \in Nat

VARIABLES
    now,      \* the host's clock
    files,    \* the backups in the folder
    stage,    \* where each request is
    doomed,   \* what each request has yet to delete
    taken     \* history: every backup that was ever written

rotationVars == <<now, files, stage, doomed, taken>>

RotationTypeOK ==
    /\ now \in Times
    /\ files \subseteq taken
    /\ taken \subseteq Times
    /\ stage \in [Writers -> {"idle", "written", "rotating"}]
    /\ doomed \in [Writers -> SUBSET taken]

RotationInit ==
    /\ now = 0
    /\ files = {} /\ taken = {}
    /\ stage = [w \in Writers |-> "idle"]
    /\ doomed = [w \in Writers |-> {}]

-----------------------------------------------------------------------------
(* _select_files_to_keep *)

(* The n greatest members of S: sorted(S, reverse=True)[:n]. *)
Newest(n, S) == {x \in S : Cardinality({y \in S : y > x}) < n}

PeriodsOf(F, period) == {period[f] : f \in F}

(* One file, the newest, of each of the n latest periods (days, weeks) that *)
(* have a file in F.                                                        *)
OldestPeriods(F, period, n) ==          \* mutant: sorted() without reverse
    {f \in F : /\ \A g \in F : period[g] = period[f] => g <= f
               /\ Cardinality({p \in PeriodsOf(F, period) : p < period[f]}) < n}
EveryPeriod(F, period, n) ==            \* mutant: the slice [:n] is missing
    {f \in F : \A g \in F : period[g] = period[f] => g <= f}
Tier(F, period, n) ==
    {f \in F : /\ \A g \in F : period[g] = period[f] => g <= f
               /\ period[f] \in Newest(n, PeriodsOf(F, period))}

Hourly(F) == Newest(KeepHourly, F)
Daily(F)  == Tier(F \ Hourly(F), DayOf, KeepDaily)
Weekly(F) == Tier(F \ (Hourly(F) \cup Daily(F)), WeekOf, KeepWeekly)

TiersOnly(F) == Daily(F) \cup Weekly(F) \* mutant: the newest files forgotten
Kept(F) == Hourly(F) \cup Daily(F) \cup Weekly(F)

-----------------------------------------------------------------------------
(* write_backup *)

(* (target_dir / body.filename).write_bytes(data) *)
WriteFile(w) ==
    /\ stage[w] = "idle"
    /\ now < MaxTime
    /\ files' = files \cup {now}
    /\ taken' = taken \cup {now}
    /\ now' = now + 1
    /\ stage' = [stage EXCEPT ![w] = "written"]
    /\ UNCHANGED doomed

(* The folder is listed and the files to keep are selected. *)
ListFolder(w) ==
    /\ stage[w] = "written"
    /\ doomed' = [doomed EXCEPT ![w] = files \ Kept(files)]
    /\ stage' = [stage EXCEPT ![w] = "rotating"]
    /\ UNCHANGED <<now, files, taken>>

(* Another request deletes a file between f.is_file() and f.stat(): this    *)
(* one ends in an error with its file written and nothing rotated.          *)
ListFails(w) ==
    /\ stage[w] = "written"
    /\ \E v \in Writers \ {w} : doomed[v] # {}
    /\ stage' = [stage EXCEPT ![w] = "idle"]
    /\ UNCHANGED <<now, files, doomed, taken>>

(* path.unlink(missing_ok=True) *)
Unlink(w, f) ==
    /\ f \in doomed[w]
    /\ files' = files \ {f}
    /\ doomed' = [doomed EXCEPT ![w] = @ \ {f}]
    /\ UNCHANGED <<now, stage, taken>>

(* unlink() raises: the rest of the listing stays in the folder. *)
UnlinkFails(w) ==
    /\ stage[w] = "rotating"
    /\ doomed[w] # {}
    /\ doomed' = [doomed EXCEPT ![w] = {}]
    /\ stage' = [stage EXCEPT ![w] = "idle"]
    /\ UNCHANGED <<now, files, taken>>

Return(w) ==
    /\ stage[w] = "rotating"
    /\ doomed[w] = {}
    /\ stage' = [stage EXCEPT ![w] = "idle"]
    /\ UNCHANGED <<now, files, doomed, taken>>

(* The agent dies: a rotation may be left half done. *)
AgentDies ==
    /\ stage' = [w \in Writers |-> "idle"]
    /\ doomed' = [w \in Writers |-> {}]
    /\ UNCHANGED <<now, files, taken>>

(* Time passes without a backup: the computer sleeps, the agent is down. *)
Tick ==
    /\ now < MaxTime
    /\ now' = now + 1
    /\ UNCHANGED <<files, stage, doomed, taken>>

RotationNext ==
    \/ \E w \in Writers :
          \/ WriteFile(w) \/ ListFolder(w) \/ ListFails(w)
          \/ UnlinkFails(w) \/ Return(w)
          \/ \E f \in doomed[w] : Unlink(w, f)
    \/ AgentDies
    \/ Tick

RotationSpec == RotationInit /\ [][RotationNext]_rotationVars

-----------------------------------------------------------------------------
(* Properties. *)

(* A mistake noticed days later can be undone: each of the keep_daily most  *)
(* recent days on which a backup was ever taken still has one, at every     *)
(* moment of every rotation.                                                *)
DaysRecoverable ==
    \A d \in Newest(KeepDaily, PeriodsOf(taken, DayOf)) :
        \E f \in files : DayOf[f] = d

(* The same for weeks, although files reach the weekly tier only after the  *)
(* daily one has dropped them.                                              *)
WeeksRecoverable ==
    \A k \in Newest(KeepWeekly, PeriodsOf(taken, WeekOf)) :
        \E f \in files : WeekOf[f] = k

(* "the keep_hourly most recent files, unconditionally", also those another *)
(* request has written since this one listed the folder.                    *)
LatestKept == Newest(KeepHourly, taken) \subseteq files

(* A rotation that runs to its end leaves no more files than the tiers have *)
(* room for, and what other requests wrote after it had listed the folder.  *)
FolderBounded ==
    [][\A w \in Writers :
          ListFolder(w) => Cardinality(files \ doomed'[w])
                              <= KeepHourly + KeepDaily + KeepWeekly]_rotationVars
=============================================================================
