----------------------------- MODULE LinkedInSync -----------------------------
(***************************************************************************)
(* The LinkedIn sync: one process-wide record `_state` and one global for  *)
(* the two-factor code, shared by every run, by the endpoints that start,  *)
(* watch and configure runs, and by the user who types the code.           *)
(*                                                                         *)
(* A run is a background task.  Started by hand (POST /run) it has a       *)
(* thread and an event loop of its own; started after an application was   *)
(* created it is a task of the main loop.  Either way other runs and the   *)
(* endpoints act between any two of its steps.  It logs in with the stored *)
(* cookies or with the stored credentials, stores the cookies it ends up   *)
(* with, scrapes, writes and reports.                                      *)
(***************************************************************************)
EXTENDS Naturals, FiniteSets

CONSTANTS
    Runs,       \* background tasks that may exist at the same time
    Accounts,   \* LinkedIn accounts the user may configure
    NoAccount,  \* no LinkedInSync row / session_cookies IS NULL
    MaxRuns     \* bound: how many runs are started

ASSUME LinkedInAssumption == NoAccount \notin Accounts /\ MaxRuns \in Nat

VARIABLES
    status,     \* _state["status"]
    code,       \* _2fa_code_input is not None
    pc,         \* where each run is
    account,    \* LinkedInSync.email, with the password that goes with it
    cookies,    \* LinkedInSync.session_cookies: the account they belong to
    creds,      \* the credentials each run read when it started
    jar,        \* the account whose session each run's browser holds
    started     \* how many runs have been started

vars == <<status, code, pc, account, cookies, creds, jar, started>>

Status == {"idle", "running", "done", "error", "needs_login", "needs_2fa"}
Steps  == {"off", "checked", "queued", "session", "login", "checkpoint", "failed",
           "loggedin", "work"}

(* A run counts from the moment its starter has claimed `_state`. *)
Active(r) == pc[r] \notin {"off", "checked"}

TypeOK ==
    /\ status \in Status
    /\ code \in BOOLEAN
    /\ pc \in [Runs -> Steps]
    /\ account \in Accounts \cup {NoAccount}
    /\ cookies \in Accounts \cup {NoAccount}
    /\ creds \in [Runs -> Accounts \cup {NoAccount}]
    /\ jar \in [Runs -> Accounts \cup {NoAccount}]
    /\ started \in Nat

Init ==
    /\ status = "idle" /\ code = FALSE
    /\ pc = [r \in Runs |-> "off"]
    /\ account = NoAccount /\ cookies = NoAccount
    /\ creds = [r \in Runs |-> NoAccount]
    /\ jar = [r \in Runs |-> NoAccount]
    /\ started = 0

Goto(r, there) == pc' = [pc EXCEPT ![r] = there]

-----------------------------------------------------------------------------
(* Starting a run: run_sync and run_individual_sync_if_idle.  Both look at  *)
(* the status and the configuration first and claim `_state` afterwards;    *)
(* run_sync runs in the thread pool, so anything may happen in between.     *)

MayStart == status # "running"

Check(r) ==
    /\ pc[r] = "off"
    /\ started < MaxRuns
    /\ MayStart
    /\ account # NoAccount
    /\ Goto(r, "checked")
    /\ started' = started + 1
    /\ UNCHANGED <<status, code, account, cookies, creds, jar>>

(* _reset_state() and status = "running". *)
Begin(r) ==
    /\ pc[r] = "checked"
    /\ status' = "running"
    /\ code' = FALSE
    /\ Goto(r, "queued")
    /\ UNCHANGED <<account, cookies, creds, jar, started>>

-----------------------------------------------------------------------------
(* _async_sync *)

(* The task ends with a verdict; its browser is closed. *)
End(r, verdict) ==
    /\ Goto(r, "off")
    /\ status' = verdict
    /\ creds' = [creds EXCEPT ![r] = NoAccount]
    /\ jar' = [jar EXCEPT ![r] = NoAccount]
    /\ UNCHANGED <<code, account, cookies, started>>

(* The task starts: the configuration is gone, or it is read. *)
NoConfig(r) == pc[r] = "queued" /\ account = NoAccount /\ End(r, "error")

ReadConfig(r) ==
    /\ pc[r] = "queued"
    /\ account # NoAccount
    /\ creds' = [creds EXCEPT ![r] = account]
    /\ jar' = [jar EXCEPT ![r] = cookies]
    /\ Goto(r, "session")
    /\ UNCHANGED <<status, code, account, cookies, started>>

(* The feed page shows whether the restored cookies are still good. *)
SessionValid(r) ==
    /\ pc[r] = "session"
    /\ jar[r] # NoAccount
    /\ Goto(r, "loggedin")
    /\ UNCHANGED <<status, code, account, cookies, creds, jar, started>>

SessionExpired(r) ==
    /\ pc[r] = "session"
    /\ jar' = [jar EXCEPT ![r] = NoAccount]
    /\ Goto(r, "login")
    /\ UNCHANGED <<status, code, account, cookies, creds, started>>

(* _login: accepted at once.  wait_for_url lets uas/login pass as well, so a *)
(* refused password may be taken for a login; the cookies are nobody's then *)
(* and the next run finds its session expired.                              *)
LoginAccepted(r) ==
    /\ pc[r] = "login"
    /\ \E who \in {creds[r], NoAccount} : jar' = [jar EXCEPT ![r] = who]
    /\ Goto(r, "loggedin")
    /\ UNCHANGED <<status, code, account, cookies, creds, started>>

(* No form found, ... *)
LoginFormMissing(r) ==
    /\ pc[r] = "login"
    /\ status' = "needs_login"
    /\ Goto(r, "failed")
    /\ UNCHANGED <<code, account, cookies, creds, jar, started>>

(* ... an exception, here or at the checkpoint below, which only adds to    *)
(* `errors`, ...                                                            *)
LoginRaises(r) ==
    /\ pc[r] \in {"login", "checkpoint"}
    /\ Goto(r, "failed")
    /\ UNCHANGED <<status, code, account, cookies, creds, jar, started>>

(* ... or a checkpoint: _handle_2fa_checkpoint forgets any earlier code and *)
(* asks for one.                                                            *)
AskMisspelt(r) ==                          \* mutant: a status nobody knows
    /\ pc[r] = "login"
    /\ code' = FALSE
    /\ status' = "needs_code"
    /\ Goto(r, "checkpoint")
    /\ UNCHANGED <<account, cookies, creds, jar, started>>
AskForCode(r) ==
    /\ pc[r] = "login"
    /\ code' = FALSE
    /\ status' = "needs_2fa"
    /\ Goto(r, "checkpoint")
    /\ UNCHANGED <<account, cookies, creds, jar, started>>

PushApproved(r) ==
    /\ pc[r] = "checkpoint"
    /\ status' = "running"
    /\ jar' = [jar EXCEPT ![r] = creds[r]]
    /\ Goto(r, "loggedin")
    /\ UNCHANGED <<code, account, cookies, creds, started>>

(* The loop of _handle_2fa_checkpoint finds a code, takes it, and LinkedIn   *)
(* accepts it or not.                                                       *)
TakeCode(r) ==
    /\ pc[r] = "checkpoint"
    /\ code
    /\ code' = FALSE
    /\ \/ /\ status' = "running"
          /\ jar' = [jar EXCEPT ![r] = creds[r]]
          /\ Goto(r, "loggedin")
       \/ /\ status' = "error"
          /\ Goto(r, "failed")
          /\ UNCHANGED jar
    /\ UNCHANGED <<account, cookies, creds, started>>

NoDeadline(r) == pc[r] = "checkpoint" /\ UNCHANGED vars     \* mutant: endless loop

(* The five minutes of the same loop are over. *)
CodeTimeout(r) ==
    /\ pc[r] = "checkpoint"
    /\ status' = "error"
    /\ Goto(r, "failed")
    /\ UNCHANGED <<code, account, cookies, creds, jar, started>>

LeaveStatus(r) == pc[r] = "failed" /\ End(r, status)     \* mutant: no verdict set

(* _login returned False: "error" unless the status says "needs_login". *)
LoginFailed(r) ==
    /\ pc[r] = "failed"
    /\ End(r, IF status # "needs_login" THEN "error" ELSE status)

(* cfg.session_cookies = ...; _commit_with_retry(db).  The UPDATE names the *)
(* row by its id only.                                                      *)
SaveCookies(r) ==
    /\ pc[r] = "loggedin"
    /\ account # NoAccount
    /\ cookies' = jar[r]
    /\ Goto(r, "work")
    /\ UNCHANGED <<status, code, account, creds, jar, started>>

(* The commit meets a locked database: the rollback of _commit_with_retry   *)
(* drops the change, and the commit it tries again has nothing to write.    *)
CookiesDropped(r) ==
    /\ pc[r] = "loggedin"
    /\ Goto(r, "work")
    /\ UNCHANGED <<status, code, account, cookies, creds, jar, started>>

(* The row is gone, so the UPDATE fails; or the browser, the page or the    *)
(* database fails at any later step: `except Exception`.                    *)
SaveFails(r) == pc[r] = "loggedin" /\ account = NoAccount /\ End(r, "error")
RunRaises(r) == pc[r] \in {"session", "loggedin", "work"} /\ End(r, "error")

FinishSilently(r) == pc[r] = "work" /\ End(r, status)  \* mutant: no verdict set
Finish(r) == pc[r] = "work" /\ End(r, "done")

-----------------------------------------------------------------------------
(* The other endpoints, and the process. *)

(* save_config: new credentials, and the old cookies dropped with them. *)
SaveConfig(a) ==
    /\ account' = a
    /\ cookies' = NoAccount
    /\ UNCHANGED <<status, code, pc, creds, jar, started>>

ClearSession ==
    /\ cookies' = NoAccount
    /\ UNCHANGED <<status, code, pc, account, creds, jar, started>>

(* delete_config deletes the row and resets `_state`, run or no run. *)
DeleteConfig ==
    /\ account' = NoAccount /\ cookies' = NoAccount
    /\ status' = "idle" /\ code' = FALSE
    /\ UNCHANGED <<pc, creds, jar, started>>

SubmitCode ==
    /\ status = "needs_2fa"
    /\ code' = TRUE
    /\ UNCHANGED <<status, pc, account, cookies, creds, jar, started>>

(* The process restarts: `_state` is module data, the row is not. *)
Restart ==
    /\ status' = "idle" /\ code' = FALSE
    /\ pc' = [r \in Runs |-> "off"]
    /\ creds' = [r \in Runs |-> NoAccount]
    /\ jar' = [r \in Runs |-> NoAccount]
    /\ UNCHANGED <<account, cookies, started>>

-----------------------------------------------------------------------------
(* What a task does by itself: every wait of it has a timeout. *)
TaskStep(r) ==
    \/ NoConfig(r) \/ ReadConfig(r)
    \/ SessionValid(r) \/ SessionExpired(r)
    \/ LoginAccepted(r) \/ LoginFormMissing(r) \/ AskForCode(r)
    \/ TakeCode(r) \/ CodeTimeout(r) \/ LoginFailed(r)
    \/ SaveCookies(r) \/ CookiesDropped(r) \/ SaveFails(r)
    \/ Finish(r)

(* What may happen to it. *)
TaskEvent(r) == LoginRaises(r) \/ PushApproved(r) \/ RunRaises(r)

UserStep ==
    \/ \E a \in Accounts : SaveConfig(a)
    \/ ClearSession
    \/ DeleteConfig
    \/ SubmitCode

Next ==
    \/ \E r \in Runs : Check(r) \/ Begin(r) \/ TaskStep(r) \/ TaskEvent(r)
    \/ UserStep
    \/ Restart

(* asyncio and the thread pool keep running what has been started; nobody   *)
(* has to approve a push notification or type a code.                       *)
Fairness == \A r \in Runs : WF_vars(Begin(r)) /\ WF_vars(TaskStep(r))

Spec == Init /\ [][Next]_vars /\ Fairness

-----------------------------------------------------------------------------
(* Properties. *)

(* The status never says that a sync is under way when none is: such a      *)
(* status would refuse every later sync until the process restarts.         *)
StatusTruthful ==
    status \in {"running", "needs_2fa"} => \E r \in Runs : Active(r)

(* A sync that asked for a code stops asking, even if nobody ever answers.  *)
PromptEnds == (status = "needs_2fa") ~> (status # "needs_2fa")

(* Whatever runs are started, and however they overlap, the status comes to *)
(* rest and a new sync can be started again.                                *)
SyncAvailable == (status = "running") ~> MayStart
=============================================================================
