---------------------------- MODULE BackupDelivery ----------------------------
(***************************************************************************)
(* A backup from end to end: do_backup of the backend sends a bundle and   *)
(* awaits the agent's answer (agent_post, 30 s), the agent writes it and   *)
(* rotates the folder (BackupRotation), and only after the answer is       *)
(* last_backup committed and the backup reported as successful.            *)
(*                                                                         *)
(* The two ends fail by themselves: the backend may give up or die while   *)
(* the agent goes on, the agent may die after it has written the file, the *)
(* commit may find the database locked.  Nothing keeps a backup started by *)
(* hand from running beside the hourly one.                                *)
(*                                                                         *)
(* A bundle is named after the second in which it was sent, so two calls   *)
(* of one second share a path.  Files are known here by the time they were *)
(* written, as in BackupRotation; `second` gives each its path.            *)
(***************************************************************************)
EXTENDS BackupRotation

CONSTANTS
    SecondOf,  \* the second of each time
    NoFile     \* a call whose bundle the agent has not written

ASSUME DeliveryAssumption ==
    /\ SecondOf \in [Times -> Nat]
    /\ NoFile \notin Times

VARIABLES
    call,      \* do_backup: "off", "waiting" for the agent, "commit" due
    http,      \* its request: on its way or being served, or how it was answered
    second,    \* the second in the file name of its bundle
    file,      \* what the agent wrote for it
    named,     \* history: the second in the name of each file ever written
    reported   \* history: the files of the backups reported as successful

deliveryVars == <<rotationVars, call, http, second, file, named, reported>>

DeliveryTypeOK ==
    /\ RotationTypeOK
    /\ call \in [Writers -> {"off", "waiting", "commit"}]
    /\ http \in [Writers -> {"none", "request", "ok", "error"}]
    /\ second \in [Writers -> Nat]
    /\ file \in [Writers -> taken \cup {NoFile}]
    /\ named \in [taken -> Nat]
    /\ reported \subseteq taken

DeliveryInit ==
    /\ RotationInit
    /\ call = [w \in Writers |-> "off"] /\ http = [w \in Writers |-> "none"]
    /\ second = [w \in Writers |-> 0] /\ file = [w \in Writers |-> NoFile]
    /\ named = [f \in {} |-> 0] /\ reported = {}

backendVars == <<call, second, reported>>
agentVars == <<rotationVars, file, named>>

-----------------------------------------------------------------------------
(* The backend: do_backup from agent_post on. *)

(* A call that its backend has given up keeps its request until the agent   *)
(* is done with it.                                                         *)
Send(w) ==
    /\ call[w] = "off" /\ http[w] # "request"
    /\ call' = [call EXCEPT ![w] = "waiting"]
    /\ http' = [http EXCEPT ![w] = "request"]
    /\ second' = [second EXCEPT ![w] = SecondOf[now]]
    /\ file' = [file EXCEPT ![w] = NoFile]
    /\ UNCHANGED <<rotationVars, named, reported>>

(* Status 200: cfg.last_backup is set, ... *)
Accepted(w) ==
    /\ call[w] = "waiting" /\ http[w] = "ok"
    /\ call' = [call EXCEPT ![w] = "commit"]
    /\ UNCHANGED <<agentVars, http, second, reported>>

(* ... or any other status, or an exception. *)
StatusIgnored(w) ==                         \* mutant: status_code not looked at
    /\ call[w] = "waiting" /\ http[w] = "error"
    /\ call' = [call EXCEPT ![w] = "commit"]
    /\ UNCHANGED <<agentVars, http, second, reported>>
Refused(w) ==
    /\ call[w] = "waiting" /\ http[w] = "error"
    /\ call' = [call EXCEPT ![w] = "off"]
    /\ UNCHANGED <<agentVars, http, second, reported>>

(* The timeout of agent_post, or a connection lost with the answer on it:   *)
(* reported as failed, whatever the agent does or has done.                 *)
GivesUp(w) ==
    /\ call[w] = "waiting"
    /\ call' = [call EXCEPT ![w] = "off"]
    /\ UNCHANGED <<agentVars, http, second, reported>>

Recorded(w) ==
    /\ call[w] = "commit"
    /\ call' = [call EXCEPT ![w] = "off"]
    /\ reported' = reported \cup {file[w]}
    /\ UNCHANGED <<agentVars, http, second>>

(* db.commit() raises: reported as failed although the file is there. *)
CommitFails(w) ==
    /\ call[w] = "commit"
    /\ call' = [call EXCEPT ![w] = "off"]
    /\ UNCHANGED <<agentVars, http, second, reported>>

BackendDies ==
    /\ call' = [w \in Writers |-> "off"]
    /\ UNCHANGED <<agentVars, http, second, reported>>

-----------------------------------------------------------------------------
(* The agent: write_backup, served for whoever asked, still there or not. *)

SamePath(f) == {g \in files : named[g] = named[f]}
PathOf(w) == {g \in files : named[g] = second[w]}

(* write_bytes() writes over a bundle of the same second. *)
Store(w) ==
    /\ http[w] = "request"
    /\ stage[w] = "idle"
    /\ now < MaxTime
    /\ files' = (files \ PathOf(w)) \cup {now}
    /\ taken' = taken \cup {now}
    /\ now' = now + 1
    /\ stage' = [stage EXCEPT ![w] = "written"]
    /\ file' = [file EXCEPT ![w] = now]
    /\ named' = [f \in taken' |-> IF f = now THEN second[w] ELSE named[f]]
    /\ UNCHANGED <<doomed, backendVars, http>>

(* The folder cannot be made or written to: nothing is stored. *)
StoreFails(w) ==
    /\ http[w] = "request" /\ stage[w] = "idle"
    /\ http' = [http EXCEPT ![w] = "error"]
    /\ UNCHANGED <<agentVars, backendVars>>

(* The listing is of paths, and a path is deleted whatever it holds by now. *)
List(w) == ListFolder(w) /\ UNCHANGED <<file, named, backendVars, http>>

Delete(w, f) ==
    /\ f \in doomed[w]
    /\ files' = files \ SamePath(f)
    /\ doomed' = [doomed EXCEPT ![w] = @ \ {f}]
    /\ UNCHANGED <<now, stage, taken, file, named, backendVars, http>>

(* The listing stumbles over a file that another request deletes, or a file *)
(* cannot be deleted: status 500 for a bundle that is in the folder.        *)
RotationFails(w) ==
    /\ ListFails(w) \/ UnlinkFails(w)
    /\ http' = [http EXCEPT ![w] = "error"]
    /\ UNCHANGED <<file, named, backendVars>>

Answer(w) ==
    /\ Return(w)
    /\ http' = [http EXCEPT ![w] = "ok"]
    /\ UNCHANGED <<file, named, backendVars>>

(* Requests being served, or on their way, end in a connection error. *)
AgentStops ==
    /\ AgentDies
    /\ http' = [w \in Writers |-> IF http[w] = "request" THEN "error" ELSE http[w]]
    /\ UNCHANGED <<file, named, backendVars>>

-----------------------------------------------------------------------------
Backend(w) ==
    \/ Accepted(w) \/ Refused(w) \/ GivesUp(w) \/ Recorded(w) \/ CommitFails(w)

Agent(w) ==
    \/ Store(w) \/ StoreFails(w) \/ List(w) \/ RotationFails(w) \/ Answer(w)
    \/ \E f \in doomed[w] : Delete(w, f)

Others ==
    \/ BackendDies \/ AgentStops
    \/ Tick /\ UNCHANGED <<file, named, backendVars, http>>

DeliveryNext ==
    \/ \E w \in Writers : Send(w) \/ Backend(w) \/ Agent(w)
    \/ Others

DeliverySpec == DeliveryInit /\ [][DeliveryNext]_deliveryVars

(* No two calls in one second. *)
Requested == {w \in Writers : http[w] = "request"}
FreshSecond ==
    /\ \A w \in Requested : second[w] # SecondOf[now]
    /\ \A f \in taken : named[f] # SecondOf[now]

OneASecondNext ==
    \/ \E w \in Writers : FreshSecond /\ Send(w)
    \/ \E w \in Writers : Backend(w) \/ Agent(w)
    \/ Others

OneASecondSpec == DeliveryInit /\ [][OneASecondNext]_deliveryVars

-----------------------------------------------------------------------------
(* Properties. *)

(* "success" (and a last_backup, from which the loop counts to the next     *)
(* backup) is not said of a bundle that is not there: a backup reported as  *)
(* successful is in the folder, or has made way for keep_count later ones   *)
(* that are; however calls overlap, answers are lost and either end dies    *)
(* (do_backup and write_backup).                                            *)
ReportedIsKept ==
    \A f \in reported :
        f \in files \/ Cardinality({g \in files : g > f}) >= KeepHourly
=============================================================================
