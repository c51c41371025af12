-------------------------- MODULE LinkedInSync_proofs --------------------------
(***************************************************************************)
(* For any number of overlapping runs, restarts and reconfigurations, the  *)
(* shared status does not claim a sync that does not exist.                *)
(***************************************************************************)
EXTENDS LinkedInSync, TLAPS

(* What every step does to the run it is a step of: either the run stays    *)
(* (or becomes) active, or it ends with a verdict that claims no sync.      *)
LEMMA TaskKeepsPromise ==
  ASSUME TypeOK, NEW r \in Runs, TaskStep(r) \/ TaskEvent(r)
  PROVE  Active(r)' \/ status' \notin {"running", "needs_2fa"}
<1>1. pc \in [Runs -> Steps]
  BY DEF TypeOK
<1>2. ASSUME NEW verdict \in {"done", "error", "needs_login"}, End(r, verdict)
      PROVE  status' \notin {"running", "needs_2fa"}
  BY <1>2 DEF End
<1>3. ASSUME NEW there \in {"session", "login", "checkpoint", "failed", "loggedin", "work"},
             Goto(r, there)
      PROVE  Active(r)'
  BY <1>1, <1>3 DEF Goto, Active
<1>4. CASE NoConfig(r) \/ SaveFails(r) \/ RunRaises(r) \/ Finish(r) \/ LoginFailed(r)
  BY <1>4, <1>2 DEF NoConfig, SaveFails, RunRaises, Finish, LoginFailed
<1>5. CASE \/ ReadConfig(r) \/ SessionValid(r) \/ SessionExpired(r)
           \/ LoginAccepted(r) \/ LoginFormMissing(r) \/ AskForCode(r)
  BY <1>5, <1>3 DEF ReadConfig, SessionValid, SessionExpired, LoginAccepted,
     LoginFormMissing, AskForCode
<1>6. CASE \/ TakeCode(r) \/ CodeTimeout(r) \/ SaveCookies(r) \/ CookiesDropped(r)
           \/ LoginRaises(r) \/ PushApproved(r)
  BY <1>6, <1>3 DEF TakeCode, CodeTimeout, SaveCookies, CookiesDropped, LoginRaises,
     PushApproved
<1> QED BY <1>4, <1>5, <1>6 DEF TaskStep, TaskEvent

LEMMA TypeStep == TypeOK /\ [Next]_vars => TypeOK'
<1> SUFFICES ASSUME TypeOK, [Next]_vars PROVE TypeOK'
  OBVIOUS
<1>1. ASSUME NEW r \in Runs, Check(r) \/ Begin(r) PROVE TypeOK'
  <2>1. CASE Check(r)
    <3>1. started' \in Nat
      BY <2>1 DEF Check, TypeOK
    <3> QED BY <2>1, <3>1 DEF TypeOK, Check, Goto, Steps
  <2>2. CASE Begin(r)
    BY <2>2 DEF TypeOK, Begin, Goto, Status, Steps
  <2> QED BY <1>1, <2>1, <2>2
<1>2. ASSUME NEW r \in Runs, NEW v \in Status, End(r, v) PROVE TypeOK'
  BY <1>2 DEF TypeOK, End, Goto, Steps
<1>3. ASSUME NEW r \in Runs, TaskStep(r) \/ TaskEvent(r)
      PROVE  TypeOK'
  <2>1. CASE NoConfig(r) \/ SaveFails(r) \/ RunRaises(r) \/ Finish(r) \/ LoginFailed(r)
    <3>1. \A v \in {"done", "error", "needs_login"} : v \in Status
      BY DEF Status
    <3> QED BY <2>1, <3>1, <1>2
        DEF NoConfig, SaveFails, RunRaises, Finish, LoginFailed
  <2>2. CASE \/ ReadConfig(r) \/ SessionValid(r) \/ SessionExpired(r)
             \/ LoginAccepted(r) \/ LoginFormMissing(r) \/ AskForCode(r)
    BY <2>2 DEF TypeOK, ReadConfig, SessionValid, SessionExpired, LoginAccepted,
       LoginFormMissing, AskForCode, Goto, Steps, Status
  <2>3. CASE \/ TakeCode(r) \/ CodeTimeout(r) \/ SaveCookies(r) \/ CookiesDropped(r)
             \/ LoginRaises(r) \/ PushApproved(r)
    BY <2>3 DEF TypeOK, TakeCode, CodeTimeout, SaveCookies, CookiesDropped,
       LoginRaises, PushApproved, Goto, Steps, Status
  <2> QED BY <1>3, <2>1, <2>2, <2>3 DEF TaskStep, TaskEvent
<1>4. CASE UserStep \/ Restart
  BY <1>4 DEF TypeOK, UserStep, SaveConfig, ClearSession, DeleteConfig, SubmitCode,
     Restart, Status, Steps
<1>5. CASE UNCHANGED vars
  BY <1>5 DEF TypeOK, vars
<1> QED BY <1>1, <1>2, <1>3, <1>4, <1>5 DEF Next

LEMMA TruthStep == TypeOK /\ StatusTruthful /\ [Next]_vars => StatusTruthful'
<1> SUFFICES ASSUME TypeOK, StatusTruthful, [Next]_vars PROVE StatusTruthful'
  OBVIOUS
<1>0. pc \in [Runs -> Steps]
  BY DEF TypeOK
<1>1. ASSUME NEW r \in Runs, Check(r) PROVE StatusTruthful'
  <2>1. \A q \in Runs : Active(q) => Active(q)'
    BY <1>0, <1>1 DEF Check, Goto, Active
  <2> QED BY <1>1, <2>1 DEF Check, StatusTruthful
<1>2. ASSUME NEW r \in Runs, Begin(r) PROVE StatusTruthful'
  BY <1>0, <1>2 DEF Begin, Goto, Active, StatusTruthful
<1>3. ASSUME NEW r \in Runs, TaskStep(r) \/ TaskEvent(r) PROVE StatusTruthful'
  BY <1>3, TaskKeepsPromise DEF StatusTruthful
<1>4. CASE UserStep
  <2>1. pc' = pc /\ (status' = status \/ status' = "idle")
    BY <1>4 DEF UserStep, SaveConfig, ClearSession, DeleteConfig, SubmitCode
  <2> QED BY <2>1 DEF StatusTruthful, Active
<1>5. CASE Restart
  BY <1>5 DEF Restart, StatusTruthful
<1>6. CASE UNCHANGED vars
  BY <1>6 DEF vars, StatusTruthful, Active
<1> QED BY <1>1, <1>2, <1>3, <1>4, <1>5, <1>6 DEF Next

LEMMA InitTypes == Init => TypeOK
<1> SUFFICES ASSUME Init PROVE TypeOK
  OBVIOUS
<1>1. code \in BOOLEAN
  BY Zenon DEF Init
<1>2. status \in Status /\ account = NoAccount /\ cookies = NoAccount /\ started \in Nat
  BY DEF Init, Status
<1>3. /\ pc \in [Runs -> Steps]
      /\ creds \in [Runs -> Accounts \cup {NoAccount}]
      /\ jar \in [Runs -> Accounts \cup {NoAccount}]
  BY DEF Init, Steps
<1> QED BY <1>1, <1>2, <1>3 DEF TypeOK

(* The shared record and every run stay within the states their type names, *)
(* so that whoever polls the status gets one the page knows.                *)
THEOREM TypeCorrect == Spec => []TypeOK
<1> QED BY InitTypes, TypeStep, PTL DEF Spec

(* The status never says that a sync is under way when none is, however     *)
(* runs overlap, fail, time out or are reset by the configuration endpoint. *)
THEOREM StatusIsTruthful == Spec => []StatusTruthful
<1>1. Init => TypeOK /\ StatusTruthful
  BY InitTypes DEF Init, StatusTruthful
<1>2. TypeOK /\ StatusTruthful /\ [Next]_vars => (TypeOK /\ StatusTruthful)'
  BY TypeStep, TruthStep
<1> QED BY <1>1, <1>2, PTL DEF Spec
=============================================================================
