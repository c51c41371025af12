-------------------------- MODULE TargetedSync_proofs --------------------------
(***************************************************************************)
(* However many targeted and account-wide runs overlap, fail and restart,  *)
(* and whatever people do beside them: what is committed implements        *)
(* ItemSource, no run files an entry on the strength of a contact it has   *)
(* just created, what the ledger knows is on a timeline unless it was too  *)
(* old or deleted on request, and whoever polls for a result gets one.     *)
(***************************************************************************)
EXTENDS TargetedSync, TLAPS, FiniteSetTheorems, WellFoundedInduction

-----------------------------------------------------------------------------
(* Keys, days and counts.                                                   *)

(* Every key says which item it is of, and no two items share one.          *)
LEMMA KeysOfItems ==
  /\ \A i \in Items : /\ RunKey(i) \in Keys /\ BatchKey(i) \in Keys /\ LiveKey(i) \in Keys
                      /\ RunKey(i)[1] = i /\ BatchKey(i)[1] = i /\ LiveKey(i)[1] = i
  /\ \A i \in Asks : SuggestionKey(i) \in Keys /\ SuggestionKey(i)[1] = i
  /\ \A k \in Keys : k[1] \in Items
<1>1. Asks \subseteq Items
  BY TargetedAssumption
<1>2. \A i \in Items : RunKey(i)[1] = i /\ BatchKey(i)[1] = i /\ LiveKey(i)[1] = i
  BY DEF RunKey, BatchKey, LiveKey, Key
<1>3. \A i \in Asks : SuggestionKey(i)[1] = i
  BY DEF SuggestionKey, Key
<1> QED BY <1>1, <1>2, <1>3 DEF Keys

(* A non-empty set of days has a first one.                                 *)
LEMMA MinIsLeast ==
  ASSUME NEW S, S \subseteq Nat, S # {}
  PROVE  Min(S) \in S /\ \A y \in S : Min(S) =< y
<1> DEFINE R == StrictSubsetOrdering(Nat)
           Before(x) == 0..(x - 1)
           T == {Before(x) : x \in S}
<1>1. T \subseteq FiniteSubsetsOf(Nat) /\ T # {}
  <2>1. \A x \in S : IsFiniteSet(Before(x)) /\ Before(x) \subseteq Nat
    BY FS_Interval
  <2> QED BY <2>1 DEF FiniteSubsetsOf
<1>2. PICK A \in T : \A B \in T : ~(<<B, A>> \in R)
  <2>1. IsWellFoundedOn(R, FiniteSubsetsOf(Nat))
    BY FS_StrictSubsetOrderingWellFounded
  <2> HIDE DEF R, T
  <2> QED BY <1>1, <2>1, WFMin
<1>3. PICK x \in S : A = Before(x)
  OBVIOUS
<1>4. ASSUME NEW y \in S, y < x PROVE FALSE
  <2>1. y \in Nat /\ x \in Nat
    OBVIOUS
  <2>2. Before(y) \subseteq Before(x)
    BY <1>4, <2>1
  <2>3. y \in Before(x) /\ y \notin Before(y)
    BY <1>4, <2>1
  <2>4. Before(y) \subseteq Nat /\ Before(x) \subseteq Nat
    OBVIOUS
  <2>5. Before(y) \in T
    OBVIOUS
  <2> HIDE DEF Before, T
  <2>6. <<Before(y), A>> \in R
    BY <1>3, <2>2, <2>3, <2>4 DEF StrictSubsetOrdering
  <2> QED BY <1>2, <2>5, <2>6
<1>5. \A y \in S : x =< y
  BY <1>4
<1> QED BY <1>5 DEF Min

(* The floor of an application is a day or none.                            *)
LEMMA FloorType ==
  ASSUME TypeOK, NEW a \in Apps
  PROVE  Floor(a) \in Nat \cup {NoDay}
<1>1. DatedDays(a) \subseteq Nat
  <2>1. Start[a] \in Nat \cup {NoDay}
    BY TargetedAssumption
  <2>2. \A k \in Keys : Day[k[1]] \in Nat \cup {NoDay}
    BY KeysOfItems, TargetedAssumption
  <2> QED BY <2>1, <2>2 DEF DatedDays
<1> QED BY <1>1, MinIsLeast DEF Floor

(* Adding or clearing entries leaves counts.                               *)
LEMMA CountsStayCounts ==
  ASSUME filed \in [Apps \X Keys -> Nat], NEW pairs
  PROVE  /\ Plus(pairs) \in [Apps \X Keys -> Nat]
         /\ Minus(pairs) \in [Apps \X Keys -> Nat]
<1>1. DOMAIN filed = Apps \X Keys /\ \A p \in Apps \X Keys : filed[p] \in Nat
  OBVIOUS
<1>2. \A p \in Apps \X Keys : filed[p] + (IF p \in pairs THEN 1 ELSE 0) \in Nat
  BY <1>1
<1>3. \A p \in Apps \X Keys : (IF p \in pairs THEN 0 ELSE filed[p]) \in Nat
  BY <1>1
<1> QED BY <1>1, <1>2, <1>3 DEF Plus, Minus

-----------------------------------------------------------------------------
(* Types.                                                                   *)

(* What a run holds is replaced by parts of their types.                    *)
LEMMA RunParts ==
  ASSUME NEW r \in Run
  PROVE  /\ \A left \in SUBSET (Sources \cup {"mailbox"}), mails \in SUBSET Items :
              [r EXCEPT !.left = left, !.mails = mails] \in Run
         /\ \A left \in SUBSET (Sources \cup {"mailbox"}) : [r EXCEPT !.left = left] \in Run
         /\ \A at \in {"sources", "calls", "scoring"} : [r EXCEPT !.at = at] \in Run
         /\ \A vouched \in SUBSET People :
              [r EXCEPT !.at = "calls", !.vouched = vouched,
                        !.new = {}, !.marks = {}, !.met = {}] \in Run
<1> QED BY DEF Run

(* A flush, whether it fails or not, leaves a run.                         *)
LEMMA SaveType ==
  ASSUME TypeOK, NEW t \in Targeters, run[t] # Idle,
         NEW open, open \subseteq Items, NEW source, Save(t, open, source)
  PROVE  /\ run' \in [Targeters -> Run \cup {Idle}] /\ run'[t] \in Run
         /\ lock' \in Targeters \cup {Free}
<1>1. run[t] \in Run
  BY DEF TypeOK
<1> DEFINE r == run[t]
           old == {i \in open : Predates(i, r.floor)}
           fresh == open \ old
           left == r.left \ {source}
           lost == [r EXCEPT !.left = left, !.mails = {}, !.new = {}, !.marks = {},
                             !.met = {}, !.failed = r.failed \/ fresh # {}]
           met == r.met \cup {From[i] : i \in {j \in fresh : Kind[j] \in {"mail", "entry"}}}
           new == r.new \cup {<<r.app, RunKey(i)>> : i \in fresh}
           marks == r.marks \cup {RunKey(i) : i \in open}
           kept == [r EXCEPT !.left = left, !.mails = {}, !.new = new, !.marks = marks, !.met = met]
<1>2. lost \in Run
  BY <1>1 DEF Run
<1>3. fresh \subseteq Items /\ r.app \in Apps
  BY <1>1 DEF Run
<1>4. met \subseteq People
  <2>1. \A i \in Items : From[i] \in People
    BY TargetedAssumption
  <2>2. r.met \subseteq People
    BY <1>1 DEF Run
  <2> QED BY <1>3, <2>1, <2>2
<1>5. new \subseteq Apps \X Keys
  BY <1>1, <1>3, KeysOfItems DEF Run
<1>6. marks \subseteq Keys
  BY <1>1, KeysOfItems DEF Run
<1>7. kept \in Run
  <2> HIDE DEF new, marks, met
  <2> QED BY <1>1, <1>4, <1>5, <1>6 DEF Run
<1>8. CASE r.failed \/ (fresh # {} /\ lock \notin {t, Free})
  <2>1. run' = [run EXCEPT ![t] = lost]
    BY <1>8 DEF Save
  <2>2. lock' = IF lock = t THEN Free ELSE lock
    BY <1>8 DEF Save
  <2> HIDE DEF lost
  <2> QED BY <1>2, <2>1, <2>2 DEF TypeOK
<1>9. CASE ~(r.failed \/ (fresh # {} /\ lock \notin {t, Free}))
  <2>1. run' = [run EXCEPT ![t] = kept]
    BY <1>9 DEF Save
  <2>2. lock' = IF fresh # {} THEN t ELSE lock
    BY <1>9 DEF Save
  <2> HIDE DEF kept
  <2> QED BY <1>7, <2>1, <2>2 DEF TypeOK
<1> QED BY <1>8, <1>9

(* A commit writes items, keys and correspondents there are.               *)
LEMMA CommitTypes ==
  ASSUME TypeOK, NEW t \in Targeters, run[t] # Idle, CommitRun(t)
  PROVE  /\ known' \subseteq Keys /\ filed' \in [Apps \X Keys -> Nat]
         /\ contacts' \in [Apps -> SUBSET People] /\ contacts'[run[t].app] \in SUBSET People
         /\ suggested' \subseteq Asks
         /\ linked' \in [Apps -> SUBSET People] /\ settled' \subseteq Keys
         /\ lock' \in Targeters \cup {Free}
         /\ status' = status /\ behind' = behind
<1>1. run[t] \in Run /\ filed \in [Apps \X Keys -> Nat]
  BY DEF TypeOK
<1>2. filed' \in [Apps \X Keys -> Nat]
  BY <1>1, CountsStayCounts DEF CommitRun
<1>3. contacts' \in [Apps -> SUBSET People] /\ contacts'[run[t].app] \in SUBSET People
  <2>1. contacts' = [contacts EXCEPT ![run[t].app] = @ \cup run[t].met]
    BY DEF CommitRun
  <2>2. run[t].app \in Apps /\ run[t].met \subseteq People
    BY <1>1 DEF Run
  <2> QED BY <2>1, <2>2 DEF TypeOK
<1>4. known' \subseteq Keys /\ suggested' \subseteq Asks
  BY <1>1 DEF CommitRun, TypeOK, Run
<1>5. lock' \in Targeters \cup {Free} /\ status' = status /\ behind' = behind
  BY DEF CommitRun, TypeOK
<1>6. linked' \in [Apps -> SUBSET People] /\ settled' \subseteq Keys
  <2>1. linked' = [linked EXCEPT ![run[t].app] = @ \cup run[t].met]
    BY DEF CommitRun
  <2>2. run[t].app \in Apps /\ run[t].met \subseteq People /\ run[t].marks \subseteq Keys
    BY <1>1 DEF Run
  <2>3. settled' \subseteq settled \cup run[t].marks
    BY DEF CommitRun
  <2> QED BY <2>1, <2>2, <2>3 DEF TypeOK
<1> QED BY <1>2, <1>3, <1>4, <1>5, <1>6

(* What the steps of runs leave alone, and what they write, by type.        *)
LEMMA RunStepTypes ==
  ASSUME TypeOK, NEW t \in Targeters, RunStep(t), calls' = calls
  PROVE  TypeOK'
<1>1. run[t] # Idle
  BY DEF RunStep, CollectMails, FileMails, FileEntries, FileNotes, CommitSources,
         SourcesLost, FileCalls, NoCalls, Finish
<1>2. run[t] \in Run
  BY <1>1 DEF TypeOK
<1>3. run[t].app \in Apps
  BY <1>2 DEF Run
<1>4. ASSUME EndRun(t)
      PROVE  run' \in [Targeters -> Run \cup {Idle}] /\ results' \in [Apps -> {"none", "asked", "done"}]
  BY <1>3, <1>4 DEF EndRun, TypeOK
<1>5. CASE CollectMails(t)
  <2>1. PICK found \in SUBSET Found(t, "mail") :
          run' = [run EXCEPT ![t] =
                    IF found = {} \/ Cardinality(found) > MailLimit
                    THEN [run[t] EXCEPT !.left = run[t].left \ {"mail"}]
                    ELSE [run[t] EXCEPT !.left = (run[t].left \ {"mail"}) \cup {"mailbox"},
                                        !.mails = found]]
    BY <1>5 DEF CollectMails
  <2>2. found \subseteq Items
    BY DEF Found, Of
  <2>3. run[t].left \subseteq Sources \cup {"mailbox"}
    BY <1>2 DEF Run
  <2>4. [run[t] EXCEPT !.left = run[t].left \ {"mail"}] \in Run
    BY <1>2, <2>3, RunParts
  <2>5. [run[t] EXCEPT !.left = (run[t].left \ {"mail"}) \cup {"mailbox"}, !.mails = found] \in Run
    BY <1>2, <2>2, <2>3, RunParts
  <2>6. run' \in [Targeters -> Run \cup {Idle}]
    BY <2>1, <2>4, <2>5 DEF TypeOK
  <2> QED BY <1>5, <2>6 DEF CollectMails, TypeOK, tables
<1>6. CASE FileMails(t)
  <2>1. AskAgain(t) \subseteq Items
    BY <1>2 DEF AskAgain, Run
  <2>2. run' \in [Targeters -> Run \cup {Idle}] /\ lock' \in Targeters \cup {Free}
    BY <1>1, <1>6, <2>1, SaveType DEF FileMails
  <2> QED BY <1>6, <2>2 DEF FileMails, TypeOK, tables
<1>7. CASE FileEntries(t)
  <2>1. FoundEntries(t) \subseteq Items
    BY DEF FoundEntries, Found, Of
  <2>2. run' \in [Targeters -> Run \cup {Idle}] /\ lock' \in Targeters \cup {Free}
    BY <1>1, <1>7, <2>1, SaveType DEF FileEntries
  <2> QED BY <1>7, <2>2 DEF FileEntries, TypeOK, tables
<1>8. CASE FileNotes(t)
  <2>1. FoundNotes(t) \subseteq Items
    BY DEF FoundNotes, Found, Of
  <2>2. run' \in [Targeters -> Run \cup {Idle}] /\ lock' \in Targeters \cup {Free}
    BY <1>1, <1>8, <2>1, SaveType DEF FileNotes
  <2> QED BY <1>8, <2>2 DEF FileNotes, TypeOK, tables
<1>9. CASE CommitSources(t)
  <2>1. CommitRun(t)
    BY <1>9 DEF CommitSources
  <2>2. /\ known' \subseteq Keys /\ filed' \in [Apps \X Keys -> Nat]
        /\ contacts' \in [Apps -> SUBSET People] /\ contacts'[run[t].app] \in SUBSET People
        /\ suggested' \subseteq Asks
        /\ linked' \in [Apps -> SUBSET People] /\ settled' \subseteq Keys
        /\ lock' \in Targeters \cup {Free}
        /\ status' = status /\ behind' = behind
    BY <1>1, <2>1, CommitTypes
  <2>3. run' \in [Targeters -> Run \cup {Idle}]
    <3> DEFINE after == [run[t] EXCEPT !.at = "calls", !.vouched = contacts'[run[t].app],
                                       !.new = {}, !.marks = {}, !.met = {}]
    <3>1. after \in Run
      BY <1>2, <2>2, RunParts
    <3>2. run' = [run EXCEPT ![t] = after]
      BY <1>9 DEF CommitSources
    <3> HIDE DEF after
    <3> QED BY <3>1, <3>2 DEF TypeOK
  <2>4. UNCHANGED <<batch, hand, results>>
    BY <1>9 DEF CommitSources
  <2> QED BY <2>2, <2>3, <2>4 DEF TypeOK
<1>10. CASE SourcesLost(t)
  <2>1. UNCHANGED <<tables, batch, hand>> /\ EndRun(t) /\ lock' \in Targeters \cup {Free}
    BY <1>10 DEF SourcesLost, TypeOK
  <2> QED BY <1>4, <2>1 DEF TypeOK, tables
<1>11. CASE FileCalls(t)
  <2>1. filed' \in [Apps \X Keys -> Nat]
    BY <1>11, CountsStayCounts DEF FileCalls, TypeOK
  <2>2. known' \subseteq Keys /\ settled' \subseteq Keys
    BY <1>11, KeysOfItems DEF FileCalls, TypeOK, Found, Of
  <2>3. run' \in [Targeters -> Run \cup {Idle}]
    <3>1. run' = [run EXCEPT ![t] = [run[t] EXCEPT !.at = "scoring"]]
      BY <1>11 DEF FileCalls, TypeOK
    <3>2. [run[t] EXCEPT !.at = "scoring"] \in Run
      BY <1>2, RunParts
    <3> QED BY <3>1, <3>2 DEF TypeOK
  <2>4. UNCHANGED <<status, contacts, suggested, behind, linked, lock, batch, hand, results>>
    BY <1>11 DEF FileCalls
  <2> QED BY <2>1, <2>2, <2>3, <2>4 DEF TypeOK
<1>12. CASE NoCalls(t)
  <2>1. run' = [run EXCEPT ![t] = [run[t] EXCEPT !.at = "scoring"]]
    BY <1>12 DEF NoCalls, TypeOK
  <2>2. [run[t] EXCEPT !.at = "scoring"] \in Run
    BY <1>2, RunParts
  <2>3. run' \in [Targeters -> Run \cup {Idle}]
    BY <2>1, <2>2 DEF TypeOK
  <2>4. UNCHANGED <<tables, lock, batch, hand, results>>
    BY <1>12 DEF NoCalls
  <2> QED BY <2>3, <2>4 DEF TypeOK, tables
<1>13. CASE Finish(t)
  <2>1. UNCHANGED <<tables, lock, batch, hand>> /\ EndRun(t)
    BY <1>13 DEF Finish
  <2> QED BY <1>4, <2>1 DEF TypeOK, tables
<1> QED BY <1>5, <1>6, <1>7, <1>8, <1>9, <1>10, <1>11, <1>12, <1>13 DEF RunStep

(* What a run knows at its start.                                          *)
LEMMA NewRunType ==
  ASSUME TypeOK, NEW a \in Apps, NEW reports \in BOOLEAN,
         NEW answering, answering \subseteq Sources
  PROVE  NewRun(a, reports, answering) \in Run
<1>1. Floor(a) \in Nat \cup {NoDay}
  BY FloorType
<1>2. Snapshot(a) \subseteq People
  BY TargetedAssumption DEF Snapshot, TypeOK
<1> QED BY <1>1, <1>2 DEF NewRun, Run

(* The same for account-wide runs.                                         *)
LEMMA BatchStepTypes ==
  ASSUME TypeOK, NEW b \in Batchers, BatchStep(b), calls' = calls
  PROVE  TypeOK'
<1>1. CASE FinishBatch(b)
  <2>1. filed' \in [Apps \X Keys -> Nat]
    BY <1>1, CountsStayCounts DEF FinishBatch, TypeOK
  <2>2. batch[b] \in Batch /\ batch[b].listed \subseteq Items
    BY <1>1 DEF FinishBatch, TypeOK, Batch
  <2>3. known' \subseteq Keys /\ settled' \subseteq Keys
    BY <1>1, <2>2, KeysOfItems DEF FinishBatch, TypeOK, Marked, Open
  <2>4. batch' \in [Batchers -> Batch \cup {Idle}] /\ behind' \subseteq Of("file")
    BY <1>1 DEF FinishBatch, TypeOK
  <2>5. UNCHANGED <<status, contacts, suggested, linked, lock, run, hand, results>>
    BY <1>1 DEF FinishBatch
  <2> QED BY <2>1, <2>3, <2>4, <2>5 DEF TypeOK
<1>2. CASE BatchFails(b)
  BY <1>2 DEF BatchFails, TypeOK, tables
<1> QED BY <1>1, <1>2 DEF BatchStep

(* A run that begins changes nothing else.                                 *)
LEMMA BeginTypes ==
  ASSUME TypeOK, NEW a \in Apps, NEW reports \in BOOLEAN,
         NEW answering, answering \subseteq Sources, Begin(a, reports, answering)
  PROVE  /\ run' \in [Targeters -> Run \cup {Idle}]
         /\ UNCHANGED <<tables, lock, batch, hand>>
<1>1. PICK t \in Targeters : run' = [run EXCEPT ![t] = NewRun(a, reports, answering)]
  BY DEF Begin
<1>2. NewRun(a, reports, answering) \in Run
  BY NewRunType
<1> QED BY <1>1, <1>2 DEF TypeOK, Begin

(* An entry is taken only from an application that has one.                *)
LEMMA MoveType ==
  ASSUME TypeOK, NEW a \in Apps, NEW b \in Apps, a # b, NEW k \in Keys, filed[<<a, k>>] > 0
  PROVE  [filed EXCEPT ![<<a, k>>] = @ - 1, ![<<b, k>>] = @ + 1] \in [Apps \X Keys -> Nat]
<1>1. filed[<<a, k>>] \in Nat /\ filed[<<b, k>>] \in Nat /\ <<a, k>> # <<b, k>>
  BY DEF TypeOK
<1>2. filed[<<a, k>>] - 1 \in Nat /\ filed[<<b, k>>] + 1 \in Nat
  BY <1>1
<1> QED BY <1>1, <1>2 DEF TypeOK

(* The same for whatever people ask for.                                   *)
LEMMA AskTypes ==
  ASSUME TypeOK, Ask, Call
  PROVE  TypeOK'
<1>1. calls' \in 0..MaxCalls
  BY TargetedAssumption DEF Call, TypeOK
<1>2. ASSUME NEW a \in Apps, NEW answering \in SUBSET Sources,
             SyncForApp(a, answering) \/ PostCreateSync(a, answering)
      PROVE  TypeOK'
  <2>1. results' \in [Apps -> {"none", "asked", "done"}]
    BY <1>2 DEF SyncForApp, PostCreateSync, TypeOK
  <2>2. run' \in [Targeters -> Run \cup {Idle}] /\ UNCHANGED <<tables, lock, batch, hand>>
    BY <1>2, BeginTypes DEF SyncForApp, PostCreateSync
  <2> QED BY <1>1, <2>1, <2>2 DEF TypeOK, tables
<1>3. ASSUME NEW b \in Batchers, NEW kind \in {"note", "call", "file"}, StartBatch(b, kind)
      PROVE  TypeOK'
  <2>1. Of(kind) \subseteq Items /\ Of("file") \subseteq Items /\ Indexed \subseteq Apps
    BY DEF Of, Indexed
  <2>2. batch' \in [Batchers -> Batch \cup {Idle}]
    BY <1>3, <2>1 DEF StartBatch, Batch, TypeOK
  <2> QED BY <1>1, <1>3, <2>2 DEF StartBatch, TypeOK, tables
<1>4. ASSUME NEW a \in Apps, NEW i \in Items, AskForItem(a, i)
      PROVE  TypeOK'
  BY <1>1, <1>4 DEF AskForItem, TypeOK, tables
<1>5. ASSUME NEW a \in Apps, NEW i \in Items, AttachFile(a, i)
      PROVE  TypeOK'
  <2>1. filed' \in [Apps \X Keys -> Nat] /\ known' \subseteq Keys
    BY <1>5, CountsStayCounts, KeysOfItems DEF AttachFile, TypeOK
  <2> QED BY <1>1, <1>5, <2>1 DEF AttachFile, OnlyTimeline, TypeOK
<1>6. ASSUME NEW a \in Apps, NEW b \in Apps, NEW k \in Keys, MoveEntry(a, b, k)
      PROVE  TypeOK'
  <2>1. a # b /\ filed[<<a, k>>] > 0
    BY <1>6 DEF MoveEntry, ElsewhereFiled
  <2>2. filed' \in [Apps \X Keys -> Nat]
    BY <1>6, <2>1, MoveType DEF MoveEntry
  <2> QED BY <1>1, <1>6, <2>2 DEF MoveEntry, OnlyTimeline, TypeOK
<1>7. ASSUME NEW a \in Apps, NEW i \in Asks, AssignSuggestion(a, i)
      PROVE  TypeOK'
  <2> DEFINE k == SuggestionKey(i)
  <2>1. k \in Keys
    BY KeysOfItems
  <2>2. filed' \in [Apps \X Keys -> Nat]
    <3>1. CASE Conflicts(a, k) = {}
      BY <1>7, <3>1, CountsStayCounts DEF AssignSuggestion, TypeOK
    <3>2. CASE Conflicts(a, k) # {}
      <4>1. PICK b \in Conflicts(a, k) :
              filed' = [filed EXCEPT ![<<b, k>>] = @ - 1, ![<<a, k>>] = @ + 1]
        BY <1>7, <3>2 DEF AssignSuggestion
      <4>2. b \in Apps /\ b # a /\ filed[<<b, k>>] > 0
        BY DEF Conflicts
      <4> QED BY <2>1, <4>1, <4>2, MoveType
    <3> QED BY <3>1, <3>2
  <2> QED BY <1>1, <1>7, <2>2 DEF AssignSuggestion, OnlyTimeline, TypeOK
<1>8. ASSUME NEW a \in Apps, ResetTargeted(a)
      PROVE  TypeOK'
  <2>1. filed' \in [Apps \X Keys -> Nat]
    BY <1>8, CountsStayCounts DEF ResetTargeted, TypeOK
  <2> QED BY <1>1, <1>8, <2>1 DEF ResetTargeted, OnlyTimeline, TypeOK
<1>9. ASSUME NEW a \in Apps, AttachFolder(a)
      PROVE  TypeOK'
  <2>1. filed' \in [Apps \X Keys -> Nat] /\ known' \subseteq Keys
    BY <1>9, CountsStayCounts, KeysOfItems DEF AttachFolder, TypeOK, Of
  <2> QED BY <1>1, <1>9, <2>1 DEF AttachFolder, OnlyTimeline, TypeOK
<1>10. ASSUME NEW a \in Apps, Reject(a) \/ DeleteApp(a)
       PROVE  TypeOK'
  <2>1. CASE Reject(a)
    BY <1>1, <2>1 DEF Reject, TypeOK
  <2>2. CASE DeleteApp(a)
    <3>1. filed' \in [Apps \X Keys -> Nat]
      BY <2>2, CountsStayCounts DEF DeleteApp, TypeOK
    <3>2. settled' \subseteq Keys
      BY <2>2 DEF DeleteApp, TypeOK
    <3> QED BY <1>1, <2>2, <3>1, <3>2 DEF DeleteApp, TypeOK
  <2> QED BY <1>10, <2>1, <2>2
<1>11. ASSUME NEW kind \in {"note", "call", "file"}, ResetSource(kind)
       PROVE  TypeOK'
  <2>1. filed' \in [Apps \X Keys -> Nat]
    BY <1>11, CountsStayCounts DEF ResetSource, TypeOK
  <2> QED BY <1>1, <1>11, <2>1 DEF ResetSource, TypeOK
<1>12. ASSUME NEW i \in Items, TouchFile(i)
       PROVE  TypeOK'
  BY <1>1, <1>12 DEF TouchFile, TypeOK
<1>13. ASSUME NEW a \in Apps, NEW k \in Keys, DeleteEntry(a, k)
       PROVE  TypeOK'
  <2>1. filed[<<a, k>>] - 1 \in Nat
    <3>1. filed[<<a, k>>] \in Nat /\ filed[<<a, k>>] > 0
      BY <1>13 DEF DeleteEntry, TypeOK
    <3> QED BY <3>1
  <2>2. filed' \in [Apps \X Keys -> Nat]
    BY <1>13, <2>1 DEF DeleteEntry, TypeOK
  <2>3. settled' \subseteq Keys
    BY <1>13 DEF DeleteEntry, TypeOK
  <2> QED BY <1>1, <1>13, <2>2, <2>3 DEF DeleteEntry, OnlyTimeline, TypeOK
<1>14. ASSUME NEW a \in Apps, NEW p \in People, LinkContact(a, p)
       PROVE  TypeOK'
  BY <1>1, <1>14 DEF LinkContact, TypeOK
<1>15. ASSUME NEW a \in Apps, NEW p \in People, UnlinkContact(a, p)
       PROVE  TypeOK'
  <2>1. PICK titled \in SUBSET {k \in Keys : Kind[k[1]] = "call" /\ filed[<<a, k>>] > 0} :
          /\ filed' = Minus({a} \X titled)
          /\ settled' = settled \cup (titled \cap known)
    BY <1>15 DEF UnlinkContact
  <2>2. filed' \in [Apps \X Keys -> Nat] /\ settled' \subseteq Keys
    BY <2>1, CountsStayCounts DEF TypeOK
  <2>3. contacts' \in [Apps -> SUBSET People]
    BY <1>15 DEF UnlinkContact, TypeOK
  <2> QED BY <1>1, <1>15, <2>2, <2>3 DEF UnlinkContact, TypeOK
<1> QED BY <1>2, <1>3, <1>4, <1>5, <1>6, <1>7, <1>8, <1>9, <1>10, <1>11, <1>12, <1>13, <1>14,
           <1>15 DEF Ask

(* Types at the start and after every step.                                *)
LEMMA InitTypes == Init => TypeOK
<1> QED BY TargetedAssumption DEF Init, TypeOK

LEMMA NextTypes ==
  ASSUME TypeOK, [Next]_vars
  PROVE  TypeOK'
<1>1. CASE Ask /\ Call
  BY <1>1, AskTypes
<1>2. CASE \E t \in Targeters : RunStep(t) /\ UNCHANGED calls
  BY <1>2, RunStepTypes
<1>3. CASE \E b \in Batchers : BatchStep(b) /\ UNCHANGED calls
  BY <1>3, BatchStepTypes
<1>4. CASE AssignLive /\ UNCHANGED calls
  <2>1. hand.app \in Apps /\ hand.item \in Items
    BY <1>4 DEF AssignLive, TypeOK
  <2>2. filed' \in [Apps \X Keys -> Nat] /\ known' \subseteq Keys
    BY <1>4, <2>1, CountsStayCounts, KeysOfItems DEF AssignLive, TypeOK
  <2> QED BY <1>4, <2>2 DEF AssignLive, OnlyTimeline, TypeOK
<1>5. CASE AskFails /\ UNCHANGED calls
  BY <1>5 DEF AskFails, TypeOK, tables
<1>6. CASE Restart /\ UNCHANGED calls
  BY <1>6 DEF Restart, TypeOK, tables
<1>7. CASE UNCHANGED vars
  BY <1>7 DEF vars, tables, TypeOK
<1> QED BY <1>1, <1>2, <1>3, <1>4, <1>5, <1>6, <1>7 DEF Next

(* Type correctness: whatever overlaps, a run holds only items, keys and    *)
(* correspondents there are, and no count of timeline entries is negative:  *)
(* manual_assign takes an entry only from an application that has one.      *)
THEOREM TypeCorrect == Spec => []TypeOK
<1>1. TypeOK /\ [Next]_vars => TypeOK'
  BY NextTypes
<1> QED BY <1>1, InitTypes, PTL DEF Spec

-----------------------------------------------------------------------------
(* What a run holds, and why it may rely on it.                             *)

(* The inductive invariant.  Whoever has flushed an entry holds the write   *)
(* lock, so the ledger learns nothing from others until it commits: what    *)
(* was new when it was flushed is new when it is committed.  A key is       *)
(* marked with its entry, or because the item is too old.  The snapshot     *)
(* holds correspondents that were linked before, and the entries of the     *)
(* calendars rest on it.                                                    *)
RunInv(t) ==
  run[t] # Idle =>
    LET r == run[t] IN
    /\ r.at # "sources" => r.left = {}
    /\ r.mails \subseteq Of("mail")
    /\ r.new # {} => lock = t
    /\ \A p \in r.new : p[1] = r.app /\ p[2] \notin known /\ p[2] \in r.marks
    /\ \A k \in r.marks : <<r.app, k>> \in r.new \/ Predates(k[1], r.floor)
    /\ r.at = "sources" => r.vouched \subseteq Company[r.app] \cup linked[r.app]
    /\ \A i \in Of("entry") :
         <<r.app, RunKey(i)>> \in r.new => From[i] \in Company[r.app] \cup linked[r.app]

BatchInv(b) == batch[b] # Idle => batch[b].listed \subseteq Of(batch[b].kind)

LinksInv == \A a \in Apps : contacts[a] \subseteq linked[a]

IInv ==
  /\ TypeOK
  /\ LinksInv
  /\ \A t \in Targeters : RunInv(t)
  /\ \A b \in Batchers : BatchInv(b)

(* A run that a step does not concern.                                      *)
Undisturbed(t) ==
  /\ run'[t] = run[t]
  /\ lock = t => lock' = t /\ known' \subseteq known
  /\ \A a \in Apps : linked[a] \subseteq linked'[a]

(* Such a run keeps its ground.                                            *)
LEMMA FrameOfRuns ==
  ASSUME TypeOK, NEW t \in Targeters, RunInv(t), Undisturbed(t)
  PROVE  RunInv(t)'
<1> SUFFICES ASSUME run[t] # Idle PROVE RunInv(t)'
  BY DEF RunInv, Undisturbed
<1>1. run[t] \in Run /\ run[t].app \in Apps
  BY DEF TypeOK, Run
<1>2. linked[run[t].app] \subseteq linked'[run[t].app]
  BY <1>1 DEF Undisturbed
<1> QED BY <1>2 DEF RunInv, Undisturbed, Predates

(* What a flush changes.                                                    *)
LEMMA SaveEffect ==
  ASSUME TypeOK, NEW t \in Targeters, run[t] # Idle,
         NEW open, open \subseteq Items, NEW source, Save(t, open, source)
  PROVE  /\ \A u \in Targeters \ {t} : run'[u] = run[u]
         /\ run'[t] \in Run
         /\ run'[t].app = run[t].app /\ run'[t].reports = run[t].reports
         /\ run'[t].at = run[t].at /\ run'[t].vouched = run[t].vouched
         /\ run'[t].floor = run[t].floor
         /\ run'[t].left \subseteq run[t].left /\ run'[t].mails = {}
         /\ \/ /\ run'[t].new = {} /\ run'[t].marks = {}
               /\ lock' = IF lock = t THEN Free ELSE lock
            \/ \E fresh \in SUBSET open :
                 /\ run'[t].new = run[t].new \cup {<<run[t].app, RunKey(i)>> : i \in fresh}
                 /\ run'[t].marks = run[t].marks \cup {RunKey(i) : i \in open}
                 /\ \A i \in open \ fresh : Predates(i, run[t].floor)
                 /\ fresh # {} => lock \in {t, Free} /\ lock' = t
                 /\ fresh = {} => lock' = lock
<1>1. run[t] \in Run
  BY DEF TypeOK
<1>2. run' \in [Targeters -> Run \cup {Idle}] /\ run \in [Targeters -> Run \cup {Idle}]
  BY SaveType DEF TypeOK
<1> DEFINE r == run[t]
           fresh == open \ {i \in open : Predates(i, r.floor)}
           left == r.left \ {source}
           lost == [r EXCEPT !.left = left, !.mails = {}, !.new = {}, !.marks = {},
                             !.met = {}, !.failed = r.failed \/ fresh # {}]
           met == r.met \cup {From[i] : i \in {j \in fresh : Kind[j] \in {"mail", "entry"}}}
           new == r.new \cup {<<r.app, RunKey(i)>> : i \in fresh}
           marks == r.marks \cup {RunKey(i) : i \in open}
           kept == [r EXCEPT !.left = left, !.mails = {}, !.new = new, !.marks = marks, !.met = met]
<1>3. CASE r.failed \/ (fresh # {} /\ lock \notin {t, Free})
  <2>1. run' = [run EXCEPT ![t] = lost] /\ lock' = IF lock = t THEN Free ELSE lock
    BY <1>3 DEF Save
  <2>2. /\ lost.app = r.app /\ lost.reports = r.reports /\ lost.at = r.at
        /\ lost.vouched = r.vouched /\ lost.left = left /\ lost.mails = {} /\ lost.new = {}
        /\ lost.marks = {} /\ lost.floor = r.floor
        /\ lost \in Run
    BY <1>1 DEF Run
  <2> HIDE DEF lost
  <2>3. run'[t] = lost /\ \A u \in Targeters \ {t} : run'[u] = run[u]
    BY <1>2, <2>1
  <2> QED BY <2>1, <2>2, <2>3
<1>4. CASE ~(r.failed \/ (fresh # {} /\ lock \notin {t, Free}))
  <2>1. run' = [run EXCEPT ![t] = kept] /\ lock' = IF fresh # {} THEN t ELSE lock
    BY <1>4 DEF Save
  <2>2. /\ kept.app = r.app /\ kept.reports = r.reports /\ kept.at = r.at
        /\ kept.vouched = r.vouched /\ kept.left = left /\ kept.mails = {}
        /\ kept.new = new /\ kept.marks = marks /\ kept.floor = r.floor
    <3> HIDE DEF new, marks, met, left
    <3> QED BY <1>1 DEF Run
  <2> HIDE DEF kept
  <2>3. run'[t] = kept /\ \A u \in Targeters \ {t} : run'[u] = run[u]
    BY <1>2, <2>1
  <2>4. kept \in Run
    BY <2>3, SaveType
  <2>5. fresh # {} => lock \in {t, Free}
    BY <1>4
  <2>6. \A i \in open \ fresh : Predates(i, r.floor)
    OBVIOUS
  <2> QED BY <2>1, <2>2, <2>3, <2>4, <2>5, <2>6
<1> QED BY <1>3, <1>4

(* Saving what a source found: it was new to the ledger and to this run,    *)
(* and a calendar entry was vouched for by the snapshot.                    *)
LEMMA FilingKeeps ==
  ASSUME IInv, NEW t \in Targeters, run[t] # Idle,
         NEW source, source \in run[t].left,
         NEW open, open \subseteq Items, Save(t, open, source),
         UNCHANGED <<known, linked>>,
         \A i \in open : ~IsSynced(t, i) /\ (Kind[i] = "entry" => Vouched(t, i))
  PROVE  \A u \in Targeters : RunInv(u)'
<1> USE DEF IInv
<1>1. ASSUME NEW u \in Targeters, u # t PROVE RunInv(u)'
  <2>1. run'[u] = run[u]
    BY <1>1, SaveEffect
  <2>2. lock = u => lock' = u
    <3>1. \/ lock' = IF lock = t THEN Free ELSE lock
          \/ lock' = lock
          \/ lock \in {t, Free}
      BY SaveEffect
    <3> QED BY <1>1, <3>1, TargetedAssumption
  <2>3. Undisturbed(u)
    BY <2>1, <2>2 DEF Undisturbed
  <2> QED BY <2>3, FrameOfRuns
<1>2. RunInv(t)'
  <2> DEFINE r == run[t]
             s == run'[t]
             a == r.app
  <2>1. r \in Run /\ a \in Apps
    BY DEF TypeOK, Run
  <2>2. /\ s.app = a /\ s.at = r.at /\ s.vouched = r.vouched /\ s.floor = r.floor
        /\ s.left \subseteq r.left /\ s.mails = {}
    BY SaveEffect
  <2>3. s.at = "sources"
    BY <2>2 DEF RunInv
  <2>4. CASE s.new = {} /\ s.marks = {}
    <3> HIDE DEF s, r
    <3> QED BY <2>2, <2>3, <2>4 DEF RunInv, s, r
  <2>5. ASSUME NEW fresh \in SUBSET open,
               s.new = r.new \cup {<<a, RunKey(i)>> : i \in fresh},
               s.marks = r.marks \cup {RunKey(i) : i \in open},
               \A i \in open \ fresh : Predates(i, r.floor),
               fresh # {} => lock \in {t, Free} /\ lock' = t,
               fresh = {} => lock' = lock
        PROVE  RunInv(t)'
    <3>1. s.new # {} => lock' = t
      <4>1. CASE fresh = {}
        BY <2>5, <4>1 DEF RunInv
      <4>2. CASE fresh # {}
        BY <2>5, <4>2
      <4> QED BY <4>1, <4>2
    <3>2. \A p \in s.new : p[1] = a /\ p[2] \notin known /\ p[2] \in s.marks
      <4>1. \A p \in r.new : p[1] = a /\ p[2] \notin known /\ p[2] \in r.marks
        BY DEF RunInv
      <4>2. \A i \in fresh : RunKey(i) \notin known
        BY <2>5 DEF IsSynced
      <4> QED BY <2>5, <4>1, <4>2
    <3>3. \A i \in Of("entry") : <<a, RunKey(i)>> \in s.new => From[i] \in Company[a] \cup linked[a]
      <4> SUFFICES ASSUME NEW i \in Of("entry"), <<a, RunKey(i)>> \in s.new
                   PROVE  From[i] \in Company[a] \cup linked[a]
        OBVIOUS
      <4>1. CASE <<a, RunKey(i)>> \in r.new
        BY <4>1 DEF RunInv
      <4>2. CASE \E j \in fresh : <<a, RunKey(i)>> = <<a, RunKey(j)>>
        <5>1. PICK j \in fresh : RunKey(i) = RunKey(j)
          BY <4>2
        <5>2. i = j
          BY <5>1, KeysOfItems DEF Of
        <5>3. Vouched(t, i)
          BY <5>2 DEF Of
        <5> QED BY <5>3, <2>3, <2>2 DEF Vouched, RunInv
      <4> QED BY <2>5, <4>1, <4>2
    <3>4. \A k \in s.marks : <<a, k>> \in s.new \/ Predates(k[1], r.floor)
      <4>1. \A k \in r.marks : <<a, k>> \in r.new \/ Predates(k[1], r.floor)
        BY DEF RunInv
      <4>2. \A i \in open : RunKey(i)[1] = i
        BY KeysOfItems
      <4>3. \A i \in open : <<a, RunKey(i)>> \in s.new \/ Predates(RunKey(i)[1], r.floor)
        BY <2>5, <4>2
      <4> QED BY <2>5, <4>1, <4>3
    <3>5. s.vouched \subseteq Company[a] \cup linked[a]
      BY <2>2, <2>3 DEF RunInv
    <3>6. s.app = a /\ s.floor = r.floor /\ s.at = "sources" /\ s.mails \subseteq Of("mail")
      BY <2>2, <2>3
    <3>7. known' = known /\ linked' = linked
      OBVIOUS
    <3> HIDE DEF s, r, a
    <3>8. \A k \in s.marks : <<s.app, k>> \in s.new \/ Predates(k[1], s.floor)
      BY <3>4, <3>6
    <3>9. /\ s.at # "sources" => s.left = {}
          /\ s.mails \subseteq Of("mail")
          /\ s.new # {} => lock' = t
          /\ \A p \in s.new : p[1] = s.app /\ p[2] \notin known' /\ p[2] \in s.marks
          /\ s.at = "sources" => s.vouched \subseteq Company[s.app] \cup linked'[s.app]
          /\ \A i \in Of("entry") :
               <<s.app, RunKey(i)>> \in s.new => From[i] \in Company[s.app] \cup linked'[s.app]
      BY <3>1, <3>2, <3>3, <3>5, <3>6, <3>7
    <3> QED BY ZenonT(60), <3>8, <3>9 DEF RunInv, s
  <2> QED BY <2>4, <2>5, SaveEffect
<1> QED BY <1>1, <1>2

(* A step of a run keeps its own ground and that of the others.            *)
LEMMA RunStepKeeps ==
  ASSUME IInv, NEW t \in Targeters, RunStep(t)
  PROVE  \A u \in Targeters : RunInv(u)'
<1> USE DEF IInv
<1>1. run[t] # Idle
  BY DEF RunStep, CollectMails, FileMails, FileEntries, FileNotes, CommitSources,
         SourcesLost, FileCalls, NoCalls, Finish
<1>2. run[t] \in Run /\ run[t].app \in Apps /\ run \in [Targeters -> Run \cup {Idle}]
  BY <1>1 DEF TypeOK, Run
<1>3. ASSUME run' = [run EXCEPT ![t] = run'[t]],
             \A u \in Targeters \ {t} : lock = u => lock' = u /\ known' \subseteq known,
             \A a \in Apps : linked[a] \subseteq linked'[a],
             RunInv(t)'
      PROVE  \A u \in Targeters : RunInv(u)'
  <2> SUFFICES ASSUME NEW u \in Targeters, u # t PROVE RunInv(u)'
    BY <1>3
  <2>1. run'[u] = run[u]
    BY <1>2, <1>3
  <2>2. Undisturbed(u)
    BY <1>3, <2>1 DEF Undisturbed
  <2> QED BY <2>2, FrameOfRuns
<1>4. CASE CollectMails(t)
  <2>1. PICK found \in SUBSET Found(t, "mail") :
          run' = [run EXCEPT ![t] =
                    IF found = {} \/ Cardinality(found) > MailLimit
                    THEN [run[t] EXCEPT !.left = run[t].left \ {"mail"}]
                    ELSE [run[t] EXCEPT !.left = (run[t].left \ {"mail"}) \cup {"mailbox"},
                                        !.mails = found]]
    BY <1>4 DEF CollectMails
  <2>2. found \subseteq Of("mail")
    BY DEF Found
  <2>3. run[t].at = "sources"
    BY <1>1, <1>4 DEF CollectMails, RunInv
  <2>4. UNCHANGED <<known, linked, lock>>
    BY <1>4 DEF CollectMails, tables
  <2>5. RunInv(t)'
    <3>1. CASE found = {} \/ Cardinality(found) > MailLimit
      <4>1. run'[t] = [run[t] EXCEPT !.left = run[t].left \ {"mail"}]
        BY <1>2, <2>1, <3>1
      <4>2. /\ run'[t].at = run[t].at /\ run'[t].mails = run[t].mails /\ run'[t].new = run[t].new
            /\ run'[t].marks = run[t].marks /\ run'[t].app = run[t].app
            /\ run'[t].vouched = run[t].vouched /\ run'[t].floor = run[t].floor
        BY <1>2, <4>1 DEF Run
      <4> QED BY <1>1, <2>3, <2>4, <4>2 DEF RunInv, Predates
    <3>2. CASE ~(found = {} \/ Cardinality(found) > MailLimit)
      <4>1. run'[t] = [run[t] EXCEPT !.left = (run[t].left \ {"mail"}) \cup {"mailbox"}, !.mails = found]
        BY <1>2, <2>1, <3>2
      <4>2. /\ run'[t].at = run[t].at /\ run'[t].mails = found /\ run'[t].new = run[t].new
            /\ run'[t].marks = run[t].marks /\ run'[t].app = run[t].app
            /\ run'[t].vouched = run[t].vouched /\ run'[t].floor = run[t].floor
        BY <1>2, <4>1 DEF Run
      <4> QED BY <1>1, <2>2, <2>3, <2>4, <4>2 DEF RunInv, Predates
    <3> QED BY <3>1, <3>2
  <2>6. run' = [run EXCEPT ![t] = run'[t]]
    BY <1>2, <2>1
  <2> QED BY <1>3, <2>4, <2>5, <2>6
<1>5. CASE FileMails(t)
  <2>1. run[t].mails \subseteq Of("mail")
    BY <1>1 DEF RunInv
  <2>2. \A i \in AskAgain(t) : i \in Items /\ ~IsSynced(t, i) /\ Kind[i] # "entry"
    BY <2>1 DEF AskAgain, Of
  <2> QED BY <1>1, <1>5, <2>2, FilingKeeps DEF FileMails, tables
<1>6. CASE FileEntries(t)
  <2>1. \A i \in FoundEntries(t) : i \in Items /\ ~IsSynced(t, i) /\ Vouched(t, i)
    BY DEF FoundEntries, Found, Of, Matches
  <2> QED BY <1>1, <1>6, <2>1, FilingKeeps DEF FileEntries, tables
<1>7. CASE FileNotes(t)
  <2>1. \A i \in FoundNotes(t) : i \in Items /\ ~IsSynced(t, i) /\ Kind[i] # "entry"
    BY DEF FoundNotes, Found, Of
  <2> QED BY <1>1, <1>7, <2>1, FilingKeeps DEF FileNotes, tables
<1>8. CASE CommitSources(t)
  <2> DEFINE r == run[t]
             after == [r EXCEPT !.at = "calls", !.vouched = contacts'[r.app],
                                !.new = {}, !.marks = {}, !.met = {}]
  <2>1. run' = [run EXCEPT ![t] = after] /\ r.left = {}
    BY <1>8 DEF CommitSources
  <2>2. /\ after.at = "calls" /\ after.new = {} /\ after.left = {} /\ after.mails = r.mails
        /\ after.app = r.app /\ after.marks = {}
    BY <1>2, <2>1 DEF Run
  <2>3. CommitRun(t)
    BY <1>8 DEF CommitSources
  <2>4. ASSUME NEW u \in Targeters \ {t}, lock = u PROVE lock' = u /\ known' \subseteq known
    <3>1. ~Written(r)
      BY <2>3, <2>4, TargetedAssumption DEF CommitRun
    <3> QED BY <2>3, <2>4, <3>1 DEF CommitRun, Written
  <2>5. \A a \in Apps : linked[a] \subseteq linked'[a]
    BY <2>3 DEF CommitRun, TypeOK
  <2> HIDE DEF after
  <2>7. run'[t] = after
    BY <1>2, <2>1
  <2>8. RunInv(t)'
    BY <1>1, <2>2, <2>7 DEF RunInv
  <2>9. run' = [run EXCEPT ![t] = run'[t]]
    BY <1>2, <2>1
  <2> QED BY <1>3, <2>4, <2>5, <2>8, <2>9
<1>9. ASSUME EndRun(t), UNCHANGED tables, lock' = lock \/ lock = t
      PROVE  \A u \in Targeters : RunInv(u)'
  <2>1. run' = [run EXCEPT ![t] = Idle]
    BY <1>9 DEF EndRun
  <2>2. run'[t] = Idle /\ run' = [run EXCEPT ![t] = run'[t]]
    BY <1>2, <2>1
  <2>3. RunInv(t)'
    BY <2>2 DEF RunInv
  <2> QED BY <1>3, <1>9, <2>2, <2>3 DEF tables
<1>10. CASE SourcesLost(t)
  BY <1>9, <1>10 DEF SourcesLost
<1>11. CASE Finish(t)
  BY <1>9, <1>11 DEF Finish
<1>12. ASSUME run' = [run EXCEPT ![t] = [run[t] EXCEPT !.at = "scoring"]], run[t].at = "calls",
              UNCHANGED <<linked, lock>>,
              known' = known \/ lock = Free
       PROVE  \A u \in Targeters : RunInv(u)'
  <2>1. run'[t] = [run[t] EXCEPT !.at = "scoring"]
    BY <1>2, <1>12
  <2>2. /\ run'[t].at = "scoring" /\ run'[t].mails = run[t].mails /\ run'[t].new = run[t].new
        /\ run'[t].marks = run[t].marks /\ run'[t].app = run[t].app
        /\ run'[t].left = run[t].left /\ run'[t].floor = run[t].floor
    BY <1>2, <2>1 DEF Run
  <2>3. run[t].new # {} => known' = known
    BY <1>1, <1>12, TargetedAssumption DEF RunInv
  <2>4. RunInv(t)'
    BY <1>1, <1>12, <2>2, <2>3 DEF RunInv, Predates
  <2>5. run' = [run EXCEPT ![t] = run'[t]]
    BY <1>2, <2>1, <1>12
  <2>6. \A u \in Targeters : lock = u => known' = known
    BY <1>12, TargetedAssumption
  <2> QED BY <1>3, <1>12, <2>4, <2>5, <2>6
<1>13. CASE FileCalls(t)
  <2>1. run' = [run EXCEPT ![t] = [run[t] EXCEPT !.at = "scoring"]]
    BY <1>13, <1>2 DEF FileCalls
  <2>2. known' = known \/ lock = Free
    BY <1>13 DEF FileCalls
  <2> QED BY <1>12, <1>13, <2>1, <2>2 DEF FileCalls
<1>14. CASE NoCalls(t)
  <2>1. run' = [run EXCEPT ![t] = [run[t] EXCEPT !.at = "scoring"]]
    BY <1>14, <1>2 DEF NoCalls
  <2> QED BY <1>12, <1>14, <2>1 DEF NoCalls, tables
<1> QED BY <1>4, <1>5, <1>6, <1>7, <1>8, <1>10, <1>11, <1>13, <1>14 DEF RunStep

(* Steps that no run takes: what they write waits for the lock.             *)
LEMMA OthersKeep ==
  ASSUME IInv, run' = run,
         lock = Free \/ UNCHANGED <<lock, known>>,
         \A a \in Apps : linked[a] \subseteq linked'[a]
  PROVE  \A u \in Targeters : RunInv(u)'
<1> SUFFICES ASSUME NEW u \in Targeters PROVE RunInv(u)'
  OBVIOUS
<1>1. Undisturbed(u)
  BY TargetedAssumption DEF Undisturbed
<1> QED BY <1>1, FrameOfRuns DEF IInv

(* What an account-wide run has listed is of its own kind.                 *)
LEMMA BatchesKeep ==
  ASSUME IInv, Next
  PROVE  \A b \in Batchers : BatchInv(b)'
<1> SUFFICES ASSUME NEW b \in Batchers, batch'[b] # batch[b], batch'[b] # Idle
             PROVE  BatchInv(b)'
  BY DEF IInv, BatchInv
<1>1. ASSUME NEW c \in Batchers, NEW kind \in {"note", "call", "file"}, StartBatch(c, kind)
      PROVE  BatchInv(b)'
  <2>1. b = c /\ batch'[b].kind = kind /\ batch'[b].listed \subseteq Of(kind)
    BY <1>1 DEF StartBatch, IInv, TypeOK
  <2> QED BY <2>1 DEF BatchInv, Of
<1>2. ASSUME NEW c \in Batchers, BatchStep(c)
      PROVE  FALSE
  BY <1>2 DEF BatchStep, FinishBatch, BatchFails, IInv, TypeOK
<1>3. ASSUME NEW t \in Targeters, RunStep(t)
      PROVE  FALSE
  BY <1>3 DEF RunStep, CollectMails, FileMails, FileEntries, FileNotes, CommitSources,
              SourcesLost, FileCalls, NoCalls, Finish
<1>4. ~(AssignLive \/ AskFails \/ Restart)
  BY DEF AssignLive, AskFails, Restart, OnlyTimeline
<1>5. CASE Ask
  <2>1. \/ \E c \in Batchers, kind \in {"note", "call", "file"} : StartBatch(c, kind)
        \/ batch' = batch
    BY <1>5 DEF Ask, SyncForApp, PostCreateSync, Begin, AskForItem, AttachFile, MoveEntry,
                AssignSuggestion, ResetTargeted, AttachFolder, Reject, DeleteApp, ResetSource,
                TouchFile, DeleteEntry, LinkContact, UnlinkContact, OnlyTimeline
  <2> QED BY <1>1, <2>1
<1> QED BY <1>2, <1>3, <1>4, <1>5 DEF Next

(* Whatever people ask for, it takes no ground from a run.                 *)
LEMMA AskKeeps ==
  ASSUME IInv, Ask
  PROVE  \A u \in Targeters : RunInv(u)'
<1>1. ASSUME NEW a \in Apps, NEW reports \in BOOLEAN, NEW answering, Begin(a, reports, answering)
      PROVE  \A u \in Targeters : RunInv(u)'
  <2> SUFFICES ASSUME NEW u \in Targeters PROVE RunInv(u)'
    OBVIOUS
  <2>1. PICK t \in Targeters : run[t] = Idle /\ run' = [run EXCEPT ![t] = NewRun(a, reports, answering)]
    BY <1>1 DEF Begin
  <2>2. UNCHANGED <<known, linked, lock>>
    BY <1>1 DEF Begin, tables
  <2>3. CASE u = t
    <3>1. run'[u] = NewRun(a, reports, answering)
      BY <2>1, <2>3 DEF IInv, TypeOK
    <3> DEFINE r == NewRun(a, reports, answering)
    <3>2. /\ r.app = a /\ r.at = "sources" /\ r.mails = {} /\ r.new = {} /\ r.marks = {}
          /\ r.vouched = Company[a] \cup contacts[a]
      BY DEF NewRun, Snapshot
    <3>3. contacts[a] \subseteq linked[a]
      BY DEF IInv, LinksInv
    <3> HIDE DEF r
    <3> QED BY <2>2, <3>1, <3>2, <3>3 DEF RunInv, r
  <2>4. CASE u # t
    <3>1. run'[u] = run[u]
      BY <2>1, <2>4 DEF IInv, TypeOK
    <3>2. Undisturbed(u)
      BY <2>2, <3>1 DEF Undisturbed
    <3> QED BY <3>2, FrameOfRuns DEF IInv
  <2> QED BY <2>3, <2>4
<1>2. ASSUME run' = run, linked' = linked, lock = Free \/ UNCHANGED <<lock, known>>
      PROVE  \A u \in Targeters : RunInv(u)'
  BY <1>2, OthersKeep
<1>3. CASE \E a \in Apps, answering \in SUBSET Sources :
             SyncForApp(a, answering) \/ PostCreateSync(a, answering)
  BY <1>1, <1>3 DEF SyncForApp, PostCreateSync
<1>4. CASE \E b \in Batchers, kind \in {"note", "call", "file"} : StartBatch(b, kind)
  BY <1>2, <1>4 DEF StartBatch, tables
<1>5. CASE \E a \in Apps, i \in Items : AskForItem(a, i) \/ AttachFile(a, i)
  BY <1>2, <1>5 DEF AskForItem, AttachFile, tables, EndpointTurn, OnlyTimeline
<1>6. CASE \E a, b \in Apps, k \in Keys : MoveEntry(a, b, k)
  BY <1>2, <1>6 DEF MoveEntry, EndpointTurn, OnlyTimeline
<1>7. CASE \E a \in Apps, i \in Asks : AssignSuggestion(a, i)
  BY <1>2, <1>7 DEF AssignSuggestion, EndpointTurn, OnlyTimeline
<1>8. CASE \E a \in Apps : ResetTargeted(a) \/ AttachFolder(a)
  BY <1>2, <1>8 DEF ResetTargeted, AttachFolder, EndpointTurn, OnlyTimeline
<1>9. CASE \E a \in Apps : Reject(a) \/ DeleteApp(a)
  BY <1>2, <1>9 DEF Reject, DeleteApp, EndpointTurn
<1>10. CASE \E kind \in {"note", "call", "file"} : ResetSource(kind)
  BY <1>2, <1>10 DEF ResetSource, EndpointTurn
<1>11. CASE \E i \in Items : TouchFile(i)
  BY <1>2, <1>11 DEF TouchFile
<1>12. CASE \E a \in Apps, k \in Keys : DeleteEntry(a, k)
  BY <1>2, <1>12 DEF DeleteEntry, EndpointTurn, OnlyTimeline
<1>13. CASE \E a \in Apps, p \in People : LinkContact(a, p) \/ UnlinkContact(a, p)
  <2>1. PICK a \in Apps, p \in People : LinkContact(a, p) \/ UnlinkContact(a, p)
    BY <1>13
  <2>2. \A c \in Apps : linked[c] \subseteq linked'[c]
    BY <2>1 DEF LinkContact, UnlinkContact, IInv, TypeOK
  <2>3. run' = run /\ lock = Free
    BY <2>1 DEF LinkContact, UnlinkContact, EndpointTurn
  <2> QED BY <2>2, <2>3, OthersKeep
<1> QED BY <1>3, <1>4, <1>5, <1>6, <1>7, <1>8, <1>9, <1>10, <1>11, <1>12, <1>13 DEF Ask

(* Whoever is linked now is among those that ever were.                     *)
LEMMA LinksKeep ==
  ASSUME IInv, [Next]_vars
  PROVE  LinksInv'
<1> USE DEF IInv
<1>1. CASE UNCHANGED <<contacts, linked>>
  BY <1>1 DEF LinksInv
<1>2. ASSUME NEW t \in Targeters, CommitSources(t) PROVE LinksInv'
  BY <1>2 DEF CommitSources, CommitRun, LinksInv, TypeOK
<1>3. ASSUME NEW a \in Apps, NEW p \in People, LinkContact(a, p) \/ UnlinkContact(a, p)
      PROVE  LinksInv'
  BY <1>3 DEF LinkContact, UnlinkContact, LinksInv, TypeOK
<1>4. ASSUME NEW a \in Apps, DeleteApp(a) PROVE LinksInv'
  BY <1>4 DEF DeleteApp, LinksInv, TypeOK
<1>5. \/ UNCHANGED <<contacts, linked>>
      \/ \E t \in Targeters : CommitSources(t)
      \/ \E a \in Apps, p \in People : LinkContact(a, p) \/ UnlinkContact(a, p)
      \/ \E a \in Apps : DeleteApp(a)
  BY DEF Next, vars, tables, Ask, RunStep, BatchStep, SyncForApp, PostCreateSync, Begin,
         StartBatch, AskForItem, AttachFile, MoveEntry, AssignSuggestion, ResetTargeted,
         AttachFolder, Reject, ResetSource, TouchFile, DeleteEntry, CollectMails, FileMails,
         FileEntries, FileNotes, SourcesLost, FileCalls, NoCalls, Finish, FinishBatch, BatchFails,
         AssignLive, AskFails, Restart, OnlyTimeline
<1> QED BY <1>1, <1>2, <1>3, <1>4, <1>5

(* The invariant is inductive.                                             *)
LEMMA NextKeeps ==
  ASSUME IInv, [Next]_vars
  PROVE  IInv'
<1>1. CASE UNCHANGED vars
  BY <1>1 DEF vars, tables, IInv, TypeOK, LinksInv, RunInv, BatchInv, Predates
<1>2. CASE Next
  <2>1. TypeOK'
    BY <1>2, NextTypes DEF IInv
  <2>2. \A b \in Batchers : BatchInv(b)'
    BY <1>2, BatchesKeep
  <2>3. \A t \in Targeters : RunInv(t)'
    <3>1. CASE Ask
      BY <3>1, AskKeeps
    <3>2. CASE \E t \in Targeters : RunStep(t)
      BY <3>2, RunStepKeeps
    <3>3. CASE \E b \in Batchers : BatchStep(b)
      <4>1. run' = run /\ linked' = linked /\ (lock = Free \/ UNCHANGED <<lock, known>>)
        BY <3>3 DEF BatchStep, FinishBatch, BatchFails, tables
      <4> QED BY <4>1, OthersKeep
    <3>4. CASE AssignLive \/ AskFails
      <4>1. run' = run /\ linked' = linked /\ (lock = Free \/ UNCHANGED <<lock, known>>)
        BY <3>4 DEF AssignLive, AskFails, tables, OnlyTimeline, EndpointTurn
      <4> QED BY <4>1, OthersKeep
    <3>5. CASE Restart
      BY <3>5 DEF Restart, RunInv
    <3> QED BY <1>2, <3>1, <3>2, <3>3, <3>4, <3>5 DEF Next
  <2>4. LinksInv'
    BY <1>2, LinksKeep
  <2> QED BY <2>1, <2>2, <2>3, <2>4 DEF IInv
<1> QED BY <1>1, <1>2

(* It holds at the start.                                                  *)
LEMMA InitKeeps == Init => IInv
<1>1. Init => \A t \in Targeters : RunInv(t)
  BY DEF Init, RunInv
<1>2. Init => \A b \in Batchers : BatchInv(b)
  BY DEF Init, BatchInv
<1>3. Init => LinksInv
  BY DEF Init, LinksInv
<1> QED BY <1>1, <1>2, <1>3, InitTypes DEF IInv

(* At every moment of a behaviour, whatever runs overlap.                   *)
LEMMA RunsKeepTheirGround == Spec => []IInv
<1>1. IInv /\ [Next]_vars => IInv'
  BY NextKeeps
<1> QED BY <1>1, InitKeeps, PTL DEF Spec

-----------------------------------------------------------------------------
(* The properties.                                                          *)

(* One addition to a count shows where it is.                               *)
LEMMA PlusShows ==
  ASSUME TypeOK, NEW pairs, filed' = Plus(pairs), NEW p \in Apps \X Keys
  PROVE  /\ p \in pairs => filed'[p] = filed[p] + 1
         /\ p \notin pairs => filed'[p] = filed[p]
<1>1. filed[p] \in Nat /\ DOMAIN filed = Apps \X Keys
  BY DEF TypeOK
<1> QED BY <1>1 DEF Plus

(* Clearing a count shows where it is.                                     *)
LEMMA MinusShows ==
  ASSUME TypeOK, NEW pairs, filed' = Minus(pairs), NEW p \in Apps \X Keys
  PROVE  /\ p \in pairs => filed'[p] = 0
         /\ p \notin pairs => filed'[p] = filed[p]
<1>1. DOMAIN filed = Apps \X Keys
  BY DEF TypeOK
<1> QED BY <1>1 DEF Minus

(* A run files a calendar entry only on the strength of a correspondent     *)
(* linked before it commits, never of one it has itself created from a mail *)
(* of the same run, for any number of applications, items, runs, contacts.  *)
THEOREM NeverACascade == Spec => NoCascade
<1> DEFINE Strong == run' # run =>
             \A a \in Apps, i \in Of("entry") :
                filed'[<<a, RunKey(i)>>] > filed[<<a, RunKey(i)>>]
                => From[i] \in Company[a] \cup linked[a]
<1>1. IInv /\ [Next]_vars => [Strong]_filed
  <2> SUFFICES ASSUME IInv, [Next]_vars, filed' # filed, run' # run,
                      NEW a \in Apps, NEW i \in Of("entry"),
                      filed'[<<a, RunKey(i)>>] > filed[<<a, RunKey(i)>>]
               PROVE  From[i] \in Company[a] \cup linked[a]
    OBVIOUS
  <2>1. i \in Items /\ RunKey(i) \in Keys /\ TypeOK /\ Kind[i] = "entry"
    BY KeysOfItems DEF Of, IInv
  <2>2. filed[<<a, RunKey(i)>>] \in Nat
    BY <2>1 DEF TypeOK
  <2>3. \E t \in Targeters : CommitSources(t) \/ FileCalls(t)
    BY DEF Next, vars, Ask, RunStep, BatchStep, SyncForApp, PostCreateSync, Begin, StartBatch,
           AskForItem, AttachFile, MoveEntry, AssignSuggestion, ResetTargeted, AttachFolder,
           Reject, DeleteApp, ResetSource, TouchFile, DeleteEntry, LinkContact, UnlinkContact,
           CollectMails, FileMails, FileEntries,
           FileNotes, SourcesLost, NoCalls, Finish, FinishBatch, BatchFails, AssignLive,
           AskFails, Restart, tables, OnlyTimeline
  <2>4. PICK t \in Targeters : CommitSources(t) \/ FileCalls(t)
    BY <2>3
  <2>5. CASE CommitSources(t)
    <3>1. run[t] # Idle /\ filed' = Plus(run[t].new)
      BY <2>5 DEF CommitSources, CommitRun
    <3>2. <<a, RunKey(i)>> \in run[t].new
      BY <2>1, <2>2, <3>1, PlusShows
    <3>3. a = run[t].app
      BY <3>1, <3>2 DEF IInv, RunInv
    <3> QED BY <3>1, <3>2, <3>3 DEF IInv, RunInv
  <2>6. CASE FileCalls(t)
    <3> DEFINE new == {<<run[t].app, RunKey(j)>> : j \in
                         Found(t, "call") \ {k \in Found(t, "call") : Predates(k, Floor(run[t].app))}}
    <3>1. filed' = Plus(new)
      BY <2>6 DEF FileCalls
    <3>2. <<a, RunKey(i)>> \notin new
      <4>1. \A j \in Found(t, "call") : RunKey(j) # RunKey(i)
        BY <2>1, KeysOfItems DEF Found, Of
      <4> QED BY <4>1
    <3> HIDE DEF new
    <3> QED BY <2>1, <2>2, <3>1, <3>2, PlusShows
  <2> QED BY <2>4, <2>5, <2>6
<1>2. Spec => []IInv
  BY RunsKeepTheirGround
<1> QED BY <1>1, <1>2, PTL DEF Spec, NoCascade

(* An item that is on a timeline stays there when entries are added, and    *)
(* what is added is on one.                                                 *)
LEMMA GrowthHides ==
  ASSUME TypeOK, NothingVanishes, NEW pairs, filed' = Plus(pairs), settled \subseteq settled',
         known' \subseteq Keys,
         \A k \in known' \ known :
            \/ Kind[k[1]] = "file" \/ k \in settled' \/ \E a \in Apps : <<a, k>> \in pairs
  PROVE  NothingVanishes'
<1> SUFFICES ASSUME NEW k \in known', Kind[k[1]] # "file", k \notin settled'
             PROVE  \E a \in Apps : filed'[<<a, k>>] > 0
  BY DEF NothingVanishes
<1>1. \A a \in Apps : filed[<<a, k>>] \in Nat
  BY DEF TypeOK
<1>2. CASE \E a \in Apps : <<a, k>> \in pairs
  <2>1. PICK a \in Apps : <<a, k>> \in pairs
    BY <1>2
  <2>2. filed'[<<a, k>>] = filed[<<a, k>>] + 1 /\ filed[<<a, k>>] \in Nat
    BY <2>1, <1>1, PlusShows
  <2> QED BY <2>2
<1>3. CASE k \in known
  <2>1. PICK a \in Apps : filed[<<a, k>>] > 0
    BY <1>3 DEF NothingVanishes
  <2>2. /\ filed'[<<a, k>>] = filed[<<a, k>>] + 1 \/ filed'[<<a, k>>] = filed[<<a, k>>]
        /\ filed[<<a, k>>] \in Nat
    BY <1>1, PlusShows
  <2> QED BY <2>1, <2>2
<1> QED BY <1>2, <1>3

(* An entry that is moved is still on a timeline.                           *)
LEMMA MovesHide ==
  ASSUME TypeOK, NothingVanishes, NEW a \in Apps, NEW b \in Apps, a # b, NEW j \in Keys,
         filed' = [filed EXCEPT ![<<a, j>>] = @ - 1, ![<<b, j>>] = @ + 1],
         UNCHANGED <<known, settled>>
  PROVE  NothingVanishes'
<1> SUFFICES ASSUME NEW k \in known, Kind[k[1]] # "file", k \notin settled
             PROVE  \E c \in Apps : filed'[<<c, k>>] > 0
  BY DEF NothingVanishes
<1>1. <<a, j>> # <<b, j>> /\ DOMAIN filed = Apps \X Keys /\ filed[<<b, j>>] \in Nat /\ k \in Keys
  BY DEF TypeOK
<1>2. CASE k = j
  <2>1. filed'[<<b, j>>] = filed[<<b, j>>] + 1
    BY <1>1
  <2> QED BY <1>1, <1>2, <2>1
<1>3. CASE k # j
  <2>1. PICK c \in Apps : filed[<<c, k>>] > 0
    BY DEF NothingVanishes
  <2>2. <<c, k>> # <<a, j>> /\ <<c, k>> # <<b, j>>
    BY <1>3
  <2>3. filed'[<<c, k>>] = filed[<<c, k>>]
    BY <1>1, <2>2
  <2> QED BY <2>1, <2>3
<1> QED BY <1>2, <1>3

(* A run's commit: every key it marks comes with its entry, or is too old.  *)
LEMMA RunsHide ==
  ASSUME IInv, NothingVanishes, NEW t \in Targeters, CommitSources(t) \/ FileCalls(t),
         known' \subseteq Keys
  PROVE  NothingVanishes'
<1> USE DEF IInv
<1>1. run[t] # Idle /\ run[t] \in Run /\ run[t].app \in Apps /\ RunInv(t)
  BY DEF CommitSources, FileCalls, TypeOK, Run
<1>2. CASE CommitSources(t)
  <2>1. /\ filed' = Plus(run[t].new) /\ known' = known \cup run[t].marks
        /\ settled' = settled \cup {k \in run[t].marks : Predates(k[1], run[t].floor)}
    BY <1>2 DEF CommitSources, CommitRun
  <2>2. \A k \in run[t].marks : k \in settled' \/ <<run[t].app, k>> \in run[t].new
    BY <1>1, <2>1 DEF RunInv
  <2> QED BY <1>1, <2>1, <2>2, GrowthHides
<1>3. CASE FileCalls(t)
  <2> DEFINE found == Found(t, "call")
             old == {i \in found : Predates(i, Floor(run[t].app))}
             new == {<<run[t].app, RunKey(i)>> : i \in found \ old}
  <2>1. /\ filed' = Plus(new) /\ known' = known \cup {RunKey(i) : i \in found}
        /\ settled' = settled \cup {RunKey(i) : i \in old}
    BY <1>3 DEF FileCalls
  <2>2. \A i \in found : RunKey(i) \in settled' \/ <<run[t].app, RunKey(i)>> \in new
    BY <2>1
  <2>3. \A k \in known' \ known : k \in settled' \/ \E a \in Apps : <<a, k>> \in new
    BY <1>1, <2>1, <2>2
  <2> HIDE DEF found, old, new
  <2> QED BY <2>1, <2>3, GrowthHides
<1> QED BY <1>2, <1>3

(* An account-wide run marks what it files, and notes that have no home.    *)
LEMMA BatchesHide ==
  ASSUME IInv, NothingVanishes, NEW b \in Batchers, FinishBatch(b), known' \subseteq Keys
  PROVE  NothingVanishes'
<1>1. /\ filed' = Plus(Filings(b)) /\ known' = known \cup {BatchKey(i) : i \in Marked(b)}
      /\ settled' = settled \cup {BatchKey(i) : i \in {j \in Marked(b) : Homes(b, j) = {}}}
  BY DEF FinishBatch
<1>2. ASSUME NEW i \in Marked(b), Homes(b, i) # {}
      PROVE  \E a \in Apps : <<a, BatchKey(i)>> \in Filings(b)
  <2>1. i \in Open(b) /\ Kind[i] \in {"note", "call", "file"} /\ batch[b].apps \subseteq Apps
    <3>1. batch[b] # Idle /\ batch[b] \in Batch /\ BatchInv(b)
      BY DEF FinishBatch, IInv, TypeOK
    <3>2. i \in Open(b)
      BY DEF Marked
    <3> QED BY <3>1, <3>2 DEF Open, Batch, BatchInv, Of
  <2>2. Homes(b, i) \subseteq Apps
    <3>1. CASE Kind[i] = "note"
      <4>1. Hints(b, i) # {} => NoteTarget(b, i) \in Apps
        <5>1. Hints(b, i) \subseteq Apps /\ Apps \subseteq Nat
          BY <2>1, TargetedAssumption DEF Hints
        <5> QED BY <5>1, MinIsLeast DEF NoteTarget
      <4> QED BY <3>1, <4>1 DEF Homes
    <3>2. CASE Kind[i] = "call"
      BY <3>2 DEF Homes, Linked
    <3>3. CASE Kind[i] = "file"
      BY <2>1, <3>3 DEF Homes, Hints
    <3> QED BY <2>1, <3>1, <3>2, <3>3
  <2>3. PICK a \in Homes(b, i) : TRUE
    BY <1>2
  <2>4. a \in Apps /\ <<a, i>> \in {q \in Apps \X Open(b) : q[1] \in Homes(b, q[2])}
    BY <2>1, <2>2
  <2>5. <<a, BatchKey(i)>> \in Filings(b)
    BY <2>4 DEF Filings
  <2> QED BY <2>4, <2>5
<1>3. \A k \in known' \ known : k \in settled' \/ \E a \in Apps : <<a, k>> \in Filings(b)
  BY <1>1, <1>2
<1> QED BY <1>1, <1>3, GrowthHides DEF IInv

(* What people ask for: deletions settle, resets forget.                    *)
LEMMA PeopleHide ==
  ASSUME IInv, NothingVanishes, Ask \/ AssignLive, known' \subseteq Keys
  PROVE  NothingVanishes'
<1> USE DEF IInv
<1>1. ASSUME NEW pairs, filed' = Plus(pairs), UNCHANGED settled,
             \A k \in known' \ known : Kind[k[1]] = "file" \/ \E a \in Apps : <<a, k>> \in pairs
      PROVE  NothingVanishes'
  BY <1>1, GrowthHides
<1>2. CASE AssignLive
  <2>1. hand.app \in Apps
    BY <1>2 DEF AssignLive, TypeOK
  <2> QED BY <1>1, <1>2, <2>1 DEF AssignLive
<1>3. CASE \E a \in Apps, i \in Items : AttachFile(a, i)
  BY <1>1, <1>3 DEF AttachFile
<1>4. CASE \E a \in Apps : AttachFolder(a)
  <2>1. PICK a \in Apps : AttachFolder(a)
    BY <1>4
  <2>2. \A k \in known' \ known : Kind[k[1]] = "file"
    BY <2>1, KeysOfItems DEF AttachFolder, Of
  <2> QED BY <1>1, <2>1, <2>2 DEF AttachFolder
<1>5. CASE \E a, b \in Apps, k \in Keys : MoveEntry(a, b, k)
  <2>1. PICK a \in Apps, b \in Apps, k \in Keys : MoveEntry(a, b, k)
    BY <1>5
  <2>2. a # b
    BY <2>1 DEF MoveEntry, ElsewhereFiled
  <2> QED BY <2>1, <2>2, MovesHide DEF MoveEntry
<1>6. CASE \E a \in Apps, i \in Asks : AssignSuggestion(a, i)
  <2>1. PICK a \in Apps, i \in Asks : AssignSuggestion(a, i)
    BY <1>6
  <2> DEFINE k == SuggestionKey(i)
  <2>2. UNCHANGED <<known, settled>> /\ k \in Keys
    BY <2>1, KeysOfItems DEF AssignSuggestion
  <2>3. CASE Conflicts(a, k) = {}
    BY <1>1, <2>1, <2>2, <2>3 DEF AssignSuggestion
  <2>4. CASE Conflicts(a, k) # {}
    <3>1. PICK b \in Conflicts(a, k) :
            filed' = [filed EXCEPT ![<<b, k>>] = @ - 1, ![<<a, k>>] = @ + 1]
      BY <2>1, <2>4 DEF AssignSuggestion
    <3>2. b \in Apps /\ b # a
      BY DEF Conflicts
    <3> QED BY <2>2, <3>1, <3>2, MovesHide
  <2> QED BY <2>3, <2>4
<1>7. ASSUME NEW a \in Apps, ResetTargeted(a)
      PROVE  NothingVanishes'
  <2>1. \A k \in known' : k \in Keys /\ Kind[k[1]] \notin ForgottenKinds
    BY <1>7 DEF ResetTargeted
  <2>2. \A k \in Keys : Kind[k[1]] \in ForgottenKinds \/ Kind[k[1]] = "file"
    BY KeysOfItems, TargetedAssumption DEF ForgottenKinds
  <2> QED BY <2>1, <2>2 DEF NothingVanishes
<1>8. ASSUME NEW kind \in {"note", "call", "file"}, ResetSource(kind)
      PROVE  NothingVanishes'
  <2> SUFFICES ASSUME NEW k \in known', Kind[k[1]] # "file", k \notin settled'
               PROVE  \E a \in Apps : filed'[<<a, k>>] > 0
    BY DEF NothingVanishes
  <2>1. k \in known /\ Kind[k[1]] # kind /\ k \notin settled
    BY <1>8 DEF ResetSource
  <2>2. PICK a \in Apps : filed[<<a, k>>] > 0
    BY <2>1 DEF NothingVanishes
  <2>3. filed'[<<a, k>>] = filed[<<a, k>>]
    <3>1. CASE kind = "call"
      <4>1. filed' = Minus({p \in DOMAIN filed : Kind[p[2][1]] = "call"})
        BY <1>8, <3>1 DEF ResetSource
      <4>2. <<a, k>> \notin {p \in DOMAIN filed : Kind[p[2][1]] = "call"} /\ <<a, k>> \in Apps \X Keys
        BY <2>1, <3>1 DEF TypeOK
      <4> QED BY <4>1, <4>2, MinusShows
    <3>2. CASE kind # "call"
      BY <1>8, <3>2 DEF ResetSource
    <3> QED BY <3>1, <3>2
  <2> QED BY <2>2, <2>3
<1>9. ASSUME NEW a \in Apps, NEW gone \in SUBSET Keys, known' = known,
             \A k \in Keys \ gone, c \in Apps : filed'[<<c, k>>] = filed[<<c, k>>],
             \A k \in gone, c \in Apps \ {a} : filed'[<<c, k>>] = filed[<<c, k>>],
             \A k \in gone : filed[<<a, k>>] > 0 => k \in settled' \/ k \notin known,
             settled \subseteq settled'
      PROVE  NothingVanishes'
  <2> SUFFICES ASSUME NEW k \in known, Kind[k[1]] # "file", k \notin settled'
               PROVE  \E c \in Apps : filed'[<<c, k>>] > 0
    BY <1>9 DEF NothingVanishes
  <2>1. PICK c \in Apps : filed[<<c, k>>] > 0
    BY <1>9 DEF NothingVanishes
  <2>2. filed'[<<c, k>>] = filed[<<c, k>>]
    BY <1>9, <2>1 DEF TypeOK
  <2> QED BY <2>1, <2>2
<1>10. ASSUME NEW a \in Apps, NEW gone \in SUBSET Keys, filed' = Minus({a} \X gone)
       PROVE  /\ \A k \in Keys \ gone, c \in Apps : filed'[<<c, k>>] = filed[<<c, k>>]
              /\ \A k \in gone, c \in Apps \ {a} : filed'[<<c, k>>] = filed[<<c, k>>]
  <2>1. ASSUME NEW k \in Keys, NEW c \in Apps, k \notin gone \/ c # a
        PROVE  filed'[<<c, k>>] = filed[<<c, k>>]
    <3>1. <<c, k>> \in Apps \X Keys /\ <<c, k>> \notin {a} \X gone
      BY <2>1
    <3> QED BY <1>10, <3>1, MinusShows
  <2> QED BY <2>1
<1>11. ASSUME NEW a \in Apps, DeleteApp(a)
       PROVE  NothingVanishes'
  <2>1. filed' = Minus({a} \X Keys) /\ known' = known
    BY <1>11 DEF DeleteApp
  <2>2. settled' = settled \cup {k \in known : filed[<<a, k>>] > 0}
    BY <1>11 DEF DeleteApp
  <2> QED BY <1>9, <1>10, <2>1, <2>2
<1>12. ASSUME NEW a \in Apps, NEW p \in People, UnlinkContact(a, p)
       PROVE  NothingVanishes'
  <2>1. PICK titled \in SUBSET {k \in Keys : Kind[k[1]] = "call" /\ filed[<<a, k>>] > 0} :
          filed' = Minus({a} \X titled) /\ settled' = settled \cup (titled \cap known)
    BY <1>12 DEF UnlinkContact
  <2>2. titled \in SUBSET Keys /\ known' = known
    BY <1>12 DEF UnlinkContact
  <2> QED BY <1>9, <1>10, <2>1, <2>2
<1>13. ASSUME NEW a \in Apps, NEW j \in Keys, DeleteEntry(a, j)
       PROVE  NothingVanishes'
  <2>1. /\ filed' = [filed EXCEPT ![<<a, j>>] = @ - 1] /\ known' = known
        /\ settled' = settled \cup ({j} \cap known)
    BY <1>13 DEF DeleteEntry
  <2>2. ASSUME NEW k \in Keys, NEW c \in Apps, k # j \/ c # a
        PROVE  filed'[<<c, k>>] = filed[<<c, k>>]
    BY <2>1, <2>2 DEF TypeOK
  <2> SUFFICES ASSUME NEW k \in known, Kind[k[1]] # "file", k \notin settled'
               PROVE  \E c \in Apps : filed'[<<c, k>>] > 0
    BY <2>1 DEF NothingVanishes
  <2>3. k # j /\ k \notin settled
    BY <2>1
  <2>4. PICK c \in Apps : filed[<<c, k>>] > 0
    BY <2>3 DEF NothingVanishes
  <2>5. filed'[<<c, k>>] = filed[<<c, k>>]
    BY <2>2, <2>3 DEF TypeOK
  <2> QED BY <2>4, <2>5
<1>14. CASE UNCHANGED <<known, filed, settled>>
  BY <1>14 DEF NothingVanishes
<1>15. CASE Ask
  <2>1. \/ \E a \in Apps, i \in Items : AttachFile(a, i)
        \/ \E a, b \in Apps, k \in Keys : MoveEntry(a, b, k)
        \/ \E a \in Apps, i \in Asks : AssignSuggestion(a, i)
        \/ \E a \in Apps, k \in Keys : DeleteEntry(a, k)
        \/ \E a \in Apps, p \in People : UnlinkContact(a, p)
        \/ \E a \in Apps : ResetTargeted(a) \/ AttachFolder(a) \/ DeleteApp(a)
        \/ \E kind \in {"note", "call", "file"} : ResetSource(kind)
        \/ UNCHANGED <<known, filed, settled>>
    BY <1>15 DEF Ask, SyncForApp, PostCreateSync, Begin, StartBatch, AskForItem, Reject,
                 TouchFile, LinkContact, tables
  <2> QED BY <1>3, <1>4, <1>5, <1>6, <1>7, <1>8, <1>11, <1>12, <1>13, <1>14, <2>1
<1> QED BY <1>2, <1>15

(* Whatever overlaps and fails: an item the ledger knows, which no sync     *)
(* will bring again, is on a timeline, unless the run that marked it found  *)
(* it too old or its entry was deleted on request since; files excepted.    *)
THEOREM KnownIsSomewhere == Spec => []NothingVanishes
<1>1. Init => NothingVanishes
  BY DEF Init, NothingVanishes
<1>2. IInv /\ NothingVanishes /\ [Next]_vars => NothingVanishes'
  <2> SUFFICES ASSUME IInv, NothingVanishes, [Next]_vars PROVE NothingVanishes'
    OBVIOUS
  <2>1. known' \subseteq Keys
    BY NextTypes DEF IInv, TypeOK
  <2>2. \/ Ask \/ AssignLive
        \/ \E t \in Targeters : CommitSources(t) \/ FileCalls(t)
        \/ \E b \in Batchers : FinishBatch(b)
        \/ UNCHANGED <<known, filed, settled>>
    BY DEF Next, vars, RunStep, BatchStep, CollectMails, FileMails, FileEntries, FileNotes,
           SourcesLost, NoCalls, Finish, BatchFails, AskFails, Restart, tables
  <2>3. UNCHANGED <<known, filed, settled>> => NothingVanishes'
    BY DEF NothingVanishes
  <2> QED BY <2>1, <2>2, <2>3, PeopleHide, RunsHide, BatchesHide
<1>3. Spec => []IInv
  BY RunsKeepTheirGround
<1> QED BY <1>1, <1>2, <1>3, PTL DEF Spec

(* Whoever has asked and polls is told: a run that will report is under way *)
(* whatever became of its session, for any number of runs at a time.        *)
THEOREM AnswersCome == Spec => []AnswersAreComing
<1>1. TypeOK /\ AnswersAreComing /\ [Next]_vars => AnswersAreComing'
  <2> SUFFICES ASSUME TypeOK, AnswersAreComing, [Next]_vars, TypeOK'
               PROVE  AnswersAreComing'
    BY NextTypes
  <2> DEFINE Waits(a, t) == run[t] # Idle /\ run[t].app = a /\ run[t].reports
             Serves(a, t) == run'[t] # Idle /\ run'[t].app = a /\ run'[t].reports
  <2>1. ASSUME results' = results,
               \A t \in Targeters : run[t] # Idle =>
                  run'[t] # Idle /\ run'[t].app = run[t].app /\ run'[t].reports = run[t].reports
        PROVE  AnswersAreComing'
    BY <2>1 DEF AnswersAreComing
  <2>2. ASSUME NEW t \in Targeters, run[t] # Idle, results' = results,
               NEW s \in Run, run' = [run EXCEPT ![t] = s],
               s.app = run[t].app, s.reports = run[t].reports
        PROVE  AnswersAreComing'
    <3>1. \A u \in Targeters : run[u] # Idle =>
            run'[u] # Idle /\ run'[u].app = run[u].app /\ run'[u].reports = run[u].reports
      BY <2>2, IdleAssumption DEF TypeOK
    <3> QED BY <2>1, <2>2, <3>1
  <2>3. ASSUME NEW t \in Targeters, run[t] # Idle, EndRun(t)
        PROVE  AnswersAreComing'
    <3> SUFFICES ASSUME NEW a \in Apps, results'[a] = "asked"
                 PROVE  \E u \in Targeters : Serves(a, u)
      BY DEF AnswersAreComing
    <3>1. run[t].reports \in BOOLEAN /\ run[t].app \in Apps
      BY <2>3 DEF TypeOK, Run
    <3>2. results[a] = "asked" /\ ~(run[t].reports /\ run[t].app = a)
      BY <2>3, <3>1 DEF EndRun, TypeOK
    <3>3. PICK u \in Targeters : Waits(a, u)
      BY <3>2 DEF AnswersAreComing
    <3>4. u # t
      BY <3>2, <3>3
    <3>5. run'[u] = run[u]
      BY <2>3, <3>4 DEF EndRun, TypeOK
    <3> QED BY <3>3, <3>5
  <2>4. ASSUME NEW a \in Apps, NEW reports \in BOOLEAN,
               NEW answering \in SUBSET Sources, Begin(a, reports, answering),
               results' = IF reports THEN [results EXCEPT ![a] = "asked"] ELSE results
        PROVE  AnswersAreComing'
    <3>1. PICK t \in Targeters : run[t] = Idle /\ run' = [run EXCEPT ![t] = NewRun(a, reports, answering)]
      BY <2>4 DEF Begin
    <3>2. NewRun(a, reports, answering) \in Run
      BY NewRunType
    <3>3. /\ NewRun(a, reports, answering).app = a
          /\ NewRun(a, reports, answering).reports = reports
      BY DEF NewRun
    <3>4. run'[t] = NewRun(a, reports, answering) /\ run'[t] # Idle
      BY <3>1, <3>2, IdleAssumption DEF TypeOK
    <3>5. \A u \in Targeters : run[u] # Idle => run'[u] = run[u]
      BY <3>1 DEF TypeOK
    <3>6. CASE reports
      <4> SUFFICES ASSUME NEW c \in Apps, results'[c] = "asked"
                   PROVE  \E u \in Targeters : Serves(c, u)
        BY DEF AnswersAreComing
      <4>1. CASE c = a
        BY <3>3, <3>4, <3>6, <4>1
      <4>2. CASE c # a
        <5>1. results[c] = "asked"
          BY <2>4, <3>6, <4>2 DEF TypeOK
        <5> QED BY <3>5, <5>1 DEF AnswersAreComing
      <4> QED BY <4>1, <4>2
    <3>7. CASE ~reports
      BY <2>1, <2>4, <3>5, <3>7
    <3> QED BY <3>6, <3>7
  <2>5. ASSUME NEW t \in Targeters, RunStep(t) PROVE AnswersAreComing'
    <3>1. run[t] # Idle
      BY <2>5 DEF RunStep, CollectMails, FileMails, FileEntries, FileNotes, CommitSources,
             SourcesLost, FileCalls, NoCalls, Finish
    <3>2. run[t] \in Run
      BY <3>1 DEF TypeOK
    <3>3. CASE SourcesLost(t) \/ Finish(t)
      BY <2>3, <3>1, <3>3 DEF SourcesLost, Finish
    <3>4. CASE CollectMails(t)
      <4> DEFINE r == run[t]
      <4>1. PICK found \in SUBSET Found(t, "mail") :
              run' = [run EXCEPT ![t] =
                        IF found = {} \/ Cardinality(found) > MailLimit
                        THEN [r EXCEPT !.left = r.left \ {"mail"}]
                        ELSE [r EXCEPT !.left = (r.left \ {"mail"}) \cup {"mailbox"},
                                       !.mails = found]]
        BY <3>4 DEF CollectMails
      <4>2. found \subseteq Items /\ r.left \subseteq Sources \cup {"mailbox"}
        BY <3>2 DEF Found, Of, Run
      <4> DEFINE one == [r EXCEPT !.left = r.left \ {"mail"}]
                 two == [r EXCEPT !.left = (r.left \ {"mail"}) \cup {"mailbox"}, !.mails = found]
      <4>3. one \in Run /\ one.app = r.app /\ one.reports = r.reports
        <5>1. one \in Run
          BY <3>2, <4>2, RunParts
        <5>2. one.app = r.app /\ one.reports = r.reports
          BY <3>2 DEF Run
        <5> QED BY <5>1, <5>2
      <4>4. two \in Run /\ two.app = r.app /\ two.reports = r.reports
        <5>1. two \in Run
          BY <3>2, <4>2, RunParts
        <5>2. two.app = r.app /\ two.reports = r.reports
          BY <3>2 DEF Run
        <5> QED BY <5>1, <5>2
      <4>5. run' = [run EXCEPT ![t] = one] \/ run' = [run EXCEPT ![t] = two]
        BY <4>1
      <4> HIDE DEF one, two
      <4>6. results' = results
        BY <3>4 DEF CollectMails
      <4> QED BY <2>2, <3>1, <4>3, <4>4, <4>5, <4>6
    <3>5. ASSUME NEW open, open \subseteq Items, NEW source, Save(t, open, source), results' = results
          PROVE  AnswersAreComing'
      <4>1. /\ \A u \in Targeters \ {t} : run'[u] = run[u]
            /\ run'[t] \in Run
            /\ run'[t].app = run[t].app /\ run'[t].reports = run[t].reports
        BY <3>1, <3>5, SaveEffect
      <4> QED BY <2>1, <3>5, <4>1, IdleAssumption
    <3>6. CASE FileMails(t)
      BY <3>2, <3>5, <3>6 DEF FileMails, AskAgain, Run
    <3>7. CASE FileEntries(t)
      BY <3>5, <3>7 DEF FileEntries, FoundEntries, Found, Of
    <3>8. CASE FileNotes(t)
      BY <3>5, <3>8 DEF FileNotes, FoundNotes, Found, Of
    <3>9. CASE CommitSources(t)
      <4> DEFINE after == [run[t] EXCEPT !.at = "calls", !.vouched = contacts'[run[t].app],
                                         !.new = {}, !.marks = {}, !.met = {}]
      <4>1. CommitRun(t) /\ results' = results /\ run' = [run EXCEPT ![t] = after]
        BY <3>9 DEF CommitSources
      <4>2. contacts'[run[t].app] \in SUBSET People
        BY <3>1, <4>1, CommitTypes
      <4>3. after \in Run /\ after.app = run[t].app /\ after.reports = run[t].reports
        <5>1. after \in Run
          BY <3>2, <4>2, RunParts
        <5>2. after.app = run[t].app /\ after.reports = run[t].reports
          BY <3>2 DEF Run
        <5> QED BY <5>1, <5>2
      <4> HIDE DEF after
      <4> QED BY <2>2, <3>1, <4>1, <4>3
    <3>10. CASE FileCalls(t) \/ NoCalls(t)
      <4> DEFINE after == [run[t] EXCEPT !.at = "scoring"]
      <4>1. run' = [run EXCEPT ![t] = after] /\ results' = results
        BY <3>10 DEF FileCalls, NoCalls, TypeOK
      <4>2. after \in Run /\ after.app = run[t].app /\ after.reports = run[t].reports
        <5>1. after \in Run
          BY <3>2, RunParts
        <5>2. after.app = run[t].app /\ after.reports = run[t].reports
          BY <3>2 DEF Run
        <5> QED BY <5>1, <5>2
      <4> HIDE DEF after
      <4> QED BY <2>2, <3>1, <4>1, <4>2
    <3> QED BY <2>5, <3>3, <3>4, <3>6, <3>7, <3>8, <3>9, <3>10 DEF RunStep
  <2>6. CASE Ask
    <3>1. CASE \E a \in Apps, answering \in SUBSET Sources : SyncForApp(a, answering)
      BY <2>4, <3>1 DEF SyncForApp
    <3>2. CASE \E a \in Apps, answering \in SUBSET Sources : PostCreateSync(a, answering)
      BY <2>4, <3>2 DEF PostCreateSync
    <3>3. CASE ~\E a \in Apps, answering \in SUBSET Sources :
                  SyncForApp(a, answering) \/ PostCreateSync(a, answering)
      <4>1. run' = run /\ results' = results
        BY <2>6, <3>3 DEF Ask, StartBatch, AskForItem, AttachFile, MoveEntry, AssignSuggestion,
             ResetTargeted, AttachFolder, Reject, DeleteApp, ResetSource, TouchFile, DeleteEntry,
             LinkContact, UnlinkContact, OnlyTimeline
      <4> QED BY <2>1, <4>1
    <3> QED BY <3>1, <3>2, <3>3
  <2>7. CASE \/ UNCHANGED vars \/ AssignLive \/ AskFails
             \/ \E b \in Batchers : BatchStep(b)
    <3>1. run' = run /\ results' = results
      BY <2>7 DEF vars, AssignLive, AskFails, BatchStep, FinishBatch, BatchFails, OnlyTimeline
    <3> QED BY <2>1, <3>1
  <2>8. CASE Restart
    BY <2>8 DEF Restart, AnswersAreComing
  <2> QED BY <2>5, <2>6, <2>7, <2>8 DEF Next
<1>2. Init => AnswersAreComing
  BY DEF Init, AnswersAreComing
<1>3. Spec => []TypeOK
  BY TypeCorrect
<1> QED BY <1>1, <1>2, <1>3, PTL DEF Spec

-----------------------------------------------------------------------------
(* The refinement of ItemSource.                                            *)

(* Keys an account-wide run may file in several applications: calls.        *)
IndexShared == {BatchKey(i) : i \in Of("call")}

(* Entries of keys the ledger did not know and knows from now on, one of a  *)
(* key unless it may be shared.                                             *)
LEMMA PlusImports ==
  ASSUME TypeOK, NEW pairs, pairs \subseteq Apps \X Keys, filed' = Plus(pairs),
         known \subseteq known',
         \A p \in pairs : p[2] \notin known /\ p[2] \in known',
         \A p, q \in pairs : p[2] = q[2] => p = q \/ p[2] \in IndexShared
  PROVE  Index!Import
<1>1. \A p \in Index!Added : p \in pairs
  BY PlusShows DEF Index!Added
<1>2. \A p \in pairs : filed'[p] = filed[p] + 1
  BY PlusShows
<1> QED BY <1>1, <1>2 DEF Index!Import, Index!Added, IndexShared

(* One entry that a person files.                                           *)
LEMMA PlusAssigns ==
  ASSUME TypeOK, NEW p \in Apps \X Keys, filed' = Plus({p}),
         known \subseteq known', known' \subseteq known \cup {p[2]}
  PROVE  Index!Assign
<1>1. filed'[p] = filed[p] + 1 /\ filed[p] \in Nat
  BY PlusShows DEF TypeOK
<1>2. \A q \in Apps \X Keys : q # p => filed'[q] = filed[q]
  BY PlusShows
<1>3. p \in Index!Added
  BY <1>1 DEF Index!Added
<1>4. Index!Added \ {p} = {}
  BY <1>2 DEF Index!Added
<1> QED BY <1>1, <1>3, <1>4 DEF Index!Assign

(* One entry that a person moves.                                           *)
LEMMA MoveAssigns ==
  ASSUME TypeOK, NEW a \in Apps, NEW b \in Apps, a # b, NEW k \in Keys, filed[<<a, k>>] > 0,
         filed' = [filed EXCEPT ![<<a, k>>] = @ - 1, ![<<b, k>>] = @ + 1],
         known' = known
  PROVE  Index!Assign
<1> DEFINE p == <<b, k>>
           s == <<a, k>>
<1>1. p \in Apps \X Keys /\ s \in Apps \X Keys /\ p # s /\ p[2] = k /\ s[2] = k
  OBVIOUS
<1>2. filed[p] \in Nat /\ filed[s] \in Nat /\ DOMAIN filed = Apps \X Keys
  BY <1>1 DEF TypeOK
<1>3. filed'[p] = filed[p] + 1 /\ filed'[s] = filed[s] - 1
  BY <1>1, <1>2
<1>4. \A q \in Apps \X Keys : q # p /\ q # s => filed'[q] = filed[q]
  BY <1>1, <1>2
<1> HIDE DEF p, s
<1>5. p \in Index!Added /\ \A q \in Index!Added \ {p} : q = s
  BY <1>1, <1>2, <1>3, <1>4 DEF Index!Added
<1>6. \A q \in Index!Added \ {p} : q[2] = p[2] /\ filed'[q] + 1 = filed[q]
  BY <1>1, <1>2, <1>3, <1>5
<1> QED BY <1>3, <1>5, <1>6 DEF Index!Assign

(* Entries that disappear together.                                         *)
LEMMA MinusForgets ==
  ASSUME TypeOK, NEW pairs, filed' = Minus(pairs), known' \subseteq known
  PROVE  Index!Forget
<1> SUFFICES ASSUME NEW p \in Index!Added PROVE filed'[p] < filed[p]
  BY DEF Index!Forget
<1>1. p \in Apps \X Keys /\ filed'[p] # filed[p] /\ filed[p] \in Nat
  BY DEF Index!Added, TypeOK
<1>2. filed'[p] = 0
  BY <1>1, MinusShows
<1> QED BY <1>1, <1>2

(* Both commits of a targeted run are imports.                             *)
LEMMA RunsImport ==
  ASSUME IInv, NEW t \in Targeters, CommitSources(t) \/ FileCalls(t)
  PROVE  Index!Import
<1> USE DEF IInv
<1>1. run[t] # Idle /\ run[t] \in Run /\ run[t].app \in Apps /\ RunInv(t)
  BY DEF CommitSources, FileCalls, TypeOK, Run
<1>2. CASE CommitSources(t)
  <2> DEFINE new == run[t].new
  <2>1. filed' = Plus(new) /\ known' = known \cup run[t].marks
    BY <1>2 DEF CommitSources, CommitRun
  <2>2. new \subseteq Apps \X Keys
    BY <1>1 DEF Run
  <2>3. \A p \in new : p[1] = run[t].app /\ p[2] \notin known /\ p[2] \in known'
    BY <1>1, <2>1 DEF RunInv
  <2>4. \A p, q \in new : p[2] = q[2] => p = q
    BY <2>2, <2>3
  <2> HIDE DEF new
  <2> QED BY <2>1, <2>2, <2>3, <2>4, PlusImports
<1>3. CASE FileCalls(t)
  <2> DEFINE found == Found(t, "call")
             fresh == found \ {i \in found : Predates(i, Floor(run[t].app))}
             new == {<<run[t].app, RunKey(i)>> : i \in fresh}
  <2>1. filed' = Plus(new) /\ known' = known \cup {RunKey(i) : i \in found}
    BY <1>3 DEF FileCalls
  <2>2. \A i \in found : i \in Items /\ RunKey(i) \notin known
    BY DEF Found, Of, IsSynced
  <2>3. new \subseteq Apps \X Keys
    BY <1>1, <2>2, KeysOfItems
  <2>4. \A p \in new : p[2] \notin known /\ p[2] \in known'
    BY <2>1, <2>2
  <2>5. \A p, q \in new : p[2] = q[2] => p = q
    OBVIOUS
  <2> HIDE DEF new, found
  <2> QED BY <2>1, <2>3, <2>4, <2>5, PlusImports
<1> QED BY <1>2, <1>3

(* The end of an account-wide run is an import.                            *)
LEMMA BatchesImport ==
  ASSUME IInv, NEW b \in Batchers, FinishBatch(b)
  PROVE  Index!Import
<1> USE DEF IInv
<1>1. batch[b] # Idle /\ batch[b] \in Batch /\ BatchInv(b)
  BY DEF FinishBatch, TypeOK
<1> DEFINE new == Filings(b)
<1>2. \A p \in new : \E i \in Open(b) : p[1] \in Homes(b, i) /\ p[2] = BatchKey(i) /\ p = <<p[1], BatchKey(i)>>
  BY DEF Filings
<1>3. \A i \in Open(b) : /\ i \in Items /\ BatchKey(i) \in Keys /\ BatchKey(i) \notin known
                         /\ Kind[i] \in {"note", "call", "file"}
  BY <1>1, KeysOfItems DEF Open, Batch, BatchInv, Of
<1>4. new \subseteq Apps \X Keys
  BY <1>3 DEF Filings
<1>5. known' = known \cup {BatchKey(i) : i \in Marked(b)} /\ filed' = Plus(new)
  BY DEF FinishBatch
<1>6. \A p \in new : p[2] \notin known /\ p[2] \in known'
  <2> SUFFICES ASSUME NEW p \in new PROVE p[2] \notin known /\ p[2] \in known'
    OBVIOUS
  <2>1. PICK i \in Open(b) : p[1] \in Homes(b, i) /\ p[2] = BatchKey(i)
    BY <1>2
  <2>2. i \in Marked(b)
    BY <2>1 DEF Marked
  <2> QED BY <1>3, <1>5, <2>1, <2>2
<1>7. \A i \in Open(b) : Kind[i] # "call" => \A x, y \in Homes(b, i) : x = y
  <2> SUFFICES ASSUME NEW i \in Open(b), Kind[i] # "call", NEW x \in Homes(b, i), NEW y \in Homes(b, i)
               PROVE  x = y
    OBVIOUS
  <2>1. CASE Kind[i] = "note"
    BY <2>1 DEF Homes
  <2>2. CASE Kind[i] = "file"
    <3>1. Homes(b, i) = IF Cardinality(Hints(b, i)) = 1 THEN Hints(b, i) ELSE {}
      BY <2>2 DEF Homes
    <3>2. Cardinality(Hints(b, i)) = 1 /\ Homes(b, i) = Hints(b, i)
      BY <3>1
    <3>3. IsFiniteSet(Hints(b, i))
      <4>1. Hints(b, i) \subseteq Apps
        BY <1>1, <1>3, TargetedAssumption DEF Hints, Batch
      <4> QED BY <4>1, FS_Subset, TargetedAssumption
    <3>4. \E z : Hints(b, i) = {z}
      BY <3>2, <3>3, FS_Singleton
    <3> QED BY <3>2, <3>4
  <2> QED BY <1>3, <2>1, <2>2
<1>8. \A p, q \in new : p[2] = q[2] => p = q \/ p[2] \in IndexShared
  <2> SUFFICES ASSUME NEW p \in new, NEW q \in new, p[2] = q[2]
               PROVE  p = q \/ p[2] \in IndexShared
    OBVIOUS
  <2>1. PICK i \in Open(b) : p[1] \in Homes(b, i) /\ p[2] = BatchKey(i) /\ p = <<p[1], BatchKey(i)>>
    BY <1>2
  <2>2. PICK j \in Open(b) : q[1] \in Homes(b, j) /\ q[2] = BatchKey(j) /\ q = <<q[1], BatchKey(j)>>
    BY <1>2
  <2>3. i = j
    <3>1. i \in Items /\ j \in Items
      BY <1>3
    <3>2. BatchKey(i)[1] = i /\ BatchKey(j)[1] = j
      BY <3>1, KeysOfItems
    <3>3. BatchKey(i) = BatchKey(j)
      BY <2>1, <2>2
    <3> QED BY <3>2, <3>3
  <2>4. CASE Kind[i] = "call"
    BY <1>3, <2>1, <2>4 DEF IndexShared, Of
  <2>5. CASE Kind[i] # "call"
    BY <1>7, <2>1, <2>2, <2>3, <2>5
  <2> QED BY <2>4, <2>5
<1>9. known \subseteq known'
  BY <1>5
<1> HIDE DEF new
<1> QED BY <1>4, <1>5, <1>6, <1>8, <1>9, PlusImports

(* What people do is an assignment, an import of a folder or a reset.      *)
LEMMA PeopleAssign ==
  ASSUME TypeOK, Ask \/ AssignLive
  PROVE  [Index!Next]_<<known, filed>>
<1>1. CASE AssignLive
  <2>1. hand.app \in Apps /\ hand.item \in Items
    BY <1>1 DEF AssignLive, TypeOK
  <2>2. <<hand.app, LiveKey(hand.item)>> \in Apps \X Keys
    BY <2>1, KeysOfItems
  <2>3. Index!Assign
    BY <1>1, <2>2, PlusAssigns DEF AssignLive
  <2> QED BY <2>3 DEF Index!Next
<1>2. ASSUME NEW a \in Apps, NEW i \in Items, AttachFile(a, i)
      PROVE  Index!Assign
  <2>1. <<a, RunKey(i)>> \in Apps \X Keys
    BY KeysOfItems
  <2> QED BY <1>2, <2>1, PlusAssigns DEF AttachFile
<1>3. ASSUME NEW a \in Apps, NEW b \in Apps, NEW k \in Keys, MoveEntry(a, b, k)
      PROVE  Index!Assign
  <2>1. a # b /\ filed[<<a, k>>] > 0
    BY <1>3 DEF MoveEntry, ElsewhereFiled
  <2> QED BY <1>3, <2>1, MoveAssigns DEF MoveEntry
<1>4. ASSUME NEW a \in Apps, NEW i \in Asks, AssignSuggestion(a, i)
      PROVE  Index!Assign
  <2> DEFINE k == SuggestionKey(i)
  <2>1. k \in Keys /\ known' = known
    BY <1>4, KeysOfItems DEF AssignSuggestion
  <2>2. CASE Conflicts(a, k) = {}
    <3>1. filed' = Plus({<<a, k>>}) /\ <<a, k>> \in Apps \X Keys
      BY <1>4, <2>1, <2>2 DEF AssignSuggestion
    <3> HIDE DEF k
    <3> QED BY <2>1, <3>1, PlusAssigns
  <2>3. CASE Conflicts(a, k) # {}
    <3>1. PICK b \in Conflicts(a, k) :
            filed' = [filed EXCEPT ![<<b, k>>] = @ - 1, ![<<a, k>>] = @ + 1]
      BY <1>4, <2>3 DEF AssignSuggestion
    <3>2. b \in Apps /\ b # a /\ filed[<<b, k>>] > 0
      BY DEF Conflicts
    <3> HIDE DEF k
    <3> QED BY <2>1, <3>1, <3>2, MoveAssigns
  <2> QED BY <2>2, <2>3
<1>5. ASSUME NEW a \in Apps, AttachFolder(a)
      PROVE  Index!Import
  <2> DEFINE items == {i \in Of("file") : RunKey(i) \notin known}
             new == {<<a, RunKey(i)>> : i \in items}
  <2>1. filed' = Plus(new) /\ known' = known \cup {RunKey(i) : i \in items}
    BY <1>5 DEF AttachFolder
  <2>2. new \subseteq Apps \X Keys
    BY KeysOfItems DEF Of
  <2>3. \A p \in new : p[2] \notin known /\ p[2] \in known'
    BY <2>1
  <2>4. \A p, q \in new : p[2] = q[2] => p = q
    OBVIOUS
  <2>5. known \subseteq known'
    BY <2>1
  <2> HIDE DEF new
  <2> QED BY <2>1, <2>2, <2>3, <2>4, <2>5, PlusImports
<1>6. ASSUME NEW a \in Apps, ResetTargeted(a) \/ DeleteApp(a)
      PROVE  Index!Forget
  BY <1>6, MinusForgets DEF ResetTargeted, DeleteApp
<1>7. ASSUME NEW a \in Apps, NEW k \in Keys, DeleteEntry(a, k)
      PROVE  Index!Forget
  <2> DEFINE p == <<a, k>>
  <2>1. known' = known /\ filed' = [filed EXCEPT ![p] = @ - 1] /\ p \in Apps \X Keys
    BY <1>7 DEF DeleteEntry
  <2>2. filed[p] \in Nat /\ DOMAIN filed = Apps \X Keys
    BY <2>1 DEF TypeOK
  <2> HIDE DEF p
  <2>3. filed'[p] = filed[p] - 1 /\ \A q \in Apps \X Keys : q # p => filed'[q] = filed[q]
    BY <2>1, <2>2
  <2>4. \A q \in Index!Added : filed'[q] < filed[q]
    BY <2>2, <2>3 DEF Index!Added
  <2> QED BY <2>1, <2>4 DEF Index!Forget
<1>8. ASSUME NEW a \in Apps, NEW p \in People, UnlinkContact(a, p)
       PROVE  Index!Forget
  BY <1>8, MinusForgets DEF UnlinkContact
<1>9. ASSUME NEW kind \in {"note", "call", "file"}, ResetSource(kind)
      PROVE  [Index!Next]_<<known, filed>>
  <2>1. known' \subseteq known
    BY <1>9 DEF ResetSource
  <2>2. CASE kind = "call"
    BY <1>9, <2>1, <2>2, MinusForgets DEF ResetSource, Index!Next
  <2>3. CASE kind # "call"
    <3>1. filed' = filed
      BY <1>9, <2>3 DEF ResetSource
    <3>2. Index!Forget
      BY <2>1, <3>1 DEF Index!Forget, Index!Added
    <3> QED BY <3>2 DEF Index!Next
  <2> QED BY <2>2, <2>3
<1>10. CASE Ask
  <2>1. \/ \E a \in Apps, i \in Items : AttachFile(a, i)
        \/ \E a, b \in Apps, k \in Keys : MoveEntry(a, b, k)
        \/ \E a \in Apps, i \in Asks : AssignSuggestion(a, i)
        \/ \E a \in Apps, k \in Keys : DeleteEntry(a, k)
        \/ \E a \in Apps, p \in People : UnlinkContact(a, p)
        \/ \E a \in Apps : ResetTargeted(a) \/ AttachFolder(a) \/ DeleteApp(a)
        \/ \E kind \in {"note", "call", "file"} : ResetSource(kind)
        \/ UNCHANGED <<known, filed>>
    BY <1>10 DEF Ask, SyncForApp, PostCreateSync, Begin, StartBatch, AskForItem, Reject,
                TouchFile, LinkContact, tables
  <2> QED BY <1>2, <1>3, <1>4, <1>5, <1>6, <1>9, <1>7, <1>8, <2>1 DEF Index!Next
<1> QED BY <1>1, <1>10

(* However targeted runs, account-wide runs, failed flushes, restarts,      *)
(* resets and people interleave, what is committed implements ItemSource,   *)
(* for any number of applications, items and runs.                          *)
THEOREM ImplementsItemSource == Spec => FilesEachItemOnce
<1>1. Init => Index!Init
  BY DEF Init, Index!Init
<1>2. IInv /\ [Next]_vars => [Index!Next]_<<known, filed>>
  <2> SUFFICES ASSUME IInv, [Next]_vars PROVE [Index!Next]_<<known, filed>>
    OBVIOUS
  <2>1. \/ Ask \/ AssignLive
        \/ \E t \in Targeters : CommitSources(t) \/ FileCalls(t)
        \/ \E b \in Batchers : FinishBatch(b)
        \/ UNCHANGED <<known, filed>>
    BY DEF Next, vars, RunStep, BatchStep, CollectMails, FileMails, FileEntries, FileNotes,
           SourcesLost, NoCalls, Finish, BatchFails, AskFails, Restart, tables
  <2>2. CASE Ask \/ AssignLive
    BY <2>2, PeopleAssign DEF IInv
  <2>3. CASE \E t \in Targeters : CommitSources(t) \/ FileCalls(t)
    BY <2>3, RunsImport DEF Index!Next
  <2>4. CASE \E b \in Batchers : FinishBatch(b)
    BY <2>4, BatchesImport DEF Index!Next
  <2> QED BY <2>1, <2>2, <2>3, <2>4
<1>3. Spec => []IInv
  BY RunsKeepTheirGround
<1> QED BY <1>1, <1>2, <1>3, PTL DEF Spec, FilesEachItemOnce, Index!Spec
=============================================================================
