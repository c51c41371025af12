----------------------------- MODULE Backup_proofs -----------------------------
(***************************************************************************)
(* Proofs about backups: BackupRotation, the folder the agent keeps, for   *)
(* any retention policy, any number of concurrent requests and any         *)
(* calendar; BackupDelivery, the way of a bundle into that folder and of   *)
(* the answer back; and BackupService, the backend's bundles and restores, *)
(* for any number of keys, requests, syncs and bundles.                    *)
(***************************************************************************)
EXTENDS BackupDelivery, BackupService, TLAPS, FiniteSetTheorems, WellFoundedInduction

-----------------------------------------------------------------------------
(* The folder.  A backup is essential when it is among the latest, or is   *)
(* the newest of one of the latest days or weeks, of all backups ever      *)
(* taken.  Whatever a request sees of the folder, it keeps the essential   *)
(* files it sees (KeptEssential); a later backup makes no older file       *)
(* essential (EssentialShrinks).  So no essential file is ever deleted or  *)
(* doomed.                                                                 *)
Essential == Newest(KeepHourly, taken) \cup Tier(taken, DayOf, KeepDaily)
               \cup Tier(taken, WeekOf, KeepWeekly)

RotationInv ==
    /\ RotationTypeOK
    /\ Essential \subseteq files
    /\ \A w \in Writers : doomed[w] \cap Essential = {}

LEMMA FiniteTimes == \A S : S \subseteq Times => IsFiniteSet(S)
<1>1. IsFiniteSet(Times)
  BY RotationAssumption, FS_Interval DEF Times
<1> QED BY <1>1, FS_Subset

LEMMA FinitePeriods ==
  ASSUME NEW F, F \subseteq Times, NEW period \in [Times -> Nat]
  PROVE  IsFiniteSet(PeriodsOf(F, period)) /\ PeriodsOf(F, period) \subseteq Nat
<1>1. IsFiniteSet(F)
  BY FiniteTimes
<1> DEFINE f == [x \in F |-> period[x]]
<1>2. f \in Surjection(F, PeriodsOf(F, period))
  BY DEF Surjection, PeriodsOf
<1>3. IsFiniteSet(PeriodsOf(F, period))
  BY <1>1, <1>2, FS_Surjection
<1> QED BY <1>3 DEF PeriodsOf

(* Being among the n greatest survives taking a subset. *)
LEMMA NewestOfSubset ==
  ASSUME NEW S, NEW T, S \subseteq T, IsFiniteSet(T), T \subseteq Nat, NEW n \in Nat,
         NEW x \in S, x \in Newest(n, T)
  PROVE  x \in Newest(n, S)
<1> DEFINE A == {y \in S : y > x}
           B == {y \in T : y > x}
<1>1. IsFiniteSet(B) /\ A \subseteq B
  BY FS_Subset
<1>2. Cardinality(A) <= Cardinality(B) /\ IsFiniteSet(A)
  BY <1>1, FS_Subset
<1>3. Cardinality(A) \in Nat /\ Cardinality(B) \in Nat
  BY <1>1, <1>2, FS_CardinalityType
<1>4. Cardinality(B) < n
  BY DEF Newest
<1> QED BY <1>2, <1>3, <1>4 DEF Newest

(* So does representing one of the n latest periods. *)
LEMMA TierOfSubset ==
  ASSUME NEW S, NEW T, S \subseteq T, T \subseteq Times, NEW n \in Nat,
         NEW period \in [Times -> Nat], NEW f \in S, f \in Tier(T, period, n)
  PROVE  f \in Tier(S, period, n)
<1>1. PeriodsOf(S, period) \subseteq PeriodsOf(T, period)
  BY DEF PeriodsOf
<1>2. period[f] \in PeriodsOf(S, period)
  BY DEF PeriodsOf
<1>3. period[f] \in Newest(n, PeriodsOf(T, period))
  BY DEF Tier
<1>4. period[f] \in Newest(n, PeriodsOf(S, period))
  BY <1>1, <1>2, <1>3, FinitePeriods, NewestOfSubset
<1> QED BY <1>4 DEF Tier

(* A non-empty set of times has a latest one. *)
LEMMA Latest ==
  ASSUME NEW G, G \subseteq Times, G # {}
  PROVE  \E f \in G : \A g \in G : g <= f
<1> DEFINE R == StrictSubsetOrdering(G)
           After(x) == {y \in G : y > x}
           T == {After(x) : x \in G}
<1>1. T \subseteq FiniteSubsetsOf(G) /\ T # {}
  BY FiniteTimes DEF FiniteSubsetsOf
<1>2. PICK A \in T : \A B \in T : ~(<<B, A>> \in R)
  <2>1. IsWellFoundedOn(R, FiniteSubsetsOf(G))
    BY FS_StrictSubsetOrderingWellFounded
  <2> HIDE DEF R, T
  <2> QED BY <1>1, <2>1, WFMin
<1>3. PICK f \in G : A = After(f)
  OBVIOUS
<1>4. ASSUME NEW g \in G, g > f PROVE FALSE
  <2>1. g \in Nat /\ f \in Nat /\ \A y \in G : y \in Nat
    BY DEF Times
  <2>2. \A y \in G : y > g => y > f
    BY <1>4, <2>1
  <2>3. ~(g > g)
    BY <2>1
  <2>4. After(g) \subseteq After(f)
    BY <2>2
  <2>5. g \in After(f) /\ g \notin After(g)
    BY <1>4, <2>3
  <2>6. After(g) \subseteq A /\ After(g) # A
    BY <1>3, <2>4, <2>5
  <2>7. After(g) \in SUBSET G /\ A \in SUBSET G /\ After(g) \in T
    BY <1>3
  <2> HIDE DEF After, T
  <2>8. <<After(g), A>> \in R
    BY <2>6, <2>7 DEF StrictSubsetOrdering
  <2> QED BY <1>2, <2>7, <2>8
<1> QED BY <1>4, RotationAssumption DEF Times

(* The n latest periods of S have their newest file in Tier(S, period, n). *)
LEMMA TierCovers ==
  ASSUME NEW S, S \subseteq Times, NEW n \in Nat, NEW period \in [Times -> Nat],
         NEW d \in Newest(n, PeriodsOf(S, period))
  PROVE  \E f \in Tier(S, period, n) : period[f] = d
<1> DEFINE G == {f \in S : period[f] = d}
<1>1. G # {} /\ G \subseteq Times
  BY DEF Newest, PeriodsOf
<1>2. PICK f \in G : \A g \in G : g <= f
  BY <1>1, Latest
<1>3. f \in Tier(S, period, n)
  BY <1>2 DEF Tier
<1> QED BY <1>2, <1>3

-----------------------------------------------------------------------------
(* A rotation keeps every essential file that it sees. *)
LEMMA KeptEssential ==
  ASSUME RotationTypeOK, NEW f \in files, f \in Essential
  PROVE  f \in Kept(files)
<1> USE RotationAssumption
<1> Times \subseteq Nat
  BY DEF Times
<1>0. taken \subseteq Times /\ taken \subseteq Nat /\ IsFiniteSet(taken)
        /\ files \subseteq taken
  BY FiniteTimes DEF RotationTypeOK
<1>1. CASE f \in Newest(KeepHourly, taken)
  BY <1>0, <1>1, NewestOfSubset DEF Kept, Hourly
<1>2. CASE f \in Hourly(files)
  BY <1>2 DEF Kept
<1>3. CASE f \in Tier(taken, DayOf, KeepDaily) /\ f \notin Hourly(files)
  BY <1>0, <1>3, TierOfSubset DEF Kept, Daily, RotationTypeOK
<1>4. CASE f \in Tier(taken, WeekOf, KeepWeekly) /\ f \notin Hourly(files)
  <2>1. CASE f \in Daily(files)
    BY <2>1 DEF Kept
  <2>2. CASE f \notin Daily(files)
    BY <1>0, <1>4, <2>2, TierOfSubset DEF Kept, Weekly, RotationTypeOK
  <2> QED BY <2>1, <2>2
<1> QED BY <1>1, <1>2, <1>3, <1>4 DEF Essential

(* A new backup makes no older file essential. *)
LEMMA EssentialShrinks ==
  ASSUME RotationTypeOK, RotationTypeOK', taken \subseteq taken'
  PROVE  Essential' \cap taken \subseteq Essential
<1> USE RotationAssumption
<1> SUFFICES ASSUME NEW f \in taken, f \in Essential' PROVE f \in Essential
  OBVIOUS
<1> Times \subseteq Nat
  BY DEF Times
<1>0. taken' \subseteq Times /\ taken' \subseteq Nat /\ IsFiniteSet(taken')
  BY FiniteTimes DEF RotationTypeOK
<1>1. CASE f \in Newest(KeepHourly, taken')
  BY <1>0, <1>1, NewestOfSubset DEF Essential
<1>2. CASE f \in Tier(taken', DayOf, KeepDaily)
  BY <1>0, <1>2, TierOfSubset DEF Essential
<1>3. CASE f \in Tier(taken', WeekOf, KeepWeekly)
  BY <1>0, <1>3, TierOfSubset DEF Essential
<1> QED BY <1>1, <1>2, <1>3 DEF Essential

LEMMA RotationTypeStep == RotationTypeOK /\ [RotationNext]_rotationVars => RotationTypeOK'
<1> SUFFICES ASSUME RotationTypeOK, [RotationNext]_rotationVars PROVE RotationTypeOK'
  OBVIOUS
<1> USE RotationAssumption DEF RotationTypeOK, Times
<1>1. ASSUME NEW w \in Writers, WriteFile(w) PROVE RotationTypeOK'
  BY <1>1 DEF WriteFile
<1>2. ASSUME NEW w \in Writers, ListFolder(w) PROVE RotationTypeOK'
  BY <1>2 DEF ListFolder
<1>3. ASSUME NEW w \in Writers, ListFails(w) PROVE RotationTypeOK'
  BY <1>3 DEF ListFails
<1>4. ASSUME NEW w \in Writers, Return(w) PROVE RotationTypeOK'
  BY <1>4 DEF Return
<1>5. ASSUME NEW w \in Writers, NEW f \in doomed[w], Unlink(w, f) PROVE RotationTypeOK'
  BY <1>5 DEF Unlink
<1>6. CASE AgentDies
  BY <1>6 DEF AgentDies
<1>7. CASE Tick
  BY <1>7 DEF Tick
<1>8. CASE UNCHANGED rotationVars
  BY <1>8 DEF rotationVars
<1>9. ASSUME NEW w \in Writers, UnlinkFails(w) PROVE RotationTypeOK'
  BY <1>9 DEF UnlinkFails
<1> QED BY <1>1, <1>2, <1>3, <1>4, <1>5, <1>6, <1>7, <1>8, <1>9 DEF RotationNext

LEMMA RotationInvInit == RotationInit => RotationInv
<1> SUFFICES ASSUME RotationInit PROVE RotationInv
  OBVIOUS
<1>1. RotationTypeOK
  BY RotationAssumption DEF RotationInit, RotationTypeOK, Times
<1>2. Essential = {}
  BY DEF RotationInit, Essential, Newest, Tier
<1> QED BY <1>1, <1>2 DEF RotationInv

LEMMA RotationInvStep == RotationInv /\ [RotationNext]_rotationVars => RotationInv'
<1> SUFFICES ASSUME RotationInv, [RotationNext]_rotationVars PROVE RotationInv'
  OBVIOUS
<1>0. RotationTypeOK /\ RotationTypeOK'
  BY RotationTypeStep DEF RotationInv
<1>1. ASSUME NEW w \in Writers, WriteFile(w) PROVE RotationInv'
  <2>1. Essential' \cap taken \subseteq Essential
    BY <1>0, <1>1, EssentialShrinks DEF WriteFile
  <2>2. Essential' \subseteq taken'
    BY DEF Essential, Newest, Tier
  <2>3. Essential' \subseteq files'
    BY <1>1, <2>1, <2>2 DEF WriteFile, RotationInv
  <2>4. \A v \in Writers : doomed'[v] \cap Essential' = {}
    BY <1>0, <1>1, <2>1 DEF WriteFile, RotationInv, RotationTypeOK
  <2> QED BY <1>0, <2>3, <2>4 DEF RotationInv
<1>2. ASSUME taken' = taken PROVE Essential' = Essential
  BY <1>2 DEF Essential
<1>3. ASSUME NEW w \in Writers, ListFolder(w) PROVE RotationInv'
  <2>1. Essential' = Essential
    BY <1>2, <1>3 DEF ListFolder
  <2>2. \A f \in Essential : f \in files => f \in Kept(files)
    BY <1>0, KeptEssential
  <2>3. \A v \in Writers : doomed'[v] \cap Essential = {}
    BY <1>0, <1>3, <2>2 DEF ListFolder, RotationInv, RotationTypeOK
  <2> QED BY <1>0, <1>3, <2>1, <2>3 DEF RotationInv, ListFolder
<1>4. ASSUME NEW w \in Writers, NEW f \in doomed[w], Unlink(w, f) PROVE RotationInv'
  <2>1. Essential' = Essential
    BY <1>2, <1>4 DEF Unlink
  <2>2. f \notin Essential
    BY <1>4 DEF RotationInv
  <2> QED BY <1>0, <1>4, <2>1, <2>2 DEF RotationInv, Unlink, RotationTypeOK
<1>5. ASSUME UNCHANGED <<files, taken>>, \A w \in Writers : doomed'[w] \subseteq doomed[w]
      PROVE  RotationInv'
  BY <1>0, <1>2, <1>5 DEF RotationInv
<1>6. ASSUME NEW w \in Writers, ListFails(w) \/ UnlinkFails(w) \/ Return(w)
      PROVE  RotationInv'
  BY <1>0, <1>5, <1>6 DEF ListFails, UnlinkFails, Return, RotationTypeOK
<1>7. CASE AgentDies \/ Tick \/ UNCHANGED rotationVars
  BY <1>0, <1>5, <1>7 DEF AgentDies, Tick, rotationVars, RotationTypeOK
<1> QED BY <1>1, <1>3, <1>4, <1>6, <1>7 DEF RotationNext

LEMMA RotationInvAlways == RotationSpec => []RotationInv
<1> QED BY RotationInvInit, RotationInvStep, PTL DEF RotationSpec

-----------------------------------------------------------------------------
(* Whatever requests overlap and wherever the agent dies, each of the       *)
(* keep_daily most recent days with a backup can be restored.               *)
THEOREM DaysStayRecoverable == RotationSpec => []DaysRecoverable
<1>1. RotationInv => DaysRecoverable
  <2> SUFFICES ASSUME RotationInv, NEW d \in Newest(KeepDaily, PeriodsOf(taken, DayOf))
               PROVE  \E f \in files : DayOf[f] = d
    BY DEF DaysRecoverable
  <2>1. PICK f \in Tier(taken, DayOf, KeepDaily) : DayOf[f] = d
    BY TierCovers, RotationAssumption DEF RotationInv, RotationTypeOK
  <2> QED BY <2>1 DEF RotationInv, Essential
<1> QED BY <1>1, RotationInvAlways, PTL

(* The same for each of the keep_weekly most recent weeks. *)
THEOREM WeeksStayRecoverable == RotationSpec => []WeeksRecoverable
<1>1. RotationInv => WeeksRecoverable
  <2> SUFFICES ASSUME RotationInv, NEW k \in Newest(KeepWeekly, PeriodsOf(taken, WeekOf))
               PROVE  \E f \in files : WeekOf[f] = k
    BY DEF WeeksRecoverable
  <2>1. PICK f \in Tier(taken, WeekOf, KeepWeekly) : WeekOf[f] = k
    BY TierCovers, RotationAssumption DEF RotationInv, RotationTypeOK
  <2> QED BY <2>1 DEF RotationInv, Essential
<1> QED BY <1>1, RotationInvAlways, PTL

(* The keep_count latest backups are never deleted. *)
THEOREM LatestStay == RotationSpec => []LatestKept
<1>1. RotationInv => LatestKept
  BY DEF RotationInv, Essential, LatestKept
<1> QED BY <1>1, RotationInvAlways, PTL

(* A non-empty set of numbers has a least one.                              *)
LEMMA Least ==
  ASSUME NEW G, G \subseteq Nat, G # {}
  PROVE  \E f \in G : \A g \in G : f <= g
<1> DEFINE R == OpToRel(<, Nat)
<1>1. PICK f \in G : \A g \in G : ~(<<g, f>> \in R)
  <2>1. IsWellFoundedOn(R, Nat)
    BY NatLessThanWellFounded
  <2> HIDE DEF R
  <2> QED BY <2>1, WFMin
<1>2. \A g \in G : ~(g < f)
  BY <1>1 DEF OpToRel
<1> QED BY <1>2

(* The n greatest members of a set are not more than n.                     *)
LEMMA NewestBound ==
  ASSUME NEW S, IsFiniteSet(S), S \subseteq Nat, NEW n \in Nat
  PROVE  IsFiniteSet(Newest(n, S)) /\ Cardinality(Newest(n, S)) <= n
<1> DEFINE T == Newest(n, S)
<1>1. T \subseteq S /\ IsFiniteSet(T)
  BY FS_Subset DEF Newest
<1>2. CASE T = {}
  BY <1>1, <1>2, FS_EmptySet
<1>3. CASE T # {}
  <2>0. T \subseteq Nat
    BY <1>1
  <2>1. PICK x \in T : \A y \in T : x <= y
    <3> HIDE DEF T
    <3> QED BY <2>0, <1>3, Least
  <2> DEFINE Above == {y \in S : y > x}
  <2>2. T \ {x} \subseteq Above /\ IsFiniteSet(Above)
    <3>1. \A y \in T \ {x} : y \in S /\ y > x
      BY <1>1, <2>0, <2>1
    <3> QED BY <3>1, FS_Subset
  <2>3. Cardinality(Above) < n
    BY <2>1 DEF Newest
  <2>4. Cardinality(T \ {x}) <= Cardinality(Above)
    BY <2>2, FS_Subset
  <2>5. Cardinality(T \ {x}) = Cardinality(T) - 1
    BY <1>1, <2>1, FS_RemoveElement
  <2>6. Cardinality(T) \in Nat /\ Cardinality(Above) \in Nat
    BY <1>1, <2>2, FS_CardinalityType
  <2> HIDE DEF T, Above
  <2>7. Cardinality(T \ {x}) \in Nat
    BY <1>1, FS_RemoveElement, FS_CardinalityType
  <2>8. Cardinality(T) <= n
    BY <2>3, <2>4, <2>5, <2>6, <2>7
  <2> QED BY <1>1, <2>8 DEF T
<1> QED BY <1>2, <1>3

(* One file for each of n periods: not more than n files.                   *)
LEMMA TierBound ==
  ASSUME NEW F, F \subseteq Times, NEW n \in Nat, NEW period \in [Times -> Nat]
  PROVE  IsFiniteSet(Tier(F, period, n)) /\ Cardinality(Tier(F, period, n)) <= n
<1> DEFINE T == Tier(F, period, n)
           P == Newest(n, PeriodsOf(F, period))
           at == [f \in T |-> period[f]]
<1>1. IsFiniteSet(P) /\ Cardinality(P) <= n
  BY FinitePeriods, NewestBound
<1>2. T \subseteq F /\ \A f \in T : at[f] \in P /\ f \in Nat
  BY DEF Tier, Times
<1>3. \A f, g \in T : at[f] = at[g] => f <= g /\ g <= f
  BY <1>2 DEF Tier
<1>4. at \in Injection(T, P)
  <2>1. at \in [T -> P]
    BY <1>2
  <2>2. \A f, g \in T : at[f] = at[g] => f = g
    BY <1>2, <1>3
  <2> HIDE DEF at, T, P
  <2> QED BY <2>1, <2>2 DEF Injection, IsInjective
<1>5. IsFiniteSet(T) /\ Cardinality(T) <= Cardinality(P)
  BY <1>1, <1>4, FS_Injection
<1>6. Cardinality(T) \in Nat /\ Cardinality(P) \in Nat
  BY <1>1, <1>5, FS_CardinalityType
<1> HIDE DEF T, P
<1> QED BY <1>1, <1>5, <1>6 DEF T

(* Two sets together have no more members than each by itself.              *)
LEMMA SumBound ==
  ASSUME NEW A, IsFiniteSet(A), NEW B, IsFiniteSet(B)
  PROVE  /\ IsFiniteSet(A \cup B)
         /\ Cardinality(A \cup B) <= Cardinality(A) + Cardinality(B)
<1>1. Cardinality(A \cup B) = Cardinality(A) + Cardinality(B) - Cardinality(A \cap B)
        /\ IsFiniteSet(A \cup B)
  BY FS_Union
<1>2. IsFiniteSet(A \cap B)
  BY FS_Intersection
<1>3. Cardinality(A) \in Nat /\ Cardinality(B) \in Nat /\ Cardinality(A \cap B) \in Nat
  BY <1>2, FS_CardinalityType
<1> QED BY <1>1, <1>3

(* What a rotation keeps fits into the three tiers.                         *)
LEMMA KeptBound ==
  ASSUME NEW F, F \subseteq Times
  PROVE  Cardinality(Kept(F)) <= KeepHourly + KeepDaily + KeepWeekly
<1> DEFINE H == Hourly(F)  D == Daily(F)  W == Weekly(F)
<1>0. KeepHourly \in Nat /\ KeepDaily \in Nat /\ KeepWeekly \in Nat
  BY RotationAssumption
<1>1. IsFiniteSet(H) /\ Cardinality(H) <= KeepHourly
  <2>1. IsFiniteSet(F) /\ F \subseteq Nat
    <3>1. IsFiniteSet(F)
      BY FiniteTimes
    <3> QED BY <3>1 DEF Times
  <2> QED BY <1>0, <2>1, NewestBound DEF Hourly
<1>2. IsFiniteSet(D) /\ Cardinality(D) <= KeepDaily
  BY RotationAssumption, TierBound, F \ Hourly(F) \subseteq Times DEF Daily
<1>3. IsFiniteSet(W) /\ Cardinality(W) <= KeepWeekly
  BY RotationAssumption, TierBound, F \ (Hourly(F) \cup Daily(F)) \subseteq Times
  DEF Weekly
<1> HIDE DEF H, D, W
<1>4. /\ IsFiniteSet(H \cup D)
      /\ Cardinality(H \cup D) <= Cardinality(H) + Cardinality(D)
  BY <1>1, <1>2, SumBound
<1>5. Cardinality(H \cup D \cup W) <= Cardinality(H \cup D) + Cardinality(W)
  BY <1>3, <1>4, SumBound
<1>6. /\ Cardinality(H) \in Nat /\ Cardinality(D) \in Nat /\ Cardinality(W) \in Nat
      /\ Cardinality(H \cup D) \in Nat /\ Cardinality(H \cup D \cup W) \in Nat
  BY <1>1, <1>2, <1>3, <1>4, FS_CardinalityType, FS_Union
<1>7. Cardinality(H \cup D \cup W) <= KeepHourly + KeepDaily + KeepWeekly
  BY <1>0, <1>1, <1>2, <1>3, <1>4, <1>5, <1>6
<1> QED BY <1>7 DEF Kept, H, D, W

(* A request that has listed the folder deletes all but what the tiers have *)
(* room for, whatever rotations before it left there.                       *)
THEOREM FolderStaysBounded == RotationSpec => FolderBounded
<1>1. ASSUME RotationInv, NEW w \in Writers, ListFolder(w)
      PROVE  Cardinality(files \ doomed'[w]) <= KeepHourly + KeepDaily + KeepWeekly
  <2>1. doomed'[w] = files \ Kept(files) /\ files \subseteq Times
    BY <1>1 DEF ListFolder, RotationInv, RotationTypeOK
  <2>2. Kept(files) \subseteq files
    BY DEF Kept, Hourly, Daily, Weekly, Newest, Tier
  <2>3. files \ doomed'[w] = Kept(files)
    BY <2>1, <2>2
  <2> QED BY <2>1, <2>3, KeptBound
<1>2. RotationInv /\ [RotationNext]_rotationVars =>
        [\A w \in Writers : ListFolder(w) => Cardinality(files \ doomed'[w])
             <= KeepHourly + KeepDaily + KeepWeekly]_rotationVars
  BY <1>1
<1> QED BY <1>2, RotationInvAlways, PTL DEF RotationSpec, FolderBounded

-----------------------------------------------------------------------------
(* Delivery.  As long as no two calls share a second, every step of a call  *)
(* is a step of the rotation or leaves the folder alone (DeliveryRotates),  *)
(* and what is reported was written: an answer "ok" belongs to the call     *)
(* that reads it, for a call starts again only when its request is over.    *)
DeliveryInv ==
    /\ RotationInv
    /\ DeliveryTypeOK
    /\ \A w \in Writers :
          /\ stage[w] # "idle" => http[w] = "request" /\ file[w] \in taken
          /\ call[w] = "commit" => http[w] = "ok"
          /\ http[w] = "ok" => file[w] \in taken
    /\ \A f, g \in taken : named[f] = named[g] => f = g
    /\ \A w \in Requested : stage[w] = "idle" => \A f \in taken : named[f] # second[w]
    /\ \A v, w \in Requested : second[v] = second[w] => v = w

LEMMA DeliveryInvInit == DeliveryInit => DeliveryInv
<1> SUFFICES ASSUME DeliveryInit PROVE DeliveryInv
  OBVIOUS
<1>1. RotationInv
  BY RotationInvInit DEF DeliveryInit
<1> QED BY <1>1 DEF DeliveryInit, RotationInit, DeliveryInv, DeliveryTypeOK,
                    RotationInv, Requested

(* What each step is to the folder. *)
LEMMA StepRotates ==
  ASSUME DeliveryInv, [OneASecondNext]_deliveryVars
  PROVE  [RotationNext]_rotationVars
<1> USE DEF rotationVars, deliveryVars, agentVars, backendVars
<1>1. ASSUME NEW w \in Writers, Store(w) PROVE WriteFile(w)
  <2>1. PathOf(w) = {}
    BY <1>1 DEF Store, PathOf, DeliveryInv, Requested, RotationInv, RotationTypeOK
  <2> QED BY <1>1, <2>1 DEF Store, WriteFile
<1>2. ASSUME NEW w \in Writers, NEW f \in doomed[w], Delete(w, f) PROVE Unlink(w, f)
  <2>1. f \in taken /\ files \subseteq taken
    BY DEF DeliveryInv, RotationInv, RotationTypeOK
  <2>2. files \ SamePath(f) = files \ {f}
    BY <2>1 DEF SamePath, DeliveryInv
  <2> QED BY <1>2, <2>2 DEF Delete, Unlink
<1>3. ASSUME NEW w \in Writers, Agent(w) PROVE RotationNext \/ UNCHANGED rotationVars
  BY <1>1, <1>2, <1>3 DEF Agent, StoreFails, List, RotationFails, Answer, RotationNext
<1>4. ASSUME NEW w \in Writers, Backend(w) \/ Send(w) PROVE UNCHANGED rotationVars
  BY <1>4 DEF Backend, Send, Accepted, Refused, GivesUp, Recorded, CommitFails
<1>5. CASE Others
  BY <1>5 DEF Others, BackendDies, AgentStops, RotationNext
<1> QED BY <1>3, <1>4, <1>5 DEF OneASecondNext

LEMMA DeliveryInvStep ==
  DeliveryInv /\ [OneASecondNext]_deliveryVars => DeliveryInv'
<1> SUFFICES ASSUME DeliveryInv, [OneASecondNext]_deliveryVars PROVE DeliveryInv'
  OBVIOUS
<1>0. RotationInv' /\ RotationTypeOK /\ RotationTypeOK'
  BY StepRotates, RotationInvStep DEF DeliveryInv, RotationInv
<1> USE <1>0 DEF rotationVars, deliveryVars, agentVars, backendVars,
              DeliveryInv, DeliveryTypeOK, Requested
<1>1. ASSUME NEW w \in Writers, FreshSecond, Send(w) PROVE DeliveryInv'
  BY <1>1, DeliveryAssumption DEF Send, FreshSecond, RotationTypeOK
<1>2. ASSUME NEW w \in Writers, Backend(w) PROVE DeliveryInv'
  BY <1>2 DEF Backend, Accepted, Refused, GivesUp, Recorded, CommitFails
<1>3. ASSUME NEW w \in Writers, Store(w) PROVE DeliveryInv'
  BY <1>3 DEF Store, RotationTypeOK
<1>4. ASSUME NEW w \in Writers, StoreFails(w) PROVE DeliveryInv'
  BY <1>4 DEF StoreFails
<1>5. ASSUME NEW w \in Writers, List(w) PROVE DeliveryInv'
  BY <1>5 DEF List, ListFolder, RotationTypeOK
<1>6. ASSUME NEW w \in Writers, RotationFails(w) PROVE DeliveryInv'
  <2>1. /\ stage[w] # "idle" /\ stage' = [stage EXCEPT ![w] = "idle"]
        /\ UNCHANGED <<taken, backendVars>>
        /\ http' = [http EXCEPT ![w] = "error"] /\ UNCHANGED <<file, named>>
    BY <1>6 DEF RotationFails, ListFails, UnlinkFails
  <2> QED BY <2>1 DEF RotationTypeOK
<1>7. ASSUME NEW w \in Writers, Answer(w) PROVE DeliveryInv'
  BY <1>7 DEF Answer, Return, RotationTypeOK
<1>8. ASSUME NEW w \in Writers, NEW f \in doomed[w], Delete(w, f) PROVE DeliveryInv'
  BY <1>8 DEF Delete
<1>9. CASE Others
  BY <1>9 DEF Others, BackendDies, AgentStops, AgentDies, Tick
<1>10. CASE UNCHANGED deliveryVars
  BY <1>10
<1> QED BY <1>1, <1>2, <1>3, <1>4, <1>5, <1>6, <1>7, <1>8, <1>9, <1>10
        DEF OneASecondNext, Agent

(* The folder of BackupDelivery is that of BackupRotation: what was proved   *)
(* of its days, weeks and latest files holds whatever the backend does.      *)
THEOREM DeliveryRotates == OneASecondSpec => RotationSpec
<1>1. DeliveryInit => RotationInit
  BY DEF DeliveryInit
<1>2. DeliveryInv /\ [OneASecondNext]_deliveryVars => [RotationNext]_rotationVars
  BY StepRotates
<1> QED BY <1>1, <1>2, DeliveryInvInit, DeliveryInvStep, PTL
        DEF OneASecondSpec, RotationSpec

(* A member that is not among the n greatest has n greater ones above it,   *)
(* all of them among the n greatest.                                        *)
LEMMA MadeWay ==
  ASSUME NEW S, S \subseteq Times, NEW n \in Nat, NEW f \in S, f \notin Newest(n, S)
  PROVE  Cardinality({g \in Newest(n, S) : g > f}) >= n
<1> DEFINE Rest == S \ Newest(n, S)
<1>0. Times \subseteq Nat /\ IsFiniteSet(S)
  <2>1. IsFiniteSet(S)
    BY FiniteTimes
  <2> QED BY <2>1 DEF Times
<1>1. PICK top \in Rest : \A g \in Rest : g <= top
  BY Latest
<1> DEFINE Above == {g \in S : g > top}
          Greater == {g \in Newest(n, S) : g > f}
<1>2. top \in Nat /\ f \in Nat /\ f <= top /\ \A g \in S : g \in Nat
  BY <1>0, <1>1
<1>3. Above \subseteq Greater
  <2> SUFFICES ASSUME NEW g \in Above PROVE g \in Newest(n, S) /\ g > f
    OBVIOUS
  <2> QED BY <1>1, <1>2
<1>4. Greater \subseteq S /\ IsFiniteSet(Greater) /\ IsFiniteSet(Above)
  BY <1>0, FS_Subset DEF Newest
<1>5. Cardinality(Above) <= Cardinality(Greater)
  BY <1>3, <1>4, FS_Subset
<1>6. ~(Cardinality(Above) < n)
  BY <1>1 DEF Newest
<1>7. Cardinality(Above) \in Nat /\ Cardinality(Greater) \in Nat
  BY <1>4, FS_CardinalityType
<1> HIDE DEF Above, Greater
<1> QED BY <1>5, <1>6, <1>7 DEF Greater

(* A backup reported as successful is in the folder or has made way for     *)
(* keep_count later ones, through overlapping calls, lost answers, failed   *)
(* commits and the end of either process, as long as no two calls share a   *)
(* second.                                                                  *)
THEOREM ReportedBackupsStay == OneASecondSpec => []ReportedIsKept
<1>1. DeliveryInv => ReportedIsKept
  <2> SUFFICES ASSUME DeliveryInv, NEW f \in reported, f \notin files
               PROVE  Cardinality({g \in files : g > f}) >= KeepHourly
    BY DEF ReportedIsKept
  <2> DEFINE Later == {g \in Newest(KeepHourly, taken) : g > f}
            There == {g \in files : g > f}
  <2>1. f \in taken /\ taken \subseteq Times /\ files \subseteq taken
    BY DEF DeliveryInv, DeliveryTypeOK, RotationTypeOK
  <2>2. Newest(KeepHourly, taken) \subseteq files
    BY DEF DeliveryInv, RotationInv, Essential
  <2>3. Cardinality(Later) >= KeepHourly
    BY <2>1, <2>2, MadeWay, RotationAssumption
  <2>4. Later \subseteq There /\ IsFiniteSet(There)
    <3>1. There \subseteq Times
      BY <2>1
    <3> QED BY <2>2, <3>1, FiniteTimes
  <2>5. /\ Cardinality(Later) <= Cardinality(There)
        /\ Cardinality(Later) \in Nat /\ Cardinality(There) \in Nat
    BY <2>4, FS_Subset, FS_CardinalityType
  <2> HIDE DEF Later, There
  <2>6. Cardinality(There) >= KeepHourly
    BY <2>3, <2>5, RotationAssumption
  <2> QED BY <2>6 DEF There
<1> QED BY <1>1, DeliveryInvInit, DeliveryInvStep, PTL DEF OneASecondSpec

-----------------------------------------------------------------------------
(* The bundles. *)
Restoring == step \in {"copy", "key"}

(* Why a bundle and the live files each stay whole: a key is only ever       *)
(* written when there is none, so nothing can be encrypted yet; a request    *)
(* under way holds the present key; and a restore has no request beside it.  *)
ServiceInv ==
    /\ TypeOK
    /\ SecretsReadable
    /\ BundlesSelfContained
    /\ step = "backup" => bundle \in Bundle /\ bundle.secrets \subseteq {key}
    /\ Restoring => /\ bundle \in Bundle /\ bundle.secrets \subseteq {bundle.key}
                    /\ Underway = {}
    /\ step = "key" => secrets = bundle.secrets
    /\ \A t \in Settings :
          /\ pc[t] = "generated" => key = NoKey /\ held[t] \in Keys
          /\ pc[t] = "ready" => held[t] = key /\ key \in Keys

USE DEF TypeOK, Restoring, Underway, disk

LEMMA Initially == Init => ServiceInv
BY BackupAssumption DEF Init, ServiceInv, SecretsReadable, BundlesSelfContained, Bundle

(* Without a key nothing is encrypted. *)
LEMMA NoKeyNoSecrets ==
    ASSUME ServiceInv, key = NoKey, ~Restoring
    PROVE  /\ secrets = {}
           /\ step = "backup" => bundle.secrets = {}
BY BackupAssumption DEF ServiceInv, SecretsReadable, Bundle

LEMMA RequestKeeps ==
    ASSUME ServiceInv, ~Restoring, NEW t \in Settings, Underway \subseteq {t},
           SettingsStep(t)
    PROVE  ServiceInv'
<1>1. CASE ReadKey(t)
  BY <1>1 DEF ReadKey, ServiceInv, SecretsReadable, BundlesSelfContained
<1>2. CASE GenerateKey(t)
  BY <1>2 DEF GenerateKey, ServiceInv, SecretsReadable, BundlesSelfContained
<1>3. CASE WriteKey(t)
  <2>1. key = NoKey /\ held[t] \in Keys
    BY <1>3 DEF WriteKey, ServiceInv
  <2>2. \A u \in Settings \ {t} : pc[u] = "off"
    OBVIOUS
  <2> QED BY <1>3, <2>1, <2>2, NoKeyNoSecrets
          DEF WriteKey, ServiceInv, SecretsReadable, BundlesSelfContained
<1>4. CASE StoreSecret(t)
  BY <1>4 DEF StoreSecret, ServiceInv, SecretsReadable, BundlesSelfContained
<1>5. CASE SecretLost(t)
  BY <1>5 DEF SecretLost, ServiceInv, SecretsReadable, BundlesSelfContained
<1> QED BY <1>1, <1>2, <1>3, <1>4, <1>5 DEF SettingsStep

LEMMA WorkKeeps ==
    ASSUME ServiceInv, Working
    PROVE  ServiceInv'
<1>1. CASE ChangeData
  BY <1>1 DEF ChangeData, ServiceInv, SecretsReadable, BundlesSelfContained
<1>2. CASE \E r \in Syncs : SyncFlush(r) \/ SyncCommit(r)
  BY <1>2 DEF SyncFlush, SyncCommit, ServiceInv, SecretsReadable, BundlesSelfContained
<1>3. CASE BackupDatabase
  BY <1>3 DEF BackupDatabase, ServiceInv, SecretsReadable, BundlesSelfContained, Bundle
<1>4. CASE BackupKey
  <2> DEFINE b == [bundle EXCEPT !.key = key]
  <2>1. b \in Bundle /\ b.key = key /\ b.secrets = bundle.secrets
    BY <1>4 DEF BackupKey, ServiceInv, Bundle
  <2>2. b.secrets \subseteq {b.key}
    BY <1>4, <2>1 DEF BackupKey, ServiceInv
  <2>3. sending' = sending \cup {b}
    BY <1>4 DEF BackupKey
  <2> HIDE DEF b
  <2> QED BY <1>4, <2>1, <2>2, <2>3
          DEF BackupKey, ServiceInv, SecretsReadable, BundlesSelfContained
<1>5. CASE \/ \E b \in sending : AgentStores(b) \/ SendFails(b)
           \/ \E b \in folder : RotateOut(b)
  BY <1>5 DEF AgentStores, SendFails, RotateOut, ServiceInv, SecretsReadable,
     BundlesSelfContained
<1>6. CASE RestoreDatabase
  BY <1>6 DEF RestoreDatabase, ServiceInv, SecretsReadable, BundlesSelfContained, Bundle
<1>7. CASE RestoreKey
  <2>1. /\ bundle \in Bundle /\ secrets = bundle.secrets
        /\ secrets \subseteq {bundle.key} /\ secrets \subseteq Keys
    BY <1>7 DEF RestoreKey, ServiceInv
  <2>2. secrets \subseteq {key'}
    BY <1>7, <2>1, BackupAssumption DEF RestoreKey
  <2>3. key' \in Keys \cup {NoKey}
    BY <1>7, <2>1 DEF RestoreKey, ServiceInv, Bundle
  <2> QED BY <1>7, <2>2, <2>3
          DEF RestoreKey, ServiceInv, SecretsReadable, BundlesSelfContained
<1> QED BY <1>1, <1>2, <1>3, <1>4, <1>5, <1>6, <1>7 DEF Working

LEMMA Invariance == ServiceInv /\ [CalmNext]_vars => ServiceInv'
<1> SUFFICES ASSUME ServiceInv, [CalmNext]_vars PROVE ServiceInv'
  OBVIOUS
<1>1. CASE Working
  BY <1>1, WorkKeeps
<1>2. CASE /\ step \notin {"copy", "key"}
           /\ \E t \in Settings : Underway \subseteq {t} /\ SettingsStep(t)
  BY <1>2, RequestKeeps
<1>3. CASE Underway = {} /\ \E b \in folder : RestoreBegins(b)
  BY <1>3 DEF RestoreBegins, ServiceInv, SecretsReadable, BundlesSelfContained
<1>4. CASE step # "key" /\ Crash
  BY <1>4 DEF Crash, Idle, ServiceInv, SecretsReadable, BundlesSelfContained
<1>5. CASE FreshVolume
  BY <1>5 DEF FreshVolume, Idle, ServiceInv, SecretsReadable, BundlesSelfContained
<1>6. CASE UNCHANGED vars
  BY <1>6 DEF vars, ServiceInv, SecretsReadable, BundlesSelfContained
<1> QED BY <1>1, <1>2, <1>3, <1>4, <1>5, <1>6 DEF CalmNext

(* Every bundle decrypts itself, the live database is readable: as long as   *)
(* no request is overtaken and no restore is cut off between its two files.  *)
THEOREM BundlesStayWhole == CalmSpec => []BundlesSelfContained
<1>1. ServiceInv => BundlesSelfContained
  BY DEF ServiceInv
<1> QED BY <1>1, Initially, Invariance, PTL DEF CalmSpec

(* No secret of the live database is encrypted under a key that is gone:     *)
(* whatever backups, restores, rolled back runs and lost volumes follow each *)
(* other, with the same two exceptions.                                      *)
THEOREM SecretsStayReadable == CalmSpec => []SecretsReadable
<1>1. ServiceInv => SecretsReadable
  BY DEF ServiceInv
<1> QED BY <1>1, Initially, Invariance, PTL DEF CalmSpec
=============================================================================
