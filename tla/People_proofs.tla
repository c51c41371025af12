----------------------------- MODULE People_proofs -----------------------------
(***************************************************************************)
(* What every step keeps and promises about contacts, for any number of    *)
(* applications, cards, mails and calls: nothing is lost unless somebody   *)
(* asks for it, conversations are attached to new contacts, a sync takes   *)
(* nothing from a contact, and two contacts somebody has told apart are    *)
(* not proposed again.                                                     *)
(*                                                                         *)
(* An import is a fold over the cards.  CardAfterCard unrolls it into what *)
(* there is after each card; the rest is by induction over the cards       *)
(* (UpTo), with ImportInv for what one card keeps (OneCard).               *)
(***************************************************************************)
EXTENDS People, FiniteSetTheorems, WellFoundedInduction, TLAPS

(* Numbers.                                                                 *)

(* A finite set of numbers that is not empty has a greatest one.            *)
LEMMA MaxIsGreatest ==
  ASSUME NEW S, S \subseteq Nat, IsFiniteSet(S), S # {}
  PROVE  Max(S) \in S /\ \A y \in S : Max(S) >= y
<1> DEFINE HasMax(T) == \E x \in T : \A y \in T : x >= y
           R == StrictSubsetOrdering(S)
           Bad == {T \in FiniteSubsetsOf(S) : T # {} /\ ~HasMax(T)}
<1>1. ASSUME Bad # {} PROVE FALSE
  <2>1. PICK A \in Bad : \A B \in Bad : ~(<<B, A>> \in R)
    <3>1. IsWellFoundedOn(R, FiniteSubsetsOf(S))
      BY FS_StrictSubsetOrderingWellFounded
    <3>2. Bad \subseteq FiniteSubsetsOf(S)
      OBVIOUS
    <3> HIDE DEF R, Bad
    <3> QED BY <1>1, <3>1, <3>2, WFMin
  <2>2. PICK x \in A : TRUE
    OBVIOUS
  <2>3. A \subseteq S /\ IsFiniteSet(A) /\ ~HasMax(A)
    BY DEF FiniteSubsetsOf
  <2>4. A \ {x} \in FiniteSubsetsOf(S)
    BY <2>3, FS_RemoveElement DEF FiniteSubsetsOf
  <2>5. <<A \ {x}, A>> \in R
    BY <2>2, <2>3 DEF StrictSubsetOrdering
  <2>6. A \ {x} = {} \/ HasMax(A \ {x})
    BY <2>1, <2>4, <2>5
  <2>7. CASE A \ {x} = {}
    BY <2>2, <2>3, <2>7
  <2>8. ASSUME NEW m \in A \ {x}, \A y \in A \ {x} : m >= y PROVE FALSE
    <3>1. m \in Nat /\ x \in Nat /\ A \subseteq Nat
      BY <2>3
    <3>2. CASE x >= m
      BY <2>2, <2>3, <2>8, <3>1, <3>2
    <3>3. CASE m >= x
      BY <2>2, <2>3, <2>8, <3>1, <3>3
    <3> QED BY <3>1, <3>2, <3>3
  <2> QED BY <2>6, <2>7, <2>8
<1>2. S \in FiniteSubsetsOf(S)
  BY DEF FiniteSubsetsOf
<1> QED BY <1>1, <1>2 DEF Max

(* A non-empty set of numbers has a least one.                              *)
LEMMA MinIsLeast ==
  ASSUME NEW S, S \subseteq Nat, S # {}
  PROVE  Min(S) \in S /\ \A y \in S : Min(S) =< y
<1> DEFINE R == StrictSubsetOrdering(Nat)
           Before(x) == 0..(x - 1)
           T == {Before(x) : x \in S}
<1>1. T \subseteq FiniteSubsetsOf(Nat) /\ T # {}
  <2>1. \A x \in S : IsFiniteSet(Before(x)) /\ Before(x) \subseteq Nat
    BY FS_Interval
  <2> QED BY <2>1 DEF FiniteSubsetsOf
<1>2. PICK A \in T : \A B \in T : ~(<<B, A>> \in R)
  <2>1. IsWellFoundedOn(R, FiniteSubsetsOf(Nat))
    BY FS_StrictSubsetOrderingWellFounded
  <2> HIDE DEF R, T
  <2> QED BY <1>1, <2>1, WFMin
<1>3. PICK x \in S : A = Before(x)
  OBVIOUS
<1>4. ASSUME NEW y \in S, y < x PROVE FALSE
  <2>1. y \in Nat /\ x \in Nat
    OBVIOUS
  <2>2. Before(y) \subseteq Before(x)
    BY <1>4, <2>1
  <2>3. y \in Before(x) /\ y \notin Before(y)
    BY <1>4, <2>1
  <2>4. Before(y) \subseteq Nat /\ Before(x) \subseteq Nat
    OBVIOUS
  <2>5. Before(y) \in T
    OBVIOUS
  <2> HIDE DEF Before, T
  <2>6. <<Before(y), A>> \in R
    BY <1>3, <2>2, <2>3, <2>4 DEF StrictSubsetOrdering
  <2> QED BY <1>2, <2>5, <2>6
<1>5. \A y \in S : x =< y
  BY <1>4
<1> QED BY <1>5 DEF Min

(* What holds for 0 and passes from each number to the next holds up to n.  *)
LEMMA UpTo ==
  ASSUME NEW n \in Nat, NEW Good, 0 \in Good,
         \A i \in 1..n : i - 1 \in Good => i \in Good
  PROVE  0..n \subseteq Good
<1> DEFINE Reached == {i \in 0..n : 0..i \subseteq Good}
<1>1. Reached \subseteq Nat /\ 0 \in Reached /\ IsFiniteSet(Reached)
  <2>1. IsFiniteSet(0..n) /\ Reached \subseteq 0..n
    BY FS_Interval
  <2>2. IsFiniteSet(Reached)
    BY <2>1, FS_Subset
  <2> QED BY <2>2
<1> DEFINE m == Max(Reached)
<1>2. m \in Reached /\ \A i \in Reached : m >= i
  <2> HIDE DEF Reached
  <2> QED BY <1>1, MaxIsGreatest
<1> HIDE DEF m
<1>3. CASE m = n
  BY <1>2, <1>3
<1>4. CASE m # n
  <2>1. m \in Nat /\ m + 1 \in 1..n /\ m \in Good
    BY <1>2, <1>4
  <2>2. m + 1 \in Good
    <3>1. (m + 1) - 1 = m
      BY <2>1
    <3> QED BY <2>1, <3>1
  <2>3. 0..(m + 1) \subseteq Good
    BY <1>2, <2>2
  <2>4. m + 1 \in Reached
    BY <2>1, <2>3
  <2> QED BY <1>2, <2>1, <2>4
<1> QED BY <1>3, <1>4

-----------------------------------------------------------------------------
(* Card after card: what _sync_contacts_from_parsed has after each.          *)
LEMMA CardAfterCard ==
  ASSUME NEW ks, ~cancel
  PROVE  \E t : /\ t[0] = Found
                /\ \A i \in 1..Len(Cards) :
                      t[i] = ImportOf(ks, t[i - 1], Cards[i])
                /\ Imported(ks) = t[Len(Cards)]
<1> DEFINE n == Len(Cards)
           s0 == Found
           Step(f, s) == IF s = {} THEN s0
                         ELSE ImportOf(ks, f[s \ {Max(s)}], Cards[Max(s)])
           Runs(f, m) == f = [s \in SUBSET (1..m) |-> Step(f, s)]
           Good == {m \in 0..n : \E f : Runs(f, m)}
<1>0. n \in Nat /\ DOMAIN Cards = 1..n
  BY PeopleAssumption
<1>1. \A m \in 0..n : \A s \in SUBSET (1..m) :
         s # {} => Max(s) \in s /\ \A y \in s : Max(s) >= y
  <2> SUFFICES ASSUME NEW m \in 0..n, NEW s \in SUBSET (1..m), s # {}
               PROVE  Max(s) \in s /\ \A y \in s : Max(s) >= y
    OBVIOUS
  <2>1. IsFiniteSet(1..m) /\ s \subseteq Nat
    BY <1>0, FS_Interval
  <2>2. IsFiniteSet(s)
    BY <2>1, FS_Subset
  <2> QED BY <2>1, <2>2, MaxIsGreatest
<1>2. 0 \in Good
  <2> DEFINE f == [s \in SUBSET (1..0) |-> s0]
  <2>1. \A s \in SUBSET (1..0) : s = {}
    OBVIOUS
  <2>2. Runs(f, 0)
    BY <2>1
  <2> QED BY <1>0, <2>2
<1>3. ASSUME NEW m \in 1..n, m - 1 \in Good PROVE m \in Good
  <2>1. PICK f : Runs(f, m - 1)
    BY <1>3
  <2> DEFINE g == [s \in SUBSET (1..m) |->
                     IF m \in s THEN ImportOf(ks, f[s \ {m}], Cards[m]) ELSE f[s]]
  <2>a. /\ g = [s \in SUBSET (1..m) |-> g[s]]
        /\ \A u \in SUBSET (1..m) :
             g[u] = IF m \in u THEN ImportOf(ks, f[u \ {m}], Cards[m]) ELSE f[u]
    OBVIOUS
  <2> HIDE DEF g
  <2>2. ASSUME NEW s \in SUBSET (1..m) PROVE g[s] = Step(g, s)
    <3>1. CASE m \in s
      <4>1. Max(s) = m
        <5>1. m \in 0..n /\ s # {}
          BY <1>0, <3>1
        <5>2. Max(s) \in s /\ Max(s) >= m
          BY <1>1, <3>1, <5>1
        <5>3. Max(s) \in 1..m
          BY <5>2
        <5> QED BY <1>0, <5>2, <5>3
      <4>2. s \ {m} \in SUBSET (1..m) /\ m \notin s \ {m}
        OBVIOUS
      <4>3. g[s \ {m}] = f[s \ {m}] /\ g[s] = ImportOf(ks, f[s \ {m}], Cards[m])
        BY <2>a, <3>1, <4>2
      <4> QED BY <3>1, <4>1, <4>3
    <3>2. CASE m \notin s
      <4>1. s \in SUBSET (1..(m - 1))
        BY <1>0, <3>2
      <4>2. g[s] = f[s] /\ f[s] = Step(f, s)
        BY <2>1, <2>a, <3>2, <4>1
      <4>3. s # {} => g[s \ {Max(s)}] = f[s \ {Max(s)}]
        BY <2>a, <3>2
      <4> QED BY <4>2, <4>3
    <3> QED BY <3>1, <3>2
  <2>9. Runs(g, m)
    BY <2>2, <2>a
  <2>10. \E h : Runs(h, m)
    <3> HIDE DEF Runs
    <3> QED BY <2>9
  <2>11. m \in 0..n
    BY <1>0
  <2> QED BY <2>10, <2>11
<1>4. n \in Good
  <2> HIDE DEF Good
  <2>1. 0..n \subseteq Good
    BY <1>0, <1>2, <1>3, UpTo
  <2> QED BY <1>0, <2>1
<1> DEFINE iter == CHOOSE f : Runs(f, n)
<1>5. Runs(iter, n)
  BY <1>4
<1>6. Imported(ks) = iter[1..n]
  BY <1>0 DEF Imported, FoldLeft, MapThenFoldSet
<1> HIDE DEF iter
<1> DEFINE t == [i \in 0..n |-> iter[1..i]]
<1>7. t[0] = s0
  BY <1>0, <1>5
<1>8. ASSUME NEW i \in 1..n PROVE t[i] = ImportOf(ks, t[i - 1], Cards[i])
  <2>1. i \in 1..i /\ 1..i \in SUBSET (1..n) /\ i \in 0..n
    BY <1>0
  <2>2. Max(1..i) = i
    <3>1. Max(1..i) \in 1..i /\ Max(1..i) >= i
      BY <1>1, <2>1
    <3> QED BY <1>0, <3>1
  <2>3. (1..i) \ {i} = 1..(i - 1)
    BY <1>0
  <2>4. iter[1..i] = ImportOf(ks, iter[1..(i - 1)], Cards[i])
    BY <1>5, <2>1, <2>2, <2>3
  <2> QED BY <1>0, <2>4
<1>9. Imported(ks) = t[n]
  BY <1>0, <1>6
<1> HIDE DEF t
<1> QED BY <1>7, <1>8, <1>9
-----------------------------------------------------------------------------
(* Contacts.                                                                *)

CardType ==
    [person : People, email : Emails \cup {Nothing}, name : SUBSET Words,
     first : SUBSET Words, firma : Firms \cup {Nothing}, phones : SUBSET Phones]

(* What the steps need of the contacts, whose ids may pass MaxId for the    *)
(* length of an import.                                                     *)
Contacts(rs) ==
    /\ DOMAIN rs \subseteq Nat \ {0} /\ IsFiniteSet(DOMAIN rs)
    /\ \A c \in DOMAIN rs : rs[c] \in Contact /\ rs[c].apps \subseteq Live

(* No contact goes, and none loses a link, a person or a filled field.      *)
Grown(r, s) == Keeps(r, s) /\ r.who \subseteq s.who
Grow(rs, ss) == \A c \in DOMAIN rs : c \in DOMAIN ss /\ Grown(rs[c], ss[c])

(* The entries of the address books are cards.                              *)
LEMMA CardsAreCards ==
  Card1 \subseteq CardType /\ \A i \in 1..Len(Cards) : Cards[i] \in Card1
<1>1. Cards \in Seq(CardType)
  BY PeopleAssumption DEF CardType
<1>2. DOMAIN Cards = 1..Len(Cards) /\ \A i \in 1..Len(Cards) : Cards[i] \in CardType
  BY <1>1
<1> QED BY <1>2 DEF Card1, Range

(* The id of a new contact is a number no contact has.                      *)
LEMMA NewIdIsNew ==
  ASSUME NEW rs, DOMAIN rs \subseteq Nat \ {0}, IsFiniteSet(DOMAIN rs)
  PROVE  NewId(rs) \in Nat \ {0} /\ NewId(rs) \notin DOMAIN rs
<1> DEFINE S == DOMAIN rs \cup {0}
<1>1. S \subseteq Nat /\ S # {} /\ IsFiniteSet(S)
  BY FS_AddElement
<1>2. Max(S) \in S /\ \A y \in S : Max(S) >= y
  <2> HIDE DEF S
  <2> QED BY <1>1, MaxIsGreatest
<1>3. Max(S) \in Nat
  BY <1>1, <1>2
<1>4. \A y \in DOMAIN rs : y # Max(S) + 1
  BY <1>2, <1>3
<1> QED BY <1>3, <1>4 DEF NewId

(* The first of some contacts is one of them.                               *)
LEMMA FirstIsOne ==
  ASSUME NEW S, S \subseteq Nat \ {0}
  PROVE  First(S) \in S \cup {0}
<1>1. S # {} => Min(S) \in S
  BY MinIsLeast
<1> QED BY <1>1 DEF First

(* Why a card is taken for a contact's: its address, its surname, or its    *)
(* full name in the field of the surname.                                   *)
Belongs(r, k) ==
    \/ k.email # Nothing /\ r.email = k.email
    \/ r.name \in {k.name, k.name \cup k.first}

(* What a card is found to belong to is a contact, for one of the three.    *)
LEMMA LookupFinds ==
  ASSUME NEW rs, DOMAIN rs \subseteq Nat \ {0}, NEW k
  PROVE  /\ Lookup(rs, k) \in DOMAIN rs \cup {0}
         /\ Lookup(rs, k) # 0 => Belongs(rs[Lookup(rs, k)], k)
         /\ OneOf(First(Spelled(rs, k.email)), Namesake(rs, k)) \in DOMAIN rs \cup {0}
<1>1. /\ First(Spelled(rs, k.email)) \in Spelled(rs, k.email) \cup {0}
      /\ Namesake(rs, k) \in Surnamed(rs, k.name) \cup {0}
      /\ Legacy(rs, k) \in Surnamed(rs, k.name \cup k.first) \cup {0}
  <2>1. /\ Spelled(rs, k.email) \subseteq DOMAIN rs
        /\ Surnamed(rs, k.name) \subseteq DOMAIN rs
        /\ Surnamed(rs, k.name \cup k.first) \subseteq DOMAIN rs
    BY DEF Spelled, Surnamed
  <2>2. /\ Spelled(rs, k.email) \subseteq Nat \ {0}
        /\ Surnamed(rs, k.name) \subseteq Nat \ {0}
        /\ Surnamed(rs, k.name \cup k.first) \subseteq Nat \ {0}
    BY <2>1
  <2> QED BY <2>2, FirstIsOne DEF Namesake, Legacy
<1>2. /\ \A c \in Spelled(rs, k.email) : c \in DOMAIN rs /\ Belongs(rs[c], k)
      /\ \A c \in Surnamed(rs, k.name) : c \in DOMAIN rs /\ Belongs(rs[c], k)
      /\ \A c \in Surnamed(rs, k.name \cup k.first) : c \in DOMAIN rs /\ Belongs(rs[c], k)
  BY DEF Spelled, Surnamed, Belongs
<1> QED BY <1>1, <1>2 DEF Lookup, OneOf

(* The passive merge of a card into a contact.                              *)
LEMMA CompletedFields ==
  ASSUME NEW r \in Contact, NEW k \in CardType
  PROVE  LET q == Completed(r, k) IN
         /\ q \in Contact
         /\ q.apps = r.apps /\ q.who = r.who /\ q.email = r.email
         /\ r.firma # Nothing => q.firma = r.firma
         /\ r.phones \subseteq q.phones
         /\ r.first # {} => q.first = r.first /\ q.name = r.name
         /\ k.first = {} => q.name = r.name
         /\ r.first = {} /\ k.first # {} => q.first = k.first /\ q.name = k.name
         /\ q.first = {} => q.name = r.name /\ r.first = {}
BY DEF Contact, CardType, Completed, FilledFirma

(* A card of the contact's surname or full name leaves the words of its     *)
(* name; one of its address may replace them.                               *)
LEMMA CompletedKeeps ==
  ASSUME NEW r \in Contact, NEW k \in Card1, Belongs(r, k)
  PROVE  Grown(r, Completed(r, k))
<1> DEFINE q == Completed(r, k)
<1>1. /\ q.apps = r.apps /\ q.who = r.who /\ q.email = r.email
      /\ r.firma # Nothing => q.firma = r.firma
      /\ r.phones \subseteq q.phones
      /\ r.first # {} => q.first = r.first /\ q.name = r.name
      /\ k.first = {} => q.name = r.name
      /\ r.first = {} /\ k.first # {} => q.first = k.first /\ q.name = k.name
  BY CompletedFields, CardsAreCards
<1> HIDE DEF q
<1>2. r.name \subseteq Display(q) \/ Renamed(q)
  <2>1. CASE r.first # {} \/ k.first = {}
    BY <1>1, <2>1 DEF Display
  <2>2. CASE r.first = {} /\ k.first # {}
    <3>1. CASE r.name \in {k.name, k.name \cup k.first}
      BY <1>1, <2>2, <3>1 DEF Display
    <3>2. CASE k.email # Nothing /\ r.email = k.email
      BY <1>1, <2>2, <3>2 DEF Renamed
    <3> QED BY <3>1, <3>2 DEF Belongs
  <2> QED BY <2>1, <2>2
<1>3. Grown(r, q)
  BY <1>1, <1>2 DEF Grown, Keeps
<1> QED BY <1>3 DEF q

(* A contact made from a card.                                              *)
LEMMA FromCardIsContact ==
  ASSUME NEW k \in CardType, NEW apps \in SUBSET Apps
  PROVE  FromCard(k, apps) \in Contact
BY DEF Contact, CardType, FromCard

(* Mails mention applications that are there.                               *)
LEMMA MentionedIsLive ==
  ASSUME NEW words, NEW e
  PROVE  Mentioned(words, e) \subseteq Live /\ Mentioned(words, e) \subseteq Apps
BY DEF Mentioned, Active, Live

(* Whatever is put under an id, contacts are contacts.                      *)
LEMMA PutContact ==
  ASSUME NEW rs, Contacts(rs), NEW c \in Nat \ {0}, NEW r \in Contact, r.apps \subseteq Live
  PROVE  Contacts(Put(rs, c, r))
<1>1. DOMAIN Put(rs, c, r) = DOMAIN rs \cup {c}
  BY DEF Put
<1>2. IsFiniteSet(DOMAIN rs \cup {c})
  BY FS_AddElement DEF Contacts
<1>3. \A d \in DOMAIN rs \cup {c} : Put(rs, c, r)[d] = IF d = c THEN r ELSE rs[d]
  BY DEF Put
<1> QED BY <1>1, <1>2, <1>3 DEF Contacts

(* To put a contact under a new id, or under its own id as it has grown.    *)
LEMMA PutGrows ==
  ASSUME NEW rs, NEW c, NEW r, c \in DOMAIN rs => Grown(rs[c], r)
  PROVE  Grow(rs, Put(rs, c, r))
<1>1. \A d \in DOMAIN rs : Grown(rs[d], rs[d])
  BY DEF Grown, Keeps, Display
<1> QED BY <1>1 DEF Put, Grow

(* One contact that grows twice: a contact that was renamed has a first     *)
(* name, and then its names stay.                                           *)
LEMMA GrownTwice ==
  ASSUME NEW r, NEW s, NEW t, Grown(r, s), Grown(s, t)
  PROVE  Grown(r, t)
<1>1. r.name \subseteq Display(t) \/ Renamed(t)
  <2>1. CASE Renamed(s)
    <3>1. PICK k \in Card1 : /\ k.email # Nothing /\ k.email = s.email
                             /\ k.first # {} /\ s.first = k.first /\ s.name = k.name
      BY <2>1 DEF Renamed
    <3>2. t.email = s.email /\ t.first = s.first /\ t.name = s.name
      BY <3>1 DEF Grown, Keeps
    <3> QED BY <3>1, <3>2 DEF Renamed
  <2>2. CASE r.name \subseteq Display(s) /\ s.first # {}
    BY <2>2 DEF Grown, Keeps, Display
  <2>3. CASE r.name \subseteq Display(s) /\ s.first = {}
    BY <2>3 DEF Grown, Keeps, Display
  <2> QED BY <2>1, <2>2, <2>3 DEF Grown, Keeps
<1> QED BY <1>1 DEF Grown, Keeps

(* Growing twice is growing.                                                *)
LEMMA GrowTwice ==
  ASSUME NEW rs, NEW ss, NEW ts, Grow(rs, ss), Grow(ss, ts)
  PROVE  Grow(rs, ts)
<1>1. ASSUME NEW c \in DOMAIN rs PROVE Grown(rs[c], ts[c])
  <2>1. Grown(rs[c], ss[c]) /\ Grown(ss[c], ts[c])
    BY DEF Grow
  <2> QED BY <2>1, GrownTwice
<1> QED BY <1>1 DEF Grow
-----------------------------------------------------------------------------
(* The import of an address book.                                           *)

Entries(es) == \A x \in es : x = Entry(x.app, x.kind, x.words, x.email) /\ x.app \in Live

(* A contact this import made, and whether the cards leave it its name.      *)
Named(r) == r.first = {} \/ \A k \in Card1 : k.person \in r.who => k.first # {}
Made(es, r) ==
    /\ \E k \in Card1 : k.person \in r.who /\ (k.first # {} => r.first # {})
    /\ Named(r) =>
         /\ Mentioned(Display(r), r.email) \subseteq r.apps
         /\ \A a \in r.apps :
              Display(r) \in messages => Entry(a, "message", Display(r), Nothing) \in es

ImportInv(s) ==
    /\ s = [rows |-> s.rows, entries |-> s.entries]
    /\ Contacts(s.rows) /\ Grow(rows, s.rows)
    /\ Entries(s.entries) /\ entries \subseteq s.entries
    /\ \A c \in DOMAIN s.rows \ DOMAIN rows : Made(s.entries, s.rows[c])

(* A merge leaves a contact made by this import as it has to be.            *)
LEMMA CompletedIsMade ==
  ASSUME NEW es, NEW r \in Contact, NEW k \in CardType, Made(es, r)
  PROVE  Made(es, Completed(r, k))
<1> DEFINE q == Completed(r, k)
<1>1. /\ q.apps = r.apps /\ q.who = r.who /\ q.email = r.email
      /\ r.first # {} => q.first = r.first /\ q.name = r.name
      /\ q.first = {} => q.name = r.name /\ r.first = {}
  BY CompletedFields
<1> HIDE DEF q
<1>2. \E j \in Card1 : j.person \in q.who /\ (j.first # {} => q.first # {})
  BY <1>1 DEF Made
<1>3. ASSUME Named(q) PROVE Named(r) /\ Display(q) = Display(r)
  <2>1. CASE q.first = {}
    BY <1>1, <2>1 DEF Named, Display
  <2>2. CASE \A j \in Card1 : j.person \in q.who => j.first # {}
    <3>1. r.first # {}
      BY <1>1, <2>2 DEF Made
    <3> QED BY <1>1, <2>2, <3>1 DEF Named, Display
  <2> QED BY <1>3, <2>1, <2>2 DEF Named
<1>4. Made(es, q)
  BY <1>1, <1>2, <1>3 DEF Made
<1> QED BY <1>4 DEF q

(* What was made stays made when entries are added.                         *)
LEMMA MadeStays ==
  ASSUME NEW es, NEW fs, es \subseteq fs, NEW r, Made(es, r)
  PROVE  Made(fs, r)
BY DEF Made

(* What is attached to a contact are entries of its applications.           *)
LEMMA AttachedAreEntries ==
  ASSUME NEW es, Entries(es), NEW r, r.apps \subseteq Live
  PROVE  /\ Entries(Attached(es, r)) /\ es \subseteq Attached(es, r)
         /\ \A a \in r.apps : Display(r) \in messages =>
              Entry(a, "message", Display(r), Nothing) \in Attached(es, r)
BY DEF Entries, Attached, Entry

(* One card.                                                                *)
LEMMA OneCard ==
  ASSUME NEW s, ImportInv(s), NEW k \in Card1
  PROVE  ImportInv(ImportCard(s, k))
<1> DEFINE c == Lookup(s.rows, k)
           new == FromCard(k, Mentioned(k.name \cup k.first, k.email))
           id == NewId(s.rows)
<1>1. k \in CardType
  BY CardsAreCards
<1>2. c \in DOMAIN s.rows \cup {0}
  BY LookupFinds DEF ImportInv, Contacts
<1> HIDE DEF c
<1>3. CASE c # 0
  <2> DEFINE r == s.rows[c]
             q == Completed(r, k)
             t == Put(s.rows, c, q)
  <2>1. ImportCard(s, k) = [rows |-> t, entries |-> s.entries]
    <3>1. ImportCard(s, k) = [s EXCEPT !.rows = t]
      BY <1>3 DEF ImportCard, c
    <3> HIDE DEF t
    <3> QED BY <3>1 DEF ImportInv
  <2>2. /\ r \in Contact /\ r.apps \subseteq Live /\ c \in Nat \ {0} /\ c \in DOMAIN s.rows
    BY <1>2, <1>3 DEF ImportInv, Contacts
  <2> HIDE DEF r
  <2>3. /\ q \in Contact /\ Grown(r, q) /\ q.apps \subseteq Live
    <3>1. Belongs(r, k)
      BY <1>2, <1>3, LookupFinds DEF ImportInv, Contacts, c, r
    <3>2. q \in Contact /\ q.apps = r.apps
      BY <1>1, <2>2, CompletedFields
    <3> QED BY <2>2, <3>1, <3>2, CompletedKeeps
  <2> HIDE DEF q
  <2>4. Contacts(t)
    BY <2>2, <2>3, PutContact DEF ImportInv
  <2>5. Grow(s.rows, t)
    BY <2>3, PutGrows DEF r
  <2>6. Grow(rows, t)
    <3> HIDE DEF t
    <3> QED BY <2>5, GrowTwice DEF ImportInv
  <2>7. ASSUME NEW d \in DOMAIN t \ DOMAIN rows PROVE Made(s.entries, t[d])
    <3>1. d \in DOMAIN s.rows \ DOMAIN rows
      BY <2>2 DEF Put
    <3>2. Made(s.entries, s.rows[d])
      BY <3>1 DEF ImportInv
    <3>3. CASE d = c
      <4>1. t[d] = q
        BY <2>2, <3>3 DEF Put
      <4> QED BY <1>1, <2>2, <3>2, <3>3, <4>1, CompletedIsMade DEF q, r
    <3>4. CASE d # c
      <4>1. t[d] = s.rows[d]
        BY <3>1, <3>4 DEF Put
      <4> QED BY <3>2, <4>1
    <3> QED BY <3>3, <3>4
  <2> HIDE DEF t
  <2> QED BY <2>1, <2>4, <2>6, <2>7 DEF ImportInv
<1>4. CASE c = 0
  <2> DEFINE t == Put(s.rows, id, new)
             es == Attached(s.entries, new)
  <2>1. ImportCard(s, k) = [rows |-> t, entries |-> es]
    BY <1>4 DEF ImportCard, c, Greeted
  <2>2. id \in Nat \ {0} /\ id \notin DOMAIN s.rows
    BY NewIdIsNew DEF ImportInv, Contacts
  <2> HIDE DEF id
  <2>3. new \in Contact /\ new.apps \subseteq Live
    <3>1. Mentioned(k.name \cup k.first, k.email) \in SUBSET Apps
      BY MentionedIsLive
    <3>2. new.apps = Mentioned(k.name \cup k.first, k.email)
      BY DEF FromCard
    <3> QED BY <1>1, <3>1, <3>2, FromCardIsContact, MentionedIsLive
  <2>4. Made(es, new)
    <3>1. /\ k.person \in new.who /\ new.first = k.first
          /\ Display(new) = k.name \cup k.first /\ new.email = k.email
          /\ new.apps = Mentioned(k.name \cup k.first, k.email)
      BY DEF FromCard, Display
    <3>2. \A a \in new.apps : Display(new) \in messages =>
            Entry(a, "message", Display(new), Nothing) \in es
      BY <2>3, AttachedAreEntries DEF ImportInv
    <3> HIDE DEF new, es
    <3> QED BY <3>1, <3>2 DEF Made
  <2>5. Entries(es) /\ s.entries \subseteq es
    BY <2>3, AttachedAreEntries DEF ImportInv
  <2> HIDE DEF new, es
  <2>6. Contacts(t)
    BY <2>2, <2>3, PutContact DEF ImportInv
  <2>7. Grow(s.rows, t)
    BY <2>2, PutGrows
  <2>8. Grow(rows, t)
    <3> HIDE DEF t
    <3> QED BY <2>7, GrowTwice DEF ImportInv
  <2>9. ASSUME NEW d \in DOMAIN t \ DOMAIN rows PROVE Made(es, t[d])
    <3>1. CASE d = id
      BY <2>4, <3>1 DEF Put
    <3>2. CASE d # id
      <4>1. d \in DOMAIN s.rows \ DOMAIN rows /\ t[d] = s.rows[d]
        BY <3>2 DEF Put
      <4>2. Made(s.entries, s.rows[d])
        BY <4>1 DEF ImportInv
      <4> QED BY <2>5, <4>1, <4>2, MadeStays
    <3> QED BY <3>1, <3>2
  <2>10. entries \subseteq es
    BY <2>5 DEF ImportInv
  <2> HIDE DEF t
  <2> QED BY <2>1, <2>5, <2>6, <2>8, <2>9, <2>10 DEF ImportInv
<1> QED BY <1>3, <1>4

(* All cards: by induction over the cards that were looked at.              *)
LEMMA AllCards ==
  ASSUME NEW ks, ImportInv(Found)
  PROVE  ImportInv(Imported(ks))
<1>1. CASE cancel
  BY <1>1 DEF Imported
<1>2. CASE ~cancel
  <2>1. PICK t : /\ t[0] = Found
                 /\ \A i \in 1..Len(Cards) : t[i] = ImportOf(ks, t[i - 1], Cards[i])
                 /\ Imported(ks) = t[Len(Cards)]
    BY <1>2, CardAfterCard
  <2> DEFINE Good == {i \in 0..Len(Cards) : ImportInv(t[i])}
  <2>2. Len(Cards) \in Nat
    BY PeopleAssumption
  <2>3. 0 \in Good
    BY <2>1, <2>2
  <2>4. ASSUME NEW i \in 1..Len(Cards), i - 1 \in Good PROVE i \in Good
    <3>1. ImportInv(t[i - 1]) /\ Cards[i] \in Card1
      BY <2>4, CardsAreCards
    <3>2. ImportInv(t[i])
      BY <2>1, <3>1, OneCard DEF ImportOf
    <3> QED BY <2>2, <3>2
  <2>5. 0..Len(Cards) \subseteq Good
    <3> HIDE DEF Good
    <3> QED BY <2>2, <2>3, <2>4, UpTo
  <2> QED BY <2>1, <2>2, <2>5
<1> QED BY <1>1, <1>2
-----------------------------------------------------------------------------
(* The invariant, and what a step promises.                                 *)

RowsOK == DOMAIN rows \subseteq 1..MaxId /\ Contacts(rows)
BookOK ==
    /\ \/ book = Idle \/ book = [kind |-> "all"]
       \/ book \in [kind : {"one"}, id : Nat, force : BOOLEAN, read : Contact]
    /\ cancel \in BOOLEAN
QueueOK ==
    /\ messages \subseteq FullNames
    /\ proposals \subseteq Proposal /\ \A q \in proposals : q.keep # q.dup
Inv ==
    /\ status \in [Apps -> {"active", "rejected", "gone"}]
    /\ RowsOK /\ Entries(entries) /\ QueueOK /\ BookOK
    /\ last \in {"sync", "edit", "removal", "merge"}

LostStep ==
    last' # "removal" =>
      \A a \in Live : \E b \in Live' : (a \in Live' => a = b) /\ Kept(a, b)
FollowStep ==
    \A c \in DOMAIN rows' \ DOMAIN rows :
      \A a \in rows'[c].apps :
        NamedAtOnce(c) /\ Display(rows'[c]) \in messages =>
          Entry(a, "message", Display(rows'[c]), Nothing) \in entries'
PassiveStep ==
    last' = "sync" =>
      \A c \in DOMAIN rows : /\ c \in DOMAIN rows'
                             /\ Untouched(c) => Keeps(rows[c], rows'[c])
Promises == LostStep /\ FollowStep /\ PassiveStep

(* The invariant is TypeOK and three facts more.                            *)
LEMMA InvIsTyped ==
  ASSUME Inv, calls \in 0..MaxCalls
  PROVE  TypeOK
<1>1. \A c \in DOMAIN rows : rows[c] \in Contact /\ rows[c].apps \subseteq Live
  BY DEF Inv, RowsOK, Contacts
<1>2. book # Idle => book.kind = "all" \/ book.read \in Contact
  <2> HIDE DEF Contact
  <2> QED BY DEF Inv, BookOK
<1>3. \A x \in entries : x.app \in Live
  BY DEF Inv, Entries
<1> QED BY <1>1, <1>2, <1>3 DEF Inv, RowsOK, QueueOK, BookOK, TypeOK

(* A set of ids up to MaxId is finite.                                      *)
LEMMA RowsFromParts ==
  ASSUME NEW rs, DOMAIN rs \subseteq 1..MaxId,
         \A c \in DOMAIN rs : rs[c] \in Contact /\ rs[c].apps \subseteq Live
  PROVE  Contacts(rs)
<1>1. 1..MaxId \subseteq Nat \ {0} /\ IsFiniteSet(1..MaxId)
  BY PeopleAssumption, FS_Interval
<1>2. IsFiniteSet(DOMAIN rs)
  BY <1>1, FS_Subset
<1> QED BY <1>1, <1>2 DEF Contacts

(* The applications that are there, over a step that leaves them alone.     *)
LEMMA SameLive ==
  ASSUME UNCHANGED status
  PROVE  Live' = Live /\ Active' = Active
BY DEF Live, Active

(* Rows and entries of the right type are of that type afterwards.          *)
LEMMA RowsNext ==
  ASSUME UNCHANGED status, Contacts(rows'), \A c \in DOMAIN rows' : c <= MaxId
  PROVE  RowsOK'
<1>1. Contacts(rows)'
  BY SameLive DEF Contacts
<1>2. DOMAIN rows' \subseteq 1..MaxId
  BY PeopleAssumption DEF Contacts
<1> QED BY <1>1, <1>2 DEF RowsOK

(* The same for entries.                                                    *)
LEMMA EntriesNext ==
  ASSUME UNCHANGED status, Entries(entries')
  PROVE  Entries(entries)'
BY SameLive DEF Entries, Entry

(* Where contacts and entries only grow, nothing is lost.                   *)
LEMMA GrowthKeeps ==
  ASSUME UNCHANGED status, entries \subseteq entries',
         \A c \in DOMAIN rows : /\ c \in DOMAIN rows'
                                /\ rows[c].apps \subseteq rows'[c].apps
                                /\ rows[c].who \subseteq rows'[c].who
  PROVE  LostStep
<1>1. ASSUME NEW a \in Live PROVE Kept(a, a)
  <2>1. Correspondents(a) \subseteq Correspondents(a)'
    <3> SUFFICES ASSUME NEW p \in Correspondents(a) PROVE p \in Correspondents(a)'
      OBVIOUS
    <3>1. PICK c \in DOMAIN rows : a \in rows[c].apps /\ p \in rows[c].who
      BY DEF Correspondents
    <3>2. c \in DOMAIN rows' /\ a \in rows'[c].apps /\ p \in rows'[c].who
      BY <3>1
    <3> QED BY <3>2 DEF Correspondents
  <2>2. EntriesOf(a) \subseteq EntriesOf(a)'
    BY DEF EntriesOf
  <2> QED BY <2>1, <2>2 DEF Kept
<1> QED BY <1>1, SameLive DEF LostStep

(* A step of a sync that grows contacts keeps what they have.               *)
LEMMA GrowIsPromised ==
  ASSUME UNCHANGED status, entries \subseteq entries', Grow(rows, rows')
  PROVE  LostStep /\ PassiveStep
<1>1. \A c \in DOMAIN rows : c \in DOMAIN rows' /\ Grown(rows[c], rows'[c])
  BY DEF Grow
<1>2. LostStep
  BY <1>1, GrowthKeeps DEF Grown, Keeps
<1>3. PassiveStep
  BY <1>1 DEF PassiveStep, Grown
<1> QED BY <1>2, <1>3

(* Contacts that stay as they are grow.                                     *)
LEMMA Stays ==
  ASSUME NEW rs
  PROVE  Grow(rs, rs)
BY DEF Grow, Grown, Keeps, Display

(* An import starts from what is there.                                     *)
LEMMA ImportStarts ==
  ASSUME Inv
  PROVE  ImportInv(Found)
BY Stays DEF Inv, RowsOK, ImportInv, Found

-----------------------------------------------------------------------------
(* The steps of a sync.                                                     *)

(* A mail is filed with an application that is not rejected.                *)
LEMMA MatchingIsActive ==
  ASSUME NEW m
  PROVE  Matching(m) \subseteq Active
<1>1. ByEmail(m.email) \subseteq Active /\ ByDomain(m.email) \subseteq Active
      /\ ByText(m) \subseteq Active
  BY DEF ByEmail, ByDomain, ByText
<1> QED BY <1>1 DEF Matching

(* The sender of a mail: who he is and what becomes of his contact.         *)
LEMMA SenderIsContact ==
  ASSUME Inv, NEW m \in Mails, NEW a \in Live
  PROVE  /\ Sender(m, a) \in DOMAIN rows \cup {0}
         /\ FromMail(m, a) \in Contact /\ FromMail(m, a).apps = {a}
         /\ Sender(m, a) # 0 =>
              /\ Refreshed(m, a) \in Contact /\ Refreshed(m, a).apps \subseteq Live
              /\ Grown(rows[Sender(m, a)], Refreshed(m, a))
<1>1. /\ Addressed(rows, m.email) \subseteq DOMAIN rows
      /\ SameName(m, a) \subseteq DOMAIN rows
      /\ DOMAIN rows \subseteq Nat \ {0}
  BY DEF Addressed, SameName, Inv, RowsOK, Contacts
<1>2. Sender(m, a) \in DOMAIN rows \cup {0}
  <2>1. /\ First(Addressed(rows, m.email)) \in DOMAIN rows \cup {0}
        /\ First(SameName(m, a)) \in DOMAIN rows \cup {0}
    BY <1>1, FirstIsOne
  <2> QED BY <2>1 DEF Sender, OneOf
<1>3. /\ m.person \in People /\ m.email \in Emails /\ m.name \subseteq Words
      /\ m.first \subseteq Words /\ m.phones \subseteq Phones
      /\ Lower[m.email] \in Emails /\ Firm[a] \in Firms /\ a \in Apps
  BY PeopleAssumption DEF Live
<1>4. Stored(m) \in Emails \cup {Nothing}
  BY <1>3 DEF Stored
<1>5. FromMail(m, a) \in Contact /\ FromMail(m, a).apps = {a}
  BY <1>3, <1>4 DEF FromMail, Contact
<1>6. ASSUME Sender(m, a) # 0
      PROVE  /\ Refreshed(m, a) \in Contact /\ Refreshed(m, a).apps \subseteq Live
             /\ Grown(rows[Sender(m, a)], Refreshed(m, a))
  <2> DEFINE r == rows[Sender(m, a)]
  <2>1. r \in Contact /\ r.apps \subseteq Live
    BY <1>2, <1>6 DEF Inv, RowsOK, Contacts
  <2>2. Refreshed(m, a) = [r EXCEPT !.email = IF r.email = Nothing THEN Stored(m) ELSE r.email,
                                    !.phones = r.phones \cup m.phones,
                                    !.apps = r.apps \cup {a}]
    BY DEF Refreshed
  <2> HIDE DEF r
  <2>3. Refreshed(m, a) \in Contact
    <3>1. /\ (IF r.email = Nothing THEN Stored(m) ELSE r.email) \in Emails \cup {Nothing}
          /\ r.phones \cup m.phones \subseteq Phones /\ r.apps \cup {a} \subseteq Apps
      BY <1>3, <1>4, <2>1 DEF Contact
    <3> QED BY <2>1, <2>2, <3>1 DEF Contact
  <2>4. Refreshed(m, a).apps \subseteq Live /\ Grown(r, Refreshed(m, a))
    BY <2>1, <2>2 DEF Contact, Grown, Keeps, Display
  <2> QED BY <2>3, <2>4 DEF r
<1> QED BY <1>2, <1>5, <1>6

(* A mail.                                                                  *)
LEMMA MailStep ==
  ASSUME Inv, NEW m \in Mails, MailFiled(m)
  PROVE  Inv' /\ Promises
<1> DEFINE filed(a) == entries \cup {Entry(a, "mail", m.name \cup m.first, Lower[m.email])}
           c(a) == IF Sender(m, a) = 0 THEN NewId(rows) ELSE Sender(m, a)
           r(a) == IF Sender(m, a) = 0 THEN FromMail(m, a) ELSE Refreshed(m, a)
<1>1. PICK a \in Matching(m) :
        /\ last' = "sync"
        /\ IF m.mailbox
           THEN entries' = filed(a) /\ UNCHANGED rows
           ELSE /\ c(a) <= MaxId
                /\ rows' = Put(rows, c(a), r(a))
                /\ entries' = Attached(filed(a), r(a))
        /\ UNCHANGED <<status, messages, proposals, book, cancel>>
  BY DEF MailFiled
<1>2. a \in Live
  BY MatchingIsActive DEF Active, Live
<1>3. Entries(filed(a)) /\ entries \subseteq filed(a)
  BY <1>2 DEF Inv, Entries, Entry
<1>4. c(a) \in Nat \ {0} /\ r(a) \in Contact /\ r(a).apps \subseteq Live
      /\ (c(a) \in DOMAIN rows => Grown(rows[c(a)], r(a)))
  <2>1. NewId(rows) \in Nat \ {0} /\ NewId(rows) \notin DOMAIN rows
    BY NewIdIsNew DEF Inv, RowsOK, Contacts
  <2>2. DOMAIN rows \subseteq Nat \ {0}
    BY DEF Inv, RowsOK, Contacts
  <2> QED BY <1>2, <2>1, <2>2, SenderIsContact
<1> HIDE DEF filed, c, r
<1>5. /\ Contacts(rows') /\ \A d \in DOMAIN rows' : d <= MaxId
      /\ Entries(entries') /\ entries \subseteq entries' /\ Grow(rows, rows')
      /\ FollowStep
  <2>0. Contacts(rows) /\ DOMAIN rows \subseteq 1..MaxId
    BY DEF Inv, RowsOK
  <2>1. CASE m.mailbox
    BY <1>1, <1>3, <2>0, <2>1, Stays, PeopleAssumption DEF FollowStep
  <2>2. CASE ~m.mailbox
    <3>1. /\ c(a) <= MaxId
          /\ rows' = Put(rows, c(a), r(a))
          /\ entries' = Attached(filed(a), r(a))
      BY <1>1, <2>2
    <3>2. Contacts(rows')
      BY <1>4, <2>0, <3>1, PutContact
    <3>3. \A d \in DOMAIN rows' : d <= MaxId
      BY <2>0, <3>1, PeopleAssumption DEF Put
    <3>4. Grow(rows, rows')
      BY <1>4, <3>1, PutGrows
    <3>5. /\ Entries(entries') /\ filed(a) \subseteq entries'
          /\ \A b \in r(a).apps : Display(r(a)) \in messages =>
               Entry(b, "message", Display(r(a)), Nothing) \in entries'
      BY <1>3, <1>4, <3>1, AttachedAreEntries
    <3>6. \A d \in DOMAIN rows' \ DOMAIN rows : rows'[d] = r(a)
      BY <3>1 DEF Put
    <3>7. FollowStep
      BY <3>5, <3>6 DEF FollowStep
    <3> QED BY <1>3, <3>2, <3>3, <3>4, <3>5, <3>7
  <2> QED BY <2>1, <2>2
<1>6. LostStep /\ PassiveStep
  BY <1>1, <1>5, GrowIsPromised
<1>7. RowsOK' /\ Entries(entries)'
  BY <1>1, <1>5, RowsNext, EntriesNext
<1> QED BY <1>1, <1>5, <1>6, <1>7 DEF Inv, QueueOK, BookOK, Promises
(* The links that are added afterwards.                                     *)
LEMMA BackfilledGrows ==
  ASSUME NEW rs, Contacts(rs)
  PROVE  /\ Contacts(Backfilled(rs)) /\ Grow(rs, Backfilled(rs))
         /\ DOMAIN Backfilled(rs) = DOMAIN rs
         /\ \A c \in DOMAIN rs :
              LET r == rs[c]
                  q == Backfilled(rs)[c]
              IN  /\ q.first = r.first /\ q.who = r.who /\ Display(q) = Display(r)
                  /\ q.apps \subseteq r.apps \cup Mentioned(Display(r), r.email)
<1>1. CASE cancel
  BY <1>1, Stays DEF Backfilled
<1>2. CASE ~cancel
  <2> DEFINE bs == Backfilled(rs)
             M(c) == Mentioned(Display(rs[c]), rs[c].email)
  <2>1. /\ DOMAIN bs = DOMAIN rs
        /\ \A c \in DOMAIN rs : bs[c] = [rs[c] EXCEPT !.apps = rs[c].apps \cup M(c)]
    BY <1>2 DEF Backfilled
  <2>2. \A c \in DOMAIN rs : M(c) \subseteq Live /\ M(c) \subseteq Apps
    BY MentionedIsLive
  <2> HIDE DEF bs, M
  <2>3. ASSUME NEW c \in DOMAIN rs
        PROVE  /\ bs[c] \in Contact /\ bs[c].apps = rs[c].apps \cup M(c)
               /\ bs[c].apps \subseteq Live /\ Grown(rs[c], bs[c])
               /\ bs[c].first = rs[c].first /\ bs[c].who = rs[c].who
               /\ Display(bs[c]) = Display(rs[c])
    <3>1. rs[c] \in Contact /\ rs[c].apps \subseteq Live
      BY DEF Contacts
    <3> DEFINE r == rs[c]
               q == bs[c]
               new == rs[c].apps \cup M(c)
    <3>2. new \subseteq Apps /\ new \subseteq Live
      BY <2>2, <3>1 DEF Contact
    <3>3. q = [r EXCEPT !.apps = new]
      BY <2>1
    <3> HIDE DEF r, q, new
    <3>4. r \in Contact
      BY <3>1 DEF r
    <3>5. /\ q \in Contact /\ q.apps = new /\ q.first = r.first /\ q.who = r.who
          /\ q.name = r.name /\ q.email = r.email /\ q.firma = r.firma
          /\ q.phones = r.phones
      BY <3>2, <3>3, <3>4 DEF Contact
    <3>6. r.apps \subseteq new
      BY DEF r, new
    <3>7. Grown(r, q) /\ Display(q) = Display(r)
      BY <3>5, <3>6 DEF Grown, Keeps, Display
    <3> QED BY <3>2, <3>5, <3>7 DEF q, r, new
  <2>4. Contacts(bs)
    BY <2>1, <2>3 DEF Contacts
  <2>5. Grow(rs, bs)
    BY <2>1, <2>3 DEF Grow
  <2> QED BY <2>1, <2>3, <2>4, <2>5 DEF bs, M
<1> QED BY <1>1, <1>2

(* A sync of the address books.                                             *)
LEMMA ContactsSyncStep ==
  ASSUME Inv, FinishContactsSync
  PROVE  Inv' /\ Promises
<1>1. PICK ks \in SUBSET Card1 :
        /\ \A c \in DOMAIN Imported(ks).rows : c <= MaxId
        /\ rows' = Backfilled(Imported(ks).rows)
        /\ entries' = Imported(ks).entries
  BY DEF FinishContactsSync
<1> DEFINE s == Imported(ks)
<1>2. ImportInv(s)
  BY ImportStarts, AllCards
<1>3. /\ book # Idle /\ book' = Idle /\ last' = "sync"
      /\ UNCHANGED <<status, messages, proposals, cancel>>
  BY DEF FinishContactsSync
<1> HIDE DEF s
<1>4. /\ Contacts(rows') /\ Grow(s.rows, rows') /\ DOMAIN rows' = DOMAIN s.rows
      /\ \A c \in DOMAIN s.rows :
           /\ rows'[c].first = s.rows[c].first /\ rows'[c].who = s.rows[c].who
           /\ Display(rows'[c]) = Display(s.rows[c])
           /\ rows'[c].apps \subseteq
                s.rows[c].apps \cup Mentioned(Display(s.rows[c]), s.rows[c].email)
  BY <1>1, <1>2, BackfilledGrows DEF ImportInv, s
<1>5. Grow(rows, rows') /\ entries \subseteq entries' /\ Entries(entries')
  BY <1>1, <1>2, <1>4, GrowTwice DEF ImportInv, s
<1>6. FollowStep
  <2> SUFFICES ASSUME NEW c \in DOMAIN rows' \ DOMAIN rows, NEW a \in rows'[c].apps,
                      NamedAtOnce(c), Display(rows'[c]) \in messages
               PROVE  Entry(a, "message", Display(rows'[c]), Nothing) \in entries'
    BY DEF FollowStep
  <2>1. Made(s.entries, s.rows[c])
    BY <1>2, <1>4 DEF ImportInv
  <2>2. Named(s.rows[c])
    BY <1>3, <1>4 DEF NamedAtOnce, Named
  <2>3. a \in s.rows[c].apps
    BY <1>4, <2>1, <2>2 DEF Made
  <2>4. Display(rows'[c]) = Display(s.rows[c])
    BY <1>4
  <2> QED BY <1>1, <2>1, <2>2, <2>3, <2>4 DEF Made, s
<1>7. RowsOK' /\ Entries(entries)'
  BY <1>1, <1>3, <1>4, <1>5, RowsNext, EntriesNext DEF s
<1>8. LostStep /\ PassiveStep
  BY <1>3, <1>5, GrowIsPromised
<1> QED BY <1>3, <1>6, <1>7, <1>8 DEF Inv, QueueOK, BookOK, Promises

(* A sync of the address books that ends on the way.                        *)
LEMMA CutStep ==
  ASSUME Inv, ContactsSyncCut
  PROVE  Inv' /\ Promises
<1>1. PICK ks \in SUBSET Card1 :
        /\ \A c \in DOMAIN Imported(ks).rows : c <= MaxId
        /\ rows' = Imported(ks).rows /\ entries' = Imported(ks).entries
  BY DEF ContactsSyncCut
<1> DEFINE s == Imported(ks)
<1>2. ImportInv(s)
  BY ImportStarts, AllCards
<1>3. /\ book # Idle /\ book' = Idle /\ last' = "sync" /\ cancel' = FALSE
      /\ UNCHANGED <<status, messages, proposals>>
  BY DEF ContactsSyncCut
<1> HIDE DEF s
<1>4. FollowStep
  <2> SUFFICES ASSUME NEW c \in DOMAIN rows' \ DOMAIN rows, NEW a \in rows'[c].apps,
                      NamedAtOnce(c), Display(rows'[c]) \in messages
               PROVE  Entry(a, "message", Display(rows'[c]), Nothing) \in entries'
    BY DEF FollowStep
  <2>1. Made(entries', rows'[c])
    BY <1>1, <1>2 DEF ImportInv, s
  <2>2. Named(rows'[c])
    BY <1>3 DEF NamedAtOnce, Named
  <2> QED BY <2>1, <2>2 DEF Made
<1>5. RowsOK' /\ Entries(entries)'
  BY <1>1, <1>2, <1>3, RowsNext, EntriesNext DEF ImportInv, s
<1>6. LostStep /\ PassiveStep
  BY <1>1, <1>2, <1>3, GrowIsPromised DEF ImportInv, s
<1> QED BY <1>3, <1>4, <1>5, <1>6 DEF Inv, QueueOK, BookOK, Promises

(* An entry of LinkedIn's list of connections.                              *)
LEMMA ConnectionStep ==
  ASSUME Inv, NEW k \in Card1, ImportConnection(k)
  PROVE  Inv' /\ Promises
<1> DEFINE s == IF cancel THEN Found ELSE ImportCard(Found, k)
<1>1. /\ \A c \in DOMAIN s.rows : c <= MaxId
      /\ rows' = s.rows /\ entries' = s.entries /\ last' = "sync"
      /\ UNCHANGED <<status, messages, proposals, book, cancel>>
  BY DEF ImportConnection
<1>2. ImportInv(s)
  BY ImportStarts, OneCard
<1>3. FollowStep
  <2> DEFINE new == FromCard(k, Mentioned(k.name \cup k.first, k.email))
  <2>1. CASE cancel \/ Lookup(rows, k) # 0
    <3>1. DOMAIN rows' \subseteq DOMAIN rows
      <4>1. Lookup(rows, k) \in DOMAIN rows \cup {0}
        BY LookupFinds DEF Inv, RowsOK, Contacts
      <4> QED BY <1>1, <2>1, <4>1 DEF ImportCard, Found, Put
    <3> QED BY <3>1 DEF FollowStep
  <2>2. CASE ~(cancel \/ Lookup(rows, k) # 0)
    <3>1. rows' = Put(rows, NewId(rows), new) /\ entries' = Attached(entries, new)
      BY <1>1, <2>2 DEF ImportCard, Found, Greeted
    <3>2. \A c \in DOMAIN rows' \ DOMAIN rows : rows'[c] = new
      BY <3>1 DEF Put
    <3>3. \A a \in new.apps : Display(new) \in messages =>
            Entry(a, "message", Display(new), Nothing) \in entries'
      BY <3>1 DEF Attached
    <3> HIDE DEF new
    <3> QED BY <3>2, <3>3 DEF FollowStep
  <2> QED BY <2>1, <2>2
<1> HIDE DEF s
<1>4. RowsOK' /\ Entries(entries)'
  BY <1>1, <1>2, RowsNext, EntriesNext DEF ImportInv
<1>5. LostStep /\ PassiveStep
  BY <1>1, <1>2, GrowIsPromised DEF ImportInv
<1> QED BY <1>1, <1>3, <1>4, <1>5 DEF Inv, QueueOK, BookOK, Promises

(* A contact that is put under its own id with its links and its persons.   *)
LEMMA PutBack ==
  ASSUME Inv, NEW c \in DOMAIN rows, NEW r \in Contact,
         r.apps = rows[c].apps, r.who = rows[c].who,
         rows' = Put(rows, c, r), UNCHANGED <<status, entries>>
  PROVE  RowsOK' /\ LostStep /\ FollowStep
<1>1. /\ c \in Nat \ {0} /\ r.apps \subseteq Live /\ Contacts(rows)
      /\ \A d \in DOMAIN rows : d <= MaxId
  BY PeopleAssumption DEF Inv, RowsOK, Contacts
<1>2. Contacts(rows')
  BY <1>1, PutContact
<1>3. DOMAIN rows' = DOMAIN rows /\ \A d \in DOMAIN rows : rows'[d] = IF d = c THEN r ELSE rows[d]
  BY DEF Put
<1>4. RowsOK'
  BY <1>1, <1>2, <1>3, RowsNext
<1>5. LostStep
  BY <1>3, GrowthKeeps
<1> QED BY <1>3, <1>4, <1>5 DEF FollowStep

(* The card of a contact is one of the cards.                               *)
LEMMA CardOfContact ==
  ASSUME NEW r, Card(r) # 0
  PROVE  Cards[Card(r)] \in CardType
<1> DEFINE E == {i \in DOMAIN Cards : /\ r.email # Nothing /\ Cards[i].email # Nothing
                                      /\ Lower[Cards[i].email] = Lower[r.email]}
           N == {i \in DOMAIN Cards : r.name \in {Cards[i].name, Cards[i].name \cup Cards[i].first}}
<1>1. DOMAIN Cards = 1..Len(Cards) /\ Len(Cards) \in Nat
  BY PeopleAssumption
<1>2. IsFiniteSet(1..Len(Cards)) /\ 1..Len(Cards) \subseteq Nat \ {0}
  <2>1. \A n \in Nat : IsFiniteSet(1..n) /\ 1..n \subseteq Nat \ {0}
    BY FS_Interval
  <2> QED BY <1>1, <2>1
<1>3. E \subseteq 1..Len(Cards) /\ N \subseteq 1..Len(Cards)
  BY <1>1
<1>4. Card(r) = IF E # {} THEN Max(E) ELSE First(N)
  BY DEF Card
<1> HIDE DEF E, N
<1>5. IsFiniteSet(E)
  BY <1>2, <1>3, FS_Subset
<1>6. E # {} => Max(E) \in E
  BY <1>2, <1>3, <1>5, MaxIsGreatest
<1>7. First(N) \in N \cup {0}
  BY <1>2, <1>3, FirstIsOne
<1>8. Card(r) \in 1..Len(Cards)
  BY <1>3, <1>4, <1>6, <1>7
<1> QED BY <1>8, CardsAreCards

(* What a scoped sync writes.                                               *)
LEMMA ScopedWrites ==
  ASSUME NEW r \in Contact, NEW read \in Contact, NEW k \in CardType
  PROVE  /\ Overwritten(r, read, k) \in Contact
         /\ Overwritten(r, read, k).apps = r.apps /\ Overwritten(r, read, k).who = r.who
         /\ FilledIn(r, read, k) \in Contact
         /\ FilledIn(r, read, k).apps = r.apps /\ FilledIn(r, read, k).who = r.who
         /\ read = r => Keeps(r, FilledIn(r, read, k))
<1>1. /\ (IF k.first \in {{}, read.first} THEN r.first ELSE k.first) \subseteq Words
      /\ (IF k.firma \in {Nothing, read.firma} THEN r.firma ELSE k.firma)
           \in Firms \cup {Nothing}
      /\ (IF read.firma = Nothing /\ k.firma # Nothing THEN k.firma ELSE r.firma)
           \in Firms \cup {Nothing}
      /\ k.phones \subseteq Phones /\ r.phones \cup k.phones \subseteq Phones
  BY DEF Contact, CardType
<1>2. /\ Overwritten(r, read, k) \in Contact
      /\ Overwritten(r, read, k).apps = r.apps /\ Overwritten(r, read, k).who = r.who
  BY <1>1 DEF Overwritten, Contact
<1>3. /\ FilledIn(r, read, k) \in Contact
      /\ FilledIn(r, read, k).apps = r.apps /\ FilledIn(r, read, k).who = r.who
  BY <1>1 DEF FilledIn, Contact
<1>4. read = r => Keeps(r, FilledIn(r, read, k))
  BY DEF FilledIn, Contact, Keeps, Display
<1> QED BY <1>2, <1>3, <1>4

(* The Sync or Re-Sync of one contact.                                      *)
LEMMA ScopedStep ==
  ASSUME Inv, FinishScopedSync
  PROVE  Inv' /\ Promises
<1> DEFINE i == Card(book.read)
           c == book.id
           w == IF book.force THEN Overwritten(rows[c], book.read, Cards[i])
                ELSE FilledIn(rows[c], book.read, Cards[i])
<1>1. /\ book \in [kind : {"one"}, id : Nat, force : BOOLEAN, read : Contact]
      /\ book # Idle /\ book' = Idle
      /\ last' = (IF book.force THEN "edit" ELSE "sync")
      /\ UNCHANGED <<status, entries, messages, proposals, cancel>>
      /\ rows' = IF i = 0 \/ c \notin DOMAIN rows THEN rows ELSE Put(rows, c, w)
  BY DEF FinishScopedSync, Inv, BookOK
<1>2. book.read \in Contact /\ book.kind = "one" /\ book.force \in BOOLEAN
  BY <1>1
<1>3. CASE i = 0 \/ c \notin DOMAIN rows
  <2>1. rows' = rows
    BY <1>1, <1>3
  <2>2. RowsOK'
    BY <1>1, <2>1, RowsNext, PeopleAssumption DEF Inv, RowsOK
  <2>3. LostStep /\ PassiveStep /\ FollowStep
    BY <1>1, <2>1, Stays, GrowIsPromised DEF FollowStep
  <2>4. Entries(entries)'
    BY <1>1, EntriesNext DEF Inv
  <2> QED BY <1>1, <2>2, <2>3, <2>4 DEF Inv, QueueOK, BookOK, Promises
<1>4. CASE ~(i = 0 \/ c \notin DOMAIN rows)
  <2>1. rows' = Put(rows, c, w) /\ c \in DOMAIN rows /\ i # 0
    BY <1>1, <1>4
  <2>2. rows[c] \in Contact /\ Cards[i] \in CardType
    BY <2>1, CardOfContact DEF Inv, RowsOK, Contacts
  <2>3. /\ w \in Contact /\ w.apps = rows[c].apps /\ w.who = rows[c].who
        /\ ~book.force /\ book.read = rows[c] => Keeps(rows[c], w)
    BY <1>2, <2>2, ScopedWrites
  <2> HIDE DEF w, i, c
  <2>4. RowsOK' /\ LostStep /\ FollowStep
    BY <1>1, <2>1, <2>3, PutBack
  <2>5. PassiveStep
    <3> SUFFICES ASSUME last' = "sync", NEW d \in DOMAIN rows
                 PROVE  d \in DOMAIN rows' /\ (Untouched(d) => Keeps(rows[d], rows'[d]))
      BY DEF PassiveStep
    <3>1. d \in DOMAIN rows' /\ rows'[d] = IF d = c THEN w ELSE rows[d]
      BY <2>1 DEF Put
    <3>2. ~book.force
      BY <1>1, <1>2
    <3>3. Untouched(d) => book.read = rows[d]
      BY <1>1, <1>2 DEF Untouched
    <3> QED BY <2>3, <3>1, <3>2, <3>3 DEF Keeps, Display
  <2>6. Entries(entries)'
    BY <1>1, EntriesNext DEF Inv
  <2> QED BY <1>1, <2>4, <2>5, <2>6 DEF Inv, QueueOK, BookOK, Promises
<1> QED BY <1>3, <1>4
(* Where no contact is new no conversation waits.                           *)
LEMMA NoNewcomer ==
  ASSUME DOMAIN rows' \subseteq DOMAIN rows
  PROVE  FollowStep
BY DEF FollowStep

(* Where no sync ran nothing is asked of one.                               *)
LEMMA NotSynced ==
  ASSUME last' # "sync"
  PROVE  PassiveStep
BY DEF PassiveStep

(* Steps that leave applications, contacts and entries alone.               *)
LEMMA TablesStay ==
  ASSUME Inv, UNCHANGED <<status, rows, entries>>
  PROVE  RowsOK' /\ Entries(entries)' /\ Promises
<1>1. RowsOK'
  BY RowsNext, PeopleAssumption DEF Inv, RowsOK
<1>2. Entries(entries)'
  BY EntriesNext DEF Inv
<1>3. Promises
  BY Stays, GrowIsPromised, NoNewcomer DEF Promises
<1> QED BY <1>1, <1>2, <1>3

(* Steps that only add entries.                                             *)
LEMMA EntriesAdded ==
  ASSUME Inv, UNCHANGED <<status, rows>>, NEW es, Entries(es), entries' = entries \cup es
  PROVE  RowsOK' /\ Entries(entries)' /\ Promises
<1>1. RowsOK'
  BY RowsNext, PeopleAssumption DEF Inv, RowsOK
<1>2. Entries(entries)'
  <2>1. Entries(entries')
    BY DEF Inv, Entries
  <2> QED BY <2>1, EntriesNext
<1>3. LostStep /\ PassiveStep
  BY Stays, GrowIsPromised
<1>4. FollowStep
  BY NoNewcomer
<1> QED BY <1>1, <1>2, <1>3, <1>4 DEF Promises

(* The other steps of a sync.                                               *)
LEMMA WaitingSteps ==
  ASSUME Inv,
         \/ StartContactsSync \/ CancelContactsSync \/ BookFails
         \/ \E c \in DOMAIN rows, force \in BOOLEAN : StartScopedSync(c, force)
  PROVE  Inv' /\ Promises
<1>1. UNCHANGED tables /\ last' \in {"sync", "edit"}
  BY DEF StartContactsSync, CancelContactsSync, BookFails, StartScopedSync
<1>2. BookOK'
  <2>1. CASE StartContactsSync \/ CancelContactsSync \/ BookFails
    BY <2>1 DEF Inv, BookOK, StartContactsSync, CancelContactsSync, BookFails
  <2>2. ASSUME NEW c \in DOMAIN rows, NEW force \in BOOLEAN, StartScopedSync(c, force)
        PROVE  BookOK'
    <3>1. c \in Nat /\ rows[c] \in Contact
      BY DEF Inv, RowsOK, Contacts
    <3>2. book' \in [kind : {"one"}, id : Nat, force : BOOLEAN, read : Contact]
      BY <2>2, <3>1 DEF StartScopedSync
    <3> QED BY <2>2, <3>2 DEF Inv, BookOK, StartScopedSync
  <2> QED BY <2>1, <2>2
<1>3. RowsOK' /\ Entries(entries)' /\ Promises
  BY <1>1, TablesStay DEF tables
<1> QED BY <1>1, <1>2, <1>3 DEF Inv, QueueOK, tables

(* Conversations.                                                           *)
LEMMA MessagesStep ==
  ASSUME Inv, NEW n \in FullNames, NEW apps, ImportMessages({n}, apps)
  PROVE  Inv' /\ Promises
<1> DEFINE es == {Entry(p[1], "message", Display(rows[p[2]]), Nothing) :
                    p \in {q \in Apps \X DOMAIN rows :
                       /\ Display(rows[q[2]]) \in messages'
                       /\ q[1] \in rows[q[2]].apps
                       /\ apps = Apps \/ rows[q[2]].apps \cap apps # {}}}
<1>1. /\ messages' = messages \cup {n} /\ entries' = entries \cup es /\ last' = "sync"
      /\ UNCHANGED <<status, rows, proposals, book, cancel>>
  BY DEF ImportMessages
<1>2. Entries(es)
  <2> SUFFICES ASSUME NEW x \in es
               PROVE  x = Entry(x.app, x.kind, x.words, x.email) /\ x.app \in Live
    BY DEF Entries
  <2>1. PICK q \in Apps \X DOMAIN rows :
          /\ q[1] \in rows[q[2]].apps
          /\ x = Entry(q[1], "message", Display(rows[q[2]]), Nothing)
    OBVIOUS
  <2>2. q[2] \in DOMAIN rows
    OBVIOUS
  <2>3. q[1] \in Live
    BY <2>1, <2>2 DEF Inv, RowsOK, Contacts
  <2> QED BY <2>1, <2>3 DEF Entry
<1> HIDE DEF es
<1>3. RowsOK' /\ Entries(entries)' /\ Promises
  BY <1>1, <1>2, EntriesAdded
<1> QED BY <1>1, <1>3 DEF Inv, QueueOK, BookOK

(* A call.                                                                  *)
LEMMA CallStep ==
  ASSUME Inv, NEW p \in Phones, CallFiled(p)
  PROVE  Inv' /\ Promises
<1> DEFINE callers == {c \in DOMAIN rows : p \in rows[c].phones}
           es == {Entry(a, "call", Display(rows[Min(callers)]), Nothing) :
                    a \in UNION {rows[c].apps : c \in callers}}
<1>1. /\ entries' = entries \cup es /\ last' = "sync"
      /\ UNCHANGED <<status, rows, messages, proposals, book, cancel>>
  BY DEF CallFiled
<1>2. Entries(es)
  <2> SUFFICES ASSUME NEW x \in es
               PROVE  x = Entry(x.app, x.kind, x.words, x.email) /\ x.app \in Live
    BY DEF Entries
  <2>1. PICK a \in UNION {rows[c].apps : c \in callers} :
          x = Entry(a, "call", Display(rows[Min(callers)]), Nothing)
    OBVIOUS
  <2>2. a \in Live
    BY DEF Inv, RowsOK, Contacts
  <2> QED BY <2>1, <2>2 DEF Entry
<1> HIDE DEF es
<1>3. RowsOK' /\ Entries(entries)' /\ Promises
  BY <1>1, <1>2, EntriesAdded
<1> QED BY <1>1, <1>3 DEF Inv, QueueOK, BookOK

-----------------------------------------------------------------------------
(* Edits by hand.                                                           *)

(* A contact somebody makes, or picks from a search.                        *)
LEMMA CreatedStep ==
  ASSUME Inv, NEW k \in Card1, NEW apps \in Picks, CreateContact(k, apps)
  PROVE  Inv' /\ Promises
<1> DEFINE new == FromCard(k, apps)
           id == NewId(rows)
<1>1. /\ id <= MaxId /\ apps \subseteq Live
      /\ rows' = Put(rows, id, new) /\ entries' = Attached(entries, new)
      /\ last' = "edit" /\ UNCHANGED <<status, messages, proposals, book, cancel>>
  BY DEF CreateContact, Editing
<1>2. /\ new \in Contact /\ new.apps = apps
      /\ id \in Nat \ {0} /\ id \notin DOMAIN rows
  <2>1. apps \in SUBSET Apps
    BY DEF Picks
  <2>2. new \in Contact
    BY <2>1, CardsAreCards, FromCardIsContact
  <2> QED BY <2>2, NewIdIsNew DEF Inv, RowsOK, Contacts, FromCard
<1> HIDE DEF new, id
<1>3. /\ Contacts(rows') /\ \A d \in DOMAIN rows' : d <= MaxId
      /\ Grow(rows, rows')
  <2>1. Contacts(rows) /\ \A d \in DOMAIN rows : d <= MaxId
    BY PeopleAssumption DEF Inv, RowsOK
  <2>2. Contacts(rows')
    BY <1>1, <1>2, <2>1, PutContact
  <2>3. \A d \in DOMAIN rows' : d <= MaxId
    BY <1>1, <2>1 DEF Put
  <2> QED BY <1>1, <1>2, <2>2, <2>3, PutGrows
<1>4. /\ Entries(entries') /\ entries \subseteq entries'
      /\ \A a \in new.apps : Display(new) \in messages =>
           Entry(a, "message", Display(new), Nothing) \in entries'
  BY <1>1, <1>2, AttachedAreEntries DEF Inv
<1>5. FollowStep
  <2>1. \A c \in DOMAIN rows' \ DOMAIN rows : rows'[c] = new
    BY <1>1 DEF Put
  <2> QED BY <1>4, <2>1 DEF FollowStep
<1>6. RowsOK' /\ Entries(entries)'
  BY <1>1, <1>3, <1>4, RowsNext, EntriesNext
<1>7. LostStep /\ PassiveStep
  BY <1>1, <1>3, <1>4, GrowIsPromised
<1> QED BY <1>1, <1>5, <1>6, <1>7 DEF Inv, QueueOK, BookOK, Promises

(* What a contact is linked to besides.                                     *)
LEMMA LinkedMore ==
  ASSUME NEW r \in Contact, NEW apps \in SUBSET Apps
  PROVE  LET q == [r EXCEPT !.apps = r.apps \cup apps]
         IN  q \in Contact /\ q.apps = r.apps \cup apps /\ Grown(r, q)
<1>1. r.apps \cup apps \subseteq Apps
  BY DEF Contact
<1> QED BY <1>1 DEF Contact, Grown, Keeps, Display

(* Cards picked from a search.                                              *)
LEMMA PickedStep ==
  ASSUME Inv, NEW k \in Card1, NEW apps \in Picks, ImportPicked(k, apps)
  PROVE  Inv' /\ Promises
<1> DEFINE c == OneOf(First(Spelled(rows, k.email)), Namesake(rows, k))
           new == FromCard(k, apps)
           more == [rows[c] EXCEPT !.apps = rows[c].apps \cup apps]
           r == IF c = 0 THEN new ELSE more
           d == IF c = 0 THEN NewId(rows) ELSE c
<1>1. /\ d <= MaxId /\ apps \subseteq Live
      /\ rows' = Put(rows, d, r)
      /\ entries' = (IF c # 0 /\ apps \subseteq rows[c].apps THEN entries
                     ELSE IF apps = {} THEN entries ELSE Attached(entries, r))
      /\ last' = "edit" /\ UNCHANGED <<status, messages, proposals, book, cancel>>
  BY DEF ImportPicked
<1>2. c \in DOMAIN rows \cup {0} /\ NewId(rows) \in Nat \ {0} /\ NewId(rows) \notin DOMAIN rows
  BY LookupFinds, NewIdIsNew DEF Inv, RowsOK, Contacts
<1> HIDE DEF c
<1>3. apps \in SUBSET Apps /\ new \in Contact /\ new.apps = apps
  <2>1. apps \in SUBSET Apps
    BY DEF Picks
  <2>2. new \in Contact
    BY <2>1, CardsAreCards, FromCardIsContact
  <2> QED BY <2>1, <2>2 DEF FromCard
<1>4. c # 0 => /\ more \in Contact /\ more.apps = rows[c].apps \cup apps
               /\ Grown(rows[c], more) /\ rows[c].apps \subseteq Live /\ c \in Nat \ {0}
  <2>1. c # 0 => /\ rows[c] \in Contact /\ rows[c].apps \subseteq Live /\ c \in Nat \ {0}
    BY <1>2 DEF Inv, RowsOK, Contacts
  <2> QED BY <1>3, <2>1, LinkedMore
<1> HIDE DEF new, more
<1>5. /\ r \in Contact /\ r.apps \subseteq Live /\ d \in Nat \ {0}
      /\ d \in DOMAIN rows => Grown(rows[d], r)
      /\ d \notin DOMAIN rows => c = 0 /\ r.apps = apps
  BY <1>1, <1>2, <1>3, <1>4
<1> HIDE DEF r, d
<1>6. /\ Contacts(rows') /\ Grow(rows, rows')
      /\ \A x \in DOMAIN rows' : x <= MaxId
  <2>1. Contacts(rows) /\ \A x \in DOMAIN rows : x <= MaxId
    BY PeopleAssumption DEF Inv, RowsOK
  <2>2. Contacts(rows')
    BY <1>1, <1>5, <2>1, PutContact
  <2>3. \A x \in DOMAIN rows' : x <= MaxId
    BY <1>1, <2>1 DEF Put
  <2>4. Grow(rows, rows')
    BY <1>1, <1>5, PutGrows
  <2> QED BY <2>2, <2>3, <2>4
<1>7. /\ Entries(entries') /\ entries \subseteq entries'
      /\ d \notin DOMAIN rows =>
           \A a \in r.apps : Display(r) \in messages =>
             Entry(a, "message", Display(r), Nothing) \in entries'
  <2>1. /\ Entries(Attached(entries, r)) /\ entries \subseteq Attached(entries, r)
        /\ \A a \in r.apps : Display(r) \in messages =>
             Entry(a, "message", Display(r), Nothing) \in Attached(entries, r)
    BY <1>5, AttachedAreEntries DEF Inv
  <2>2. Entries(entries)
    BY DEF Inv
  <2> QED BY <1>1, <1>5, <2>1, <2>2
<1>8. FollowStep
  <2>1. \A x \in DOMAIN rows' \ DOMAIN rows : x = d /\ rows'[x] = r
    BY <1>1 DEF Put
  <2> QED BY <1>7, <2>1 DEF FollowStep
<1>9. RowsOK' /\ Entries(entries)'
  BY <1>1, <1>6, <1>7, RowsNext, EntriesNext
<1>10. LostStep /\ PassiveStep
  BY <1>1, <1>6, <1>7, GrowIsPromised, NotSynced
<1> QED BY <1>1, <1>8, <1>9, <1>10 DEF Inv, QueueOK, BookOK, Promises
(* A contact that is put in the place of one that has no more than it.      *)
LEMMA PutMore ==
  ASSUME Inv, NEW c \in DOMAIN rows, NEW r \in Contact, r.apps \subseteq Live,
         rows[c].apps \subseteq r.apps, rows[c].who \subseteq r.who,
         rows' = Put(rows, c, r), UNCHANGED <<status, entries>>
  PROVE  RowsOK' /\ LostStep /\ FollowStep
<1>1. /\ c \in Nat \ {0} /\ Contacts(rows) /\ \A d \in DOMAIN rows : d <= MaxId
  BY PeopleAssumption DEF Inv, RowsOK, Contacts
<1>2. Contacts(rows')
  BY <1>1, PutContact
<1>3. DOMAIN rows' = DOMAIN rows /\ \A d \in DOMAIN rows : rows'[d] = IF d = c THEN r ELSE rows[d]
  BY DEF Put
<1>4. RowsOK'
  BY <1>1, <1>2, <1>3, RowsNext
<1>5. LostStep
  BY <1>3, GrowthKeeps
<1> QED BY <1>3, <1>4, <1>5, NoNewcomer

(* The fields of a contact, and a link to it.                               *)
LEMMA PatchStep ==
  ASSUME Inv, NEW c \in DOMAIN rows, NEW f \in Firms, NEW e \in Emails, PatchContact(c, f, e)
  PROVE  Inv' /\ Promises
<1> DEFINE r == [rows[c] EXCEPT !.firma = f, !.email = e]
<1>1. rows' = [rows EXCEPT ![c] = r]
  BY DEF PatchContact
<1>2. rows[c] \in Contact /\ rows[c].apps \subseteq Live
  BY DEF Inv, RowsOK, Contacts
<1>3. r \in Contact /\ r.apps = rows[c].apps /\ r.who = rows[c].who
  BY <1>2 DEF Contact
<1> HIDE DEF r
<1>4. rows' = Put(rows, c, r)
  BY <1>1 DEF Put
<1>5. /\ last' = "edit" /\ UNCHANGED <<status, messages, proposals, book, cancel, entries>>
  BY DEF PatchContact, Editing
<1>6. RowsOK' /\ LostStep /\ FollowStep
  BY <1>2, <1>3, <1>4, <1>5, PutMore
<1>7. Entries(entries)'
  BY <1>5, EntriesNext DEF Inv
<1> QED BY <1>5, <1>6, <1>7, NotSynced DEF Inv, QueueOK, BookOK, Promises

(* A link to a contact.                                                     *)
LEMMA LinkStep ==
  ASSUME Inv, NEW c \in DOMAIN rows, NEW a \in Apps, LinkContact(c, a)
  PROVE  Inv' /\ Promises
<1> DEFINE r == [rows[c] EXCEPT !.apps = rows[c].apps \cup {a}]
<1>1. rows' = [rows EXCEPT ![c] = r] /\ a \in Live
  BY DEF LinkContact
<1>2. rows[c] \in Contact /\ rows[c].apps \subseteq Live
  BY DEF Inv, RowsOK, Contacts
<1>3. r \in Contact /\ r.apps = rows[c].apps \cup {a} /\ r.who = rows[c].who
  BY <1>2, LinkedMore DEF Contact
<1> HIDE DEF r
<1>4. rows' = Put(rows, c, r)
  BY <1>1 DEF Put
<1>5. /\ last' = "edit" /\ UNCHANGED <<status, messages, proposals, book, cancel, entries>>
  BY DEF LinkContact, Editing
<1>6. RowsOK' /\ LostStep /\ FollowStep
  BY <1>1, <1>2, <1>3, <1>4, <1>5, PutMore
<1>7. Entries(entries)'
  BY <1>5, EntriesNext DEF Inv
<1> QED BY <1>5, <1>6, <1>7, NotSynced DEF Inv, QueueOK, BookOK, Promises

(* Fewer contacts, with fewer links.                                        *)
LEMMA FewerContacts ==
  ASSUME Inv, DOMAIN rows' \subseteq DOMAIN rows,
         \A d \in DOMAIN rows' : rows'[d] \in Contact /\ rows'[d].apps \subseteq Live'
  PROVE  RowsOK'
<1>1. DOMAIN rows' \subseteq Nat \ {0} /\ DOMAIN rows' \subseteq 1..MaxId
  BY DEF Inv, RowsOK, Contacts
<1>2. IsFiniteSet(DOMAIN rows')
  BY FS_Subset DEF Inv, RowsOK, Contacts
<1> QED BY <1>1, <1>2 DEF RowsOK, Contacts

(* A link less.                                                             *)
LEMMA UnlinkedIsContact ==
  ASSUME Inv, NEW c \in DOMAIN rows, NEW a
  PROVE  /\ Unlinked(c, a) \in Contact /\ Unlinked(c, a).apps = rows[c].apps \ {a}
         /\ Unlinked(c, a).apps \subseteq Live
<1>1. rows[c] \in Contact /\ rows[c].apps \subseteq Live
  BY DEF Inv, RowsOK, Contacts
<1>2. rows[c].apps \ {a} \subseteq Apps
  BY <1>1 DEF Contact
<1> QED BY <1>1, <1>2 DEF Unlinked, Contact

(* Removals somebody asks for, which leave the applications alone.          *)
LEMMA RemovalSteps ==
  ASSUME Inv, NEW c \in DOMAIN rows,
         \/ \E a \in Apps : UnlinkApplication(c, a) \/ RemoveContact(c, a)
         \/ DeleteContact(c)
  PROVE  Inv' /\ Promises
<1>1. /\ last' = "removal" /\ UNCHANGED <<status, messages, proposals, book, cancel>>
      /\ entries' \subseteq entries
  BY DEF UnlinkApplication, RemoveContact, DeleteContact, Removing
<1>2. /\ DOMAIN rows' \subseteq DOMAIN rows
      /\ \A d \in DOMAIN rows' : rows'[d] \in Contact /\ rows'[d].apps \subseteq Live'
  <2>1. \A d \in DOMAIN rows : rows[d] \in Contact /\ rows[d].apps \subseteq Live'
    BY <1>1, SameLive DEF Inv, RowsOK, Contacts
  <2>2. ASSUME NEW a \in Apps, UnlinkApplication(c, a) \/ RemoveContact(c, a)
        PROVE  /\ DOMAIN rows' \subseteq DOMAIN rows
               /\ \A d \in DOMAIN rows' : rows'[d] \in Contact /\ rows'[d].apps \subseteq Live'
    <3> DEFINE r == Unlinked(c, a)
    <3>1. rows' = Put(rows, c, r) \/ rows' = Without(rows, c)
      BY <2>2 DEF UnlinkApplication, RemoveContact
    <3>2. r \in Contact /\ r.apps \subseteq Live'
      BY <1>1, SameLive, UnlinkedIsContact
    <3> HIDE DEF r
    <3> QED BY <2>1, <3>1, <3>2 DEF Put, Without
  <2>3. CASE DeleteContact(c)
    BY <2>1, <2>3 DEF DeleteContact, Without
  <2> QED BY <2>2, <2>3
<1>3. RowsOK'
  BY <1>2, FewerContacts
<1>4. Entries(entries)'
  <2>1. Entries(entries')
    BY <1>1 DEF Inv, Entries
  <2> QED BY <1>1, <2>1, EntriesNext
<1>5. Promises
  BY <1>1, <1>2, NoNewcomer, NotSynced DEF Promises, LostStep
<1> QED BY <1>1, <1>3, <1>4, <1>5 DEF Inv, QueueOK, BookOK

(* Two contacts made one.                                                   *)
LEMMA MadeOne ==
  ASSUME Inv, NEW w \in DOMAIN rows, NEW l \in DOMAIN rows, w # l, NEW r \in Contact,
         r.apps = United(w, l), r.who = rows[w].who \cup rows[l].who,
         rows' = Without(Put(rows, w, r), l), UNCHANGED <<status, entries>>
  PROVE  RowsOK' /\ LostStep /\ FollowStep
<1>1. /\ DOMAIN rows' = DOMAIN rows \ {l}
      /\ \A d \in DOMAIN rows' : rows'[d] = IF d = w THEN r ELSE rows[d]
  BY DEF Put, Without
<1>2. \A d \in DOMAIN rows : rows[d] \in Contact /\ rows[d].apps \subseteq Live
  BY DEF Inv, RowsOK, Contacts
<1>3. r.apps \subseteq Live
  BY <1>2 DEF United
<1>4. RowsOK'
  <2>1. \A d \in DOMAIN rows' : rows'[d] \in Contact /\ rows'[d].apps \subseteq Live'
    BY <1>1, <1>2, <1>3, SameLive
  <2> QED BY <1>1, <2>1, FewerContacts
<1>5. ASSUME NEW a \in Live PROVE Kept(a, a)
  <2>1. Correspondents(a) \subseteq Correspondents(a)'
    <3> SUFFICES ASSUME NEW p \in Correspondents(a) PROVE p \in Correspondents(a)'
      OBVIOUS
    <3>1. PICK c \in DOMAIN rows : a \in rows[c].apps /\ p \in rows[c].who
      BY DEF Correspondents
    <3>2. \E d \in DOMAIN rows' : a \in rows'[d].apps /\ p \in rows'[d].who
      <4>1. CASE c \in {w, l}
        <5>1. w \in DOMAIN rows' /\ rows'[w] = r
          BY <1>1
        <5> QED BY <3>1, <4>1, <5>1 DEF United
      <4>2. CASE c \notin {w, l}
        BY <1>1, <3>1, <4>2
      <4> QED BY <4>1, <4>2
    <3> QED BY <3>2 DEF Correspondents
  <2>2. EntriesOf(a) \subseteq EntriesOf(a)'
    BY DEF EntriesOf
  <2> QED BY <2>1, <2>2 DEF Kept
<1>6. LostStep
  BY <1>5, SameLive DEF LostStep
<1> QED BY <1>1, <1>4, <1>6, NoNewcomer

(* merge_contacts *)
LEMMA MergeStep ==
  ASSUME Inv, NEW w \in DOMAIN rows, NEW l \in DOMAIN rows, NEW e \in Emails \cup {Nothing},
         MergeContacts(w, l, e)
  PROVE  Inv' /\ Promises
<1> DEFINE r == [rows[w] EXCEPT !.email = e, !.apps = United(w, l),
                                !.phones = rows[w].phones \cup rows[l].phones,
                                !.who = rows[w].who \cup rows[l].who]
<1>1. /\ w # l /\ rows' = Without(Put(rows, w, r), l)
      /\ last' = "merge" /\ UNCHANGED <<status, entries, messages, proposals, book, cancel>>
  BY DEF MergeContacts
<1>2. rows[w] \in Contact /\ rows[l] \in Contact
  BY DEF Inv, RowsOK, Contacts
<1>3. r \in Contact /\ r.apps = United(w, l) /\ r.who = rows[w].who \cup rows[l].who
  <2>1. /\ United(w, l) \subseteq Apps /\ rows[w].phones \cup rows[l].phones \subseteq Phones
        /\ rows[w].who \cup rows[l].who \subseteq People
    BY <1>2 DEF Contact, United
  <2> QED BY <1>2, <2>1 DEF Contact
<1> HIDE DEF r
<1>4. RowsOK' /\ LostStep /\ FollowStep
  BY <1>1, <1>3, MadeOne
<1>5. Entries(entries)'
  BY <1>1, EntriesNext DEF Inv
<1> QED BY <1>1, <1>4, <1>5, NotSynced DEF Inv, QueueOK, BookOK, Promises

-----------------------------------------------------------------------------
(* The clean-up and the review queue.                                       *)

(* A decision leaves proposals.                                             *)
LEMMA DecidedIsQueued ==
  ASSUME QueueOK, NEW q \in proposals, NEW s \in {"approved", "rejected"},
         proposals' = Decided(q, s), UNCHANGED messages
  PROVE  QueueOK'
<1> DEFINE d == [q EXCEPT !.state = s]
<1>1. q \in Proposal /\ q.keep # q.dup
  BY DEF QueueOK
<1>2. d \in Proposal /\ d.keep # d.dup
  BY <1>1 DEF Proposal
<1>3. proposals' = (proposals \ {q}) \cup {d}
  BY DEF Decided
<1> HIDE DEF d
<1> QED BY <1>2, <1>3 DEF QueueOK

(* approve_match and its opposite.                                          *)
LEMMA ApproveStep ==
  ASSUME Inv, NEW q \in proposals, ApproveDuplicate(q)
  PROVE  Inv' /\ Promises
<1> DEFINE w == q.keep
           l == q.dup
           r == [rows[w] EXCEPT !.apps = United(w, l), !.who = rows[w].who \cup rows[l].who]
<1>1. /\ w \in DOMAIN rows /\ l \in DOMAIN rows
      /\ rows' = Without(Put(rows, w, r), l) /\ proposals' = Decided(q, "approved")
      /\ last' = "merge" /\ UNCHANGED <<status, entries, messages, book, cancel>>
  BY DEF ApproveDuplicate
<1>2. rows[w] \in Contact /\ rows[l] \in Contact /\ w # l
  BY <1>1 DEF Inv, RowsOK, Contacts, QueueOK
<1>3. r \in Contact /\ r.apps = United(w, l) /\ r.who = rows[w].who \cup rows[l].who
  <2>1. /\ United(w, l) \subseteq Apps /\ rows[w].who \cup rows[l].who \subseteq People
    BY <1>2 DEF Contact, United
  <2> QED BY <1>2, <2>1 DEF Contact
<1> HIDE DEF w, l, r
<1>4. RowsOK' /\ LostStep /\ FollowStep
  BY <1>1, <1>2, <1>3, MadeOne
<1>5. Entries(entries)'
  BY <1>1, EntriesNext DEF Inv
<1>6. QueueOK'
  BY <1>1, DecidedIsQueued DEF Inv
<1> QED BY <1>1, <1>4, <1>5, <1>6, NotSynced DEF Inv, BookOK, Promises

(* A rejected pair changes the queue only.                                  *)
LEMMA RejectStep ==
  ASSUME Inv, NEW q \in proposals, RejectDuplicate(q)
  PROVE  Inv' /\ Promises
<1>1. /\ proposals' = Decided(q, "rejected") /\ last' = "edit"
      /\ UNCHANGED <<status, rows, entries, messages, book, cancel>>
  BY DEF RejectDuplicate
<1>2. QueueOK'
  BY <1>1, DecidedIsQueued DEF Inv
<1> QED BY <1>1, <1>2, TablesStay DEF Inv, BookOK

(* The best of the contacts that are alike is a contact.                    *)
LEMMA KeeperIsContact ==
  ASSUME Inv, NEW c \in DOMAIN rows
  PROVE  Keeper(c) \in DOMAIN rows
<1> DEFINE A == Alike(c)
           Scores == {Score(d) : d \in A}
           Best == {d \in A : \A x \in A : Score(x) <= Score(d)}
<1>1. A \subseteq DOMAIN rows /\ c \in A /\ DOMAIN rows \subseteq Nat
  BY DEF Alike, Inv, RowsOK, Contacts
<1>2. \A d \in DOMAIN rows : Score(d) \in Nat
  <2> SUFFICES ASSUME NEW d \in DOMAIN rows PROVE Score(d) \in Nat
    OBVIOUS
  <2>1. rows[d].apps \subseteq Apps
    BY DEF Inv, RowsOK, Contacts, Contact
  <2>2. IsFiniteSet(rows[d].apps)
    BY <2>1, PeopleAssumption, FS_Subset
  <2>3. Cardinality(rows[d].apps) \in Nat
    BY <2>2, FS_CardinalityType
  <2> QED BY <2>3 DEF Score
<1>3. IsFiniteSet(A)
  BY <1>1, FS_Subset DEF Inv, RowsOK, Contacts
<1> HIDE DEF A
<1>4. IsFiniteSet(Scores)
  <2> DEFINE f == [d \in A |-> Score(d)]
  <2>1. f \in Surjection(A, Scores)
    BY DEF Surjection
  <2> HIDE DEF f, Scores
  <2> QED BY <1>3, <2>1, FS_Surjection
<1>5. Scores \subseteq Nat /\ Scores # {}
  BY <1>1, <1>2
<1>6. PICK m \in Scores : \A y \in Scores : m >= y
  <2> HIDE DEF Scores
  <2> QED BY <1>4, <1>5, MaxIsGreatest
<1>7. PICK d \in A : m = Score(d)
  OBVIOUS
<1>8. d \in Best
  <2>1. \A x \in A : Score(x) \in Scores /\ Score(x) \in Nat
    BY <1>1, <1>2
  <2>2. m \in Nat
    BY <1>5
  <2> HIDE DEF Scores
  <2> QED BY <1>6, <1>7, <2>1, <2>2
<1>9. Best \subseteq Nat /\ Best # {} /\ Best \subseteq DOMAIN rows
  BY <1>1, <1>8
<1>10. Keeper(c) = Min(Best)
  BY DEF Keeper, A
<1> HIDE DEF Best
<1> QED BY <1>9, <1>10, MinIsLeast

(* The clean-up proposes pairs of two contacts.                             *)
LEMMA CleanupStep ==
  ASSUME Inv, Cleanup
  PROVE  Inv' /\ Promises
<1>1. /\ last' = "sync" /\ UNCHANGED <<status, rows, entries, messages, book, cancel>>
      /\ \A q \in proposals' \ proposals :
           \E p \in Duplicates : q = [keep |-> p[1], dup |-> p[2], state |-> "pending"]
  BY DEF Cleanup
<1>2. \A p \in Duplicates : p[1] \in 1..MaxId /\ p[2] \in 1..MaxId /\ p[1] # p[2]
  <2> SUFFICES ASSUME NEW p \in Duplicates
               PROVE  p[1] \in 1..MaxId /\ p[2] \in 1..MaxId /\ p[1] # p[2]
    OBVIOUS
  <2>1. PICK c \in DOMAIN rows : Keeper(c) # c /\ p = <<Keeper(c), c>>
    BY DEF Duplicates
  <2>2. Keeper(c) \in DOMAIN rows
    BY KeeperIsContact
  <2> QED BY <2>1, <2>2 DEF Inv, RowsOK
<1>3. \A q \in proposals' \ proposals : q \in Proposal /\ q.keep # q.dup
  BY <1>1, <1>2 DEF Proposal
<1>4. QueueOK'
  BY <1>1, <1>3 DEF Inv, QueueOK
<1> QED BY <1>1, <1>4, TablesStay DEF Inv, BookOK
-----------------------------------------------------------------------------
(* Applications.                                                            *)

(* merge_applications and the clean-up's own: what the application had, the *)
(* one that is kept has.                                                    *)
LEMMA AbsorbStep ==
  ASSUME Inv, NEW w \in Live, NEW l \in Live, w # l, Absorb(w, l)
  PROVE  Inv' /\ Promises
<1> DEFINE links(c) == (rows[c].apps \ {l}) \cup (IF l \in rows[c].apps THEN {w} ELSE {})
<1>1. /\ status' = [status EXCEPT ![l] = "gone"] /\ entries' = Moved(w, l)
      /\ DOMAIN rows' = DOMAIN rows
      /\ \A c \in DOMAIN rows : rows'[c] = [rows[c] EXCEPT !.apps = links(c)]
      /\ last' = "merge" /\ UNCHANGED <<messages, proposals, book, cancel>>
  BY DEF Absorb
<1>2. /\ w \in Apps /\ l \in Apps /\ status' \in [Apps -> {"active", "rejected", "gone"}]
      /\ Live' = Live \ {l}
  BY <1>1 DEF Inv, Live
<1>3. ASSUME NEW c \in DOMAIN rows
      PROVE  /\ rows'[c] \in Contact /\ rows'[c].apps \subseteq Live'
             /\ rows'[c].who = rows[c].who
             /\ \A a \in rows[c].apps : (IF a = l THEN w ELSE a) \in rows'[c].apps
  <2>1. rows[c] \in Contact /\ rows[c].apps \subseteq Live
    BY DEF Inv, RowsOK, Contacts
  <2>2. links(c) \subseteq Apps /\ links(c) \subseteq Live'
    BY <1>2, <2>1 DEF Contact
  <2>3. \A a \in rows[c].apps : (IF a = l THEN w ELSE a) \in links(c)
    OBVIOUS
  <2> HIDE DEF links
  <2>4. rows'[c] \in Contact /\ rows'[c].apps = links(c) /\ rows'[c].who = rows[c].who
    BY <1>1, <2>1, <2>2 DEF Contact
  <2> QED BY <2>2, <2>3, <2>4
<1>4. RowsOK'
  BY <1>1, <1>3, FewerContacts
<1>5. \A x \in entries :
        LET y == Entry(IF x.app = l THEN w ELSE x.app, x.kind, x.words, x.email)
        IN  y \in entries' /\ y = (IF x.app = l THEN [x EXCEPT !.app = w] ELSE x)
  <2> SUFFICES ASSUME NEW x \in entries
               PROVE  LET y == Entry(IF x.app = l THEN w ELSE x.app, x.kind, x.words, x.email)
                      IN  y \in entries' /\ y = (IF x.app = l THEN [x EXCEPT !.app = w] ELSE x)
    OBVIOUS
  <2>1. x = Entry(x.app, x.kind, x.words, x.email)
    BY DEF Inv, Entries
  <2>2. (IF x.app = l THEN [x EXCEPT !.app = w] ELSE x)
          = Entry(IF x.app = l THEN w ELSE x.app, x.kind, x.words, x.email)
    BY <2>1 DEF Entry
  <2>3. (IF x.app = l THEN [x EXCEPT !.app = w] ELSE x) \in entries'
    BY <1>1 DEF Moved
  <2> QED BY <2>2, <2>3
<1>6. Entries(entries)'
  <2> SUFFICES ASSUME NEW y \in entries'
               PROVE  y = Entry(y.app, y.kind, y.words, y.email) /\ y.app \in Live'
    BY DEF Entries, Entry
  <2>1. PICK x \in entries : y = (IF x.app = l THEN [x EXCEPT !.app = w] ELSE x)
    BY <1>1 DEF Moved
  <2>2. y = Entry(IF x.app = l THEN w ELSE x.app, x.kind, x.words, x.email)
    BY <1>5, <2>1
  <2>3. x.app \in Live
    BY DEF Inv, Entries
  <2> QED BY <1>2, <2>2, <2>3 DEF Entry
<1>7. ASSUME NEW a \in Live PROVE Kept(a, IF a = l THEN w ELSE a)
  <2> DEFINE b == IF a = l THEN w ELSE a
  <2>1. Correspondents(a) \subseteq Correspondents(b)'
    <3> SUFFICES ASSUME NEW p \in Correspondents(a) PROVE p \in Correspondents(b)'
      OBVIOUS
    <3>1. PICK c \in DOMAIN rows : a \in rows[c].apps /\ p \in rows[c].who
      BY DEF Correspondents
    <3>2. c \in DOMAIN rows' /\ b \in rows'[c].apps /\ p \in rows'[c].who
      BY <1>1, <1>3, <3>1
    <3> QED BY <3>2 DEF Correspondents
  <2>2. EntriesOf(a) \subseteq EntriesOf(b)'
    <3> SUFFICES ASSUME NEW e \in EntriesOf(a) PROVE e \in EntriesOf(b)'
      OBVIOUS
    <3>1. PICK x \in entries : x.app = a /\ e = <<x.kind, x.words, x.email>>
      BY DEF EntriesOf
    <3> DEFINE y == Entry(b, x.kind, x.words, x.email)
    <3>2. y \in entries'
      BY <1>5, <3>1
    <3>3. y.app = b /\ e = <<y.kind, y.words, y.email>>
      BY <3>1 DEF Entry
    <3> HIDE DEF y
    <3> QED BY <3>2, <3>3 DEF EntriesOf
  <2> QED BY <2>1, <2>2 DEF Kept
<1>8. LostStep
  BY <1>2, <1>7 DEF LostStep
<1> QED BY <1>1, <1>2, <1>4, <1>6, <1>8, NoNewcomer, NotSynced DEF Inv, QueueOK, BookOK, Promises

(* A rejection.                                                             *)
LEMMA RejectAppStep ==
  ASSUME Inv, NEW a \in Apps, RejectApplication(a)
  PROVE  Inv' /\ Promises
<1>1. /\ status[a] = "active" /\ status' = [status EXCEPT ![a] = "rejected"] /\ last' = "edit"
      /\ UNCHANGED <<rows, entries, messages, proposals, book, cancel>>
  BY DEF RejectApplication
<1>2. status' \in [Apps -> {"active", "rejected", "gone"}] /\ Live' = Live
  BY <1>1 DEF Inv, Live
<1>3. RowsOK' /\ Entries(entries)'
  BY <1>1, <1>2 DEF Inv, RowsOK, Contacts, Entries, Entry
<1>4. \A b \in Live : Kept(b, b)
  BY <1>1 DEF Kept, Correspondents, EntriesOf
<1>5. LostStep
  BY <1>2, <1>4 DEF LostStep
<1> QED BY <1>1, <1>2, <1>3, <1>5, NoNewcomer, NotSynced DEF Inv, QueueOK, BookOK, Promises

(* A deletion.                                                              *)
LEMMA DeleteAppStep ==
  ASSUME Inv, NEW a \in Apps, DeleteApplication(a)
  PROVE  Inv' /\ Promises
<1>1. /\ status' = [status EXCEPT ![a] = "gone"] /\ entries' = {x \in entries : x.app # a}
      /\ DOMAIN rows' = DOMAIN rows /\ \A c \in DOMAIN rows : rows'[c] = Unlinked(c, a)
      /\ last' = "removal" /\ UNCHANGED <<messages, proposals, book, cancel>>
  BY DEF DeleteApplication, Removing
<1>2. status' \in [Apps -> {"active", "rejected", "gone"}] /\ Live' = Live \ {a}
  BY <1>1 DEF Inv, Live
<1>3. RowsOK'
  <2>1. \A c \in DOMAIN rows : rows'[c] \in Contact /\ rows'[c].apps \subseteq Live'
    BY <1>1, <1>2, UnlinkedIsContact
  <2> QED BY <1>1, <2>1, FewerContacts
<1>4. Entries(entries)'
  BY <1>1, <1>2 DEF Inv, Entries, Entry
<1>5. LostStep
  BY <1>1 DEF LostStep
<1> QED BY <1>1, <1>2, <1>3, <1>4, <1>5, NoNewcomer, NotSynced DEF Inv, QueueOK, BookOK, Promises

-----------------------------------------------------------------------------
(* Every step.                                                              *)

(* What a sync does.                                                        *)
LEMMA SyncSteps ==
  ASSUME Inv, Sync
  PROVE  Inv' /\ Promises
BY MailStep, WaitingSteps, ConnectionStep, PickedStep, MessagesStep, CallStep DEF Sync

(* What somebody does.                                                      *)
LEMMA EditSteps ==
  ASSUME Inv, Edit
  PROVE  Inv' /\ Promises
<1>1. ASSUME NEW w \in Apps, NEW l \in Apps, MergeApplications(w, l)
      PROVE  Inv' /\ Promises
  BY <1>1, AbsorbStep DEF MergeApplications
<1>2. ASSUME NEW g \in Akin, CleanupApplications(g)
      PROVE  Inv' /\ Promises
  <2>1. PICK w \in g \cap Live, l \in g \cap Live : w # l /\ Absorb(w, l)
    BY <1>2 DEF CleanupApplications
  <2> QED BY <2>1, AbsorbStep
<1>3. ASSUME NEW c \in DOMAIN rows, NEW a \in Apps,
             LinkContact(c, a) \/ UnlinkApplication(c, a) \/ RemoveContact(c, a)
      PROVE  Inv' /\ Promises
  BY <1>3, LinkStep, RemovalSteps
<1>4. ASSUME NEW c \in DOMAIN rows, DeleteContact(c)
      PROVE  Inv' /\ Promises
  BY <1>4, RemovalSteps
<1>5. ASSUME NEW k \in Card1, NEW apps \in Picks, CreateContact(k, apps)
      PROVE  Inv' /\ Promises
  BY <1>5, CreatedStep
<1>6. ASSUME NEW c \in DOMAIN rows, NEW f \in Firms, NEW e \in Emails, PatchContact(c, f, e)
      PROVE  Inv' /\ Promises
  BY <1>6, PatchStep
<1>7. ASSUME NEW w \in DOMAIN rows, NEW l \in DOMAIN rows, NEW e \in Emails \cup {Nothing},
             MergeContacts(w, l, e)
      PROVE  Inv' /\ Promises
  BY <1>7, MergeStep
<1>8. ASSUME NEW q \in proposals, ApproveDuplicate(q) \/ RejectDuplicate(q)
      PROVE  Inv' /\ Promises
  BY <1>8, ApproveStep, RejectStep
<1>9. ASSUME NEW a \in Apps, RejectApplication(a) \/ DeleteApplication(a)
      PROVE  Inv' /\ Promises
  BY <1>9, RejectAppStep, DeleteAppStep
<1> QED BY <1>1, <1>2, <1>3, <1>4, <1>5, <1>6, <1>7, <1>8, <1>9 DEF Edit

Counted == calls \in 0..MaxCalls

(* The first state.                                                         *)
LEMMA Starts ==
  ASSUME Init
  PROVE  Inv /\ Counted
<1>1. DOMAIN rows = {} /\ status \in [Apps -> {"active", "rejected", "gone"}]
  BY DEF Init
<1>2. IsFiniteSet(DOMAIN rows)
  BY <1>1, FS_EmptySet
<1>3. Counted
  BY PeopleAssumption DEF Init, Counted
<1> QED BY <1>1, <1>2, <1>3 DEF Init, Inv, RowsOK, Contacts, Entries, QueueOK, BookOK

(* Every step from a state of the invariant.                                *)
LEMMA EveryStep ==
  ASSUME Inv, Counted, [Next]_vars
  PROVE  Inv' /\ Counted' /\ (Promises \/ UNCHANGED tables)
<1>1. CASE (Sync \/ Edit) /\ Call
  <2>1. Counted'
    BY <1>1, PeopleAssumption DEF Counted, Call
  <2> QED BY <1>1, <2>1, SyncSteps, EditSteps
<1>2. CASE (FinishContactsSync \/ ContactsSyncCut \/ FinishScopedSync \/ BookFails \/ Cleanup) /\ UNCHANGED calls
  <2>1. Counted'
    BY <1>2 DEF Counted
  <2> QED BY <1>2, <2>1, ContactsSyncStep, CutStep, ScopedStep, WaitingSteps, CleanupStep
<1>3. CASE UNCHANGED vars
  <2>1. UNCHANGED <<status, rows, entries>> /\ UNCHANGED tables
    BY <1>3 DEF vars, tables
  <2>2. RowsOK' /\ Entries(entries)'
    BY <2>1, TablesStay
  <2> QED BY <1>3, <2>1, <2>2 DEF vars, tables, Inv, QueueOK, BookOK, Counted
<1> QED BY <1>1, <1>2, <1>3 DEF Next

(* Contacts are linked to applications that are there, entries belong to    *)
(* one, and ids, proposals and the waiting sync are what they should be:    *)
(* for any number of applications, cards, mails and calls.                  *)
THEOREM PeopleAreTyped == Spec => []TypeOK
<1>1. Init => Inv /\ Counted
  BY Starts
<1>2. Inv /\ Counted /\ [Next]_vars => (Inv /\ Counted)'
  BY EveryStep
<1>3. Inv /\ Counted => TypeOK
  BY InvIsTyped DEF Counted
<1> QED BY <1>1, <1>2, <1>3, PTL DEF Spec

(* Unless somebody asks for a removal, every application's people and       *)
(* timeline entries are still there after a step, with it or with the       *)
(* application it was merged into.                                          *)
THEOREM NothingIsLost == Spec => NothingLost
<1>1. Init => Inv /\ Counted
  BY Starts
<1>2. Inv /\ Counted /\ [Next]_vars => (Inv /\ Counted)' /\ [LostStep]_tables
  BY EveryStep DEF Promises
<1>3. [LostStep]_tables <=>
        [last' # "removal" =>
           \A a \in Live : \E b \in Live' : (a \in Live' => a = b) /\ Kept(a, b)]_tables
  BY DEF LostStep
<1> QED BY <1>1, <1>2, <1>3, PTL DEF Spec, NothingLost

(* A conversation is attached to a contact the moment it appears, whichever *)
(* way it came to be.                                                       *)
THEOREM MessagesFollowContacts == Spec => MessagesFollow
<1>1. Init => Inv /\ Counted
  BY Starts
<1>2. Inv /\ Counted /\ [Next]_vars => (Inv /\ Counted)' /\ [FollowStep]_rows
  BY EveryStep DEF Promises, tables
<1>3. [FollowStep]_rows <=>
        [\A c \in DOMAIN rows' \ DOMAIN rows :
           \A a \in rows'[c].apps :
             NamedAtOnce(c) /\ Display(rows'[c]) \in messages =>
               Entry(a, "message", Display(rows'[c]), Nothing) \in entries']_rows
  BY DEF FollowStep
<1> QED BY <1>1, <1>2, <1>3, PTL DEF Spec, MessagesFollow

(* No sync takes a link, a number or a filled field from a contact that was *)
(* left alone while the address books were being asked, nor a word of its   *)
(* name, unless it had no first name and a card of its address has one.     *)
THEOREM PassiveSyncsKeep == Spec => PassiveKeeps
<1>1. Init => Inv /\ Counted
  BY Starts
<1>2. Inv /\ Counted /\ [Next]_vars => (Inv /\ Counted)' /\ [PassiveStep]_rows
  BY EveryStep DEF Promises, tables
<1>3. [PassiveStep]_rows <=>
        [last' = "sync" =>
           \A c \in DOMAIN rows : /\ c \in DOMAIN rows'
                                  /\ Untouched(c) => Keeps(rows[c], rows'[c])]_rows
  BY DEF PassiveStep
<1> QED BY <1>1, <1>2, <1>3, PTL DEF Spec, PassiveKeeps

-----------------------------------------------------------------------------
(* The review queue: what was rejected is not proposed again.               *)

(* A row of the review queue has these three fields; what they hold does    *)
(* not matter here.                                                         *)
Shaped ==
    \A q \in proposals : q = [keep |-> q.keep, dup |-> q.dup, state |-> q.state]

(* The steps that touch the queue: the clean-up and the two decisions.      *)
QueueStep ==
    \/ Cleanup
    \/ \E q \in proposals : ApproveDuplicate(q) \/ RejectDuplicate(q)

LEMMA OnlyTheQueue ==
  ASSUME [Next]_vars
  PROVE  QueueStep \/ UNCHANGED proposals
<1>1. CASE Sync
  BY <1>1 DEF Sync, MailFiled, StartContactsSync, CancelContactsSync, ImportConnection,
     StartScopedSync, ImportPicked, ImportMessages, CallFiled, tables
<1>2. CASE Edit
  <2>1. ASSUME NEW w \in Apps, NEW l \in Apps, MergeApplications(w, l)
        PROVE  UNCHANGED proposals
    BY <2>1 DEF MergeApplications, Absorb
  <2>2. ASSUME NEW g \in Akin, CleanupApplications(g)
        PROVE  UNCHANGED proposals
    BY <2>2 DEF CleanupApplications, Absorb
  <2>3. ASSUME NEW a \in Apps, RejectApplication(a) \/ DeleteApplication(a)
        PROVE  UNCHANGED proposals
    BY <2>3 DEF RejectApplication, DeleteApplication, Removing
  <2>4. CASE \E w, l \in DOMAIN rows, e \in Emails \cup {Nothing} : MergeContacts(w, l, e)
    BY <2>4 DEF MergeContacts
  <2>5. CASE \E c \in DOMAIN rows, a \in Apps :
               LinkContact(c, a) \/ UnlinkApplication(c, a) \/ RemoveContact(c, a)
    BY <2>5 DEF LinkContact, UnlinkApplication, RemoveContact, Editing, Removing
  <2>6. CASE \/ \E k \in Card1, apps \in Picks : CreateContact(k, apps)
             \/ \E c \in DOMAIN rows, f \in Firms, e \in Emails : PatchContact(c, f, e)
             \/ \E c \in DOMAIN rows : DeleteContact(c)
    BY <2>6 DEF CreateContact, PatchContact, DeleteContact, Editing, Removing
  <2>7. CASE \E q \in proposals : ApproveDuplicate(q) \/ RejectDuplicate(q)
    BY <2>7 DEF QueueStep
  <2> QED BY <1>2, <2>1, <2>2, <2>3, <2>4, <2>5, <2>6, <2>7 DEF Edit
<1>3. CASE FinishContactsSync \/ ContactsSyncCut \/ FinishScopedSync \/ BookFails
  BY <1>3 DEF FinishContactsSync, ContactsSyncCut, FinishScopedSync, BookFails, tables
<1>4. CASE Cleanup
  BY <1>4 DEF QueueStep
<1>5. CASE UNCHANGED vars
  BY <1>5 DEF vars, tables
<1> QED BY <1>1, <1>2, <1>3, <1>4, <1>5 DEF Next

(* What a decision adds to the queue is the same pair, decided.             *)
LEMMA DecisionsDecide ==
  ASSUME Shaped, NEW q \in proposals, NEW s \in {"approved", "rejected"},
         proposals' = Decided(q, s)
  PROVE  /\ Shaped'
         /\ \A r \in proposals' \ proposals : r.state = s
<1>1. [q EXCEPT !.state = s] = [keep |-> q.keep, dup |-> q.dup, state |-> s]
  BY DEF Shaped
<1> QED BY <1>1 DEF Decided, Shaped

(* What the clean-up adds to the queue is no rejected pair, in either order.*)
LEMMA CleanupAsksOnce ==
  ASSUME Shaped, Cleanup
  PROVE  /\ Shaped'
         /\ \A r \in proposals' \ proposals :
              ~\E x \in proposals : x.state = "rejected" /\ {x.keep, x.dup} = {r.keep, r.dup}
<1>1. \A r \in proposals' \ proposals :
        \E p \in Duplicates : r = [keep |-> p[1], dup |-> p[2], state |-> "pending"]
  BY DEF Cleanup
<1>2. Shaped'
  BY <1>1 DEF Shaped
<1>3. ASSUME NEW r \in proposals' \ proposals, NEW x \in proposals,
             x.state = "rejected", {x.keep, x.dup} = {r.keep, r.dup}
      PROVE  FALSE
  <2>1. PICK p \in Duplicates : r = [keep |-> p[1], dup |-> p[2], state |-> "pending"]
    BY <1>1, <1>3
  <2>2. p \notin UNION RejectedPairs /\ p = <<p[1], p[2]>>
    BY <2>1 DEF Duplicates
  <2>3. p \in {<<x.keep, x.dup>>, <<x.dup, x.keep>>}
    BY <1>3, <2>1, <2>2
  <2>4. {<<x.keep, x.dup>>, <<x.dup, x.keep>>} \in RejectedPairs
    BY <1>3 DEF RejectedPairs
  <2> QED BY <2>2, <2>3, <2>4
<1> QED BY <1>2, <1>3

(* For any number of contacts, applications and decisions: a pair that was  *)
(* rejected is not proposed again, whichever of the two would be kept.      *)
THEOREM RejectedPairsStayRejected == Spec => RejectedStayRejected
<1> DEFINE Again ==
      \A q \in proposals' \ proposals :
        q.state = "pending" =>
          ~\E x \in proposals : x.state = "rejected" /\ {x.keep, x.dup} = {q.keep, q.dup}
<1>1. Init => Shaped
  BY DEF Init, Shaped
<1>2. ASSUME Shaped, [Next]_vars PROVE Shaped' /\ (Again \/ UNCHANGED proposals)
  <2>1. CASE Cleanup
    BY <1>2, <2>1, CleanupAsksOnce
  <2>2. ASSUME NEW q \in proposals, ApproveDuplicate(q)
        PROVE  Shaped' /\ Again
    <3>1. proposals' = Decided(q, "approved")
      BY <2>2 DEF ApproveDuplicate
    <3> QED BY <1>2, <3>1, DecisionsDecide
  <2>3. ASSUME NEW q \in proposals, RejectDuplicate(q)
        PROVE  Shaped' /\ Again
    <3>1. proposals' = Decided(q, "rejected")
      BY <2>3 DEF RejectDuplicate
    <3> QED BY <1>2, <3>1, DecisionsDecide
  <2>4. CASE UNCHANGED proposals
    BY <1>2, <2>4 DEF Shaped
  <2>5. QueueStep \/ UNCHANGED proposals
    BY <1>2, OnlyTheQueue
  <2> QED BY <2>1, <2>2, <2>3, <2>4, <2>5 DEF QueueStep
<1>3. Shaped /\ [Next]_vars => Shaped' /\ [Again]_proposals
  BY <1>2
<1> QED BY <1>1, <1>3, PTL DEF Spec, RejectedStayRejected
=============================================================================
