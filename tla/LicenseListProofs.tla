-------------------------- MODULE LicenseListProofs --------------------------
(***************************************************************************)
(* Proofs about the list of licenses: the page shown is not beyond the      *)
(* list, and batches that are read while rows come or go miss no license,   *)
(* or repeat none, as long as only the other of the two happens.            *)
(***************************************************************************)
EXTENDS LicenseList, SequenceTheorems, FiniteSetTheorems, TLAPS

(* How many licenses come before k in the order of the query.               *)
Newer(k) == {j \in Wanted : rows[j].at > rows[k].at}
Rank(k) == Cardinality(Newer(k))

Listed(k) == \E x \in load.read : x.key = k

(* The clock of created_at is ahead of the rows.                            *)
Times == \A k \in Stored : rows[k].at <= inserts

(* Nothing is read before the first batch.                                  *)
Beginning ==
  /\ load.pc \in {"idle", "apps"} => load.from = 0
  /\ load.pc # "loaded" /\ load.from = 0 => load.read = {} /\ load.due = {}

(* Between two batches.  Insertions move licenses down the order, deletions *)
(* up: with no deletion an unread license is still ahead of the next batch, *)
(* with no insertion a license that was read is still behind it.            *)
Ahead == \A k \in load.due : k \in Wanted /\ (Listed(k) \/ Rank(k) >= load.from)
Behind == \A k \in load.due : k \in Wanted /\ Listed(k) => Rank(k) < load.from

BetweenBatches ==
  load.pc = "batch" =>
    /\ ~load.deleted => Ahead
    /\ ~load.inserted => Behind
    /\ ~load.deleted \/ ~load.inserted =>
         \A k \in load.due : k \in Stored => HasPlace(k)

Once == \A x, y \in load.read : x.key = y.key /\ x.key \in load.due => x = y

LoadInv ==
  /\ Times /\ IsFiniteSet(load.read)
  /\ Beginning /\ BetweenBatches
  /\ ~load.inserted => Once
  /\ NothingMissed

ListInv == TypeOK /\ LoadInv /\ PageNotEmpty

-----------------------------------------------------------------------------
(* The order of the query.                                                  *)
LEMMA WantedFinite ==
  ASSUME TypeOK
  PROVE  /\ Wanted \subseteq Stored /\ Stored \subseteq Keys
         /\ IsFiniteSet(Wanted) /\ Cardinality(Wanted) \in Nat
         /\ \A k : IsFiniteSet(Newer(k)) /\ Rank(k) \in Nat
<1>1. Wanted \subseteq Stored /\ Stored \subseteq Keys
  BY DEF Wanted, Stored
<1>2. IsFiniteSet(Keys)
  BY ListAssumption
<1>3. IsFiniteSet(Wanted)
  BY <1>1, <1>2, FS_Subset
<1>4. ASSUME NEW k PROVE IsFiniteSet(Newer(k))
  <2>1. Newer(k) \subseteq Wanted
    BY DEF Newer
  <2> QED
    BY <2>1, <1>3, FS_Subset
<1> QED
  BY <1>1, <1>3, <1>4, FS_CardinalityType DEF Rank

LEMMA TimesAreNumbers ==
  ASSUME TypeOK PROVE \A k \in Stored : rows[k].at \in Nat /\ rows[k].app \in Apps
BY ListAssumption DEF TypeOK, Load, Stored

(* A license with a place of its own is found at its rank, in every order   *)
(* the database may choose.                                                 *)
LEMMA PlaceInOrder ==
  ASSUME TypeOK, NEW s \in SetToSeqs(Wanted), NewestFirst(s),
         NEW k \in Wanted, HasPlace(k)
  PROVE  \E i \in 1 .. Cardinality(Wanted) : s[i] = k /\ Rank(k) = i - 1
<1> DEFINE n == Cardinality(Wanted)
<1>1. n \in Nat /\ IsFiniteSet(Wanted) /\ Wanted \subseteq Stored
  BY WantedFinite
<1>2. /\ s \in [1 .. n -> Wanted]
      /\ \A i, j \in 1 .. n : i # j => s[i] # s[j]
  BY DEF SetToSeqs
<1> HIDE DEF n
<1>3. s \in Injection(1 .. n, Wanted)
  BY <1>2 DEF Injection, IsInjective
<1>4. Cardinality(1 .. n) = n
  BY <1>1, FS_Interval
<1>5. s \in Surjection(1 .. n, Wanted)
  BY <1>1, <1>3, <1>4, FS_Injection DEF n
<1>6. PICK i \in 1 .. n : s[i] = k
  BY <1>5 DEF Surjection
<1>7. \A j \in 1 .. n : rows[s[j]].at \in Nat
  BY <1>1, <1>2, TimesAreNumbers
<1>8. \A j \in 1 .. n : rows[s[j]].at > rows[k].at <=> j < i
  <2> SUFFICES ASSUME NEW j \in 1 .. n
               PROVE  rows[s[j]].at > rows[k].at <=> j < i
    OBVIOUS
  <2>1. CASE j < i
    <3>1. rows[s[j]].at >= rows[s[i]].at
      BY <2>1, <1>2 DEF NewestFirst
    <3>2. s[j] # k /\ s[j] \in Stored
      BY <2>1, <1>1, <1>2, <1>6
    <3>3. rows[s[j]].at # rows[k].at
      BY <3>2 DEF HasPlace
    <3> QED
      BY <2>1, <3>1, <3>3, <1>6, <1>7
  <2>2. CASE i < j
    <3>1. rows[s[i]].at >= rows[s[j]].at
      BY <2>2, <1>2 DEF NewestFirst
    <3> QED
      BY <2>2, <3>1, <1>1, <1>6, <1>7
  <2>3. CASE i = j
    BY <2>3, <1>1, <1>6, <1>7
  <2> QED
    BY <2>1, <2>2, <2>3, <1>1
<1> DEFINE g == [j \in 1 .. (i - 1) |-> s[j]]
<1>9. g \in Bijection(1 .. (i - 1), Newer(k))
  <2>1. \A j \in 1 .. (i - 1) : j \in 1 .. n /\ j < i
    BY <1>1
  <2>2. g \in [1 .. (i - 1) -> Newer(k)]
    BY <2>1, <1>2, <1>8 DEF Newer
  <2>3. IsInjective(g)
    BY <2>1, <1>2 DEF IsInjective
  <2>4. ASSUME NEW x \in Newer(k) PROVE \E j \in 1 .. (i - 1) : g[j] = x
    <3>1. x \in Wanted /\ rows[x].at > rows[k].at
      BY DEF Newer
    <3>2. PICK j \in 1 .. n : s[j] = x
      BY <3>1, <1>5 DEF Surjection
    <3>3. j < i
      BY <3>1, <3>2, <1>8
    <3>4. j \in 1 .. (i - 1)
      BY <3>3, <1>1
    <3> QED
      BY <3>2, <3>4
  <2> QED
    BY <2>2, <2>3, <2>4 DEF Bijection, Injection, Surjection
<1>10. Rank(k) = i - 1
  <2>1. i - 1 \in Nat
    BY <1>1
  <2>2. ExistsBijection(1 .. (i - 1), Newer(k))
    BY <1>9 DEF ExistsBijection
  <2> QED
    BY <2>1, <2>2, FS_CountingElements DEF Rank
<1> QED
  BY <1>6, <1>10 DEF n

(* A range holds the licenses of those ranks, and one that is not full is   *)
(* the last.                                                                *)
LEMMA RangeIs ==
  ASSUME TypeOK, NEW from \in Nat, NEW batch \in Ranges(from)
  PROVE  /\ Len(batch) \in Nat
         /\ ToSet(batch) \subseteq Wanted
         /\ \A k \in Wanted : HasPlace(k) =>
              (k \in ToSet(batch) <=> from <= Rank(k) /\ Rank(k) < from + BatchSize)
         /\ Len(batch) < BatchSize =>
              \A k \in Wanted : HasPlace(k) => Rank(k) < from + BatchSize
<1> DEFINE n == Cardinality(Wanted)
           last == IF from + BatchSize < n THEN from + BatchSize ELSE n
<1>0. n \in Nat /\ BatchSize \in Nat \ {0}
  BY WantedFinite, ListAssumption
<1>1. PICK s \in SetToSeqs(Wanted) : NewestFirst(s) /\ batch = SubSeq(s, from + 1, last)
  BY DEF Ranges
<1>2. s \in [1 .. n -> Wanted] /\ \A i, j \in 1 .. n : i # j => s[i] # s[j]
  BY DEF SetToSeqs
<1>3. \A k \in Wanted : HasPlace(k) => \E i \in 1 .. n : s[i] = k /\ Rank(k) = i - 1
  BY <1>1, PlaceInOrder
<1> HIDE DEF n
<1>4. last \in Nat /\ last <= n /\ \A i \in from + 1 .. last : i \in 1 .. n
  BY <1>0
<1>5. \A i \in from + 1 .. last : s[i] \in Wanted
  BY <1>2, <1>4
<1> HIDE DEF last
<1>6. /\ batch \in Seq(Wanted)
      /\ Len(batch) = IF from + 1 <= last THEN last - from ELSE 0
      /\ \A i \in 1 .. (last - from) : batch[i] = s[from + i]
  <2>1. /\ SubSeq(s, from + 1, last) \in Seq(Wanted)
        /\ Len(SubSeq(s, from + 1, last))
             = IF from + 1 <= last THEN last - (from + 1) + 1 ELSE 0
        /\ \A i \in 1 .. last - (from + 1) + 1 :
             SubSeq(s, from + 1, last)[i] = s[from + 1 + i - 1]
    <3>1. from + 1 \in Int /\ last \in Int
      BY <1>4
    <3> QED
      BY <3>1, <1>5, SubSeqProperties
  <2> QED
    BY <2>1, <1>1, <1>4
<1>7. DOMAIN batch = 1 .. (last - from) /\ Len(batch) \in Nat
  <2>1. DOMAIN batch = 1 .. Len(batch)
    BY <1>6
  <2>2. CASE from + 1 <= last
    BY <2>1, <2>2, <1>6, <1>4
  <2>3. CASE ~(from + 1 <= last)
    BY <2>1, <2>3, <1>6, <1>4
  <2> QED
    BY <2>2, <2>3
<1>8. ToSet(batch) = {s[i] : i \in from + 1 .. last}
  <2>1. \A i \in 1 .. (last - from) : from + i \in from + 1 .. last
    BY <1>4
  <2>2. \A j \in from + 1 .. last : j - from \in 1 .. (last - from) /\ from + (j - from) = j
    BY <1>4
  <2>3. ToSet(batch) = {s[from + i] : i \in 1 .. (last - from)}
    BY <1>6, <1>7 DEF ToSet
  <2> QED
    BY <2>1, <2>2, <2>3
<1>9. ASSUME NEW k \in Wanted, HasPlace(k)
      PROVE  /\ k \in ToSet(batch) <=> from <= Rank(k) /\ Rank(k) < from + BatchSize
             /\ Len(batch) < BatchSize => Rank(k) < from + BatchSize
  <2>1. PICK i \in 1 .. n : s[i] = k /\ Rank(k) = i - 1
    BY <1>3, <1>9
  <2>2. k \in ToSet(batch) <=> i \in from + 1 .. last
    BY <2>1, <1>2, <1>4, <1>8
  <2>3. i \in from + 1 .. last <=> from <= i - 1 /\ i - 1 < from + BatchSize
    BY <1>0, <1>4 DEF last
  <2>4. Len(batch) < BatchSize => i - 1 < from + BatchSize
    BY <1>0, <1>4, <1>6 DEF last
  <2> QED
    BY <2>1, <2>2, <2>3, <2>4
<1> QED
  BY <1>5, <1>7, <1>8, <1>9

(* The rows of a batch are finitely many, for they have different keys.     *)
LEMMA BatchFinite ==
  ASSUME NEW K \in SUBSET Keys, NEW from
  PROVE  IsFiniteSet({[key |-> k, app |-> rows[k].app, from |-> from] : k \in K})
<1> DEFINE R == {[key |-> k, app |-> rows[k].app, from |-> from] : k \in K}
           f == [x \in R |-> x.key]
<1>1. \A x \in R : x.key \in K /\ x = [key |-> x.key, app |-> rows[x.key].app, from |-> from]
  OBVIOUS
<1>2. f \in [R -> Keys]
  BY <1>1
<1>3. \A x, y \in R : f[x] = f[y] => x = y
  <2> SUFFICES ASSUME NEW x \in R, NEW y \in R, x.key = y.key PROVE x = y
    OBVIOUS
  <2>1. x = [key |-> x.key, app |-> rows[x.key].app, from |-> from]
    BY <1>1
  <2>2. y = [key |-> y.key, app |-> rows[y.key].app, from |-> from]
    BY <1>1
  <2> QED
    BY <2>1, <2>2
<1> HIDE DEF R
<1>4. f \in Injection(R, Keys)
  BY <1>2, <1>3 DEF Injection, IsInjective
<1>5. IsFiniteSet(R)
  BY <1>4, ListAssumption, FS_Injection
<1> QED
  BY <1>5 DEF R

(* The page that is rendered shows a license if one matches.                *)
LEMMA Fitted ==
  ASSUME NEW p \in Nat \ {0}, NEW n \in Nat, NEW sz \in Nat \ {0}
  PROVE  /\ FittedPage(p, n, sz) \in Nat \ {0}
         /\ n > 0 => (FittedPage(p, n, sz) - 1) * sz < n
<1> DEFINE q == (n + sz - 1) \div sz
<1>1. CASE n = 0
  BY <1>1 DEF FittedPage, TotalPages
<1>2. CASE n > 0
  <2>1. TotalPages(n, sz) = q
    BY <1>2 DEF TotalPages
  <2>2. q \in Int /\ q * sz <= n + sz - 1 /\ n + sz - 1 < (q + 1) * sz
    OBVIOUS
  <2> HIDE DEF q
  <2>3. (q + 1) * sz = q * sz + sz
    BY <2>2
  <2>4. q * sz > n - 1
    BY <2>2, <2>3
  <2>5. q > 0
    BY <2>2, <2>4, <1>2
  <2>6. PICK r \in Nat \ {0} : r = FittedPage(p, n, sz) /\ r <= q
    BY <2>1, <2>2, <2>5 DEF FittedPage
  <2>7. (r - 1) * sz <= (q - 1) * sz
    BY <2>2, <2>6
  <2>8. (q - 1) * sz = q * sz - sz
    BY <2>2
  <2>9. (r - 1) * sz \in Int /\ q * sz \in Int
    BY <2>2, <2>6
  <2> QED
    BY <2>2, <2>6, <2>7, <2>8, <2>9
<1> QED
  BY <1>1, <1>2

LEMMA RenderShows ==
  ASSUME NEW counts \in [Apps \cup {None} -> Nat], NEW f \in Apps \cup {None},
         NEW p \in Nat \ {0}, NEW sz \in PageSizes,
         RenderLicensePage(counts, f, p, sz)
  PROVE  /\ shown' \in [Apps \cup {None} -> Nat]
         /\ size' \in PageSizes /\ page' \in Nat \ {0} /\ filter' = f
         /\ PageNotEmpty'
<1>1. counts[f] \in Nat /\ sz \in Nat \ {0}
  BY ListAssumption
<1>2. shown' = counts /\ filter' = f /\ size' = sz /\ page' = FittedPage(p, counts[f], sz)
  BY DEF RenderLicensePage
<1> QED
  BY <1>1, <1>2, Fitted DEF PageNotEmpty

LEMMA InitList == Init => ListInv
<1> SUFFICES ASSUME Init PROVE ListInv
  OBVIOUS
<1>1. load = NoLoad /\ load.read = {} /\ load.due = {} /\ load.pc = "idle" /\ load.from = 0
  BY DEF Init, NoLoad
<1>2. Stored = {}
  BY DEF Init, Stored
<1>3. TypeOK
  BY <1>1, ListAssumption DEF Init, TypeOK, Load, NoForm, NoLoad
<1>4. IsFiniteSet(load.read)
  BY <1>1, FS_EmptySet
<1>5. PageNotEmpty
  BY DEF Init, PageNotEmpty
<1> QED
  BY <1>1, <1>2, <1>3, <1>4, <1>5
  DEF ListInv, LoadInv, Times, Beginning, BetweenBatches, Once, NothingMissed

-----------------------------------------------------------------------------
(* The load that is under way, step by step.                                *)
LEMMA LoadUntouched ==
  ASSUME LoadInv, UNCHANGED <<rows, inserts, load>> PROVE LoadInv'
<1>1. Stored' = Stored /\ Wanted' = Wanted
  BY DEF Stored, Wanted
<1>2. \A k : Rank(k)' = Rank(k)
  BY <1>1 DEF Rank, Newer
<1>3. \A k : HasPlace(k)' <=> HasPlace(k)
  BY <1>1 DEF HasPlace
<1> QED
  BY <1>1, <1>2, <1>3
  DEF LoadInv, Times, Beginning, BetweenBatches, Ahead, Behind, Listed, Once, NothingMissed

LEMMA NoLoadIs ==
  ASSUME Times', load'.read = {}, load'.due = {}, load'.from = 0
  PROVE  LoadInv'
<1>1. IsFiniteSet(load.read)'
  BY FS_EmptySet
<1> QED
  BY <1>1 DEF LoadInv, Beginning, BetweenBatches, Ahead, Behind, Listed, Once, NothingMissed

LEMMA LoadKeepsTimes ==
  ASSUME Times, UNCHANGED db PROVE Times'
BY DEF Times, Stored, db

(* Rows that go do not move another license down the order.                 *)
LEMMA RankShrinks ==
  ASSUME TypeOK, Stored' \subseteq Stored, \A j \in Stored' : rows'[j] = rows[j],
         load'.apps = load.apps, NEW k \in Stored'
  PROVE  /\ Wanted' \subseteq Wanted
         /\ Rank(k)' \in Nat /\ Rank(k)' <= Rank(k)
         /\ HasPlace(k) => HasPlace(k)'
<1>1. Wanted' \subseteq Wanted
  BY DEF Wanted
<1>2. Wanted' \subseteq Stored'
  BY DEF Wanted
<1>3. Newer(k)' \subseteq Newer(k)
  BY <1>1, <1>2 DEF Newer
<1>4. IsFiniteSet(Newer(k)) /\ Rank(k) \in Nat
  BY WantedFinite
<1>5. IsFiniteSet(Newer(k)') /\ Cardinality(Newer(k)') <= Cardinality(Newer(k))
  BY <1>3, <1>4, FS_Subset
<1>6. Cardinality(Newer(k)') \in Nat
  BY <1>5, FS_CardinalityType
<1>7. HasPlace(k) => HasPlace(k)'
  BY DEF HasPlace
<1> QED
  BY <1>1, <1>5, <1>6, <1>7 DEF Rank

(* Rows that come do not move another license up.                           *)
LEMMA RankGrows ==
  ASSUME TypeOK, TypeOK', Stored \subseteq Stored', \A j \in Stored : rows'[j] = rows[j],
         load'.apps = load.apps, NEW k \in Stored
  PROVE  /\ Wanted \subseteq Wanted'
         /\ Rank(k)' \in Nat /\ Rank(k) \in Nat /\ Rank(k) <= Rank(k)'
<1>1. Wanted \subseteq Wanted'
  BY DEF Wanted
<1>2. Wanted \subseteq Stored
  BY DEF Wanted
<1>3. Newer(k) \subseteq Newer(k)'
  BY <1>1, <1>2 DEF Newer
<1>4. Rank(k) \in Nat
  BY WantedFinite
<1>5. Wanted' \subseteq Keys
  BY DEF Wanted, Stored
<1>6. IsFiniteSet(Wanted')
  BY <1>5, ListAssumption, FS_Subset
<1>7. Newer(k)' \subseteq Wanted'
  BY DEF Newer
<1>8. IsFiniteSet(Newer(k)')
  BY <1>6, <1>7, FS_Subset
<1>9. Cardinality(Newer(k)') \in Nat /\ Cardinality(Newer(k)) <= Cardinality(Newer(k)')
  BY <1>3, <1>8, FS_Subset, FS_CardinalityType
<1> QED
  BY <1>1, <1>4, <1>9 DEF Rank

LEMMA DeleteKeeps ==
  ASSUME ListInv, NEW a \in Apps, DeleteApplication(a)
  PROVE  ListInv'
<1>0. TypeOK /\ LoadInv /\ PageNotEmpty
  BY DEF ListInv
<1>1. /\ rows' = [k \in Keys |-> IF rows[k] # None /\ rows[k].app = a THEN None ELSE rows[k]]
      /\ load' = [load EXCEPT !.deleted = @ \/ Reading]
      /\ apps' = [apps EXCEPT ![a] = "deleted"]
      /\ UNCHANGED <<inserts, form, known, options, view>>
  BY DEF DeleteApplication
<1>2. TypeOK'
  <2>1. rows' \in [Keys -> [app : Apps, at : 1 .. MaxInserts] \cup {None}]
    BY <1>0, <1>1 DEF TypeOK, Load
  <2>2. apps' \in [Apps -> {"new", "live", "deleted"}]
    BY <1>0, <1>1 DEF TypeOK, Load
  <2> QED
    BY <1>0, <1>1, <2>1, <2>2 DEF TypeOK, Load, view, Reading
<1>3. /\ load'.pc = load.pc /\ load'.from = load.from /\ load'.apps = load.apps
      /\ load'.read = load.read /\ load'.due = load.due /\ load'.inserted = load.inserted
      /\ load'.deleted = (load.deleted \/ Reading)
  BY <1>0, <1>1 DEF TypeOK, Load
<1>4. Stored' \subseteq Stored /\ \A k \in Stored' : rows'[k] = rows[k]
  BY <1>1 DEF Stored
<1>5. \A k \in Stored' : /\ Wanted' \subseteq Wanted
                         /\ Rank(k)' \in Nat /\ Rank(k)' <= Rank(k)
                         /\ HasPlace(k) => HasPlace(k)'
  BY <1>0, <1>3, <1>4, RankShrinks
<1>6. Times'
  BY <1>0, <1>1, <1>4 DEF LoadInv, Times
<1>7. BetweenBatches'
  <2> SUFFICES ASSUME load.pc = "batch", load.due # {} PROVE BetweenBatches'
    BY <1>3 DEF BetweenBatches, Ahead, Behind
  <2>1. load'.deleted
    <3>1. load.from # 0
      BY <1>0 DEF LoadInv, Beginning
    <3>2. load.from \in Nat
      BY <1>0 DEF TypeOK, Load
    <3>3. Reading
      BY <3>1, <3>2 DEF Reading
    <3> QED
      BY <1>3, <3>3
  <2>2. ASSUME ~load.inserted, NEW k \in load.due, k \in Wanted', Listed(k)'
        PROVE  Rank(k)' < load.from
    <3>1. k \in Stored'
      BY <2>2 DEF Wanted
    <3>2. Listed(k) /\ k \in Wanted
      BY <1>3, <1>5, <2>2, <3>1 DEF Listed
    <3>3. Rank(k) < load.from
      BY <1>0, <2>2, <3>2 DEF LoadInv, BetweenBatches, Behind
    <3>4. Rank(k) \in Nat /\ load.from \in Nat
      BY <1>0, WantedFinite DEF TypeOK, Load
    <3> QED
      BY <1>5, <3>1, <3>3, <3>4
  <2>3. ASSUME ~load.inserted, NEW k \in load.due, k \in Stored'
        PROVE  HasPlace(k)'
    BY <1>0, <1>4, <1>5, <2>3 DEF LoadInv, BetweenBatches
  <2> QED
    BY <1>3, <2>1, <2>2, <2>3 DEF BetweenBatches, Behind
<1>8. LoadInv'
  BY <1>0, <1>3, <1>6, <1>7 DEF LoadInv, Beginning, Once, NothingMissed
<1>9. PageNotEmpty'
  BY <1>0, <1>1 DEF PageNotEmpty, view
<1> QED
  BY <1>2, <1>8, <1>9 DEF ListInv

LEMMA InsertKeeps ==
  ASSUME ListInv, InsertLicenses
  PROVE  ListInv'
<1>0. TypeOK /\ LoadInv /\ PageNotEmpty
  BY DEF ListInv
<1>1. /\ form.pc = "insert" /\ inserts < MaxInserts
      /\ apps[form.app] = "live" /\ form.drawn \cap Stored = {}
      /\ inserts' = inserts + 1
      /\ rows' = [k \in Keys |-> IF k \in form.drawn
                                 THEN [app |-> form.app, at |-> inserts'] ELSE rows[k]]
      /\ load' = [load EXCEPT !.inserted = @ \/ Reading]
      /\ form' = NoForm
      /\ UNCHANGED <<apps, known, options, view>>
  BY DEF InsertLicenses
<1>2. inserts \in Nat /\ inserts' \in 1 .. MaxInserts
  BY <1>0, <1>1, ListAssumption DEF TypeOK, Load
<1>3. TypeOK'
  <2>1. form.app \in Apps
    BY <1>0, <1>1, ListAssumption DEF TypeOK, Load
  <2>2. rows' \in [Keys -> [app : Apps, at : 1 .. MaxInserts] \cup {None}]
    <3>1. [app |-> form.app, at |-> inserts'] \in [app : Apps, at : 1 .. MaxInserts]
      BY <1>2, <2>1
    <3>2. rows \in [Keys -> [app : Apps, at : 1 .. MaxInserts] \cup {None}]
      BY <1>0 DEF TypeOK, Load
    <3> QED
      BY <1>1, <3>1, <3>2
  <2>3. load' \in Load
    BY <1>0, <1>1 DEF TypeOK, Load, Reading
  <2>4. /\ form' \in [pc : {"idle", "drawing", "insert"}, app : Apps \cup {None},
                      quantity : Quantities \cup {0}, drawn : SUBSET Keys]
        /\ form'.pc = "idle"
    BY <1>1 DEF NoForm
  <2>5. inserts' \in 0 .. MaxInserts
    BY <1>2
  <2> QED
    BY <1>0, <1>1, <2>2, <2>3, <2>4, <2>5 DEF TypeOK, Load, view
<1>4. /\ load'.pc = load.pc /\ load'.from = load.from /\ load'.apps = load.apps
      /\ load'.read = load.read /\ load'.due = load.due /\ load'.deleted = load.deleted
      /\ load'.inserted = (load.inserted \/ Reading)
  BY <1>0, <1>1 DEF TypeOK, Load
<1>5. /\ Stored \subseteq Stored'
      /\ \A k \in Stored : rows'[k] = rows[k]
      /\ \A k \in Stored' \ Stored : rows'[k].at = inserts + 1
  <2>1. \A k \in form.drawn : k \notin Stored
    BY <1>1
  <2> QED
    BY <1>1, <2>1 DEF Stored
<1>6. \A k \in Stored : /\ Wanted \subseteq Wanted'
                        /\ Rank(k)' \in Nat /\ Rank(k) \in Nat /\ Rank(k) <= Rank(k)'
  BY <1>0, <1>3, <1>4, <1>5, RankGrows
<1>7. \A k \in Stored : rows[k].at \in Nat /\ rows[k].at <= inserts
  BY <1>0, TimesAreNumbers DEF LoadInv, Times
<1>8. Times'
  BY <1>1, <1>2, <1>5, <1>7 DEF Times
<1>9. ASSUME NEW k \in Stored, HasPlace(k) PROVE HasPlace(k)'
  <2>1. ASSUME NEW j \in Stored' \ {k} PROVE rows'[j].at # rows'[k].at
    BY <1>2, <1>5, <1>7, <1>9 DEF HasPlace
  <2> QED
    BY <1>5, <2>1 DEF HasPlace
<1>10. BetweenBatches'
  <2> SUFFICES ASSUME load.pc = "batch", load.due # {} PROVE BetweenBatches'
    BY <1>4 DEF BetweenBatches, Ahead, Behind
  <2>1. load'.inserted /\ load.from \in Nat
    <3>1. load.from # 0
      BY <1>0 DEF LoadInv, Beginning
    <3>2. load.from \in Nat
      BY <1>0 DEF TypeOK, Load
    <3>3. Reading
      BY <3>1, <3>2 DEF Reading
    <3> QED
      BY <1>4, <3>2, <3>3
  <2>2. ASSUME ~load.deleted, NEW k \in load.due
        PROVE  k \in Wanted' /\ (Listed(k)' \/ Rank(k)' >= load.from) /\ HasPlace(k)'
    <3>1. k \in Wanted /\ k \in Stored
      BY <1>0, <2>2 DEF LoadInv, BetweenBatches, Ahead, Wanted
    <3>2. HasPlace(k) /\ (Listed(k) \/ Rank(k) >= load.from)
      BY <1>0, <2>2, <3>1 DEF LoadInv, BetweenBatches, Ahead
    <3>3. Listed(k) => Listed(k)'
      BY <1>4 DEF Listed
    <3> QED
      BY <1>6, <1>9, <2>1, <3>1, <3>2, <3>3
  <2> QED
    BY <1>4, <2>1, <2>2 DEF BetweenBatches, Ahead
<1>11. LoadInv'
  BY <1>0, <1>4, <1>8, <1>10 DEF LoadInv, Beginning, Once, NothingMissed
<1>12. PageNotEmpty'
  BY <1>0, <1>1 DEF PageNotEmpty, view
<1> QED
  BY <1>3, <1>11, <1>12 DEF ListInv

LEMMA BatchKeeps ==
  ASSUME ListInv, LoadBatch
  PROVE  ListInv'
<1>0. TypeOK /\ LoadInv /\ PageNotEmpty
  BY DEF ListInv
<1> DEFINE R(batch) == {[key |-> k, app |-> rows[k].app, from |-> load.from] : k \in ToSet(batch)}
           from == load.from
<1>1. PICK batch \in Ranges(from) :
        /\ load.pc = "batch"
        /\ load' = [load EXCEPT
             !.read = @ \cup R(batch),
             !.pc = IF AnotherBatch(Len(batch)) THEN "batch" ELSE "loaded",
             !.from = IF AnotherBatch(Len(batch)) THEN NextFrom(@) ELSE 0,
             !.due = IF load.from = 0 THEN {k \in Wanted : HasPlace(k)} ELSE @]
        /\ UNCHANGED <<db, form, known, options, view>>
  BY DEF LoadBatch
<1> DEFINE K == ToSet(batch)
           more == AnotherBatch(Len(batch))
<1>2. from \in Nat /\ BatchSize \in Nat \ {0}
  BY <1>0, ListAssumption DEF TypeOK, Load
<1>3. /\ Len(batch) \in Nat /\ K \subseteq Wanted
      /\ \A k \in Wanted : HasPlace(k) =>
           (k \in K <=> from <= Rank(k) /\ Rank(k) < from + BatchSize)
      /\ ~more => \A k \in Wanted : HasPlace(k) => Rank(k) < from + BatchSize
  <2>1. ~more => Len(batch) < BatchSize \/ Len(batch) \notin Nat
    BY <1>2 DEF AnotherBatch
  <2> QED
    BY <1>0, <1>2, <2>1, RangeIs
<1>4. /\ load'.read = load.read \cup R(batch)
      /\ load'.pc = IF more THEN "batch" ELSE "loaded"
      /\ load'.from = IF more THEN from + BatchSize ELSE 0
      /\ load'.due = IF from = 0 THEN {k \in Wanted : HasPlace(k)} ELSE load.due
      /\ load'.apps = load.apps
      /\ load'.deleted = load.deleted /\ load'.inserted = load.inserted
  BY <1>0, <1>1 DEF TypeOK, Load, NextFrom
<1>5. UNCHANGED <<rows, inserts, apps>>
  BY <1>1 DEF db
<1>6. /\ Stored' = Stored /\ Wanted' = Wanted
      /\ \A k : Rank(k)' = Rank(k) /\ Rank(k) \in Nat
      /\ \A k : HasPlace(k)' <=> HasPlace(k)
  <2>1. Stored' = Stored /\ Wanted' = Wanted
    BY <1>4, <1>5 DEF Stored, Wanted
  <2> QED
    BY <1>0, <1>5, <2>1, WantedFinite DEF Rank, Newer, HasPlace
<1>7. K \subseteq Keys /\ \A k \in K : rows[k].app \in Apps
  BY <1>0, <1>3, WantedFinite, TimesAreNumbers
<1>8. /\ \A x \in R(batch) : x.key \in K /\ x \in Read
      /\ \A k \in K : \E x \in R(batch) : x.key = k
      /\ \A x, y \in R(batch) : x.key = y.key => x = y
      /\ IsFiniteSet(R(batch))
  <2>1. \A x \in R(batch) : x.key \in K /\ x \in Read
    BY <1>2, <1>7 DEF Read
  <2>2. \A k \in K : \E x \in R(batch) : x.key = k
    <3> SUFFICES ASSUME NEW k \in K PROVE \E x \in R(batch) : x.key = k
      OBVIOUS
    <3> WITNESS [key |-> k, app |-> rows[k].app, from |-> load.from] \in R(batch)
    <3> QED
      OBVIOUS
  <2>3. \A x, y \in R(batch) : x.key = y.key => x = y
    <3>1. \A x \in R(batch) : x = [key |-> x.key, app |-> rows[x.key].app, from |-> load.from]
      OBVIOUS
    <3> SUFFICES ASSUME NEW x \in R(batch), NEW y \in R(batch), x.key = y.key PROVE x = y
      OBVIOUS
    <3>2. x = [key |-> x.key, app |-> rows[x.key].app, from |-> load.from]
      BY <3>1
    <3>3. y = [key |-> y.key, app |-> rows[y.key].app, from |-> load.from]
      BY <3>1
    <3> HIDE DEF R
    <3> QED
      BY <3>2, <3>3
  <2>4. IsFiniteSet(R(batch))
    BY <1>7, BatchFinite
  <2> QED
    BY <2>1, <2>2, <2>3, <2>4
<1> HIDE DEF R, K, more, from
<1>9. \A k : Listed(k)' <=> Listed(k) \/ k \in K
  BY <1>4, <1>8 DEF Listed
(* What is known of a license that is due, when the batch is read.          *)
<1>10. ASSUME NEW k \in load'.due, ~load.deleted
       PROVE  /\ k \in Wanted /\ HasPlace(k)
              /\ Listed(k) \/ Rank(k) >= from
  <2>1. CASE from = 0
    BY <1>2, <1>4, <1>6, <2>1
  <2>2. CASE from # 0
    <3>1. k \in load.due
      BY <1>4, <2>2
    <3>2. k \in Wanted /\ (Listed(k) \/ Rank(k) >= load.from)
      BY <1>0, <1>1, <1>10, <3>1 DEF LoadInv, BetweenBatches, Ahead
    <3>3. k \in Stored
      BY <3>2 DEF Wanted
    <3> QED
      BY <1>0, <1>1, <1>10, <3>1, <3>2, <3>3 DEF LoadInv, BetweenBatches, from
  <2> QED
    BY <2>1, <2>2
<1>11. ASSUME NEW k \in load'.due, ~load.inserted, k \in Wanted
       PROVE  HasPlace(k) /\ (Listed(k) => Rank(k) < from)
  <2>1. CASE from = 0
    <3>1. load.read = {}
      BY <1>0, <1>1, <2>1 DEF LoadInv, Beginning, from
    <3> QED
      BY <1>4, <2>1, <3>1 DEF Listed
  <2>2. CASE from # 0
    <3>1. k \in load.due
      BY <1>4, <2>2
    <3>2. k \in Stored
      BY <1>11 DEF Wanted
    <3>3. HasPlace(k)
      BY <1>0, <1>1, <1>11, <3>1, <3>2 DEF LoadInv, BetweenBatches
    <3>4. Listed(k) => Rank(k) < from
      BY <1>0, <1>1, <1>11, <3>1 DEF LoadInv, BetweenBatches, Behind, from
    <3> QED
      BY <3>3, <3>4
  <2> QED
    BY <2>1, <2>2
<1>12. ASSUME ~load.deleted, NEW k \in load'.due
       PROVE  /\ k \in Wanted /\ HasPlace(k)
              /\ Listed(k)' \/ Rank(k) >= from + BatchSize
              /\ ~more => Listed(k)'
  <2>1. k \in Wanted /\ HasPlace(k) /\ (Listed(k) \/ Rank(k) >= from)
    BY <1>10, <1>12
  <2>2. k \in K <=> from <= Rank(k) /\ Rank(k) < from + BatchSize
    BY <1>3, <2>1
  <2>3. ~more => Rank(k) < from + BatchSize
    BY <1>3, <2>1
  <2> QED
    BY <1>2, <1>6, <1>9, <2>1, <2>2, <2>3
<1>13. ASSUME ~load.inserted, NEW k \in load'.due, k \in Wanted
       PROVE  /\ HasPlace(k)
              /\ Listed(k)' => Rank(k) < from + BatchSize
              /\ ~(Listed(k) /\ k \in K)
  <2>1. HasPlace(k) /\ (Listed(k) => Rank(k) < from)
    BY <1>11, <1>13
  <2>2. k \in K <=> from <= Rank(k) /\ Rank(k) < from + BatchSize
    BY <1>3, <1>13, <2>1
  <2> QED
    BY <1>2, <1>6, <1>9, <2>1, <2>2
<1>14. TypeOK'
  <2>1. load'.due \in SUBSET Keys
    BY <1>0, <1>4, WantedFinite DEF TypeOK, Load
  <2>2. load'.read \in SUBSET Read
    BY <1>0, <1>4, <1>8 DEF TypeOK, Load
  <2>3. load'.from \in Nat /\ load'.pc \in {"batch", "loaded"}
    BY <1>2, <1>4
  <2>4. load' \in Load
    BY <1>0, <1>1, <2>1, <2>2, <2>3 DEF TypeOK, Load
  <2> QED
    BY <1>0, <1>1, <2>4 DEF TypeOK, Load, view, db
<1>15. IsFiniteSet(load'.read)
  <2>1. IsFiniteSet(load.read) /\ IsFiniteSet(R(batch))
    BY <1>0, <1>8 DEF LoadInv
  <2>2. IsFiniteSet(load.read \cup R(batch))
    BY <2>1, FS_Union
  <2> QED
    BY <1>4, <2>2
<1>16. Beginning'
  BY <1>2, <1>4 DEF Beginning
<1>17. BetweenBatches'
  <2> SUFFICES ASSUME more PROVE BetweenBatches'
    BY <1>4 DEF BetweenBatches
  <2>1. ~load.deleted => Ahead'
    BY <1>4, <1>6, <1>12 DEF Ahead
  <2>2. ~load.inserted => Behind'
    BY <1>4, <1>6, <1>13 DEF Behind
  <2>3. ASSUME ~load.deleted \/ ~load.inserted, NEW k \in load'.due, k \in Stored'
        PROVE  HasPlace(k)'
    <3>1. CASE ~load.deleted
      BY <1>6, <1>12, <3>1
    <3>2. CASE ~load.inserted
      <4>1. CASE from = 0
        BY <1>4, <1>6, <4>1
      <4>2. CASE from # 0
        BY <1>0, <1>1, <1>4, <1>6, <2>3, <3>2, <4>2 DEF LoadInv, BetweenBatches
      <4> QED
        BY <4>1, <4>2
    <3> QED
      BY <2>3, <3>1, <3>2
  <2> QED
    BY <1>4, <2>1, <2>2, <2>3 DEF BetweenBatches
<1>18. ASSUME ~load.inserted, NEW x \in load'.read, NEW y \in load'.read,
              x.key = y.key, x.key \in load'.due
       PROVE  x = y
  <2>1. CASE x \in load.read /\ y \in load.read
    <3>1. from # 0
      BY <1>0, <1>1, <2>1 DEF LoadInv, Beginning, from
    <3>2. x.key \in load.due
      BY <1>4, <1>18, <3>1
    <3> QED
      BY <1>0, <1>18, <2>1, <3>2 DEF LoadInv, Once
  <2>2. CASE x \in R(batch) /\ y \in R(batch)
    BY <1>8, <1>18, <2>2
  <2>3. CASE x \in load.read /\ y \in R(batch)
    <3>1. Listed(x.key) /\ x.key \in K /\ x.key \in Wanted
      BY <1>3, <1>8, <1>18, <2>3 DEF Listed
    <3> QED
      BY <1>13, <1>18, <3>1
  <2>4. CASE x \in R(batch) /\ y \in load.read
    <3>1. Listed(x.key) /\ x.key \in K /\ x.key \in Wanted
      BY <1>3, <1>8, <1>18, <2>4 DEF Listed
    <3> QED
      BY <1>13, <1>18, <3>1
  <2> QED
    BY <1>4, <2>1, <2>2, <2>3, <2>4
<1>19. NothingMissed'
  BY <1>4, <1>12 DEF NothingMissed, Listed
<1>20. Times'
  BY <1>0, <1>1, LoadKeepsTimes DEF LoadInv
<1>21. LoadInv'
  BY <1>4, <1>15, <1>16, <1>17, <1>18, <1>19, <1>20 DEF LoadInv, Once
<1>22. PageNotEmpty'
  BY <1>0, <1>1 DEF PageNotEmpty, view
<1> QED
  BY <1>14, <1>21, <1>22 DEF ListInv

LEMMA StartKeeps ==
  ASSUME ListInv, StartLoad \/ LoadApplications \/ LoadFails
  PROVE  ListInv'
<1>0. TypeOK /\ LoadInv /\ PageNotEmpty
  BY DEF ListInv
<1>1. UNCHANGED <<db, form, options, view>>
  BY DEF StartLoad, LoadApplications, LoadFails
<1>2. Times'
  BY <1>0, <1>1, LoadKeepsTimes DEF LoadInv
<1>3. PageNotEmpty'
  BY <1>0, <1>1 DEF PageNotEmpty, view
<1>4. ASSUME load' \in Load,
             known' \subseteq Apps
      PROVE  TypeOK'
  BY <1>0, <1>1, <1>4 DEF TypeOK, Load, db, view
<1>5. ASSUME StartLoad \/ LoadFails PROVE ListInv'
  <2>1. load' \in {NoLoad, [NoLoad EXCEPT !.pc = "apps"]} /\ known' = known
    BY <1>5 DEF StartLoad, LoadFails
  <2>2. load'.read = {} /\ load'.due = {} /\ load'.from = 0
    BY <2>1 DEF NoLoad, Load
  <2>3. TypeOK'
    <3>1. NoLoad \in Load
      BY DEF NoLoad, Load
    <3>2. [NoLoad EXCEPT !.pc = "apps"] \in Load
      BY <3>1 DEF Load
    <3>3. load' \in Load
      BY <2>1, <3>1, <3>2
    <3>4. known' \subseteq Apps
      BY <1>0, <2>1 DEF TypeOK
    <3> QED
      BY <1>4, <3>3, <3>4
  <2>4. LoadInv'
    BY <1>2, <2>2, NoLoadIs
  <2> QED
    BY <1>3, <2>3, <2>4 DEF ListInv
<1>6. ASSUME LoadApplications PROVE ListInv'
  <2> DEFINE live == {a \in Apps : apps[a] = "live"}
  <2>1. /\ load.pc = "apps" /\ known' = live
        /\ load' = [load EXCEPT !.pc = IF live = {} THEN "loaded" ELSE "batch", !.apps = live]
    BY <1>6 DEF LoadApplications
  <2>2. TypeOK'
    BY <1>0, <1>4, <2>1 DEF TypeOK, Load
  <2>3. load.read = {} /\ load.due = {} /\ load.from = 0
    BY <1>0, <2>1 DEF LoadInv, Beginning
  <2>4. load'.read = {} /\ load'.due = {} /\ load'.from = 0
    BY <1>0, <2>1, <2>3 DEF TypeOK, Load
  <2>5. LoadInv'
    BY <1>2, <2>4, NoLoadIs
  <2> QED
    BY <1>3, <2>2, <2>5 DEF ListInv
<1> QED
  BY <1>5, <1>6

-----------------------------------------------------------------------------
(* The page and the form.                                                   *)
LEMMA RenderKeeps ==
  ASSUME ListInv, Render
  PROVE  ListInv'
<1>0. TypeOK /\ LoadInv /\ PageNotEmpty
  BY DEF ListInv
<1> DEFINE counts == [f \in Apps \cup {None} |-> Cardinality(Matching(load.read, f))]
           f == FilterIn(filter, load.apps)
<1>1. /\ load' = NoLoad /\ options' = load.apps
      /\ RenderLicensePage(counts, f, page, size)
  BY DEF Render
<1>2. \A g : Cardinality(Matching(load.read, g)) \in Nat
  <2> SUFFICES ASSUME NEW g PROVE Cardinality(Matching(load.read, g)) \in Nat
    OBVIOUS
  <2>1. Matching(load.read, g) \subseteq load.read
    BY DEF Matching
  <2>2. IsFiniteSet(load.read)
    BY <1>0 DEF LoadInv
  <2> QED
    BY <2>1, <2>2, FS_Subset, FS_CardinalityType
<1>3. counts \in [Apps \cup {None} -> Nat]
  BY <1>2
<1>4. load.apps \subseteq Apps /\ f \in load.apps \cup {None} /\ f \in Apps \cup {None}
  BY <1>0 DEF TypeOK, Load, FilterIn
<1>5. page \in Nat \ {0} /\ size \in PageSizes
  BY <1>0 DEF TypeOK, Load
<1> HIDE DEF counts, f
<1>6. /\ shown' \in [Apps \cup {None} -> Nat]
      /\ size' \in PageSizes /\ page' \in Nat \ {0} /\ filter' = f
      /\ PageNotEmpty'
  BY <1>1, <1>3, <1>4, <1>5, RenderShows
<1>7. UNCHANGED <<db, form, known>>
  BY <1>1 DEF RenderLicensePage
<1>8. load'.read = {} /\ load'.due = {} /\ load'.from = 0
  BY <1>1 DEF NoLoad, Load
<1>9. Times'
  BY <1>0, <1>7, LoadKeepsTimes DEF LoadInv
<1>10. LoadInv'
  BY <1>8, <1>9, NoLoadIs
<1>11. load' \in Load
  BY <1>1 DEF NoLoad, Load
<1>12. TypeOK'
  BY <1>0, <1>1, <1>4, <1>6, <1>7, <1>11 DEF TypeOK, Load, db
<1> QED
  BY <1>6, <1>10, <1>12 DEF ListInv

(* The handlers of the list: the filter, the page size and the page.        *)
LEMMA BrowseKeeps ==
  ASSUME ListInv,
         \/ \E f \in Apps \cup {None} : FilterByApplication(f)
         \/ \E sz \in PageSizes : ChangePageSize(sz)
         \/ Previous \/ NextPage
  PROVE  ListInv'
<1>0. TypeOK /\ LoadInv /\ PageNotEmpty
  BY DEF ListInv
<1>1. /\ shown \in [Apps \cup {None} -> Nat] /\ filter \in options \cup {None}
      /\ options \subseteq Apps /\ page \in Nat \ {0} /\ size \in PageSizes
  BY <1>0 DEF TypeOK, Load
<1>2. PICK f \in options \cup {None}, p \in Nat \ {0}, sz \in PageSizes :
        RenderLicensePage(shown, f, p, sz) /\ UNCHANGED <<load, options>>
  <2>1. CASE \E f \in Apps \cup {None} : FilterByApplication(f)
    BY <1>1, <2>1 DEF FilterByApplication
  <2>2. CASE \E sz \in PageSizes : ChangePageSize(sz)
    BY <1>1, <2>2 DEF ChangePageSize
  <2>3. CASE Previous
    <3>1. page - 1 \in Nat \ {0}
      BY <1>1, <2>3 DEF Previous
    <3> QED
      BY <1>1, <2>3, <3>1 DEF Previous
  <2>4. CASE NextPage
    <3>1. page + 1 \in Nat \ {0}
      BY <1>1
    <3> QED
      BY <1>1, <2>4, <3>1 DEF NextPage
  <2> QED
    BY <2>1, <2>2, <2>3, <2>4
<1>3. f \in Apps \cup {None}
  BY <1>1
<1>4. /\ shown' \in [Apps \cup {None} -> Nat]
      /\ size' \in PageSizes /\ page' \in Nat \ {0} /\ filter' = f
      /\ PageNotEmpty'
  BY <1>1, <1>2, <1>3, RenderShows
<1>5. UNCHANGED <<db, form, known, load, options>>
  BY <1>2 DEF RenderLicensePage
<1>6. TypeOK'
  BY <1>0, <1>2, <1>4, <1>5 DEF TypeOK, Load, db
<1>7. LoadInv'
  BY <1>0, <1>5, LoadUntouched DEF db
<1> QED
  BY <1>4, <1>6, <1>7 DEF ListInv

LEMMA FormKeeps ==
  ASSUME ListInv,
         \/ \E a \in Apps, quantity \in Quantities : SubmitForm(a, quantity)
         \/ \E k \in Keys : DrawKey(k)
         \/ InsertFails
         \/ \E a \in Apps : CreateApplication(a)
         \/ UNCHANGED vars
  PROVE  ListInv'
<1>0. TypeOK /\ LoadInv /\ PageNotEmpty
  BY DEF ListInv
<1>1. UNCHANGED <<rows, inserts, known, load, options, view>>
  BY DEF SubmitForm, DrawKey, InsertFails, CreateApplication, vars, db
<1>2. LoadInv'
  BY <1>0, <1>1, LoadUntouched
<1>3. PageNotEmpty'
  BY <1>0, <1>1 DEF PageNotEmpty, view
<1>4. apps' \in [Apps -> {"new", "live", "deleted"}]
  BY <1>0 DEF TypeOK, Load, SubmitForm, DrawKey, InsertFails, CreateApplication, vars, db
<1>5. /\ form' \in [pc : {"idle", "drawing", "insert"}, app : Apps \cup {None},
                    quantity : Quantities \cup {0}, drawn : SUBSET Keys]
      /\ form'.pc # "idle" => form'.app \in Apps /\ form'.drawn \subseteq KeysOf[form'.app]
  <2>1. CASE \E a \in Apps, quantity \in Quantities : SubmitForm(a, quantity)
    BY <2>1, ListAssumption DEF SubmitForm
  <2>2. ASSUME NEW k \in Keys, DrawKey(k)
        PROVE  /\ form' \in [pc : {"idle", "drawing", "insert"}, app : Apps \cup {None},
                             quantity : Quantities \cup {0}, drawn : SUBSET Keys]
               /\ form'.app \in Apps /\ form'.drawn \subseteq KeysOf[form'.app]
    BY <1>0, <2>2 DEF TypeOK, Load, DrawKey
  <2>3. CASE InsertFails
    BY <2>3 DEF InsertFails, NoForm
  <2>4. CASE form' = form
    BY <1>0, <2>4 DEF TypeOK, Load
  <2>5. (\E a \in Apps : CreateApplication(a)) \/ UNCHANGED vars => form' = form
    BY DEF CreateApplication, vars
  <2> QED
    BY <2>1, <2>2, <2>3, <2>4, <2>5
<1>6. TypeOK'
  BY <1>0, <1>1, <1>4, <1>5 DEF TypeOK, Load, view
<1> QED
  BY <1>2, <1>3, <1>6 DEF ListInv

-----------------------------------------------------------------------------
LEMMA ListNext == ListInv /\ [Next]_vars => ListInv'
<1> SUFFICES ASSUME ListInv, [Next]_vars PROVE ListInv'
  OBVIOUS
<1>1. ASSUME NEW a \in Apps, DeleteApplication(a) PROVE ListInv'
  BY <1>1, DeleteKeeps
<1>2. CASE InsertLicenses
  BY <1>2, InsertKeeps
<1>3. CASE LoadBatch
  BY <1>3, BatchKeeps
<1>4. CASE StartLoad \/ LoadApplications \/ LoadFails
  BY <1>4, StartKeeps
<1>5. CASE Render
  BY <1>5, RenderKeeps
<1>6. CASE \/ \E f \in Apps \cup {None} : FilterByApplication(f)
           \/ \E sz \in PageSizes : ChangePageSize(sz)
           \/ Previous \/ NextPage
  BY <1>6, BrowseKeeps
<1>7. CASE \/ \E a \in Apps, quantity \in Quantities : SubmitForm(a, quantity)
           \/ \E k \in Keys : DrawKey(k)
           \/ InsertFails
           \/ \E a \in Apps : CreateApplication(a)
           \/ UNCHANGED vars
  BY <1>7, FormKeeps
<1> QED
  BY <1>1, <1>2, <1>3, <1>4, <1>5, <1>6, <1>7 DEF Next

(* The inductive invariant of the list of licenses: of a load in batches    *)
(* (loadLicenses), of the page (renderLicensePage) and of the form          *)
(* (createLicense).                                                         *)
THEOREM ListSound == Spec => []ListInv
BY InitList, ListNext, PTL DEF Spec

(* Type correctness of the list, for any keys, applications and batches.    *)
THEOREM ListTypeCorrect == Spec => []TypeOK
<1>1. ListInv => TypeOK
  BY DEF ListInv
<1> QED
  BY <1>1, ListSound, PTL

(* Whatever is inserted between two batches, the list has each license that *)
(* was there and has a place of its own (loadLicenses).                     *)
THEOREM BatchesMissNothing == Spec => []NothingMissed
<1>1. ListInv => NothingMissed
  BY DEF ListInv, LoadInv
<1> QED
  BY <1>1, ListSound, PTL

(* Whatever is deleted between two batches, the list has none of them twice *)
(* (loadLicenses).                                                          *)
THEOREM BatchesRepeatNothing == Spec => []LoadedOnce
<1>1. ListInv => LoadedOnce
  BY DEF ListInv, LoadInv, Once, LoadedOnce
<1> QED
  BY <1>1, ListSound, PTL

(* The page is not beyond the list (renderLicensePage).                     *)
THEOREM PageStaysInList == Spec => []PageNotEmpty
<1>1. ListInv => PageNotEmpty
  BY DEF ListInv
<1> QED
  BY <1>1, ListSound, PTL

-----------------------------------------------------------------------------
(* The loop of createLicense is left with exactly the keys asked for.       *)
Counted ==
  /\ form.pc = "drawing" => Cardinality(form.drawn) < form.quantity
  /\ form.pc = "insert" => Cardinality(form.drawn) = form.quantity

LEMMA CountedNext ==
  ASSUME TypeOK, Counted, [Next]_vars PROVE Counted'
<1>1. CASE UNCHANGED form
  BY <1>1 DEF Counted
<1>2. ASSUME NEW a \in Apps, NEW quantity \in Quantities, SubmitForm(a, quantity)
      PROVE  Counted'
  <2>1. form' = [pc |-> "drawing", app |-> a, quantity |-> quantity, drawn |-> {}]
    BY <1>2 DEF SubmitForm
  <2>2. quantity > 0 /\ Cardinality({}) = 0
    BY ListAssumption, FS_EmptySet
  <2> QED
    BY <2>1, <2>2 DEF Counted
<1>3. ASSUME NEW k \in Keys, DrawKey(k) PROVE Counted'
  <2> DEFINE drawn == form.drawn \cup {k}
  <2>1. /\ form.pc = "drawing" /\ k \notin form.drawn
        /\ form' = [form EXCEPT !.drawn = drawn,
             !.pc = IF Enough(Cardinality(drawn), form.quantity) THEN "insert" ELSE @]
    BY <1>3 DEF DrawKey
  <2>2. IsFiniteSet(form.drawn)
    BY ListAssumption, FS_Subset DEF TypeOK
  <2>3. /\ Cardinality(form.drawn) \in Nat
        /\ Cardinality(drawn) = Cardinality(form.drawn) + 1
    BY <2>1, <2>2, FS_CardinalityType, FS_AddElement
  <2>4. form.quantity \in Nat /\ Cardinality(form.drawn) < form.quantity
    BY <2>1, ListAssumption DEF TypeOK, Counted
  <2> HIDE DEF drawn
  <2>5. /\ form'.drawn = drawn /\ form'.quantity = form.quantity
        /\ form'.pc = IF Cardinality(drawn) >= form.quantity THEN "insert" ELSE "drawing"
    BY <2>1 DEF TypeOK, Enough
  <2> QED
    BY <2>3, <2>4, <2>5 DEF Counted
<1>4. CASE InsertLicenses \/ InsertFails
  BY <1>4 DEF InsertLicenses, InsertFails, NoForm, Counted
<1>5. CASE \/ \E a \in Apps : CreateApplication(a) \/ DeleteApplication(a)
           \/ StartLoad \/ LoadApplications \/ LoadBatch \/ LoadFails
           \/ UNCHANGED vars
  <2>1. UNCHANGED form
    BY <1>5 DEF CreateApplication, DeleteApplication, StartLoad, LoadApplications,
                LoadBatch, LoadFails, vars
  <2> QED
    BY <1>1, <2>1
<1>6. CASE \/ Render \/ Previous \/ NextPage
           \/ \E f \in Apps \cup {None} : FilterByApplication(f)
           \/ \E sz \in PageSizes : ChangePageSize(sz)
  <2>1. UNCHANGED form
    BY <1>6 DEF Render, Previous, NextPage, FilterByApplication, ChangePageSize,
                RenderLicensePage
  <2> QED
    BY <1>1, <2>1
<1> QED
  BY <1>2, <1>3, <1>4, <1>5, <1>6 DEF Next

(* What is inserted is as many keys as the owner asked for, and the loop    *)
(* that draws them always has another key to draw, unless more were asked   *)
(* for than the format has (createLicense).                                 *)
THEOREM DrawingGoesOn ==
  Spec => [](/\ form.pc = "insert" => Cardinality(form.drawn) = form.quantity
             /\ /\ form.pc = "drawing"
                /\ form.quantity <= Cardinality(KeysOf[form.app])
                => KeysOf[form.app] \ form.drawn # {})
<1>1. Init => Counted
  BY DEF Init, NoForm, Counted
<1>2. TypeOK /\ Counted /\ [Next]_vars => Counted'
  BY CountedNext
<1>3. TypeOK /\ Counted =>
        (/\ form.pc = "insert" => Cardinality(form.drawn) = form.quantity
         /\ /\ form.pc = "drawing"
            /\ form.quantity <= Cardinality(KeysOf[form.app])
            => KeysOf[form.app] \ form.drawn # {})
  <2> SUFFICES ASSUME TypeOK, Counted, form.pc = "drawing",
                      form.quantity <= Cardinality(KeysOf[form.app])
               PROVE  KeysOf[form.app] \ form.drawn # {}
    BY DEF Counted
  <2>1. form.drawn \subseteq KeysOf[form.app] /\ KeysOf[form.app] \subseteq Keys
    BY ListAssumption DEF TypeOK
  <2>2. form.quantity \in Nat /\ Cardinality(form.drawn) < form.quantity
    BY ListAssumption DEF TypeOK, Counted
  <2>3. Cardinality(form.drawn) \in Nat /\ Cardinality(KeysOf[form.app]) \in Nat
    BY <2>1, ListAssumption, FS_Subset, FS_CardinalityType DEF TypeOK
  <2>4. form.drawn # KeysOf[form.app]
    BY <2>2, <2>3
  <2> QED
    BY <2>1, <2>4
<1> QED
  BY <1>1, <1>2, <1>3, ListTypeCorrect, PTL DEF Spec
=============================================================================
