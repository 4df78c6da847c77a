-------------------------- MODULE PublishingProofs --------------------------
(***************************************************************************)
(* Proofs about Publishing, for any developers, keys, ids and trees.       *)
(***************************************************************************)
EXTENDS Publishing, FiniteSetTheorems, TLAPS

(* An entry is about its archive: signed, covered, and read by the tool.   *)
IsPublished(e) == Verifies(e.sha) /\ CliParses(e.sha.files.man) /\ e = EntryOf(e.sha)

(* The registry's checks have passed the published index.                  *)
Reviewed ==
  /\ OneKey(main.index)
  /\ \A e \in Listed(main) : RegistryTakes(main.packages[Name(e.man)], e)

(* An application installed with pins is that of an entry.                 *)
DeviceIsListed ==
  \A i \in Ids : device[i] \notin {None, Other} =>
    \E e \in Listed(main) : e.sha = device[i] /\ e.man.id = i

(* An index grows in one order: by id, and by version within an id.        *)
Precedes(e, f) ==
  \/ e.man.id < f.man.id
  \/ e.man.id = f.man.id /\ e.man.ver < f.man.ver

Sorted(index) ==
  \A i, j \in 1..Len(index) : i < j => Precedes(index[i], index[j])

(* A package in dist has the name of its manifest, signed or not.          *)
PackagesAreNamed ==
  \A d \in Devs, n \in Names :
    swa[d][n] # None => Name(swa[d][n].files.man) = n

(* The properties are not inductive alone: what is merged comes from the   *)
(* proposal, and what is on the device from what is merged.                *)
StoreInv ==
  /\ branch.index \in Seq(Entries)
  /\ main.index \in Seq(Entries)
  /\ Listed(main) \subseteq Listed(branch)
  /\ Sorted(branch.index) /\ Sorted(main.index)
  /\ \A e \in Listed(branch) : IsPublished(e)
  /\ Reviewed
  /\ DeviceIsListed

-----------------------------------------------------------------------------
(* There are n numbers from 1 to n.                                        *)
LEMMA IntervalSize ==
  ASSUME NEW n \in Nat
  PROVE  IsFiniteSet(1..n) /\ Cardinality(1..n) = n
<1>1. 1 \in Int /\ n \in Int
  OBVIOUS
<1>2. /\ IsFiniteSet(1..n)
      /\ Cardinality(1..n) = IF 1 > n THEN 0 ELSE n - 1 + 1
  BY <1>1, FS_Interval
<1> QED BY <1>2

(* Where an entry goes in.                                                 *)
Place(index, e) == Cardinality({i \in 1..Len(index) : Before(index[i], e)}) + 1

(* What is before it, and what is behind it, stays in its order.           *)
LEMMA AddedAt ==
  ASSUME NEW S, NEW index \in Seq(S), NEW e \in S
  PROVE  /\ Place(index, e) \in 1..Len(index) + 1
         /\ Added(index, e) \in Seq(S)
         /\ Len(Added(index, e)) = Len(index) + 1
         /\ \A i \in 1..Len(index) + 1 :
              Added(index, e)[i] =
                IF i < Place(index, e) THEN index[i]
                ELSE IF i = Place(index, e) THEN e ELSE index[i - 1]
<1> DEFINE earlier == {i \in 1..Len(index) : Before(index[i], e)}
           at == Cardinality(earlier) + 1
           new == SubSeq(index, 1, at - 1) \o <<e>> \o SubSeq(index, at, Len(index))
<1>1. Cardinality(earlier) \in Nat /\ Cardinality(earlier) <= Len(index)
  <2>1. IsFiniteSet(1..Len(index)) /\ Cardinality(1..Len(index)) = Len(index)
    <3>1. Len(index) \in Nat
      OBVIOUS
    <3> QED BY <3>1, IntervalSize
  <2>2. earlier \in SUBSET (1..Len(index))
    OBVIOUS
  <2>3. IsFiniteSet(earlier) /\ Cardinality(earlier) <= Len(index)
    BY <2>1, <2>2, FS_Subset
  <2> QED BY <2>3, FS_CardinalityType
<1>2. at \in 1..Len(index) + 1 /\ at \in Nat /\ Len(index) \in Nat
  BY <1>1
<1> HIDE DEF earlier, at
<1>3. Added(index, e) = new
  BY DEF Added, InsertAt, at, earlier
<1>4. /\ new \in Seq(S)
      /\ Len(new) = Len(index) + 1
      /\ \A i \in 1..Len(index) + 1 :
           new[i] = IF i < at THEN index[i] ELSE IF i = at THEN e ELSE index[i - 1]
  <2> DEFINE front == SubSeq(index, 1, at - 1)
             back  == SubSeq(index, at, Len(index))
  <2>1. /\ front \in Seq(S) /\ Len(front) = at - 1
        /\ \A i \in 1..at - 1 : front[i] = index[i]
    BY <1>2
  <2>2. /\ back \in Seq(S) /\ Len(back) = Len(index) - at + 1
        /\ \A i \in 1..Len(index) - at + 1 : back[i] = index[at + i - 1]
    BY <1>2
  <2> DEFINE head == front \o <<e>>
  <2> HIDE DEF front, back
  <2>3. /\ head \in Seq(S) /\ Len(head) = at
        /\ \A i \in 1..at : head[i] = IF i < at THEN index[i] ELSE e
    BY <1>2, <2>1
  <2> HIDE DEF head
  <2>4. (head \o back) \in Seq(S)
    BY <2>2, <2>3
  <2>5. Len(head \o back) = Len(index) + 1
    <3>1. Len(head \o back) = Len(head) + Len(back)
      BY <2>2, <2>3
    <3> QED BY <1>2, <2>2, <2>3, <3>1
  <2>6. ASSUME NEW i \in 1..Len(index) + 1
        PROVE  (head \o back)[i]
                 = IF i < at THEN index[i] ELSE IF i = at THEN e ELSE index[i - 1]
    <3>1. CASE i <= at
      BY <1>2, <2>2, <2>3, <3>1
    <3>2. CASE i > at
      <4>1. (head \o back)[i] = back[i - at]
        BY <1>2, <2>2, <2>3, <3>2
      <4>2. i - at \in 1..Len(index) - at + 1 /\ at + (i - at) - 1 = i - 1
        BY <1>2, <3>2
      <4>3. back[i - at] = index[at + (i - at) - 1]
        BY <2>2, <4>2
      <4>4. ~(i < at) /\ i # at
        BY <1>2, <3>2
      <4> QED BY <4>1, <4>2, <4>3, <4>4
    <3>3. i <= at \/ i > at
      BY <1>2
    <3> QED BY <3>1, <3>2, <3>3
  <2> QED BY <2>4, <2>5, <2>6 DEF head, front, back
<1> HIDE DEF new
<1>5. Place(index, e) = at
  BY DEF Place, at, earlier
<1> QED BY <1>2, <1>3, <1>4, <1>5

(* What is listed then.                                                    *)
LEMMA AddedListed ==
  ASSUME NEW S, NEW index \in Seq(S), NEW e \in S
  PROVE  /\ Added(index, e) \in Seq(S)
         /\ Range(Added(index, e)) = Range(index) \cup {e}
<1> DEFINE at == Place(index, e)
           new == Added(index, e)
<1>1. /\ at \in 1..Len(index) + 1
      /\ new \in Seq(S)
      /\ Len(new) = Len(index) + 1
      /\ \A i \in 1..Len(index) + 1 :
           new[i] = IF i < at THEN index[i] ELSE IF i = at THEN e ELSE index[i - 1]
  <2>1. e \in S /\ index \in Seq(S)
    OBVIOUS
  <2> QED BY <2>1, AddedAt
<1> HIDE DEF at, new
<1>2. at \in 1..Len(index) + 1 /\ at \in Nat /\ Len(index) \in Nat
  BY <1>1
<1>3. Added(index, e) = new
  BY DEF new
<1>4. new \in Seq(S) /\ Len(new) = Len(index) + 1
      /\ \A i \in 1..Len(index) + 1 :
           new[i] = IF i < at THEN index[i] ELSE IF i = at THEN e ELSE index[i - 1]
  BY <1>1
<1>5. {new[i] : i \in 1..Len(new)} = {index[i] : i \in 1..Len(index)} \cup {e}
  <2>1. ASSUME NEW i \in 1..Len(new)
        PROVE  new[i] \in {index[j] : j \in 1..Len(index)} \cup {e}
    <3>1. i < at => i \in 1..Len(index)
      BY <1>2, <1>4
    <3>2. i > at => i - 1 \in 1..Len(index)
      BY <1>2, <1>4
    <3> QED BY <1>2, <1>4, <3>1, <3>2
  <2>2. ASSUME NEW j \in 1..Len(index)
        PROVE  index[j] \in {new[i] : i \in 1..Len(new)}
    <3>1. CASE j < at
      <4>1. j \in 1..Len(new) /\ new[j] = index[j]
        BY <1>4, <3>1
      <4> QED BY <4>1
    <3>2. CASE ~(j < at)
      <4>1. j + 1 \in 1..Len(new) /\ new[j + 1] = index[j]
        BY <1>2, <1>4, <3>2
      <4> QED BY <4>1
    <3> QED BY <3>1, <3>2
  <2>3. e \in {new[i] : i \in 1..Len(new)}
    <3>1. at \in 1..Len(new) /\ new[at] = e
      BY <1>2, <1>4
    <3> QED BY <3>1
  <2> QED BY <2>1, <2>2, <2>3
<1>6. Range(new) = Range(index) \cup {e}
  <2>1. Range(new) = {new[i] : i \in 1..Len(new)}
    BY <1>4 DEF Range
  <2>2. Range(index) = {index[i] : i \in 1..Len(index)}
    BY DEF Range
  <2> QED BY <1>5, <2>1, <2>2
<1> QED BY <1>3, <1>4, <1>6

(* The entries that come before another are the first ones of a sorted     *)
(* index, so their number is where the other one goes.                     *)
LEMMA EarlierAreFirst ==
  ASSUME PublishingAssumption, NEW index \in Seq(Entries), NEW e \in Entries,
         Sorted(index), NEW i \in 1..Len(index)
  PROVE  Before(index[i], e) <=> i < Place(index, e)
<1> DEFINE earlier == {j \in 1..Len(index) : Before(index[j], e)}
           n == Len(index)
<1>0. n \in Nat /\ i \in Nat
  OBVIOUS
<1>1. IsFiniteSet(1..n) /\ \A j \in 1..n : IsFiniteSet(1..j) /\ Cardinality(1..j) = j
  BY <1>0, IntervalSize
<1>2. IsFiniteSet(earlier) /\ Cardinality(earlier) \in Nat
  <2>1. earlier \in SUBSET (1..n)
    OBVIOUS
  <2>2. IsFiniteSet(earlier)
    BY <1>1, <2>1, FS_Subset
  <2> QED BY <2>2, FS_CardinalityType
<1>3. \A j \in 1..n : index[j] \in Entries
  OBVIOUS
<1>4. \A f \in Entries : f.man.id \in Nat /\ f.man.ver \in Nat
  BY DEF Entries, Manifests, PublishingAssumption
<1>5. ASSUME NEW j \in 1..n, NEW k \in earlier, j <= k PROVE j \in earlier
  <2>1. j = k \/ Precedes(index[j], index[k])
    BY <1>0, <1>5 DEF Sorted
  <2>2. Before(index[k], e) /\ k \in 1..n
    OBVIOUS
  <2>3. CASE Precedes(index[j], index[k])
    <3> DEFINE f == index[j].man
               g == index[k].man
               h == e.man
    <3>1. /\ f.id \in Nat /\ g.id \in Nat /\ h.id \in Nat
          /\ f.ver \in Nat /\ g.ver \in Nat /\ h.ver \in Nat
      BY <1>3, <1>4, <2>2
    <3>2. /\ f.id < g.id \/ (f.id = g.id /\ f.ver < g.ver)
          /\ g.id < h.id \/ (g.id = h.id /\ g.ver <= h.ver)
      BY <2>2, <2>3 DEF Precedes, Before
    <3> HIDE DEF f, g, h
    <3>3. f.id < h.id \/ (f.id = h.id /\ f.ver <= h.ver)
      BY <3>1, <3>2
    <3> QED BY <2>2, <3>3 DEF Before, f, h
  <2> QED BY <2>1, <2>3
<1>6. ASSUME i \in earlier PROVE i <= Cardinality(earlier)
  <2>1. (1..i) \in SUBSET earlier
    BY <1>0, <1>5, <1>6
  <2>2. Cardinality(1..i) <= Cardinality(earlier)
    BY <1>2, <2>1, FS_Subset
  <2> QED BY <1>1, <1>6, <2>2
<1>7. ASSUME i \notin earlier PROVE ~(i <= Cardinality(earlier))
  <2>1. \A k \in earlier : k < i
    BY <1>0, <1>5, <1>7
  <2>2. earlier \in SUBSET (1..i - 1)
    BY <1>0, <2>1
  <2>3. i - 1 \in Nat
    OBVIOUS
  <2>4. IsFiniteSet(1..i - 1) /\ Cardinality(1..i - 1) = i - 1
    BY <2>3, IntervalSize
  <2>5. Cardinality(earlier) <= Cardinality(1..i - 1)
    BY <2>2, <2>4, FS_Subset
  <2> QED BY <1>2, <1>7, <2>4, <2>5
<1>8. Place(index, e) = Cardinality(earlier) + 1
  BY DEF Place
<1>9. Before(index[i], e) <=> i \in earlier
  OBVIOUS
<1> HIDE DEF earlier
<1>10. i < Cardinality(earlier) + 1 <=> i <= Cardinality(earlier)
  BY <1>0, <1>2
<1> QED BY <1>6, <1>7, <1>8, <1>9, <1>10

(* A new version goes in where it keeps the index sorted.                  *)
LEMMA AddedSorted ==
  ASSUME PublishingAssumption, NEW index \in Seq(Entries), NEW e \in Entries,
         Sorted(index), \A f \in Range(index) : Name(f.man) # Name(e.man)
  PROVE  Sorted(Added(index, e))
<1> DEFINE at == Place(index, e)
           new == Added(index, e)
<1>1. /\ at \in 1..Len(index) + 1
      /\ Len(new) = Len(index) + 1
      /\ \A i \in 1..Len(index) + 1 :
           new[i] = IF i < at THEN index[i] ELSE IF i = at THEN e ELSE index[i - 1]
  <2>1. e \in Entries /\ index \in Seq(Entries)
    OBVIOUS
  <2> QED BY <2>1, AddedAt
<1>2. \A i \in 1..Len(index) : Before(index[i], e) <=> i < at
  BY EarlierAreFirst
<1> HIDE DEF at, new
<1>3. at \in Nat /\ Len(index) \in Nat
  BY <1>1
<1>4. \A f \in Entries : f.man.id \in Nat /\ f.man.ver \in Nat
  BY DEF Entries, Manifests, PublishingAssumption
<1>5. \A i \in 1..Len(index) : /\ index[i] \in Entries
                               /\ Name(index[i].man) # Name(e.man)
  BY DEF Range
<1>6. \A i \in 1..Len(index) : i < at => Precedes(index[i], e)
  BY <1>2, <1>4, <1>5 DEF Before, Precedes, Name
<1>7. \A i \in 1..Len(index) : i >= at => Precedes(e, index[i])
  BY <1>2, <1>3, <1>4, <1>5 DEF Before, Precedes, Name
<1>8. ASSUME NEW i \in 1..Len(new), NEW j \in 1..Len(new), i < j
      PROVE  Precedes(new[i], new[j])
  <2>0. i \in 1..Len(index) + 1 /\ j \in 1..Len(index) + 1 /\ i \in Nat /\ j \in Nat
    BY <1>1, <1>8
  <2>1. CASE j < at
    <3>1. new[i] = index[i] /\ new[j] = index[j] /\ i \in 1..Len(index) /\ j \in 1..Len(index)
      BY <1>1, <1>3, <1>8, <2>0, <2>1
    <3> QED BY <1>8, <3>1 DEF Sorted
  <2>2. CASE j = at
    <3>1. new[i] = index[i] /\ new[j] = e /\ i \in 1..Len(index) /\ i < at
      BY <1>1, <1>3, <1>8, <2>0, <2>2
    <3> QED BY <1>6, <3>1
  <2>3. CASE i = at
    <3>1. new[i] = e /\ new[j] = index[j - 1] /\ j - 1 \in 1..Len(index) /\ j - 1 >= at
      BY <1>1, <1>3, <1>8, <2>0, <2>3
    <3> QED BY <1>7, <3>1
  <2>4. CASE i < at /\ j > at
    <3>1. /\ new[i] = index[i] /\ new[j] = index[j - 1]
          /\ i \in 1..Len(index) /\ j - 1 \in 1..Len(index) /\ i < j - 1
      BY <1>1, <1>3, <1>8, <2>0, <2>4
    <3> QED BY <3>1 DEF Sorted
  <2>5. CASE i > at
    <3>1. /\ new[i] = index[i - 1] /\ new[j] = index[j - 1]
          /\ i - 1 \in 1..Len(index) /\ j - 1 \in 1..Len(index) /\ i - 1 < j - 1
      BY <1>1, <1>3, <1>8, <2>0, <2>5
    <3> QED BY <3>1 DEF Sorted
  <2> QED BY <1>3, <1>8, <2>0, <2>1, <2>2, <2>3, <2>4, <2>5
<1> QED BY <1>8 DEF Sorted, new

(* A sorted index is in the order validate.mjs asks for.                   *)
LEMMA SortedInOrder ==
  ASSUME PublishingAssumption, NEW index \in Seq(Entries), Sorted(index)
  PROVE  InOrder(index)
<1>1. \A f \in Entries : f.man.id \in Nat /\ f.man.ver \in Nat
  BY DEF Entries, Manifests, PublishingAssumption
<1>2. \A i \in 1..Len(index) : index[i] \in Entries
  OBVIOUS
<1>3. ASSUME NEW i \in 1..Len(index), NEW j \in 1..Len(index), i < j,
             SameId(index[i], index[j])
      PROVE  /\ index[i].man.ver < index[j].man.ver
             /\ \A k \in i..j : SameId(index[i], index[k])
  <2>1. Precedes(index[i], index[j])
    BY <1>3 DEF Sorted
  <2>2. index[i].man.ver < index[j].man.ver
    BY <1>1, <1>2, <1>3, <2>1 DEF Precedes, SameId
  <2>3. ASSUME NEW k \in i..j PROVE SameId(index[i], index[k])
    <3>1. k \in 1..Len(index)
      OBVIOUS
    <3>2. (k = i \/ Precedes(index[i], index[k])) /\ (k = j \/ Precedes(index[k], index[j]))
      BY <3>1 DEF Sorted
    <3> QED BY <1>1, <1>2, <1>3, <3>1, <3>2 DEF Precedes, SameId
  <2> QED BY <2>2, <2>3
<1> QED BY <1>3 DEF InOrder

(* A build leaves files in dist, and their package has a name.             *)
LEMMA BuiltType ==
  ASSUME PublishingAssumption, TypeOK, NEW d \in Devs
  PROVE  Built(d) \in Files
<1>1. tree[d] \in Trees
  BY DEF TypeOK
<1>2. tree[d].man \in Manifests /\ tree[d].body \in Contents
  BY <1>1 DEF PublishingAssumption, Bodies, Contents
<1> QED BY <1>2 DEF Built, Files

LEMMA NameType ==
  ASSUME NEW f \in Files
  PROVE  Name(f.man) \in Names
BY DEF Files, Manifests, Name, Names

(* A package that verifies makes an entry.                                 *)
LEMMA EntryType ==
  ASSUME NEW a \in Archives, a.sig # None
  PROVE  EntryOf(a) \in Entries
BY DEF Archives, Documents, Files, Entries, EntryOf

-----------------------------------------------------------------------------
(* Type correctness.                                                       *)
LEMMA TypeInit == ASSUME PublishingAssumption, Init PROVE TypeOK
<1>1. Empty \in [Names -> Archives \cup {None}]
  BY DEF Empty
<1>2. << >> \in Seq(Entries)
  OBVIOUS
<1>3. branch \in Catalogs /\ main \in Catalogs
  BY <1>1, <1>2 DEF Init, Catalogs
<1>4. made \subseteq Keys
  BY DEF Init, Range
<1> QED BY <1>1, <1>3, <1>4 DEF Init, TypeOK, PublishingAssumption

(* What packaging leaves in dist.                                          *)
LEMMA PackType ==
  ASSUME TypeOK, NEW d \in Devs, NEW f \in Files,
         NEW others \in [Names -> Archives \cup {None}], Pack(d, f, others)
  PROVE  TypeOK'
<1>1. Archived(f, None) \in Archives
  BY DEF Archives, Archived
<1>2. [others EXCEPT ![Name(f.man)] = Archived(f, None)]
        \in [Names -> Archives \cup {None}]
  BY <1>1
<1>3. swa' \in [Devs -> [Names -> Archives \cup {None}]]
  BY <1>2 DEF Pack, TypeOK
<1>4. dist' \in [Devs -> Files \cup {None}]
  BY DEF Pack, TypeOK
<1> QED BY <1>3, <1>4 DEF Pack, TypeOK, store

LEMMA SignType ==
  ASSUME PublishingAssumption, TypeOK, NEW d \in Devs, NEW n \in Names, Sign(d, n)
  PROVE  TypeOK'
<1> DEFINE doc == Document(key[d], swa[d][n].files, signs')
           new == Archived(swa[d][n].files, doc)
<1>1. swa[d][n] \in Archives
  BY DEF Sign, TypeOK
<1>2. signs' \in 1..MaxSigns
  BY DEF Sign, TypeOK, PublishingAssumption
<1>3. doc \in Documents
  BY <1>1, <1>2 DEF Document, Documents, Archives, TypeOK
<1>4. new \in Archives
  BY <1>1, <1>3 DEF Archives, Archived
<1>5. swa' = [swa EXCEPT ![d] = [swa[d] EXCEPT ![n] = new]]
  BY DEF Sign, TypeOK
<1>6. [swa[d] EXCEPT ![n] = new] \in [Names -> Archives \cup {None}]
  BY <1>4 DEF TypeOK
<1>7. swa' \in [Devs -> [Names -> Archives \cup {None}]]
  BY <1>5, <1>6 DEF TypeOK
<1>8. signs' \in 0..MaxSigns
  BY <1>2
<1> QED BY <1>7, <1>8 DEF Sign, TypeOK, store

(* What publishing leaves in dist.                                         *)
LEMMA WritesEntryType ==
  ASSUME TypeOK, NEW d \in Devs, NEW n \in Names, WritesEntry(d, n)
  PROVE  dist' \in [Devs -> Files \cup {None}]
<1>1. dist[d] \in Files
  BY DEF WritesEntry, TypeOK
<1>2. [dist[d] EXCEPT !.entryFile = TRUE] \in Files
  BY <1>1 DEF Files
<1>3. dist' = [dist EXCEPT ![d] = [dist[d] EXCEPT !.entryFile = TRUE]]
  BY DEF WritesEntry, TypeOK
<1> QED BY <1>2, <1>3 DEF TypeOK

(* What publishing makes of the proposed index.                            *)
LEMMA PublishIndex ==
  ASSUME TypeOK, NEW d \in Devs, NEW n \in Names, Publish(d, n)
  PROVE  /\ branch' \in Catalogs
         /\ branch'.packages = branch.packages
         /\ Listed(branch') = Listed(branch) \cup {EntryOf(swa[d][n])}
         /\ EntryOf(swa[d][n]) \in Entries
<1> DEFINE e == EntryOf(swa[d][n])
           index == branch.index
<1>1. swa[d][n] \in Archives /\ swa[d][n].sig # None
  BY DEF Publish, PublishAs, WritesEntry, Verifies, TypeOK
<1>2. e \in Entries
  BY <1>1, EntryType
<1>3. index \in Seq(Entries) /\ branch.packages \in [Names -> Archives \cup {None}]
  BY DEF TypeOK, Catalogs
<1>4. branch' = [index |-> Added(index, e), packages |-> branch.packages]
  BY DEF Publish, PublishAs, TypeOK, Catalogs
<1>5. Listed(branch) = Range(index)
  BY DEF Listed
<1> HIDE DEF e, index
<1>6. Added(index, e) \in Seq(Entries)
  BY <1>2, <1>3, AddedListed
<1>7. Range(Added(index, e)) = Range(index) \cup {e}
  BY <1>2, <1>3, AddedListed
<1>8. Listed(branch') = Listed(branch) \cup {e}
  BY <1>4, <1>5, <1>7 DEF Listed
<1>9. branch' \in Catalogs
  BY <1>3, <1>4, <1>6 DEF Catalogs
<1> QED BY <1>2, <1>4, <1>8, <1>9 DEF e

(* Nothing but a known id is installed under a known id.                   *)
LEMMA InstallType ==
  ASSUME TypeOK, NEW a \in Archives, NEW unsigned, NEW pin, Install(a, unsigned, pin)
  PROVE  TypeOK'
<1>1. device' \in [Ids -> Archives \cup {None, Other}]
  BY DEF Install, TypeOK
<1> QED BY <1>1 DEF Install, TypeOK, store, project

LEMMA FetchedType ==
  ASSUME TypeOK, NEW n \in Names, NEW a \in Fetched(n)
  PROVE  a \in Archives
<1>1. hosted[n] \in Archives
  BY DEF Fetched, TypeOK
<1>2. [hosted[n] EXCEPT !.files.body = Spoilt] \in Archives
  BY <1>1 DEF Archives, Files, Contents
<1> QED BY <1>1, <1>2 DEF Fetched

(* What a merged entry names is a package's name.                          *)
LEMMA ListedType ==
  ASSUME TypeOK, NEW e \in Listed(main)
  PROVE  e \in Entries /\ Name(e.man) \in Names /\ Name(e.sha.files.man) \in Names
<1>1. main.index \in Seq(Entries)
  BY DEF TypeOK, Catalogs
<1>2. e \in Entries
  BY <1>1 DEF Listed, Range
<1> QED BY <1>2 DEF Entries, Archives, Files, Manifests, Name, Names

LEMMA TypeStep == ASSUME PublishingAssumption, TypeOK, [Next]_vars PROVE TypeOK'
<1>1. ASSUME NEW d \in Devs, NEW t \in Trees, Edit(d, t) PROVE TypeOK'
  BY <1>1 DEF Edit, TypeOK, store, PublishingAssumption
<1>2. ASSUME NEW d \in Devs, NEW k \in Keys, Keygen(d, k) PROVE TypeOK'
  BY <1>2 DEF Keygen, TypeOK, store, PublishingAssumption
<1>3. \A d \in Devs : Built(d) \in Files
  BY BuiltType
<1>4. Empty \in [Names -> Archives \cup {None}]
  BY DEF Empty
<1>5. ASSUME NEW d \in Devs, Build(d) \/ BuildFails(d) PROVE TypeOK'
  <2>1. CASE Build(d)
    BY <1>3, <1>4, <2>1 DEF Build, TypeOK, store
  <2>2. CASE BuildFails(d)
    BY <1>4, <2>2 DEF BuildFails, TypeOK, store
  <2> QED BY <1>5, <2>1, <2>2
<1>6. ASSUME NEW d \in Devs, Package(d) PROVE TypeOK'
  BY <1>3, <1>4, <1>6, PackType DEF Package
<1>7. ASSUME NEW d \in Devs, PackageNoBuild(d) PROVE TypeOK'
  <2>1. dist[d] \in Files /\ swa[d] \in [Names -> Archives \cup {None}]
    BY <1>7 DEF PackageNoBuild, TypeOK
  <2> QED BY <1>7, <2>1, PackType DEF PackageNoBuild
<1>8. ASSUME NEW d \in Devs, NEW n \in Names, Sign(d, n) PROVE TypeOK'
  BY <1>8, SignType
<1>9. ASSUME NEW d \in Devs, NEW n \in Names, Publish(d, n) PROVE TypeOK'
  <2>1. branch' \in Catalogs
    BY <1>9, PublishIndex
  <2>2. dist' \in [Devs -> Files \cup {None}]
    BY <1>9, WritesEntryType DEF Publish, PublishAs
  <2> QED BY <1>9, <2>1, <2>2 DEF Publish, PublishAs, TypeOK
<1>10. ASSUME NEW d \in Devs, NEW n \in Names, Upload(d, n) PROVE TypeOK'
  BY <1>10 DEF Upload, TypeOK, project, store
<1>11. ASSUME NEW d \in Devs, NEW n \in Names, CheckIn(d, n) PROVE TypeOK'
  <2>1. swa[d][n] \in Archives \cup {None}
    BY DEF TypeOK
  <2>2. branch' = [index |-> branch.index,
                   packages |-> [branch.packages EXCEPT ![n] = swa[d][n]]]
    BY <1>11 DEF CheckIn, TypeOK, Catalogs
  <2>3. branch' \in Catalogs
    BY <2>1, <2>2 DEF TypeOK, Catalogs
  <2> QED BY <1>11, <2>3 DEF CheckIn, TypeOK, project
<1>12. ASSUME NEW d \in Devs, NEW n \in Names, InstallFile(d, n) \/ CliInstall(d, n)
       PROVE  TypeOK'
  <2>1. swa[d][n] \in Archives
    <3>1. swa[d][n] \in Archives \cup {None}
      BY DEF TypeOK
    <3>2. swa[d][n] # None
      BY <1>12 DEF InstallFile, CliInstall
    <3> QED BY <3>1, <3>2
  <2> QED BY <1>12, <2>1, InstallType DEF InstallFile, CliInstall
<1>13. ASSUME Merge \/ Close PROVE TypeOK'
  BY <1>13 DEF Merge, Close, TypeOK, project
<1>14. ASSUME NEW n \in Names, InstallUrl(n) PROVE TypeOK'
  BY <1>14, FetchedType, InstallType DEF InstallUrl
<1>15. ASSUME NEW e \in Listed(main), InstallPinned(e) PROVE TypeOK'
  BY <1>15, ListedType, FetchedType, InstallType DEF InstallPinned
<1>16. ASSUME NEW i \in Ids, Uninstall(i) PROVE TypeOK'
  BY <1>16 DEF Uninstall, TypeOK, project, store
<1>17. ASSUME UNCHANGED vars PROVE TypeOK'
  BY <1>17 DEF vars, project, store, TypeOK
<1>18. ASSUME NEW d \in Devs, NEW n \in Names, PublishDry(d, n) PROVE TypeOK'
  BY <1>18, WritesEntryType DEF PublishDry, TypeOK, store
<1> QED
  BY <1>1, <1>2, <1>5, <1>6, <1>7, <1>8, <1>9, <1>10, <1>11, <1>12, <1>13,
     <1>14, <1>15, <1>16, <1>17, <1>18 DEF Next, Develop

-----------------------------------------------------------------------------
(* What every step but Publish, Merge, Close and the installs leaves alone.*)
LEMMA StoreStutters ==
  ASSUME StoreInv, branch'.index = branch.index, main' = main, device' = device
  PROVE  StoreInv'
BY DEF StoreInv, Reviewed, DeviceIsListed, Listed, OneKey

(* An entry is added to the proposal only.                                 *)
LEMMA PublishKeeps ==
  ASSUME PublishingAssumption, TypeOK, PackagesAreNamed, StoreInv,
         NEW d \in Devs, NEW n \in Names, Publish(d, n)
  PROVE  StoreInv'
<1> DEFINE a == swa[d][n]
<1>1. /\ branch'.index \in Seq(Entries)
      /\ Listed(branch') = Listed(branch) \cup {EntryOf(a)}
  BY PublishIndex DEF Catalogs
<1>2. IsPublished(EntryOf(a))
  BY DEF Publish, PublishAs, WritesEntry, IsPublished, EntryOf
<1>3. main' = main /\ device' = device
  BY DEF Publish, PublishAs
<1>4. \A e \in Listed(branch') : IsPublished(e)
  BY <1>1, <1>2 DEF StoreInv
<1>5. Listed(main') \subseteq Listed(branch')
  BY <1>1, <1>3 DEF StoreInv
<1>6. Reviewed' /\ DeviceIsListed'
  BY <1>3 DEF StoreInv, Reviewed, DeviceIsListed
<1>7. Sorted(branch'.index)
  <2> DEFINE index == branch.index
  <2>1. index \in Seq(Entries) /\ Sorted(index)
    BY DEF StoreInv
  <2>2. EntryOf(a) \in Entries /\ branch'.index = Added(index, EntryOf(a))
    BY PublishIndex DEF Publish, PublishAs, TypeOK, Catalogs
  <2>3. \A f \in Range(index) : Name(f.man) # n
    BY DEF Publish, Listed
  <2>4. Name(EntryOf(a).man) = n
    BY DEF EntryOf, Publish, PublishAs, WritesEntry, PackagesAreNamed
  <2> QED BY <2>1, <2>2, <2>3, <2>4, AddedSorted
<1> QED BY <1>1, <1>3, <1>4, <1>5, <1>6, <1>7 DEF StoreInv

LEMMA MergeKeeps == ASSUME StoreInv, Merge PROVE StoreInv'
<1>1. main' = branch /\ branch' = branch /\ device' = device
  BY DEF Merge
<1>2. Reviewed'
  BY <1>1 DEF Merge, Passes, IndexPasses, PackagesPass, Reviewed
<1>3. DeviceIsListed'
  BY <1>1 DEF StoreInv, DeviceIsListed
<1> QED BY <1>1, <1>2, <1>3 DEF StoreInv

LEMMA CloseKeeps == ASSUME StoreInv, Close PROVE StoreInv'
<1>1. main' = main /\ branch' = main /\ device' = device
  BY DEF Close
<1>2. Reviewed' /\ DeviceIsListed'
  BY <1>1 DEF StoreInv, Reviewed, DeviceIsListed
<1> QED BY <1>1, <1>2 DEF StoreInv

(* With pins, the daemon takes only the archive of the entry.              *)
LEMMA InstallKeeps ==
  ASSUME TypeOK, StoreInv, NEW a \in Archives, NEW unsigned, NEW pin,
         Install(a, unsigned, pin), pin # None => pin \in Listed(main)
  PROVE  StoreInv'
<1>1. branch' = branch /\ main' = main
  BY DEF Install, store
<1>2. ASSUME NEW i \in Ids, device'[i] \notin {None, Other}
      PROVE  \E e \in Listed(main) : e.sha = device'[i] /\ e.man.id = i
  <2>1. CASE device'[i] = device[i]
    BY <1>2, <2>1 DEF StoreInv, DeviceIsListed
  <2>2. CASE device'[i] # device[i]
    <3>1. i = a.files.man.id /\ device'[i] = a /\ pin # None
      BY <1>2, <2>2 DEF Install, TypeOK
    <3>2. pin \in Listed(main) /\ a = pin.sha
      BY <3>1 DEF Install, DaemonTakes
    <3>3. pin.man = a.files.man
      BY <3>2 DEF StoreInv, IsPublished, EntryOf
    <3> QED BY <3>1, <3>2, <3>3
  <2> QED BY <2>1, <2>2
<1>3. DeviceIsListed'
  BY <1>1, <1>2 DEF DeviceIsListed
<1> QED BY <1>1, <1>3 DEF StoreInv, Reviewed

(* No step puts a package under another name than its manifest's.          *)
LEMMA NamedStep ==
  ASSUME PublishingAssumption, TypeOK, PackagesAreNamed, [Next]_vars
  PROVE  PackagesAreNamed'
<1>1. ASSUME swa' = swa PROVE PackagesAreNamed'
  BY <1>1 DEF PackagesAreNamed
<1>2. ASSUME NEW d \in Devs, Build(d) \/ BuildFails(d) PROVE PackagesAreNamed'
  <2>1. swa' = [swa EXCEPT ![d] = Empty]
    BY <1>2 DEF Build, BuildFails
  <2> QED BY <2>1 DEF Empty, PackagesAreNamed, TypeOK
<1>3. ASSUME NEW d \in Devs, NEW f \in Files, NEW others \in [Names -> Archives \cup {None}],
             Pack(d, f, others),
             \A n \in Names : others[n] # None => Name(others[n].files.man) = n
      PROVE  PackagesAreNamed'
  <2>1. /\ \A c \in Devs : c # d => swa'[c] = swa[c]
        /\ swa'[d] = [others EXCEPT ![Name(f.man)] = Archived(f, None)]
    BY <1>3 DEF Pack, TypeOK
  <2> DEFINE m == Name(f.man)
  <2> HIDE DEF m
  <2>2. ASSUME NEW n \in Names
        PROVE  \/ n # m /\ swa'[d][n] = others[n]
               \/ n = m /\ swa'[d][n].files = f
    <3>1. swa'[d] = [others EXCEPT ![m] = Archived(f, None)]
      BY <2>1 DEF m
    <3>2. swa'[d][n] = IF n = m THEN Archived(f, None) ELSE others[n]
      BY <3>1
    <3> QED BY <3>2 DEF Archived
  <2>3. ASSUME NEW c \in Devs, NEW n \in Names, swa'[c][n] # None
        PROVE  Name(swa'[c][n].files.man) = n
    <3>1. CASE c # d
      BY <2>1, <2>3, <3>1 DEF PackagesAreNamed
    <3>2. CASE c = d /\ n # m
      BY <1>3, <2>2, <2>3, <3>2
    <3>3. CASE c = d /\ n = m
      BY <2>2, <3>3 DEF m
    <3> QED BY <3>1, <3>2, <3>3
  <2> QED BY <2>3 DEF PackagesAreNamed
<1>4. ASSUME NEW d \in Devs, Package(d) PROVE PackagesAreNamed'
  <2>1. Empty \in [Names -> Archives \cup {None}] /\ \A n \in Names : Empty[n] = None
    BY DEF Empty
  <2> QED BY <1>3, <1>4, <2>1, BuiltType DEF Package
<1>5. ASSUME NEW d \in Devs, PackageNoBuild(d) PROVE PackagesAreNamed'
  <2>1. swa[d] \in [Names -> Archives \cup {None}] /\ dist[d] \in Files
    BY <1>5 DEF TypeOK, PackageNoBuild
  <2> QED BY <1>3, <1>5, <2>1 DEF PackageNoBuild, PackagesAreNamed
<1>6. ASSUME NEW d \in Devs, NEW n \in Names, Sign(d, n) PROVE PackagesAreNamed'
  <2>1. /\ \A c \in Devs, m \in Names : c # d \/ m # n => swa'[c][m] = swa[c][m]
        /\ swa'[d][n].files = swa[d][n].files
        /\ swa[d][n] # None
    BY <1>6 DEF Sign, Archived, TypeOK
  <2> QED BY <2>1 DEF PackagesAreNamed
<1>7. CASE UNCHANGED vars
  BY <1>1, <1>7 DEF vars, project
<1>8. ASSUME NEW d \in Devs, Develop(d), ~Build(d), ~BuildFails(d), ~Package(d),
             ~PackageNoBuild(d),
             ~ \E n \in Names : Sign(d, n)
      PROVE  swa' = swa
  BY <1>8 DEF Develop, Edit, Keygen, Publish, PublishAs, PublishDry, Upload,
    CheckIn, InstallFile, CliInstall, Install, project
<1>9. ASSUME ~ \E d \in Devs : Develop(d), Next PROVE swa' = swa
  BY <1>9 DEF Next, Merge, Close, InstallUrl, InstallPinned, Install, Uninstall, project
<1> QED BY <1>1, <1>2, <1>4, <1>5, <1>6, <1>7, <1>8, <1>9

LEMMA StoreStep ==
  ASSUME PublishingAssumption, TypeOK, PackagesAreNamed, StoreInv, [Next]_vars
  PROVE  StoreInv'
<1>1. ASSUME NEW d \in Devs, NEW n \in Names, Publish(d, n) PROVE StoreInv'
  BY <1>1, PublishKeeps
<1>2. CASE Merge
  BY <1>2, MergeKeeps
<1>3. CASE Close
  BY <1>3, CloseKeeps
<1>4. ASSUME NEW d \in Devs, NEW n \in Names, InstallFile(d, n) \/ CliInstall(d, n)
      PROVE  StoreInv'
  <2>1. swa[d][n] \in Archives
    <3>1. swa[d][n] \in Archives \cup {None}
      BY DEF TypeOK
    <3>2. swa[d][n] # None
      BY <1>4 DEF InstallFile, CliInstall
    <3> QED BY <3>1, <3>2
  <2> QED BY <1>4, <2>1, InstallKeeps DEF InstallFile, CliInstall
<1>5. ASSUME NEW n \in Names, InstallUrl(n) PROVE StoreInv'
  BY <1>5, FetchedType, InstallKeeps DEF InstallUrl
<1>6. ASSUME NEW e \in Listed(main), InstallPinned(e) PROVE StoreInv'
  BY <1>6, ListedType, FetchedType, InstallKeeps DEF InstallPinned
<1>7. ASSUME NEW i \in Ids, Uninstall(i) PROVE StoreInv'
  <2>1. branch' = branch /\ main' = main
    BY <1>7 DEF Uninstall, store
  <2>2. \A j \in Ids : device'[j] \in {device[j], None}
    BY <1>7 DEF Uninstall, TypeOK
  <2>3. DeviceIsListed'
    BY <2>1, <2>2 DEF StoreInv, DeviceIsListed
  <2> QED BY <2>1, <2>3 DEF StoreInv, Reviewed
<1>8. ASSUME NEW d \in Devs,
             \/ \E t \in Trees : Edit(d, t)
             \/ \E k \in Keys : Keygen(d, k)
             \/ Build(d) \/ BuildFails(d) \/ Package(d) \/ PackageNoBuild(d)
             \/ \E n \in Names : Sign(d, n) \/ PublishDry(d, n) \/ Upload(d, n)
                                 \/ CheckIn(d, n)
      PROVE  StoreInv'
  <2>1. main' = main /\ device' = device
    BY <1>8 DEF Edit, Keygen, Build, BuildFails, Package, PackageNoBuild, Pack, Sign,
      PublishDry, Upload, CheckIn, store
  <2>2. branch'.index = branch.index
    <3>1. ASSUME NEW n \in Names, CheckIn(d, n) PROVE branch'.index = branch.index
      BY <3>1 DEF CheckIn, TypeOK, Catalogs
    <3> QED BY <1>8, <3>1 DEF Edit, Keygen, Build, BuildFails, Package, PackageNoBuild, Pack, Sign,
          PublishDry, Upload, store
  <2> QED BY <2>1, <2>2, StoreStutters
<1>9. CASE UNCHANGED vars
  BY <1>9, StoreStutters DEF vars, store
<1> QED
  BY <1>1, <1>2, <1>3, <1>4, <1>5, <1>6, <1>7, <1>8, <1>9 DEF Next, Develop

LEMMA StoreInit == ASSUME PublishingAssumption, Init PROVE StoreInv
<1>1. branch.index = << >> /\ main.index = << >> /\ << >> \in Seq(Entries)
  BY DEF Init
<1>2. Listed(branch) = {} /\ Listed(main) = {}
  BY <1>1 DEF Listed, Range
<1>3. OneKey(main.index)
  BY <1>1 DEF OneKey
<1>4. DeviceIsListed
  BY DEF Init, DeviceIsListed
<1> QED BY <1>1, <1>2, <1>3, <1>4 DEF StoreInv, Reviewed, Sorted

-----------------------------------------------------------------------------
(* Everything together, for every value of the constants.                  *)
THEOREM PublishingInvariant == Spec => [](TypeOK /\ PackagesAreNamed /\ StoreInv)
<1>0. PublishingAssumption
  BY PublishingAssumption
<1>1. Init => TypeOK /\ PackagesAreNamed /\ StoreInv
  <2>1. Init => PackagesAreNamed
    BY DEF Init, Empty, PackagesAreNamed
  <2> QED BY <1>0, <2>1, TypeInit, StoreInit
<1>2. TypeOK /\ PackagesAreNamed /\ StoreInv /\ [Next]_vars
        => (TypeOK /\ PackagesAreNamed /\ StoreInv)'
  BY <1>0, TypeStep, NamedStep, StoreStep
<1> QED BY <1>1, <1>2, PTL DEF Spec

(* CI and the daemon agree: what validate.mjs and verify-packages.mjs let  *)
(* through, the daemon takes, with the rules of the tool that published it *)
(* in between: for a blank name they are needed.                           *)
THEOREM MergedInstallable == Spec => []MergedIsInstallable
<1>1. ASSUME TypeOK, StoreInv PROVE MergedIsInstallable
  <2> SUFFICES ASSUME NEW e \in Listed(main), IdForm[e.man.id] # "reserved",
                      Shape[e.sha.files.body] # "colon path"
               PROVE  DaemonTakes(e.sha, FALSE, e)
    BY DEF MergedIsInstallable
  <2>1. RegistryTakes(e.sha, e)
    BY <1>1 DEF StoreInv, Reviewed, RegistryTakes
  <2>2. CliParses(e.sha.files.man)
    BY <1>1 DEF StoreInv, IsPublished
  <2>3. DaemonParses(e.sha.files.man)
    BY <2>1, <2>2 DEF RegistryTakes, RegistryAccepts, RegistryParses, SchemaTakes,
      EntrySchemaTakes, CliParses, DaemonParses
  <2>4. DaemonReads(e.sha)
    BY <2>1, <2>3 DEF RegistryTakes, RegistryAccepts, RegistryReads, DaemonReads
  <2> QED BY <2>1, <2>4 DEF RegistryTakes, RegistryAccepts, Verifies, DaemonTakes
<1> QED BY <1>1, PublishingInvariant, PTL

(* The index `solwear publish` proposes is always in the order that        *)
(* validate.mjs demands, whatever order versions are published in.         *)
THEOREM ProposalSound == Spec => []ProposalIsInOrder
<1>1. ASSUME StoreInv PROVE ProposalIsInOrder
  BY <1>1, PublishingAssumption, SortedInOrder DEF StoreInv, ProposalIsInOrder
<1> QED BY <1>1, PublishingInvariant, PTL

(* A pinned installation is byte for byte what the registry's checks read. *)
THEOREM StoreAppReviewed == Spec => []StoreAppIsReviewed
<1>1. ASSUME TypeOK, StoreInv PROVE StoreAppIsReviewed
  <2> SUFFICES ASSUME NEW i \in Ids, device[i] \notin {None, Other}
               PROVE  /\ main.packages[Name(device[i].files.man)] = device[i]
                      /\ RegistryParses(device[i].files.man)
    BY DEF StoreAppIsReviewed
  <2>1. PICK e \in Listed(main) : e.sha = device[i]
    BY <1>1 DEF StoreInv, DeviceIsListed
  <2>2. RegistryTakes(main.packages[Name(e.man)], e)
    BY <1>1 DEF StoreInv, Reviewed
  <2>3. e.man = device[i].files.man
    BY <2>1, <2>2 DEF RegistryTakes, RegistryAccepts
  <2> QED BY <2>1, <2>2, <2>3 DEF RegistryTakes, RegistryAccepts
<1> QED BY <1>1, PublishingInvariant, PTL

LEMMA HistoryStep ==
  ASSUME StoreInv, [Next]_vars
  PROVE  Listed(main) \subseteq Listed(main')
<1>1. CASE Merge
  BY <1>1 DEF Merge, StoreInv
<1>2. CASE ~Merge
  <2>1. main' = main
    BY <1>2 DEF Next, Develop, Edit, Keygen, Build, BuildFails, Package, PackageNoBuild, Pack,
      Sign, Publish, PublishAs, PublishDry, Upload, CheckIn, Close, InstallUrl, InstallPinned,
      InstallFile, CliInstall, Install, Uninstall, store, vars
  <2> QED BY <2>1
<1> QED BY <1>1, <1>2

(* A published version is immutable (mergeIntoRegistry).                   *)
THEOREM HistoryKept == Spec => HistoryIsKept
<1>1. StoreInv /\ [Next]_vars => [Listed(main) \subseteq Listed(main')]_vars
  BY HistoryStep
<1> QED BY <1>1, PublishingInvariant, PTL DEF Spec, HistoryIsKept

(* Entries of one id have one key, so the application before a pinned      *)
(* update and the one after it were signed with it.                        *)
LEMMA KeyStep ==
  ASSUME StoreInv, StoreInv', [Next]_vars, NEW i \in Ids,
         device[i] \notin {None, Other}, device'[i] \notin {None, Other}
  PROVE  device[i].sig.key = device'[i].sig.key
<1>1. PICK e \in Listed(main) : e.sha = device[i] /\ e.man.id = i
  BY DEF StoreInv, DeviceIsListed
<1>2. PICK f \in Listed(main') : f.sha = device'[i] /\ f.man.id = i
  BY DEF StoreInv, DeviceIsListed
<1>3. e \in Listed(main')
  BY HistoryStep
<1>4. main'.index \in Seq(Entries)
  BY DEF StoreInv
<1>5. PICK j \in 1..Len(main'.index) : main'.index[j] = e
  BY <1>3, <1>4 DEF Listed, Range
<1>6. PICK k \in 1..Len(main'.index) : main'.index[k] = f
  BY <1>2, <1>4 DEF Listed, Range
<1>7. e.key = f.key
  BY <1>1, <1>2, <1>5, <1>6 DEF StoreInv, Reviewed, OneKey, SameId
<1>8. IsPublished(e) /\ IsPublished(f)
  BY <1>2, <1>3 DEF StoreInv
<1>9. e.key = e.sha.sig.key /\ f.key = f.sha.sig.key
  BY <1>8 DEF IsPublished, EntryOf
<1> QED BY <1>1, <1>2, <1>7, <1>9

(* The publisher of an application installed from the store stays the same,*)
(* for any number of keys and developers.                                  *)
THEOREM KeyKept == Spec => KeyIsKept
<1>1. ASSUME StoreInv, StoreInv', [Next]_vars
      PROVE  \A i \in Ids : device[i] \notin {None, Other} /\ device'[i] \notin {None, Other}
               => device[i].sig.key = device'[i].sig.key
  BY <1>1, KeyStep
<1>2. StoreInv /\ StoreInv' /\ [Next]_vars =>
        [\A i \in Ids : device[i] \notin {None, Other} /\ device'[i] \notin {None, Other}
           => device[i].sig.key = device'[i].sig.key]_vars
  BY <1>1
<1> QED BY <1>2, PublishingInvariant, PTL DEF Spec, KeyIsKept

(* Type correctness.                                                       *)
THEOREM PublishingTypeOK == Spec => []TypeOK
BY PublishingInvariant, PTL

=============================================================================
