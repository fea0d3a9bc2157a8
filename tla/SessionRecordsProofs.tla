------------------------ MODULE SessionRecordsProofs ------------------------
(***************************************************************************)
(* Lemmas about directories and their sort order, for every directory.     *)
(***************************************************************************)
EXTENDS SessionRecords, TLAPS, FiniteSetTheorems, WellFoundedInduction

\* A directory of typed slots whose files are named after their records.
Directory(f) == f \in [Sessions -> Slots] /\ \A s \in Present(f) : f[s].id = s

\* No two v2 records share an order.
Sound(f) ==
    \A s, t \in Present(f) : f[s].order = f[t].order /\ f[s].order > 0 => s = t

\* The fields that the sort order compares are integers.
LEMMA OrderFields ==
    \A a \in Records : a.order \in Int /\ a.start \in Int /\ a.id \in Int
<1>1. \A a \in Records : a.order \in 0..MaxOrder /\ a.start \in Starts /\ a.id \in Sessions
  BY DEF Records
<1>2. Starts \subseteq Int /\ Sessions \subseteq Int
  BY SessionsAssumption, StartsAssumption
<1>3. \A n \in 0..MaxOrder : n \in Int OBVIOUS
<1> QED BY <1>1, <1>2, <1>3

\* The sort order is irreflexive and transitive (ulk_record_compare_descending
\* is a strict order on records).
LEMMA NewerStrict ==
    /\ \A a \in Records : ~Newer(a, a)
    /\ \A a, b, c \in Records : Newer(a, b) /\ Newer(b, c) => Newer(a, c)
<1>1. \A a \in Records : ~Newer(a, a) BY OrderFields DEF Newer
<1>2. ASSUME NEW a \in Records, NEW b \in Records, NEW c \in Records,
             Newer(a, b), Newer(b, c)
      PROVE  Newer(a, c)
  <2>1. /\ a.order \in Int /\ a.start \in Int /\ a.id \in Int
        /\ b.order \in Int /\ b.start \in Int /\ b.id \in Int
        /\ c.order \in Int /\ c.start \in Int /\ c.id \in Int
    BY OrderFields
  <2> QED BY <1>2, <2>1 DEF Newer
<1> QED BY <1>1, <1>2

\* The sort order is total on the files of a directory: the session ID breaks
\* every tie, so qsort has one result.
LEMMA NewerTotal ==
    ASSUME NEW f, Directory(f), NEW s \in Present(f), NEW t \in Present(f), s # t
    PROVE  Newer(f[s], f[t]) \/ Newer(f[t], f[s])
<1>1. /\ f[s].order \in Int /\ f[s].start \in Int /\ f[s].id \in Int
      /\ f[t].order \in Int /\ f[t].start \in Int /\ f[t].id \in Int
  BY OrderFields DEF Present
<1>2. f[s].id # f[t].id BY DEF Directory
<1> QED BY <1>1, <1>2 DEF Newer

\* Ranks are naturals, and a newer record has the smaller rank.
LEMMA RankNat ==
    ASSUME NEW f, NEW s
    PROVE  /\ IsFiniteSet({t \in Present(f) : Newer(f[t], f[s])})
           /\ Rank(f, s) \in Nat
<1> DEFINE N == {t \in Present(f) : Newer(f[t], f[s])}
<1>1. N \in SUBSET Sessions BY DEF Present
<1>2. IsFiniteSet(N) BY <1>1, SessionsAssumption, FS_Subset
<1>3. Cardinality(N) \in Nat BY <1>2, FS_CardinalityType
<1> QED BY <1>2, <1>3 DEF Rank

\* Newer records have smaller ranks.
LEMMA RankOrder ==
    ASSUME NEW f, Directory(f), NEW s \in Present(f), NEW t \in Present(f),
           Newer(f[s], f[t])
    PROVE  Rank(f, s) < Rank(f, t)
<1> DEFINE N(x) == {u \in Present(f) : Newer(f[u], f[x])}
<1>1. \A u \in Present(f) : f[u] \in Records BY DEF Present
<1>2. N(s) \in SUBSET N(t) BY <1>1, NewerStrict
<1>3. s \in N(t) /\ s \notin N(s) BY <1>1, NewerStrict
<1>4. IsFiniteSet(N(t)) /\ IsFiniteSet(N(s)) BY RankNat
<1> HIDE DEF N
<1>5. /\ Cardinality(N(s)) <= Cardinality(N(t))
      /\ Cardinality(N(t)) = Cardinality(N(s)) => N(t) = N(s)
  BY <1>2, <1>4, FS_Subset
<1>6. Cardinality(N(s)) \in Nat /\ Cardinality(N(t)) \in Nat
  BY <1>4, FS_CardinalityType
<1>7. Cardinality(N(s)) < Cardinality(N(t)) BY <1>3, <1>5, <1>6
<1> QED BY <1>7 DEF Rank, N

\* Retention spares a record that is newer than all it removes, for every
\* window of at least one record.
LEMMA SurplusSparesNewest ==
    ASSUME NEW f, Directory(f), NEW w \in Nat, w >= 1, Surplus(f, w) # {}
    PROVE  \E k \in Present(f) : \A s \in Surplus(f, w) : Newer(f[k], f[s])
<1> DEFINE T == {Rank(f, s) : s \in Present(f)}
<1>1. T \subseteq Nat BY RankNat
<1>2. T # {} BY DEF Surplus
<1>3. PICK m \in T : \A y \in T : ~(<<y, m>> \in OpToRel(<, Nat))
  <2> HIDE DEF T
  <2> QED BY <1>1, <1>2, NatLessThanWellFounded, WFMin
<1>4. PICK k \in Present(f) : m = Rank(f, k) OBVIOUS
<1>5. \A t \in Present(f) : Rank(f, t) >= Rank(f, k)
  <2> TAKE t \in Present(f)
  <2>1. Rank(f, t) \in T BY DEF T
  <2>2. ~(<<Rank(f, t), m>> \in OpToRel(<, Nat)) BY <2>1, <1>3
  <2>3. Rank(f, t) \in Nat /\ Rank(f, k) \in Nat BY RankNat
  <2> QED BY <2>2, <2>3, <1>4 DEF OpToRel
<1>6. \A t \in Present(f) : ~Newer(f[t], f[k])
  <2> SUFFICES ASSUME NEW t \in Present(f), Newer(f[t], f[k]) PROVE FALSE
    OBVIOUS
  <2>1. Rank(f, t) < Rank(f, k) BY RankOrder
  <2>2. Rank(f, t) >= Rank(f, k) BY <1>5
  <2>3. Rank(f, t) \in Nat /\ Rank(f, k) \in Nat BY RankNat
  <2> QED BY <2>1, <2>2, <2>3
<1>7. {t \in Present(f) : Newer(f[t], f[k])} = {} BY <1>6
<1>8. Rank(f, k) = 0 BY <1>7, FS_EmptySet DEF Rank
<1>9. k \notin Surplus(f, w) BY <1>8 DEF Surplus
<1>10. \A s \in Surplus(f, w) : Newer(f[k], f[s])
  BY <1>6, <1>9, NewerTotal DEF Surplus
<1> QED BY <1>10

\* A set of naturals that is not empty has a least element.
LEMMA LeastNat ==
    ASSUME NEW T \in SUBSET Nat, T # {}
    PROVE  \E m \in T : \A y \in T : m <= y
<1>1. PICK m \in T : \A y \in T : ~(<<y, m>> \in OpToRel(<, Nat))
  BY NatLessThanWellFounded, WFMin
<1>2. \A y \in T : m <= y
  <2> TAKE y \in T
  <2>1. ~(<<y, m>> \in OpToRel(<, Nat)) BY <1>1
  <2>2. y \in Nat /\ m \in Nat OBVIOUS
  <2> QED BY <2>1, <2>2 DEF OpToRel
<1> QED BY <1>2

\* Sets of session IDs are finite.
LEMMA PresentFinite ==
    ASSUME NEW f, NEW S \in SUBSET Present(f)
    PROVE  IsFiniteSet(S) /\ Cardinality(S) \in Nat
<1>1. S \in SUBSET Sessions BY DEF Present
<1>2. IsFiniteSet(S) BY <1>1, SessionsAssumption, FS_Subset
<1> QED BY <1>2, FS_CardinalityType

\* The first w records of the sorted directory.
Foremost(f, w) == {s \in Present(f) : Rank(f, s) < w}

\* The first w records are at most w records.
LEMMA ForemostAtMost ==
    ASSUME NEW f, Directory(f), NEW w \in Nat
    PROVE  Cardinality(Foremost(f, w)) <= w
<1> DEFINE K == Foremost(f, w)
           N(x) == {t \in Present(f) : Newer(f[t], f[x])}
           D == {w - Rank(f, s) : s \in K}
<1>0. \A s : Rank(f, s) \in Nat BY RankNat
<1>1. CASE K = {} BY <1>1, FS_EmptySet
<1>2. CASE K # {}
  <2>1. D \in SUBSET Nat /\ D # {} BY <1>0, <1>2 DEF Foremost
  <2>2. PICK d \in D : \A y \in D : d <= y
    <3> HIDE DEF D
    <3> QED BY <2>1, LeastNat
  <2>3. PICK m \in K : d = w - Rank(f, m) OBVIOUS
  <2>4. \A s \in K : Rank(f, s) <= Rank(f, m)
    <3> TAKE s \in K
    <3>1. w - Rank(f, m) <= w - Rank(f, s) BY <2>2, <2>3
    <3>2. Rank(f, m) \in Nat /\ Rank(f, s) \in Nat BY <1>0
    <3> QED BY <3>1, <3>2
  <2>5. m \in Present(f) /\ Rank(f, m) < w BY DEF Foremost
  <2>6. \A s \in K : s \in N(m) \cup {m}
    <3> SUFFICES ASSUME NEW s \in K, s # m PROVE Newer(f[s], f[m])
      BY DEF Foremost
    <3>1. s \in Present(f) BY DEF Foremost
    <3>2. CASE Newer(f[m], f[s])
      <4>1. Rank(f, m) < Rank(f, s) BY <3>1, <3>2, <2>5, RankOrder
      <4> QED BY <4>1, <2>4, <1>0
    <3> QED BY <3>1, <3>2, <2>5, NewerTotal
  <2>7. m \notin N(m) BY <2>5, NewerStrict DEF Present
  <2>8. IsFiniteSet(N(m)) /\ Cardinality(N(m)) = Rank(f, m) BY RankNat DEF Rank
  <2> HIDE DEF N, K
  <2>9. IsFiniteSet(N(m) \cup {m}) /\ Cardinality(N(m) \cup {m}) = Rank(f, m) + 1
    BY <2>7, <2>8, FS_AddElement
  <2>10. K \in SUBSET (N(m) \cup {m}) BY <2>6
  <2>11. Cardinality(K) <= Rank(f, m) + 1 BY <2>9, <2>10, FS_Subset
  <2>12. K \in SUBSET Present(f) BY DEF K, Foremost
  <2>13. Cardinality(K) \in Nat BY <2>12, PresentFinite
  <2>14. Cardinality(K) <= w BY <2>11, <2>5, <2>13, <1>0
  <2> QED BY <2>14 DEF K
<1> QED BY <1>1, <1>2

\* They are w records exactly when there are more.
LEMMA ForemostExact ==
    ASSUME NEW f, Directory(f), NEW w \in Nat, Surplus(f, w) # {}
    PROVE  Cardinality(Foremost(f, w)) = w
<1> DEFINE K == Foremost(f, w)
           N(x) == {t \in Present(f) : Newer(f[t], f[x])}
           T == {Rank(f, s) : s \in Surplus(f, w)}
<1>0. \A s : Rank(f, s) \in Nat BY RankNat
<1>1. T \in SUBSET Nat /\ T # {} BY <1>0
<1>2. PICK d \in T : \A y \in T : d <= y
  <2> HIDE DEF T
  <2> QED BY <1>1, LeastNat
<1>3. PICK x \in Surplus(f, w) : d = Rank(f, x) OBVIOUS
<1>4. x \in Present(f) /\ Rank(f, x) >= w BY DEF Surplus
<1>5. ASSUME NEW t \in N(x) PROVE t \in K
  <2>1. t \in Present(f) /\ Newer(f[t], f[x]) OBVIOUS
  <2>2. Rank(f, t) < Rank(f, x) BY <2>1, <1>4, RankOrder
  <2>3. t \notin Surplus(f, w)
    <3> SUFFICES ASSUME t \in Surplus(f, w) PROVE FALSE OBVIOUS
    <3>1. Rank(f, x) <= Rank(f, t) BY <1>2, <1>3
    <3> QED BY <3>1, <2>2, <1>0
  <2> QED BY <2>1, <2>3, <1>0 DEF Surplus, Foremost
<1>6. IsFiniteSet(K) /\ Cardinality(K) \in Nat
  <2>1. K \in SUBSET Present(f) BY DEF Foremost
  <2> HIDE DEF K
  <2> QED BY <2>1, PresentFinite
<1>7. Cardinality(N(x)) = Rank(f, x) BY DEF Rank
<1>8. N(x) \in SUBSET K BY <1>5
<1> HIDE DEF N, K
<1>9. Cardinality(N(x)) <= Cardinality(K) BY <1>6, <1>8, FS_Subset
<1>10. Cardinality(K) <= w BY ForemostAtMost DEF K
<1>11. Cardinality(K) = w BY <1>4, <1>6, <1>7, <1>9, <1>10, <1>0
<1> QED BY <1>11 DEF K

\* A legal commit keeps a sound directory sound.
LEMMA CommitKeepsSound ==
    ASSUME NEW f, Directory(f), Sound(f), NEW r \in Records, r.order > 0,
           MayCommit(f, r)
    PROVE  Directory([f EXCEPT ![r.id] = r]) /\ Sound([f EXCEPT ![r.id] = r])
<1> DEFINE g == [f EXCEPT ![r.id] = r]
<1>1. r.id \in Sessions BY DEF Records
<1>2. g \in [Sessions -> Slots] BY <1>1 DEF Directory, Slots
<1>3. \A s \in Sessions : g[s] = IF s = r.id THEN r ELSE f[s]
  BY <1>1 DEF Directory
<1>4. Present(g) = Present(f) \cup {r.id} BY <1>1, <1>3 DEF Present
<1>5. Directory(g) BY <1>2, <1>3, <1>4 DEF Directory, Present
<1>7. \A s \in Present(f) : s # r.id => f[s].order # r.order
  <2> SUFFICES ASSUME NEW s \in Present(f), s # r.id, f[s].order = r.order
               PROVE  FALSE
    OBVIOUS
  <2>1. CASE r.id \in Present(f) /\ f[r.id].order > 0
    BY <2>1 DEF MayCommit, OrderFor, Sound
  <2>2. CASE ~(r.id \in Present(f) /\ f[r.id].order > 0)
    <3>1. f[s].order <= r.order - 1 BY <2>2 DEF MayCommit, OrderFor, IsTop
    <3>2. r.order \in Int BY BoundsAssumption DEF Records
    <3> QED BY <3>1, <3>2
  <2> QED BY <2>1, <2>2
<1>8. \A s, t \in Present(g) : g[s].order = g[t].order /\ g[s].order > 0 => s = t
  BY <1>1, <1>3, <1>4, <1>7 DEF Sound, Present
<1> QED BY <1>5, <1>8 DEF Sound

\* So does removing a file.
LEMMA EvictKeepsSound ==
    ASSUME NEW f, Directory(f), Sound(f), NEW s \in Sessions
    PROVE  Directory([f EXCEPT ![s] = NoFile]) /\ Sound([f EXCEPT ![s] = NoFile])
<1> DEFINE g == [f EXCEPT ![s] = NoFile]
<1>1. g \in [Sessions -> Slots] BY DEF Directory, Slots
<1>2. \A t \in Sessions : g[t] = IF t = s THEN NoFile ELSE f[t] BY DEF Directory
<1>3. Present(g) = Present(f) \ {s} BY <1>2, SlotAssumption DEF Present
<1> QED BY <1>1, <1>2, <1>3 DEF Directory, Sound, Present

\* Callers submit records, and the C copy of one is a record still.
LEMMA SubmittedIsRecord ==
    ASSUME NEW r \in Requests
    PROVE  /\ FromPublic(r) \in Records
           /\ FromPublic(r).order = 0
           /\ \A n \in 0..MaxOrder : /\ [FromPublic(r) EXCEPT !.order = n] \in Records
                                     /\ [FromPublic(r) EXCEPT !.order = n].order = n
BY RequestsAssumption, BoundsAssumption, NulAssumption
DEF Submissions, FromPublic, CText, Records

\* A directory left by the v1 library is sound.
LEMMA InitialIsSound ==
    ASSUME NEW f \in InitialDirectories
    PROVE  Directory(f) /\ Sound(f)
<1>1. f \in [Sessions -> Slots]
  BY LegacyAssumption, DamageAssumption DEF InitialDirectories, Slots
<1>2. \A s \in Present(f) : f[s].order = 0
  <2> SUFFICES ASSUME NEW s \in Present(f) PROVE f[s].order = 0 OBVIOUS
  <2>1. f[s] \in Legacy \cup DamagedInit \cup {NoFile} /\ f[s] \in Records
    BY DEF InitialDirectories, Present
  <2>2. f[s] \in Legacy
    BY <2>1, SlotAssumption, DamageAssumption DEF Damage
  <2> QED BY <2>2, LegacyAssumption
<1> QED BY <1>1, <1>2 DEF InitialDirectories, Directory, Sound
=============================================================================
