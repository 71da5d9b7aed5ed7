------------------------ MODULE ControlResolutionProofs ------------------------
(***************************************************************************)
(* ControlResolution, for any records, features, strengths and sources:    *)
(* what sorting the targets does, that two guards over different data      *)
(* agree, and that a request is carried out whole or not at all.           *)
(***************************************************************************)
EXTENDS ControlResolution, FiniteSetTheorems, SequenceTheorems, FunctionTheorems,
        WellFoundedInduction, TLAPS

-------------------------------------------------------------------------------
(* Sorting. *)

\* What DirectionRecord.__post_init__ guarantees of the targets of a record.
Authored(s) ==
  /\ s \in Seq(Target)
  /\ \A i, j \in 1..Len(s) : s[i].at = s[j].at => i = j

InOrder(s) == \A i, j \in 1..Len(s) : i < j => Before(s[i], s[j])

Members(s) == {s[i] : i \in 1..Len(s)}

LEMMA FeatureFields ==
  ASSUME NEW t \in Target
  PROVE  /\ t.at \in Feature /\ t.weight \in Nat \ {0}
         /\ t.at \in [layer : Nat, sae : Nat, index : Nat]
         /\ t.at.layer \in Nat /\ t.at.sae \in Nat /\ t.at.index \in Nat
<1>1. t.at \in Feature /\ t.weight \in Nat \ {0}
  BY DEF Target
<1>2. t.at \in [layer : Nat, sae : Nat, index : Nat]
  BY <1>1, ResolutionConstants
<1>. QED  BY <1>1, <1>2

\* The sort key orders different features strictly, one way or the other.
LEMMA BeforeIsAnOrder ==
  ASSUME NEW t \in Target, NEW u \in Target, NEW v \in Target
  PROVE  /\ ~Before(t, t)
         /\ Before(t, u) /\ Before(u, v) => Before(t, v)
         /\ t.at # u.at => Before(t, u) \/ Before(u, t)
<1>1. /\ t.at.layer \in Nat /\ t.at.sae \in Nat /\ t.at.index \in Nat
      /\ u.at.layer \in Nat /\ u.at.sae \in Nat /\ u.at.index \in Nat
      /\ v.at.layer \in Nat /\ v.at.sae \in Nat /\ v.at.index \in Nat
  BY FeatureFields
<1>2. t.at # u.at => t.at.layer # u.at.layer \/ t.at.sae # u.at.sae \/ t.at.index # u.at.index
  <2>1. t.at \in [layer : Nat, sae : Nat, index : Nat] /\ u.at \in [layer : Nat, sae : Nat, index : Nat]
    BY FeatureFields
  <2>. QED  BY <2>1
<1>3. ~Before(t, t)
  BY <1>1 DEF Before
<1>4. Before(t, u) /\ Before(u, v) => Before(t, v)
  BY <1>1 DEF Before
<1>5. t.at # u.at => Before(t, u) \/ Before(u, t)
  BY <1>1, <1>2 DEF Before
<1>. QED  BY <1>3, <1>4, <1>5

\* The places of the targets that come before the one at i.
Earlier(s, i) == {j \in 1..Len(s) : Before(s[j], s[i])}

LEMMA AuthoredSeq ==
  ASSUME NEW s, Authored(s)
  PROVE  /\ Len(s) \in Nat /\ DOMAIN s = 1..Len(s)
         /\ \A i \in 1..Len(s) : s[i] \in Target
         /\ IsFiniteSet(1..Len(s)) /\ Cardinality(1..Len(s)) = Len(s)
<1>1. s \in Seq(Target)
  BY DEF Authored
<1>2. Len(s) \in Nat /\ DOMAIN s = 1..Len(s)
  BY <1>1, LenProperties
<1>3. \A i \in 1..Len(s) : s[i] \in Target
  BY <1>1, ElementOfSeq
<1>4. IsFiniteSet(1..Len(s)) /\ Cardinality(1..Len(s)) = IF 1 > Len(s) THEN 0 ELSE Len(s) - 1 + 1
  BY <1>2, FS_Interval
<1>. QED  BY <1>2, <1>3, <1>4

LEMMA EarlierCounts ==
  ASSUME NEW s, Authored(s), NEW i \in 1..Len(s)
  PROVE  IsFiniteSet(Earlier(s, i)) /\ Cardinality(Earlier(s, i)) + 1 \in 1..Len(s)
<1>1. Len(s) \in Nat /\ s[i] \in Target /\ IsFiniteSet(1..Len(s)) /\ Cardinality(1..Len(s)) = Len(s)
  BY AuthoredSeq
<1>2. Earlier(s, i) \subseteq (1..Len(s)) \ {i}
  BY <1>1, BeforeIsAnOrder DEF Earlier
<1>3. IsFiniteSet((1..Len(s)) \ {i}) /\ Cardinality((1..Len(s)) \ {i}) = Len(s) - 1
  <2>. DEFINE I == 1..Len(s)
  <2>1. IsFiniteSet(I) /\ i \in I /\ Cardinality(I) = Len(s)
    BY <1>1
  <2>. HIDE DEF I
  <2>2. IsFiniteSet(I \ {i}) /\ Cardinality(I \ {i}) = Cardinality(I) - 1
    BY <2>1, FS_RemoveElement
  <2>. QED  BY <2>1, <2>2 DEF I
<1>4. IsFiniteSet(Earlier(s, i)) /\ Cardinality(Earlier(s, i)) <= Len(s) - 1
  <2>1. /\ IsFiniteSet(Earlier(s, i))
        /\ Cardinality(Earlier(s, i)) <= Cardinality((1..Len(s)) \ {i})
    BY ONLY <1>2, <1>3, FS_Subset
  <2>. QED  BY <1>3, <2>1
<1>5. Cardinality(Earlier(s, i)) \in Nat
  BY <1>4, FS_CardinalityType
<1>. QED  BY <1>1, <1>4, <1>5

LEMMA EarlierGrows ==
  ASSUME NEW s, Authored(s), NEW i \in 1..Len(s), NEW j \in 1..Len(s), Before(s[j], s[i])
  PROVE  Cardinality(Earlier(s, j)) < Cardinality(Earlier(s, i))
<1>1. \A k \in 1..Len(s) : s[k] \in Target
  BY AuthoredSeq
<1>2. Earlier(s, j) \cup {j} \subseteq Earlier(s, i)
  BY <1>1, BeforeIsAnOrder DEF Earlier
<1>3. j \notin Earlier(s, j)
  BY <1>1, BeforeIsAnOrder DEF Earlier
<1>4. IsFiniteSet(Earlier(s, i)) /\ IsFiniteSet(Earlier(s, j))
  BY EarlierCounts
<1>5. Cardinality(Earlier(s, j) \cup {j}) = Cardinality(Earlier(s, j)) + 1
  BY <1>3, <1>4, FS_AddElement
<1>6. Cardinality(Earlier(s, j) \cup {j}) <= Cardinality(Earlier(s, i))
  BY <1>2, <1>4, FS_Subset
<1>7. Cardinality(Earlier(s, i)) \in Nat /\ Cardinality(Earlier(s, j)) \in Nat
  BY <1>4, FS_CardinalityType
<1>. QED  BY <1>5, <1>6, <1>7

\* A sorting permutation exists: each target goes to the place its rank names.
LEMMA SortExists ==
  ASSUME NEW s, Authored(s)
  PROVE  \E p \in Bijection(1..Len(s), 1..Len(s)) :
           \A i, j \in 1..Len(s) : i < j => ~Before(s[p[j]], s[p[i]])
<1>. DEFINE I == 1..Len(s)
            rank == [i \in I |-> Cardinality(Earlier(s, i)) + 1]
            p == Inverse(rank, I, I)
<1>1. Len(s) \in Nat /\ IsFiniteSet(I) /\ \A i \in I : s[i] \in Target
  BY AuthoredSeq
<1>2. rank \in [I -> I]
  BY EarlierCounts
<1>3. \A i, j \in I : Before(s[j], s[i]) => rank[j] < rank[i]
  <2>1. ASSUME NEW i \in I, NEW j \in I, Before(s[j], s[i])
        PROVE  rank[j] < rank[i]
    <3>1. Cardinality(Earlier(s, j)) < Cardinality(Earlier(s, i))
      BY <2>1, EarlierGrows
    <3>2. Cardinality(Earlier(s, j)) + 1 \in 1..Len(s) /\ Cardinality(Earlier(s, i)) + 1 \in 1..Len(s)
      BY EarlierCounts
    <3>3. Cardinality(Earlier(s, j)) \in Nat /\ Cardinality(Earlier(s, i)) \in Nat
      BY EarlierCounts, FS_CardinalityType
    <3>. QED  BY <3>1, <3>3
  <2>. QED  BY <2>1
<1>. HIDE DEF rank
<1>4. ASSUME NEW i \in I, NEW j \in I, rank[i] = rank[j]
      PROVE  i = j
  <2>1. ~Before(s[i], s[j]) /\ ~Before(s[j], s[i])
    BY <1>1, <1>2, <1>3, <1>4
  <2>2. s[i].at = s[j].at
    BY <1>1, <2>1, BeforeIsAnOrder
  <2>. QED  BY <2>2 DEF Authored
<1>5. rank \in Bijection(I, I)
  <2>1. rank \in Injection(I, I)
    BY <1>2, <1>4, Fun_IsInj
  <2>2. rank \in Surjection(I, I)
    BY <1>1, <2>1, FS_Injection
  <2>. QED  BY <2>1, <2>2, Fun_IsBij
<1>6. p \in Bijection(I, I) /\ \A i \in I : p[rank[i]] = i
  BY <1>5, Fun_BijInverse
<1>. HIDE DEF p
<1>7. \A k \in I : p[k] \in I /\ rank[p[k]] = k
  <2>1. ASSUME NEW k \in I
        PROVE  p[k] \in I /\ rank[p[k]] = k
    <3>1. PICK i \in I : rank[i] = k
      BY <1>5, Fun_BijectionProperties, Fun_SurjectionProperties
    <3>2. p[k] = i
      BY <1>6, <3>1
    <3>. QED  BY <3>1, <3>2
  <2>. QED  BY <2>1
<1>8. ASSUME NEW i \in I, NEW j \in I, i < j
      PROVE  ~Before(s[p[j]], s[p[i]])
  <2>1. p[i] \in I /\ p[j] \in I /\ rank[p[i]] = i /\ rank[p[j]] = j
    BY <1>7
  <2>2. Before(s[p[j]], s[p[i]]) => j < i
    BY <1>3, <2>1
  <2>. QED  BY <1>1, <1>8, <2>2
<1>. QED  BY <1>6, <1>8

\* Canonical(s) has the targets of s, each once, in strict order.
LEMMA CanonicalSorts ==
  ASSUME NEW s, Authored(s)
  PROVE  /\ Authored(Canonical(s)) /\ Len(Canonical(s)) = Len(s)
         /\ InOrder(Canonical(s)) /\ Members(Canonical(s)) = Members(s)
<1>. DEFINE I == 1..Len(s)
            Sorts(p) == \A i, j \in I : i < j => ~Before(s[p[j]], s[p[i]])
            q == CHOOSE p \in Bijection(I, I) : Sorts(p)
            ts == [k \in I |-> s[q[k]]]
<1>1. Len(s) \in Nat /\ \A i \in I : s[i] \in Target
  BY AuthoredSeq
<1>2. Canonical(s) = ts
  BY DEF Canonical
<1>3. q \in Bijection(I, I) /\ Sorts(q)
  <2>1. \E p \in Bijection(I, I) : Sorts(p)
    BY SortExists
  <2>. HIDE DEF Sorts
  <2>. QED  BY <2>1
<1>. HIDE DEF q
<1>4. /\ q \in [I -> I]
      /\ \A i, j \in I : q[i] = q[j] => i = j
      /\ \A i \in I : \E k \in I : q[k] = i
  <2>1. q \in Bijection(I, I)
    BY <1>3
  <2>2. \A F \in Bijection(I, I) :
          /\ F \in [I -> I]
          /\ \A i, j \in I : F[i] = F[j] => i = j
          /\ \A i \in I : \E k \in I : F[k] = i
    <3>. HIDE DEF I
    <3>1. ASSUME NEW F \in Bijection(I, I)
          PROVE  /\ F \in [I -> I]
                 /\ \A i, j \in I : F[i] = F[j] => i = j
                 /\ \A i \in I : \E k \in I : F[k] = i
      BY Fun_BijectionProperties
    <3>. QED  BY <3>1
  <2>. HIDE DEF I
  <2>. QED  BY <2>1, <2>2
<1>5. ts \in Seq(Target) /\ Len(ts) = Len(s)
  <2>1. \A k \in I : s[q[k]] \in Target
    BY <1>1, <1>4
  <2>2. ts \in [1..Len(s) -> Target]
    BY <2>1
  <2>. QED  BY <1>1, <2>2
<1>6. \A k \in I : ts[k] = s[q[k]]
  OBVIOUS
<1>. HIDE DEF ts
<1>7. Authored(ts)
  <2>1. ASSUME NEW i \in I, NEW j \in I, ts[i].at = ts[j].at
        PROVE  i = j
    <3>1. q[i] \in I /\ q[j] \in I /\ s[q[i]].at = s[q[j]].at
      BY <1>4, <1>6, <2>1
    <3>2. q[i] = q[j]
      BY <3>1 DEF Authored
    <3>. QED  BY <1>4, <3>2
  <2>. QED  BY <1>5, <2>1 DEF Authored
<1>8. InOrder(ts)
  <2>1. ASSUME NEW i \in I, NEW j \in I, i < j
        PROVE  Before(ts[i], ts[j])
    <3>1. ~Before(s[q[j]], s[q[i]])
      BY <1>3, <2>1
    <3>2. q[i] \in I /\ q[j] \in I /\ q[i] # q[j]
      <4>1. i # j
        BY <1>1, <2>1
      <4>. QED  BY <1>4, <4>1
    <3>3. s[q[i]].at # s[q[j]].at
      BY <3>2 DEF Authored
    <3>. QED  BY <1>1, <1>6, <3>1, <3>2, <3>3, BeforeIsAnOrder
  <2>. QED  BY <1>5, <2>1 DEF InOrder
<1>9. Members(ts) = Members(s)
  <2>1. ASSUME NEW i \in I
        PROVE  \E k \in I : s[i] = ts[k]
    <3>1. PICK k \in I : q[k] = i
      BY <1>4
    <3>2. ts[k] = s[i]
      BY <1>6, <3>1
    <3>. QED  BY <3>2
  <2>2. ASSUME NEW k \in I
        PROVE  \E i \in I : ts[k] = s[i]
    BY <1>4, <1>6
  <2>3. Members(ts) = {ts[k] : k \in I} /\ Members(s) = {s[i] : i \in I}
    BY <1>5 DEF Members
  <2>. HIDE DEF I
  <2>. QED  BY <2>1, <2>2, <2>3
<1>. QED  BY <1>2, <1>5, <1>7, <1>8, <1>9

\* In a strictly ordered sequence a target's place counts the targets before it.
LEMMA PlaceIsRank ==
  ASSUME NEW s, Authored(s), InOrder(s), NEW i \in 1..Len(s)
  PROVE  Cardinality({t \in Members(s) : Before(t, s[i])}) = i - 1
<1>. DEFINE J == 1..(i - 1)
            below == {t \in Members(s) : Before(t, s[i])}
            place == [j \in J |-> s[j]]
<1>1. Len(s) \in Nat /\ \A j \in 1..Len(s) : s[j] \in Target
  BY AuthoredSeq
<1>2. \A j \in J : j \in 1..Len(s) /\ j < i
  BY <1>1
<1>3. \A j \in 1..Len(s) : Before(s[j], s[i]) <=> j < i
  <2>1. ASSUME NEW j \in 1..Len(s), j < i
        PROVE  Before(s[j], s[i])
    BY <2>1 DEF InOrder
  <2>2. ASSUME NEW j \in 1..Len(s), Before(s[j], s[i]), ~(j < i)
        PROVE  FALSE
    <3>1. ~Before(s[i], s[i])
      BY <1>1, BeforeIsAnOrder
    <3>2. i < j
      BY <1>1, <2>2, <3>1
    <3>3. Before(s[i], s[j])
      BY <3>2 DEF InOrder
    <3>. QED  BY <1>1, <2>2, <3>1, <3>3, BeforeIsAnOrder
  <2>. QED  BY <2>1, <2>2
<1>4. below = {s[j] : j \in J}
  <2>1. ASSUME NEW j \in J
        PROVE  s[j] \in below
    BY <1>2, <1>3 DEF Members
  <2>2. ASSUME NEW t \in below
        PROVE  \E j \in J : t = s[j]
    <3>1. PICK j \in 1..Len(s) : t = s[j]
      BY DEF Members
    <3>2. j < i
      BY <1>3, <3>1
    <3>. QED  BY <1>1, <3>1, <3>2
  <2>. HIDE DEF below, J
  <2>. QED  BY <2>1, <2>2
<1>5. place \in Bijection(J, below)
  <2>1. \A j \in J : place[j] = s[j]
    OBVIOUS
  <2>2. place \in [J -> below]
    <3>1. \A j \in J : s[j] \in below
      BY <1>4
    <3>. QED  BY <3>1
  <2>3. \A j, k \in J : place[j] = place[k] => j = k
    BY <1>2, <2>1 DEF Authored
  <2>4. \A t \in below : \E j \in J : place[j] = t
    BY <1>4, <2>1
  <2>. HIDE DEF place, below, J
  <2>. QED  BY <2>2, <2>3, <2>4, Fun_IsBij
<1>6. ExistsBijection(J, below)
  BY <1>5 DEF ExistsBijection
<1>. HIDE DEF below
<1>7. i - 1 \in Nat
  BY <1>1
<1>. QED  BY <1>6, <1>7, FS_CountingElements DEF below

\* Two strictly ordered sequences of the same targets are the same sequence.
LEMMA SameMembersSameOrder ==
  ASSUME NEW s, Authored(s), InOrder(s), NEW t, Authored(t), InOrder(t),
         Members(s) = Members(t)
  PROVE  s = t
<1>1. ASSUME NEW a, Authored(a), InOrder(a), NEW b, Authored(b), InOrder(b),
             Members(a) = Members(b), NEW i \in 1..Len(a)
      PROVE  i \in 1..Len(b) /\ a[i] = b[i]
  <2>1. a[i] \in Members(b)
    BY <1>1 DEF Members
  <2>2. PICK k \in 1..Len(b) : a[i] = b[k]
    BY <2>1 DEF Members
  <2>3. Cardinality({u \in Members(a) : Before(u, a[i])}) = i - 1
    BY <1>1, PlaceIsRank
  <2>4. Cardinality({u \in Members(b) : Before(u, b[k])}) = k - 1
    BY <1>1, PlaceIsRank
  <2>5. i - 1 = k - 1
    BY <1>1, <2>2, <2>3, <2>4
  <2>6. i = k
    BY <2>5
  <2>. QED  BY <2>2, <2>6
<1>2. /\ \A i \in 1..Len(s) : i \in 1..Len(t) /\ s[i] = t[i]
      /\ \A i \in 1..Len(t) : i \in 1..Len(s)
  BY <1>1
<1>3. Len(s) \in Nat /\ Len(t) \in Nat /\ s \in Seq(Target) /\ t \in Seq(Target)
  BY AuthoredSeq DEF Authored
<1>4. Len(s) = Len(t)
  <2>1. Len(s) # 0 => Len(s) \in 1..Len(t)
    BY <1>2, <1>3
  <2>2. Len(t) # 0 => Len(t) \in 1..Len(s)
    BY <1>2, <1>3
  <2>. QED  BY <1>3, <2>1, <2>2
<1>. QED  BY <1>2, <1>3, <1>4, SeqEqual

-------------------------------------------------------------------------------
(* Requests, and what resolving keeps of the record. *)

\* The requests for a direction that is calibrated.
Calibrated == {q \in Request : q.direction.record # None}

LEMMA RecordFacts ==
  ASSUME NEW q \in Calibrated
  PROVE  /\ q.direction \in Directions /\ q.strength \in Strengths /\ SpecOf(q) \in Spec_
         /\ q.source \in Sources \cup {None}
         /\ Authored(q.direction.record.targets) /\ q.direction.record.targets # <<>>
<1>1. /\ q.direction \in Directions /\ q.strength \in Strengths /\ q.source \in Sources \cup {None}
      /\ q.direction.record # None
  BY DEF Calibrated, Request
<1>2. WellFormed(q.direction.record)
  BY <1>1, ResolutionConstants DEF DirectionOf
<1>3. SpecOf(q) \in Spec_
  BY <1>1, <1>2 DEF WellFormed, SpecOf
<1>4. q.direction.record.targets \in Seq(Target) /\ q.direction.record.targets # <<>>
  BY <1>2 DEF WellFormed
<1>5. DOMAIN q.direction.record.targets = 1..Len(q.direction.record.targets)
  BY <1>4, LenProperties
<1>6. Authored(q.direction.record.targets)
  BY <1>2, <1>4, <1>5 DEF WellFormed, Authored
<1>. QED  BY <1>1, <1>3, <1>4, <1>6

LEMMA SpecFacts ==
  ASSUME NEW spec \in Spec_
  PROVE  /\ spec.operation \in {"clamp", "ablate"}
         /\ spec.operation = "clamp" => spec.value \in Dose
         /\ spec.operation = "ablate" => spec.unit # "max_multiple"
<1>1. CASE spec \in [operation : {"clamp"}, unit : {"absolute_activation", "max_multiple"}, value : Dose]
  BY <1>1
<1>2. CASE spec \in [operation : {"ablate"}, unit : {None}, value : {None}]
  BY <1>2, ResolutionConstants
<1>. QED  BY <1>1, <1>2 DEF Spec_

\* The resolved targets are the authored ones: as many, on the same features.
LEMMA ResolveKeepsTargets ==
  ASSUME NEW q \in Calibrated
  PROVE  /\ Authored(Canonical(q.direction.record.targets))
         /\ Len(Canonical(q.direction.record.targets)) = Len(q.direction.record.targets)
         /\ DOMAIN Resolve(q).targets = 1..Len(q.direction.record.targets)
         /\ Len(Resolve(q).targets) = Len(q.direction.record.targets)
         /\ \A i \in 1..Len(q.direction.record.targets) :
              Resolve(q).targets[i].at = Canonical(q.direction.record.targets)[i].at
         /\ Features(Resolve(q).targets) = Features(q.direction.record.targets)
<1>. DEFINE s  == q.direction.record.targets
            ts == Canonical(s)
            rs == Resolve(q).targets
            I  == 1..Len(s)
<1>1. Authored(s)
  BY RecordFacts
<1>2. Authored(ts) /\ Len(ts) = Len(s) /\ Members(ts) = Members(s)
  BY <1>1, CanonicalSorts
<1>3. DOMAIN ts = I /\ DOMAIN s = I /\ Len(s) \in Nat
  BY <1>1, <1>2, AuthoredSeq
<1>4. rs = [i \in I |-> ResolvedTarget(SpecOf(q), ts[i], q.source)]
  BY <1>3 DEF Resolve
<1>5. \A i \in I : rs[i].at = ts[i].at
  <2>1. \A t : ResolvedTarget(SpecOf(q), t, q.source).at = t.at
    BY DEF ResolvedTarget
  <2>. HIDE DEF rs, ts, I
  <2>. QED  BY <1>4, <2>1
<1>6. DOMAIN rs = I /\ rs \in [I -> {rs[i] : i \in I}]
  <2>. HIDE DEF I, ts
  <2>1. DOMAIN rs = I /\ rs = [i \in I |-> rs[i]]
    BY <1>4
  <2>. HIDE DEF rs
  <2>. QED  BY <2>1
<1>7. Len(rs) = Len(s)
  <2>. HIDE DEF rs
  <2>1. rs \in Seq({rs[i] : i \in I})
    BY <1>3, <1>6
  <2>2. DOMAIN rs = 1..Len(rs) /\ Len(rs) \in Nat
    BY <2>1, LenProperties
  <2>3. 1..Len(rs) = 1..Len(s)
    BY <1>6, <2>2
  <2>4. Len(rs) # 0 => Len(rs) \in 1..Len(s)
    BY <2>2, <2>3
  <2>5. Len(s) # 0 => Len(s) \in 1..Len(rs)
    BY <1>3, <2>3
  <2>. QED  BY <1>3, <2>2, <2>4, <2>5
<1>8. Features(rs) = Features(s)
  <2>1. Features(rs) = {rs[i].at : i \in I} /\ Features(s) = {s[i].at : i \in I}
    <3>. HIDE DEF rs, s, I
    <3>. QED  BY <1>3, <1>6 DEF Features
  <2>2. Members(ts) = {ts[i] : i \in I} /\ Members(s) = {s[i] : i \in I}
    BY <1>2 DEF Members
  <2>. HIDE DEF rs, ts, s, I
  <2>3. \A i \in I : \E k \in I : ts[i] = s[k]
    BY <1>2, <2>2
  <2>4. \A i \in I : \E k \in I : s[i] = ts[k]
    BY <1>2, <2>2
  <2>5. \A i \in I : \E k \in I : rs[i].at = s[k].at
    BY <1>5, <2>3
  <2>6. \A i \in I : \E k \in I : s[i].at = rs[k].at
    BY <1>5, <2>4
  <2>7. {rs[i].at : i \in I} = {s[i].at : i \in I}
    <3>1. ASSUME NEW x \in {rs[i].at : i \in I}
          PROVE  x \in {s[i].at : i \in I}
      BY <2>5
    <3>2. ASSUME NEW x \in {s[i].at : i \in I}
          PROVE  x \in {rs[i].at : i \in I}
      BY <2>6
    <3>. QED  BY <3>1, <3>2
  <2>. QED  BY <2>1, <2>7
<1>. QED  BY <1>2, <1>5, <1>6, <1>7, <1>8

\* Requests that differ in authoring order only resolve to the same state.
LEMMA SameAuthoringSameResolution ==
  ASSUME NEW q \in Calibrated, NEW p \in Calibrated, SameAuthoring(q, p)
  PROVE  Why(q) = Why(p) /\ Resolve(q) = Resolve(p)
<1>1. Authored(q.direction.record.targets) /\ Authored(p.direction.record.targets)
  BY RecordFacts
<1>2. Members(q.direction.record.targets) = Members(p.direction.record.targets)
  <2>1. DOMAIN q.direction.record.targets = 1..Len(q.direction.record.targets)
        /\ DOMAIN p.direction.record.targets = 1..Len(p.direction.record.targets)
    BY <1>1, AuthoredSeq
  <2>. QED  BY <2>1 DEF SameAuthoring, Members
<1>3. Canonical(q.direction.record.targets) = Canonical(p.direction.record.targets)
  <2>1. /\ Authored(Canonical(q.direction.record.targets)) /\ InOrder(Canonical(q.direction.record.targets))
        /\ Members(Canonical(q.direction.record.targets)) = Members(q.direction.record.targets)
    BY <1>1, CanonicalSorts
  <2>2. /\ Authored(Canonical(p.direction.record.targets)) /\ InOrder(Canonical(p.direction.record.targets))
        /\ Members(Canonical(p.direction.record.targets)) = Members(p.direction.record.targets)
    BY <1>1, CanonicalSorts
  <2>. QED  BY <1>2, <2>1, <2>2, SameMembersSameOrder
<1>4. SpecOf(q) = SpecOf(p) /\ q.source = p.source
  BY DEF SameAuthoring
<1>5. /\ q.direction.pairing = p.direction.pairing /\ q.direction.name = p.direction.name
      /\ q.direction.positions = p.direction.positions
  <2>. DEFINE bare(d) == [d EXCEPT !.record = None]
              alike(d, c) == c.pairing = d.pairing /\ c.name = d.name /\ c.positions = d.positions
  <2>1. DirectionOf(q.direction) /\ DirectionOf(p.direction)
    BY RecordFacts, ResolutionConstants
  <2>2. ASSUME NEW d, DirectionOf(d)
        PROVE  alike(d, bare(d))
    BY <2>2 DEF DirectionOf
  <2>3. bare(q.direction) = bare(p.direction)
    BY DEF SameAuthoring
  <2>. HIDE DEF bare
  <2>4. alike(q.direction, bare(q.direction)) /\ alike(p.direction, bare(p.direction))
    BY <2>1, <2>2
  <2>. QED  BY <2>3, <2>4
<1>6. q.direction.record # None /\ p.direction.record # None
  BY DEF Calibrated
<1>. QED  BY <1>3, <1>4, <1>5, <1>6 DEF Resolve, Why

-------------------------------------------------------------------------------
(* The two checks of the grouping. *)

LEMMA TwoOrMore ==
  ASSUME NEW S, IsFiniteSet(S)
  PROVE  Cardinality(S) > 1 <=> \E x, y \in S : x # y
<1>1. Cardinality(S) \in Nat
  BY FS_CardinalityType
<1>2. ASSUME NEW x \in S, NEW y \in S, x # y
      PROVE  Cardinality(S) > 1
  <2>1. IsFiniteSet({x}) /\ Cardinality({x}) = 1
    BY FS_Singleton
  <2>2. IsFiniteSet({x} \cup {y}) /\ Cardinality({x} \cup {y}) = Cardinality({x}) + 1
    BY <1>2, <2>1, FS_AddElement
  <2>3. {x} \cup {y} \subseteq S
    OBVIOUS
  <2>4. Cardinality({x} \cup {y}) <= Cardinality(S)
    BY <2>3, FS_Subset
  <2>. QED  BY <1>1, <2>1, <2>2, <2>4
<1>3. ASSUME \A x, y \in S : x = y
      PROVE  Cardinality(S) <= 1
  <2>1. CASE S = {}
    BY <2>1, FS_EmptySet
  <2>2. CASE S # {}
    <3>1. PICK x \in S : S = {x}
      BY <1>3, <2>2
    <3>. QED  BY <3>1, FS_Singleton
  <2>. QED  BY <2>1, <2>2
<1>. QED  BY <1>1, <1>2, <1>3

LEMMA SeveralGroups ==
  ASSUME NEW s, Authored(s)
  PROVE  Cardinality(Groups(Features(s))) > 1 <=>
           \E f, g \in Features(s) : <<f.sae, f.layer>> # <<g.sae, g.layer>>
<1>. DEFINE I == 1..Len(s)
            group == [i \in I |-> <<s[i].at.sae, s[i].at.layer>>]
<1>1. IsFiniteSet(I) /\ DOMAIN s = I
  BY AuthoredSeq
<1>. HIDE DEF I
<1>2. Groups(Features(s)) = {<<s[i].at.sae, s[i].at.layer>> : i \in I}
  <2>1. Features(s) = {s[i].at : i \in I}
    BY <1>1 DEF Features
  <2>. QED  BY <2>1 DEF Groups
<1>3. group \in Surjection(I, Groups(Features(s)))
  <2>1. \A i \in I : group[i] = <<s[i].at.sae, s[i].at.layer>>
    OBVIOUS
  <2>2. group \in [I -> Groups(Features(s))]
    BY <1>2
  <2>3. \A x \in Groups(Features(s)) : \E i \in I : group[i] = x
    BY <1>2, <2>1
  <2>. HIDE DEF group
  <2>. QED  BY <2>2, <2>3, Fun_IsSurj
<1>4. IsFiniteSet(Groups(Features(s)))
  <2>. HIDE DEF group
  <2>. QED  BY <1>1, <1>3, FS_Surjection
<1>5. (\E x, y \in Groups(Features(s)) : x # y) <=>
        \E f, g \in Features(s) : <<f.sae, f.layer>> # <<g.sae, g.layer>>
  BY DEF Groups
<1>. QED  BY <1>4, <1>5, TwoOrMore

\* On the targets of one request the guard refuses what the preflight refuses, for
\* the same reason, and lets nothing pass but a single target.
LEMMA GuardFacts ==
  ASSUME NEW q \in Calibrated
  PROVE  /\ LET ours == Preflight(q.direction.record) theirs == Guard(Resolve(q).targets)
            IN  IF theirs = "UnsupportedTargetCount" THEN ours = "executable" ELSE ours = theirs
         /\ Guard(Resolve(q).targets) \in {"executable", "PROHIBITED", "CAPABILITY_LIMIT", "UnsupportedTargetCount"}
         /\ Preflight(q.direction.record) \in {"executable", "PROHIBITED", "CAPABILITY_LIMIT"}
         /\ Guard(Resolve(q).targets) = "executable" => Len(q.direction.record.targets) = 1
<1>. DEFINE fs == Features(q.direction.record.targets)
            shared == \E l \in {f.layer : f \in fs} : Cardinality(SaesAtLayer(fs, l)) > 1
            several == \E f, g \in fs : <<f.sae, f.layer>> # <<g.sae, g.layer>>
            n == Len(q.direction.record.targets)
<1>1. Features(Resolve(q).targets) = fs /\ Len(Resolve(q).targets) = n
  BY ResolveKeepsTargets
<1>2. Guard(Resolve(q).targets) =
        IF shared THEN "PROHIBITED" ELSE IF several THEN "CAPABILITY_LIMIT"
        ELSE IF n # 1 THEN "UnsupportedTargetCount" ELSE "executable"
  BY <1>1 DEF Guard
<1>3. SharedLayers(fs) # {} <=> shared
  BY DEF SharedLayers
<1>4. Cardinality(Groups(fs)) > 1 <=> several
  BY RecordFacts, SeveralGroups
<1>5. Preflight(q.direction.record) =
        IF shared THEN "PROHIBITED" ELSE IF several THEN "CAPABILITY_LIMIT" ELSE "executable"
  <2>1. Preflight(q.direction.record) =
          IF SharedLayers(fs) # {} THEN "PROHIBITED"
          ELSE IF Cardinality(Groups(fs)) > 1 THEN "CAPABILITY_LIMIT" ELSE "executable"
    BY DEF Preflight, Calibrated
  <2>. HIDE DEF shared, several, fs
  <2>. QED  BY <1>3, <1>4, <2>1
<1>. HIDE DEF shared, several, n
<1>. QED  BY <1>2, <1>5 DEF n

\* Nothing was refused: every denominator a multiple needs is there and is not zero.
LEMMA NothingRefused ==
  ASSUME NEW spec, NEW ts, NEW source, NEW i \in DOMAIN ts,
         Refusal(spec, ts, source) = "none", spec.operation # "ablate",
         spec.unit = "max_multiple"
  PROVE  source # None /\ source[ts[i].at] \notin {None, 0}
<1>. DEFINE bad == {j \in DOMAIN ts : Denominator(spec, ts[j], source) \in {None, 0}}
<1>1. bad = {}
  BY DEF Refusal
<1>2. Denominator(spec, ts[i], source) \notin {None, 0}
  BY <1>1
<1>. QED  BY <1>2 DEF Denominator

-------------------------------------------------------------------------------
(* The invariant. *)

\* The resolved state is the request's own: it is the only one in hand, so that what
\* the guard and the clamp read belongs to what the caller asked for.
Held ==
  /\ request \in Calibrated /\ resolved = Resolve(request) /\ Why(request) = "none"

StageOK ==
  /\ stage \in {"idle", "preflight", "resolve", "guard"}
  /\ request \in Request \cup {None} /\ refused \in Refusals
  /\ stage # "idle" => request \in Request /\ clamp = None

\* A request that was refused a maximum is refused for what the resolver raises for it.
RefusedOK == refused \in {"MissingDenominator", "InvalidDenominator"} =>
               request \in Calibrated /\ refused = Why(request)

ResolvedOK == resolved # None \/ stage = "guard" => Held

ClampOK ==
  clamp # None => Held /\ Guard(resolved.targets) = "executable" /\ clamp = Clamp(resolved)

ResolutionInv == StageOK /\ ResolvedOK /\ ClampOK /\ RefusedOK

LEMMA ResolutionStep ==
  ASSUME ResolutionInv, [Next]_vars
  PROVE  ResolutionInv'
<1>. USE DEF ResolutionInv
<1>1. CASE \E q \in Request : Ask(q)
  <2>1. PICK q \in Request : Ask(q)
    BY <1>1
  <2>2. stage' \in {"preflight", "resolve"} /\ request' = q /\ refused' = "none"
        /\ resolved' = None /\ clamp' = None
    BY <2>1 DEF Ask
  <2>. QED  BY <2>2 DEF StageOK, ResolvedOK, ClampOK, RefusedOK, Refusals
<1>2. CASE PreflightRequest
  <2>1. request \in Request /\ clamp = None
    BY <1>2 DEF PreflightRequest, StageOK
  <2>2. Preflight(request.direction.record) \in
          {"executable", "DirectionNotCalibrated", "PROHIBITED", "CAPABILITY_LIMIT"}
    BY DEF Preflight
  <2>3. request' = request /\ resolved' = resolved /\ clamp' = clamp
    BY <1>2 DEF PreflightRequest
  <2>4. \/ stage' = "resolve" /\ refused' = refused
        \/ stage' = "idle" /\ refused' \in Refusals \ {"MissingDenominator", "InvalidDenominator"}
    BY <1>2, <2>2 DEF PreflightRequest, End, Refusals
  <2>. QED  BY <2>1, <2>3, <2>4 DEF StageOK, ResolvedOK, ClampOK, RefusedOK, Held
<1>3. CASE ResolveRequest
  <2>1. request \in Request /\ clamp = None /\ request' = request /\ clamp' = clamp
    BY <1>3 DEF ResolveRequest, StageOK
  <2>2. /\ Why(request) \in {"none", "DirectionNotCalibrated", "MissingDenominator", "InvalidDenominator"}
        /\ Why(request) # "DirectionNotCalibrated" => request \in Calibrated
    BY <2>1 DEF Why, Refusal, Calibrated
  <2>3. CASE Why(request) = "none"
    <3>1. stage' = "guard" /\ resolved' = Resolve(request) /\ refused' = refused
      BY <1>3, <2>3 DEF ResolveRequest
    <3>2. Held'
      BY <2>1, <2>2, <2>3, <3>1 DEF Held
    <3>. QED  BY <2>1, <3>1, <3>2 DEF StageOK, ResolvedOK, ClampOK, RefusedOK
  <2>4. CASE Why(request) # "none"
    <3>1. stage' = "idle" /\ resolved' = resolved /\ refused' = Why(request)
      BY <1>3, <2>4 DEF ResolveRequest, End
    <3>2. StageOK'
      BY <2>1, <2>2, <3>1 DEF StageOK, Refusals
    <3>3. RefusedOK'
      BY <2>1, <2>2, <3>1 DEF RefusedOK
    <3>. QED  BY <2>1, <3>1, <3>2, <3>3 DEF ResolvedOK, ClampOK, Held
  <2>. QED  BY <2>3, <2>4
<1>4. CASE GuardRequest
  <2>1. request' = request /\ resolved' = resolved /\ stage' = "idle" /\ clamp = None /\ Held
    BY <1>4 DEF GuardRequest, End, StageOK, ResolvedOK
  <2>2. Held' /\ request \in Request
    BY <2>1 DEF Held, Calibrated
  <2>3. Guard(resolved.targets) \in {"executable", "PROHIBITED", "CAPABILITY_LIMIT", "UnsupportedTargetCount"}
    BY <2>1, GuardFacts DEF Held
  <2>4. refused' \in Refusals \ {"MissingDenominator", "InvalidDenominator"}
    BY <1>4, <2>3 DEF GuardRequest, End, Refusals
  <2>5. clamp' # None => Guard(resolved.targets) = "executable" /\ clamp' = Clamp(resolved)
    BY <1>4, <2>1 DEF GuardRequest, End
  <2>. QED  BY <2>1, <2>2, <2>4, <2>5 DEF StageOK, ResolvedOK, ClampOK, RefusedOK, Held
<1>5. CASE UNCHANGED vars
  BY <1>5 DEF vars, StageOK, ResolvedOK, ClampOK, RefusedOK, Held
<1>. QED  BY <1>1, <1>2, <1>3, <1>4, <1>5 DEF Next

\* The resolved state and the clamp in hand are those of the last request asked for,
\* whatever was asked, carried out or refused before it.
THEOREM ResolutionInvHolds == Spec => []ResolutionInv
<1>1. Init => ResolutionInv
  BY DEF Init, ResolutionInv, StageOK, ResolvedOK, ClampOK, RefusedOK, Refusals
<1>2. ResolutionInv /\ [Next]_vars => ResolutionInv'
  BY ResolutionStep
<1>. QED  BY <1>1, <1>2, PTL DEF Spec

-------------------------------------------------------------------------------
(* What it implies. *)

\* A clamp is on the one target of its record.
LEMMA ClampTarget ==
  ASSUME ResolutionInv, clamp # None
  PROVE  LET ts == Canonical(request.direction.record.targets)
         IN  /\ request \in Calibrated /\ Held
             /\ 1 \in DOMAIN ts /\ ts[1] \in Target /\ clamp.at = ts[1].at
             /\ Features(request.direction.record.targets) = {clamp.at}
<1>. DEFINE ts == Canonical(request.direction.record.targets)
            rs == Resolve(request).targets
<1>1. request \in Calibrated /\ Held /\ Guard(rs) = "executable" /\ clamp = Clamp(resolved)
  BY DEF ResolutionInv, ClampOK, Held
<1>2. Len(request.direction.record.targets) = 1
  BY <1>1, GuardFacts
<1>3. /\ Authored(ts) /\ Len(ts) = 1 /\ DOMAIN rs = 1..1
      /\ rs[1].at = ts[1].at /\ Features(rs) = Features(request.direction.record.targets)
  BY <1>1, <1>2, ResolveKeepsTargets
<1>4. 1 \in DOMAIN ts /\ ts[1] \in Target
  BY <1>3, AuthoredSeq
<1>5. clamp.at = rs[1].at
  BY <1>1 DEF Clamp, Held
<1>6. Features(rs) = {rs[1].at}
  <2>. HIDE DEF rs
  <2>. QED  BY <1>3 DEF Features
<1>. HIDE DEF rs, ts
<1>7. clamp.at = ts[1].at /\ Features(request.direction.record.targets) = {clamp.at}
  BY <1>3, <1>5, <1>6
<1>. QED  BY <1>1, <1>4, <1>7 DEF ts

\* The stage machine keeps its types, a clamp is on a feature that exists and has a
\* value (an ablation clamps at zero).
THEOREM ResolutionTypeCorrect == Spec => []TypeOK
<1>1. ResolutionInv => TypeOK
  <2>. SUFFICES ASSUME ResolutionInv PROVE TypeOK
    OBVIOUS
  <2>1. resolved # None => Guard(resolved.targets) \in Refusals \cup {"executable"}
    BY GuardFacts DEF ResolutionInv, ResolvedOK, Held, Refusals
  <2>2. ASSUME clamp # None
        PROVE  clamp.at \in Feature /\ clamp.value \in Nat
    <3>1. request \in Calibrated /\ Held /\ clamp.at \in Feature
      <4>1. PICK t \in Target : clamp.at = t.at
        BY <2>2, ClampTarget
      <4>. QED  BY <2>2, <4>1, ClampTarget, FeatureFields
    <3>2. SpecOf(request) \in Spec_
      BY <3>1, RecordFacts
    <3>3. resolved.operation = SpecOf(request).operation /\ resolved.value = SpecOf(request).value
      BY <3>1 DEF Held, Resolve
    <3>4. clamp.value = IF resolved.operation = "ablate" THEN 0 ELSE resolved.value
      BY <2>2 DEF ResolutionInv, ClampOK, Clamp
    <3>. QED  BY <3>1, <3>2, <3>3, <3>4, SpecFacts DEF Dose
  <2>. QED  BY <2>1, <2>2 DEF TypeOK, ResolutionInv, StageOK
<1>. QED  BY <1>1, ResolutionInvHolds, PTL

\* A request is carried out whole or refused: the clamp is on the one feature its
\* author named, at its positions, and a multiple used that feature's own maximum.
THEOREM NothingIsTruncated == Spec => []NothingTruncated
<1>1. ResolutionInv => NothingTruncated
  <2>. SUFFICES ASSUME ResolutionInv, clamp # None
                PROVE  /\ Features(request.direction.record.targets) = {clamp.at}
                       /\ clamp.positions = request.direction.positions
                       /\ SpecOf(request).unit = "max_multiple" =>
                            request.source # None /\ request.source[clamp.at] \notin {None, 0}
    BY DEF NothingTruncated
  <2>. DEFINE ts == Canonical(request.direction.record.targets)
  <2>1. request \in Calibrated /\ Held /\ Features(request.direction.record.targets) = {clamp.at}
    BY ClampTarget
  <2>2. 1 \in DOMAIN ts /\ clamp.at = ts[1].at
    BY ClampTarget
  <2>3. clamp.positions = request.direction.positions
    <3>1. clamp.positions = resolved.positions
      BY DEF ResolutionInv, ClampOK, Clamp
    <3>. QED  BY <2>1, <3>1 DEF Held, Resolve
  <2>4. ASSUME SpecOf(request).unit = "max_multiple"
        PROVE  request.source # None /\ request.source[clamp.at] \notin {None, 0}
    <3>1. SpecOf(request).operation # "ablate"
      BY <2>1, <2>4, RecordFacts, SpecFacts
    <3>2. Refusal(SpecOf(request), ts, request.source) = "none"
      BY <2>1 DEF Held, Why, Calibrated
    <3>. HIDE DEF ts
    <3>. QED  BY <2>2, <2>4, <3>1, <3>2, NothingRefused
  <2>. QED  BY <2>1, <2>3, <2>4
<1>. QED  BY <1>1, ResolutionInvHolds, PTL

\* The guard, on the resolved targets in their sorted order, and the preflight, on the
\* authored record, give one class; only the guard counts the targets of one group.
THEOREM GuardAndPreflightAgree == Spec => []GuardAgreesWithPreflight
<1>1. ResolutionInv => GuardAgreesWithPreflight
  BY GuardFacts DEF ResolutionInv, ResolvedOK, Held, GuardAgreesWithPreflight
<1>. QED  BY <1>1, ResolutionInvHolds, PTL

\* The order in which an author wrote the targets reaches neither the resolved state nor
\* the error of a request whose maxima are missing or invalid.
THEOREM AuthoringOrderIsUnobservable == Spec => []OrderIsUnobservable
<1>1. ResolutionInv => OrderIsUnobservable
  <2>. SUFFICES ASSUME ResolutionInv, NEW q \in Request, SameAuthoring(q, request)
                PROVE  /\ resolved # None => Why(q) = "none" /\ Resolve(q) = resolved
                       /\ refused \in {"MissingDenominator", "InvalidDenominator"} => Why(q) = refused
    BY DEF OrderIsUnobservable
  <2>1. q \in Calibrated
    BY DEF SameAuthoring, Calibrated
  <2>2. request \in Calibrated => Why(q) = Why(request) /\ Resolve(q) = Resolve(request)
    BY <2>1, SameAuthoringSameResolution
  <2>. QED  BY <2>2 DEF ResolutionInv, ResolvedOK, RefusedOK, Held
<1>. QED  BY <1>1, ResolutionInvHolds, PTL

===============================================================================
