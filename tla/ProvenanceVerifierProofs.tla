----------------------- MODULE ProvenanceVerifierProofs -----------------------
(***************************************************************************)
(* What a run of verify_provenance.py that ended with 0 establishes, for   *)
(* every manifest, tree and checkout: the mirrors are mirrors, and nothing *)
(* that is the canonical pack's was verified as a historical seed.         *)
(***************************************************************************)
EXTENDS ProvenanceVerifier, TLAPS

\* What a report may list of an extraction.
What == {"source", "missing", "modified", "function", "scaffolding"}

\* Extraction j was found clean, or is in the report.
Accounted(j) ==
  manifest[j].class \in Mirrors =>
    \/ Mirrored(manifest[j])
    \/ \E w \in What : [in |-> j, what |-> w] \in problems

\* A run in progress has accounted for the extractions before its place, and began with
\* a manifest that reclassifies nothing: nothing of its inputs changes meanwhile.
RunInv ==
  /\ manifest \in Manifests
  /\ at \in Nat
  /\ at > 0 => ~Reclassified(manifest) /\ \A j \in 1..(at - 1) : Accounted(j)
  /\ exit = "ok" => ~Reclassified(manifest) /\ \A j \in DOMAIN manifest :
                      manifest[j].class \in Mirrors => Mirrored(manifest[j])

\* A manifest is a sequence of extractions: its indices are 1 to its length.
LEMMA ManifestIndices ==
  ASSUME NEW m \in Manifests
  PROVE  /\ Len(m) \in Nat /\ DOMAIN m = 1..Len(m)
         /\ \A i \in DOMAIN m : IsExtraction(m[i])
BY VerifierConstants

\* A mirror with nothing in the report is a mirror: the hash recorded is that of bytes,
\* so that a file missing on both sides is no match.
LEMMA CleanIsMirrored ==
  ASSUME NEW x, IsExtraction(x), Reported(x, MirrorProblems(x)) = {}
  PROVE  Mirrored(x)
<1> SUFFICES ASSUME NEW e \in Verified(x)
             PROVE  /\ Hashed(e, Blob[CommitOf(x, e)][e.source]) # None
                    /\ Hashed(e, tree[e.dest]) # None
                    /\ x.class = "CANONICAL_MIRROR" \/ ~IsWhole(e) =>
                         Hashed(e, tree[e.dest]) = Hashed(e, Blob[CommitOf(x, e)][e.source])
  BY DEF Mirrored
<1>1. FoundAt(x, e) \subseteq {"modified"}
  BY DEF MirrorProblems, Reported
<1>2. x.class = "CANONICAL_MIRROR" => FoundAt(x, e) = {}
  BY DEF MirrorProblems, Reported
<1>3. ~SourceDiffers(x, e)
  BY <1>1 DEF FoundAt
<1>4. e \in Entry
  BY DEF IsExtraction, Verified, Whole
<1>5. e.hash # None
  BY <1>4, VerifierConstants DEF Entry
<1>6. CASE IsWhole(e)
  <2>1. tree[e.dest] # None
    BY <1>1, <1>6 DEF FoundAt
  <2>2. x.class = "CANONICAL_MIRROR" => tree[e.dest] = e.hash
    BY <1>2, <1>6, <2>1 DEF FoundAt
  <2> QED
    BY <1>3, <1>5, <1>6, <2>1, <2>2 DEF SourceDiffers, Hashed
<1>7. CASE ~IsWhole(e)
  <2>1. Hashed(e, tree[e.dest]) = e.hash
    BY <1>1, <1>7 DEF FoundAt
  <2> QED
    BY <1>3, <1>5, <2>1 DEF SourceDiffers
<1> QED
  BY <1>6, <1>7

\* Every step keeps the invariant: Verify accounts for the extraction at its place, and
\* the edits wait until a run has ended, and take its result with them.
LEMMA RunInvStep ==
  ASSUME RunInv, [Next]_vars
  PROVE  RunInv'
<1> USE DEF RunInv
<1>1. CASE Begin
  <2>1. tree' = tree /\ manifest' = manifest
    BY <1>1 DEF Begin, inputs
  <2>2. Reclassified(manifest)' <=> Reclassified(manifest)
    BY <2>1 DEF Reclassified, Indices, Whole, IsWhole, ImmutablePaths, MirrorsIn, SurfacePaths
  <2>3. CASE at' = 0 /\ exit' # "ok"
    BY <2>1, <2>3
  <2>4. CASE at' = 1 /\ ~Reclassified(manifest) /\ exit' = "none"
    BY <2>1, <2>2, <2>4
  <2> QED
    BY <1>1, <2>3, <2>4 DEF Begin, End
<1>2. CASE Verify
  <2> DEFINE x == manifest[at]
  <2>1. /\ tree' = tree /\ manifest' = manifest /\ at \in DOMAIN manifest /\ at > 0
    BY <1>2, ManifestIndices DEF Verify, inputs
  <2>2. Reclassified(manifest)' <=> Reclassified(manifest)
    BY <2>1 DEF Reclassified, Indices, Whole, IsWhole, ImmutablePaths, MirrorsIn, SurfacePaths
  <2>3. \A y : Mirrored(y)' <=> Mirrored(y)
    BY <2>1 DEF Mirrored, Verified, Whole, IsWhole, Hashed, CommitOf
  <2>4. CASE at' = 0 /\ exit' # "ok"
    BY <2>1, <2>4
  <2>5. CASE /\ at' = at + 1 /\ exit' = exit
             /\ x.class \in Mirrors =>
                  problems' = problems \cup {[in |-> at, what |-> w] : w \in Reported(x, MirrorProblems(x)) \cup MissingScaffolding(x)}
             /\ problems \subseteq problems'
    <3>1. ASSUME NEW j, j = at PROVE Accounted(j)'
      <4>1. Reported(x, MirrorProblems(x)) \subseteq What
        BY DEF MirrorProblems, Reported, FoundAt, What
      <4>2. Reported(x, MirrorProblems(x)) = {} => Mirrored(x)
        BY <2>1, CleanIsMirrored, ManifestIndices
      <4>3. CASE x.class \in Mirrors /\ Reported(x, MirrorProblems(x)) # {}
        <5>1. PICK w \in Reported(x, MirrorProblems(x)) : TRUE
          BY <4>3
        <5>2. [in |-> at, what |-> w] \in problems'
          BY <2>5, <4>3, <5>1
        <5> QED
          BY <2>1, <3>1, <4>1, <5>1, <5>2 DEF Accounted
      <4> QED
        BY <2>1, <2>3, <3>1, <4>2, <4>3 DEF Accounted
    <3>2. \A j \in 1..(at - 1) : Accounted(j)'
      BY <2>1, <2>3, <2>5 DEF Accounted
    <3>3. \A j \in 1..(at' - 1) : j = at \/ j \in 1..(at - 1)
      BY <2>1, <2>5
    <3>4. \A j \in 1..(at' - 1) : Accounted(j)'
      BY <3>1, <3>2, <3>3
    <3> QED
      BY <2>1, <2>2, <2>3, <2>5, <3>4
  <2>6. "HISTORICAL_SEED" \notin Mirrors
    BY DEF Mirrors
  <2>7. \/ at' = 0 /\ exit' \in {"refused", "crashed"}
        \/ /\ at' = at + 1 /\ exit' = exit /\ problems \subseteq problems'
           /\ x.class \in Mirrors =>
                problems' = problems \cup {[in |-> at, what |-> w] : w \in Reported(x, MirrorProblems(x)) \cup MissingScaffolding(x)}
    BY <1>2, <2>6 DEF Verify, End
  <2> QED
    BY <2>4, <2>5, <2>7
<1>3. CASE Report
  <2>1. tree' = tree /\ manifest' = manifest /\ at' = 0
    BY <1>3 DEF Report, End, inputs
  <2>2. Reclassified(manifest)' <=> Reclassified(manifest)
    BY <2>1 DEF Reclassified, Indices, Whole, IsWhole, ImmutablePaths, MirrorsIn, SurfacePaths
  <2>3. \A y : Mirrored(y)' <=> Mirrored(y)
    BY <2>1 DEF Mirrored, Verified, Whole, IsWhole, Hashed, CommitOf
  <2>4. at > 0 /\ 1..(at - 1) = DOMAIN manifest
    BY <1>3, ManifestIndices DEF Report
  <2>5. exit' = "ok" => problems = {}
    BY <1>3 DEF Report, End
  <2>6. exit' = "ok" => \A j \in DOMAIN manifest : manifest[j].class \in Mirrors => Mirrored(manifest[j])
    BY <2>4, <2>5 DEF Accounted
  <2> QED
    BY <2>1, <2>2, <2>3, <2>4, <2>6
<1>4. CASE Edit
  BY <1>4, VerifierConstants DEF Edit
<1>5. CASE UNCHANGED vars
  <2>1. /\ tree' = tree /\ manifest' = manifest /\ at' = at /\ exit' = exit /\ problems' = problems
    BY <1>5 DEF vars
  <2>2. Reclassified(manifest)' <=> Reclassified(manifest)
    BY <2>1 DEF Reclassified, Indices, Whole, IsWhole, ImmutablePaths, MirrorsIn, SurfacePaths
  <2>3. \A y : Mirrored(y)' <=> Mirrored(y)
    BY <2>1 DEF Mirrored, Verified, Whole, IsWhole, Hashed, CommitOf
  <2> QED
    BY <2>1, <2>2, <2>3 DEF Accounted
<1> QED
  BY <1>1, <1>2, <1>3, <1>4, <1>5 DEF Next, Run

\* The invariant holds of every run, whatever is edited between two of them.
LEMMA RunInvHolds == Spec => []RunInv
<1>1. Init => RunInv
  BY DEF Init, RunInv
<1> QED
  BY <1>1, RunInvStep, PTL DEF Spec

\* A run of verify_provenance.py that ends with 0 means that every file of a canonical
\* mirror, and every function of a runtime mirror, is here what it is in its source commit.
THEOREM OkMirrors == Spec => []OkMeansMirrored
<1>1. RunInv => OkMeansMirrored
  BY DEF RunInv, OkMeansMirrored, MirrorsIn, Indices
<1> QED
  BY <1>1, RunInvHolds, PTL

\* A run that ends with 0 verified no path of the imported inventory under the rules of a
\* historical seed: the inventory it read its surface from is the one that was imported.
THEOREM SeedsNameNoCanonicalPath == Spec => []NoCanonicalPathIsASeed
<1>1. ASSUME RunInv, exit = "ok",
             NEW x \in MirrorsIn(manifest), NEW e \in Whole(x),
             x.class = "CANONICAL_MIRROR", e.dest = Inventory,
             NEW i \in DOMAIN manifest, manifest[i].class = "HISTORICAL_SEED",
             NEW f \in Whole(manifest[i])
      PROVE  f.source \notin Surface[Blob[CommitOf(x, e)][e.source]]
  <2>1. Mirrored(x)
    BY <1>1 DEF RunInv, MirrorsIn, Indices
  <2>2. e \in Verified(x) /\ IsWhole(e)
    BY DEF Verified, Whole
  <2>3. tree[Inventory] # None /\ Blob[CommitOf(x, e)][e.source] = tree[Inventory]
    BY <1>1, <2>1, <2>2 DEF Mirrored, Hashed
  <2>4. SurfacePaths = Surface[tree[Inventory]]
    BY <2>3 DEF SurfacePaths
  <2>5. f.source \notin ImmutablePaths(manifest)
    BY <1>1 DEF RunInv, Reclassified, Indices
  <2>6. f.source \notin SurfacePaths
    BY <2>5 DEF ImmutablePaths
  <2> QED
    BY <2>3, <2>4, <2>6
<1>2. RunInv => NoCanonicalPathIsASeed
  BY <1>1 DEF NoCanonicalPathIsASeed
<1> QED
  BY <1>2, RunInvHolds, PTL
-------------------------------------------------------------------------------
\* Every step keeps the types: a run stays within its manifest, and what it found is of
\* the extractions it went through.
THEOREM VerifierTypeCorrect == Spec => []TypeOK
<1>1. Init => TypeOK
  <2> SUFFICES ASSUME Init PROVE TypeOK
    OBVIOUS
  <2>1. Len(manifest) \in Nat
    BY ManifestIndices DEF Init
  <2> QED
    BY <2>1, VerifierConstants DEF Init, TypeOK
<1>2. ASSUME TypeOK, [Next]_vars
      PROVE  TypeOK'
  <2> USE DEF TypeOK
  <2>1. Len(manifest) \in Nat /\ DOMAIN manifest = 1..Len(manifest)
    BY <1>2, ManifestIndices
  <2>2. CASE Begin
    <3>1. at' \in {0, 1} /\ (exit' = "none" \/ at' = 0) /\ exit' \in {"none", "refused", "crashed"}
          /\ problems' = {} /\ unclean' = {}
      BY <2>2 DEF Begin, End
    <3>2. UNCHANGED inputs
      BY <2>2 DEF Begin
    <3>3. at' \in 0..(Len(manifest') + 1)
      BY <2>1, <3>1, <3>2 DEF inputs
    <3> QED
      BY <1>2, <3>1, <3>2, <3>3 DEF inputs
  <2>3. CASE Verify
    <3> DEFINE x == manifest[at]
    <3>1. UNCHANGED inputs /\ at \in 1..Len(manifest)
      BY <2>1, <2>3 DEF Verify
    <3>2. exit = "none"
      BY <1>2, <3>1
    <3>3. \/ at' = 0 /\ exit' \in {"refused", "crashed"} /\ UNCHANGED <<problems, unclean>>
          \/ /\ at' = at + 1 /\ exit' = exit /\ (unclean' = unclean \/ unclean' = unclean \cup {at})
             /\ \E what \in SUBSET What : problems' = problems \cup {[in |-> at, what |-> w] : w \in what}
      <4>1. CASE at' = 0
        BY <2>1, <2>3, <3>1, <4>1 DEF Verify, End
      <4>2. CASE at' # 0
        <5> DEFINE found == CASE x.class = "HISTORICAL_SEED" -> IF SeedFaithful(x) THEN {} ELSE {"modified"}
                              [] x.class \in Mirrors -> MirrorProblems(x)
                   what == Reported(x, found) \cup MissingScaffolding(x)
        <5>1. /\ at' = at + 1 /\ exit' = exit /\ (unclean' = unclean \/ unclean' = unclean \cup {at})
              /\ problems' = problems \cup {[in |-> at, what |-> w] : w \in what}
              /\ x.class # "unrecognized"
          BY <2>3, <4>2 DEF Verify, End
        <5>2. IsExtraction(x)
          BY <1>2, <3>1, <2>1, ManifestIndices
        <5>3. x.class = "HISTORICAL_SEED" \/ x.class \in Mirrors
          BY <5>1, <5>2 DEF IsExtraction, Classes
        <5>4. MirrorProblems(x) \subseteq What
          BY DEF MirrorProblems, FoundAt, What
        <5>5. found \subseteq What
          <6>1. {"modified"} \subseteq What /\ "HISTORICAL_SEED" \notin Mirrors
            BY DEF What, Mirrors
          <6> QED  BY <5>3, <5>4, <6>1
        <5>6. MissingScaffolding(x) \subseteq What
          BY DEF MissingScaffolding, What
        <5> HIDE DEF found
        <5>7. what \in SUBSET What
          BY <5>5, <5>6 DEF Reported
        <5> HIDE DEF what
        <5> QED  BY <5>1, <5>7
      <4> QED  BY <4>1, <4>2
    <3>4. \A what \in SUBSET What : {[in |-> at, what |-> w] : w \in what} \subseteq Finding
      BY <3>1 DEF What, Finding
    <3>5. problems' \subseteq Finding
      BY <1>2, <3>3, <3>4
    <3>6. unclean' \subseteq 1..Len(manifest)
      BY <1>2, <3>1, <3>3
    <3>7. at' \in 0..(Len(manifest) + 1) /\ (exit' = "none" \/ at' = 0)
          /\ exit' \in {"none", "ok", "failed", "refused", "crashed"}
      BY <2>1, <3>1, <3>2, <3>3
    <3>8. TypeOK' <=> /\ problems' \subseteq Finding /\ unclean' \subseteq 1..Len(manifest)
                      /\ at' \in 0..(Len(manifest) + 1) /\ (exit' = "none" \/ at' = 0)
                      /\ exit' \in {"none", "ok", "failed", "refused", "crashed"}
      BY <1>2, <3>1 DEF inputs
    <3> QED  BY <3>5, <3>6, <3>7, <3>8
  <2>4. CASE Report
    <3>1. at' = 0 /\ exit' \in {"ok", "failed"} /\ UNCHANGED <<inputs, problems, unclean>>
      BY <2>4 DEF Report, End
    <3>2. 0 \in 0..(Len(manifest) + 1)
      BY <2>1
    <3> QED  BY <1>2, <3>1, <3>2 DEF inputs
  <2>5. CASE Edit
    <3>1. /\ at = 0 /\ at' = 0 /\ edits' \in 0..MaxEdits
          /\ exit' = "none" /\ problems' = {} /\ unclean' = {}
      BY <1>2, <2>5, VerifierConstants DEF Edit
    <3>2. /\ tree' \in [Paths -> Contents \cup {None}] /\ manifest' \in Manifests
          /\ checkout' \in {None} \cup SUBSET Commits /\ imported' \in Contents \cup {None}
      BY <1>2, <2>5 DEF Edit
    <3>3. Len(manifest') \in Nat
      BY <3>2, ManifestIndices
    <3> QED  BY <3>1, <3>2, <3>3
  <2>6. CASE UNCHANGED vars
    BY <1>2, <2>6 DEF vars
  <2> QED  BY <1>2, <2>2, <2>3, <2>4, <2>5, <2>6 DEF Next, Run
<1> QED
  BY <1>1, <1>2, PTL DEF Spec

-------------------------------------------------------------------------------
\* Why the verdict of extraction i may be unclean, and be left out of the report.
LeftOut(i) ==
  \/ manifest[i].class = "CANONICAL_MIRROR" /\ VectorResult # "pass"
  \/ /\ manifest[i].class = "RUNTIME_CODE_MIRROR"
     /\ \E e \in Whole(manifest[i]) : tree[e.dest] \notin {None, e.hash}

\* Extraction i differs from what its entry records.
Differs(i) ==
  \/ /\ manifest[i].class \in Mirrors
     /\ \E e \in Verified(manifest[i]) : SourceDiffers(manifest[i], e) \/ Hashed(e, tree[e.dest]) # e.hash
  \/ \E p \in manifest[i].scaffolding : tree[p] = None
  \/ /\ manifest[i].class = "HISTORICAL_SEED"
     /\ \E e \in Whole(manifest[i]) : Blob[manifest[i].commit][e.dest] # e.hash

\* Each unclean verdict is reported or one of those left out, and what is reported is a
\* difference there is: what a run found holds until the next edit, which drops it.
VerdictInv ==
  /\ \A i \in unclean : LeftOut(i) \/ \E w \in What : [in |-> i, what |-> w] \in problems
  /\ \A p \in problems : p.in \in DOMAIN manifest /\ Differs(p.in)
  /\ exit = "ok" => problems = {}
  /\ exit = "failed" => problems # {} \/ Unrecorded(manifest) # {}

\* A finding that the report lists is of a difference; one that it does not list is of a
\* file of a runtime mirror modified here.
LEMMA FindingsAreDifferences ==
  ASSUME NEW x, IsExtraction(x)
  PROVE  /\ MirrorProblems(x) # {} =>
              \E e \in Verified(x) : SourceDiffers(x, e) \/ Hashed(e, tree[e.dest]) # e.hash
         /\ MirrorProblems(x) # {} /\ Reported(x, MirrorProblems(x)) = {} =>
              /\ x.class = "RUNTIME_CODE_MIRROR"
              /\ \E e \in Whole(x) : tree[e.dest] \notin {None, e.hash}
<1>1. ASSUME NEW e \in Verified(x), FoundAt(x, e) # {}
      PROVE  SourceDiffers(x, e) \/ Hashed(e, tree[e.dest]) # e.hash
  <2>1. e.hash # None
    BY VerifierConstants DEF IsExtraction, Verified, Whole, Entry
  <2>2. CASE IsWhole(e)
    <3>1. Hashed(e, tree[e.dest]) = tree[e.dest]
      BY <2>2 DEF Hashed
    <3> QED  BY <1>1, <2>1, <2>2, <3>1 DEF FoundAt
  <2>3. CASE ~IsWhole(e)
    BY <1>1, <2>3 DEF FoundAt
  <2> QED  BY <2>2, <2>3
<1>2. ASSUME MirrorProblems(x) # {}
      PROVE  \E e \in Verified(x) : FoundAt(x, e) # {}
  BY <1>2 DEF MirrorProblems
<1>3. ASSUME MirrorProblems(x) # {}, Reported(x, MirrorProblems(x)) = {}
      PROVE  /\ x.class = "RUNTIME_CODE_MIRROR"
             /\ \E e \in Whole(x) : tree[e.dest] \notin {None, e.hash}
  <2>1. x.class = "RUNTIME_CODE_MIRROR" /\ MirrorProblems(x) \subseteq {"modified"}
    BY <1>3 DEF Reported
  <2>2. PICK e \in Verified(x) : FoundAt(x, e) # {}
    BY <1>2, <1>3
  <2>3. FoundAt(x, e) \subseteq {"modified"}
    BY <2>1 DEF MirrorProblems
  <2>4. IsWhole(e) /\ tree[e.dest] \notin {None, e.hash}
    BY <2>2, <2>3 DEF FoundAt
  <2>5. e \in Whole(x)
    BY <2>1, <2>4 DEF Verified, Whole
  <2> QED  BY <2>1, <2>4, <2>5
<1> QED
  BY <1>1, <1>2, <1>3

\* Nothing that the verdicts are about changes while they stand.
LEMMA VerdictsStand ==
  ASSUME UNCHANGED inputs
  PROVE  /\ \A i : LeftOut(i)' <=> LeftOut(i)
         /\ \A i : Differs(i)' <=> Differs(i)
         /\ Unrecorded(manifest)' = Unrecorded(manifest)
<1> USE DEF inputs
<1>1. VectorResult' = VectorResult
  BY DEF VectorResult, Failures
<1>2. \A i : LeftOut(i)' <=> LeftOut(i)
  BY <1>1 DEF LeftOut, Whole, IsWhole
<1>3. \A i : Differs(i)' <=> Differs(i)
  BY DEF Differs, Verified, Whole, IsWhole, SourceDiffers, Hashed, CommitOf
<1>4. Unrecorded(manifest)' = Unrecorded(manifest)
  BY DEF Unrecorded, MirrorsIn, Indices
<1> QED
  BY <1>2, <1>3, <1>4

LEMMA VerdictStep ==
  ASSUME TypeOK, VerdictInv, [Next]_vars
  PROVE  VerdictInv'
<1> DEFINE Stands ==
      UNCHANGED inputs /\ UNCHANGED <<problems, unclean>>
<1>1. ASSUME Stands, exit' = exit \/ exit' \in {"none", "refused", "crashed"}
      PROVE  VerdictInv'
  <2>1. UNCHANGED inputs /\ problems' = problems /\ unclean' = unclean /\ manifest' = manifest
    BY <1>1 DEF inputs
  <2> QED  BY <1>1, <2>1, VerdictsStand DEF VerdictInv
<1>2. CASE Begin
  <2>1. UNCHANGED inputs /\ problems' = {} /\ unclean' = {} /\ exit' \in {"none", "refused", "crashed"}
    BY <1>2 DEF Begin, End
  <2> QED  BY <2>1 DEF VerdictInv
<1>3. CASE Verify
  <2> DEFINE x == manifest[at]
             found == CASE x.class = "HISTORICAL_SEED" -> IF SeedFaithful(x) THEN {} ELSE {"modified"}
                        [] x.class \in Mirrors -> MirrorProblems(x)
             vectors == IF x.class = "CANONICAL_MIRROR" THEN VectorResult ELSE "pass"
             what == Reported(x, found) \cup MissingScaffolding(x)
  <2>1. UNCHANGED inputs /\ manifest' = manifest /\ at \in DOMAIN manifest /\ exit = "none" /\ IsExtraction(x)
    <3>1. UNCHANGED inputs /\ at \in DOMAIN manifest
      BY <1>3 DEF Verify
    <3>2. Len(manifest) \in Nat /\ DOMAIN manifest = 1..Len(manifest) /\ IsExtraction(x)
      BY <3>1, ManifestIndices DEF TypeOK
    <3>3. at # 0
      BY <3>1, <3>2
    <3> QED  BY <3>1, <3>2, <3>3 DEF TypeOK, inputs
  <2>2. \/ exit' \in {"refused", "crashed"} /\ UNCHANGED <<problems, unclean>>
        \/ /\ exit' = exit /\ x.class # "unrecognized"
           /\ problems' = problems \cup {[in |-> at, what |-> w] : w \in what}
           /\ unclean' = IF found = {} /\ vectors = "pass" THEN unclean ELSE unclean \cup {at}
    BY <1>3 DEF Verify, End
  <2>3. CASE exit' \in {"refused", "crashed"} /\ UNCHANGED <<problems, unclean>>
    BY <1>1, <2>1, <2>3
  <2>4. CASE /\ exit' = exit /\ x.class # "unrecognized"
             /\ problems' = problems \cup {[in |-> at, what |-> w] : w \in what}
             /\ unclean' = IF found = {} /\ vectors = "pass" THEN unclean ELSE unclean \cup {at}
    <3>1. x.class \in Mirrors \/ x.class = "HISTORICAL_SEED"
      BY <2>1, <2>4 DEF IsExtraction, Classes
    <3>2. (x.class \in Mirrors => found = MirrorProblems(x))
          /\ (x.class = "HISTORICAL_SEED" => found = IF SeedFaithful(x) THEN {} ELSE {"modified"})
      BY DEF Mirrors
    <3>3. Reported(x, found) \subseteq found /\ MissingScaffolding(x) \subseteq What /\ found \subseteq What
      BY <3>1, <3>2 DEF Reported, MissingScaffolding, What, MirrorProblems, FoundAt
    <3>4. found # {} => Differs(at)
      <4>1. CASE x.class \in Mirrors
        BY <2>1, <3>2, <4>1, FindingsAreDifferences DEF Differs
      <4>2. CASE x.class = "HISTORICAL_SEED"
        BY <3>2, <4>2 DEF SeedFaithful, Differs
      <4> QED  BY <3>1, <4>1, <4>2
    <3>5. what # {} => Differs(at)
      <4>1. MissingScaffolding(x) # {} => Differs(at)
        BY DEF MissingScaffolding, Differs
      <4> QED  BY <3>3, <3>4, <4>1
    <3>6. found # {} /\ Reported(x, found) = {} => LeftOut(at)
      <4>1. CASE x.class \in Mirrors
        BY <2>1, <3>2, <4>1, FindingsAreDifferences DEF LeftOut
      <4>2. CASE x.class = "HISTORICAL_SEED"
        BY <4>2 DEF Reported
      <4> QED  BY <3>1, <4>1, <4>2
    <3>7. vectors # "pass" => LeftOut(at)
      BY DEF LeftOut
    <3> HIDE DEF found, vectors
    <3>8. \A i \in unclean' : (i = at /\ (found # {} \/ vectors # "pass")) \/ i \in unclean
      BY <2>4
    <3>9. \A i \in unclean' : LeftOut(i) \/ \E w \in What : [in |-> i, what |-> w] \in problems'
      <4>1. ASSUME found # {} \/ vectors # "pass"
            PROVE  LeftOut(at) \/ \E w \in What : [in |-> at, what |-> w] \in problems'
        BY <2>4, <3>3, <3>6, <3>7, <4>1
      <4>2. ASSUME NEW i \in unclean
            PROVE  LeftOut(i) \/ \E w \in What : [in |-> i, what |-> w] \in problems'
        BY <2>4, <4>2 DEF VerdictInv
      <4> QED  BY <3>8, <4>1, <4>2
    <3>10. \A p \in problems' : p.in \in DOMAIN manifest /\ Differs(p.in)
      <4> HIDE DEF what
      <4>1. \A p \in problems' : p \in problems \/ (what # {} /\ p.in = at)
        BY <2>4
      <4> QED  BY <2>1, <3>5, <4>1 DEF VerdictInv
    <3>11. exit' = "none"
      BY <2>1, <2>4
    <3> QED  BY <2>1, <3>9, <3>10, <3>11, VerdictsStand DEF VerdictInv
  <2> QED  BY <2>2, <2>3, <2>4
<1>4. CASE Report
  <2>1. UNCHANGED inputs /\ problems' = problems /\ unclean' = unclean /\ manifest' = manifest
        /\ exit' = IF problems = {} /\ Unrecorded(manifest) = {} THEN "ok" ELSE "failed"
    BY <1>4 DEF Report, End, inputs
  <2> QED  BY <2>1, VerdictsStand DEF VerdictInv
<1>5. CASE Edit
  BY <1>5 DEF Edit, VerdictInv
<1>6. CASE UNCHANGED vars
  BY <1>1, <1>6 DEF vars, inputs
<1> QED
  BY <1>2, <1>3, <1>4, <1>5, <1>6 DEF Next, Run

\* What is unclean after a run that ended with 0 are the two kinds of difference that the
\* report leaves out; and no run ends with 1 that has not met a difference.
THEOREM ExitCodesAreRight == Spec => []ExitCodeIsRight
<1>1. Init => VerdictInv
  BY DEF Init, VerdictInv
<1>2. TypeOK /\ VerdictInv => ExitCodeIsRight
  <2> SUFFICES ASSUME TypeOK, VerdictInv PROVE ExitCodeIsRight
    OBVIOUS
  <2>1. ASSUME exit = "ok", NEW i \in unclean
        PROVE  LeftOut(i)
    BY <2>1 DEF VerdictInv
  <2>2. ASSUME exit = "failed", Unrecorded(manifest) = {}
        PROVE  \E i \in DOMAIN manifest : Differs(i)
    BY <2>2 DEF VerdictInv
  <2>3. ASSUME NEW i \in DOMAIN manifest, manifest[i].class \in Mirrors
        PROVE  manifest[i] \in MirrorsIn(manifest)
    BY <2>3 DEF MirrorsIn, Indices
  <2> QED  BY <2>1, <2>2, <2>3 DEF ExitCodeIsRight, LeftOut, Differs
<1> QED
  BY <1>1, <1>2, VerifierTypeCorrect, VerdictStep, PTL DEF Spec

===============================================================================
