-------------------------- MODULE ProvenanceVerifier --------------------------
(***************************************************************************)
(* provenance/verify_provenance.py: the manifest's extractions, one after  *)
(* the other, against the git objects they were imported from and the      *)
(* working tree, which others edit between two runs.                       *)
(*                                                                         *)
(* SHA-256 is taken as collision-free: a hash is represented by the bytes  *)
(* it is the hash of, and the hash of a function by its source segment.    *)
(* Git objects are immutable: a commit holds the same blobs everywhere,    *)
(* and a checkout differs only in the commits it has.                      *)
(***************************************************************************)
EXTENDS Naturals, Sequences, Functions

CONSTANTS
  Paths,        \* paths, of the source repository and of this one
  Contents,     \* what a file may hold
  Names,        \* top-level definitions a file may have
  Segments,     \* the sources of definitions
  Segment,      \* Segment[c][n]: the source of definition n in c, or None
  Commits,      \* commits of the source repository
  OwnCommits,   \* commits of this one
  Blob,         \* Blob[k][p]: what commit k holds at p, or None
  Manifests,    \* the manifests somebody may write
  Trees,        \* the working trees at first
  Inventory, Runner, Vectors, Package,   \* the four paths of the canonical pack
  Surface,      \* Surface[c]: the paths c lists as minimum_export_surface
  Broken,       \* contents that are neither Python nor JSON
  Listed,       \* Listed[c]: the vectors a pack c holds
  Conforming,   \* the <<runner, vector, package>> that pass
  None,
  MaxEdits      \* bound: edits of tree, manifest and environment

Mirrors == {"CANONICAL_MIRROR", "RUNTIME_CODE_MIRROR"}
Classes == Mirrors \cup {"HISTORICAL_SEED", "unrecognized"}

\* An entry of imported_files, imported_modules or extracted_artifacts (name = None) or
\* of imported_functions; commit is its own source_commit, if it declares one.
Entry == [source : Paths, dest : Paths, name : Names \cup {None},
          commit : Commits \cup {None}, hash : Contents \cup Segments]

\* roots are the paths import_path_roots expand to.
IsExtraction(x) ==
  /\ x.class \in Classes /\ x.commit \in Commits \cup OwnCommits
  /\ x.entries \subseteq Entry /\ x.roots \subseteq Paths /\ x.scaffolding \subseteq Paths

ASSUME VerifierConstants ==
  /\ Segment \in [Contents -> [Names -> Segments \cup {None}]]
  /\ Blob \in [Commits \cup OwnCommits -> [Paths -> Contents \cup {None}]]
  /\ \A m \in Manifests : m \in Seq(Range(m)) /\ \A i \in DOMAIN m : IsExtraction(m[i])
  /\ Trees \subseteq [Paths -> Contents \cup {None}]
  /\ Surface \in [Contents -> SUBSET Paths] /\ Broken \subseteq Contents
  /\ Contents = DOMAIN Listed /\ None \notin Contents \cup Segments
  /\ MaxEdits \in Nat

VARIABLES
  tree,       \* the working tree
  manifest,   \* a sequence of extractions
  checkout,   \* the commits the given checkout has, or None: it is no checkout
  imported,   \* the package Python imports: None, if it is the tree's own
  edits,
  at,         \* the extraction verified next, 0 when no run is in progress
  problems,   \* what the report lists: [in |-> extraction, what |-> list]
  unclean,    \* the extractions whose verdict is not clean
  exit        \* how the last run ended

inputs == <<tree, manifest, checkout, imported, edits>>
vars == <<tree, manifest, checkout, imported, edits, at, problems, unclean, exit>>

-------------------------------------------------------------------------------
IsWhole(e) == e.name = None
Whole(x) == {e \in x.entries : IsWhole(e)}                 \* extraction_entries
CommitOf(x, e) == IF e.commit = None THEN x.commit ELSE e.commit
Indices(m) == DOMAIN m
MirrorsIn(m) == {m[i] : i \in {j \in Indices(m) : m[j].class \in Mirrors}}

\* A canonical mirror's imported_functions are recorded, and not looked at.
Verified(x) == IF x.class = "CANONICAL_MIRROR" THEN Whole(x) ELSE x.entries

\* The bytes an entry's hash is of: the whole file, or the first definition of that name.
Hashed(e, content) ==
  IF IsWhole(e) \/ content = None THEN content ELSE Segment[content][e.name]

\* Mutant of SurfacePaths: the inventory of the commit is not needed.
SurfaceIgnored == {}

\* minimum_export_surface of the inventory, when there is one.
SurfacePaths == IF tree[Inventory] = None THEN {} ELSE Surface[tree[Inventory]]

\* _immutable_mirror_source_paths, and the surface of the inventory in the tree
ImmutablePaths(m) == SurfacePaths \cup UNION {{e.source : e \in x.entries} : x \in MirrorsIn(m)}

\* assert_no_reclassification, over the entries of whole files only.
Reclassified(m) ==
  \E i \in Indices(m) :
    m[i].class = "HISTORICAL_SEED" /\ \E e \in Whole(m[i]) : e.source \in ImmutablePaths(m)

\* assert_commit_exists, for the commits this extraction's verification reads.
CommitsKnown(x) ==
  IF x.class = "HISTORICAL_SEED" THEN x.commit \in OwnCommits
  ELSE x.commit \in checkout /\ \A e \in Verified(x) : CommitOf(x, e) \in checkout

\* Mutant of SeedFaithful: a seed is compared with the tree, as a mirror is.
SeedUnchanged(x) == \A e \in Whole(x) : tree[e.dest] = e.hash

\* verify_historical_seed_extraction: the tree is not looked at.
SeedFaithful(x) == \A e \in Whole(x) : Blob[x.commit][e.dest] = e.hash

SourceDiffers(x, e) == Hashed(e, Blob[CommitOf(x, e)][e.source]) # e.hash

\* Mutant of FoundAt: of a function, only the source is compared.
FoundAtSource(x, e) ==
  (IF SourceDiffers(x, e) THEN {"source"} ELSE {})
    \cup (IF IsWhole(e) /\ tree[e.dest] = None THEN {"missing"} ELSE {})
    \cup (IF IsWhole(e) /\ tree[e.dest] \notin {None, e.hash} THEN {"modified"} ELSE {})

\* verify_canonical_mirror_extraction, verify_runtime_code_mirror_extraction: whether the
\* bytes at the source commit and the bytes here are those recorded.  A function has one
\* problem (verify_function_entry), wherever it lies.
FoundAt(x, e) ==
  IF IsWhole(e)
    THEN (IF SourceDiffers(x, e) THEN {"source"} ELSE {})
           \cup (IF tree[e.dest] = None THEN {"missing"} ELSE {})
           \cup (IF tree[e.dest] \notin {None, e.hash} THEN {"modified"} ELSE {})
    ELSE IF SourceDiffers(x, e) \/ Hashed(e, tree[e.dest]) # e.hash THEN {"function"} ELSE {}

MirrorProblems(x) == UNION {FoundAt(x, e) : e \in Verified(x)}

\* What verify copies to its report: all, but of a runtime mirror it lists the functions'
\* problems in the place of its modified files.
Reported(x, found) == IF x.class = "RUNTIME_CODE_MIRROR" THEN found \ {"modified"} ELSE found

\* verify_pack never stops at a vector, whether it differs or raises.
Failures(runner, vectors, package) ==
  {v \in Listed[vectors] : <<runner, v, package>> \notin Conforming}

\* run_conformance_vectors: the runner and the vectors of the tree, on the package
\* that Python imports; "crashed" is an exception verify does not catch.
VectorResult ==
  LET package == IF imported = None THEN tree[Package] ELSE imported
  IN  IF tree[Runner] = None \/ tree[Vectors] = None THEN "not_run"
      ELSE IF {tree[Runner], tree[Vectors], package} \cap (Broken \cup {None}) # {} THEN "crashed"
      ELSE IF Failures(tree[Runner], tree[Vectors], package) = {} THEN "pass" ELSE "fail"

MissingScaffolding(x) == {"scaffolding" : p \in {q \in x.scaffolding : tree[q] = None}}

\* find_actual_files_under_all_roots, less what any extraction records or declares.
Unrecorded(m) ==
  {p \in UNION {x.roots : x \in MirrorsIn(m)} : tree[p] # None}
    \ UNION {m[i].scaffolding \cup {e.dest : e \in m[i].entries} : i \in Indices(m)}

-------------------------------------------------------------------------------
Init ==
  /\ tree \in Trees /\ manifest \in Manifests /\ checkout = Commits /\ imported = None
  /\ edits = 0 /\ at = 0 /\ problems = {} /\ unclean = {} /\ exit = "none"

\* Mutant of End: the next run goes on where this one stopped.
EndInPlace(how) == UNCHANGED at /\ exit' = how

End(how) == at' = 0 /\ exit' = how

\* main, to the loop of verify: what raises ProvenanceError ends the run with 2.
Begin ==
  /\ at = 0 /\ exit = "none"
  /\ problems' = {} /\ unclean' = {}
  /\ IF checkout = None THEN End("refused")
     ELSE IF tree[Inventory] \in Broken THEN End("crashed")
     ELSE IF Reclassified(manifest) THEN End("refused")
     ELSE at' = 1 /\ UNCHANGED exit
  /\ UNCHANGED inputs

\* One extraction: its findings go to the report, its verdict to the verdict lines.
Verify ==
  LET x == manifest[at]
      found == CASE x.class = "HISTORICAL_SEED" -> IF SeedFaithful(x) THEN {} ELSE {"modified"}
                 [] x.class \in Mirrors -> MirrorProblems(x)
      vectors == IF x.class = "CANONICAL_MIRROR" THEN VectorResult ELSE "pass"
  IN  /\ at \in DOMAIN manifest
      /\ IF x.class = "unrecognized" \/ ~CommitsKnown(x)
           THEN End("refused") /\ UNCHANGED <<problems, unclean>>
         ELSE IF vectors = "crashed" THEN End("crashed") /\ UNCHANGED <<problems, unclean>>
         ELSE /\ problems' = problems \cup {[in |-> at, what |-> w] : w \in Reported(x, found) \cup MissingScaffolding(x)}
              /\ unclean' = IF found = {} /\ vectors = "pass" THEN unclean ELSE unclean \cup {at}
              /\ at' = at + 1 /\ UNCHANGED exit
      /\ UNCHANGED inputs

\* main's report, and its exit code.
Report ==
  /\ at = Len(manifest) + 1
  /\ End(IF problems = {} /\ Unrecorded(manifest) = {} THEN "ok" ELSE "failed")
  /\ UNCHANGED <<inputs, problems, unclean>>

Run == Begin \/ Verify \/ Report

\* Between two runs a file of the tree is written or removed, the manifest rewritten,
\* another checkout given, or another version of the package installed.
Edit ==
  /\ at = 0 /\ edits < MaxEdits /\ edits' = edits + 1
  /\ \/ /\ \E p \in Paths, c \in Contents \cup {None} : tree' = [tree EXCEPT ![p] = c]
        /\ UNCHANGED <<manifest, checkout, imported>>
     \/ manifest' \in Manifests /\ UNCHANGED <<tree, checkout, imported>>
     \/ checkout' \in {None} \cup SUBSET Commits /\ UNCHANGED <<tree, manifest, imported>>
     \/ imported' \in Contents \cup {None} /\ UNCHANGED <<tree, manifest, checkout>>
  /\ exit' = "none" /\ problems' = {} /\ unclean' = {} /\ UNCHANGED at

Next == Run \/ Edit

Spec == Init /\ [][Next]_vars

-------------------------------------------------------------------------------
Finding == [in : Nat, what : {"source", "missing", "modified", "function", "scaffolding"}]

TypeOK ==
  /\ tree \in [Paths -> Contents \cup {None}] /\ manifest \in Manifests
  /\ checkout \in {None} \cup SUBSET Commits /\ imported \in Contents \cup {None}
  /\ edits \in 0..MaxEdits /\ at \in 0..(Len(manifest) + 1)
  /\ problems \subseteq Finding /\ unclean \subseteq 1..Len(manifest)
  /\ exit \in {"none", "ok", "failed", "refused", "crashed"}
  /\ exit = "none" \/ at = 0

\* "A byte-for-byte mirror that may NEVER evolve": after a run that ended with 0, each
\* file and each named function a mirror extraction records is here, as it is in the
\* commit it was imported from, whatever tree and manifest were edited to; of a whole
\* file of a runtime mirror, that there is one.
Mirrored(x) ==
  \A e \in Verified(x) :
    LET theirs == Hashed(e, Blob[CommitOf(x, e)][e.source])
    IN  /\ theirs # None /\ Hashed(e, tree[e.dest]) # None
        /\ x.class = "CANONICAL_MIRROR" \/ ~IsWhole(e) => Hashed(e, tree[e.dest]) = theirs
OkMeansMirrored == exit = "ok" => \A x \in MirrorsIn(manifest) : Mirrored(x)

\* "An immutable-mirror-owned path may never be verified under the more lenient
\* historical-seed rules": a run that ended with 0, of a manifest whose canonical mirror
\* has the inventory, was given no seed naming a path of the inventory that was imported,
\* also if the inventory here was removed or rewritten so as to list less.
NoCanonicalPathIsASeed ==
  exit = "ok" =>
    \A x \in MirrorsIn(manifest) : \A e \in Whole(x) :
      x.class = "CANONICAL_MIRROR" /\ e.dest = Inventory =>
        \A i \in DOMAIN manifest : manifest[i].class = "HISTORICAL_SEED" =>
          \A f \in Whole(manifest[i]) : f.source \notin Surface[Blob[CommitOf(x, e)][e.source]]

\* "PROVENANCE OK: every extraction's verdict is clean": what main prints when it
\* ends with 0.
OkMeansEveryVerdictClean == exit = "ok" => unclean = {}

\* The exit code is right otherwise: what is not clean after a run that ended with 0 is
\* a canonical mirror whose vectors did not pass, or a runtime mirror with a whole file
\* that is modified here; and a run that ended with 1 has met a difference.  A seed that
\* evolved after its import is none.
ExitCodeIsRight ==
  /\ exit = "ok" =>
       \A i \in unclean :
         \/ manifest[i].class = "CANONICAL_MIRROR" /\ VectorResult # "pass"
         \/ /\ manifest[i].class = "RUNTIME_CODE_MIRROR"
            /\ \E e \in Whole(manifest[i]) : tree[e.dest] \notin {None, e.hash}
  /\ exit = "failed" =>
       \/ \E x \in MirrorsIn(manifest) : \E e \in Verified(x) :
            SourceDiffers(x, e) \/ Hashed(e, tree[e.dest]) # e.hash
       \/ \E i \in DOMAIN manifest :
            \/ \E p \in manifest[i].scaffolding : tree[p] = None
            \/ /\ manifest[i].class = "HISTORICAL_SEED"
               /\ \E e \in Whole(manifest[i]) : Blob[manifest[i].commit][e.dest] # e.hash
       \/ Unrecorded(manifest) # {}

===============================================================================
