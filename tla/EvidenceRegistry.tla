--------------------------- MODULE EvidenceRegistry ---------------------------
(***************************************************************************)
(* canonical/concept_bundle/evidence.py: how a reference is resolved       *)
(* against a registry tree that others write, edit and remove meanwhile.   *)
(*                                                                         *)
(* A record's content is everything but its self_hash.  SHA-256 is taken   *)
(* as collision-free, so a full digest is represented by the content it is *)
(* the digest of; a 12-character prefix of it may be shared, and is the    *)
(* name of the file.  Reason texts and payload claims are left out.        *)
(***************************************************************************)
EXTENDS Naturals, FiniteSets

CONSTANTS
  Types,        \* artifact types: the directories under the root
  Escaping,     \* types whose directory is a link that leaves the root
  Contents,
  Prefixes,
  Prefix,       \* Prefix[c]: the first 12 characters of c's digest
  TypeField,    \* TypeField[c]: the artifact_type c declares
  Canonical,    \* contents that have a canonical form, hence a digest
  Valid,        \* contents record_validity_problems finds nothing wrong with
  References,   \* the references somebody resolves
  Trees,        \* the trees the registry may hold at first
  MaxEdits      \* bound: edits of the tree

Forms == {"published", "bare", "short"}   \* sha256: and 64 digits, 64 digits, 12 to 63

\* A reference names a type and a digest, in one of the forms.
Reference == [type : Types, digest : Contents, form : Forms]

\* What a path holds: a record with the digest it declares in self_hash, bytes that
\* are no record (unreadable, empty, not JSON, not an object), or nothing.
Record  == [content : Contents, self : Contents \cup {"none"}]
Garbage == [content |-> "garbage", self |-> "none"]
Absent  == [content |-> "absent", self |-> "none"]
File    == Record \cup {Garbage, Absent}
Tree   == [Types \X Prefixes -> File]

ASSUME RegistryConstants ==
  /\ Escaping \subseteq Types /\ Canonical \subseteq Contents /\ Valid \subseteq Contents
  /\ Prefix \in [Contents -> Prefixes] /\ TypeField \in [Contents -> Types]
  /\ References \subseteq Reference /\ Trees \subseteq Tree
  /\ MaxEdits \in Nat
  /\ \A word \in {"none", "garbage", "absent"} : word \notin Contents

VARIABLES files, edits

-------------------------------------------------------------------------------
\* path_for: the file a reference is looked up in.
PathFor(ref) == <<ref.type, Prefix[ref.digest]>>

IsRecord(file) == file \notin {Garbage, Absent}

\* recomputed_bare.startswith(reference_bare)
Names(ref, content) ==
  IF ref.form = "short" THEN Prefix[content] = Prefix[ref.digest] ELSE content = ref.digest

\* Mutant of CompareDigests: the digest a record declares is taken for its own.
CompareDeclared(ref, record) ==
  IF record.self = "none" THEN "malformed"
  ELSE IF ~Names(ref, record.self) THEN "digest_mismatch"
  ELSE IF record.content \notin Valid THEN "invalid_record"
  ELSE "resolved"

\* _compare_digests
CompareDigests(ref, record) ==
  IF record.self = "none" \/ record.content \notin Canonical THEN "malformed"
  ELSE IF ~Names(ref, record.content) THEN "digest_mismatch"
  ELSE IF record.self # record.content THEN "tampered"
  ELSE IF record.content \notin Valid THEN "invalid_record"
  ELSE "resolved"

\* Mutant of InMemoryStatus: finding the record is enough.
InMemoryFound(tree, ref) == IF IsRecord(tree[PathFor(ref)]) THEN "resolved" ELSE "unresolvable"

\* InMemoryEvidenceRegistry.resolve: it digests the record before it compares anything,
\* and nothing catches the ContentDigestError of one without a canonical form.
InMemoryStatus(tree, ref) ==
  LET file == tree[PathFor(ref)]
  IN  IF ~IsRecord(file) THEN "unresolvable"
      ELSE IF TypeField[file.content] # ref.type THEN "mismatched"
      ELSE IF file.content \notin Canonical THEN "raises"
      ELSE CompareDigests(ref, file)

\* _other_types_claiming: the same content under the same name in another directory.
OtherTypesClaiming(tree, ref, content) ==
  {t \in Types \ {ref.type} :
     LET file == tree[<<t, Prefix[ref.digest]>>]
     IN  IsRecord(file) /\ file.content = content}

\* RepositoryEvidenceRegistry.resolve
Status(tree, ref) ==
  LET file == tree[PathFor(ref)]
      compared == CompareDigests(ref, file)
  IN  IF ref.type \in Escaping THEN "out_of_root"
      ELSE IF file = Absent THEN "unresolvable"
      ELSE IF file = Garbage THEN "malformed"
      ELSE IF TypeField[file.content] # ref.type THEN "mismatched"
      ELSE IF compared # "resolved" THEN compared
      ELSE IF OtherTypesClaiming(tree, ref, file.content) # {} THEN "ambiguous"
      ELSE "resolved"

Resolved(tree, ref) == Status(tree, ref) = "resolved"

-------------------------------------------------------------------------------
(* The tree belongs to others: interplab's writer, and whoever can edit a file. *)

InitRegistry == files \in Trees /\ edits = 0

\* The writer files a record where its content and type put it, with its own digest.
WriteRecord(c) ==
  files' = [files EXCEPT ![<<TypeField[c], Prefix[c]>>] = [content |-> c, self |-> c]]

\* A record is edited in place: it keeps its path, whatever it now says of itself.
EditRecord(path, record) ==
  IsRecord(files[path]) /\ files' = [files EXCEPT ![path] = record]

\* A file is truncated, removed, or copied into the directory of another type.
DamageFile(path) ==
  files[path] # Absent /\ \E f \in {Garbage, Absent} : files' = [files EXCEPT ![path] = f]
CopyFile(path, t) ==
  files[path] # Absent /\ files' = [files EXCEPT ![<<t, path[2]>>] = files[path]]

EditRegistry ==
  /\ edits < MaxEdits /\ edits' = edits + 1
  /\ \/ \E c \in Contents : WriteRecord(c)
     \/ \E path \in Types \X Prefixes :
          \/ \E r \in Record : EditRecord(path, r)
          \/ DamageFile(path)
          \/ \E t \in Types : CopyFile(path, t)

RegistrySpec == InitRegistry /\ [][EditRegistry]_<<files, edits>>

-------------------------------------------------------------------------------
RegistryTypeOK == files \in Tree /\ edits \in 0..MaxEdits

\* No edit of a cited record goes unnoticed: whatever is changed in the file behind a
\* full reference that resolves, its self_hash included, the reference no longer
\* resolves.  (A short reference can resolve again, to another record.)
NoEditGoesUnnoticed ==
  [][\A ref \in References :
       LET path == PathFor(ref)
       IN  ref.form # "short" /\ Resolved(files, ref) /\ files'[path] # files[path]
             => ~Resolved(files', ref)]_files

\* "A test-only registry that were laxer than the repository one would let a
\* conformance vector pass for the wrong reason": over the same records the in-memory
\* registry answers what the repository registry answers, but for two cases.  It does not
\* look under other types, and resolves what is ambiguous there; and of a record without
\* a canonical form it raises where the other calls it malformed.
InMemoryAnswersAlike ==
  \A ref \in References :
    LET file   == files[PathFor(ref)]
        status == Status(files, ref)
    IN  ref.type \notin Escaping /\ IsRecord(file) =>
          InMemoryStatus(files, ref) =
            CASE status = "ambiguous" -> "resolved"
              [] status = "malformed" /\ file.content \notin Canonical -> "raises"
              [] OTHER -> status

===============================================================================
