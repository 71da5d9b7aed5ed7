------------------------- MODULE EvidenceRegistryProofs -------------------------
(***************************************************************************)
(* EvidenceRegistry, for any types, contents, digests, references, trees   *)
(* and sequence of edits.                                                  *)
(***************************************************************************)
EXTENDS EvidenceRegistry, TLAPS

\* Where a reference looks is a path of the tree, and holds a file.
LEMMA PathOfReference ==
  ASSUME RegistryTypeOK, NEW ref \in References
  PROVE  ref \in Reference /\ PathFor(ref) \in Types \X Prefixes /\ files[PathFor(ref)] \in File
<1>1. ref \in Reference /\ Prefix[ref.digest] \in Prefixes
  BY RegistryConstants DEF Reference
<1>. QED  BY <1>1 DEF Reference, PathFor, RegistryTypeOK, Tree

\* A record has both its fields.
LEMMA FilesAreRecords ==
  ASSUME NEW file \in File, IsRecord(file)
  PROVE  file \in Record
  BY DEF File, IsRecord

\* What the registry has established of a reference that resolves.
LEMMA ResolvedMeans ==
  ASSUME NEW tree, NEW ref, Resolved(tree, ref)
  PROVE  /\ IsRecord(tree[PathFor(ref)])
         /\ TypeField[tree[PathFor(ref)].content] = ref.type
         /\ CompareDigests(ref, tree[PathFor(ref)]) = "resolved"
         /\ OtherTypesClaiming(tree, ref, tree[PathFor(ref)].content) = {}
  BY DEF Resolved, Status, IsRecord

\* Which records the digests let through.
LEMMA ComparedMeans ==
  ASSUME NEW ref, NEW record, CompareDigests(ref, record) = "resolved"
  PROVE  /\ Names(ref, record.content)
         /\ record.self = record.content
         /\ record.content \in Valid \cap Canonical
  BY DEF CompareDigests

LEMMA TypingIsKept ==
  ASSUME RegistryTypeOK, EditRegistry
  PROVE  RegistryTypeOK'
<1>1. Garbage \in File /\ Absent \in File /\ Record \subseteq File
  BY DEF File
<1>2. edits' \in 0..MaxEdits
  BY RegistryConstants DEF EditRegistry, RegistryTypeOK
<1>3. ASSUME NEW c \in Contents, WriteRecord(c)
      PROVE  files' \in Tree
  <2>1. [content |-> c, self |-> c] \in Record
    BY DEF Record
  <2>2. TypeField[c] \in Types /\ Prefix[c] \in Prefixes
    BY RegistryConstants
  <2>. QED  BY <1>1, <1>3, <2>1, <2>2 DEF WriteRecord, RegistryTypeOK, Tree
<1>4. ASSUME NEW path \in Types \X Prefixes, NEW r \in Record, EditRecord(path, r)
      PROVE  files' \in Tree
  BY <1>1, <1>4 DEF EditRecord, RegistryTypeOK, Tree
<1>5. ASSUME NEW path \in Types \X Prefixes, DamageFile(path)
      PROVE  files' \in Tree
  BY <1>1, <1>5 DEF DamageFile, RegistryTypeOK, Tree
<1>6. ASSUME NEW path \in Types \X Prefixes, NEW t \in Types, CopyFile(path, t)
      PROVE  files' \in Tree
  BY <1>6 DEF CopyFile, RegistryTypeOK, Tree
<1>. QED  BY <1>2, <1>3, <1>4, <1>5, <1>6 DEF EditRegistry, RegistryTypeOK

\* The tree stays a tree of records, damaged files and holes.
THEOREM RegistryTypeCorrect == RegistrySpec => []RegistryTypeOK
<1>1. InitRegistry => RegistryTypeOK
  BY RegistryConstants DEF InitRegistry, RegistryTypeOK
<1>2. RegistryTypeOK /\ [EditRegistry]_<<files, edits>> => RegistryTypeOK'
  BY TypingIsKept DEF RegistryTypeOK
<1>. QED  BY <1>1, <1>2, PTL DEF RegistrySpec

\* "tampered" and "digest_mismatch": a full reference that resolves pins the whole file,
\* so whoever changes it, its self_hash included, makes the reference unresolvable.
THEOREM EditsAreNoticed == RegistrySpec => NoEditGoesUnnoticed
<1>1. ASSUME RegistryTypeOK, RegistryTypeOK', NEW ref \in References,
             ref.form # "short", Resolved(files, ref), Resolved(files', ref)
      PROVE  files'[PathFor(ref)] = files[PathFor(ref)]
  <2>. DEFINE old == files[PathFor(ref)]
              new == files'[PathFor(ref)]
  <2>1. old \in File /\ new \in File
    <3>1. PathFor(ref) \in Types \X Prefixes
      BY <1>1, PathOfReference
    <3>. QED  BY <1>1, <3>1 DEF RegistryTypeOK, Tree
  <2>2. old \in Record /\ CompareDigests(ref, old) = "resolved"
    BY <1>1, <2>1, ResolvedMeans, FilesAreRecords
  <2>3. new \in Record /\ CompareDigests(ref, new) = "resolved"
    BY <1>1, <2>1, ResolvedMeans, FilesAreRecords
  <2>4. old.content = ref.digest /\ old.self = ref.digest
    BY <1>1, <2>2, ComparedMeans DEF Names
  <2>5. new.content = ref.digest /\ new.self = ref.digest
    BY <1>1, <2>3, ComparedMeans DEF Names
  <2>. HIDE DEF old, new
  <2>6. old = new
    BY <2>2, <2>3, <2>4, <2>5 DEF Record
  <2>. QED  BY <2>6 DEF old, new
<1>. DEFINE Noticed ==
       \A ref \in References :
         LET path == PathFor(ref)
         IN  ref.form # "short" /\ Resolved(files, ref) /\ files'[path] # files[path]
               => ~Resolved(files', ref)
<1>2. RegistryTypeOK /\ RegistryTypeOK' => [Noticed]_files
  BY <1>1
<1>. QED  BY <1>2, RegistryTypeCorrect, PTL DEF NoEditGoesUnnoticed

\* Over the same records the in-memory registry of the tests answers what the repository
\* registry answers, but that it resolves what is ambiguous, and raises over a record
\* without a canonical form.
THEOREM InMemoryAgrees == RegistrySpec => []InMemoryAnswersAlike
<1>1. ASSUME NEW ref \in References, ref.type \notin Escaping, IsRecord(files[PathFor(ref)])
      PROVE  InMemoryStatus(files, ref) =
               CASE Status(files, ref) = "ambiguous" -> "resolved"
                 [] Status(files, ref) = "malformed" /\ files[PathFor(ref)].content \notin Canonical
                      -> "raises"
                 [] OTHER -> Status(files, ref)
  <2>. DEFINE file == files[PathFor(ref)]
              compared == CompareDigests(ref, file)
  <2>1. /\ compared \in {"malformed", "digest_mismatch", "tampered", "invalid_record", "resolved"}
        /\ file.content \notin Canonical => compared = "malformed"
    BY DEF CompareDigests
  <2>. HIDE DEF compared
  <2>2. CASE TypeField[file.content] # ref.type
    BY <1>1, <2>2 DEF InMemoryStatus, Status, IsRecord
  <2>3. CASE TypeField[file.content] = ref.type
    <3>1. InMemoryStatus(files, ref) = IF file.content \notin Canonical THEN "raises" ELSE compared
      BY <1>1, <2>3 DEF InMemoryStatus, compared
    <3>2. Status(files, ref) =
            IF compared # "resolved" THEN compared
            ELSE IF OtherTypesClaiming(files, ref, file.content) # {} THEN "ambiguous" ELSE "resolved"
      BY <1>1, <2>3 DEF Status, IsRecord, compared
    <3>. QED  BY <2>1, <3>1, <3>2
  <2>. QED  BY <2>2, <2>3
<1>2. InMemoryAnswersAlike
  BY <1>1 DEF InMemoryAnswersAlike
<1>. QED  BY <1>2, PTL

===============================================================================
