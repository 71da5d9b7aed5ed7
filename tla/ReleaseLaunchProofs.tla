-------------------------- MODULE ReleaseLaunchProofs --------------------------
(***************************************************************************)
(* ReleaseLaunch, for any tabs, entries, evidence, command lines, slots    *)
(* and edits: what a release page shows was verified in the launch that    *)
(* shows it, at a layer its backend was accepted at.  And PiDemoPreflight: *)
(* what the preflight reports comes true if nothing is edited.             *)
(***************************************************************************)
EXTENDS PiDemoPreflight, EvidenceRegistryProofs

LEMMA TabsAreKeys ==
  /\ Len(Tabs) \in Nat /\ Len(Tabs) > 0 /\ DOMAIN Tabs = 1..Len(Tabs)
  /\ \A i \in DOMAIN Tabs : Tabs[i] \in Keys
  /\ \A k \in Keys : \E i \in DOMAIN Tabs : k = Tabs[i]
  BY LaunchConstants DEF Keys

LEMMA TabsAreDistinct ==
  ASSUME NEW i \in 1..Len(Tabs), NEW j \in 1..Len(Tabs), Tabs[i] = Tabs[j]
  PROVE  i = j
  BY TabsAreKeys, LaunchConstants

LEMMA TabIsLastOrNot ==
  ASSUME TypeOK
  PROVE  tab < Len(Tabs) \/ tab = Len(Tabs)
<1>1. Len(Tabs) \in Nat /\ tab \in 1..Len(Tabs)
  BY TabsAreKeys DEF TypeOK
<1>. QED  BY <1>1

\* What is loaded and selected are entries, and their references are known ones.
LEMMA LoadedAreEntries ==
  ASSUME TypeOK, NEW k \in Keys
  PROVE  LoadEntries(k) \subseteq Entries
  BY LaunchConstants DEF TypeOK, LoadEntries

LEMMA EvidenceIsReferences ==
  ASSUME NEW e \in Entries
  PROVE  Info[e].evidence \subseteq References
  BY LaunchConstants DEF EntryInfo

\* evaluate_publishability: each reference of a publishable entry is a full digest, and
\* the file it names holds that very content.
LEMMA PublishableMeans ==
  ASSUME TypeOK, NEW e \in Entries, Publishable(files, e), NEW ref \in Info[e].evidence
  PROVE  /\ Info[e].provenance = "attested"
         /\ ref \in References /\ PathFor(ref) \in Types \X Prefixes
         /\ files[PathFor(ref)] # Absent
         /\ files[PathFor(ref)].content = ref.digest /\ ref.digest \in Contents
<1>1. ref \in References /\ Resolved(files, ref) /\ ref.form = "published"
  BY EvidenceIsReferences DEF Publishable
<1>2. ref \in Reference /\ PathFor(ref) \in Types \X Prefixes
  BY <1>1, PathOfReference DEF TypeOK
<1>3. IsRecord(files[PathFor(ref)]) /\ CompareDigests(ref, files[PathFor(ref)]) = "resolved"
  BY <1>1, ResolvedMeans
<1>4. Names(ref, files[PathFor(ref)].content)
  BY <1>3, ComparedMeans
<1>. QED  BY <1>1, <1>2, <1>3, <1>4 DEF Publishable, Names, IsRecord, Reference

-------------------------------------------------------------------------------
(* Types. *)

LEMMA InitTyped == Init => TypeOK
  BY LaunchConstants, RegistryConstants, TabsAreKeys
     DEF Init, InitRegistry, TypeOK, RegistryTypeOK, Stages

LEMMA NextTabTyped ==
  ASSUME tab \in DOMAIN Tabs, NEW s \in Stages, NEW after \in Stages, NextTab(s, after)
  PROVE  stage' \in Stages /\ tab' \in DOMAIN Tabs
  BY TabsAreKeys DEF NextTab

LEMMA LaunchTyped ==
  ASSUME TypeOK, Launch
  PROVE  TypeOK'
<1>0. Tabs[tab] \in Keys
  BY TabsAreKeys DEF TypeOK
<1>1. CASE Load
  <2>1. entries' \in [Keys -> SUBSET Entries]
    BY <1>0, <1>1, LoadedAreEntries DEF Load, TypeOK
  <2>2. stage' \in Stages /\ tab' \in DOMAIN Tabs
    BY <1>1, NextTabTyped DEF Load, TypeOK, Stages
  <2>. QED  BY <1>1, <2>1, <2>2 DEF Load, TypeOK, RegistryTypeOK, disk
<1>2. CASE BuildBackends
  BY <1>2 DEF BuildBackends, TypeOK, RegistryTypeOK, disk, Stages
<1>3. CASE GateEntries
  <2>1. gated' \in [Keys -> SUBSET Entries]
    BY <1>0, <1>3, LoadedAreEntries DEF GateEntries, TypeOK
  <2>. QED  BY <1>3, <2>1 DEF GateEntries, TypeOK, RegistryTypeOK, disk, Stages
<1>4. CASE GateEvidence
  <2>1. stage' \in Stages /\ tab' \in DOMAIN Tabs
    BY <1>4, NextTabTyped DEF GateEvidence, TypeOK, Stages
  <2>. QED  BY <1>4, <2>1 DEF GateEvidence, TypeOK, RegistryTypeOK, disk
<1>5. CASE Filter
  <2>. DEFINE k == Tabs[tab]
              es == Selected(files, entries[k])
              read == UNION {{<<ref, files[PathFor(ref)].content>> : ref \in Info[e].evidence} : e \in es}
  <2>1. es \subseteq Entries /\ \A e \in es : Publishable(files, e)
    BY <1>0 DEF Selected, TypeOK
  <2>2. read \subseteq References \X Contents
    BY <2>1, PublishableMeans
  <2>3. /\ entries' = [entries EXCEPT ![k] = es]
        /\ verified' = [verified EXCEPT ![k] = read]
        /\ NextTab("filter", "build") /\ UNCHANGED <<disk, args, gated>>
    BY <1>5 DEF Filter
  <2>4. stage' \in Stages /\ tab' \in DOMAIN Tabs
    BY <2>3, NextTabTyped DEF TypeOK, Stages
  <2>. HIDE DEF k, es, read
  <2>5. entries' \in [Keys -> SUBSET Entries] /\ verified' \in [Keys -> SUBSET (References \X Contents)]
    BY <2>1, <2>2, <2>3 DEF TypeOK
  <2>. QED  BY <2>3, <2>4, <2>5 DEF TypeOK, RegistryTypeOK, disk
<1>6. CASE Build
  BY <1>6 DEF Build, TypeOK, RegistryTypeOK, disk, Stages
<1>. QED  BY <1>1, <1>2, <1>3, <1>4, <1>5, <1>6 DEF Launch

LEMMA EditTyped ==
  ASSUME TypeOK, EditDisk
  PROVE  TypeOK'
<1>1. CASE EditSlot
  <2>1. slotEdits' \in 0..SlotEdits
    BY <1>1, LaunchConstants DEF EditSlot, TypeOK
  <2>2. slot' \in [Keys -> SUBSET Entries]
    <3>1. PICK k \in Keys : \E e \in Stageable[k] :
            slot' = [slot EXCEPT ![k] = IF e \in @ THEN @ \ {e} ELSE @ \cup {e}]
      BY <1>1 DEF EditSlot
    <3>2. Stageable[k] \subseteq Entries
      BY LaunchConstants
    <3>. QED  BY <3>1, <3>2 DEF TypeOK
  <2>3. withdrawn' \in [Keys -> SUBSET Entries]
    <3>1. PICK k \in Keys : \E e \in Stageable[k] :
            withdrawn' = [withdrawn EXCEPT ![k] = @ \cup ({e} \cap slot[k] \cap entries[k])]
      BY <1>1 DEF EditSlot
    <3>2. slot[k] \subseteq Entries
      BY DEF TypeOK
    <3>. QED  BY <3>1, <3>2 DEF TypeOK
  <2>. QED  BY <1>1, <2>1, <2>2, <2>3 DEF EditSlot, TypeOK, RegistryTypeOK, launch
<1>2. CASE EditRegistry /\ UNCHANGED <<slot, slotEdits, withdrawn, launch>>
  BY <1>2, TypingIsKept DEF TypeOK, launch
<1>. QED  BY <1>1, <1>2 DEF EditDisk

\* main and the gate only ever hold entries, and the filter only reads cited records.
THEOREM LaunchTypeCorrect == Spec => []TypeOK
<1>1. TypeOK /\ [Next]_allVars => TypeOK'
  <2>1. TypeOK /\ UNCHANGED allVars => TypeOK'
    BY DEF TypeOK, RegistryTypeOK, allVars, disk, launch
  <2>. QED  BY <2>1, LaunchTyped, EditTyped DEF Next
<1>. QED  BY <1>1, InitTyped, PTL DEF Spec

-------------------------------------------------------------------------------
(* What a release page shows. *)

\* Behind tab k are entries that the filter of this launch has seen verified.
Verified(k) ==
  \A e \in entries[k] :
    /\ Info[e].provenance = "attested"
    /\ \A ref \in Info[e].evidence :
         /\ <<ref, ref.digest>> \in verified[k]
         /\ \A c \in Contents : <<ref, c>> \in verified[k] => c = ref.digest

\* Where a release launch is: its filter has done the tabs before tab, and then all.
FilteredInv ==
  args.mode = "release" =>
    /\ stage = "filter" => \A i \in 1..(tab - 1) : Verified(Tabs[i])
    /\ stage \in {"build", "serving"} => \A k \in Keys : Verified(k)

LEMMA FilterVerifies ==
  ASSUME TypeOK, Filter, NEW j, j = Tabs[tab]
  PROVE  Verified(j)'
<1>. DEFINE k == Tabs[tab]
            es == Selected(files, entries[k])
            read == UNION {{<<ref, files[PathFor(ref)].content>> : ref \in Info[e].evidence} : e \in es}
<1>1. k \in Keys
  BY TabsAreKeys DEF TypeOK
<1>2. es \subseteq Entries /\ \A e \in es : Publishable(files, e)
  BY <1>1 DEF Selected, TypeOK
<1>3. entries'[k] = es /\ verified'[k] = read /\ tab' \in Nat
  BY <1>1, TabsAreKeys DEF Filter, TypeOK, NextTab
<1>4. ASSUME NEW e \in es, NEW ref \in Info[e].evidence
      PROVE  /\ <<ref, ref.digest>> \in read
             /\ \A c \in Contents : <<ref, c>> \in read => c = ref.digest
  <2>1. files[PathFor(ref)].content = ref.digest
    BY <1>2, <1>4, PublishableMeans
  <2>. QED  BY <1>4, <2>1
<1>5. ASSUME NEW e \in es
      PROVE  Info[e].provenance = "attested"
  BY <1>2 DEF Publishable
<1>. HIDE DEF es, read, k
<1>6. j = k
  BY DEF k
<1>. QED  BY <1>3, <1>4, <1>5, <1>6 DEF Verified

LEMMA FilteredStep ==
  ASSUME TypeOK, FilteredInv, Next
  PROVE  FilteredInv'
<1>1. CASE Load \/ BuildBackends \/ GateEntries
  BY <1>1 DEF Load, BuildBackends, GateEntries, NextTab, FilteredInv
<1>2. CASE GateEvidence
  BY <1>2 DEF GateEvidence, NextTab, FilteredInv
<1>3. CASE Filter
  <2>1. ASSUME FilteredInv, args.mode = "release", NEW i \in 1..tab
        PROVE  Verified(Tabs[i])'
    <3>1. CASE Tabs[i] = Tabs[tab]
      BY <1>3, <3>1, FilterVerifies
    <3>2. CASE Tabs[i] # Tabs[tab]
      <4>1. i \in 1..(tab - 1) /\ Tabs[i] \in Keys
        BY <3>2, TabsAreKeys DEF TypeOK
      <4>2. Verified(Tabs[i])
        BY <1>3, <2>1, <4>1 DEF FilteredInv, Filter
      <4>3. entries'[Tabs[i]] = entries[Tabs[i]] /\ verified'[Tabs[i]] = verified[Tabs[i]]
        BY <1>3, <3>2, <4>1 DEF Filter, TypeOK
      <4>. QED  BY <4>2, <4>3 DEF Verified
    <3>. QED  BY <3>1, <3>2
  <2>2. \/ stage' = "filter" /\ tab' = tab + 1
        \/ stage' = "build" /\ tab = Len(Tabs)
    BY <1>3, TabsAreKeys DEF Filter, NextTab, TypeOK
  <2>3. ASSUME args'.mode = "release", stage' = "build"
        PROVE  \A k \in Keys : Verified(k)'
    BY <1>3, <2>1, <2>2, <2>3, TabsAreKeys DEF Filter
  <2>4. ASSUME args'.mode = "release", stage' = "filter"
        PROVE  \A i \in 1..(tab' - 1) : Verified(Tabs[i])'
    <3>1. tab' = tab + 1 /\ tab \in Nat /\ args' = args
      BY <1>3, <2>2, <2>4, TabsAreKeys DEF Filter, TypeOK
    <3>. QED  BY <2>1, <2>4, <3>1
  <2>. QED  BY <2>2, <2>3, <2>4 DEF FilteredInv
<1>4. CASE Build
  BY <1>4 DEF Build, FilteredInv, Verified
<1>5. CASE EditDisk
  BY <1>5 DEF EditDisk, EditSlot, launch, FilteredInv, Verified
<1>. QED  BY <1>1, <1>2, <1>3, <1>4, <1>5 DEF Next, Launch

\* release.py, "Release mode must never render an entry that has not itself individually
\* passed": however slots and registry are edited between the readings of a launch, each
\* reference of what its release page shows named the content it cites when it was read.
THEOREM ReleasesAreVerified == Spec => []ReleaseShowsVerified
<1>1. Init => FilteredInv
  BY DEF Init, FilteredInv
<1>2. FilteredInv /\ UNCHANGED allVars => FilteredInv'
  BY DEF FilteredInv, Verified, allVars, disk, launch
<1>3. TypeOK /\ FilteredInv /\ [Next]_allVars => FilteredInv'
  BY <1>2, FilteredStep
<1>4. FilteredInv => ReleaseShowsVerified
  BY DEF FilteredInv, Verified, ReleaseShowsVerified, ReleasePage
<1>. QED  BY <1>1, <1>3, <1>4, LaunchTypeCorrect, PTL DEF Spec

-------------------------------------------------------------------------------
(* At which layers. *)

\* The gate has seen every entry main holds for tab k, but what was withdrawn before it
\* looked, and accepted the layers of all it has seen.
Gated(k) == entries[k] \subseteq gated[k] \cup withdrawn[k] /\ LayersAccepted(k, gated[k])

\* Where a release launch is: main holds no more than the slots do and did, and the gate
\* has done the tabs before tab, then tab itself, then all.
ScopedInv ==
  /\ stage = "backends" => tab = 1
  /\ \A k \in Keys : entries[k] \subseteq LoadEntries(k) \cup withdrawn[k]
  /\ args.mode = "release" =>
       /\ stage = "gateEntries" => \A i \in 1..(tab - 1) : Gated(Tabs[i])
       /\ stage = "gateEvidence" => \A i \in 1..tab : Gated(Tabs[i])
       /\ stage \in {"filter", "build", "serving"} => \A k \in Keys : Gated(k)

LEMMA ScopedStep ==
  ASSUME TypeOK, ScopedInv, Next
  PROVE  ScopedInv'
<1>0. Tabs[tab] \in Keys /\ tab \in 1..Len(Tabs)
  BY TabsAreKeys DEF TypeOK
<1>1. CASE Load
  BY <1>0, <1>1, TabsAreKeys DEF Load, NextTab, ScopedInv, TypeOK, LoadEntries, disk
<1>2. CASE BuildBackends
  BY <1>2 DEF BuildBackends, ScopedInv, LoadEntries, disk
<1>3. CASE GateEntries
  <2>. DEFINE k == Tabs[tab]
  <2>1. /\ UNCHANGED <<disk, args, tab, entries, verified>> /\ stage = "gateEntries"
        /\ gated' = [gated EXCEPT ![k] = LoadEntries(k)]
        /\ \/ stage' = "gateEvidence" /\ LayersAccepted(k, LoadEntries(k))
           \/ stage' = "refused"
    BY <1>3 DEF GateEntries, Admitted
  <2>2. \A j : LoadEntries(j)' = LoadEntries(j)
    BY <2>1 DEF LoadEntries, disk
  <2>3. ASSUME stage' = "gateEvidence", NEW i \in 1..tab, i < tab => Gated(Tabs[i])
        PROVE  Gated(Tabs[i])'
    <3>1. Tabs[i] \in Keys
      BY <1>0, TabsAreKeys
    <3>2. CASE i = tab
      <4>1. gated'[k] = LoadEntries(k) /\ LayersAccepted(k, gated'[k])
        BY <1>0, <2>1, <2>3 DEF TypeOK
      <4>2. entries'[k] \subseteq gated'[k] \cup withdrawn'[k]
        BY <1>0, <2>1, <4>1 DEF ScopedInv, disk
      <4>. QED  BY <3>2, <4>1, <4>2 DEF Gated, LayersAccepted, k
    <3>3. CASE i < tab
      <4>1. Tabs[i] # k
        BY <1>0, <3>3, TabsAreDistinct, TabsAreKeys
      <4>2. gated'[Tabs[i]] = gated[Tabs[i]]
        BY <2>1, <3>1, <4>1 DEF TypeOK
      <4>3. Gated(Tabs[i]) /\ entries' = entries /\ withdrawn' = withdrawn
        BY <2>1, <2>3, <3>3 DEF disk
      <4>. QED  BY <4>2, <4>3 DEF Gated, LayersAccepted
    <3>. QED  BY <1>0, <3>2, <3>3
  <2>. HIDE DEF k
  <2>. QED  BY <1>0, <2>1, <2>2, <2>3 DEF ScopedInv, disk
<1>4. CASE GateEvidence
  <2>1. UNCHANGED <<disk, args, entries, gated>> /\ stage = "gateEvidence"
    BY <1>4 DEF GateEvidence
  <2>2. \/ stage' = "gateEntries" /\ tab' = tab + 1
        \/ stage' = "filter" /\ tab = Len(Tabs)
        \/ stage' = "refused"
    <3>1. NextTab("gateEntries", "filter") \/ stage' = "refused"
      BY <1>4 DEF GateEvidence
    <3>. QED  BY <3>1, TabIsLastOrNot DEF NextTab
  <2>3. \A j : LoadEntries(j)' = LoadEntries(j) /\ Gated(j)' = Gated(j)
    BY <2>1 DEF LoadEntries, disk, Gated, LayersAccepted
  <2>4. CASE stage' = "gateEntries" /\ tab' = tab + 1
    BY <1>0, <2>1, <2>3, <2>4 DEF ScopedInv, disk
  <2>5. CASE stage' = "filter" /\ tab = Len(Tabs)
    BY <1>0, <2>1, <2>3, <2>5, TabsAreKeys DEF ScopedInv, disk
  <2>6. CASE stage' = "refused"
    BY <2>1, <2>3, <2>6 DEF ScopedInv, disk
  <2>. QED  BY <2>2, <2>4, <2>5, <2>6
<1>5. CASE Filter
  <2>1. UNCHANGED <<disk, args, gated>> /\ stage = "filter" /\ stage' \in {"filter", "build"}
    BY <1>5 DEF Filter, NextTab
  <2>2. \A k \in Keys : entries'[k] \subseteq entries[k]
    BY <1>0, <1>5 DEF Filter, TypeOK, Selected
  <2>3. \A k \in Keys : entries'[k] \subseteq LoadEntries(k)' \cup withdrawn'[k]
    BY <2>1, <2>2 DEF ScopedInv, LoadEntries, disk
  <2>4. \A k \in Keys : Gated(k) => Gated(k)'
    BY <2>1, <2>2 DEF Gated, LayersAccepted, disk
  <2>. QED  BY <2>1, <2>3, <2>4 DEF ScopedInv
<1>6. CASE Build
  BY <1>6 DEF Build, ScopedInv, LoadEntries, Gated, LayersAccepted, disk
<1>7. CASE EditSlot
  <2>0. PICK k \in Keys : \E e \in Stageable[k] :
          /\ slot' = [slot EXCEPT ![k] = IF e \in @ THEN @ \ {e} ELSE @ \cup {e}]
          /\ withdrawn' = [withdrawn EXCEPT ![k] = @ \cup ({e} \cap slot[k] \cap entries[k])]
    BY <1>7 DEF EditSlot
  <2>1. PICK e \in Stageable[k] :
          /\ slot' = [slot EXCEPT ![k] = IF e \in @ THEN @ \ {e} ELSE @ \cup {e}]
          /\ withdrawn' = [withdrawn EXCEPT ![k] = @ \cup ({e} \cap slot[k] \cap entries[k])]
    BY <2>0
  <2>2. UNCHANGED <<args, stage, tab, entries, gated>>
    BY <1>7 DEF EditSlot, launch
  <2>3. ASSUME NEW j \in Keys
        PROVE  /\ withdrawn[j] \subseteq withdrawn'[j]
               /\ entries'[j] \subseteq LoadEntries(j)' \cup withdrawn'[j]
    <3>1. CASE j # k
      BY <2>1, <2>2, <3>1 DEF ScopedInv, LoadEntries, TypeOK
    <3>2. CASE j = k
      <4>1. slot[k] \ {e} \subseteq slot'[k]
        BY <2>1 DEF TypeOK
      <4>2. withdrawn'[k] = withdrawn[k] \cup ({e} \cap slot[k] \cap entries[k])
        BY <2>1 DEF TypeOK
      <4>. QED  BY <2>2, <3>2, <4>1, <4>2 DEF ScopedInv, LoadEntries
    <3>. QED  BY <3>1, <3>2
  <2>4. \A j \in Keys : Gated(j) => Gated(j)'
    BY <2>2, <2>3 DEF Gated, LayersAccepted
  <2>5. tab \in Nat /\ \A i \in 1..tab : Tabs[i] \in Keys
    BY <1>0, TabsAreKeys
  <2>. QED  BY <2>2, <2>3, <2>4, <2>5 DEF ScopedInv
<1>8. CASE EditRegistry /\ UNCHANGED <<slot, slotEdits, withdrawn, launch>>
  BY <1>8 DEF ScopedInv, LoadEntries, Gated, LayersAccepted, launch
<1>. QED  BY <1>1, <1>2, <1>3, <1>4, <1>5, <1>6, <1>7, <1>8 DEF Next, Launch, EditDisk

\* enforce_release_gate's layer scoping: main and the gate read the slots separately.
\* However slots and registry change in between, what the page shows is at layers its
\* backend was accepted at, but for what was taken out of a slot between the readings.
THEOREM ShownLayersAreAccepted == Spec => []ShownLayersAccepted
<1>1. Init => ScopedInv
  BY DEF Init, ScopedInv
<1>2. ScopedInv /\ UNCHANGED allVars => ScopedInv'
  BY DEF ScopedInv, LoadEntries, Gated, LayersAccepted, allVars, disk, launch
<1>3. TypeOK /\ ScopedInv /\ [Next]_allVars => ScopedInv'
  BY <1>2, ScopedStep
<1>4. ScopedInv => ShownLayersAccepted
  <2>. SUFFICES ASSUME ScopedInv, ReleasePage, NEW k \in Keys, NEW e \in entries[k], e \in gated[k]
                PROVE  \A layer \in Info[e].layers : Accepted(k, layer)
    BY DEF ShownLayersAccepted, ScopedInv, Gated, ReleasePage
  <2>1. LayersAccepted(k, gated[k])
    BY DEF ScopedInv, Gated, ReleasePage
  <2>2. Info[e].layers \subseteq TargetLayers(gated[k])
    BY DEF TargetLayers
  <2>. QED  BY <2>1, <2>2 DEF LayersAccepted
<1>. QED  BY <1>1, <1>3, <1>4, LaunchTypeCorrect, PTL DEF Spec

-------------------------------------------------------------------------------
(* What the preflight predicts. *)

\* Every step of a demo is a step of a launch or leaves it alone.
LEMMA DemoIsALaunch == DemoSpec => Spec
<1>1. InitDemo => Init
  BY DEF InitDemo
<1>2. [NextDemo]_demoVars => [Next]_allVars
  BY DEF NextDemo, Preflight, DemoLaunch, EditDemo, demoVars, Next
<1>. QED  BY <1>1, <1>2, PTL DEF DemoSpec, Spec

LEMMA CountedAreEntries ==
  ASSUME TypeOK, NEW k \in Keys
  PROVE  Counted(k) \subseteq Entries /\ Counted(k) # NotCounted
  BY LoadedAreEntries, PreflightConstants DEF Counted, Selected, NotCounted

\* The gate lets a tab through exactly when the preflight counts something in it.
LEMMA GateCountsAlike ==
  ASSUME TypeOK, NEW k \in Keys
  PROVE  RootUsable /\ Selected(files, LoadEntries(k)) # {} <=> Counted(k) # {}
<1>1. ASSUME NEW e \in Selected(files, LoadEntries(k))
      PROVE  \E path \in Types \X Prefixes : files[path] # Absent
  <2>1. e \in Entries /\ Publishable(files, e)
    BY <1>1, LoadedAreEntries DEF Selected
  <2>2. PICK ref \in Info[e].evidence : TRUE
    BY <2>1 DEF Publishable
  <2>. QED  BY <2>1, <2>2, PublishableMeans
<1>. QED  BY <1>1 DEF RootUsable, Counted

\* The preflight has counted a first part of the tabs; what it counted is there as long
\* as nothing is edited.
CountedInv ==
  /\ counted \in [Keys -> (SUBSET Entries) \cup {NotCounted}]
  /\ check # "reported" => stage = "load" /\ tab = 1
  /\ check = "files" => \A k \in Keys : counted[k] = NotCounted
  /\ check = "release_gate_status" =>
       \E n \in DOMAIN Tabs : \A i \in DOMAIN Tabs : counted[Tabs[i]] = NotCounted <=> i >= n
  /\ check \notin {"files", "release_gate_status"} => \A k \in Keys : counted[k] # NotCounted
  /\ quiet => \A k \in Keys : counted[k] \in {NotCounted, Counted(k)}

\* Where a release launch is over an undisturbed disk: every reading of it agrees with
\* the preflight's.
LaunchAgrees ==
  /\ stage = "load" => \A i \in 1..(tab - 1) : entries[Tabs[i]] = LoadEntries(Tabs[i])
  /\ stage \in {"backends", "gateEntries", "gateEvidence"} =>
       \A k \in Keys : entries[k] = LoadEntries(k)
  /\ stage = "backends" => tab = 1
  /\ stage \in {"gateEntries", "gateEvidence"} => \A i \in 1..(tab - 1) : Counted(Tabs[i]) # {}
  /\ stage = "gateEvidence" => gated[Tabs[tab]] = LoadEntries(Tabs[tab])
  /\ stage \in {"filter", "build", "serving", "crashed"} => \A k \in Keys : Counted(k) # {}
  /\ stage = "filter" =>
       \A i \in DOMAIN Tabs :
         entries[Tabs[i]] = IF i < tab THEN Counted(Tabs[i]) ELSE LoadEntries(Tabs[i])
  /\ stage \in {"build", "serving"} => \A k \in Keys : entries[k] = Counted(k)
  /\ stage = "refused" =>
       \E k \in Keys : Counted(k) = {} \/ args.backend[k] # "runtime" \/ ~LayersAccepted(k, LoadEntries(k))
  /\ stage = "serving" => \A k \in Keys : Opens(Counted(k))
  /\ stage = "crashed" => \E k \in Keys : ~Opens(Counted(k))

AgreesInv == check = "reported" /\ quiet /\ args.mode = "release" => LaunchAgrees

LEMMA InitCounted ==
  ASSUME InitDemo
  PROVE  CountedInv /\ AgreesInv
<1>1. /\ stage = "load" /\ tab = 1 /\ check = "files"
      /\ counted = [k \in Keys |-> NotCounted]
  BY DEF InitDemo, Init
<1>2. counted \in [Keys -> (SUBSET Entries) \cup {NotCounted}] /\ \A k \in Keys : counted[k] = NotCounted
  BY <1>1
<1>. QED  BY <1>1, <1>2 DEF CountedInv, AgreesInv

LEMMA PreflightCounts ==
  ASSUME TypeOK, CountedInv, Preflight
  PROVE  CountedInv'
<1>1. /\ UNCHANGED <<allVars, quiet>>
      /\ \A k \in Keys : Counted(k)' = Counted(k)
  BY DEF Preflight, Counted, LoadEntries, allVars, disk, launch
<1>2. stage' = stage /\ tab' = tab /\ quiet' = quiet
  BY <1>1 DEF allVars, launch
<1>3. CASE CheckFiles
  <2>1. check = "files" /\ check' = "release_gate_status" /\ counted' = counted
    BY <1>3 DEF CheckFiles
  <2>2. \A i \in DOMAIN Tabs : counted'[Tabs[i]] = NotCounted <=> i >= 1
    BY <2>1, TabsAreKeys DEF CountedInv
  <2>3. 1 \in DOMAIN Tabs
    BY TabsAreKeys
  <2>. QED  BY <1>1, <1>2, <2>1, <2>2, <2>3 DEF CountedInv
<1>4. CASE CheckReleaseGate
  <2>. DEFINE First(j) == /\ counted[Tabs[j]] = NotCounted
                          /\ \A h \in 1..(j - 1) : counted[Tabs[h]] # NotCounted
              i == CHOOSE j \in DOMAIN Tabs : First(j)
  <2>1. PICK n \in DOMAIN Tabs : \A j \in DOMAIN Tabs : counted[Tabs[j]] = NotCounted <=> j >= n
    BY <1>4 DEF CheckReleaseGate, CountedInv
  <2>2. i = n
    <3>1. First(n)
      BY <2>1, TabsAreKeys
    <3>2. \A j \in DOMAIN Tabs : First(j) => j = n
      BY <2>1, TabsAreKeys
    <3>. QED  BY <3>1, <3>2
  <2>3. /\ counted' = [counted EXCEPT ![Tabs[n]] = Counted(Tabs[n])]
        /\ check' = IF n = Len(Tabs) THEN "release_refuses_locally" ELSE check
        /\ check = "release_gate_status"
    BY <1>4, <2>2 DEF CheckReleaseGate
  <2>. HIDE DEF i, First
  <2>4. Tabs[n] \in Keys /\ Counted(Tabs[n]) \subseteq Entries /\ Counted(Tabs[n]) # NotCounted
    BY TabsAreKeys, CountedAreEntries
  <2>5. counted' \in [Keys -> (SUBSET Entries) \cup {NotCounted}]
    BY <2>3, <2>4 DEF CountedInv
  <2>6. \A j \in DOMAIN Tabs : counted'[Tabs[j]] = NotCounted <=> j > n
    <3>1. ASSUME NEW j \in DOMAIN Tabs, j # n
          PROVE  counted'[Tabs[j]] = counted[Tabs[j]]
      <4>1. Tabs[j] # Tabs[n] /\ Tabs[j] \in Keys
        BY <3>1, TabsAreDistinct, TabsAreKeys
      <4>. QED  BY <2>3, <4>1 DEF CountedInv
    <3>2. counted'[Tabs[n]] # NotCounted
      BY <2>3, <2>4 DEF CountedInv
    <3>. QED  BY <2>1, <3>1, <3>2, TabsAreKeys
  <2>7. quiet' => \A k \in Keys : counted'[k] \in {NotCounted, Counted(k)'}
    BY <1>1, <1>2, <2>3, <2>4 DEF CountedInv
  <2>8. CASE n = Len(Tabs)
    <3>1. \A k \in Keys : counted'[k] # NotCounted
      BY <2>6, <2>8, TabsAreKeys
    <3>. QED  BY <1>2, <2>3, <2>5, <2>7, <2>8, <3>1 DEF CountedInv
  <2>9. CASE n # Len(Tabs)
    <3>1. n + 1 \in DOMAIN Tabs /\ \A j \in DOMAIN Tabs : j > n <=> j >= n + 1
      BY <2>9, TabsAreKeys
    <3>. QED  BY <1>2, <2>3, <2>5, <2>6, <2>7, <2>9, <3>1 DEF CountedInv
  <2>. QED  BY <2>8, <2>9
<1>5. CASE CheckRefusesLocally \/ CheckBoot \/ CheckShutdown
  BY <1>1, <1>2, <1>5 DEF CheckRefusesLocally, CheckBoot, CheckShutdown, CountedInv
<1>. QED  BY <1>3, <1>4, <1>5 DEF Preflight

\* A launch only reads.
LEMMA LaunchOnlyReads ==
  ASSUME Launch
  PROVE  /\ UNCHANGED <<disk, args>>
         /\ \A k : LoadEntries(k)' = LoadEntries(k)
         /\ \A k \in Keys : Counted(k)' = Counted(k)
<1>1. UNCHANGED <<disk, args>>
  BY DEF Launch, Load, BuildBackends, GateEntries, GateEvidence, Filter, Build
<1>. QED  BY <1>1 DEF disk, LoadEntries, Counted

LEMMA AgreesStep ==
  ASSUME TypeOK, LaunchAgrees, args.mode = "release", Launch
  PROVE  LaunchAgrees'
<1>. DEFINE k == Tabs[tab]
<1>0. k \in Keys /\ tab \in 1..Len(Tabs) /\ Len(Tabs) \in Nat
  BY TabsAreKeys DEF TypeOK
<1>. HIDE DEF k
<1>1. /\ UNCHANGED <<disk, args>>
      /\ \A j : LoadEntries(j)' = LoadEntries(j)
      /\ \A j \in Keys : Counted(j)' = Counted(j)
  BY LaunchOnlyReads
<1>2. ASSUME NEW s, NEW after, NextTab(s, after)
      PROVE  \/ stage' = s /\ tab' = tab + 1
             \/ stage' = after /\ tab' = 1 /\ tab = Len(Tabs)
  BY <1>2, TabIsLastOrNot DEF NextTab
<1>3. CASE Load
  <2>1. stage = "load" /\ \A i \in 1..tab : entries'[Tabs[i]] = LoadEntries(Tabs[i])
    <3>1. stage = "load" /\ entries' = [entries EXCEPT ![k] = LoadEntries(k)]
      BY <1>3 DEF Load, k
    <3>2. ASSUME NEW i \in 1..tab
          PROVE  entries'[Tabs[i]] = LoadEntries(Tabs[i])
      <4>1. Tabs[i] \in Keys
        BY <1>0, TabsAreKeys
      <4>2. CASE Tabs[i] = k
        BY <3>1, <4>1, <4>2 DEF TypeOK
      <4>3. CASE Tabs[i] # k
        <5>1. i \in 1..(tab - 1)
          BY <1>0, <4>3 DEF k
        <5>2. entries[Tabs[i]] = LoadEntries(Tabs[i])
          BY <3>1, <5>1 DEF LaunchAgrees
        <5>. QED  BY <3>1, <4>1, <4>3, <5>2 DEF TypeOK
      <4>. QED  BY <4>2, <4>3
    <3>. QED  BY <3>1, <3>2
  <2>2. CASE stage' = "load" /\ tab' = tab + 1
    BY <1>0, <1>1, <2>1, <2>2 DEF LaunchAgrees
  <2>3. CASE stage' = "backends" /\ tab' = 1 /\ tab = Len(Tabs)
    <3>1. \A j \in Keys : entries'[j] = LoadEntries(j)
      BY <2>1, <2>3, TabsAreKeys
    <3>. QED  BY <1>1, <2>3, <3>1 DEF LaunchAgrees
  <2>. QED  BY <1>2, <1>3, <2>2, <2>3 DEF Load
<1>4. CASE BuildBackends
  <2>1. \/ stage' = "refused" /\ \E j \in Keys : args.backend[j] # "runtime"
        \/ stage' = "gateEntries" /\ tab' = 1
    BY <1>4 DEF BuildBackends, LaunchAgrees
  <2>2. entries' = entries /\ stage = "backends"
    BY <1>4 DEF BuildBackends
  <2>. QED  BY <1>1, <2>1, <2>2 DEF LaunchAgrees
<1>5. CASE GateEntries
  <2>1. /\ UNCHANGED <<tab, entries>> /\ stage = "gateEntries"
        /\ gated' = [gated EXCEPT ![k] = LoadEntries(k)]
        /\ stage' = IF Admitted(k, args.backend[k], LoadEntries(k)) THEN "gateEvidence" ELSE "refused"
    BY <1>5 DEF GateEntries, k
  <2>2. gated'[k] = LoadEntries(k)
    BY <1>0, <2>1 DEF TypeOK
  <2>3. CASE Admitted(k, args.backend[k], LoadEntries(k))
    <3>1. stage' = "gateEvidence" /\ (gated[Tabs[tab]] = LoadEntries(Tabs[tab]))'
      BY <1>1, <2>1, <2>2, <2>3 DEF LoadEntries, disk, k
    <3>2. \A i \in 1..(tab - 1) : Counted(Tabs[i])' # {}
      <4>1. \A i \in 1..(tab - 1) : Tabs[i] \in Keys
        BY <1>0, TabsAreKeys
      <4>. QED  BY <1>1, <2>1, <4>1 DEF LaunchAgrees
    <3>. QED  BY <1>1, <2>1, <3>1, <3>2 DEF LaunchAgrees
  <2>4. CASE ~Admitted(k, args.backend[k], LoadEntries(k))
    <3>1. args.backend[k] # "runtime" \/ ~LayersAccepted(k, LoadEntries(k))
      BY <2>4 DEF Admitted
    <3>2. stage' = "refused" /\ \E j \in Keys : args'.backend[j] # "runtime" \/ ~LayersAccepted(j, LoadEntries(j)')
      BY <1>0, <1>1, <2>1, <2>4, <3>1
    <3>. QED  BY <3>2 DEF LaunchAgrees, LayersAccepted
  <2>. QED  BY <2>3, <2>4
<1>6. CASE GateEvidence
  <2>1. UNCHANGED <<entries, gated>> /\ stage = "gateEvidence"
    BY <1>6 DEF GateEvidence
  <2>2. RootUsable /\ Selected(files, gated[k]) # {} <=> Counted(k) # {}
    BY <1>0, <2>1, GateCountsAlike DEF LaunchAgrees, k
  <2>3. CASE Counted(k) = {}
    <3>1. stage' = "refused"
      BY <1>6, <2>2, <2>3 DEF GateEvidence, k
    <3>. QED  BY <1>0, <1>1, <2>3, <3>1 DEF LaunchAgrees
  <2>4. CASE Counted(k) # {}
    <3>1. \A i \in 1..tab : Counted(Tabs[i]) # {}
      <4>1. \A i \in 1..tab : i = tab \/ i \in 1..(tab - 1)
        BY <1>0
      <4>. QED  BY <2>1, <2>4, <4>1 DEF LaunchAgrees, k
    <3>2. \A i \in 1..tab : Counted(Tabs[i])' = Counted(Tabs[i])
      BY <1>0, <1>1, TabsAreKeys
    <3>3. NextTab("gateEntries", "filter")
      BY <1>6, <2>2, <2>4 DEF GateEvidence, k
    <3>4. CASE stage' = "gateEntries" /\ tab' = tab + 1
      BY <1>0, <1>1, <2>1, <3>1, <3>2, <3>4 DEF LaunchAgrees
    <3>5. CASE stage' = "filter" /\ tab' = 1 /\ tab = Len(Tabs)
      <4>1. \A j \in Keys : Counted(j) # {}
        BY <3>1, <3>5, TabsAreKeys
      <4>2. \A i \in DOMAIN Tabs : ~(i < 1) /\ entries'[Tabs[i]] = LoadEntries(Tabs[i])
        BY <2>1, TabsAreKeys DEF LaunchAgrees
      <4>. QED  BY <1>1, <3>5, <4>1, <4>2 DEF LaunchAgrees
    <3>. QED  BY <1>2, <3>3, <3>4, <3>5
  <2>. QED  BY <2>3, <2>4
<1>7. CASE Filter
  <2>1. /\ stage = "filter" /\ NextTab("filter", "build")
        /\ entries' = [entries EXCEPT ![k] = Selected(files, entries[k])]
    BY <1>7 DEF Filter, k
  <2>2. Selected(files, LoadEntries(k)) = Counted(k)
    BY <1>0, <2>1 DEF Counted, LaunchAgrees
  <2>3. entries[k] = LoadEntries(k)
    BY <1>0, <2>1, TabsAreKeys DEF LaunchAgrees, k
  <2>4. ASSUME NEW i \in DOMAIN Tabs
        PROVE  entries'[Tabs[i]] = IF i < tab + 1 THEN Counted(Tabs[i]) ELSE LoadEntries(Tabs[i])
    <3>1. Tabs[i] \in Keys /\ i \in 1..Len(Tabs)
      BY TabsAreKeys
    <3>2. CASE i = tab
      BY <1>0, <2>1, <2>2, <2>3, <3>2 DEF TypeOK, k
    <3>3. CASE i # tab
      <4>1. Tabs[i] # k
        BY <1>0, <3>1, <3>3, TabsAreDistinct DEF k
      <4>2. entries'[Tabs[i]] = entries[Tabs[i]]
        BY <2>1, <3>1, <4>1 DEF TypeOK
      <4>3. entries[Tabs[i]] = IF i < tab THEN Counted(Tabs[i]) ELSE LoadEntries(Tabs[i])
        BY <2>1 DEF LaunchAgrees
      <4>4. i < tab <=> i < tab + 1
        BY <1>0, <3>1, <3>3
      <4>. QED  BY <4>2, <4>3, <4>4
    <3>. QED  BY <3>2, <3>3
  <2>5. \A j \in Keys : Counted(j)' # {}
    BY <1>1, <2>1 DEF LaunchAgrees
  <2>6. CASE stage' = "filter" /\ tab' = tab + 1
    <3>1. \A i \in DOMAIN Tabs :
            entries'[Tabs[i]] = IF i < tab' THEN Counted(Tabs[i])' ELSE LoadEntries(Tabs[i])'
      BY <1>1, <2>4, <2>6, TabsAreKeys
    <3>. QED  BY <2>5, <2>6, <3>1 DEF LaunchAgrees
  <2>7. CASE stage' = "build" /\ tab' = 1 /\ tab = Len(Tabs)
    <3>1. \A i \in DOMAIN Tabs : i < tab + 1
      BY <1>0, <2>7, TabsAreKeys
    <3>2. \A j \in Keys : entries'[j] = Counted(j)'
      BY <1>1, <2>4, <3>1, TabsAreKeys
    <3>. QED  BY <2>5, <2>7, <3>2 DEF LaunchAgrees
  <2>. QED  BY <1>2, <2>1, <2>6, <2>7
<1>8. CASE Build
  <2>1. /\ entries' = entries
        /\ \A j \in Keys : entries[j] = Counted(j) /\ Counted(j)' # {}
    BY <1>1, <1>8 DEF Build, LaunchAgrees
  <2>2. \/ stage' = "serving" /\ \A j \in Keys : Opens(Counted(j))
        \/ stage' = "crashed" /\ \E j \in Keys : ~Opens(Counted(j))
    BY <1>8, <2>1 DEF Build
  <2>3. \A j \in Keys : Opens(Counted(j))' <=> Opens(Counted(j))
    BY <1>1 DEF Opens, FirstOf
  <2>. QED  BY <1>1, <2>1, <2>2, <2>3 DEF LaunchAgrees
<1>. QED  BY <1>3, <1>4, <1>5, <1>6, <1>7, <1>8 DEF Launch

LEMMA DemoStep ==
  ASSUME TypeOK, CountedInv, AgreesInv, NextDemo
  PROVE  CountedInv' /\ AgreesInv'
<1>1. CASE Preflight
  <2>1. UNCHANGED <<allVars, quiet>> /\ check # "reported"
    BY <1>1 DEF Preflight, CheckFiles, CheckReleaseGate, CheckRefusesLocally, CheckBoot, CheckShutdown
  <2>2. stage' = "load" /\ tab' = 1
    BY <2>1 DEF CountedInv, allVars, launch
  <2>. QED  BY <1>1, <2>2, PreflightCounts DEF AgreesInv, LaunchAgrees
<1>2. CASE DemoLaunch
  <2>1. check = "reported" /\ Launch /\ UNCHANGED <<check, counted, passed, quiet>>
    BY <1>2 DEF DemoLaunch, preflight
  <2>2. CountedInv'
    BY <2>1, LaunchOnlyReads DEF CountedInv
  <2>3. AgreesInv'
    BY <2>1, LaunchOnlyReads, AgreesStep DEF AgreesInv
  <2>. QED  BY <2>2, <2>3
<1>3. CASE EditDemo
  <2>1. /\ UNCHANGED <<check, counted, passed, launch>>
        /\ quiet' = (quiet /\ check = "files")
    BY <1>3 DEF EditDemo, EditDisk, EditSlot, preflight
  <2>. QED  BY <2>1 DEF CountedInv, AgreesInv, launch
<1>. QED  BY <1>1, <1>2, <1>3 DEF NextDemo

\* The strengthened invariant of a demo holds of every reachable state.
LEMMA DemoInvariant == DemoSpec => [](TypeOK /\ CountedInv /\ AgreesInv)
<1>1. InitDemo => CountedInv /\ AgreesInv
  BY InitCounted
<1>2. ASSUME CountedInv, AgreesInv, UNCHANGED demoVars
      PROVE  CountedInv' /\ AgreesInv'
  <2>1. /\ UNCHANGED <<stage, tab, args, entries, gated, check, counted, quiet>>
        /\ \A k : LoadEntries(k)' = LoadEntries(k) /\ Counted(k)' = Counted(k)
    BY <1>2 DEF demoVars, allVars, disk, launch, LoadEntries, Counted
  <2>2. CountedInv'
    BY <1>2, <2>1 DEF CountedInv
  <2>3. LaunchAgrees => LaunchAgrees'
    <3>1. stage = "gateEvidence" /\ gated[Tabs[tab]] = LoadEntries(Tabs[tab])
            => (gated[Tabs[tab]] = LoadEntries(Tabs[tab]))'
      BY <1>2, <2>1 DEF LoadEntries, demoVars, allVars, disk
    <3>. QED  BY <2>1, <3>1 DEF LaunchAgrees, LayersAccepted
  <2>. QED  BY <1>2, <2>1, <2>2, <2>3 DEF AgreesInv
<1>3. TypeOK /\ CountedInv /\ AgreesInv /\ [NextDemo]_demoVars => CountedInv' /\ AgreesInv'
  BY <1>2, DemoStep
<1>. QED  BY <1>1, <1>3, DemoIsALaunch, LaunchTypeCorrect, PTL DEF DemoSpec

\* pi_demo_preflight's "Mode A ... a real --mode release launch would render exactly this
\* publishable subset" and "Mode B ... refuses", as far as they are true, for any tabs,
\* entries and evidence: on a machine nobody touches in between, an empty count is a
\* refusal, and a release page shows what the preflight counted, or is not built at all
\* because the first of the entries counted for a tab is authored in multiples.
THEOREM PreflightIsRight == DemoSpec => []PreflightPredictsLaunch
<1>1. ASSUME TypeOK, CountedInv, AgreesInv, check = "reported", quiet, args.mode = "release"
      PROVE  /\ (\E k \in Keys : counted[k] = {}) => stage \notin {"filter", "build", "serving", "crashed"}
             /\ (\A k \in Keys : /\ counted[k] # {} /\ args.backend[k] = "runtime"
                                 /\ LayersAccepted(k, Shipped[k] \cup (slot[k] \cap Decodable)))
                  => stage # "refused"
             /\ stage = "serving" => entries = counted /\ \A k \in Keys : Opens(counted[k])
             /\ stage = "crashed" => \E k \in Keys : ~Opens(counted[k])
  <2>1. LaunchAgrees /\ \A k \in Keys : counted[k] = Counted(k)
    BY <1>1 DEF AgreesInv, CountedInv
  <2>2. ASSUME stage = "serving"
        PROVE  entries = counted
    BY <1>1, <2>1, <2>2 DEF LaunchAgrees, TypeOK, CountedInv
  <2>3. \A k \in Keys : Opens(counted[k]) <=> Opens(Counted(k))
    BY <2>1
  <2>4. (\E k \in Keys : counted[k] = {}) => stage \notin {"filter", "build", "serving", "crashed"}
    BY <2>1 DEF LaunchAgrees
  <2>5. stage = "refused" =>
          \E k \in Keys : counted[k] = {} \/ args.backend[k] # "runtime"
                           \/ ~LayersAccepted(k, Shipped[k] \cup (slot[k] \cap Decodable))
    BY <2>1 DEF LaunchAgrees, LoadEntries
  <2>6. /\ stage = "serving" => \A k \in Keys : Opens(counted[k])
        /\ stage = "crashed" => \E k \in Keys : ~Opens(counted[k])
    BY <2>1, <2>3 DEF LaunchAgrees
  <2>. QED  BY <2>2, <2>4, <2>5, <2>6
<1>2. TypeOK /\ CountedInv /\ AgreesInv => PreflightPredictsLaunch
  BY <1>1 DEF PreflightPredictsLaunch
<1>. QED  BY <1>2, DemoInvariant, PTL

\* A preflight and a launch keep their types; main is not started before the report.
THEOREM DemoTypeCorrect == DemoSpec => []DemoTypeOK
<1>. DEFINE Flags == check \in Checks /\ passed \in BOOLEAN /\ quiet \in BOOLEAN
<1>1. InitDemo => Flags
  BY DEF InitDemo, Checks
<1>2. ASSUME Flags, [NextDemo]_demoVars
      PROVE  Flags'
  <2>1. CASE UNCHANGED demoVars
    BY <1>2, <2>1 DEF demoVars
  <2>2. CASE Preflight
    <3>1. check' \in Checks
      BY <2>2 DEF Preflight, CheckFiles, CheckReleaseGate, CheckRefusesLocally, CheckBoot,
                  CheckShutdown, Checks
    <3>2. passed' \in BOOLEAN
      BY <1>2, <2>2 DEF Preflight, CheckFiles, CheckReleaseGate, CheckRefusesLocally, CheckBoot,
                        CheckShutdown, MayFail
    <3>. QED  BY <1>2, <2>2, <3>1, <3>2 DEF Preflight
  <2>3. CASE DemoLaunch
    BY <1>2, <2>3 DEF DemoLaunch, preflight
  <2>4. CASE EditDemo
    BY <1>2, <2>4 DEF EditDemo, preflight
  <2>. QED  BY <1>2, <2>1, <2>2, <2>3, <2>4 DEF NextDemo
<1>3. TypeOK /\ CountedInv /\ Flags => DemoTypeOK
  BY DEF DemoTypeOK, CountedInv
<1>. QED  BY <1>1, <1>2, <1>3, DemoInvariant, PTL DEF DemoSpec

===============================================================================
