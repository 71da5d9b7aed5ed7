----------------------------- MODULE ReleaseLaunch -----------------------------
(***************************************************************************)
(* app.main: one launch, from the first load_entries to the page, with the *)
(* release gate of fixtures/loader.py and the publishability rules of      *)
(* canonical/concept_bundle/release.py.  It reads the attested slots and   *)
(* the evidence registry several times; both may change in between.        *)
(*                                                                         *)
(* A slot is a set of bundle files, each named by the entry it decodes to, *)
(* if it does: the codec is left to that outcome.                          *)
(***************************************************************************)
EXTENDS EvidenceRegistry, Sequences

CONSTANTS
  CommandLines,   \* the arguments app.py may be started with
  Tabs,           \* the model keys, as a sequence: <<"gemma", "qwen">>
  Acceptance,     \* Acceptance[k]: what ACCEPTANCE_REGISTRY holds for the tab's backend
  Entries,        \* the fixtures and the files that may be in a slot
  Decodable,      \* those of them that the codec decodes
  Info,           \* Info[e]: what gate and page read of an entry
  Place,          \* Place[e]: where load_entries puts e among the others
  Shipped,        \* Shipped[k]: the FAKE fixtures
  Stageable,      \* bound: Stageable[k], the entries that may be staged in k's slot
  SlotEdits       \* bound: changes of the attested slots

Keys == {Tabs[i] : i \in DOMAIN Tabs}

\* provenance; the layers of its calibrated directions; its evidence references;
\* flawed: a placeholder marker, or no calibrated direction; unit: of the low strength of
\* its first calibrated direction.
EntryInfo ==
  [provenance : {"attested", "other"}, layers : SUBSET Nat, evidence : SUBSET References,
   flawed : BOOLEAN, unit : {"absolute", "multiple"}]

\* RuntimeAcceptanceRecord: there is none, or one of a layer, or one without a layer.
AcceptanceRecord == [scope : {"none", "layer", "any"}, layer : Nat]

\* --mode; the backend chosen per tab, or one whose arguments are missing;
\* whether --evidence-registry-root names an existing directory.
CommandLine ==
  [mode : {"dev", "release"}, backend : [Keys -> {"stub", "runtime", "missing_args"}],
   root : BOOLEAN]

ASSUME LaunchConstants ==
  /\ Tabs \in Seq(Keys) /\ Tabs # <<>>
  /\ \A i, j \in DOMAIN Tabs : Tabs[i] = Tabs[j] => i = j
  /\ CommandLines \subseteq CommandLine /\ SlotEdits \in Nat
  /\ Acceptance \in [Keys -> AcceptanceRecord]
  /\ \A e \in Entries : Info[e] \in EntryInfo
  /\ Decodable \subseteq Entries /\ Shipped \in [Keys -> SUBSET Decodable]
  /\ Stageable \in [Keys -> SUBSET Entries]
  \* No shipped fixture is authored in multiples, and they come first.
  /\ \A k \in Keys : Shipped[k] # {} /\ \A e \in Shipped[k] : Info[e].unit = "absolute"
  /\ Place \in [Entries -> Nat] /\ \A e, f \in Entries : Place[e] = Place[f] => e = f
  /\ \A k \in Keys : \A e \in Shipped[k], f \in Stageable[k] : Place[e] < Place[f]
  \* CalibrationProvenance requires a reference, ATTESTED requires CalibrationProvenance.
  /\ \A e \in Entries : Info[e].provenance = "attested" => Info[e].evidence # {}

VARIABLES
  slot,       \* slot[k]: the files in ATTESTED_DIR / k
  slotEdits,
  args,       \* the command line
  stage,      \* what main does next
  tab,        \* for which tab: an index of Tabs
  entries,    \* entries[k]: what main loaded, then what it filtered
  gated,      \* gated[k]: what enforce_release_gate loaded for its own use
  verified,   \* the evidence <<reference, content>> the filter has read for tab k
  withdrawn   \* withdrawn[k]: taken out of k's slot while main held them (history)

launch == <<args, stage, tab, entries, gated, verified>>
disk   == <<files, edits, slot, slotEdits, withdrawn>>
allVars == <<disk, launch>>

Stages == {"load", "backends", "gateEntries", "gateEvidence", "filter", "build",
           "serving", "refused", "crashed"}

-------------------------------------------------------------------------------
\* load_entries: the fixtures and whatever the slot holds now and could be decoded.
LoadEntries(k) == Shipped[k] \cup (slot[k] \cap Decodable)

\* Mutant of Publishable: a reference of any form will do.
PublishableInAnyForm(tree, e) ==
  /\ Info[e].provenance = "attested"
  /\ ~Info[e].flawed
  /\ Info[e].evidence # {} /\ \A ref \in Info[e].evidence : Resolved(tree, ref)

\* evaluate_publishability: no reason against the entry.
Publishable(tree, e) ==
  /\ Info[e].provenance = "attested"
  /\ ~Info[e].flawed
  /\ Info[e].evidence # {}
  /\ \A ref \in Info[e].evidence : Resolved(tree, ref) /\ ref.form = "published"

\* select_layout_entries(exposure=RELEASE)
Selected(tree, es) == {e \in es : Publishable(tree, e)}

\* is_mechanically_accepted, of a layer and of no layer in particular
Accepted(k, layer) ==
  Acceptance[k].scope = "any" \/ (Acceptance[k].scope = "layer" /\ Acceptance[k].layer = layer)
AcceptedAtAll(k) == Acceptance[k].scope # "none"

\* _target_layers_for_model_key
TargetLayers(es) == UNION {Info[e].layers : e \in es}

\* Mutant of LayersAccepted: one accepted layer vouches for the others.
SomeLayerAccepted(k, es) == AcceptedAtAll(k) /\ \E layer \in TargetLayers(es) : Accepted(k, layer)

\* The acceptance half of enforce_release_gate; entries without a calibrated direction
\* name no layer, and then any record will do.
LayersAccepted(k, es) ==
  IF TargetLayers(es) # {} THEN \A layer \in TargetLayers(es) : Accepted(k, layer)
  ELSE AcceptedAtAll(k)

\* enforce_release_gate, what it asks of a backend: no stub, and accepted everywhere.
Admitted(k, backend, es) == backend # "stub" /\ LayersAccepted(k, es)

\* _validate_evidence_registry_root
RootUsable == args.root /\ \E path \in Types \X Prefixes : files[path] # Absent

-------------------------------------------------------------------------------
Init ==
  /\ InitRegistry
  /\ slot \in {s \in [Keys -> SUBSET Entries] : \A k \in Keys : s[k] \subseteq Stageable[k]} /\ slotEdits = 0
  /\ withdrawn = [k \in Keys |-> {}]
  /\ args \in CommandLines
  /\ stage = "load" /\ tab = 1
  /\ entries = [k \in Keys |-> {}] /\ gated = [k \in Keys |-> {}]
  /\ verified = [k \in Keys |-> {}]

\* Mutant of NextTab: one tab too many.
NextTabOverrun(s, after) ==
  IF tab <= Len(Tabs) THEN stage' = s /\ tab' = tab + 1 ELSE stage' = after /\ tab' = 1

\* main goes on to the next tab, or, after the last one, to the next stage.
NextTab(s, after) ==
  IF tab < Len(Tabs) THEN stage' = s /\ tab' = tab + 1 ELSE stage' = after /\ tab' = 1

\* Mutant of Load: a staged file that does not decode ends the launch.
LoadRaising ==
  /\ stage = "load"
  /\ IF slot[Tabs[tab]] \subseteq Decodable
       THEN /\ entries' = [entries EXCEPT ![Tabs[tab]] = LoadEntries(Tabs[tab])]
            /\ NextTab("load", "backends")
       ELSE stage' = "crashed" /\ UNCHANGED <<entries, tab>>
  /\ UNCHANGED <<disk, args, gated, verified>>

\* gemma_entries = load_entries("gemma"); qwen_entries = load_entries("qwen")
Load ==
  /\ stage = "load"
  /\ entries' = [entries EXCEPT ![Tabs[tab]] = LoadEntries(Tabs[tab])]
  /\ NextTab("load", "backends")
  /\ UNCHANGED <<disk, args, gated, verified>>

\* _build_gemma_backend, _build_qwen_backend: a runtime backend needs its arguments.
BuildBackends ==
  /\ stage = "backends"
  /\ stage' = IF \E k \in Keys : args.backend[k] = "missing_args" THEN "refused"
              ELSE IF args.mode = "release" THEN "gateEntries" ELSE "build"
  /\ UNCHANGED <<disk, args, tab, entries, gated, verified>>

\* enforce_release_gate, first half: no stub; it loads the entries again, and every
\* layer they name must be one its backend was accepted at.
GateEntries ==
  LET k == Tabs[tab]
      es == LoadEntries(k)
  IN  /\ stage = "gateEntries"
      /\ gated' = [gated EXCEPT ![k] = es]
      /\ stage' = IF Admitted(k, args.backend[k], es) THEN "gateEvidence"
                  ELSE "refused"
      /\ UNCHANGED <<disk, args, tab, entries, verified>>

\* enforce_release_gate, second half: the root, and one publishable entry at least.
GateEvidence ==
  /\ stage = "gateEvidence"
  /\ IF RootUsable /\ Selected(files, gated[Tabs[tab]]) # {}
       THEN NextTab("gateEntries", "filter")
       ELSE stage' = "refused" /\ UNCHANGED tab
  /\ UNCHANGED <<disk, args, entries, gated, verified>>

\* main keeps, of the entries it loaded at the beginning, the publishable ones.
Filter ==
  LET k == Tabs[tab]
      es == Selected(files, entries[k])
  IN  /\ stage = "filter"
      /\ entries' = [entries EXCEPT ![k] = es]
      /\ verified' = [verified EXCEPT ![k] =
           UNION {{<<ref, files[PathFor(ref)].content>> : ref \in Info[e].evidence} : e \in es}]
      /\ NextTab("filter", "build")
      /\ UNCHANGED <<disk, args, gated>>

\* entries[0]: the fixtures in their order, then the slot's files in the order of names.
FirstOf(es) == CHOOSE e \in es : \A f \in es : Place[e] <= Place[f]

\* build_model_tab takes entries[0], which a tab without entries has not, and resolves
\* its first setting without a source of denominators, which a multiple has to have.
Opens(es) == es # {} /\ Info[FirstOf(es)].unit = "absolute"

\* build_demo
Build ==
  /\ stage = "build"
  /\ stage' = IF \A k \in Keys : Opens(entries[k]) THEN "serving" ELSE "crashed"
  /\ UNCHANGED <<disk, args, tab, entries, gated, verified>>

Launch == Load \/ BuildBackends \/ GateEntries \/ GateEvidence \/ Filter \/ Build

\* A bundle is staged in a slot or taken out of it; the registry is edited.
EditSlot ==
  /\ slotEdits < SlotEdits /\ slotEdits' = slotEdits + 1
  /\ \E k \in Keys : \E e \in Stageable[k] :
       /\ slot' = [slot EXCEPT ![k] = IF e \in @ THEN @ \ {e} ELSE @ \cup {e}]
       /\ withdrawn' = [withdrawn EXCEPT ![k] = @ \cup ({e} \cap slot[k] \cap entries[k])]
  /\ UNCHANGED <<files, edits, launch>>

EditDisk == EditSlot \/ (EditRegistry /\ UNCHANGED <<slot, slotEdits, withdrawn, launch>>)

Next == Launch \/ EditDisk

Spec == Init /\ [][Next]_allVars

-------------------------------------------------------------------------------
TypeOK ==
  /\ RegistryTypeOK
  /\ slot \in [Keys -> SUBSET Entries] /\ slotEdits \in 0..SlotEdits
  /\ withdrawn \in [Keys -> SUBSET Entries]
  /\ args \in CommandLines /\ stage \in Stages /\ tab \in DOMAIN Tabs
  /\ entries \in [Keys -> SUBSET Entries] /\ gated \in [Keys -> SUBSET Entries]
  /\ verified \in [Keys -> SUBSET (References \X Contents)]

ReleasePage == stage = "serving" /\ args.mode = "release"

\* "Release mode must never render an entry that has not itself individually passed":
\* behind each reference of an entry on a release page is the very content it cites,
\* read in this launch, however slots and registry were edited meanwhile.
ReleaseShowsVerified ==
  ReleasePage =>
    \A k \in Keys : \A e \in entries[k] :
      /\ Info[e].provenance = "attested"
      /\ \A ref \in Info[e].evidence :
           /\ <<ref, ref.digest>> \in verified[k]
           /\ \A c \in Contents : <<ref, c>> \in verified[k] => c = ref.digest

\* The layer scoping of the gate, whatever is staged and taken out between main's reading
\* of a slot and the gate's: what a release page offers and the gate has looked at is at
\* layers the tab's backend was accepted at.  What the gate has not looked at (it may be at
\* any layer) was in the slot when main read it and taken out before the gate did.
ShownLayersAccepted ==
  ReleasePage =>
    \A k \in Keys : \A e \in entries[k] :
      IF e \in gated[k] THEN \A layer \in Info[e].layers : Accepted(k, layer)
      ELSE e \in withdrawn[k]

\* Mode B's guarantee, "the shipped FAKE fixtures always load": whatever the slots and
\* the registry hold or become, files that do not decode among it, a dev launch ends in
\* a page with every shipped fixture on its tab.
DevAlwaysServes ==
  (args.mode = "dev" /\ \A k \in Keys : args.backend[k] # "missing_args") =>
    <>(stage = "serving" /\ \A k \in Keys : Shipped[k] \subseteq entries[k])

===============================================================================
