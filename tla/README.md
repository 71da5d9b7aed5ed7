# A verification development for sae-concept-lab

`sae_concept_lab` puts sparse-autoencoder features of two language models behind a
small Gradio page: a user picks a concept, a direction and a strength, chats with the
steered model, and compares it with the unsteered one. A release build serves only
entries whose calibration evidence was read and verified in that launch. Scripts beside
it exercise the real models on a GPU node, check a demo machine, and verify that the
files taken from another repository are still the ones that were taken.

This directory models that program in TLA+, checks the models with TLC on small
instances and proves the theorems below with TLAPS. The reference is the code under
`src/`. `PROJECT.json` maps each definition to the lines it stands for, lists the
hazards of the code with the properties aimed at them, and names a mutant of the code
that each checked property catches.

## 1. The system

| Component | State it keeps | Operations | Who else touches it |
|---|---|---|---|
| Model tab, `ui/tab.py` over `core/logic.py` | browser: two radios, chat box, panels, panes, notices; session: `concept_state`, `history_state`, `selection_state`, `resolved_config_state` | card click, direction and strength `.change`, Send (button, Enter), Compare, four language refreshers | every handler of the session, concurrently; Gradio's queue and `.change` propagation |
| Runtime backends, `core/qwen_backend.py`, `core/gemma_backend.py`, `extracted_runtime/` | `self._loaded`; hooks on the model; counter and trace of each hook | `generate`, baseline and steered | `_on_send` and `_on_compare` in threads, no lock |
| Gemma loader, `extracted_runtime/gemma_loader.py` | the process-wide `psl.hf_hub_download` and `psl.get_safetensors_tensor_shapes` | replace both, load, restore the first, validate | any other load in the process |
| Evidence registry, `canonical/concept_bundle/evidence.py` | none of its own; a directory tree | `resolve` | whoever writes or edits the tree |
| Release gate and launch, `app.py`, `fixtures/loader.py`, `release.py` | entries loaded, then filtered | load, build backends, gate, filter, build the page | whoever stages bundles or edits evidence |
| Bundle schema, resolver, guards, `canonical/concept_bundle/`, `core/execution_guard.py` | none | preflight, resolve, guard, clamp | the tab; direct callers |
| Smoke scripts, `smoke/tamia_smoke.py`, `smoke/pi_demo_preflight.py` | results so far; the backends of the phase | one scenario or check after another, then the aggregate | they call backends, gate and registry; whoever stages or edits between preflight and launch |
| Provenance verifier, `provenance/verify_provenance.py` | none; a manifest, the tree, a checkout of the source repository | one extraction after another, then the exit code | whoever edits tree and manifest between runs |

Interaction. `app.main` loads entries, runs the gate and builds two tabs, each with one
backend. A tab's handlers preflight and resolve a control (`ControlResolution`) and call
the backend (`SteeringBackend`), which loads a model on first use (`GemmaLoader` for one
of the two pairings). The gate resolves evidence (`EvidenceRegistry`) and reads the slots.
The smoke packet drives backends, loader and gate in one process; the demo preflight asks
the gate's questions ahead of a launch.

What is hard here. Handlers of one tab overlap, read the session when they start and
write it when they return, minutes later. Two of them share a model object on which
hooks are registered. A load replaces a function of an imported library. A launch reads
slots and registry three times, and a preflight once more, hours before. The audit state
and the executed value are computed in different places, and so are a provenance verdict
and the exit code. A packet goes on whatever fails in it, with one GPU for two models. A
unit test reaches none of these orders.

What makes each correct: the tab never shows a reply or a comparison beside a setting
that did not produce it; a reply is steered by its own request alone and its diagnostics
say so only when true; a load puts the download function back, whatever broke it, and
serves sae_lens from the snapshot only; an edit of cited evidence is noticed; a release
page shows only what was verified in this launch, and a preflight's counts decide what
the launch then does; a request that cannot be carried out whole is refused; a packet
that is written leaves no scenario out, passes only if it is complete, and never holds
two models; an exit code of 0 means that what was imported is still here. Section 4 says
where the code keeps these for some users and callers only.

## 2. Modules

| Module | Models | How state and actions correspond |
|---|---|---|
| `ConceptTab` | one tab as one session sees it | a handler is a *job*: fired with the browser's values, `Start` reads the session's values, its `Finish...` action writes all of its outputs. Every `Finish...` action is one handler with all its outputs, early returns are actions of their own (`RefuseSend`, `RefuseCompare`), `Fail` is a backend that raised |
| `ChatSession` | what the tab promises: a setting, the conversation under it, the last comparison; every operation one step | abstract; `ConceptTab` implements it with `setting <- selection`, `conversation <- history` |
| `SteeringBackend` | one backend object under several callers | a call runs one arm or two; an arm goes through `ensure`, `loading`, `ready`, `generating`; `ForwardPass` runs every hook on the model, its own or not; `Unhook` is `handle.remove()` for Qwen and the exit of a TransformerLens context for Gemma |
| `GemmaLoader` | the replacements `load_gemma_it_target` makes in sae_lens | replace the shape lookup for good and save, install, one `Ask` per file sae_lens requests, return, restore and validate; every step may fail as the code may |
| `SmokePacket` | `build_smoke_packet` and `run_application_smoke`, extending `GemmaLoader` | `Script` is the order of the scenarios; each is an action that records one result (`Record`, which is `_run_guarded`); a Gemma scenario's load is taken step by step, each of them a step of `GemmaLoader`; `Crash` is what raises between the scenarios, where nothing guards |
| `EvidenceRegistry` | both registries over a tree that changes | `Status` and `InMemoryStatus` are the two `resolve`s with their order of refusals; `EditRegistry` is everything others do to the tree |
| `ReleaseLaunch` | `app.main`, extending the registry | one action for each reading of slots or registry, so that an edit may fall between any two; `Build` is the page build, which opens each tab on its first entry |
| `PiDemoPreflight` | the demo preflight and then the launch, extending `ReleaseLaunch` | one action per check, one per tab where slots and registry are read; `DemoLaunch` is a step of `ReleaseLaunch` |
| `ControlResolution` | one control request after another, of directions that are calibrated or null | preflight (tab only), resolve, guard, clamp |
| `ProvenanceVerifier` | runs of `verify_provenance.main`, with edits between them | `Begin` is `main` up to `verify`'s loop, `Verify` one extraction, `Report` the exit code; `Edit` is everything others do between two runs |
| `ConceptTabProofs`, `ControlResolutionProofs`, `GemmaLoaderProofs`, `SmokePacketProofs`, `SteeringBackendProofs`, `EvidenceRegistryProofs`, `ReleaseLaunchProofs`, `ProvenanceVerifierProofs` | | theorems and proofs |
| `MC*` | | instances |

Abstractions. A reply is known by the prompt and the setting that steered it; tensors by
the set of positions a hook changed; the hooks on a layer by the set of those there, as
their order has no effect on which positions change; a digest by the content it is the
digest of (collision-free), with shared 12-character prefixes kept; a file's or a
function's SHA-256 likewise by its bytes; an evidence record by its content and the digest
it declares; a bundle file by the entry it decodes to, if it does; SAE requests by file
names. Seeds, wording, logging, markup and tag stripping are left out. Chatbot and
`history_state` are written together by every handler and are one variable; so are
`resolved_config_state` and the JSON panel. What a smoke scenario compares in a reply is
its outcome, free to be either. A provenance manifest is there and parses, a function
keeps its name where it went (`dest_function_name` is not used), and the imported package
is one content.

External code, modelled from how `src/` uses it. Gradio: a handler runs at most once at a
time (concurrency limit 1 per function), different handlers overlap; click and submit drop
a second event while one is pending (`once`), `.change` fires once more at the end
(`always_last`) and also when a handler changed the value. sae_lens: a fixed list of
requests, some of them through its shape lookup. PyTorch: a removed handle removes that
hook. TransformerLens: entering the context manager `model.hooks` raises the model's
context level and adds the hook at that level; leaving it removes the hooks of the level
the model is at, whoever added them, and lowers it. Contexts that are left in the order
opposite to their entry take back their own. Two threads leave in any order: a first one
in that leaves first takes the other's hook away, and its own stays on the model, still
clamping, until the other leaves. `level` and the owner `Ended` are that. Git: a commit's
blobs never change, and a checkout differs only in the commits it has.

## 3. Runs

| Run | Instance | States | Shows |
|---|---|---|---|
| `tab-patient` | 3 concepts (both directions runnable; one not runnable; one direction only), 2 strengths, 2 prompts, 2 turns, all moves | 297 168 | a user who lets the page settle sees no stale reply, pane or panel; the tab implements `ChatSession`; it settles |
| `tab-overlap` | the same, 3 jobs at once, no change of setting | 74 580 | no turn is ever lost; a comparison that reuses a message repeats one of the conversation's requests |
| `tab-stale_reply` (violation) | 2 jobs at once | | finding 1 |
| `tab-notice` (violation) | patient user | | finding 2 |
| `backend-shared` | a Send and a Compare on either backend, alone or at once; requests that are served, name another layer or carry two targets; 2 racing loads | 473 130 | as many hooks as steered arms, and on Qwen theirs; no overclaiming verdict (on Gemma, of calls nothing overlapped); a call nothing overlapped is steered by itself alone with a trace of its own, whatever overlapped before it; one load; every call ends |
| `backend-baseline` (violation) | the same, Qwen | | finding 3 |
| `smoke-packet` | 14 scenarios, every acceptance, gate and subset of the files present, 2 failures without a cause in the model | 149 480 | nothing but an unguarded step keeps the packet from being written; written it leaves no scenario out, passes only if complete, never holds two models; the download function is back between its loads, provenance is true, validated files are those served |
| `preflight-launch` | a preflight, then a launch of 2 tabs; dev and release command lines, 8 entries (one authored in multiples, one file that does not decode), acceptance of one layer and of any, one edit of a slot and one of the registry at any moment | 1 359 592 | the preflight predicts the launch of an undisturbed machine; what a release page shows was verified in this launch, at accepted layers if the gate looked at it; dev always serves; edits are noticed; where the in-memory registry differs |
| `resolution-requests` | records of one, two or four targets over 4 features, every unit and operation, and null directions, 2 strengths, tab and direct callers | 52 426 | nothing truncated or applied unmeasured, the guards agree, order unobservable in state and error |
| `resolution-execution` (violation) | without denominators | | finding 4 |
| `provenance-exit` | 7 manifests over 3 extractions, 13 paths, two edits of tree, manifest, checkout or package | 518 276 | what an exit code of 0 guarantees, and the two cases, no more, in which it hides a verdict that is not clean |
| `provenance-verdicts` (violation) | the same, one edit | | finding 5 |

Bounds, and why they are enough. `MaxTurns` 2: a conversation with a last exchange and
one before it is the smallest where trimming, losing and repeating a turn differ.
`MaxPending` 3: two Sends and a Compare in flight; `Patient` has one gesture, which may
be a language switch with three refreshers (concept detail and positions panel read and
write alike and are one job). `PromptLength` 2 tells the prompt's last position from its
first; `MaxPasses` is 2, a prefill and a new token. `MaxLoads` is 2 for Qwen, the race of
two first calls, which is the same code for Gemma, whose bound is 1. `MaxTrace` 1 bounds
what a foreign hook has recorded when a call begins. The proofs about `SteeringBackend`
hold for any of these numbers. `MaxFailures` 2: a failure and another in a later phase;
failures with a cause in the model are not counted. Two tabs are all there are. `MaxEdits`
and `SlotEdits` 1 put a change between any two readings; `Stageable` limits each slot to
the bundles that are told apart there: fit for release, with a short reference, at a layer
never accepted, authored in multiples under a name that comes first, not decodable. The
launch instance has one 12-character prefix for its three contents, one of them without a
canonical form, so that prefixes collide; the proofs about registry and launch hold
for any number of each. Two edits in `provenance-exit` are a tree and a manifest changed
together, which is how a lenient class or a new hash would be slipped in.

Deadlock is checked in the tab, backend and resolution runs. It is not in
`preflight-launch` (a launch that serves or refused is at its end), `smoke-packet` (a
packet that was written, a process that crashed) and the provenance runs (a run that
ended, with no edit left).

Fairness. `ConceptTab`: a queued job is started, a started one returns; the queue of a
function is FIFO and generation is bounded by `max_new_tokens`. The user owes nothing.
`SteeringBackend`: a started thread takes its steps (`WF` of `Advance(c)` for each
caller). `PiDemoPreflight`: the process runs on (`WF` of the preflight's and the launch's
steps); editors owe nothing. `SmokePacket`: one process runs the script and the libraries
it calls answer (`WF` of `NextPacket`). `ProvenanceVerifier` states none and has no
liveness property: it is a loop over a finite list.

## 4. Findings

Each is a line of the repository that the code does not keep, with a run that shows it.

1. `README.md:75`: a reply of another setting "is never left on screen next to a changed
   control". Change the strength while a Send is in flight: `_on_send` writes its old
   conversation and reply over the reset. For a patient user the sentence is a theorem.
2. `sae_concept_lab/README.md:127-130`: every change shows the reset notice "with no
   exceptions". A card click that moves the direction radio fires the radio's `.change`,
   which finds the selection recorded and clears the notice.
3. `qwen_backend.py:190`: "no hook runs here". It does when `_on_send` generates
   meanwhile: the Original pane is then partly steered. For calls that nothing overlaps
   the sentence is a theorem.
4. `resolver.py:356`: equal execution fingerprints "drive the model identically". The
   backends clamp to the authored value and ignore weight and denominator. The tests
   (`tests/test_qwen_runtime_backend.py:101-104`) agree with the backends.
5. `verify_provenance.py:655`: "PROVENANCE OK: every extraction's verdict is clean",
   printed with an exit code of 0 above a verdict that is not. A whole file of a runtime
   mirror that was modified is counted in the verdict and never among the problems
   (`verify_provenance.py:567`); nor is a canonical mirror whose vectors fail.
   `ExitCodeIsRight` shows that there is no third case.

Seen while modelling, without a run of their own.

* Tab: Compare panes go stale like replies; "What produced this reply" is written by Send,
  Compare and the language refresher only (`tab.py:419-462` do not write it), so after a
  change of setting the summary of the old one stays beside the changed controls; the
  capability notice survives a change of setting; text typed while a Send is in flight is
  cleared when it returns; the tab passes no denominators, so an entry authored in
  multiples cannot be resolved, and breaks the page build if it comes first.
* Backends: a `GENERATED_ONLY` smoke scenario with one new token passes although nothing
  was steered, since its only pass is the prompt's; of two Gemma calls that overlap, one
  can lose its hook to the other's exit from `model.hooks` and finish unsteered, the
  other's hook then clamps it or a baseline after its own arm is over, and
  `nonzero_steer_confirmed` can be true of the call that lost its hook, since the verdict
  is over the records there are (`HooksMatchRunningArms` without its `pairing = "qwen"`,
  and `VerdictNeverOverclaims` without its premise, show both); a load replaces
  `psl.get_safetensors_tensor_shapes` for the rest of the process (`gemma_loader.py:159`),
  which later loads of other SAEs would meet; two Gemma loads that overlap can leave
  a resolver installed and make `network_resolution_attempted: False` untrue
  (`Overlap = TRUE` shows it).
* Launch: the filter "can never leave either tab with zero entries" (`app.py:154-157`)
  holds only if the registry is not edited after the gate; the page build then fails. It
  fails too if the first entry of a tab is authored in multiples (`tab.py:312` measures no
  maximum), which neither the preflight nor the gate looks at. An entry that is taken out
  of its slot between `main`'s reading and the gate's is shown although the gate never
  asked at which layer it is (`ShownLayersAccepted` has this case, and shows there is no
  other). The banner speaks for both tabs when one backend is a stub. The in-memory
  registry accepts a record that the repository registry calls ambiguous, and lets
  `ContentDigestError` escape for one without a canonical form (`evidence.py:719`), where
  the other says malformed; `InMemoryAnswersAlike` says that there is no third difference.
* Smoke scripts: the preflight's "Mode A" is announced for a sum over both pairings,
  whereas the gate asks each tab for an entry and for accepted layers, and "would render
  exactly this publishable subset" leaves out the page build that fails
  (`PreflightPredictsLaunch` states what the counts do predict); the smoke packet is not
  written when something outside of its guards raises, a phase's constructor,
  `torch.cuda.empty_cache`, `demo.close()`, the provenance manifest or the write itself
  (`Crash`); the bounded request of the application phase loads a real backend without the
  acceptance check that "every real-weight scenario" makes first (`tamia_smoke.py:158`).
* Verifier: of a function only the first top-level definition is compared, without its
  decorators; a canonical mirror's `imported_functions` are recorded and never checked; a
  seed's destination is never compared with the tree, also below a mirror's root.

## 5. Proofs

Constants are arbitrary, under the assumptions named in the modules (`TabConstants`,
`NoneIsNoValue`, `BackendConstants`, `LoaderConstants`, `PacketConstants`,
`RegistryConstants`, `LaunchConstants`, `PreflightConstants`, `VerifierConstants`,
`ResolutionConstants`), which TLC evaluates in the runs. Every safety invariant and action
property of the passing runs is a theorem. Two kinds of theorem have a hypothesis besides,
the one under which a run checks them. The tab's, `TypeCorrect` apart, are about a user who
waits (`Patient`) or one who keeps a setting (`Moves` without changes of setting); without
either, finding 1 refutes most of them. The loader's and the packet's are about loads one
after the other (`~Overlap`), which is how the script makes them.

* **`ConceptTabProofs`.** `TypeCorrect` holds for every user. `PatientInvariant` proves
  `PatientInv` for a patient one. `NoStaleReply` is not inductive: while a job runs the
  recorded selection may lag behind the controls, and a job writes what it read long ago.
  The strengthening says that only a language switch has several jobs pending
  (`OneGesture`), that what a job saw and read is still so (`JobsAreCurrent`), that the
  selection lags only under a radio's job (`RecordedIsShown`), and that everything
  produced was produced under the recorded selection (`ProducedUnderSelection`). There is
  one lemma per handler. `PatientNoStaleReply`, `PatientNoStaleComparison` and
  `PatientPanelsFollow` follow. `StepImplements` uses the same invariant to map every step
  to one operation of `ChatSession` or to a stutter (a refused send stutters, a refused
  comparison empties the panes), which gives `PatientImplementsChatSession`.
  `PatientComparisonRepeatsAReply` and `PatientConversationGrowsOrResets` follow too.

  A user who does not wait needs another invariant, `OverlapInv`: jobs in flight saw the
  setting on the page (`SettingHeld`); only one send runs, with the conversation as it is,
  and beside it a comparison whose conversation may have grown since (`ReadsStand`). Button
  and Enter are two triggers of one handler, and that only one of them runs is what makes a
  send's write an append. From it, `OverlapComparisonRepeatsAReply` and
  `OverlapConversationGrows`.
* **`SteeringBackendProofs`.** Every safety property of `backend-shared`, for any callers,
  requests and bounds. `Shape` says what the early checks of a call have settled when it
  reaches each phase. `Hooked` is the invariant of the layer, also when calls overlap. On
  Qwen (`QwenHooks`) each hook is of one steered arm that generates there, at its
  positions, and each such arm has one. On Gemma (`GemmaHooks`) nothing of the kind holds:
  what does is that the hooks on a model are one for each context level up to the current
  one, and that the level is the number of steered arms, since an arm adds one at its
  entry and takes one away at its exit, whosever it is. `HooksMatchArms` follows from
  either. For calls nothing overlapped `LoneHooks` gives Gemma back what Qwen has.
  `VerdictsAreHonest` rests on `Recorded`: a trace may hold records of foreign passes, but
  each pass of the arm has a record no earlier than its own place, so a verdict over all
  records covers all passes. `Lone` is the invariant of calls nothing has overlapped since
  the backend was idle: one call runs, its passes were changed by its own hook only and
  where it clamps, its trace has its passes' lengths, its counter is 0 before the first
  pass, and it loads only what is not loaded. From it, `LoneRepliesAreTheirOwn`,
  `LoneTracesAreTheirOwn` and the action property `LoneCallsLoadOnce`.
* **`GemmaLoaderProofs`.** `LoaderInvariant`, for any number of loaders taking turns, any
  list of requests and any snapshot: the reference is a loader's own exactly while it is
  inside, the shape lookup is the local one from before that on, and what it captured is
  what it asked for and found. From it, `SerialLoadsRestore`, `SerialProvenanceIsTrue` and
  `SerialFilesAreItsOwn`.
* **`SmokePacketProofs`.** Every step of a packet is a step of `GemmaLoader` or leaves it
  alone (`PacketLoads`), so the loader's theorems hold in it (`PacketRestores`).
  `PacketHoldsOneModel` needs to know which models each scenario may find: `PhaseInv` says
  that only the scenario that runs can be inside a load, and only while nothing is held.
  `PassedPacketsAreComplete` rests on `ProgressInv`: either each result so far is that of
  the script's scenario at its place, the boot left out, or the boot has failed and its
  result, which is not passed, is among them; and a scenario that passed had what it asks
  for (`Earned`). `WrittenPacketsAreComplete` follows from the first half alone: it holds
  of a failed packet too. `PacketTypeCorrect`.
* **`EvidenceRegistryProofs`.** `RegistryTypeCorrect`; `EditsAreNoticed`, which rests on a
  resolved full reference determining its file completely (content by the digest,
  declared digest by the content); `InMemoryAgrees`, whose subjects are `Status` and
  `InMemoryStatus`, translated refusal by refusal.
* **`ReleaseLaunchProofs`.** For any tabs, entries, command lines and edits.
  `ReleasesAreVerified`: the filter has done the tabs before `tab`, and of those every
  entry's references were read with the content they cite (`FilteredInv`).
  `ShownLayersAreAccepted`: however the slots change, what `main` holds is what the gate
  looked at or was withdrawn after `main` read it, and filtering adds nothing
  (`ScopedInv`). `PreflightIsRight`: what the preflight counted is there as long as
  nothing is edited (`CountedInv`), and a launch that starts from there agrees with the
  counts at each of its stages, the page build among them (`LaunchAgrees`).
  `LaunchTypeCorrect`, `DemoTypeCorrect`.
* **`ProvenanceVerifierProofs`.** `OkMirrors` and `SeedsNameNoCanonicalPath`. The
  invariant (`RunInv`) says that each extraction the run has passed is accounted for
  (`Accounted`): its findings are in the report, or it is what a clean one is. The report
  is empty when the exit code is 0. `ExitCodesAreRight` goes the other way, from verdicts to
  the report (`VerdictInv`): a verdict that is not clean is reported or is one of the two
  left out, and what is reported is a difference that is there, since an edit drops the
  result of the run before it. `VerifierTypeCorrect`.
* **`ControlResolutionProofs`.** The canonical order is a permutation that sorts, so it must
  be shown to exist and to leave nothing of the authored order. Both are done by counting,
  without induction. The targets of a record are on different features, so the number of
  targets before one is its own; taking each target to that number is injective, hence a
  bijection, hence a permutation that sorts (`SortExists`). In a sorted sequence an
  element's place is the number of targets before it, so two sorted sequences of the same
  targets are equal (`SameMembersSameOrder`): `AuthoringOrderIsUnobservable`, for the state
  and, as the loop meets the targets in that order, for the error. `ResolutionInv`
  says that what is resolved is the resolution of the request in hand and that a clamp was
  executable. `NothingIsTruncated` follows, since a group of one feature has one target.
  `GuardAndPreflightAgree`: the groups depend on the set of features alone, and sorting
  keeps it. `ResolutionTypeCorrect`.

Only model-checked are the liveness properties, `PageSettles`, `CallsEnd`, `PacketEnds` and
`DevAlwaysServes`: the prover has neither fairness nor `ENABLED`. The violations of section
4 are TLC's by nature. No module proved about has a recursive operator, and what a
recursive definition computes for every input would be out of reach.

## 6. Not modelled

The codec (stateless decoding; a slot is a set of files, each of which decodes to its
entry or to nothing), the stub backend, i18n and labels, the import of acceptance records
through git, `evaluate_science_attribution` (a comparison of fields), release texts, path
containment and symlinks in `targets.py`, and of the conformance runner the comparisons of
the twelve vector kinds and the building of a pack: `ProvenanceVerifier` has the runner as
the set of vectors that do not pass. `PROJECT.json` gives each its reason.

## 7. Plan

Done, in this order: `ConceptTab` and its proofs, `ChatSession`, `SteeringBackend`,
`ControlResolution`, `EvidenceRegistry`, `ReleaseLaunch`, `GemmaLoader` and its proofs;
then `SmokePacket`, `PiDemoPreflight`, `ProvenanceVerifier`, and the proofs of launch,
packet, backend and verifier; then the proofs of `ControlResolution`, of complete packets,
of exit codes, and of the tab under a user who does not wait.

Next, models:
* `SaeSnapshot`: `resolve_local_gemma_sae_path` and the three validators over paths with
  families, siblings and links; what the resolver serves the validators approve.
* The codec's round trip and its strictness, over small documents.
* `TabOnBackend`: a tab composed with its backend, so that a reply carries the passes that
  made it, and finding 3 is seen from the page.
* Science attribution and acceptance tags in the result of an arm.

Next, proofs:
* The step to `ChatSession` for a user who keeps one setting: a reused comparison that
  returns after another send repeats a reply that is no longer the last, which the abstract
  session would have to allow.
* Which weaker condition than `Patient` still excludes finding 1: a user who may change the
  setting whenever no send and no comparison is in flight.
* The proofs of `SaeSnapshot` and `TabOnBackend`.
