------------------------------ MODULE SmokePacket ------------------------------
(***************************************************************************)
(* smoke/tamia_smoke.py: build_smoke_packet runs its scenarios one after   *)
(* the other on the real backends, each guarded, so that what raises is a  *)
(* failed result and the packet goes on.  Of the Gemma scenarios' loads,   *)
(* every step is a step of GemmaLoader; a Qwen load replaces nothing and   *)
(* is one step.  A scenario's own comparisons are left to their outcome.   *)
(***************************************************************************)
EXTENDS GemmaLoader

CONSTANT MaxFailures    \* bound: failures for reasons outside of the model

VARIABLES
  accepted,   \* accepted[p]: is_mechanically_accepted(p, its smoke layer)
  refuses,    \* refuses[p]: whether a release launch is refused for p
  at,         \* the index in Script of the scenario that runs
  results,    \* the ScenarioResults so far
  gpu,        \* the backends that hold a model
  packet      \* "none", then "passed", "failed", or "crashed": nothing was written

frozen == <<accepted, refuses>>
packetVars == <<vars, accepted, refuses, at, results, gpu, packet>>

Pairing == {"qwen", "gemma"}

\* In the order of build_smoke_packet and run_application_smoke.  The boot is recorded
\* when it fails, and then nothing after it is attempted.
Defensive == <<"smoke_entries_hidden", "identity_cannot_be_swapped", "qwen_multi_sae_prohibited",
               "gemma_cross_layer_capability_limit", "qwen_backend_layer_mismatch_refused">>
Qwen == <<"qwen_all", "qwen_generated_only">>
Gemma == <<"gemma_all", "gemma_generated_only">>
BeforePage == <<"app_smoke_entries_unreachable_via_ui">>
OnPage == <<"app_smoke_http_200", "app_smoke_bounded_request", "app_smoke_release_still_refuses">>
Application == BeforePage \o <<"app_smoke_boot">> \o OnPage
Script == Defensive \o Qwen \o Gemma \o Application
Scenarios == {Script[i] : i \in DOMAIN Script}

\* Those that touch no weights: the defensive ones, what the page lists, the probe.
Weightless == {Defensive[i] : i \in DOMAIN Defensive}
                \cup {"app_smoke_entries_unreachable_via_ui", "app_smoke_http_200"}

\* Each Gemma scenario is a loader: the second loads again if the first could not.
ASSUME PacketConstants == Loaders = {Gemma[i] : i \in DOMAIN Gemma} /\ MaxFailures \in Nat

-------------------------------------------------------------------------------
InitPacket ==
  /\ Init
  /\ accepted \in [Pairing -> BOOLEAN] /\ refuses \in [Pairing -> BOOLEAN]
  /\ at = 1 /\ results = <<>> /\ gpu = {} /\ packet = "none"

Running(s) == packet = "none" /\ at <= Len(Script) /\ Script[at] = s

\* Mutant of Released: the application phase releases for all.
ReleasedAtLast(s) == IF s = "app_smoke_release_still_refuses" THEN {"qwen", "gemma", "app"} ELSE {}

\* What build_smoke_packet drops after a scenario: each phase's own backend.
Released(s) ==
  CASE s = "qwen_generated_only" -> {"qwen"} [] s = "gemma_generated_only" -> {"gemma"}
    [] s = "app_smoke_release_still_refuses" -> {"app"} [] OTHER -> {}

Failures == Cardinality({i \in DOMAIN results : ~results[i].passed})
Outcomes == IF Failures < MaxFailures THEN BOOLEAN ELSE {TRUE}

\* _run_guarded: whatever the scenario returned or raised is recorded.
Record(s, ok, holding) ==
  /\ results' = Append(results, [scenario |-> s, passed |-> ok])
  /\ at' = at + 1
  /\ gpu' = holding \ Released(s)
  /\ UNCHANGED <<frozen, packet>>

RunWeightless ==
  \E s \in Weightless, ok \in Outcomes : Running(s) /\ Record(s, ok, gpu) /\ UNCHANGED vars

\* _require_mechanical_acceptance, at the layer of p's smoke entries
MayLoad(p) == accepted[p]

\* run_qwen_position_scenario: a load that fails leaves the backend without a model.
RunQwen(s) ==
  /\ Running(s) /\ s \in {"qwen_all", "qwen_generated_only"}
  /\ IF ~MayLoad("qwen") THEN Record(s, FALSE, gpu)
     ELSE \/ "qwen" \notin gpu /\ FALSE \in Outcomes /\ Record(s, FALSE, gpu)
          \/ \E ok \in Outcomes : Record(s, ok, gpu \cup {"qwen"})
  /\ UNCHANGED vars

\* run_gemma_position_scenario, up to a load of its own: what load_gemma_it_target does.
RefuseGemma(s) ==
  Running(s) /\ s \in Loaders /\ ~MayLoad("gemma") /\ Record(s, FALSE, gpu) /\ UNCHANGED vars
LoadGemma(s) ==
  /\ Running(s) /\ s \in Loaders /\ MayLoad("gemma") /\ "gemma" \notin gpu
  /\ \/ outcome[s] = "none" /\ Enter(s)
     \/ Save(s) \/ Install(s) \/ Ask(s) \/ ReturnFromSaeLens(s) \/ Restore(s)
  /\ UNCHANGED <<frozen, at, results, gpu, packet>>

\* Mutant of RunGemma: nothing guards a load that raises.
RunGemmaUnguarded(s) ==
  /\ Running(s) /\ s \in Loaders /\ MayLoad("gemma") /\ step[s] = "out"
  /\ outcome[s] = "loaded" \/ "gemma" \in gpu
  /\ \E ok \in Outcomes : Record(s, ok, gpu \cup {"gemma"})
  /\ UNCHANGED vars

\* The load raised; or the model is there, and send_message answers or not.
RunGemma(s) ==
  /\ Running(s) /\ s \in Loaders /\ MayLoad("gemma") /\ step[s] = "out"
  /\ \/ outcome[s] = "raised" /\ Record(s, FALSE, gpu)
     \/ /\ outcome[s] = "loaded" \/ "gemma" \in gpu
        /\ \E ok \in Outcomes : Record(s, ok, gpu \cup {"gemma"})
  /\ UNCHANGED vars

\* Mutant of Boot: a boot that fails is not a scenario.
BootUnrecorded ==
  /\ Running("app_smoke_boot")
  /\ \/ at' = at + 1
     \/ FALSE \in Outcomes /\ at' = Len(Script) + 1
  /\ UNCHANGED <<vars, frozen, results, gpu, packet>>

\* Mutant of Boot: a boot that fails leaves out one scenario too many.
BootOverrun ==
  /\ Running("app_smoke_boot")
  /\ \/ at' = at + 1 /\ UNCHANGED results
     \/ /\ FALSE \in Outcomes /\ at' = Len(Script) + 2
        /\ results' = Append(results, [scenario |-> "app_smoke_boot", passed |-> FALSE])
  /\ UNCHANGED <<vars, frozen, gpu, packet>>

\* run_application_smoke: build_demo and launch, or a failed result and no more.
Boot ==
  /\ Running("app_smoke_boot")
  /\ \/ at' = at + 1 /\ UNCHANGED results
     \/ /\ FALSE \in Outcomes /\ at' = Len(Script) + 1
        /\ results' = Append(results, [scenario |-> "app_smoke_boot", passed |-> FALSE])
  /\ UNCHANGED <<vars, frozen, gpu, packet>>

\* _one_bounded_request_via_app_adapter: the application's own backend loads the model
\* again, with no look at acceptance.
RunBoundedRequest ==
  LET s == "app_smoke_bounded_request"
  IN  /\ Running(s)
      /\ \/ FALSE \in Outcomes /\ Record(s, FALSE, gpu)
         \/ \E ok \in Outcomes : Record(s, ok, gpu \cup {"app"})
      /\ UNCHANGED vars

\* _confirm_release_still_refuses: both gates must raise ReleaseGateError.
RunReleaseRefuses ==
  LET s == "app_smoke_release_still_refuses"
  IN  Running(s) /\ Record(s, \A p \in Pairing : refuses[p], gpu) /\ UNCHANGED vars

\* Nothing guards what lies between the scenarios: the commits of the provenance
\* manifest, the constructors of each phase's backends, _release_gpu_memory at the end
\* of a phase (torch.cuda.empty_cache), demo.close() in the `finally`, the write.
Unguarded == {1, Len(Defensive) + 1, Len(Defensive \o Qwen) + 1, Len(Defensive \o Qwen \o Gemma) + 1,
              Len(Script) + 1}

\* The scenario has started on a load of its own.
Begun(s) == s \in Loaders /\ (step[s] # "out" \/ outcome[s] # "none")

\* One of those raises: the process is over, with what it has recorded.
Crash ==
  /\ packet = "none" /\ at \in Unguarded
  /\ at \in DOMAIN Script => ~Begun(Script[at])
  /\ packet' = "crashed" /\ gpu' = {}
  /\ UNCHANGED <<vars, frozen, at, results>>

\* Mutant of Passed: a running flag.
PassedLast(rs) == rs[Len(rs)].passed

\* SmokePacket.passed, over the complete list
Passed(rs) == \A i \in DOMAIN rs : rs[i].passed

Aggregate ==
  /\ packet = "none" /\ at = Len(Script) + 1
  /\ packet' = IF Passed(results) THEN "passed" ELSE "failed"
  /\ gpu' = {}
  /\ UNCHANGED <<vars, frozen, at, results>>

NextPacket ==
  \/ RunWeightless
  \/ \E s \in Scenarios : RunQwen(s) \/ RefuseGemma(s) \/ LoadGemma(s) \/ RunGemma(s)
  \/ Boot \/ RunBoundedRequest \/ RunReleaseRefuses \/ Crash \/ Aggregate

\* One process runs it all; sae_lens and the local server answer.
PacketSpec == InitPacket /\ [][NextPacket]_packetVars /\ WF_packetVars(NextPacket)

-------------------------------------------------------------------------------
PacketTypeOK ==
  /\ TypeOK
  /\ accepted \in [Pairing -> BOOLEAN] /\ refuses \in [Pairing -> BOOLEAN]
  /\ at \in 1..(Len(Script) + 1) /\ packet \in {"none", "passed", "failed", "crashed"}
  /\ results \in Seq([scenario : Scenarios, passed : BOOLEAN])
  /\ gpu \subseteq {"qwen", "gemma", "app"}

\* "A later successful scenario can never mask an earlier failure": a packet that passed
\* has every scenario once, in order, but the boot; both pairings were accepted at the
\* layer that was run, and the release gate of both refused.
PassedIsComplete ==
  packet = "passed" =>
    /\ [i \in DOMAIN results |-> results[i].scenario] =
         Defensive \o Qwen \o Gemma \o BeforePage \o OnPage
    /\ \A p \in Pairing : accepted[p] /\ refuses[p]

\* "Release GPU memory before Gemma": never are two models held, and none while Gemma's
\* is loaded, whichever scenario failed meanwhile.
OneModelAtATime ==
  /\ Cardinality(gpu) <= 1
  /\ (\E l \in Loaders : step[l] # "out") => gpu = {}

\* "Every scenario is attempted and recorded, regardless of what happened before it":
\* a packet that is written, passed or failed, leaves no scenario out, unless the page
\* would not boot, and then the boot's failure stands for the three behind it.
WrittenIsComplete ==
  packet \in {"passed", "failed"} =>
    [i \in DOMAIN results |-> results[i].scenario] \in
       {Defensive \o Qwen \o Gemma \o BeforePage \o OnPage,
        Defensive \o Qwen \o Gemma \o BeforePage \o <<"app_smoke_boot">>}

\* No scenario that fails and no load that breaks keeps the process from its end: the
\* packet is written, unless a step outside of every guard raised.
PacketEnds == <>(packet # "none")

===============================================================================
