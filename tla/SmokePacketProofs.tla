--------------------------- MODULE SmokePacketProofs ---------------------------
(***************************************************************************)
(* SmokePacket, for any snapshot, list of requests, acceptances, gates and *)
(* number of failures: the loads in a packet keep what GemmaLoader         *)
(* promises of loads, and the packet holds one model at a time.            *)
(***************************************************************************)
EXTENDS SmokePacket, GemmaLoaderProofs, FiniteSetTheorems

LEMMA ScriptIs ==
  /\ Len(Script) = 14 /\ DOMAIN Script = 1..14
  /\ Script[6] = "qwen_all" /\ Script[7] = "qwen_generated_only"
  /\ Script[8] = "gemma_all" /\ Script[9] = "gemma_generated_only"
  /\ Script[11] = "app_smoke_boot" /\ Script[13] = "app_smoke_bounded_request"
  /\ Script[14] = "app_smoke_release_still_refuses"
  BY DEF Script, Defensive, Qwen, Gemma, Application, BeforePage, OnPage

LEMMA WeightlessAt ==
  ASSUME NEW i \in 1..14, Script[i] \in Weightless
  PROVE  i \in {1, 2, 3, 4, 5, 10, 12}
  BY DEF Script, Defensive, Qwen, Gemma, Application, BeforePage, OnPage, Weightless

LEMMA LoadersAre == Loaders = {"gemma_all", "gemma_generated_only"}
  BY PacketConstants DEF Gemma

LEMMA ScenarioAt ==
  ASSUME NEW i \in 1..14, NEW s, Script[i] = s
  PROVE  /\ s \in Scenarios
         /\ s = "qwen_all" => i = 6
         /\ s = "qwen_generated_only" => i = 7
         /\ s = "gemma_all" => i = 8
         /\ s = "gemma_generated_only" => i = 9
         /\ s = "app_smoke_boot" => i = 11
         /\ s = "app_smoke_bounded_request" => i = 13
         /\ s = "app_smoke_release_still_refuses" => i = 14
  BY DEF Scenarios, Script, Defensive, Qwen, Gemma, Application, BeforePage, OnPage

\* Every step of a packet is a step of a load or leaves the loader alone.
LEMMA PacketLoads == PacketSpec => Spec
<1>1. InitPacket => Init
  BY DEF InitPacket
<1>2. [NextPacket]_packetVars => [Next]_vars
  <2>1. ASSUME NEW s \in Scenarios, LoadGemma(s)
        PROVE  Next
    BY <2>1 DEF LoadGemma, Running, Next
  <2>2. RunWeightless => UNCHANGED vars
    BY DEF RunWeightless
  <2>3. ASSUME NEW s \in Scenarios, RunQwen(s) \/ RefuseGemma(s) \/ RunGemma(s)
        PROVE  UNCHANGED vars
    BY <2>3 DEF RunQwen, RefuseGemma, RunGemma
  <2>4. Boot \/ RunBoundedRequest \/ RunReleaseRefuses \/ Crash \/ Aggregate => UNCHANGED vars
    BY DEF Boot, RunBoundedRequest, RunReleaseRefuses, Crash, Aggregate
  <2>. QED  BY <2>1, <2>2, <2>3, <2>4 DEF NextPacket, packetVars
<1>. QED  BY <1>1, <1>2, PTL DEF PacketSpec, Spec

\* "Caller MUST restore": between the loads of a packet, whatever failed in them, the
\* process has the genuine hf_hub_download.
THEOREM PacketRestores ==
  ASSUME ~Overlap
  PROVE  PacketSpec => []RestoredBetweenLoads /\ []ProvenanceIsTrue /\ []ValidatedFilesAreItsOwn
  BY PacketLoads, SerialLoadsRestore, SerialProvenanceIsTrue, SerialFilesAreItsOwn, PTL

-------------------------------------------------------------------------------
\* What is in memory when scenario i begins: the model its phase has loaded, if any.
Held(i) == IF i = 7 THEN {"qwen"} ELSE IF i = 9 THEN {"gemma"} ELSE IF i = 14 THEN {"app"} ELSE {}

\* Where a packet is: only the scenario that runs can be inside of a load, and only
\* while nothing is held.
PhaseInv ==
  /\ at \in 1..15 /\ gpu \subseteq Held(at)
  /\ packet \in {"none", "passed", "failed", "crashed"}
  /\ packet \in {"passed", "failed"} => at = 15
  /\ accepted \in [Pairing -> BOOLEAN] /\ refuses \in [Pairing -> BOOLEAN]
  /\ results \in Seq([scenario : Scenarios, passed : BOOLEAN])
  /\ \A l \in Loaders : step[l] # "out" =>
       /\ at \in 1..14 /\ Script[at] = l /\ packet = "none"
       /\ gpu = {} /\ accepted["gemma"]

LEMMA RecordKeepsPhase ==
  ASSUME PhaseInv, at \in 1..14, packet = "none", NEW s, Script[at] = s, NEW ok \in BOOLEAN, NEW holding,
         holding \ Released(s) \subseteq Held(at + 1), UNCHANGED vars, Record(s, ok, holding),
         \A l \in Loaders : step[l] = "out"
  PROVE  PhaseInv'
<1>1. [scenario |-> s, passed |-> ok] \in [scenario : Scenarios, passed : BOOLEAN]
  BY ScenarioAt
<1>2. results' \in Seq([scenario : Scenarios, passed : BOOLEAN])
  BY <1>1 DEF PhaseInv, Record
<1>3. at' = at + 1 /\ at' \in 1..15 /\ gpu' \subseteq Held(at')
  BY DEF Record
<1>. QED  BY <1>2, <1>3 DEF PhaseInv, Record, frozen, vars

LEMMA PhaseStep ==
  ASSUME TypeOK, PhaseInv, NextPacket
  PROVE  PhaseInv'
<1>1. Outcomes \subseteq BOOLEAN
  BY DEF Outcomes
<1>2. ASSUME NEW s, Running(s)
      PROVE  at \in 1..14 /\ packet = "none" /\ Script[at] = s
  BY <1>2, ScriptIs DEF Running, PhaseInv
<1>3. ASSUME NEW s, Running(s), s \notin Loaders
      PROVE  \A l \in Loaders : step[l] = "out"
  BY <1>2, <1>3 DEF PhaseInv
<1>4. CASE RunWeightless
  <2>1. PICK s \in Weightless, ok \in Outcomes : Running(s) /\ Record(s, ok, gpu) /\ UNCHANGED vars
    BY <1>4 DEF RunWeightless
  <2>2. at \in {1, 2, 3, 4, 5, 10, 12} /\ Script[at] = s
    BY <1>2, <2>1, WeightlessAt
  <2>3. s \notin Loaders
    BY <2>2, ScenarioAt, LoadersAre
  <2>4. gpu = {}
    BY <2>2 DEF PhaseInv, Held
  <2>. QED  BY <1>1, <1>2, <1>3, <2>1, <2>3, <2>4, RecordKeepsPhase
<1>5. ASSUME NEW s \in Scenarios, RunQwen(s)
      PROVE  PhaseInv'
  <2>1. /\ Running(s) /\ s \in {"qwen_all", "qwen_generated_only"} /\ UNCHANGED vars
        /\ \E ok \in BOOLEAN : Record(s, ok, gpu) \/ Record(s, ok, gpu \cup {"qwen"})
    BY <1>1, <1>5 DEF RunQwen
  <2>2. s \notin Loaders /\ (s = "qwen_all" => at = 6) /\ (s = "qwen_generated_only" => at = 7)
    BY <1>2, <2>1, ScenarioAt, LoadersAre
  <2>3. (gpu \cup {"qwen"}) \ Released(s) \subseteq Held(at + 1) /\ gpu \ Released(s) \subseteq Held(at + 1)
    BY <2>1, <2>2 DEF PhaseInv, Held, Released
  <2>. QED  BY <1>2, <1>3, <2>1, <2>2, <2>3, RecordKeepsPhase
<1>6. ASSUME NEW s \in Scenarios, RefuseGemma(s) \/ RunGemma(s)
      PROVE  PhaseInv'
  <2>1. /\ Running(s) /\ s \in Loaders /\ UNCHANGED vars
        /\ step[s] = "out" \/ ~accepted["gemma"]
        /\ \E ok \in BOOLEAN : Record(s, ok, gpu) \/ Record(s, ok, gpu \cup {"gemma"})
    BY <1>1, <1>6 DEF RefuseGemma, RunGemma, MayLoad
  <2>2. (s = "gemma_all" => at = 8) /\ (s = "gemma_generated_only" => at = 9)
    BY <1>2, <2>1, ScenarioAt
  <2>3. \A l \in Loaders : step[l] = "out"
    BY <1>2, <2>1 DEF PhaseInv
  <2>4. (gpu \cup {"gemma"}) \ Released(s) \subseteq Held(at + 1) /\ gpu \ Released(s) \subseteq Held(at + 1)
    BY <2>1, <2>2, LoadersAre DEF PhaseInv, Held, Released
  <2>. QED  BY <1>2, <2>1, <2>3, <2>4, RecordKeepsPhase
<1>7. ASSUME NEW s \in Scenarios, LoadGemma(s)
      PROVE  PhaseInv'
  <2>1. /\ Running(s) /\ s \in Loaders /\ accepted["gemma"] /\ "gemma" \notin gpu
        /\ UNCHANGED <<frozen, at, results, gpu, packet>>
    BY <1>7 DEF LoadGemma, MayLoad
  <2>2. at \in {8, 9} /\ gpu = {}
    <3>1. at \in {8, 9}
      BY <1>2, <2>1, ScenarioAt, LoadersAre
    <3>2. gpu \subseteq {"gemma"}
      BY <3>1 DEF PhaseInv, Held
    <3>. QED  BY <2>1, <3>1, <3>2
  <2>3. \A l \in Loaders : l # s => step'[l] = step[l]
    BY <1>7 DEF LoadGemma, Enter, Save, Install, Ask, ReturnFromSaeLens, Restore, Goto, Leave, TypeOK
  <2>4. \A l \in Loaders : step'[l] # "out" => l = s \/ step[l] # "out"
    BY <2>3
  <2>. QED  BY <1>2, <2>1, <2>2, <2>4 DEF PhaseInv, frozen
<1>8. CASE Boot
  <2>1. /\ Running("app_smoke_boot") /\ UNCHANGED <<vars, frozen, gpu, packet>>
        /\ \/ at' = at + 1 /\ UNCHANGED results
           \/ /\ at' = 15
              /\ results' = Append(results, [scenario |-> "app_smoke_boot", passed |-> FALSE])
    <3>1. Len(Script) + 1 = 15
      BY ScriptIs
    <3>. QED  BY <1>8, <3>1 DEF Boot
  <2>2. at = 11 /\ packet = "none" /\ "app_smoke_boot" \in Scenarios
    BY <1>2, <2>1, ScenarioAt
  <2>3. \A l \in Loaders : step[l] = "out"
    BY <1>3, <2>1, LoadersAre
  <2>4. results' \in Seq([scenario : Scenarios, passed : BOOLEAN])
    <3>1. [scenario |-> "app_smoke_boot", passed |-> FALSE] \in [scenario : Scenarios, passed : BOOLEAN]
      BY <2>2
    <3>2. results \in Seq([scenario : Scenarios, passed : BOOLEAN])
      BY DEF PhaseInv
    <3>3. Append(results, [scenario |-> "app_smoke_boot", passed |-> FALSE])
            \in Seq([scenario : Scenarios, passed : BOOLEAN])
      BY <3>1, <3>2
    <3>. QED  BY <2>1, <3>2, <3>3
  <2>. QED  BY <2>1, <2>2, <2>3, <2>4 DEF PhaseInv, Held, frozen, vars
<1>9. CASE RunBoundedRequest
  <2>. DEFINE s == "app_smoke_bounded_request"
  <2>1. /\ Running(s) /\ UNCHANGED vars
        /\ \E ok \in BOOLEAN : Record(s, ok, gpu) \/ Record(s, ok, gpu \cup {"app"})
    BY <1>1, <1>9 DEF RunBoundedRequest
  <2>2. at = 13 /\ s \notin Loaders
    BY <1>2, <2>1, ScenarioAt, LoadersAre
  <2>3. gpu \cup {"app"} \subseteq Held(at + 1) /\ Released(s) = {}
    BY <2>2 DEF PhaseInv, Held, Released
  <2>. HIDE DEF s
  <2>. QED  BY <1>2, <1>3, <2>1, <2>2, <2>3, RecordKeepsPhase
<1>10. CASE RunReleaseRefuses
  <2>. DEFINE s == "app_smoke_release_still_refuses"
              ok == \A p \in Pairing : refuses[p]
  <2>1. Running(s) /\ UNCHANGED vars /\ Record(s, ok, gpu)
    BY <1>10 DEF RunReleaseRefuses
  <2>2. at = 14 /\ s \notin Loaders /\ ok \in BOOLEAN
    BY <1>2, <2>1, ScenarioAt, LoadersAre
  <2>3. gpu \ Released(s) \subseteq Held(at + 1)
    BY <2>2 DEF PhaseInv, Held, Released
  <2>. HIDE DEF s, ok
  <2>. QED  BY <1>2, <1>3, <2>1, <2>2, <2>3, RecordKeepsPhase
<1>11. CASE Aggregate
  BY <1>11, ScriptIs DEF Aggregate, PhaseInv, frozen, vars, Held
<1>12. CASE Crash
  <2>1. /\ packet = "none" /\ packet' = "crashed" /\ gpu' = {}
        /\ at \in DOMAIN Script => ~Begun(Script[at])
        /\ UNCHANGED <<vars, frozen, at, results>>
    BY <1>12 DEF Crash
  <2>2. \A l \in Loaders : step[l] = "out"
    BY <2>1, ScriptIs DEF PhaseInv, Begun
  <2>. QED  BY <2>1, <2>2 DEF PhaseInv, frozen, vars
<1>. QED  BY <1>4, <1>5, <1>6, <1>7, <1>8, <1>9, <1>10, <1>11, <1>12 DEF NextPacket

\* Where a packet is and what it holds, for any loads and failures.
THEOREM PacketPhases ==
  ASSUME ~Overlap
  PROVE  PacketSpec => []PhaseInv /\ []TypeOK
<1>1. InitPacket => PhaseInv
  BY DEF InitPacket, Init, PhaseInv, Held
<1>2. ASSUME TypeOK, PhaseInv, [NextPacket]_packetVars
      PROVE  PhaseInv'
  <2>1. CASE UNCHANGED packetVars
    BY <1>2, <2>1 DEF packetVars, vars, PhaseInv, Pairing
  <2>. QED  BY <1>2, <2>1, PhaseStep
<1>3. LoaderInv => TypeOK
  BY DEF LoaderInv
<1>. QED  BY <1>1, <1>2, <1>3, PacketLoads, LoaderInvariant, PTL DEF PacketSpec

\* The packet stops after its last scenario, and its results are of scenarios it has.
THEOREM PacketTypeCorrect ==
  ASSUME ~Overlap
  PROVE  PacketSpec => []PacketTypeOK
<1>1. TypeOK /\ PhaseInv => PacketTypeOK
  BY ScriptIs DEF PhaseInv, PacketTypeOK, Held
<1>. QED  BY <1>1, PacketPhases, PTL

\* "Release GPU memory before Gemma": whichever scenarios failed, a packet never holds
\* two models, and none while the Gemma model is being loaded.
THEOREM PacketHoldsOneModel ==
  ASSUME ~Overlap
  PROVE  PacketSpec => []OneModelAtATime
<1>1. PhaseInv => OneModelAtATime
  <2>1. ASSUME PhaseInv
        PROVE  gpu = {} \/ gpu = {"qwen"} \/ gpu = {"gemma"} \/ gpu = {"app"}
    <3>1. Held(at) = {} \/ Held(at) = {"qwen"} \/ Held(at) = {"gemma"} \/ Held(at) = {"app"}
      BY DEF Held
    <3>2. \A x : gpu \subseteq {x} => gpu = {} \/ gpu = {x}
      OBVIOUS
    <3>3. gpu \subseteq {} => gpu = {}
      OBVIOUS
    <3>. QED  BY <2>1, <3>1, <3>2, <3>3 DEF PhaseInv
  <2>2. ASSUME PhaseInv
        PROVE  Cardinality(gpu) <= 1
    <3>1. Cardinality({}) = 0 /\ \A x : Cardinality({x}) = 1
      BY FS_EmptySet, FS_Singleton
    <3>2. Cardinality(gpu) = 0 \/ Cardinality(gpu) = 1
      BY <2>1, <2>2, <3>1
    <3>. QED  BY <3>2
  <2>. QED  BY <2>2 DEF PhaseInv, OneModelAtATime
<1>. QED  BY <1>1, PacketPhases, PTL

-------------------------------------------------------------------------------
(* What a packet has to show when it is over. *)

\* Before scenario a begins every scenario before it is recorded, but the boot.
Expected(a) == IF a < 12 THEN a - 1 ELSE a - 2
Place(i) == IF i < 11 THEN i ELSE i + 1

\* A scenario that passes has what it asks for.
Entitled(s) ==
  /\ s = "qwen_all" => accepted["qwen"]
  /\ s = "gemma_all" => accepted["gemma"]
  /\ s = "app_smoke_release_still_refuses" => \A p \in Pairing : refuses[p]
Earned(i) == results[i].passed => Entitled(results[i].scenario)

\* Either nothing is missing from the results, or the boot has failed and is in them.
ProgressInv ==
  /\ \/ Len(results) = Expected(at) /\ \A i \in 1..Len(results) : results[i].scenario = Script[Place(i)]
     \/ /\ at = 15 /\ Len(results) = 11 /\ ~results[11].passed
        /\ \A i \in 1..11 : results[i].scenario = Script[i]
  /\ \A i \in 1..Len(results) : Earned(i)
  /\ packet = "passed" => Passed(results)


LEMMA RecordKeepsProgress ==
  ASSUME PhaseInv, ProgressInv, at \in 1..14, at # 11, packet = "none", NEW s, Script[at] = s,
         NEW ok \in BOOLEAN, NEW holding, Record(s, ok, holding),
         ok => Entitled(s)
  PROVE  ProgressInv'
<1>. DEFINE r == [scenario |-> s, passed |-> ok]
<1>1. results \in Seq([scenario : Scenarios, passed : BOOLEAN]) /\ r \in [scenario : Scenarios, passed : BOOLEAN]
  BY ScenarioAt DEF PhaseInv
<1>2. results' = Append(results, r) /\ at' = at + 1 /\ packet' = "none"
      /\ accepted' = accepted /\ refuses' = refuses
  BY DEF Record, frozen
<1>3. /\ Len(results) \in Nat /\ Len(results') = Len(results) + 1
      /\ \A i \in 1..Len(results) : results'[i] = results[i]
      /\ results'[Len(results) + 1] = r
  BY <1>1, <1>2
<1>4. Len(results) = Expected(at) /\ \A i \in 1..Len(results) : results[i].scenario = Script[Place(i)]
  <2>1. at # 15
    OBVIOUS
  <2>. QED  BY <2>1, Zenon DEF ProgressInv
<1>5. Expected(at') = Expected(at) + 1 /\ Place(Expected(at) + 1) = at
  BY <1>2 DEF Expected, Place
<1>6. \A i \in 1..Len(results') : i \in 1..Len(results) \/ i = Len(results) + 1
  BY <1>3
<1>7. Len(results') = Expected(at') /\ \A i \in 1..Len(results') : results'[i].scenario = Script[Place(i)]
  <2>1. r.scenario = Script[Place(Len(results) + 1)]
    BY <1>4, <1>5
  <2>. HIDE DEF r
  <2>. QED  BY <1>3, <1>4, <1>5, <1>6, <2>1
<1>8. ASSUME NEW i \in 1..Len(results')
      PROVE  Earned(i)'
  <2>1. CASE i \in 1..Len(results)
    <3>1. results'[i] = results[i] /\ Earned(i)
      BY <1>3, <2>1 DEF ProgressInv
    <3>. QED  BY <1>2, <3>1 DEF Earned, Entitled
  <2>2. CASE i = Len(results) + 1
    <3>1. results'[i].passed = ok /\ results'[i].scenario = s
      BY <1>3, <2>2
    <3>. QED  BY <1>2, <3>1 DEF Earned, Entitled
  <2>. QED  BY <1>6, <2>1, <2>2
<1>. QED  BY <1>2, <1>7, <1>8 DEF ProgressInv

LEMMA ProgressKept ==
  ASSUME ProgressInv, UNCHANGED <<accepted, refuses, at, results, packet>>
  PROVE  ProgressInv'
<1>1. \A i \in 1..Len(results') : Earned(i)'
  <2>1. ASSUME NEW i \in 1..Len(results')
        PROVE  Earned(i)'
    BY DEF ProgressInv, Earned, Entitled
  <2>. QED  BY <2>1
<1>. QED  BY <1>1 DEF ProgressInv

LEMMA ProgressStep ==
  ASSUME PhaseInv, ProgressInv, NextPacket
  PROVE  ProgressInv'
<1>1. Outcomes \subseteq BOOLEAN
  BY DEF Outcomes
<1>2. ASSUME NEW s, Running(s)
      PROVE  at \in 1..14 /\ packet = "none" /\ Script[at] = s
  BY <1>2, ScriptIs DEF Running, PhaseInv
<1>3. ASSUME NEW s, Running(s), s # "app_smoke_boot"
      PROVE  at # 11
  BY <1>2, <1>3, ScriptIs
<1>4. CASE RunWeightless
  <2>1. PICK s \in Weightless, ok \in Outcomes : Running(s) /\ Record(s, ok, gpu)
    BY <1>4 DEF RunWeightless
  <2>2. at \in {1, 2, 3, 4, 5, 10, 12} /\ Script[at] = s
    BY <1>2, <2>1, WeightlessAt
  <2>3. Entitled(s)
    BY <2>2, ScenarioAt DEF Entitled
  <2>. QED  BY <1>1, <1>2, <2>1, <2>2, <2>3, RecordKeepsProgress
<1>5. ASSUME NEW s \in Scenarios, RunQwen(s)
      PROVE  ProgressInv'
  <2>1. /\ Running(s) /\ s \in {"qwen_all", "qwen_generated_only"}
        /\ \/ Record(s, FALSE, gpu)
           \/ \E ok \in BOOLEAN : accepted["qwen"] /\ Record(s, ok, gpu \cup {"qwen"})
    BY <1>1, <1>5 DEF RunQwen, MayLoad
  <2>2. accepted["qwen"] => Entitled(s)
    BY <2>1 DEF Entitled
  <2>3. at \in 1..14 /\ at # 11 /\ packet = "none" /\ Script[at] = s
    BY <1>2, <1>3, <2>1
  <2>4. CASE Record(s, FALSE, gpu)
    BY <2>3, <2>4, RecordKeepsProgress
  <2>5. ASSUME NEW ok \in BOOLEAN, accepted["qwen"], Record(s, ok, gpu \cup {"qwen"})
        PROVE  ProgressInv'
    BY <2>2, <2>3, <2>5, RecordKeepsProgress
  <2>. QED  BY <2>1, <2>4, <2>5
<1>6. ASSUME NEW s \in Scenarios, RefuseGemma(s) \/ RunGemma(s)
      PROVE  ProgressInv'
  <2>1. /\ Running(s) /\ s \in {"gemma_all", "gemma_generated_only"}
        /\ \/ Record(s, FALSE, gpu)
           \/ \E ok \in BOOLEAN : accepted["gemma"] /\ Record(s, ok, gpu \cup {"gemma"})
    BY <1>1, <1>6, LoadersAre DEF RefuseGemma, RunGemma, MayLoad
  <2>2. accepted["gemma"] => Entitled(s)
    BY <2>1 DEF Entitled
  <2>3. at \in 1..14 /\ at # 11 /\ packet = "none" /\ Script[at] = s
    BY <1>2, <1>3, <2>1
  <2>4. CASE Record(s, FALSE, gpu)
    BY <2>3, <2>4, RecordKeepsProgress
  <2>5. ASSUME NEW ok \in BOOLEAN, accepted["gemma"], Record(s, ok, gpu \cup {"gemma"})
        PROVE  ProgressInv'
    BY <2>2, <2>3, <2>5, RecordKeepsProgress
  <2>. QED  BY <2>1, <2>4, <2>5
<1>7. ASSUME NEW s \in Scenarios, LoadGemma(s)
      PROVE  ProgressInv'
  BY <1>7, ProgressKept DEF LoadGemma, frozen
<1>8. CASE Boot
  <2>. DEFINE r == [scenario |-> "app_smoke_boot", passed |-> FALSE]
  <2>1. /\ Running("app_smoke_boot") /\ UNCHANGED <<accepted, refuses, packet>>
        /\ \/ at' = at + 1 /\ UNCHANGED results
           \/ at' = 15 /\ results' = Append(results, r)
    <3>1. Len(Script) + 1 = 15
      BY ScriptIs
    <3>. QED  BY <1>8, <3>1 DEF Boot, frozen
  <2>2. at = 11 /\ packet = "none" /\ r \in [scenario : Scenarios, passed : BOOLEAN]
    BY <1>2, <2>1, ScenarioAt
  <2>3. CASE at' = at + 1 /\ UNCHANGED results
    <3>1. Expected(at') = Expected(at) /\ at # 15
      BY <2>2, <2>3 DEF Expected
    <3>2. \A i \in 1..Len(results') : Earned(i)'
      <4>1. ASSUME NEW i \in 1..Len(results')
            PROVE  Earned(i)'
        BY <2>1, <2>3 DEF ProgressInv, Earned, Entitled
      <4>. QED  BY <4>1
    <3>. QED  BY <2>1, <2>2, <2>3, <3>1, <3>2 DEF ProgressInv
  <2>4. CASE at' = 15 /\ results' = Append(results, r)
    <3>1. results \in Seq([scenario : Scenarios, passed : BOOLEAN])
      BY DEF PhaseInv
    <3>2. /\ Len(results) \in Nat /\ Len(results') = Len(results) + 1
          /\ DOMAIN results' = 1..(Len(results) + 1)
          /\ \A i \in 1..Len(results) : results'[i] = results[i]
          /\ results'[Len(results) + 1] = r
      BY <2>2, <2>4, <3>1
    <3>3. ~results'[Len(results) + 1].passed /\ Len(results) + 1 \in DOMAIN results'
      BY <3>2
    <3>4. Len(results) = 10 /\ \A i \in 1..10 : results[i].scenario = Script[i]
      <4>1. Expected(at) = 10 /\ at # 15 /\ \A i \in 1..10 : Place(i) = i
        BY <2>2 DEF Expected, Place
      <4>2. Len(results) = Expected(at) /\ \A i \in 1..Len(results) : results[i].scenario = Script[Place(i)]
        BY <4>1, Zenon DEF ProgressInv
      <4>. QED  BY <4>1, <4>2
    <3>6. \A i \in 1..11 : results'[i].scenario = Script[i]
      <4>1. ASSUME NEW i \in 1..11
            PROVE  results'[i].scenario = Script[i]
        <5>1. CASE i = 11
          BY <3>2, <3>4, <5>1, ScriptIs
        <5>2. CASE i # 11
          <6>1. i \in 1..10
            BY <5>2
          <6>. QED  BY <3>2, <3>4, <6>1
        <5>. QED  BY <5>1, <5>2
      <4>. QED  BY <4>1
    <3>5. \A i \in 1..Len(results') : Earned(i)'
      <4>1. ASSUME NEW i \in 1..Len(results')
            PROVE  Earned(i)'
        <5>1. CASE i \in 1..Len(results)
          <6>1. results'[i] = results[i] /\ Earned(i)
            BY <3>2, <5>1 DEF ProgressInv
          <6>. QED  BY <2>1, <6>1 DEF Earned, Entitled
        <5>2. CASE i = Len(results) + 1
          BY <3>3, <5>2 DEF Earned
        <5>. QED  BY <3>2, <5>1, <5>2
      <4>. QED  BY <4>1
    <3>. QED  BY <2>1, <2>2, <2>4, <3>2, <3>3, <3>4, <3>5, <3>6 DEF ProgressInv
  <2>. QED  BY <2>1, <2>3, <2>4
<1>9. CASE RunBoundedRequest
  <2>. DEFINE s == "app_smoke_bounded_request"
  <2>1. Running(s) /\ \E ok \in BOOLEAN : Record(s, ok, gpu) \/ Record(s, ok, gpu \cup {"app"})
    BY <1>1, <1>9 DEF RunBoundedRequest
  <2>2. Entitled(s) /\ s # "app_smoke_boot"
    BY DEF Entitled
  <2>. HIDE DEF s
  <2>. QED  BY <1>2, <1>3, <2>1, <2>2, RecordKeepsProgress
<1>10. CASE RunReleaseRefuses
  <2>. DEFINE s == "app_smoke_release_still_refuses"
              ok == \A p \in Pairing : refuses[p]
  <2>1. Running(s) /\ Record(s, ok, gpu)
    BY <1>10 DEF RunReleaseRefuses
  <2>2. (ok => Entitled(s)) /\ ok \in BOOLEAN /\ s # "app_smoke_boot"
    BY DEF Entitled
  <2>. HIDE DEF s, ok
  <2>. QED  BY <1>2, <1>3, <2>1, <2>2, RecordKeepsProgress
<1>11. CASE Aggregate
  <2>1. /\ UNCHANGED <<accepted, refuses, at, results>>
        /\ packet' = IF Passed(results) THEN "passed" ELSE "failed"
    BY <1>11 DEF Aggregate, frozen
  <2>2. \A i \in 1..Len(results') : Earned(i)'
    <3>1. ASSUME NEW i \in 1..Len(results')
          PROVE  Earned(i)'
      BY <2>1 DEF ProgressInv, Earned, Entitled
    <3>. QED  BY <3>1
  <2>. QED  BY <2>1, <2>2 DEF ProgressInv
<1>12. CASE Crash
  <2>1. packet' = "crashed" /\ UNCHANGED <<accepted, refuses, at, results>>
    BY <1>12 DEF Crash, frozen
  <2>2. \A i \in 1..Len(results') : Earned(i)'
    <3>1. ASSUME NEW i \in 1..Len(results')
          PROVE  Earned(i)'
      BY <2>1 DEF ProgressInv, Earned, Entitled
    <3>. QED  BY <3>1
  <2>. QED  BY <2>1, <2>2 DEF ProgressInv
<1>. QED  BY <1>4, <1>5, <1>6, <1>7, <1>8, <1>9, <1>10, <1>11, <1>12 DEF NextPacket

LEMMA ScriptNames ==
  /\ Script[1] = "smoke_entries_hidden" /\ Script[2] = "identity_cannot_be_swapped"
  /\ Script[3] = "qwen_multi_sae_prohibited" /\ Script[4] = "gemma_cross_layer_capability_limit"
  /\ Script[5] = "qwen_backend_layer_mismatch_refused" /\ Script[6] = "qwen_all"
  /\ Script[7] = "qwen_generated_only" /\ Script[8] = "gemma_all"
  /\ Script[9] = "gemma_generated_only" /\ Script[10] = "app_smoke_entries_unreachable_via_ui"
  /\ Script[11] = "app_smoke_boot" /\ Script[12] = "app_smoke_http_200"
  /\ Script[13] = "app_smoke_bounded_request" /\ Script[14] = "app_smoke_release_still_refuses"
  BY DEF Script, Defensive, Qwen, Gemma, Application, BeforePage, OnPage

\* The thirteen scenarios of a packet that passed.
LEMMA CompleteIs ==
  LET all == Defensive \o Qwen \o Gemma \o BeforePage \o OnPage
  IN  all = [i \in 1..13 |-> all[i]] /\ \A i \in 1..13 : all[i] = Script[Place(i)]
<1>. DEFINE all == Defensive \o Qwen \o Gemma \o BeforePage \o OnPage
<1>1. all = [i \in 1..13 |-> all[i]]
  BY DEF Defensive, Qwen, Gemma, BeforePage, OnPage
<1>2. /\ all[1] = "smoke_entries_hidden" /\ all[2] = "identity_cannot_be_swapped"
      /\ all[3] = "qwen_multi_sae_prohibited" /\ all[4] = "gemma_cross_layer_capability_limit"
      /\ all[5] = "qwen_backend_layer_mismatch_refused" /\ all[6] = "qwen_all"
      /\ all[7] = "qwen_generated_only" /\ all[8] = "gemma_all"
      /\ all[9] = "gemma_generated_only" /\ all[10] = "app_smoke_entries_unreachable_via_ui"
      /\ all[11] = "app_smoke_http_200" /\ all[12] = "app_smoke_bounded_request"
      /\ all[13] = "app_smoke_release_still_refuses"
  BY DEF Defensive, Qwen, Gemma, BeforePage, OnPage
<1>. HIDE DEF all
<1>3. ASSUME NEW i \in 1..13
      PROVE  all[i] = Script[Place(i)]
  BY <1>2, ScriptNames DEF Place
<1>. QED  BY <1>1, <1>3 DEF all

\* The eleven of a packet whose page would not boot.
LEMMA UpToBootIs ==
  LET some == Defensive \o Qwen \o Gemma \o BeforePage \o <<"app_smoke_boot">>
  IN  some = [i \in 1..11 |-> some[i]] /\ \A i \in 1..11 : some[i] = Script[i]
<1>. DEFINE some == Defensive \o Qwen \o Gemma \o BeforePage \o <<"app_smoke_boot">>
<1>1. some = [i \in 1..11 |-> some[i]]
  BY DEF Defensive, Qwen, Gemma, BeforePage
<1>2. /\ some[1] = "smoke_entries_hidden" /\ some[2] = "identity_cannot_be_swapped"
      /\ some[3] = "qwen_multi_sae_prohibited" /\ some[4] = "gemma_cross_layer_capability_limit"
      /\ some[5] = "qwen_backend_layer_mismatch_refused" /\ some[6] = "qwen_all"
      /\ some[7] = "qwen_generated_only" /\ some[8] = "gemma_all"
      /\ some[9] = "gemma_generated_only" /\ some[10] = "app_smoke_entries_unreachable_via_ui"
      /\ some[11] = "app_smoke_boot"
  BY DEF Defensive, Qwen, Gemma, BeforePage
<1>. HIDE DEF some
<1>3. ASSUME NEW i \in 1..11
      PROVE  some[i] = Script[i]
  BY <1>2, ScriptNames
<1>. QED  BY <1>1, <1>3 DEF some

LEMMA Progress ==
  ASSUME ~Overlap
  PROVE  PacketSpec => []ProgressInv
<1>1. InitPacket => ProgressInv
  BY DEF InitPacket, ProgressInv, Expected
<1>2. PhaseInv /\ ProgressInv /\ [NextPacket]_packetVars => ProgressInv'
  BY ProgressStep, ProgressKept DEF packetVars
<1>. QED  BY <1>1, <1>2, PacketPhases, PTL DEF PacketSpec

\* A packet with nothing missing has the thirteen scenarios, in order.
LEMMA NothingMissing ==
  ASSUME PhaseInv, Len(results) = 13, \A i \in 1..13 : results[i].scenario = Script[Place(i)]
  PROVE  [i \in DOMAIN results |-> results[i].scenario] =
            Defensive \o Qwen \o Gemma \o BeforePage \o OnPage
<1>. DEFINE all == Defensive \o Qwen \o Gemma \o BeforePage \o OnPage
<1>1. DOMAIN results = 1..13
  BY DEF PhaseInv
<1>2. all = [i \in 1..13 |-> all[i]] /\ \A i \in 1..13 : all[i] = Script[Place(i)]
  BY CompleteIs
<1>. HIDE DEF all
<1>3. [i \in DOMAIN results |-> results[i].scenario] = all
  BY <1>1, <1>2
<1>. QED  BY <1>3 DEF all

\* "A later successful scenario can never mask an earlier failure": a packet that passed
\* recorded every scenario but the boot, once and in order, both pairings had been
\* accepted, and both release gates refused.
THEOREM PassedPacketsAreComplete ==
  ASSUME ~Overlap
  PROVE  PacketSpec => []PassedIsComplete
<1>1. PhaseInv /\ ProgressInv => PassedIsComplete
  <2>. SUFFICES ASSUME PhaseInv, ProgressInv, packet = "passed"
                PROVE  /\ [i \in DOMAIN results |-> results[i].scenario] =
                            Defensive \o Qwen \o Gemma \o BeforePage \o OnPage
                       /\ \A p \in Pairing : accepted[p] /\ refuses[p]
    BY DEF PassedIsComplete
  <2>1. at = 15 /\ Passed(results)
    BY DEF PhaseInv, ProgressInv
  <2>2. ~(Len(results) = 11 /\ ~results[11].passed)
    BY <2>1 DEF Passed, PhaseInv
  <2>3. Len(results) = 13 /\ \A i \in 1..Len(results) : results[i].scenario = Script[Place(i)]
    BY <2>1, <2>2 DEF ProgressInv, Expected
  <2>4. DOMAIN results = 1..13
    BY <2>3 DEF PhaseInv
  <2>5. \A i \in 1..13 : results[i].passed /\ Entitled(Script[Place(i)])
    BY <2>1, <2>3, <2>4 DEF Passed, ProgressInv, Earned
  <2>6. Entitled(Script[6]) /\ Entitled(Script[8]) /\ Entitled(Script[14])
    <3>1. 6 \in 1..13 /\ Place(6) = 6 /\ 8 \in 1..13 /\ Place(8) = 8 /\ 13 \in 1..13 /\ Place(13) = 14
      BY DEF Place
    <3>. QED  BY <2>5, <3>1
  <2>7. \A p \in Pairing : accepted[p] /\ refuses[p]
    BY <2>6, ScriptIs DEF Entitled, Pairing
  <2>. QED  BY <2>3, <2>7, NothingMissing
<1>. QED  BY <1>1, Progress, PacketPhases, PTL

\* "Every scenario is attempted and recorded, regardless of what happened before it": in
\* a packet that is written, whatever failed, nothing is missing but what a page that
\* would not boot leaves out.
THEOREM WrittenPacketsAreComplete ==
  ASSUME ~Overlap
  PROVE  PacketSpec => []WrittenIsComplete
<1>1. PhaseInv /\ ProgressInv => WrittenIsComplete
  <2>. SUFFICES ASSUME PhaseInv, ProgressInv, packet \in {"passed", "failed"}
                PROVE  [i \in DOMAIN results |-> results[i].scenario] \in
                         {Defensive \o Qwen \o Gemma \o BeforePage \o OnPage,
                          Defensive \o Qwen \o Gemma \o BeforePage \o <<"app_smoke_boot">>}
    BY DEF WrittenIsComplete
  <2>1. at = 15
    BY DEF PhaseInv
  <2>2. CASE Len(results) = 13 /\ \A i \in 1..13 : results[i].scenario = Script[Place(i)]
    BY <2>2, NothingMissing
  <2>3. CASE Len(results) = 11 /\ \A i \in 1..11 : results[i].scenario = Script[i]
    <3>. DEFINE some == Defensive \o Qwen \o Gemma \o BeforePage \o <<"app_smoke_boot">>
    <3>1. DOMAIN results = 1..11
      BY <2>3 DEF PhaseInv
    <3>2. some = [i \in 1..11 |-> some[i]] /\ \A i \in 1..11 : some[i] = Script[i]
      BY UpToBootIs
    <3>. HIDE DEF some
    <3>3. [i \in DOMAIN results |-> results[i].scenario] = some
      BY <2>3, <3>1, <3>2
    <3>. QED  BY <3>3 DEF some
  <2>4. Expected(at) = 13
    BY <2>1 DEF Expected
  <2>5. \/ Len(results) = 13 /\ \A i \in 1..13 : results[i].scenario = Script[Place(i)]
        \/ Len(results) = 11 /\ \A i \in 1..11 : results[i].scenario = Script[i]
    BY <2>4, Zenon DEF ProgressInv
  <2>. QED  BY <2>2, <2>3, <2>5
<1>. QED  BY <1>1, Progress, PacketPhases, PTL

===============================================================================
