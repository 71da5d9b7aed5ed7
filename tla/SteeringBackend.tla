---------------------------- MODULE SteeringBackend ----------------------------
(***************************************************************************)
(* core/qwen_backend.py and core/gemma_backend.py: one backend object,     *)
(* shared by the handlers of one tab, which Gradio runs in threads.  A     *)
(* handler's call asks the backend for one or two arms; an arm loads the   *)
(* model if no call has yet, checks the request against what was loaded,   *)
(* hooks the layer, runs forward passes and unhooks it.                    *)
(*                                                                         *)
(* A forward pass runs every hook registered on that layer, whoever        *)
(* registered it (extracted_runtime/hooks.py, diagnostics.py).  Tensors    *)
(* are abstracted to the positions of the pass a hook has changed.  The    *)
(* Qwen backend removes the handle of its own hook; the Gemma backend      *)
(* leaves a TransformerLens context, which removes the hooks of the level  *)
(* the model is at, whoever added them.                                    *)
(***************************************************************************)
EXTENDS Naturals, Sequences, FiniteSets

CONSTANTS
  Callers,          \* handlers that generate; each runs one call at a time
  Comparing,        \* those that ask for both arms (_on_compare)
  Pairings,         \* the backends the instance covers: "qwen", "gemma"
  Steerings,        \* Steerings[p]: resolved control states the handlers of p's tab may pass
  Baseline,         \* the request with apply_intervention=False
  QwenLayer,        \* the layer the Qwen backend is configured with
  GemmaLayer,       \* the layer of the ratified Gemma target
  Ended,            \* whose hook it is when its call is over
  PromptLength,     \* tokens of a rendered prompt
  MaxPasses,        \* bound: forward passes of one generate (max_new_tokens)
  MaxTrace,         \* bound: passes another call's hook has recorded when a call begins
  MaxLoads          \* bound: MaxLoads[p], models p's backend loads

\* A resolved control state: where it points, and the positions it clamps.
\* targets counts the targets of its single (sae_id, layer) group.
SteeringRecord ==
  [layer : Nat, targets : Nat \ {0}, positions : {"all", "generated_only"}]

ASSUME BackendConstants ==
  /\ IsFiniteSet(Callers) /\ Comparing \subseteq Callers /\ Ended \notin Callers
  /\ Pairings \subseteq {"qwen", "gemma"} /\ QwenLayer \in Nat /\ GemmaLayer \in Nat
  /\ \A p \in Pairings : Steerings[p] \subseteq SteeringRecord /\ Baseline \notin Steerings[p]
  /\ PromptLength \in Nat \ {0} /\ MaxPasses \in Nat \ {0}
  /\ MaxTrace \in Nat \ {0} /\ MaxLoads \in [Pairings -> Nat]

VARIABLES
  pairing,    \* which of the backends this one is
  loaded,     \* self._loaded: the number of the model it holds, 0 for None
  loads,      \* models loaded so far
  hooks,      \* hooks[m]: the hooks registered on model m's layer
  level,      \* level[m]: the model.hooks contexts open on m (context_level), 0 for Qwen
  phase,      \* where each caller's call is
  arms,       \* the arms it has still to run, the current one first
  model,      \* the model its current arm took from _ensure_loaded
  passes,     \* the forward passes of its current arm
  trace,      \* the InterventionTrace list of the hook of that arm
  answers,    \* the GenerationResults of its last call
  alone       \* FALSE if calls have overlapped since the backend was idle (history)

call == <<phase, arms, model, passes, answers>>
fixed == <<pairing, alone>>
vars == <<pairing, loaded, loads, hooks, level, phase, arms, model, passes, trace, answers, alone>>

-------------------------------------------------------------------------------
Request == Steerings[pairing] \cup {Baseline}
Models  == UNION {1..MaxLoads[p] : p \in Pairings}
Phases  == {"idle", "ensure", "loading", "ready", "generating"}
Offsets == 0..(PromptLength - 1)      \* positions of a pass, counted from its first
Owner   == Callers \cup {Ended}        \* whose hook it can be

\* A forward pass: how many positions it covers, and which ones whose hook changed.
Pass  == [length : {1, PromptLength}, changed : [Owner -> SUBSET Offsets]]
\* One InterventionTrace: whose pass it was, how many positions, a nonzero delta or not.
Trace == [length : {1, PromptLength}, steered : BOOLEAN]

\* require_group_from_resolved, then (Qwen) the backend's own configured layer.
Accepted(r) ==
  r # Baseline => r.targets = 1 /\ (pairing = "qwen" => r.layer = QwenLayer)

\* provenance["layer"]["engineering_layer"]: load_qwen_target reports the layer it was
\* given, load_gemma_it_target the one of the target its hook name was validated against.
EngineeringLayer == IF pairing = "qwen" THEN QwenLayer ELSE GemmaLayer

\* require_loaded_layer_matches_request
LayerMatches(r) == r # Baseline => r.layer = EngineeringLayer

\* The arms of a call: send_message asks for one, run_compare for both.
ArmsOf(c, r) == IF c \in Comparing THEN <<Baseline, r>> ELSE <<r>>

Idle(c) == phase[c] = "idle"
Arm(c)  == arms[c][1]

\* What a hook closes over: its call, the positions it clamps and its _PositionCounter,
\* here up to PromptLength, past which it tells nothing apart; and the context it is of.
Hook == [of : Owner, positions : {"all", "generated_only"}, level : Nat, counter : 0..PromptLength]

Owners(m) == {h.of : h \in hooks[m]}

\* The steered arms now generating on model m.
Steering(m) == {c \in Callers : phase[c] = "generating" /\ Arm(c) # Baseline /\ model[c] = m}

\* Mutant of Mask: the prompt's last position counts as generated.
MaskFromLastPrompt(h, length) ==
  IF h.positions = "all" THEN 0..(length - 1)
  ELSE {i \in 0..(length - 1) : h.counter + i + 1 >= PromptLength}

\* _positions_mask: the positions of a pass that a hook clamps, given its counter.
Mask(h, length) ==
  IF h.positions = "all" THEN 0..(length - 1)
  ELSE {i \in 0..(length - 1) : h.counter + i >= PromptLength}

\* Its counter after the pass: only generated_only asks for a mask.
Advanced(h, length) ==
  [h EXCEPT !.counter = IF h.positions = "all" THEN @
                        ELSE IF @ + length < PromptLength THEN @ + length ELSE PromptLength]

\* Mutant of PassLength: no key-value cache.
PassLengthUncached(c) == PromptLength + Len(passes[c])

\* A generate's first pass covers the prompt, the others one new token each.
PassLength(c) == IF passes[c] = <<>> THEN PromptLength ELSE 1

-------------------------------------------------------------------------------
Init ==
  /\ pairing \in Pairings /\ alone = TRUE
  /\ loaded = 0 /\ loads = 0
  /\ hooks = [m \in Models |-> {}] /\ level = [m \in Models |-> 0]
  /\ phase = [c \in Callers |-> "idle"]
  /\ arms = [c \in Callers |-> <<>>] /\ model = [c \in Callers |-> 0]
  /\ passes = [c \in Callers |-> <<>>] /\ answers = [c \in Callers |-> <<>>]
  /\ trace = [c \in Callers |-> <<>>]

\* The call raises: its handler gets no result, and the page shows none.
Raise(c) ==
  /\ phase' = [phase EXCEPT ![c] = "idle"]
  /\ arms' = [arms EXCEPT ![c] = <<>>]
  /\ passes' = [passes EXCEPT ![c] = <<>>]
  /\ answers' = [answers EXCEPT ![c] = <<>>]
  /\ model' = [model EXCEPT ![c] = 0]

\* A handler calls send_message or run_compare.  The results of the calls that are
\* over have been shown, and are forgotten.
Call(c, r) ==
  /\ Idle(c) /\ \A d \in Callers : Len(trace[d]) < MaxTrace
  /\ phase' = [phase EXCEPT ![c] = "ensure"]
  /\ arms' = [arms EXCEPT ![c] = ArmsOf(c, r)]
  /\ answers' = [d \in Callers |-> IF Idle(d) THEN <<>> ELSE answers[d]]
  /\ alone' = \A d \in Callers : Idle(d)
  /\ UNCHANGED <<pairing, loaded, loads, hooks, level, model, passes, trace>>

\* generate: a request no hook can serve is refused before anything is loaded.
RefuseRequest(c) ==
  /\ phase[c] = "ensure" /\ ~Accepted(Arm(c))
  /\ Raise(c)
  /\ UNCHANGED <<fixed, loaded, loads, hooks, level, trace>>

\* Mutant of BeginLoad: what is loaded already is not looked at.
BeginLoadAlways(c) ==
  /\ phase[c] = "ensure" /\ Accepted(Arm(c)) /\ loads < MaxLoads[pairing]
  /\ phase' = [phase EXCEPT ![c] = "loading"]
  /\ UNCHANGED <<fixed, loaded, loads, hooks, level, arms, model, passes, trace, answers>>

\* _ensure_loaded: nothing is loaded, so this call loads; nothing stops another
\* call from finding the same meanwhile.
BeginLoad(c) ==
  /\ phase[c] = "ensure" /\ Accepted(Arm(c)) /\ loaded = 0 /\ loads < MaxLoads[pairing]
  /\ phase' = [phase EXCEPT ![c] = "loading"]
  /\ UNCHANGED <<fixed, loaded, loads, hooks, level, arms, model, passes, trace, answers>>

\* Mutant of FinishLoad: the model is not kept.
FinishLoadForgetting(c) ==
  /\ phase[c] = "loading"
  /\ phase' = [phase EXCEPT ![c] = "ensure"]
  /\ UNCHANGED <<fixed, loaded, loads, hooks, level, arms, model, passes, trace, answers>>

\* load_*_target returned: self._loaded is assigned; `return self._loaded` reads it again.
FinishLoad(c) ==
  /\ phase[c] = "loading" /\ loads < MaxLoads[pairing]
  /\ loads' = loads + 1 /\ loaded' = loads + 1
  /\ phase' = [phase EXCEPT ![c] = "ensure"]
  /\ UNCHANGED <<fixed, hooks, level, arms, model, passes, trace, answers>>

\* A validator of the loader refused, or the load broke: the next call tries again.
FailLoad(c) ==
  /\ phase[c] = "loading"
  /\ Raise(c)
  /\ UNCHANGED <<fixed, loaded, loads, hooks, level, trace>>

TakeLoaded(c) ==
  /\ phase[c] = "ensure" /\ Accepted(Arm(c)) /\ loaded # 0
  /\ phase' = [phase EXCEPT ![c] = "ready"]
  /\ model' = [model EXCEPT ![c] = loaded]
  /\ UNCHANGED <<fixed, loaded, loads, hooks, level, arms, passes, trace, answers>>

\* The identity gate, the chat template and the BOS check refuse before any hook.
RefusePrepared(c) ==
  /\ phase[c] = "ready"
  /\ Raise(c)
  /\ UNCHANGED <<fixed, loaded, loads, hooks, level, trace>>

\* The context a new hook of m is of: HookedRootModule.hooks counts them.
Entered(m) == IF pairing = "gemma" THEN level[m] + 1 ELSE 0
Left(m)    == IF pairing = "gemma" THEN level[m] - 1 ELSE 0

\* _make_clamp_hook, wrap_hook_with_diagnostics, register_qwen_raw_hook or model.hooks:
\* a steered arm begins with one hook, a fresh counter and an empty trace.
BeginGenerate(c) ==
  /\ phase[c] = "ready" /\ LayerMatches(Arm(c))
  /\ phase' = [phase EXCEPT ![c] = "generating"]
  /\ IF Arm(c) = Baseline THEN UNCHANGED <<hooks, level, trace>>
     ELSE LET m == model[c]
              hook == [of |-> c, positions |-> Arm(c).positions, level |-> Entered(m), counter |-> 0]
          IN  /\ hooks' = [hooks EXCEPT ![m] = @ \cup {hook}]
              /\ level' = [level EXCEPT ![m] = Entered(m)]
              /\ trace' = [trace EXCEPT ![c] = <<>>]
  /\ UNCHANGED <<fixed, loaded, loads, arms, model, passes, answers>>

\* One forward pass of c's generate: each hook of its model advances its counter,
\* clamps the positions of its mask and records the pass.  A clamp that happens
\* to leave the residual as it was is `inert`.  The trace of an ended arm is read no more.
ForwardPass(c) ==
  /\ phase[c] = "generating" /\ Len(passes[c]) < MaxPasses
  /\ \E inert \in SUBSET hooks[model[c]] :
       LET n == PassLength(c)
           on == hooks[model[c]]
           changed == [o \in Owner |-> UNION {Mask(h, n) : h \in {g \in on \ inert : g.of = o}}]
       IN  /\ passes' = [passes EXCEPT ![c] = Append(@, [length |-> n, changed |-> changed])]
           /\ hooks' = [hooks EXCEPT ![model[c]] = {Advanced(h, n) : h \in on}]
           /\ trace' = [o \in Callers |->
                IF o \in Owners(model[c])
                  THEN Append(trace[o], [length |-> n, steered |-> changed[o] # {}])
                  ELSE trace[o]]
  /\ UNCHANGED <<fixed, loaded, loads, level, phase, arms, model, answers>>

\* find_first_disappearance_boundary, mechanical_verdict: nonzero_steer_confirmed.
Applicable(positions, n) == {i \in 1..n : ~(positions = "generated_only" /\ i = 1)}
\* Mutant of Confirmed: one steered pass is enough.
ConfirmedOnce(positions, tr) == \E i \in Applicable(positions, Len(tr)) : tr[i].steered

Confirmed(positions, tr) ==
  /\ Applicable(positions, Len(tr)) # {}
  /\ \A i \in Applicable(positions, Len(tr)) : tr[i].steered

\* Mutant of ResultOf: the prefill's record is dropped from the trace.
ResultWithoutPrefill(c) ==
  [request |-> Arm(c), passes |-> passes[c],
   trace |-> IF Arm(c) = Baseline THEN <<>> ELSE Tail(trace[c]),
   confirmed |-> Arm(c) # Baseline /\ Confirmed(Arm(c).positions, trace[c])]

\* What the call keeps of a finished arm: the text, by its passes, and the diagnostics.
ResultOf(c) ==
  [request |-> Arm(c), passes |-> passes[c],
   trace |-> IF Arm(c) = Baseline THEN <<>> ELSE trace[c],
   confirmed |-> Arm(c) # Baseline /\ Confirmed(Arm(c).positions, trace[c])]

\* Mutant of Unhooked: the handle is never removed.
StillHooked(c) == hooks[model[c]]

\* What is left on its model when the steered arm of c is over.  `handle.remove()` takes
\* its own hook away; leaving a context takes away those of the level the model is at,
\* and its own stays there, Ended, if another call has entered one since.
Unhooked(c) ==
  IF pairing = "qwen" THEN {h \in hooks[model[c]] : h.of # c}
  ELSE {[h EXCEPT !.of = IF @ = c THEN Ended ELSE @] :
          h \in {g \in hooks[model[c]] : g.level # level[model[c]]}}

\* `finally`, and the end of `with`: whether the arm returned or raised.
Unhook(c) ==
  IF Arm(c) = Baseline THEN UNCHANGED <<hooks, level>>
  ELSE /\ hooks' = [hooks EXCEPT ![model[c]] = Unhooked(c)]
       /\ level' = [level EXCEPT ![model[c]] = Left(model[c])]

\* generate returned; the next arm of the call begins, or the handler has its result.
FinishArm(c) ==
  /\ phase[c] = "generating" /\ passes[c] # <<>>
  /\ Unhook(c)
  /\ answers' = [answers EXCEPT ![c] = Append(@, ResultOf(c))]
  /\ arms' = [arms EXCEPT ![c] = Tail(@)]
  /\ phase' = [phase EXCEPT ![c] = IF Len(arms[c]) = 1 THEN "idle" ELSE "ensure"]
  /\ passes' = [passes EXCEPT ![c] = <<>>]
  /\ model' = [model EXCEPT ![c] = 0]
  /\ trace' = [trace EXCEPT ![c] = <<>>]
  /\ UNCHANGED <<fixed, loaded, loads>>

\* A forward pass, or a hook in it, raised.
FailArm(c) ==
  /\ phase[c] = "generating"
  /\ Unhook(c)
  /\ Raise(c)
  /\ trace' = [trace EXCEPT ![c] = <<>>]
  /\ UNCHANGED <<fixed, loaded, loads>>

Advance(c) ==
  \/ RefuseRequest(c) \/ BeginLoad(c) \/ FinishLoad(c) \/ FailLoad(c) \/ TakeLoaded(c)
  \/ RefusePrepared(c) \/ BeginGenerate(c) \/ ForwardPass(c) \/ FinishArm(c) \/ FailArm(c)

Next == \E c \in Callers : Advance(c) \/ \E r \in Steerings[pairing] : Call(c, r)

Spec == Init /\ [][Next]_vars

\* A thread the server has started runs on, whatever the others do.
FairSpec == Spec /\ \A c \in Callers : WF_vars(Advance(c))

-------------------------------------------------------------------------------
Result ==
  [request : Request, passes : Seq(Pass), trace : Seq(Trace), confirmed : BOOLEAN]

TypeOK ==
  /\ pairing \in Pairings /\ alone \in BOOLEAN
  /\ loads \in 0..MaxLoads[pairing] /\ loaded \in 0..MaxLoads[pairing]
  /\ hooks \in [Models -> SUBSET Hook] /\ level \in [Models -> Nat]
  /\ phase \in [Callers -> Phases] /\ arms \in [Callers -> Seq(Request)]
  /\ model \in [Callers -> {0} \cup Models]
  /\ passes \in [Callers -> Seq(Pass)]
  /\ trace \in [Callers -> Seq(Trace)] /\ answers \in [Callers -> Seq(Result)]

\* Whatever was refused, raised, returned or overlapped before, a model has as many hooks
\* as steered arms generate on it, so none is left when they are over.  On Qwen, where an
\* arm removes its own handle, the hooks are theirs; on Gemma, calls that overlap can have
\* lost theirs and run under one whose arm has ended.
HooksMatchRunningArms ==
  \A m \in Models :
    /\ Cardinality(hooks[m]) = Cardinality(Steering(m))
    /\ pairing = "qwen" => Owners(m) = Steering(m)

\* "No hook runs here": the Original arm of a comparison is the unsteered model.
BaselineRunsNoHook ==
  \A c \in Callers : \A i \in DOMAIN answers[c] :
    answers[c][i].request = Baseline =>
      \A k \in DOMAIN answers[c][i].passes :
        \A h \in Owner : answers[c][i].passes[k].changed[h] = {}

\* A reply no other call overlapped is steered by its own request alone, whatever calls
\* overlapped, failed, raised or loaded a second model before: no hook of another call
\* touches it, generated_only leaves its prompt untouched, and the Original arm of a
\* comparison is the unsteered model.
SteeredByItselfAlone ==
  alone => \A c \in Callers : \A i \in DOMAIN answers[c] :
    \A k \in DOMAIN answers[c][i].passes :
      LET changed == answers[c][i].passes[k].changed
          r == answers[c][i].request
      IN  /\ \A h \in Owner \ {c} : changed[h] = {}
          /\ r = Baseline => changed[c] = {}
          /\ r # Baseline /\ r.positions = "generated_only" /\ k = 1 => changed[c] = {}

\* nonzero_steer_confirmed never overclaims: every pass the request had to steer was
\* steered by it, on Qwen also when calls overlap and the trace holds passes of another
\* one.  On Gemma only while no call overlaps another: the hook a call has lost records
\* no more passes, and the verdict is over the records.
VerdictNeverOverclaims ==
  pairing = "qwen" \/ alone =>
  \A c \in Callers : \A i \in DOMAIN answers[c] :
    answers[c][i].confirmed =>
      \A k \in Applicable(answers[c][i].request.positions, Len(answers[c][i].passes)) :
        answers[c][i].passes[k].changed[c] # {}

\* "call_index == 0 is prefill, every later call is decode": the trace of a steered
\* reply no other call overlapped has one record for each of its own passes, the
\* prompt's first.
TraceIsOfOwnPasses ==
  alone => \A c \in Callers : \A i \in DOMAIN answers[c] :
    answers[c][i].request # Baseline =>
      /\ Len(answers[c][i].trace) = Len(answers[c][i].passes)
      /\ \A k \in DOMAIN answers[c][i].trace :
           answers[c][i].trace[k].length = answers[c][i].passes[k].length

\* The model loaded on first use serves every later call: only calls that overlap
\* ever replace it.
LoadedOnce == [][loaded # 0 /\ alone => loaded' = loaded]_loaded

\* Every call returns or raises, whatever the other calls do to the shared model.
CallsEnd == \A c \in Callers : phase[c] # "idle" ~> phase[c] = "idle"

===============================================================================
