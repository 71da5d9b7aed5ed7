--------------------------- MODULE ControlResolution ---------------------------
(***************************************************************************)
(* From an authored direction to the clamp a backend applies:              *)
(* concept_bundle/schema.py (what may be authored), resolver.py (the       *)
(* arithmetic), runtime.py (what the preflight lets through),              *)
(* core/execution_guard.py (what the backend lets through) and the clamp   *)
(* of the two runtime backends.  A request is resolved once by the tab     *)
(* (ui), which preflights and measures no maximum, or by another caller of *)
(* the resolver and the backend (direct).                                  *)
(*                                                                         *)
(* Numbers are naturals; SAE ids are numbers, for their order.             *)
(***************************************************************************)
EXTENDS Naturals, Sequences, FiniteSets, Functions

CONSTANTS
  Strengths,
  Directions,  \* the directions of entries that may be asked for
  Sources,     \* denominator sources a direct caller may pass: [Feature -> Nat \cup {None}]
  Feature,     \* the [layer, sae, index] that exist
  None

Target == [at : Feature, weight : Nat \ {0}]
Dose   == Nat \ {0}

\* Spec: four shapes, two of which differ in the name of their maximum only.
Spec_ ==
  [operation : {"clamp"}, unit : {"absolute_activation", "max_multiple"}, value : Dose]
    \cup [operation : {"ablate"}, unit : {None}, value : {None}]

\* DirectionRecord.__post_init__: no feature twice, and no weight on an ablation.
WellFormed(r) ==
  /\ r.targets \in Seq(Target) /\ r.targets # <<>>
  /\ \A i, j \in DOMAIN r.targets : r.targets[i].at = r.targets[j].at => i = j
  /\ r.specs \in [Strengths -> Spec_]
  /\ (\E s \in Strengths : r.specs[s].operation = "ablate") =>
       \A i \in DOMAIN r.targets : r.targets[i].weight = 1

\* One of the two directions of an entry, with what it takes from the entry: its pairing
\* and its positions.  The record of a direction that is not calibrated is null.
DirectionOf(d) ==
  /\ DOMAIN d = {"pairing", "name", "positions", "record"}
  /\ d.name \in {"amplify", "suppress"}
  /\ d.record # None => WellFormed(d.record)

ASSUME ResolutionConstants ==
  /\ \A f \in Feature : f \in [layer : Nat, sae : Nat, index : Nat]
  /\ \A d \in Directions : DirectionOf(d)
  /\ Sources \subseteq [Feature -> Nat \cup {None}]
  /\ None # "max_multiple"

Request ==
  [direction : Directions, strength : Strengths, caller : {"ui"}, source : {None}]
    \cup [direction : Directions, strength : Strengths, caller : {"direct"}, source : Sources \cup {None}]

SpecOf(q) == q.direction.record.specs[q.strength]
Features(ts) == {ts[i].at : i \in DOMAIN ts}

-------------------------------------------------------------------------------
(* Grouping by (sae_id, layer). *)

SaesAtLayer(fs, l) == {f.sae : f \in {g \in fs : g.layer = l}}
Groups(fs) == {<<f.sae, f.layer>> : f \in fs}

\* _layers_with_multiple_saes
SharedLayers(fs) == {l \in {f.layer : f \in fs} : Cardinality(SaesAtLayer(fs, l)) > 1}

\* check_direction_executable, whose classes require_single_execution_group raises.
Preflight(record) ==
  LET fs == Features(record.targets)
  IN  IF record = None THEN "DirectionNotCalibrated"
      ELSE IF SharedLayers(fs) # {} THEN "PROHIBITED"
      ELSE IF Cardinality(Groups(fs)) > 1 THEN "CAPABILITY_LIMIT"
      ELSE "executable"

\* Mutants of Guard: no count of the targets; the capability asked before the prohibition.
GuardUncounted(targets) == Preflight([targets |-> targets])
GuardGroupsFirst(targets) ==
  LET fs == Features(targets)
  IN  IF Cardinality(Groups(fs)) > 1 THEN "CAPABILITY_LIMIT"
      ELSE IF Len(targets) # 1 THEN "UnsupportedTargetCount"
      ELSE "executable"

\* require_group_from_resolved: computed from the resolved targets alone, in the order
\* and grouping they arrive in, and with one refusal more.
Guard(targets) ==
  LET fs == Features(targets)
      layers == {f.layer : f \in fs}
  IN  IF \E l \in layers : Cardinality(SaesAtLayer(fs, l)) > 1 THEN "PROHIBITED"
      ELSE IF \E f, g \in fs : <<f.sae, f.layer>> # <<g.sae, g.layer>> THEN "CAPABILITY_LIMIT"
      ELSE IF Len(targets) # 1 THEN "UnsupportedTargetCount"
      ELSE "executable"

-------------------------------------------------------------------------------
(* Resolving. *)

\* canonical_target_sort_key: (layer, sae_id, feature_idx)
Before(t, u) ==
  \/ t.at.layer < u.at.layer
  \/ t.at.layer = u.at.layer /\ t.at.sae < u.at.sae
  \/ t.at.layer = u.at.layer /\ t.at.sae = u.at.sae /\ t.at.index < u.at.index
\* Mutant of Canonical: targets stay in the order they were authored in.
AsAuthored(targets) == targets

\* sorted(record.targets, key=canonical_target_sort_key): a permutation that leaves no two out of order.
Canonical(targets) ==
  LET n == Len(targets)
      p == CHOOSE p \in Bijection(1..n, 1..n) :
             \A i, j \in 1..n : i < j => ~Before(targets[p[j]], targets[p[i]])
  IN  [k \in 1..n |-> targets[p[k]]]

\* _denominator_for: None when it is refused as missing, 0 when as invalid.
Denominator(spec, target, source) ==
  IF spec.unit # "max_multiple" THEN 1
  ELSE IF source = None THEN None ELSE source[target.at]

\* resolve_control's loop: the first target refused decides the error.
Refusal(spec, targets, source) ==
  LET bad == {i \in DOMAIN targets : Denominator(spec, targets[i], source) \in {None, 0}}
      first == CHOOSE i \in bad : \A j \in bad : i <= j
  IN  IF spec.operation = "ablate" \/ bad = {} THEN "none"
      ELSE IF Denominator(spec, targets[first], source) = None
             THEN "MissingDenominator" ELSE "InvalidDenominator"

\* ResolvedTarget: identity, derivation and absolute_value.
ResolvedTarget(spec, target, source) ==
  IF spec.operation = "ablate"
    THEN [at |-> target.at, weight |-> target.weight, denominator |-> None, absolute |-> None]
    ELSE LET d == Denominator(spec, target, source)
         IN  [at |-> target.at, weight |-> target.weight, denominator |-> d,
              absolute |-> spec.value * target.weight * d]

\* The error resolve_control raises for a request, or "none".
Why(q) ==
  IF q.direction.record = None THEN "DirectionNotCalibrated"
  ELSE Refusal(SpecOf(q), Canonical(q.direction.record.targets), q.source)

\* resolve_control, once nothing is refused.
Resolve(q) ==
  LET spec == SpecOf(q)
      ts   == Canonical(q.direction.record.targets)
  IN  [operation |-> spec.operation, unit |-> spec.unit, value |-> spec.value,
       pairing |-> q.direction.pairing, direction |-> q.direction.name,
       positions |-> q.direction.positions,
       targets |-> [i \in DOMAIN ts |-> ResolvedTarget(spec, ts[i], q.source)]]

\* ResolvedControlState.execution_dict: what determines what the model computes.
Execution(state) ==
  [pairing |-> state.pairing, direction |-> state.direction,
   operation |-> state.operation, positions |-> state.positions,
   targets |-> [i \in DOMAIN state.targets |->
                  [at |-> state.targets[i].at, absolute |-> state.targets[i].absolute]]]

\* Mutant of Clamp: the authored value also for an ablation, which has none.
ClampAuthored(state) ==
  [at |-> state.targets[1].at, positions |-> state.positions, value |-> state.value]

\* `clamp_value = 0.0 if ABLATE else float(resolved.value)`, on the guard's one target.
Clamp(state) ==
  [at |-> state.targets[1].at, positions |-> state.positions,
   value |-> IF state.operation = "ablate" THEN 0 ELSE state.value]

-------------------------------------------------------------------------------
VARIABLES
  stage,      \* where the request in progress is
  request,    \* the request, or None
  resolved,   \* its resolved state, or None
  refused,    \* why the last request ended without a clamp, or "none"
  clamp,      \* the clamp of the last request, or None
  past        \* the request before it that was carried out: [request, resolved, clamp]

vars == <<stage, request, resolved, refused, clamp, past>>

Init ==
  /\ stage = "idle" /\ request = None /\ resolved = None
  /\ refused = "none" /\ clamp = None /\ past = None

\* A caller asks for a control; one that was carried out before is the past.
Ask(q) ==
  /\ stage = "idle"
  /\ past' = IF clamp = None THEN past
             ELSE [request |-> request, resolved |-> resolved, clamp |-> clamp]
  /\ request' = q /\ resolved' = None /\ refused' = "none" /\ clamp' = None
  /\ stage' = IF q.caller = "ui" THEN "preflight" ELSE "resolve"

End(reason) == stage' = "idle" /\ refused' = reason

\* _on_send, _on_compare: a direction that cannot run is refused before it is resolved.
PreflightRequest ==
  /\ stage = "preflight"
  /\ IF Preflight(request.direction.record) = "executable"
       THEN stage' = "resolve" /\ UNCHANGED refused
       ELSE End(Preflight(request.direction.record))
  /\ UNCHANGED <<request, resolved, clamp, past>>

ResolveRequest ==
  /\ stage = "resolve"
  /\ IF Why(request) = "none"
       THEN stage' = "guard" /\ resolved' = Resolve(request) /\ UNCHANGED refused
       ELSE End(Why(request)) /\ UNCHANGED resolved
  /\ UNCHANGED <<request, clamp, past>>

\* generate: the guard, then the clamp.
GuardRequest ==
  /\ stage = "guard"
  /\ IF Guard(resolved.targets) = "executable"
       THEN clamp' = Clamp(resolved) /\ End("none")
       ELSE End(Guard(resolved.targets)) /\ UNCHANGED clamp
  /\ UNCHANGED <<request, resolved, past>>

Next ==
  \/ \E q \in Request : Ask(q)
  \/ PreflightRequest
  \/ ResolveRequest
  \/ GuardRequest

Spec == Init /\ [][Next]_vars

-------------------------------------------------------------------------------
Refusals == {"none", "DirectionNotCalibrated", "PROHIBITED", "CAPABILITY_LIMIT",
             "UnsupportedTargetCount", "MissingDenominator", "InvalidDenominator"}

TypeOK ==
  /\ stage \in {"idle", "preflight", "resolve", "guard"}
  /\ request \in Request \cup {None} /\ refused \in Refusals
  /\ resolved # None => Guard(resolved.targets) \in Refusals \cup {"executable"}
  /\ clamp # None => clamp.at \in Feature /\ clamp.value \in Nat

\* "refuses rather than silently averaging, summing, or truncating to the first
\* target", and "will not default to 1.0": a request that was carried out drove every
\* feature its author named, at the positions of its entry, and no other feature; and
\* a multiple only if its caller measured the maximum of that very feature.
NothingTruncated ==
  clamp # None =>
    /\ Features(request.direction.record.targets) = {clamp.at}
    /\ clamp.positions = request.direction.positions
    /\ SpecOf(request).unit = "max_multiple" =>
         request.source # None /\ request.source[clamp.at] \notin {None, 0}

\* The guard repeats the preflight's grouping on other data "with the same canonical
\* error classes": of a request that resolved, both give the same class, and the
\* guard alone refuses a group of several targets.
GuardAgreesWithPreflight ==
  resolved # None =>
    LET ours == Preflight(request.direction.record) theirs == Guard(resolved.targets)
    IN  IF theirs = "UnsupportedTargetCount" THEN ours = "executable" ELSE ours = theirs

\* "Authoring order must never be observable": two requests whose records differ
\* in the order of their targets only are refused for the same missing or invalid
\* maximum, or resolve to the same state.
SameAuthoring(q, p) ==
  LET ours == q.direction theirs == p.direction
  IN  /\ ours.record # None /\ theirs.record # None
      /\ {ours.record.targets[i] : i \in DOMAIN ours.record.targets} =
           {theirs.record.targets[i] : i \in DOMAIN theirs.record.targets}
      /\ SpecOf(q) = SpecOf(p) /\ q.source = p.source
      /\ [ours EXCEPT !.record = None] = [theirs EXCEPT !.record = None]
OrderIsUnobservable ==
  \A q \in Request :
    request # None /\ SameAuthoring(q, request) =>
      /\ resolved # None => Why(q) = "none" /\ Resolve(q) = resolved
      /\ refused \in {"MissingDenominator", "InvalidDenominator"} => Why(q) = refused

\* "Two resolutions sharing this fingerprint drive the model identically".
SameExecutionSameClamp ==
  past # None /\ clamp # None /\ Execution(past.resolved) = Execution(resolved)
    => past.clamp = clamp

===============================================================================
