------------------------- MODULE MCControlResolution -------------------------
(***************************************************************************)
(* Instances of ControlResolution: one feature at two weights, two         *)
(* features of one group in both orders, two SAEs at one layer, two        *)
(* layers, all four at once; doses in both units; ablation; a direction    *)
(* that is not calibrated, the other direction, the other pairing.         *)
(***************************************************************************)
EXTENDS ControlResolution

At(l, s, i) == [layer |-> l, sae |-> s, index |-> i]
On(l, s, i, w) == [at |-> At(l, s, i), weight |-> w]
MCFeature == {At(1, 1, 1), At(1, 1, 2), At(1, 2, 1), At(2, 1, 1)}

Absolute(v) == [operation |-> "clamp", unit |-> "absolute_activation", value |-> v]
Multiple(v) == [operation |-> "clamp", unit |-> "max_multiple", value |-> v]
Ablate      == [operation |-> "ablate", unit |-> None, value |-> None]

MCStrengths == {"low", "high"}
Doses(low, high) == [s \in MCStrengths |-> IF s = "low" THEN low ELSE high]
DirectionWith(record) ==
  [pairing |-> "gemma", name |-> "amplify", positions |-> "generated_only", record |-> record]
Direction(targets, specs) == DirectionWith([targets |-> targets, specs |-> specs])

Memberships == {
  <<On(1, 1, 1, 1)>>, <<On(1, 1, 1, 2)>>,
  <<On(1, 1, 1, 1), On(1, 1, 2, 1)>>, <<On(1, 1, 2, 1), On(1, 1, 1, 1)>>,
  <<On(1, 1, 1, 1), On(1, 2, 1, 1)>>, <<On(2, 1, 1, 1), On(1, 1, 1, 1)>>,
  <<On(2, 1, 1, 1), On(1, 2, 1, 1), On(1, 1, 2, 1), On(1, 1, 1, 1)>>}
Weightless == {m \in Memberships : \A i \in DOMAIN m : m[i].weight = 1}

MCDirections ==
  {Direction(m, Doses(Absolute(1), Absolute(2))) : m \in Memberships}
    \cup {Direction(m, Doses(Absolute(2), Multiple(1))) : m \in Memberships}
    \cup {Direction(m, Doses(Absolute(1), Ablate)) : m \in Weightless}
    \cup {[Direction(<<On(1, 1, 1, 1)>>, Doses(Ablate, Ablate)) EXCEPT !.positions = "all"],
          [Direction(<<On(1, 1, 1, 1)>>, Doses(Absolute(1), Absolute(2))) EXCEPT !.name = "suppress"],
          [Direction(<<On(1, 1, 1, 1)>>, Doses(Absolute(1), Absolute(2))) EXCEPT !.pairing = "qwen"],
          DirectionWith(None)}

\* Every maximum measured; the second feature's missing; and the first feature's invalid.
MCSources ==
  {[f \in MCFeature |-> 2],
   [f \in MCFeature |-> IF f = At(1, 1, 2) THEN None ELSE 1],
   [f \in MCFeature |-> IF f = At(1, 1, 1) THEN 0 ELSE IF f = At(1, 1, 2) THEN None ELSE 2]}
===============================================================================
