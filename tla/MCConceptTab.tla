----------------------------- MODULE MCConceptTab -----------------------------
(***************************************************************************)
(* Small instances of ConceptTab: concept c1 calibrates both directions    *)
(* and both can run, c2 calibrates both but only "amplify" can run, c3     *)
(* calibrates "suppress" alone (the fixtures' three cases).                *)
(***************************************************************************)
EXTENDS ConceptTab

CONSTANTS c1, c2, c3

MCDirections == {"amplify", "suppress"}
MCStrengths  == {"low", "high"}

MCCalibrated ==
  [c \in Concepts |-> IF c = c3 THEN {"suppress"} ELSE {"amplify", "suppress"}]
MCFirstDirection == [c \in Concepts |-> IF c = c3 THEN "suppress" ELSE "amplify"]
MCExecutable ==
  {<<c, d>> \in Concepts \X Directions : d \in Calibrated[c] /\ ~(c = c2 /\ d = "suppress")}

===============================================================================
