-------------------------- MODULE MCSteeringBackend --------------------------
(***************************************************************************)
(* Instances of SteeringBackend: the two handlers of one tab and requests  *)
(* that are served, that name another layer, or that carry two targets.    *)
(***************************************************************************)
EXTENDS SteeringBackend

Ask(layer, targets, positions) ==
  [layer |-> layer, targets |-> targets, positions |-> positions]

MCSteerings ==
  [p \in {"qwen", "gemma"} |->
     IF p = "qwen" THEN {Ask(29, 1, "generated_only"), Ask(31, 1, "all"), Ask(29, 2, "all")}
                   ELSE {Ask(29, 1, "generated_only"), Ask(31, 1, "all")}]

\* Two racing loads are the same of either backend.
MCMaxLoads == [p \in {"qwen", "gemma"} |-> IF p = "qwen" THEN 2 ELSE 1]
QwenLoads  == [p \in {"qwen"} |-> 2]
===============================================================================
