--------------------------- MODULE MCReleaseLaunch ---------------------------
(***************************************************************************)
(* A preflight and a launch: a fixture per tab, and bundles that may be    *)
(* staged: one fit for release per tab; for Gemma one authored in          *)
(* multiples whose file name comes first and one calibrated at a layer     *)
(* never accepted; for Qwen one whose reference is short (filtered last,   *)
(* when the record may have changed) and one that does not decode.         *)
(* Gemma is accepted at a layer, Qwen by a record that names none.         *)
(***************************************************************************)
EXTENDS PiDemoPreflight

MCTabs == <<"gemma", "qwen">>
MCAcceptance ==
  [k \in {"gemma", "qwen"} |-> IF k = "gemma" THEN [scope |-> "layer", layer |-> 29]
                               ELSE [scope |-> "any", layer |-> 0]]

MCTypes     == {"report", "manifest"}
MCContents  == {"r1", "r2", "nan"}     \* one prefix, p1
MCCanonical == {"r1", "r2"}
MCPrefix    == [c \in MCContents |-> "p1"]
MCTypeField == [c \in MCContents |-> "report"]
Cite(form)  == [type |-> "report", digest |-> "r1", form |-> form]
MCReferences == {Cite("published"), Cite("short")}
TreeWith(file) ==
  [path \in MCTypes \X {"p1"} |-> IF path[1] = "report" THEN file ELSE Absent]
MCTrees == {TreeWith([content |-> "r1", self |-> "r1"]), TreeWith(Garbage)}

Fixture(layer) ==
  [provenance |-> "other", layers |-> {layer}, evidence |-> {}, flawed |-> TRUE, unit |-> "absolute"]
Bundle(layer, form, unit) ==
  [provenance |-> "attested", layers |-> {layer}, evidence |-> {Cite(form)}, flawed |-> FALSE,
   unit |-> unit]

MCEntries ==
  {"fakeGemma", "fakeQwen", "gemma29", "gemma29x", "gemma31", "qwen38", "qwen38short", "qwenTorn"}
MCDecodable == MCEntries \ {"qwenTorn"}
MCInfo ==
  [e \in MCEntries |->
     CASE e = "fakeGemma" -> Fixture(29) [] e = "fakeQwen" -> Fixture(38)
       [] e = "gemma29" -> Bundle(29, "published", "absolute")
       [] e = "gemma29x" -> Bundle(29, "published", "multiple")
       [] e = "gemma31" -> Bundle(31, "published", "absolute")
       [] e = "qwen38short" -> Bundle(38, "short", "absolute")
       [] e \in {"qwen38", "qwenTorn"} -> Bundle(38, "published", "absolute")]
MCPlace ==
  [e \in MCEntries |->
     CASE e = "fakeGemma" -> 1 [] e = "gemma29x" -> 2 [] e = "gemma29" -> 3 [] e = "gemma31" -> 4
       [] e = "fakeQwen" -> 5 [] e = "qwen38" -> 6 [] e = "qwen38short" -> 7
       [] e = "qwenTorn" -> 8]
MCShipped ==
  [k \in {"gemma", "qwen"} |-> IF k = "gemma" THEN {"fakeGemma"} ELSE {"fakeQwen"}]

Keyed(gemma, qwen) == [k \in {"gemma", "qwen"} |-> IF k = "gemma" THEN gemma ELSE qwen]
MCStageable == Keyed({"gemma29", "gemma29x", "gemma31"}, {"qwen38", "qwen38short", "qwenTorn"})
Line(mode, gemma, qwen, root) == [mode |-> mode, backend |-> Keyed(gemma, qwen), root |-> root]

ReleaseLine  == Line("release", "runtime", "runtime", TRUE)
MCCommandLines ==
  {ReleaseLine, Line("release", "runtime", "runtime", FALSE),
   Line("release", "runtime", "stub", TRUE), Line("dev", "stub", "stub", FALSE),
   Line("dev", "runtime", "missing_args", TRUE)}
===============================================================================
