\* The Original arm of a comparison while a Send generates.
SPECIFICATION FairSpec
CONSTANTS
  Callers = {"_on_send", "_on_compare"}
  Comparing = {"_on_compare"}
  Pairings = {"qwen"}
  Steerings <- MCSteerings
  Baseline = Baseline
  QwenLayer = 29
  GemmaLayer = 29
  Ended = Ended
  PromptLength = 2
  MaxPasses = 2
  MaxTrace = 1
  MaxLoads <- QwenLoads
INVARIANTS BaselineRunsNoHook
