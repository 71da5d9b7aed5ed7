\* _on_send and _on_compare on either backend, alone or at once.
SPECIFICATION FairSpec
CONSTANTS
  Callers = {"_on_send", "_on_compare"}
  Comparing = {"_on_compare"}
  Pairings = {"qwen", "gemma"}
  Steerings <- MCSteerings
  Baseline = Baseline
  QwenLayer = 29
  GemmaLayer = 29
  Ended = Ended
  PromptLength = 2
  MaxPasses = 2
  MaxTrace = 1
  MaxLoads <- MCMaxLoads
INVARIANTS TypeOK HooksMatchRunningArms VerdictNeverOverclaims
INVARIANTS SteeredByItselfAlone TraceIsOfOwnPasses
PROPERTIES CallsEnd LoadedOnce
