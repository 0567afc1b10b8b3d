SPECIFICATION LlmSpec
CONSTANTS
  Copilots = {"copilot"}
  Jobs = {"job"}
  Costs = {0, 1}
  Limit = 1
  MaxSpent = 2
  MaxChanges = 2
  MaxLlmFaults = 1
CHECK_DEADLOCK FALSE
INVARIANTS
  StoredKeyResolves
