SPECIFICATION Spec
CONSTANTS
  Providers = {"chat", "anthropic", "responses", "ollama"}
  MaxReplies = 2
  MaxTurns = 2
  MaxRetries = 1
  MaxLines = 2
  MaxFaults = 4
  PreserveRecent = 2
  Threshold = 3
INVARIANTS
  MirrorInStep
  
  
  SaveSucceeds
  
CHECK_DEADLOCK FALSE
