SPECIFICATION LettersFairSpec
CONSTANTS
  Letter = {m1}
  AgentRun = {e1}
  LetterTicker = {a}
  LetterFaults = {"kill"}
PROPERTY StuckRunsAlert
CHECK_DEADLOCK FALSE
