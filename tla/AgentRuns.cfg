\* Starts, resumes with and without an answer and failures of one thread, with compaction.
SPECIFICATION Spec
CONSTANTS
  Tools = {"look_up", "ask_user", "report", "emit_artifact"}
  TerminalTools = {"report"}
  MaxModelTurns = 2
  MaxToolCalls = 2
  CompactAt = 4
  MaxInput = 4
  RecentMessages = 2
  MaxResultSize = 2
  ResultSizes = {2, 3}
  NoUse = NoUse
  MaxUses = 3
  MaxPerTurn = 2
  MaxRuns = 3
INVARIANTS TypeOK PromptPaired
PROPERTIES AnswerHeard CallsRepeatOnlyAfterResume
CHECK_DEADLOCK FALSE
