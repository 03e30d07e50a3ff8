SPECIFICATION MonitorSpec
CONSTANTS
  Bytes = {a, prompt}
  Prompts = {prompt}
  Size = 3
  TailSize = 2
  MaxWritten = 8
  Zero = Zero
INVARIANTS ContentIsTail MissedOnlyRepeats
CHECK_DEADLOCK FALSE
