CONSTANTS
  Stored = {a, b}
  Boot = boot
  New = new
  None = none
  Elsewhere = {b, boot}
  MaxDrops = 1
  MaxHydrations = 2
  MaxFaults = 1
SPECIFICATION SessionFairSpec
INVARIANTS Sound PromptWhereChosen
PROPERTY PromptsAnswered
CONSTRAINT Undisturbed
CHECK_DEADLOCK FALSE
