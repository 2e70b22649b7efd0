SPECIFICATION Spec
CONSTANTS
  Saved <- SavedForms
  Typed <- TypedForms
  Hours = {17}
  Minutes = {30}
  WeekDays = {5}
  MonthDays = {15}
  Periods = {30, 45, 120}
  MaxLoads = 2
  MaxEdits = 3
  Stored <- MCStored
  Picks = {3}
  MaxOthers = 1
  None = None
CHECK_DEADLOCK FALSE
INVARIANTS FormTypeOK SavedAsShown UntouchedKeeps SaveFits ReopensUnchanged OwnFormsAccepted
PROPERTY EffectsSettle
