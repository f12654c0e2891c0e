SPECIFICATION Spec
CONSTANTS
  n1 = n1
  n2 = n2
  Names = {n1, n2}
  Callers = {c1}
  CallNames = {n2}
  Wanted <- MCWanted
  Budgets <- MCBudgets
  MaxAttempts = 3
  None = None
INVARIANTS ReadyIsStored HeldNotErased TokensRetired
PROPERTIES TerminatedOnlyWhenStored 
CHECK_DEADLOCK FALSE
