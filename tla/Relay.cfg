SPECIFICATION MCSpec
CONSTANTS
  billed = billed
  free = free
  other = other
  r1 = r1
  r2 = r2
  r3 = r3
  r4 = r4
  r5 = r5
  r6 = r6
  r7 = r7
  f1 = f1
  f2 = f2
  Nobody = Nobody
  Payments = {billed, free, other}
  Requests = {r1, r2, r3, r4, r5, r6, r7}
  Pays <- MCPays
  Base = {billed, free}
  Keyed = {billed}
  Facilitators = {f1, f2}
  FreeLimit = 1
SYMMETRY RequestSymmetry
INVARIANTS PaysOnce ConfirmedIsPaid ChargedOnce
CHECK_DEADLOCK FALSE
