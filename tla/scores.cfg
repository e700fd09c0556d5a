SPECIFICATION Spec
CONSTANTS
  Transactions = {legit, fraud, close}
  Label <- MCLabel
  Reference <- MCReference
  Files <- MCFiles
  Rows = {0, 1, 2}
  Requests <- MCRequests
  Errors <- MCErrors
  Tolerances = {0, 9}
  Unit = 4
  MaxRuns = 2
  Empty = Empty
  Return = Return
  Absent = Absent
  legit = legit
  fraud = fraud
  close = close
INVARIANTS
  TypeOK
  VerdictsConfirmed
  DriftCaught
  RefusedForCause
  ReadersAgree
  FilesBelongTogether
