CONSTANTS
  Calls = {c1, c2}
  Serial = FALSE
  MaxCred = 3
  MaxLosses = 2
  MaxEdits = 0
SPECIFICATION CredentialsSpec
INVARIANT CredentialRecoverable
CHECK_DEADLOCK FALSE
