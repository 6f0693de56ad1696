CONSTANTS
  Logins = {l1, l2}
  Refreshes = {}
  Changes = {e1}
SPECIFICATION AuthSpec
PROPERTIES
  SuspendedCannotSignIn
CHECK_DEADLOCK FALSE
