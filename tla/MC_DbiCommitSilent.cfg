\* db_commit without DBI_THROW_ERRORS: a COMMIT lost with the connection is
\* not reported to the program.
CONSTANTS
  Handles = {h1}
  Tmp = tmp
  MaxOps = 6
  MaxRows = 1
  MaxFaults = 1
  MaxText = 2
SPECIFICATION Spec
PROPERTY CommitKeepsWorkAnyFlags
