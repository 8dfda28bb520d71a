\* st_fetch after an st_execute that failed on the connection.
CONSTANTS
  Handles = {h1}
  Tmp = tmp
  MaxOps = 6
  MaxRows = 2
  MaxFaults = 1
  MaxText = 2
SPECIFICATION Spec
PROPERTY FetchCurrent
