\* st_serial when the currval query fails and errors are not thrown.
CONSTANTS
  Handles = {h1}
  Tmp = tmp
  MaxOps = 6
  MaxRows = 2
  MaxFaults = 1
  MaxText = 2
SPECIFICATION Spec
PROPERTY SerialFromServer
