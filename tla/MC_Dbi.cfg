CONSTANTS
  Handles = {h1}
  Tmp = tmp
  MaxOps = 6
  MaxRows = 2
  MaxFaults = 1
  MaxText = 2
SPECIFICATION Spec
INVARIANT TypeOK QuoteRoundTrip
PROPERTY DbiTxnSpec CommitKeepsWork
