SPECIFICATION FairSpec
CONSTANTS
  NoJob = NoJob
  Ring = 4
  Units = 2
  Blank <- MCBlank
  Child <- MCChild
  Setups <- MCSetups
  Errors = TRUE
INVARIANTS StoredRight DataStay AssertionsHold HashedAll
PROPERTIES Ends
