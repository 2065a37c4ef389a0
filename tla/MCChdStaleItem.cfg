SPECIFICATION FairSpec
CONSTANTS
  NoJob = NoJob
  Ring = 4
  Units = 2
  Blank <- MCBlank
  Child <- MCChild
  Setups <- MCLate
  Errors = FALSE
PROPERTIES WaitEnds
