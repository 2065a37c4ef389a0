CONSTANTS
  Formats <- MCFormats
  Never = never
  Bad = bad
  SendRates <- Rates16
  ReceiveRates <- AroundRate
  MaxBytes = 3
SPECIFICATION FairSpec
PROPERTIES IsChannel AllArrive
