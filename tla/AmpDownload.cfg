SPECIFICATION FairSpec
CONSTANTS
  MaxWaits = 3
  MaxRetry = 3
INVARIANTS TypeOK SuccessIsFresh
PROPERTIES Returns
