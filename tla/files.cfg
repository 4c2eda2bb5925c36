SPECIFICATION FairSpec
CONSTANTS
  t1 = t1
  t2 = t2
  name = name
  Local = Local
  Transfers = {t1, t2}
  NameOf <- OneName
  SizeOf <- OnePiece
  MaxCopies = 2
  OfferSlots = 1
  ResultSlots = 1
  MaxRuns = 2
  MayTimeOut = TRUE
  MayChange = TRUE
  DiskMayFail = TRUE
INVARIANTS SavedWhole Consent
PROPERTIES NothingOverwritten Settled
CHECK_DEADLOCK FALSE
