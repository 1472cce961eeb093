SPECIFICATION FairSpec
CONSTANTS
  i1 = i1
  i2 = i2
  ann = ann
  nobody = nobody
  w1 = w1
  w2 = w2
  Idle = Idle
  Intents <- MCIntents
  StripeEvents <- Lifecycle
  Donors <- MCDonors
  Anonymous <- nobody
  DonorOf <- MCDonorOf
  Fee <- MCFee
  Workers <- MCWorkers
  MaxFaults = 1
  MaxDeletes = 1
INVARIANTS
  BooksAgree
PROPERTIES
  OutcomesStick
  BookedUnlessFault
CHECK_DEADLOCK FALSE
