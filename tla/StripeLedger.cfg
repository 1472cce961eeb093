SPECIFICATION Spec
CONSTANTS
  i1 = i1
  i2 = i2
  ann = ann
  nobody = nobody
  w1 = w1
  w2 = w2
  Idle = Idle
  Intents <- MCIntents
  StripeEvents <- Ledger
  Donors <- MCDonors
  Anonymous <- nobody
  DonorOf <- MCDonorOf
  Fee <- MCFee
  Workers <- MCWorkers
  MaxFaults = 1
  MaxDeletes = 1
INVARIANTS
  BookedOnce
  NoDoubleRollback
  FeeLedger
  OneConstituentPerEmail
PROPERTY
  ImplementsAccounts
CONSTRAINT RefundsHaveEvents
SYMMETRY Symmetry
CHECK_DEADLOCK FALSE
