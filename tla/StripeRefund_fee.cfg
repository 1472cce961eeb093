SPECIFICATION Spec
CONSTANTS
  i1 = i1
  i2 = i2
  ann = ann
  nobody = nobody
  w1 = w1
  w2 = w2
  Idle = Idle
  Intents <- MCIntents
  StripeEvents <- OnePayment
  Donors <- MCDonors
  Anonymous <- nobody
  DonorOf <- MCDonorOf
  Fee <- MCFee
  Workers <- MCWorkers
  MaxFaults = 0
  MaxDeletes = 0
INVARIANT
  FeeRolledBackOnce
CHECK_DEADLOCK FALSE
