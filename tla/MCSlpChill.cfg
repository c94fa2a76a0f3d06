SPECIFICATION Spec
CONSTANTS
  v1 = v1
  v2 = v2
  MaxDelegators = 2
  Validators = {v1, v2}
  delegator_bonded_minimum = 1
  bond_extra_minimum = 1
  unbond_minimum = 1
  rebond_minimum = 1
  unbond_record_maximum = 2
  validators_back_maximum = 2
  delegator_active_staking_maximum = 5
  UnlockDelay = 1
  TIMEOUT_BLOCKS = 0
  Permill = 100
  HostingFee = 10
  MaxTune = 20
  TuneLimit = 1
  InitialPool = 100
  InitialIssuance = 90
  InitialEntrance = 1
  InitialBond = 3
  Amounts = {1}
  PoolValues = {20}
  Rewards = {0, 1}
  Readded = {1}
  MaxUnreported = 1
  MaxChannel = 2
  MaxBlock = 1
  MaxEra = 1
  MaxCalls = 3
INVARIANTS ChillKeepsStake
CHECK_DEADLOCK FALSE
