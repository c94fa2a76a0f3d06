SPECIFICATION Spec
CONSTANTS
  alice = alice
  bob = bob
  Users = {alice, bob}
  min_deposit_to_start = 1
  after_block_to_start = 0
  claim_limit_time = 1
  withdraw_limit_count = 2
  RetireLimit = 1
  InitialBasicRewards = 3
  InitialLimitTime = 1
  InitialWallet = 2
  Amounts = {1, 2}
  Charges = {4}
  BasicRewards = {2}
  LimitTimes = {0}
  MaxIssuer = 4
  MaxBlock = 3
  MaxEdits = 1
SYMMETRY UserSymmetry
INVARIANTS TypeOK SharesAgree KeeperCovers RewardsConserved
PROPERTIES NoGainByDeposit
CHECK_DEADLOCK FALSE
