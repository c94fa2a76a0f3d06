CONSTANTS
  alice = alice
  bob = bob
  entrance = entrance
  fees = fees
  treasury = treasury
  eth = eth
  hpeth = hpeth
  veth = veth
  Users = {alice, bob}
  EntranceAccount = entrance
  FeeAccount = fees
  TreasuryAccount = treasury
  DustWhitelist = {entrance, fees, treasury}
  ED <- TwoED
  Tokens = {eth}
  VTokens = {veth}
  TokenToVToken <- ToVeth
  RedeemEnabled = {eth}
  RebondTokens = {eth}
  UnlockDuration <- OneUnit
  MinimumMint <- NoMinimumMint
  MinimumRedeem <- OneRedeem
  Permill = 3
  MintRate = 1
  RedeemRate = 1
  HookIterationLimit = 1
  MaximumUnlockIdOfUser = 2
  MaximumUnlockIdOfTimeUnit = 2
  MaxUnlockId = 3
  MaxTimeUnit = 2
  InitialBalances <- Genesis3
  RedeemTypes = {"Native", "CrossChain"}
  MintAmounts = {3}
  RedeemAmounts = {1, 2}
  RebondAmounts = {1, 2}
  SlpAmounts = {2}
  MaxPool = 2
SYMMETRY UserSymmetry
SPECIFICATION Spec
INVARIANTS TypeOK LedgersAgree NoRedeemLeftBehind 
PROPERTIES RateNeverDrops 
CHECK_DEADLOCK FALSE
