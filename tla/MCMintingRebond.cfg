CONSTANTS
  alice = alice
  bob = bob
  entrance = entrance
  fees = fees
  treasury = treasury
  eth = eth
  hpeth = hpeth
  veth = veth
  Users = {alice}
  EntranceAccount = entrance
  FeeAccount = fees
  TreasuryAccount = treasury
  DustWhitelist = {entrance, treasury}
  ED <- NoED
  Tokens = {eth}
  VTokens = {veth}
  TokenToVToken <- ToVeth
  RedeemEnabled = {eth}
  RebondTokens = {eth}
  UnlockDuration <- OneUnit
  MinimumMint <- NoMinimumMint
  MinimumRedeem <- OneRedeem
  Permill = 4
  MintRate = 0
  RedeemRate = 0
  HookIterationLimit = 1
  MaximumUnlockIdOfUser = 2
  MaximumUnlockIdOfTimeUnit = 2
  MaxUnlockId = 2
  MaxTimeUnit = 2
  InitialBalances <- Genesis2
  RedeemTypes = {"Native", "CrossChain"}
  MintAmounts = {2}
  RedeemAmounts = {1, 2}
  RebondAmounts = {1, 2}
  SlpAmounts = {1}
  MaxPool = 3
SPECIFICATION Spec
PROPERTIES RebondsExactly
CHECK_DEADLOCK FALSE
