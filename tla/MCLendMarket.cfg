CONSTANTS
  alice = alice
  bob = bob
  pallet = pallet
  incentive = incentive
  treasury = treasury
  dot = dot
  ksm = ksm
  Users = {alice, bob}
  PalletAccount = pallet
  IncentiveAccount = incentive
  TreasuryAccount = treasury
  DustWhitelist = {treasury}
  ED <- DotED
  Assets = {dot, ksm}
  LiquidationFreeAssetId = ksm
  ONE = 1000
  PARTS = 100
  MIN_EXCHANGE_RATE = 500
  SECONDS_PER_YEAR = 1
  InitialMarkets <- KsmPending
  MarketUpdates <- Supervised
  Bonds <- DotBond
  FreeCollaterals <- KsmFree
  InitialBalances <- Genesis
  InitialPrices <- StartPrices
  InitialBonds <- KsmBond
  Prices = {0, 4000}
  Mints = {4}
  Redeems = {4}
  Borrows = {4}
  Transfers = {8}
  Repayments = {3}
  ReserveAmounts = {1}
  Ticks = {2}
  MaxTime = 3
  Changed = {ksm}
  MaxChanges = 1
SPECIFICATION Spec
INVARIANTS TypeOK SupplyAgrees
PROPERTIES RateNeverFalls BorrowCovered
CHECK_DEADLOCK FALSE
