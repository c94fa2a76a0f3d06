CONSTANTS
  alice = alice
  bob = bob
  pallet = pallet
  treasury = treasury
  vdot = vdot
  vksm = vksm
  usdc = usdc
  NoPrice = NoPrice
  Users = {alice, bob}
  PalletAccount = pallet
  TreasuryAccount = treasury
  VTokens = {vdot}
  OtherCurrencies = {usdc}
  LoanCurrencies = {usdc}
  MaxBalance = 12
  MaxLoanId = 3
  MaxUserLoans = 2
  Permill = 100
  FixedDiv = 10
  LiquidationThreshold = 75
  StakingRewardFee = 50
  ED <- NoED
  DustWhitelist <- AllAccounts
  InitialBalances <- Genesis321
  CollateralAmounts = {1, 2}
  LoanAmounts = {0, 2}
  FundAmounts = {2}
  CycleRewards = {2}
  PriceReports = {10}
SYMMETRY UserSymmetry
SPECIFICATION FundedSpec
INVARIANTS TypeOK UserLoansIndex SettledOweNothing Solvency Repayable
PROPERTIES LoansOnlySettle RepaidExactly
