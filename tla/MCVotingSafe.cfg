CONSTANTS
  alice = alice
  bob = bob
  NoOne = NoOne
  Users = {alice, bob}
  Polls = {1}
  TotalBalance <- Twenty
  TokenSupply = 3
  VtokenSupply = 2
  Derivatives = {0}
  Available <- JustTheCap
  InitialDelegators <- NoDelegators
  VoteCap = 12
  UndecidingTimeout = 0
  VoteLockingPeriod = 1
  ReferendumCheckInterval = 1
  MaxVotes = 2
  MaxVotesPerDelegate = 2
  RelayAhead = 5
  VoteInputs <- SomeVotes
  DelegateInputs <- OneDelegation
  VoteStatuses = {"Rejected"}
  MaxQueries = 3
  MaxBlock = 1
SYMMETRY UserSymmetry
SPECIFICATION Spec
INVARIANTS TypeOK LocksCover   
CHECK_DEADLOCK FALSE
