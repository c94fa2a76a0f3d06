---------------------------- MODULE VtokenMinting ----------------------------
(***************************************************************************)
(* The vtoken-minting pallet (src/pallets/vtoken-minting/src): liquid      *)
(* staking.  Minting turns a token into its vToken at the rate             *)
(* VtokenIssuance : TokenPool.  Redeeming burns the vToken and queues the  *)
(* token amount in three unlock ledgers, which on_idle pays out of the     *)
(* entrance account, time unit by time unit.  Rebonding takes a queued     *)
(* amount back into the pool.                                              *)
(*                                                                         *)
(* An extrinsic either completes or leaves no trace: an action is the      *)
(* successful call and its guard holds every early return.  Governance     *)
(* parameters (fees, minimums, unlock durations, the hook's iteration      *)
(* limit, the token map) are constants.  A currency counts time in one     *)
(* kind of TimeUnit, so a time unit is its number.                         *)
(***************************************************************************)
EXTENDS Integers, FiniteSets, FiniteSetsExt, NatSums, MultiCurrency

CONSTANTS
  Users,
  EntranceAccount,   \* receives minted tokens, pays redeems
  FeeAccount,        \* FeeAccount and RedeemFeeAccount (one in the runtime)
  Tokens, VTokens,
  TokenToVToken,     \* token -> the vToken minted for it
  RedeemEnabled,     \* tokens configured with redeem_enabled
  RebondTokens,      \* tokens added by add_support_rebond_token
  UnlockDuration,    \* token -> time units a redeem waits
  MinimumMint,       \* token -> least amount of a mint
  MinimumRedeem,     \* vToken -> least amount of a redeem
  Permill,           \* parts of one in a Permill (1_000_000)
  MintRate, RedeemRate,       \* Fees
  HookIterationLimit,         \* redeems on_idle handles per token and block
  MaximumUnlockIdOfUser, MaximumUnlockIdOfTimeUnit,
  MaxUnlockId,       \* UnlockId::MAX (u32)
  MaxTimeUnit,       \* u32::MAX, where a time unit saturates
  InitialBalances,
  RedeemTypes,       \* bound: subset of {"Native", "CrossChain"}
  MintAmounts, RedeemAmounts, RebondAmounts,  \* bound: amounts of the calls
  SlpAmounts,        \* bound: amounts the staking side moves
  MaxPool            \* bound: largest pool staking rewards lead to

Currencies == Tokens \cup VTokens
Accounts == Users \cup {EntranceAccount, FeeAccount, TreasuryAccount}

ASSUME MintingAccountsAssumption ==
  /\ Cardinality({EntranceAccount, FeeAccount, TreasuryAccount}) = 3
  /\ {EntranceAccount, FeeAccount, TreasuryAccount} \cap Users = {}
  /\ {EntranceAccount, TreasuryAccount} \subseteq DustWhitelist
ASSUME MintingCurrencyAssumption ==
  /\ Tokens \cap VTokens = {} /\ IsFiniteSet(Tokens)
  /\ TokenToVToken \in [Tokens -> VTokens]
  /\ RedeemEnabled \subseteq Tokens /\ RebondTokens \subseteq Tokens
  /\ ED \in [Currencies -> Nat]
  /\ InitialBalances \in [Currencies -> [Accounts -> Nat]]
ASSUME MintingConfigAssumption ==
  /\ UnlockDuration \in [Tokens -> 0..MaxTimeUnit] /\ MaxTimeUnit \in Nat
  /\ MinimumMint \in [Tokens -> Nat] /\ MinimumRedeem \in [VTokens -> Nat]
  /\ Permill \in Nat \ {0} /\ MintRate \in 0..Permill /\ RedeemRate \in 0..Permill
  /\ HookIterationLimit \in Nat /\ MaxUnlockId \in Nat
  /\ MaximumUnlockIdOfUser \in Nat /\ MaximumUnlockIdOfTimeUnit \in Nat
ASSUME MintingInputAssumption ==
  /\ RedeemTypes \subseteq {"Native", "CrossChain"}
  /\ MintAmounts \cup RedeemAmounts \cup RebondAmounts \cup SlpAmounts \subseteq Nat

VARIABLES
  balances,           \* currency -> account -> free balance
  TokenPool,          \* vToken -> tokens its holders own together
  VtokenIssuance,     \* vToken -> vTokens in circulation, for the rate
  TokenUnlockNextId,  \* vToken -> next unlock id
  ledgers,            \* token -> its unlock ledgers (see IsLedger)
  TokenToRebond,      \* token -> amount rebonded
  MinTimeUnit,        \* token -> time unit on_idle is paying
  OngoingTimeUnit,    \* token -> current time unit of its chain
  staked              \* token -> held by the staking side (SLP, external)

vars == <<balances, TokenPool, VtokenIssuance, TokenUnlockNextId, ledgers,
          TokenToRebond, MinTimeUnit, OngoingTimeUnit, staked>>

UnlockIds == 0..(MaxUnlockId - 1)
TimeUnits == 0..MaxTimeUnit

-----------------------------------------------------------------------------
(* The unlock ledgers of one token: TokenUnlockLedger (token), which maps  *)
(* unlock ids to redeems, UserUnlockLedger (user), TimeUnitUnlockLedger    *)
(* (time_unit) and UnlockingTotal (total).  The last two maps hold a total *)
(* and the list of unlock ids.  Ids only grow and are pushed at the end,   *)
(* so a list is in increasing order and is kept as a set; a missing entry  *)
(* is the empty one.                                                       *)
Redeems == [who : Users, amount : Nat, time : TimeUnits, type : {"Native", "CrossChain"}]
Entries == [total : Nat, ids : SUBSET UnlockIds]
IsLedger(l) ==
  /\ l \in [token : {l.token}, user : [Users -> Entries], time_unit : [TimeUnits -> Entries],
            total : Nat]
  /\ l.token \in [DOMAIN l.token -> Redeems] /\ DOMAIN l.token \subseteq UnlockIds

NoEntry == [total |-> 0, ids |-> {}]
HasEntry(e) == e.ids # {}

AddToEntry(e, id, amount) == [total |-> e.total + amount, ids |-> e.ids \cup {id}]

\* Mutant: the id of a settled redeem stays listed.
SubFromEntryKeepingId(e, id, amount, removed) ==
  IF amount >= e.total THEN NoEntry ELSE [total |-> e.total - amount, ids |-> e.ids]

SubFromEntry(e, id, amount, removed) ==
  IF amount >= e.total THEN NoEntry
  ELSE [total |-> e.total - amount, ids |-> IF removed THEN e.ids \ {id} ELSE e.ids]

CanAdd(l, who, t) ==
  /\ Cardinality(l.user[who].ids) < MaximumUnlockIdOfUser
  /\ Cardinality(l.time_unit[t].ids) < MaximumUnlockIdOfTimeUnit

\* update_unlock_ledger with Operation::Add.
Added(l, who, id, amount, t, type) ==
  [token |-> [i \in DOMAIN l.token \cup {id} |->
                IF i = id THEN [who |-> who, amount |-> amount, time |-> t, type |-> type]
                ELSE l.token[i]],
   user |-> [l.user EXCEPT ![who] = AddToEntry(@, id, amount)],
   time_unit |-> [l.time_unit EXCEPT ![t] = AddToEntry(@, id, amount)],
   total |-> l.total + amount]

CanSubtract(l, who, id, amount, t) ==
  /\ id \in DOMAIN l.token
  /\ HasEntry(l.user[who]) /\ HasEntry(l.time_unit[t])
  /\ amount <= l.total

Removes(l, id, amount) == amount >= l.token[id].amount

\* Mutant: UnlockingTotal is not updated.
SubtractedNotTotal(l, who, id, amount, t) ==
  LET removed == Removes(l, id, amount)
  IN [token |-> IF removed THEN [i \in DOMAIN l.token \ {id} |-> l.token[i]]
                ELSE [l.token EXCEPT ![id].amount = @ - amount],
      user |-> [l.user EXCEPT ![who] = SubFromEntry(@, id, amount, removed)],
      time_unit |-> [l.time_unit EXCEPT ![t] = SubFromEntry(@, id, amount, removed)],
      total |-> l.total]

\* update_unlock_ledger with Operation::Sub.
Subtracted(l, who, id, amount, t) ==
  LET removed == Removes(l, id, amount)
  IN [token |-> IF removed THEN [i \in DOMAIN l.token \ {id} |-> l.token[i]]
                ELSE [l.token EXCEPT ![id].amount = @ - amount],
      user |-> [l.user EXCEPT ![who] = SubFromEntry(@, id, amount, removed)],
      time_unit |-> [l.time_unit EXCEPT ![t] = SubFromEntry(@, id, amount, removed)],
      total |-> l.total - amount]

-----------------------------------------------------------------------------
(* Rates and fees.                                                         *)

mul_floor(rate, amount) == (rate * amount) \div Permill

\* Mutant: rounds up.
get_v_currency_amount_rounded_up(c, amount) ==
  LET v == TokenToVToken[c]
  IN IF TokenPool[v] = 0 THEN amount
     ELSE (amount * VtokenIssuance[v] + TokenPool[v] - 1) \div TokenPool[v]

get_v_currency_amount_by_currency_amount(c, amount) ==
  LET v == TokenToVToken[c]
  IN IF TokenPool[v] = 0 THEN amount
     ELSE (amount * VtokenIssuance[v]) \div TokenPool[v]

get_currency_amount_by_v_currency_amount(c, v_amount) ==
  LET v == TokenToVToken[c]
  IN IF VtokenIssuance[v] = 0 THEN v_amount
     ELSE (v_amount * TokenPool[v]) \div VtokenIssuance[v]

-----------------------------------------------------------------------------
Init ==
  /\ balances = InitialBalances
  /\ TokenPool = [v \in VTokens |-> 0]
  /\ VtokenIssuance = [v \in VTokens |-> 0]
  /\ TokenUnlockNextId = [v \in VTokens |-> 0]
  /\ ledgers = [c \in Tokens |->
                  [token |-> [i \in {} |-> 0],
                   user |-> [u \in Users |-> NoEntry],
                   time_unit |-> [t \in TimeUnits |-> NoEntry],
                   total |-> 0]]
  /\ TokenToRebond = [c \in RebondTokens |-> 0]
  /\ MinTimeUnit = [c \in Tokens |-> 0]
  /\ OngoingTimeUnit = [c \in Tokens |-> 0]
  /\ staked = [c \in Tokens |-> 0]

(* mint_without_transfer on the balances b: the fee leaves the minter and  *)
(* vTokens are deposited for the rest, which joins the pool.               *)
MintFee(amount) == mul_floor(MintRate, amount)
MintNet(amount) == amount - MintFee(amount)
MintedV(c, amount) == get_v_currency_amount_by_currency_amount(c, MintNet(amount))

CanMint(who, c, amount) ==
  LET charged == Transfer(balances, c, who, FeeAccount, MintFee(amount))
  IN /\ CanTransfer(balances, c, who, FeeAccount, MintFee(amount))
     /\ CanDeposit(charged, TokenToVToken[c], who, MintedV(c, amount))

Minted(who, c, amount) ==
  Deposit(Transfer(balances, c, who, FeeAccount, MintFee(amount)),
          TokenToVToken[c], who, MintedV(c, amount))

mint_without_transfer(who, c, amount) ==
  LET v == TokenToVToken[c]
  IN /\ CanMint(who, c, amount)
     /\ TokenPool' = [TokenPool EXCEPT ![v] = @ + MintNet(amount)]
     /\ VtokenIssuance' = [VtokenIssuance EXCEPT ![v] = @ + MintedV(c, amount)]

mint(who, c, amount) ==
  /\ amount >= MinimumMint[c]
  /\ mint_without_transfer(who, c, amount)
  /\ CanTransfer(Minted(who, c, amount), c, who, EntranceAccount, MintNet(amount))
  /\ balances' = Transfer(Minted(who, c, amount), c, who, EntranceAccount, MintNet(amount))
  /\ UNCHANGED <<TokenUnlockNextId, ledgers, TokenToRebond, MinTimeUnit, OngoingTimeUnit,
                 staked>>

-----------------------------------------------------------------------------
saturating_add(a, b) == IF a + b > MaxTimeUnit THEN MaxTimeUnit ELSE a + b

LockToTimeUnit(c) == saturating_add(OngoingTimeUnit[c], UnlockDuration[c])

\* do_redeem; redeem and slpx_redeem choose the type of payment.
do_redeem(who, c, v_amount, type) ==
  LET v == TokenToVToken[c]
      fee == mul_floor(RedeemRate, v_amount)
      net == v_amount - fee
      charged == Transfer(balances, v, who, FeeAccount, fee)
      amount == get_currency_amount_by_v_currency_amount(c, net)
      id == TokenUnlockNextId[v]
      t == LockToTimeUnit(c)
  IN /\ c \in RedeemEnabled
     /\ v_amount >= MinimumRedeem[v]
     /\ CanTransfer(balances, v, who, FeeAccount, fee)
     /\ CanWithdraw(charged, v, who, net)
     /\ net <= VtokenIssuance[v]
     /\ amount <= TokenPool[v]
     /\ CanAdd(ledgers[c], who, t)
     /\ id + 1 <= MaxUnlockId
     /\ balances' = Withdraw(charged, v, who, net)
     /\ VtokenIssuance' = [VtokenIssuance EXCEPT ![v] = @ - net]
     /\ TokenPool' = [TokenPool EXCEPT ![v] = @ - amount]
     /\ ledgers' = [ledgers EXCEPT ![c] = Added(@, who, id, amount, t, type)]
     /\ TokenUnlockNextId' = [TokenUnlockNextId EXCEPT ![v] = id + 1]
     /\ UNCHANGED <<TokenToRebond, MinTimeUnit, OngoingTimeUnit, staked>>

-----------------------------------------------------------------------------
(* rebond walks the user's redeems from the newest and cuts each one by    *)
(* what is still to be rebonded; it stops at the first redeem that         *)
(* survives its cut.  After cutting a redeem of exactly the amount left it *)
(* goes on with that amount.                                               *)

\* The k-th largest and the k-th smallest member of a finite set of ids.
NthLast(ids, k) == CHOOSE i \in ids : Cardinality({j \in ids : j > i}) = k - 1
NthFirst(ids, k) == CHOOSE i \in ids : Cardinality({j \in ids : j < i}) = k - 1

RebondStep(s, who, id) ==
  IF id \notin DOMAIN s.ledger.token THEN [s EXCEPT !.flow = "error"]
  ELSE LET redeem == s.ledger.token[id]
           cut == IF s.left <= redeem.amount THEN s.left ELSE redeem.amount
       IN IF ~CanSubtract(s.ledger, who, id, cut, redeem.time)
          THEN [s EXCEPT !.flow = "error"]
          ELSE [ledger |-> Subtracted(s.ledger, who, id, cut, redeem.time),
                left |-> IF s.left <= redeem.amount THEN s.left ELSE s.left - redeem.amount,
                flow |-> IF Removes(s.ledger, id, cut) THEN "next" ELSE "stop"]

RebondWalk(who, c, amount) ==
  LET ids == ledgers[c].user[who].ids
      walk[k \in 0..Cardinality(ids)] ==
        IF k = 0 THEN [ledger |-> ledgers[c], left |-> amount, flow |-> "next"]
        ELSE LET s == walk[k-1]
             IN IF s.flow = "next" THEN RebondStep(s, who, NthLast(ids, k)) ELSE s
  IN walk[Cardinality(ids)]

rebond(who, c, amount) ==
  LET walked == RebondWalk(who, c, amount)
  IN /\ HasEntry(ledgers[c].user[who])
     /\ ledgers[c].user[who].total >= amount
     /\ walked.flow # "error"
     /\ mint_without_transfer(who, c, amount)
     /\ c \in RebondTokens
     /\ balances' = Minted(who, c, amount)
     /\ ledgers' = [ledgers EXCEPT ![c] = walked.ledger]
     /\ TokenToRebond' = [TokenToRebond EXCEPT ![c] = @ + amount]
     /\ UNCHANGED <<TokenUnlockNextId, MinTimeUnit, OngoingTimeUnit, staked>>

rebond_by_unlock_id(who, c, id) ==
  LET redeem == ledgers[c].token[id]
  IN /\ id \in DOMAIN ledgers[c].token
     /\ redeem.who = who
     /\ CanSubtract(ledgers[c], who, id, redeem.amount, redeem.time)
     /\ mint_without_transfer(who, c, redeem.amount)
     /\ c \in RebondTokens
     /\ balances' = Minted(who, c, redeem.amount)
     /\ ledgers' = [ledgers EXCEPT ![c] = Subtracted(@, who, id, redeem.amount, redeem.time)]
     /\ TokenToRebond' = [TokenToRebond EXCEPT ![c] = @ + MintNet(redeem.amount)]
     /\ UNCHANGED <<TokenUnlockNextId, MinTimeUnit, OngoingTimeUnit, staked>>

-----------------------------------------------------------------------------
(* on_idle.                                                                *)

(* transfer_to_by_redeem_type with these tokens available: how much of     *)
(* the redeem is settled, and how much leaves the entrance account.  A     *)
(* native payment may be partial; one below the existential deposit is     *)
(* settled without a transfer.                                             *)

Settled(c, redeem, available) ==
  IF available >= redeem.amount THEN redeem.amount
  ELSE IF redeem.type = "Native" /\ available >= ED[c] THEN available
  ELSE 0

\* Mutant: a cross-chain payment stays in the entrance account.
PaidNativeOnly(c, redeem, available) ==
  LET settled == Settled(c, redeem, available)
  IN IF redeem.type = "Native" /\ settled >= ED[c] THEN settled ELSE 0

Paid(c, redeem, available) ==
  LET settled == Settled(c, redeem, available)
  IN IF redeem.type = "Native" /\ settled < ED[c] THEN 0 ELSE settled

\* A cross-chain payment leaves through XCM or Hyperbridge (external), which
\* may refuse it; sent says whether it does in this block.
CanPay(b, c, redeem, amount, sent) ==
  IF redeem.type = "Native" THEN CanTransfer(b, c, EntranceAccount, redeem.who, amount)
  ELSE b[c][EntranceAccount] < redeem.amount \/ sent

Pay(b, c, redeem, amount) ==
  IF redeem.type = "Native" THEN Transfer(b, c, EntranceAccount, redeem.who, amount)
  ELSE Withdraw(b, c, EntranceAccount, amount)

\* process_redeem of unlock id in the loop of handle_ledger_by_currency.
ProcessStep(s, c, id, sent) ==
  LET available == s.balances[c][EntranceAccount]
      redeem == s.ledger.token[id]
      settled == Settled(c, redeem, available)
      paid == Paid(c, redeem, available)
  IN IF id \notin DOMAIN s.ledger.token THEN s
     ELSE IF available = 0 THEN [s EXCEPT !.flow = "stop"]
     ELSE IF ~CanPay(s.balances, c, redeem, paid, sent) THEN [s EXCEPT !.flow = "error"]
     ELSE IF settled = 0 THEN s
     ELSE IF ~CanSubtract(s.ledger, redeem.who, id, settled, redeem.time)
          THEN [s EXCEPT !.flow = "error"]
     ELSE [balances |-> Pay(s.balances, c, redeem, paid),
           ledger |-> Subtracted(s.ledger, redeem.who, id, settled, redeem.time),
           flow |-> "next"]

(* handle_ledger_by_currency is transactional: an error undoes the whole   *)
(* batch of the token.  With nothing queued at MinTimeUnit it moves on by  *)
(* one time unit, at most to the one new redeems are locked to.            *)
HandleBatch(c, sent) ==
  LET ids == ledgers[c].time_unit[MinTimeUnit[c]].ids
      start == [balances |-> balances, ledger |-> ledgers[c], flow |-> "next"]
      last == IF Cardinality(ids) < HookIterationLimit THEN Cardinality(ids)
              ELSE HookIterationLimit
      walk[k \in 0..last] ==
        IF k = 0 THEN start
        ELSE LET s == walk[k-1]
             IN IF s.flow = "next" THEN ProcessStep(s, c, NthFirst(ids, k), sent) ELSE s
  IN IF walk[last].flow = "error" THEN start ELSE walk[last]

\* Mutant: MinTimeUnit moves on although redeems of its time unit are queued.
NextMinTimeUnitAlways(c) ==
  IF LockToTimeUnit(c) > MinTimeUnit[c] THEN MinTimeUnit[c] + 1 ELSE MinTimeUnit[c]

NextMinTimeUnit(c) ==
  IF ~HasEntry(ledgers[c].time_unit[MinTimeUnit[c]]) /\ LockToTimeUnit(c) > MinTimeUnit[c]
  THEN MinTimeUnit[c] + 1 ELSE MinTimeUnit[c]

\* The tokens are handled one after the other and share nothing.
on_idle(sent) ==
  /\ balances' = [c \in Currencies |->
                    IF c \in Tokens THEN HandleBatch(c, sent).balances[c] ELSE balances[c]]
  /\ ledgers' = [c \in Tokens |-> HandleBatch(c, sent).ledger]
  /\ MinTimeUnit' = [c \in Tokens |-> NextMinTimeUnit(c)]
  /\ UNCHANGED <<TokenPool, VtokenIssuance, TokenUnlockNextId, TokenToRebond,
                 OngoingTimeUnit, staked>>

-----------------------------------------------------------------------------
(* The staking side (SLP), as far as it calls into the pallet or moves     *)
(* tokens of the entrance account.                                         *)

slp_stake(c, amount) ==
  /\ CanWithdraw(balances, c, EntranceAccount, amount)
  /\ balances' = Withdraw(balances, c, EntranceAccount, amount)
  /\ staked' = [staked EXCEPT ![c] = @ + amount]
  /\ UNCHANGED <<TokenPool, VtokenIssuance, TokenUnlockNextId, ledgers, TokenToRebond,
                 MinTimeUnit, OngoingTimeUnit>>

slp_return(c, amount) ==
  /\ amount <= staked[c]
  /\ balances' = Deposit(balances, c, EntranceAccount, amount)
  /\ staked' = [staked EXCEPT ![c] = @ - amount]
  /\ UNCHANGED <<TokenPool, VtokenIssuance, TokenUnlockNextId, ledgers, TokenToRebond,
                 MinTimeUnit, OngoingTimeUnit>>

\* Staking rewards reported: the stake has grown by amount.
increase_token_pool(c, amount) ==
  LET v == TokenToVToken[c]
  IN /\ staked[c] > 0
     /\ TokenPool[v] + amount <= MaxPool
     /\ TokenPool' = [TokenPool EXCEPT ![v] = @ + amount]
     /\ staked' = [staked EXCEPT ![c] = @ + amount]
     /\ UNCHANGED <<balances, VtokenIssuance, TokenUnlockNextId, ledgers, TokenToRebond,
                    MinTimeUnit, OngoingTimeUnit>>

\* A slash reported: the stake has shrunk by amount.
decrease_token_pool(c, amount) ==
  LET v == TokenToVToken[c]
  IN /\ amount <= staked[c]
     /\ amount <= TokenPool[v]
     /\ TokenPool' = [TokenPool EXCEPT ![v] = @ - amount]
     /\ staked' = [staked EXCEPT ![c] = @ - amount]
     /\ UNCHANGED <<balances, VtokenIssuance, TokenUnlockNextId, ledgers, TokenToRebond,
                    MinTimeUnit, OngoingTimeUnit>>

\* SLP checks that the time unit grows.
update_ongoing_time_unit(c, t) ==
  /\ OngoingTimeUnit[c] < t
  /\ OngoingTimeUnit' = [OngoingTimeUnit EXCEPT ![c] = t]
  /\ UNCHANGED <<balances, TokenPool, VtokenIssuance, TokenUnlockNextId, ledgers,
                 TokenToRebond, MinTimeUnit, staked>>

-----------------------------------------------------------------------------
UserCalls ==
  \/ \E u \in Users, c \in Tokens, a \in MintAmounts : mint(u, c, a)
  \/ \E u \in Users, c \in Tokens, a \in RedeemAmounts, type \in RedeemTypes :
       do_redeem(u, c, a, type)
  \/ \E u \in Users, c \in Tokens, a \in RebondAmounts : rebond(u, c, a)
  \/ \E u \in Users, c \in Tokens : \E id \in DOMAIN ledgers[c].token :
       rebond_by_unlock_id(u, c, id)

Hook == \E sent \in BOOLEAN : on_idle(sent)

Staking ==
  \/ \E c \in Tokens, a \in SlpAmounts : slp_stake(c, a)
  \/ \E c \in Tokens, a \in SlpAmounts : slp_return(c, a)
  \/ \E c \in Tokens, a \in SlpAmounts : increase_token_pool(c, a)
  \/ \E c \in Tokens, a \in SlpAmounts : decrease_token_pool(c, a)
  \/ \E c \in Tokens, t \in TimeUnits : update_ongoing_time_unit(c, t)

Next == UserCalls \/ Hook \/ Staking

Spec == Init /\ [][Next]_vars

(* The system under a staking side that serves the queue: it never stakes  *)
(* what unlocking redeems are waiting for, it is not slashed, and as long  *)
(* as the entrance account is short it goes on returning stake.  Blocks    *)
(* keep coming, and with them on_idle; a cross-chain transfer that is      *)
(* retried in every block gets through in the end.                         *)
short(c) == balances[c][EntranceAccount] < ledgers[c].total

ServingStaking ==
  \/ \E c \in Tokens, a \in SlpAmounts :
       /\ balances[c][EntranceAccount] >= ledgers[c].total + a
       /\ slp_stake(c, a)
  \/ \E c \in Tokens, a \in SlpAmounts : slp_return(c, a)
  \/ \E c \in Tokens, a \in SlpAmounts : increase_token_pool(c, a)
  \/ \E c \in Tokens, t \in TimeUnits : update_ongoing_time_unit(c, t)

ServedSpec ==
  /\ Init /\ [][UserCalls \/ Hook \/ ServingStaking]_vars
  /\ WF_vars(on_idle(TRUE))
  /\ \A c \in Tokens : WF_vars(short(c) /\ \E a \in SlpAmounts : slp_return(c, a))

-----------------------------------------------------------------------------
(* Every storage item holds values of its type.                            *)
TypeOK ==
  /\ balances \in [Currencies -> [Accounts -> Nat]]
  /\ TokenPool \in [VTokens -> Nat]
  /\ VtokenIssuance \in [VTokens -> Nat]
  /\ TokenUnlockNextId \in [VTokens -> 0..MaxUnlockId]
  /\ ledgers = [c \in Tokens |-> ledgers[c]]
  /\ \A c \in Tokens :
       /\ IsLedger(ledgers[c])
       /\ DOMAIN ledgers[c].token \subseteq 0..(TokenUnlockNextId[TokenToVToken[c]] - 1)
  /\ TokenToRebond \in [RebondTokens -> Nat]
  /\ MinTimeUnit \in [Tokens -> TimeUnits]
  /\ OngoingTimeUnit \in [Tokens -> TimeUnits]
  /\ staked \in [Tokens -> Nat]

(* What the redeems of ledger l that satisfy P add up to.                  *)
QueuedWhere(l, P(_)) ==
  SumTo([id \in Nat |-> IF id \in DOMAIN l.token /\ P(l.token[id])
                        THEN l.token[id].amount ELSE 0], MaxUnlockId)

(* Entry e of a user or of a time unit agrees with the redeems that        *)
(* satisfy P: it has their total and lists every one still to be paid.     *)
EntryAgrees(l, e, P(_)) ==
  /\ e.total = QueuedWhere(l, P)
  /\ e.ids \subseteq {id \in DOMAIN l.token : P(l.token[id])}
  /\ {id \in DOMAIN l.token : P(l.token[id]) /\ l.token[id].amount > 0} \subseteq e.ids

(* The three unlock ledgers describe the same redeems, and UnlockingTotal  *)
(* is their sum, through redeems, rebonds, partial payments and failed     *)
(* batches.                                                                *)
LedgerAgrees(l) ==
  /\ \A u \in Users : EntryAgrees(l, l.user[u], LAMBDA r : r.who = u)
  /\ \A t \in TimeUnits : EntryAgrees(l, l.time_unit[t], LAMBDA r : r.time = t)
  /\ l.total = QueuedWhere(l, LAMBDA r : TRUE)
LedgersAgree == \A c \in Tokens : LedgerAgrees(ledgers[c])

(* No redeem is left behind: on_idle only looks at MinTimeUnit and never   *)
(* goes back, so what is still to be paid lies at or after it.             *)
NoRedeemLeftBehind ==
  \A c \in Tokens : \A id \in DOMAIN ledgers[c].token :
    ledgers[c].token[id].amount > 0 => ledgers[c].token[id].time >= MinTimeUnit[c]

(* The tokens of a vToken, in the entrance account and at stake, cover its *)
(* pool and everything that is being unlocked.                             *)
TokensOf(v) == {c \in Tokens : TokenToVToken[c] = v}
Backed ==
  \A v \in VTokens :
    SumFunctionOnSet([c \in Tokens |-> balances[c][EntranceAccount] + staked[c]], TokensOf(v))
      >= TokenPool[v] + SumFunctionOnSet([c \in Tokens |-> ledgers[c].total], TokensOf(v))

(* Whoever mints, redeems or rebonds never lowers what a vToken of the     *)
(* others is worth: TokenPool / VtokenIssuance does not drop.              *)
RateNeverDrops ==
  [][\A v \in VTokens : VtokenIssuance'[v] # VtokenIssuance[v] =>
       TokenPool'[v] * VtokenIssuance[v] >= TokenPool[v] * VtokenIssuance'[v]]_vars

(* "The redeemed currency will be transferred to the redeemer's account"   *)
(* (redeem): every redeem worth something leaves the queue.                *)
Pending(c, id) ==
  id \in DOMAIN ledgers[c].token /\ ledgers[c].token[id].amount > 0
RedeemsSettle == \A c \in Tokens, id \in UnlockIds : Pending(c, id) ~> ~Pending(c, id)

(* "currency_amount: The amount of currency to rebond" (rebond): rebonding *)
(* takes out of the queue exactly what it adds to TokenToRebond.           *)
RebondsExactly ==
  [][\A c \in RebondTokens : TokenToRebond'[c] # TokenToRebond[c] =>
       ledgers[c].total - ledgers'[c].total = TokenToRebond'[c] - TokenToRebond[c]]_vars

-----------------------------------------------------------------------------
(* The pallet implements the abstract queue of redeems: the claims are the *)
(* TokenUnlockLedger, the funds the entrance account's balance, and the    *)
(* time served is MinTimeUnit.                                             *)
Queue == INSTANCE RedeemQueue WITH
  MinPayment <- ED,
  queue <- [c \in Tokens |->
    [id \in DOMAIN ledgers[c].token |->
      [who |-> ledgers[c].token[id].who, amount |-> ledgers[c].token[id].amount,
       due |-> ledgers[c].token[id].time]]],
  issued <- [c \in Tokens |-> TokenUnlockNextId[TokenToVToken[c]]],
  serving <- MinTimeUnit,
  funds <- [c \in Tokens |-> balances[c][EntranceAccount]],
  taken <- [c \in Tokens |-> IF c \in RebondTokens THEN TokenToRebond[c] ELSE 0]

(* Redeeming, rebonding and on_idle keep the promise RedeemQueue makes to  *)
(* redeemers: a rebond cuts redeems of one user only, on_idle pays only    *)
(* what is due and leaves no time unit with redeems to pay, and what       *)
(* leaves the ledger has left the entrance account, dust excepted.         *)
ImplementsQueue == Queue!QSpec
=============================================================================
