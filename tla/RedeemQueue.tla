----------------------------- MODULE RedeemQueue -----------------------------
(***************************************************************************)
(* What vtoken-minting promises a redeemer, without its ledgers.  A redeem *)
(* is a claim with an owner, an amount and a due time unit.  A claim keeps *)
(* its owner and its due time and only ever shrinks: when its owner takes  *)
(* it back, which is counted, or when it is paid.  Claims are paid out of  *)
(* the funds, one due time after the other: the time being served moves on *)
(* only when nothing is left to pay in it.  A cut of at least MinPayment   *)
(* costs the funds what it takes off the claim; a smaller one may be       *)
(* written off.                                                            *)
(***************************************************************************)
EXTENDS Integers, FiniteSets, Functions

CONSTANTS Tokens, Users, MinPayment

VARIABLES
  queue,     \* token -> claim id -> [who, amount, due]
  issued,    \* token -> ids handed out so far
  serving,   \* token -> due time being paid
  funds,     \* token -> what claims can be paid from
  taken      \* token -> counter of what was taken back

qvars == <<queue, issued, serving, funds, taken>>

QInit ==
  /\ \A c \in Tokens : DOMAIN queue[c] = {}
  /\ issued = [c \in Tokens |-> 0]
  /\ serving = [c \in Tokens |-> 0]
  /\ taken = [c \in Tokens |-> 0]

\* The queue q of a token becomes r, and only claims in S are cut or leave.
Cut(q, r, S) ==
  /\ DOMAIN r \subseteq DOMAIN q
  /\ DOMAIN q \ S \subseteq DOMAIN r
  /\ \A i \in DOMAIN r :
       /\ r[i].who = q[i].who /\ r[i].due = q[i].due /\ r[i].amount <= q[i].amount
       /\ i \notin S => r[i].amount = q[i].amount

CutOf(q, r, i) == q[i].amount - (IF i \in DOMAIN r THEN r[i].amount ELSE 0)

\* A new claim, with an id never used before, not due before the time served.
Claim(c) ==
  LET id == issued[c]
  IN /\ issued'[c] = id + 1
     /\ id \notin DOMAIN queue[c]
     /\ DOMAIN queue'[c] = DOMAIN queue[c] \cup {id}
     /\ \A i \in DOMAIN queue[c] : queue'[c][i] = queue[c][i]
     /\ queue'[c][id].who \in Users
     /\ queue'[c][id].due >= serving[c]
     /\ \A d \in Tokens \ {c} : queue'[d] = queue[d]
     /\ UNCHANGED <<serving, funds, taken>>

\* One user takes back from its own claims, and it is counted.
TakeBack(u, c) ==
  /\ (\E i \in DOMAIN queue[c] : CutOf(queue[c], queue'[c], i) > 0) => taken'[c] > taken[c]
  /\ Cut(queue[c], queue'[c], {i \in DOMAIN queue[c] : queue[c][i].who = u})
  /\ \A d \in Tokens \ {c} : queue'[d] = queue[d] /\ taken'[d] = taken[d]
  /\ UNCHANGED <<issued, serving, funds>>

\* Claims due at the time served are paid, or the next time is served.
Serve(c) ==
  LET due == {i \in DOMAIN queue[c] : queue[c][i].due = serving[c]}
      cut(i) == CutOf(queue[c], queue'[c], i)
      spent == funds[c] - funds'[c]
  IN /\ Cut(queue[c], queue'[c], due)
     /\ spent <= SumFunctionOnSet([i \in due |-> cut(i)], due)
     /\ spent >= SumFunctionOnSet([i \in due |-> IF cut(i) >= MinPayment[c] THEN cut(i) ELSE 0],
                                  due)
     /\ \/ serving'[c] = serving[c]
        \/ /\ serving'[c] = serving[c] + 1
           /\ \A i \in due : queue[c][i].amount = 0

\* Money comes and goes; the claims stay.
Fund == UNCHANGED <<queue, issued, serving, taken>>

QNext ==
  \/ \E c \in Tokens : Claim(c)
  \/ \E c \in Tokens, u \in Users : TakeBack(u, c)
  \/ (\A c \in Tokens : Serve(c)) /\ UNCHANGED <<issued, taken>>
  \/ Fund

QSpec == QInit /\ [][QNext]_qvars
=============================================================================
