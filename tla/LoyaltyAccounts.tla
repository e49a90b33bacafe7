----------------------------- MODULE LoyaltyAccounts -----------------------------
(***************************************************************************)
(* What the loyalty service promises its callers: every purchase and every *)
(* redemption happens at once, on the account as it is at that instant, in *)
(* unbounded arithmetic, and leaves its row in the ledger.                 *)
(***************************************************************************)
EXTENDS LoyaltyRules

CONSTANTS
  Phones,     \* the customers, identified by phone number
  Totals,     \* the totals a purchase may have
  Redemptions \* the points a redemption may ask for

VARIABLES
  account,    \* loyalty_accounts, by phone
  ledger      \* loyalty_transactions, by phone and added up

vars == <<account, ledger>>

Init ==
  /\ account = [p \in Phones |-> NoAccount]
  /\ ledger = [p \in Phones |-> NoLedger]

Open(p) ==
  /\ account' = [account EXCEPT ![p] = Opened(account[p])]
  /\ UNCHANGED ledger

Close(p) ==
  /\ ~ ledger[p].posted
  /\ account' = [account EXCEPT ![p] = NoAccount]
  /\ UNCHANGED ledger

Earn(p, total) ==
  LET spent == account[p].spent + total IN
  /\ total > 0
  /\ Stored(spent) =< MaxSpent
  /\ account' = [account EXCEPT ![p] =
       [exists |-> TRUE,
        points |-> account[p].points + total \div Peso,
        spent  |-> Stored(spent),
        tier   |-> CalculateTier(spent)]]
  /\ ledger' = [ledger EXCEPT ![p] = EarnPosting(ledger[p], total \div Peso)]

Redeem(p, n) ==
  /\ account[p].exists
  /\ n > 0
  /\ n =< account[p].points
  /\ account' = [account EXCEPT ![p] = RedeemOn(account[p], n)]
  /\ ledger' = [ledger EXCEPT ![p] = RedeemPosting(ledger[p], n)]

Next ==
  \E p \in Phones :
    \/ Open(p)
    \/ Close(p)
    \/ \E total \in Totals : Earn(p, total)
    \/ \E n \in Redemptions : Redeem(p, n)

Spec == Init /\ [][Next]_vars

=================================================================================
