--------------------------------- MODULE Loyalty ---------------------------------
(***************************************************************************)
(* The loyalty service over its database, one step per SQL statement.      *)
(*                                                                         *)
(* A handler is a goroutine serving one gRPC call inside one PostgreSQL    *)
(* transaction (READ COMMITTED). A transaction works on its own version of *)
(* the account row (row[h]) from the moment it holds the row's lock; the   *)
(* others see nothing of it before the commit. Every error return and      *)
(* every expired deadline ends in the deferred tx.Rollback(), at whatever  *)
(* statement it strikes.                                                   *)
(***************************************************************************)
EXTENDS LoyaltyRules

CONSTANTS
  Phones,       \* the customers, identified by phone number
  Handlers,     \* the goroutines that serve EarnPoints and RedeemPoints
  Totals,       \* the totals a request may carry
  Redemptions,  \* the points a request may ask to redeem
  Free          \* nobody holds the lock

ASSUME PhonesAssumption == Phones # {}
ASSUME TotalsAssumption == Totals \subseteq Nat
ASSUME RedemptionsAssumption == Redemptions \subseteq Int32
ASSUME FreeAssumption == Free \notin Handlers

VARIABLES
  account,  \* loyalty_accounts, by phone: what is committed
  ledger,   \* loyalty_transactions, by phone and added up: what is committed
  lock,     \* the transaction that holds the account's row lock
  pc,       \* where each handler is
  req,      \* the request it serves
  row       \* its transaction's version of the account row

vars == <<account, ledger, lock, pc, req, row>>

Request == [op: {"earn", "redeem"}, phone: Phones, total: Totals \cup {0},
            points: Int32]

\* What a handler's request and row are while it serves nothing.
NoRequest == [op |-> "redeem", phone |-> CHOOSE p \in Phones : TRUE,
              total |-> 0, points |-> 0]

\* Between its first and its last statement a transaction holds the lock.
Holding == {"read", "updated", "posted"}

(* Every value fits its column or its Go type: no int32 wraps and no spend *)
(* exceeds its NUMERIC(10,2).                                              *)
TypeOK ==
  /\ account \in [Phones -> Account]
  /\ ledger \in [Phones -> Ledger]
  /\ lock \in [Phones -> Handlers \cup {Free}]
  /\ pc \in [Handlers -> {"idle", "begun"} \cup Holding]
  /\ req \in [Handlers -> Request]
  /\ row \in [Handlers -> Account]

Init ==
  /\ account = [p \in Phones |-> NoAccount]
  /\ ledger = [p \in Phones |-> NoLedger]
  /\ lock = [p \in Phones |-> Free]
  /\ pc = [h \in Handlers |-> "idle"]
  /\ req = [h \in Handlers |-> NoRequest]
  /\ row = [h \in Handlers |-> NoAccount]

-----------------------------------------------------------------------------------
(* The end of a transaction: the lock is released, the handler is free.    *)

Release(h) ==
  /\ lock' = [p \in Phones |-> IF lock[p] = h THEN Free ELSE lock[p]]
  /\ pc' = [pc EXCEPT ![h] = "idle"]
  /\ req' = [req EXCEPT ![h] = NoRequest]
  /\ row' = [row EXCEPT ![h] = NoAccount]

(* Wrong: statements outside a transaction stay when the handler fails.    *)
RollbackKeepsUpdate(h) ==
  /\ pc[h] # "idle"
  /\ Release(h)
  /\ IF pc[h] \in {"updated", "posted"}
       THEN account' = [account EXCEPT ![req[h].phone] = row[h]]
       ELSE UNCHANGED account
  /\ UNCHANGED ledger

Rollback(h) ==
  /\ pc[h] # "idle"
  /\ Release(h)
  /\ UNCHANGED <<account, ledger>>

(* The row this transaction adds to loyalty_transactions.                  *)
Posting(h) ==
  LET old == ledger[req[h].phone] IN
  IF req[h].op = "earn"
    THEN EarnPosting(old, req[h].points)
    ELSE RedeemPosting(old, req[h].points)

Commit(h) ==
  /\ pc[h] = "posted"
  /\ account' = [account EXCEPT ![req[h].phone] = row[h]]
  /\ ledger' = [ledger EXCEPT ![req[h].phone] = Posting(h)]
  /\ Release(h)

(* The INSERT into loyalty_transactions; only Commit makes it visible.     *)
Post(h) ==
  /\ pc[h] = "updated"
  /\ pc' = [pc EXCEPT ![h] = "posted"]
  /\ UNCHANGED <<account, ledger, lock, req, row>>

-----------------------------------------------------------------------------------
(* EarnPoints.                                                             *)

EarnBegin(h, p, total) ==
  /\ pc[h] = "idle"
  /\ total > 0
  /\ \E points \in EarnedPoints(total) :
       req' = [req EXCEPT ![h] = [op |-> "earn", phone |-> p, total |-> total,
                                  points |-> points]]
  /\ pc' = [pc EXCEPT ![h] = "begun"]
  /\ UNCHANGED <<account, ledger, lock, row>>

(* INSERT ... ON CONFLICT DO UPDATE ... RETURNING creates or locks the row *)
(* and reads it.                                                           *)
EarnUpsert(h) ==
  LET p == req[h].phone IN
  /\ pc[h] = "begun"
  /\ req[h].op = "earn"
  /\ lock[p] = Free
  /\ lock' = [lock EXCEPT ![p] = h]
  /\ row' = [row EXCEPT ![h] = Opened(account[p])]
  /\ pc' = [pc EXCEPT ![h] = "read"]
  /\ UNCHANGED <<account, ledger, req>>

(* Wrong: a column that never overflows.                                   *)
EarnUpdateUnbounded(h) ==
  /\ pc[h] = "read"
  /\ req[h].op = "earn"
  /\ row' = [row EXCEPT ![h] = EarnOn(row[h], req[h].total, req[h].points)]
  /\ pc' = [pc EXCEPT ![h] = "updated"]
  /\ UNCHANGED <<account, ledger, lock, req>>

(* An amount the column cannot hold makes the UPDATE fail: only Rollback   *)
(* is left to the handler then.                                            *)
EarnUpdate(h) ==
  /\ pc[h] = "read"
  /\ req[h].op = "earn"
  /\ Stored(row[h].spent + req[h].total) =< MaxSpent
  /\ row' = [row EXCEPT ![h] = EarnOn(row[h], req[h].total, req[h].points)]
  /\ pc' = [pc EXCEPT ![h] = "updated"]
  /\ UNCHANGED <<account, ledger, lock, req>>

-----------------------------------------------------------------------------------
(* RedeemPoints.                                                           *)

RedeemBegin(h, p, n) ==
  /\ pc[h] = "idle"
  /\ n > 0
  /\ req' = [req EXCEPT ![h] = [op |-> "redeem", phone |-> p, total |-> 0,
                                points |-> n]]
  /\ pc' = [pc EXCEPT ![h] = "begun"]
  /\ UNCHANGED <<account, ledger, lock, row>>

(* Wrong: the SELECT without FOR UPDATE.                                   *)
RedeemReadUnlocked(h) ==
  /\ pc[h] = "begun"
  /\ req[h].op = "redeem"
  /\ account[req[h].phone].exists
  /\ row' = [row EXCEPT ![h] = account[req[h].phone]]
  /\ pc' = [pc EXCEPT ![h] = "read"]
  /\ UNCHANGED <<account, ledger, lock, req>>

(* SELECT ... FOR UPDATE; the handler waits for the row's lock.            *)
RedeemRead(h) ==
  LET p == req[h].phone IN
  /\ pc[h] = "begun"
  /\ req[h].op = "redeem"
  /\ account[p].exists
  /\ lock[p] = Free
  /\ lock' = [lock EXCEPT ![p] = h]
  /\ row' = [row EXCEPT ![h] = account[p]]
  /\ pc' = [pc EXCEPT ![h] = "read"]
  /\ UNCHANGED <<account, ledger, req>>

(* Without a committed row there is nothing to wait for: NotFound, even    *)
(* while another transaction is creating the row.                          *)
RedeemNotFound(h) ==
  /\ pc[h] = "begun"
  /\ req[h].op = "redeem"
  /\ ~ account[req[h].phone].exists
  /\ Release(h)
  /\ UNCHANGED <<account, ledger>>

(* Wrong: the early return without the deferred rollback.                  *)
RedeemInsufficientKeepsLock(h) ==
  /\ pc[h] = "read"
  /\ req[h].op = "redeem"
  /\ row[h].points < req[h].points
  /\ pc' = [pc EXCEPT ![h] = "idle"]
  /\ req' = [req EXCEPT ![h] = NoRequest]
  /\ row' = [row EXCEPT ![h] = NoAccount]
  /\ UNCHANGED <<account, ledger, lock>>

RedeemInsufficient(h) ==
  /\ pc[h] = "read"
  /\ req[h].op = "redeem"
  /\ row[h].points < req[h].points
  /\ Release(h)
  /\ UNCHANGED <<account, ledger>>

(* Wrong: no look at the balance.                                          *)
RedeemUpdateUnchecked(h) ==
  /\ pc[h] = "read"
  /\ req[h].op = "redeem"
  /\ row' = [row EXCEPT ![h] = RedeemOn(row[h], req[h].points)]
  /\ pc' = [pc EXCEPT ![h] = "updated"]
  /\ UNCHANGED <<account, ledger, lock, req>>

RedeemUpdate(h) ==
  /\ pc[h] = "read"
  /\ req[h].op = "redeem"
  /\ row[h].points >= req[h].points
  /\ row' = [row EXCEPT ![h] = RedeemOn(row[h], req[h].points)]
  /\ pc' = [pc EXCEPT ![h] = "updated"]
  /\ UNCHANGED <<account, ledger, lock, req>>

-----------------------------------------------------------------------------------
(* The gateway's customer screens, single statements that commit at once.  *)
(* Both wait for a transaction that holds the row.                         *)

UpsertCustomer(p) ==
  /\ lock[p] = Free
  /\ ~ account[p].exists
  /\ account' = [account EXCEPT ![p] = Opened(account[p])]
  /\ UNCHANGED <<ledger, lock, pc, req, row>>

(* The foreign key of loyalty_transactions refuses the DELETE of an        *)
(* account that has a ledger; the gateway ignores the refusal.             *)
DeleteCustomer(p) ==
  /\ lock[p] = Free
  /\ account[p].exists
  /\ ~ ledger[p].posted
  /\ account' = [account EXCEPT ![p] = NoAccount]
  /\ UNCHANGED <<ledger, lock, pc, req, row>>

-----------------------------------------------------------------------------------
Step(h) ==
  \/ EarnUpsert(h)
  \/ EarnUpdate(h)
  \/ RedeemRead(h)
  \/ RedeemNotFound(h)
  \/ RedeemInsufficient(h)
  \/ RedeemUpdate(h)
  \/ Post(h)
  \/ Commit(h)
  \/ Rollback(h)

Begin(h) ==
  \E p \in Phones :
    \/ \E total \in Totals : EarnBegin(h, p, total)
    \/ \E n \in Redemptions : RedeemBegin(h, p, n)

Next ==
  \/ \E h \in Handlers : Begin(h) \/ Step(h)
  \/ \E p \in Phones : UpsertCustomer(p) \/ DeleteCustomer(p)

Spec == Init /\ [][Next]_vars

(* The gateway gives every call a deadline (3 s or 12 s), so a handler     *)
(* that is waiting for a lock, or that nobody answers, rolls back.         *)
FairSpec == Spec /\ \A h \in Handlers : WF_vars(Step(h))

-----------------------------------------------------------------------------------
(* What makes the service correct.                                         *)

(* The balance of every account is what its ledger says: points earned     *)
(* minus points redeemed, whatever transactions met on the account.        *)
LedgerBalances ==
  \A p \in Phones : account[p].points = ledger[p].earned - ledger[p].redeemed

(* No account owes points, nor has earned more of them than the pesos it   *)
(* has spent: the int32 conversion and sum never wrap, because the         *)
(* NUMERIC(10,2) column refuses the spend first.                           *)
PointsWithinSpend ==
  \A p \in Phones :
    /\ account[p].points >= 0
    /\ ledger[p].earned * Peso =< account[p].spent

(* The tier is that of the spend, computed before the column rounded it:   *)
(* it may lag by half a cent behind the stored spend, never run ahead.     *)
TierFollowsSpend ==
  \A p \in Phones :
    \E d \in 0 .. Cent \div 2 :
      account[p].tier = CalculateTier(account[p].spent - d)

(* A redemption spends points, never standing: the accumulated spend and   *)
(* the tier of an account only grow.                                       *)
StandingNeverDrops ==
  [][\A p \in Phones :
       /\ account'[p].spent >= account[p].spent
       /\ TierRank(account'[p].tier) >= TierRank(account[p].tier)]_vars

(* A transaction does not keep an account locked: the deferred rollback    *)
(* covers every return, the refusals included.                             *)
LocksAreReleased ==
  \A p \in Phones : \A h \in Handlers : lock[p] = h ~> lock[p] # h

(* What a handler has read is what is committed, and what it will write    *)
(* follows from that.                                                      *)
CurrentRow(h) ==
  LET acc == account[req[h].phone] IN
  /\ pc[h] \in Holding => lock[req[h].phone] = h
  /\ pc[h] = "read" =>
       IF req[h].op = "earn"
         THEN row[h] = Opened(acc)
         ELSE acc.exists /\ row[h] = acc
  /\ pc[h] \in {"updated", "posted"} =>
       IF req[h].op = "earn"
         THEN /\ Stored(acc.spent + req[h].total) =< MaxSpent
              /\ row[h] = EarnOn(acc, req[h].total, req[h].points)
         ELSE /\ acc.exists
              /\ req[h].points =< acc.points
              /\ row[h] = RedeemOn(acc, req[h].points)

(* No transaction works on a stale row, from the statement that read the row *)
(* to the commit.                                                          *)
NoStaleRow == \A h \in Handlers : CurrentRow(h)

(* The interleaved transactions amount to purchases and redemptions that   *)
(* happen one at a time.                                                   *)
Accounts == INSTANCE LoyaltyAccounts

(* Every behaviour of the service is one of the atomic accounts: EarnPoints *)
(* and RedeemPoints take effect at their commit or not at all.             *)
ImplementsAccounts == Accounts!Spec

===================================================================================
