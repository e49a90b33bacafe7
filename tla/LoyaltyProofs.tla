------------------------------ MODULE LoyaltyProofs ------------------------------
(***************************************************************************)
(* Proofs about the loyalty service for any number of customers, handlers  *)
(* and amounts: the accounts balance with their ledgers, never wrap, keep  *)
(* the tier their spend deserves, and the interleaved transactions         *)
(* implement the atomic operations of LoyaltyAccounts.                     *)
(***************************************************************************)
EXTENDS Loyalty, TLAPS

USE DEF Cent, Peso

-----------------------------------------------------------------------------------
(* Arithmetic.                                                             *)

(* Rounding to the cent moves an amount by half a cent at most, and never  *)
(* across a whole number of cents.                                         *)
LEMMA StoredRounds ==
  ASSUME NEW a \in Nat
  PROVE  /\ Stored(a) \in Nat
         /\ Stored(a) =< a + 5
         /\ a =< Stored(a) + 4
         /\ \A k \in Nat : k * 10 =< a => k * 10 =< Stored(a)
         /\ \A k \in Nat : a < k * 10 => Stored(a) =< k * 10
  BY DEF Stored

(* What is stored is a whole number of cents, and more is stored of more.  *)
LEMMA StoredIsStable ==
  ASSUME NEW a \in Nat
  PROVE  Stored(Stored(a)) = Stored(a)
  BY DEF Stored

(* Storing is monotone: more is stored of more.                            *)
LEMMA StoredMonotone ==
  ASSUME NEW a \in Nat, NEW b \in Nat
  PROVE  Stored(a) =< Stored(a + b)
  BY DEF Stored

(* A whole number of pesos within an amount is within what is stored of it. *)
LEMMA StoredKeepsPesos ==
  ASSUME NEW a \in Nat, NEW n \in Nat, n * Peso =< a
  PROVE  n * Peso =< Stored(a)
  BY DEF Stored

(* An amount the column accepts is worth an int32 of points: neither the   *)
(* conversion nor the sum of EarnPoints leaves the range.                  *)
LEMMA PointsFit ==
  ASSUME NEW a \in Nat, Stored(a) =< MaxSpent
  PROVE  a \div Peso \in Nat /\ a \div Peso =< Int32Max
<1>1. MaxSpent \in Nat /\ MaxSpent % 10 = 0 /\ Int32Max \in Nat
      /\ MaxSpent \div 1000 =< Int32Max
  BY MaxSpentAssumption, Int32MaxAssumption
<1>2. a =< MaxSpent + 4
  BY StoredRounds, <1>1
<1>3. a \div 1000 =< MaxSpent \div 1000
  BY <1>1, <1>2, Z3
<1> QED BY <1>1, <1>3

(* The points of a purchase, at most one per peso.                         *)
LEMMA WholePesos ==
  ASSUME NEW t \in Nat
  PROVE  t \div Peso \in Nat /\ (t \div Peso) * Peso =< t
  BY Z3

(* calculateTier returns one of the four tiers.                            *)
LEMMA TierType == \A s \in Int : CalculateTier(s) \in Tiers
  BY DEF CalculateTier, Tiers

(* More spend never means a lower tier.                                    *)
LEMMA TierMonotone ==
  ASSUME NEW s \in Int, NEW t \in Int, s =< t
  PROVE  TierRank(CalculateTier(s)) =< TierRank(CalculateTier(t))
  BY DEF CalculateTier, TierRank, TierSilver, TierGold, TierPlatinum

(* The thresholds are whole cents: the stored spend earns at least the     *)
(* tier of the exact one, and half a cent less earns at most that.         *)
LEMMA TierOfStored ==
  ASSUME NEW a \in Nat
  PROVE  \E d \in 0 .. Cent \div 2 :
           CalculateTier(a) = CalculateTier(Stored(a) - d)
<1>0. /\ Stored(a) \in Nat /\ Stored(a) =< a + 5
      /\ \A k \in Nat : k * 10 =< a => k * 10 =< Stored(a)
  BY StoredRounds
<1>1. CASE a =< Stored(a)
  <2>1. Stored(a) - a \in 0 .. 5 /\ Stored(a) - (Stored(a) - a) = a
    BY <1>0, <1>1
  <2> QED BY <2>1
<1>2. CASE Stored(a) < a
  <2>1. /\ 50000 * 10 =< a => 50000 * 10 =< Stored(a)
        /\ 200000 * 10 =< a => 200000 * 10 =< Stored(a)
        /\ 500000 * 10 =< a => 500000 * 10 =< Stored(a)
    BY <1>0
  <2>2. CalculateTier(a) = CalculateTier(Stored(a) - 0)
    BY <1>0, <1>2, <2>1
    DEF CalculateTier, TierSilver, TierGold, TierPlatinum
  <2> QED BY <2>2
<1> QED BY <1>0, <1>1, <1>2

-----------------------------------------------------------------------------------
(* One account and its ledger.                                             *)

(* What holds of an account and its ledger between transactions: the parts *)
(* of the safety properties, and that a row without a ledger is blank      *)
(* (DeleteCustomer takes no spend and no tier away).                       *)
Sound(acc, led) ==
  /\ acc.points = led.earned - led.redeemed
  /\ acc.points >= 0
  /\ led.earned * Peso =< acc.spent
  /\ Stored(acc.spent) = acc.spent
  /\ \E d \in 0 .. Cent \div 2 : acc.tier = CalculateTier(acc.spent - d)
  /\ led.posted => acc.exists
  /\ ~ led.posted => acc.spent = 0 /\ acc.tier = "bronze"

(* A purchase the column accepts adds its whole pesos, without wrapping.   *)
LEMMA EarnExact ==
  ASSUME NEW acc \in Account, NEW led \in Ledger, Sound(acc, led),
         NEW total \in Nat, NEW points \in EarnedPoints(total),
         Stored(acc.spent + total) =< MaxSpent
  PROVE  /\ points = total \div Peso
         /\ points \in Nat
         /\ acc.points + points \in 0 .. Int32Max
         /\ AddInt32(acc.points, points) = acc.points + points
         /\ led.earned + points =< (acc.spent + total) \div Peso
<1>1. MaxSpent \in Nat /\ Int32Max \in Nat
  BY MaxSpentAssumption, Int32MaxAssumption
<1>2. /\ acc.spent \in Nat /\ acc.points \in Int
      /\ led.earned \in Nat /\ led.redeemed \in Nat
  BY <1>1 DEF Account, Ledger, Int32
<1> DEFINE all == acc.spent + total
<1>3. all \in Nat /\ all \div Peso \in Nat /\ all \div Peso =< Int32Max
  BY <1>2, PointsFit
<1>4. total \div Peso \in Nat /\ total \div Peso =< all \div Peso
  BY <1>2, Z3
<1>5. points = total \div Peso
  BY <1>1, <1>3, <1>4 DEF EarnedPoints
<1>6. led.earned + total \div Peso =< all \div Peso
  BY <1>2, Z3 DEF Sound
<1>7. acc.points + points =< all \div Peso /\ acc.points + points >= 0
  BY <1>2, <1>3, <1>4, <1>5, <1>6 DEF Sound
<1>8. AddInt32(acc.points, points) = acc.points + points
  BY <1>1, <1>2, <1>3, <1>4, <1>5, <1>7 DEF AddInt32
<1> QED BY <1>1, <1>2, <1>3, <1>4, <1>5, <1>6, <1>7, <1>8

(* A purchase the spend column accepts keeps an account and its ledger     *)
(* sound: this is where the bound on the points is used.                   *)
LEMMA EarnKeepsSound ==
  ASSUME NEW acc \in Account, NEW led \in Ledger, Sound(acc, led),
         NEW total \in Nat, NEW points \in EarnedPoints(total),
         Stored(acc.spent + total) =< MaxSpent
  PROVE  /\ EarnOn(acc, total, points) \in Account
         /\ EarnPosting(led, points) \in Ledger
         /\ Sound(EarnOn(acc, total, points), EarnPosting(led, points))
<1>1. MaxSpent \in Nat /\ Int32Max \in Nat
  BY MaxSpentAssumption, Int32MaxAssumption
<1>2. /\ acc.spent \in Nat /\ acc.points \in Int
      /\ led.earned \in Nat /\ led.redeemed \in Nat /\ led.posted \in BOOLEAN
  BY <1>1 DEF Account, Ledger, Int32
<1> DEFINE all == acc.spent + total
           new == EarnOn(acc, total, points)
           post == EarnPosting(led, points)
<1>3. /\ points \in Nat
      /\ acc.points + points \in 0 .. Int32Max
      /\ AddInt32(acc.points, points) = acc.points + points
      /\ led.earned + points =< all \div Peso
  BY EarnExact
<1>4. all \in Nat /\ Stored(all) \in 0 .. MaxSpent
  BY <1>1, <1>2, StoredRounds
<1>5. new = [exists |-> TRUE, points |-> acc.points + points,
             spent |-> Stored(all), tier |-> CalculateTier(all)]
  BY <1>3 DEF EarnOn
<1>6. new \in Account
  BY <1>1, <1>3, <1>4, <1>5, TierType DEF Account, Int32
<1>7. post = [posted |-> TRUE, earned |-> led.earned + points,
              redeemed |-> led.redeemed]
  BY DEF EarnPosting
<1>8. post \in Ledger
  BY <1>2, <1>3, <1>7 DEF Ledger
<1>9. (led.earned + points) * 1000 =< Stored(all)
  <2>1. led.earned + points \in Nat /\ (led.earned + points) * 1000 =< all
    BY <1>2, <1>3, WholePesos, <1>4
  <2> QED BY <2>1, <1>4, StoredKeepsPesos
<1>10. \E d \in 0 .. Cent \div 2 : new.tier = CalculateTier(new.spent - d)
  BY <1>4, <1>5, TierOfStored
<1>11. Stored(new.spent) = new.spent
  BY <1>4, <1>5, StoredIsStable
<1>12. Sound(new, post)
  BY <1>2, <1>3, <1>4, <1>5, <1>7, <1>9, <1>10, <1>11 DEF Sound
<1> QED BY <1>6, <1>8, <1>12

(* A redemption within the balance keeps an account and its ledger sound.  *)
LEMMA RedeemKeepsSound ==
  ASSUME NEW acc \in Account, NEW led \in Ledger, Sound(acc, led),
         NEW points \in Nat, points =< acc.points, acc.exists, points > 0
  PROVE  /\ RedeemOn(acc, points) \in Account
         /\ RedeemPosting(led, points) \in Ledger
         /\ Sound(RedeemOn(acc, points), RedeemPosting(led, points))
<1>1. /\ acc.points \in Int /\ acc.points =< Int32Max /\ Int32Max \in Nat
      /\ acc.spent \in Int
      /\ led.earned \in Nat /\ led.redeemed \in Nat
  BY MaxSpentAssumption, Int32MaxAssumption DEF Account, Ledger, Int32
<1> DEFINE new == RedeemOn(acc, points)
           post == RedeemPosting(led, points)
<1>2. new = [exists |-> acc.exists, points |-> acc.points - points,
             spent |-> acc.spent, tier |-> acc.tier]
  BY DEF RedeemOn
<1>3. post = [posted |-> TRUE, earned |-> led.earned,
              redeemed |-> led.redeemed + points]
  BY DEF RedeemPosting
<1>4. new \in Account
  BY <1>1, <1>2 DEF Account, Int32
<1>5. post \in Ledger
  BY <1>1, <1>3 DEF Ledger
<1>6. Sound(new, post)
  BY <1>1, <1>2, <1>3 DEF Sound
<1> QED BY <1>4, <1>5, <1>6

(* An account that is not there, with nothing in its ledger, is sound.     *)
LEMMA NewIsSound ==
  /\ NoAccount \in Account
  /\ NoLedger \in Ledger
  /\ Sound(NoAccount, NoLedger)
<1>1. MaxSpent \in Nat /\ Int32Max \in Nat
  BY MaxSpentAssumption, Int32MaxAssumption
<1>2. CalculateTier(0 - 0) = "bronze"
  BY DEF CalculateTier, TierSilver, TierGold, TierPlatinum
<1>3. NoAccount \in Account
  BY <1>1 DEF NoAccount, Account, Int32, Tiers
<1>4. NoLedger \in Ledger
  BY DEF NoLedger, Ledger
<1>5. Sound(NoAccount, NoLedger)
  <2>1. 0 \in 0 .. Cent \div 2
    OBVIOUS
  <2>2. NoAccount.tier = CalculateTier(NoAccount.spent - 0)
    BY <1>2 DEF NoAccount
  <2>3. \E d \in 0 .. Cent \div 2 :
          NoAccount.tier = CalculateTier(NoAccount.spent - d)
    BY <2>1, <2>2, Zenon
  <2>4. Stored(0) = 0
    BY DEF Stored
  <2> QED BY <2>3, <2>4 DEF Sound, NoAccount, NoLedger
<1> QED BY <1>3, <1>4, <1>5

-----------------------------------------------------------------------------------
(* The inductive invariant.                                                *)

(* A handler that serves a request has checked it.                         *)
ValidRequest(h) ==
  pc[h] # "idle" =>
    IF req[h].op = "earn"
      THEN req[h].total \in Nat /\ req[h].points \in EarnedPoints(req[h].total)
           /\ req[h].total > 0
      ELSE req[h].points \in Redemptions /\ req[h].points > 0

(* Every account agrees with its ledger.                                   *)
AccountsSound == \A p \in Phones : Sound(account[p], ledger[p])

(* The inductive invariant of Spec.                                        *)
IInv ==
  /\ TypeOK
  /\ AccountsSound
  /\ \A h \in Handlers : ValidRequest(h)
  /\ NoStaleRow

(* The initial state satisfies the inductive invariant.                    *)
LEMMA InitIInv == Init => IInv
<1> SUFFICES ASSUME Init PROVE IInv
  OBVIOUS
<1>0. (CHOOSE p \in Phones : TRUE) \in Phones
  BY PhonesAssumption
<1>1. NoRequest \in Request
  BY <1>0, Int32MaxAssumption DEF NoRequest, Request, Int32
<1>2. TypeOK
  BY <1>1, NewIsSound DEF Init, TypeOK
<1>3. AccountsSound
  BY NewIsSound DEF Init, AccountsSound
<1>4. \A h \in Handlers : ValidRequest(h)
  BY DEF Init, ValidRequest
<1>5. NoStaleRow
  BY DEF Init, NoStaleRow, CurrentRow, Holding
<1> QED BY <1>2, <1>3, <1>4, <1>5 DEF IInv

(* A step that leaves a handler's variables alone, and its account and     *)
(* lock too if it is inside its transaction, leaves its row current.       *)
LEMMA OthersStayCurrent ==
  ASSUME NEW g \in Handlers, CurrentRow(g), ValidRequest(g),
         pc'[g] = pc[g], req'[g] = req[g], row'[g] = row[g],
         pc[g] \in Holding =>
           /\ account'[req[g].phone] = account[req[g].phone]
           /\ lock'[req[g].phone] = lock[req[g].phone]
  PROVE  CurrentRow(g)' /\ ValidRequest(g)'
<1>1. ValidRequest(g)'
  BY DEF ValidRequest
<1>2. CASE pc[g] \in Holding
  BY <1>1, <1>2 DEF CurrentRow
<1>3. CASE pc[g] \notin Holding
  BY <1>1, <1>3 DEF CurrentRow, Holding
<1> QED BY <1>1, <1>2, <1>3

(* The end of a transaction, when the account it locked is the only one    *)
(* that may have changed.                                                  *)
LEMMA ReleaseKeepsRows ==
  ASSUME TypeOK, NoStaleRow, \A g \in Handlers : ValidRequest(g),
         NEW h \in Handlers, Release(h),
         \A p \in Phones : account'[p] = account[p] \/ lock[p] = h
  PROVE  /\ lock' \in [Phones -> Handlers \cup {Free}]
         /\ pc' \in [Handlers -> {"idle", "begun"} \cup Holding]
         /\ req' \in [Handlers -> Request]
         /\ row' \in [Handlers -> Account]
         /\ NoStaleRow'
         /\ \A g \in Handlers : ValidRequest(g)'
<1>0. (CHOOSE p \in Phones : TRUE) \in Phones
  BY PhonesAssumption
<1>1. NoRequest \in Request
  BY <1>0, Int32MaxAssumption DEF NoRequest, Request, Int32
<1>2. /\ lock' \in [Phones -> Handlers \cup {Free}]
      /\ pc' \in [Handlers -> {"idle", "begun"} \cup Holding]
      /\ req' \in [Handlers -> Request]
      /\ row' \in [Handlers -> Account]
  BY <1>1, NewIsSound DEF TypeOK, Release
<1>3. ASSUME NEW g \in Handlers
      PROVE  CurrentRow(g)' /\ ValidRequest(g)'
  <2>1. CASE g = h
    <3>1. pc'[h] = "idle"
      BY DEF Release, TypeOK
    <3> QED BY <2>1, <3>1 DEF CurrentRow, ValidRequest, Holding
  <2>2. CASE g # h
    <3>1. pc'[g] = pc[g] /\ req'[g] = req[g] /\ row'[g] = row[g]
      BY <2>2 DEF Release, TypeOK
    <3>2. req[g].phone \in Phones
      BY DEF TypeOK, Request
    <3>3. ASSUME pc[g] \in Holding
          PROVE  /\ account'[req[g].phone] = account[req[g].phone]
                 /\ lock'[req[g].phone] = lock[req[g].phone]
      <4>1. lock[req[g].phone] = g
        BY <3>3 DEF NoStaleRow, CurrentRow
      <4> QED BY <2>2, <3>2, <4>1 DEF Release
    <3>4. CurrentRow(g) /\ ValidRequest(g)
      BY DEF NoStaleRow
    <3> QED BY <3>1, <3>3, <3>4, OthersStayCurrent
  <2> QED BY <2>1, <2>2
<1> QED BY <1>2, <1>3 DEF NoStaleRow

-----------------------------------------------------------------------------------
(* Every step keeps the invariant.                                         *)

(* The ends without a commit: nothing committed changes, and the lock is   *)
(* released by the transaction that held it.                               *)
LEMMA RollbackIInv ==
  ASSUME IInv, NEW h \in Handlers, Release(h), UNCHANGED <<account, ledger>>
  PROVE  IInv'
<1>1. AccountsSound' /\ account' \in [Phones -> Account]
      /\ ledger' \in [Phones -> Ledger]
  BY DEF IInv, AccountsSound, TypeOK
<1> QED BY <1>1, ReleaseKeepsRows DEF IInv, TypeOK

(* A commit publishes a row computed from what is committed; the other     *)
(* handlers hold other locks.                                              *)
LEMMA CommitIInv ==
  ASSUME IInv, NEW h \in Handlers, Commit(h)
  PROVE  IInv'
<1> DEFINE p == req[h].phone
           acc == account[p]
           led == ledger[p]
<1>1. /\ p \in Phones /\ acc \in Account /\ led \in Ledger
      /\ Sound(acc, led) /\ lock[p] = h /\ req[h].points \in Int
  BY DEF IInv, TypeOK, AccountsSound, Request, Commit, NoStaleRow, CurrentRow,
         Holding, Int32
<1>2. row[h] \in Account /\ Posting(h) \in Ledger /\ Sound(row[h], Posting(h))
  <2>1. CASE req[h].op = "earn"
    <3>1. /\ row[h] = EarnOn(acc, req[h].total, req[h].points)
          /\ Stored(acc.spent + req[h].total) =< MaxSpent
          /\ Posting(h) = EarnPosting(led, req[h].points)
          /\ req[h].total \in Nat
          /\ req[h].points \in EarnedPoints(req[h].total)
      BY <2>1 DEF IInv, NoStaleRow, CurrentRow, Commit, Posting, ValidRequest
    <3> QED BY <1>1, <3>1, EarnKeepsSound
  <2>2. CASE req[h].op # "earn"
    <3>1. /\ row[h] = RedeemOn(acc, req[h].points)
          /\ acc.exists
          /\ req[h].points =< acc.points
          /\ Posting(h) = RedeemPosting(led, req[h].points)
          /\ req[h].points > 0
      BY <2>2 DEF IInv, NoStaleRow, CurrentRow, Commit, Posting, ValidRequest
    <3>2. req[h].points \in Nat
      BY <1>1, <3>1
    <3> QED BY <1>1, <3>1, <3>2, RedeemKeepsSound
  <2> QED BY <2>1, <2>2
<1>3. /\ account' = [account EXCEPT ![p] = row[h]]
      /\ ledger' = [ledger EXCEPT ![p] = Posting(h)]
      /\ Release(h)
  BY DEF Commit
<1>4. account' \in [Phones -> Account] /\ ledger' \in [Phones -> Ledger]
  BY <1>2, <1>3 DEF IInv, TypeOK
<1>5. AccountsSound'
  BY <1>1, <1>2, <1>3 DEF IInv, TypeOK, AccountsSound
<1>6. \A q \in Phones : account'[q] = account[q] \/ lock[q] = h
  BY <1>1, <1>3 DEF IInv, TypeOK
<1> QED BY <1>3, <1>4, <1>5, <1>6, ReleaseKeepsRows DEF IInv, TypeOK

(* The steps inside a transaction commit nothing and move one handler,     *)
(* which may only take a free lock.                                        *)
LEMMA HandlerIInv ==
  ASSUME IInv, NEW h \in Handlers,
         UNCHANGED <<account, ledger>>,
         lock' \in [Phones -> Handlers \cup {Free}],
         \A p \in Phones : lock'[p] = lock[p] \/ lock[p] = Free,
         pc' \in [Handlers -> {"idle", "begun"} \cup Holding],
         req' \in [Handlers -> Request],
         row' \in [Handlers -> Account],
         \A g \in Handlers \ {h} :
           pc'[g] = pc[g] /\ req'[g] = req[g] /\ row'[g] = row[g],
         CurrentRow(h)', ValidRequest(h)'
  PROVE  IInv'
<1>1. AccountsSound' /\ TypeOK'
  BY DEF IInv, AccountsSound, TypeOK
<1>2. ASSUME NEW g \in Handlers
      PROVE  CurrentRow(g)' /\ ValidRequest(g)'
  <2>1. CASE g = h
    BY <2>1
  <2>2. CASE g # h
    <3>1. pc'[g] = pc[g] /\ req'[g] = req[g] /\ row'[g] = row[g]
      BY <2>2
    <3>2. req[g].phone \in Phones /\ CurrentRow(g) /\ ValidRequest(g)
      BY DEF IInv, TypeOK, Request, NoStaleRow
    <3>3. pc[g] \in Holding =>
            /\ account'[req[g].phone] = account[req[g].phone]
            /\ lock'[req[g].phone] = lock[req[g].phone]
      BY <3>2, FreeAssumption DEF CurrentRow
    <3> QED BY <3>1, <3>2, <3>3, OthersStayCurrent
  <2> QED BY <2>1, <2>2
<1> QED BY <1>1, <1>2 DEF IInv, NoStaleRow

(* A handler that takes a request has neither a lock nor a row yet.        *)
LEMMA BeginIInv ==
  ASSUME IInv, NEW h \in Handlers, Begin(h)
  PROVE  IInv'
<1>1. PICK p \in Phones :
        \/ \E total \in Totals : EarnBegin(h, p, total)
        \/ \E n \in Redemptions : RedeemBegin(h, p, n)
  BY DEF Begin
<1>2. CASE \E total \in Totals : EarnBegin(h, p, total)
  <2>1. PICK total \in Totals : EarnBegin(h, p, total)
    BY <1>2
  <2>2. PICK points \in EarnedPoints(total) :
          req' = [req EXCEPT ![h] = [op |-> "earn", phone |-> p, total |-> total,
                                     points |-> points]]
    BY <2>1 DEF EarnBegin
  <2>3. total \in Nat /\ total > 0
    BY <2>1, TotalsAssumption DEF EarnBegin
  <2>4. points \in Int32
    BY <2>3, Int32MaxAssumption DEF EarnedPoints, Int32
  <2>5. req' \in [Handlers -> Request]
    BY <2>2, <2>4 DEF IInv, TypeOK, Request
  <2>6. pc' \in [Handlers -> {"idle", "begun"} \cup Holding] /\ pc'[h] = "begun"
    BY <2>1 DEF EarnBegin, IInv, TypeOK
  <2>7. CurrentRow(h)' /\ ValidRequest(h)'
    BY <2>2, <2>3, <2>6 DEF CurrentRow, ValidRequest, Holding, IInv, TypeOK
  <2> QED
    BY <2>1, <2>2, <2>5, <2>6, <2>7, HandlerIInv DEF EarnBegin, IInv, TypeOK
<1>3. CASE \E n \in Redemptions : RedeemBegin(h, p, n)
  <2>1. PICK n \in Redemptions : RedeemBegin(h, p, n)
    BY <1>3
  <2>2. req' = [req EXCEPT ![h] = [op |-> "redeem", phone |-> p, total |-> 0,
                                   points |-> n]]
    BY <2>1 DEF RedeemBegin
  <2>3. n \in Int32 /\ n > 0
    BY <2>1, RedemptionsAssumption DEF RedeemBegin
  <2>4. req' \in [Handlers -> Request]
    BY <2>2, <2>3 DEF IInv, TypeOK, Request
  <2>5. pc' \in [Handlers -> {"idle", "begun"} \cup Holding] /\ pc'[h] = "begun"
    BY <2>1 DEF RedeemBegin, IInv, TypeOK
  <2>6. CurrentRow(h)' /\ ValidRequest(h)'
    BY <2>2, <2>3, <2>5 DEF CurrentRow, ValidRequest, Holding, IInv, TypeOK
  <2> QED
    BY <2>1, <2>2, <2>4, <2>5, <2>6, HandlerIInv DEF RedeemBegin, IInv, TypeOK
<1> QED BY <1>1, <1>2, <1>3

(* The statement that locks and reads the row.                             *)
LEMMA ReadIInv ==
  ASSUME IInv, NEW h \in Handlers, EarnUpsert(h) \/ RedeemRead(h)
  PROVE  IInv'
<1> DEFINE p == req[h].phone
<1>1. p \in Phones /\ account[p] \in Account /\ Opened(account[p]) \in Account
  BY DEF IInv, TypeOK, Request, Account, Opened
<1>2. /\ lock[p] = Free
      /\ lock' = [lock EXCEPT ![p] = h]
      /\ pc' = [pc EXCEPT ![h] = "read"]
      /\ row' = [row EXCEPT ![h] = IF req[h].op = "earn" THEN Opened(account[p])
                                                       ELSE account[p]]
      /\ req[h].op # "earn" => account[p].exists
      /\ UNCHANGED <<account, ledger, req>>
      /\ pc[h] = "begun"
  BY DEF EarnUpsert, RedeemRead
<1>3. /\ lock' \in [Phones -> Handlers \cup {Free}]
      /\ \A q \in Phones : lock'[q] = lock[q] \/ lock[q] = Free
      /\ pc' \in [Handlers -> {"idle", "begun"} \cup Holding]
      /\ row' \in [Handlers -> Account]
      /\ lock'[p] = h /\ pc'[h] = "read"
  BY <1>1, <1>2 DEF IInv, TypeOK, Holding
<1>4. CurrentRow(h)'
  BY <1>1, <1>2, <1>3 DEF CurrentRow, IInv, TypeOK
<1>5. ValidRequest(h)'
  BY <1>2, <1>3 DEF ValidRequest, IInv
<1> QED BY <1>2, <1>3, <1>4, <1>5, HandlerIInv DEF IInv, TypeOK

(* The statement that writes the row.                                      *)
LEMMA UpdateIInv ==
  ASSUME IInv, NEW h \in Handlers, EarnUpdate(h) \/ RedeemUpdate(h)
  PROVE  IInv'
<1> DEFINE p == req[h].phone
           acc == account[p]
<1>1. /\ p \in Phones /\ acc \in Account /\ ledger[p] \in Ledger
      /\ Sound(acc, ledger[p]) /\ req[h].points \in Int
      /\ ValidRequest(h) /\ CurrentRow(h)
  BY DEF IInv, TypeOK, AccountsSound, Request, NoStaleRow, Int32
<1>2. /\ pc' = [pc EXCEPT ![h] = "updated"]
      /\ pc[h] = "read"
      /\ UNCHANGED <<account, ledger, lock, req>>
      /\ lock[p] = h
  BY <1>1 DEF EarnUpdate, RedeemUpdate, CurrentRow, Holding
<1>3. pc'[h] = "updated" /\ pc' \in [Handlers -> {"idle", "begun"} \cup Holding]
  BY <1>2 DEF IInv, TypeOK, Holding
<1>4. CASE EarnUpdate(h)
  <2>1. /\ req[h].op = "earn" /\ row[h] = Opened(acc)
        /\ req[h].total \in Nat
        /\ req[h].points \in EarnedPoints(req[h].total)
    BY <1>1, <1>2, <1>4 DEF EarnUpdate, CurrentRow, ValidRequest
  <2>2. /\ Stored(acc.spent + req[h].total) =< MaxSpent
        /\ row' = [row EXCEPT ![h] = EarnOn(acc, req[h].total, req[h].points)]
    BY <1>4, <2>1 DEF EarnUpdate, Opened, EarnOn
  <2>3. EarnOn(acc, req[h].total, req[h].points) \in Account
    BY <1>1, <2>1, <2>2, EarnKeepsSound
  <2>4. row' \in [Handlers -> Account]
    BY <2>2, <2>3 DEF IInv, TypeOK
  <2>5. CurrentRow(h)' /\ ValidRequest(h)'
    BY <1>1, <1>2, <1>3, <2>1, <2>2 DEF CurrentRow, ValidRequest, IInv, TypeOK
  <2> QED BY <1>2, <1>3, <2>2, <2>4, <2>5, HandlerIInv DEF IInv, TypeOK
<1>5. CASE RedeemUpdate(h)
  <2>1. /\ req[h].op = "redeem" /\ acc.exists /\ row[h] = acc
        /\ req[h].points =< acc.points /\ req[h].points > 0
    BY <1>1, <1>2, <1>5 DEF RedeemUpdate, CurrentRow, ValidRequest, IInv, TypeOK,
                            Account, Int32
  <2>2. row' = [row EXCEPT ![h] = RedeemOn(acc, req[h].points)]
    BY <1>5, <2>1 DEF RedeemUpdate
  <2>3. req[h].points \in Nat
    BY <1>1, <2>1
  <2>4. RedeemOn(acc, req[h].points) \in Account
    BY <1>1, <2>1, <2>3, RedeemKeepsSound
  <2>5. row' \in [Handlers -> Account]
    BY <2>2, <2>4 DEF IInv, TypeOK
  <2>6. CurrentRow(h)' /\ ValidRequest(h)'
    BY <1>1, <1>2, <1>3, <2>1, <2>2 DEF CurrentRow, ValidRequest, IInv, TypeOK
  <2> QED BY <1>2, <1>3, <2>2, <2>5, <2>6, HandlerIInv DEF IInv, TypeOK
<1> QED BY <1>4, <1>5

(* The insertion into the ledger changes nothing the row was computed from. *)
LEMMA PostIInv ==
  ASSUME IInv, NEW h \in Handlers, Post(h)
  PROVE  IInv'
<1>1. /\ pc' = [pc EXCEPT ![h] = "posted"] /\ pc[h] = "updated"
      /\ UNCHANGED <<account, ledger, lock, req, row>>
  BY DEF Post
<1>2. pc'[h] = "posted" /\ pc' \in [Handlers -> {"idle", "begun"} \cup Holding]
  BY <1>1 DEF IInv, TypeOK, Holding
<1>3. CurrentRow(h) /\ ValidRequest(h)
  BY DEF IInv, NoStaleRow
<1>4. CurrentRow(h)' /\ ValidRequest(h)'
  BY <1>1, <1>2, <1>3 DEF CurrentRow, ValidRequest, Holding
<1> QED BY <1>1, <1>2, <1>4, HandlerIInv DEF IInv, TypeOK

(* The customer screens touch only rows that nobody holds.                 *)
LEMMA CustomerIInv ==
  ASSUME IInv, NEW p \in Phones, UpsertCustomer(p) \/ DeleteCustomer(p)
  PROVE  IInv'
<1> DEFINE acc == account[p]
           new == account'[p]
<1>1. /\ lock[p] = Free
      /\ UNCHANGED <<ledger, lock, pc, req, row>>
      /\ account' = [account EXCEPT ![p] = new]
      /\ UpsertCustomer(p) => new = Opened(acc)
      /\ DeleteCustomer(p) => new = NoAccount /\ ~ ledger[p].posted
  BY DEF UpsertCustomer, DeleteCustomer, IInv, TypeOK
<1>2. acc \in Account /\ ledger[p] \in Ledger /\ Sound(acc, ledger[p])
  BY DEF IInv, TypeOK, AccountsSound
<1>3. new \in Account /\ Sound(new, ledger[p])
  <2>1. CASE UpsertCustomer(p)
    <3>1. /\ new.exists /\ new.points = acc.points
          /\ new.spent = acc.spent /\ new.tier = acc.tier
          /\ new \in Account
      <4>1. new = Opened(acc)
        BY <1>1, <2>1
      <4>2. Opened(acc) \in Account
        BY <1>2 DEF Opened, Account
      <4> QED BY <4>1, <4>2 DEF Opened
    <3> QED BY <1>2, <3>1 DEF Sound
  <2>2. CASE DeleteCustomer(p)
    <3>1. ledger[p].earned = 0 /\ ledger[p].redeemed = 0
      BY <1>1, <1>2, <2>2, MaxSpentAssumption DEF Sound, Account, Ledger, Int32
    <3>2. \E d \in 0 .. Cent \div 2 :
            NoAccount.tier = CalculateTier(NoAccount.spent - d)
      BY NewIsSound DEF Sound
    <3> QED BY <1>1, <1>2, <2>2, <3>1, <3>2, NewIsSound DEF Sound, NoAccount
  <2> QED BY <2>1, <2>2
<1>4. TypeOK'
  BY <1>1, <1>3 DEF IInv, TypeOK
<1>5. AccountsSound'
  BY <1>1, <1>3 DEF IInv, TypeOK, AccountsSound
<1>6. ASSUME NEW g \in Handlers
      PROVE  CurrentRow(g)' /\ ValidRequest(g)'
  <2>1. req[g].phone \in Phones /\ CurrentRow(g) /\ ValidRequest(g)
    BY DEF IInv, TypeOK, Request, NoStaleRow
  <2>2. pc[g] \in Holding => account'[req[g].phone] = account[req[g].phone]
    BY <1>1, <2>1, FreeAssumption DEF CurrentRow, IInv, TypeOK
  <2> QED BY <1>1, <2>1, <2>2, OthersStayCurrent
<1> QED BY <1>4, <1>5, <1>6 DEF IInv, NoStaleRow

(* Every step keeps the inductive invariant.                               *)
LEMMA NextIInv == IInv /\ [Next]_vars => IInv'
<1> SUFFICES ASSUME IInv, [Next]_vars PROVE IInv'
  OBVIOUS
<1>1. CASE UNCHANGED vars
  <2>1. TypeOK' /\ AccountsSound'
    BY <1>1 DEF vars, IInv, TypeOK, AccountsSound
  <2>2. \A h \in Handlers : CurrentRow(h)' /\ ValidRequest(h)'
    BY <1>1, OthersStayCurrent DEF vars, IInv, NoStaleRow
  <2> QED BY <2>1, <2>2 DEF IInv, NoStaleRow
<1>2. ASSUME NEW h \in Handlers, Begin(h)
      PROVE  IInv'
  BY <1>2, BeginIInv
<1>3. ASSUME NEW h \in Handlers, Step(h)
      PROVE  IInv'
  <2>1. CASE EarnUpsert(h) \/ RedeemRead(h)
    BY <2>1, ReadIInv
  <2>2. CASE EarnUpdate(h) \/ RedeemUpdate(h)
    BY <2>2, UpdateIInv
  <2>3. CASE RedeemNotFound(h) \/ RedeemInsufficient(h) \/ Rollback(h)
    BY <2>3, RollbackIInv DEF RedeemNotFound, RedeemInsufficient, Rollback
  <2>4. CASE Post(h)
    BY <2>4, PostIInv
  <2>5. CASE Commit(h)
    BY <2>5, CommitIInv
  <2> QED BY <1>3, <2>1, <2>2, <2>3, <2>4, <2>5 DEF Step
<1>4. ASSUME NEW p \in Phones, UpsertCustomer(p) \/ DeleteCustomer(p)
      PROVE  IInv'
  BY <1>4, CustomerIInv
<1> QED BY <1>1, <1>2, <1>3, <1>4 DEF Next

(* The types, the balance of every account with its ledger, the tiers and  *)
(* the isolation of the transactions hold in every reachable state,        *)
(* whatever requests meet and wherever they are cut off.                   *)
THEOREM InductiveInvariant == Spec => []IInv
  BY InitIInv, NextIInv, PTL DEF Spec

(* Every variable keeps its type; the points stay in the int32 range and   *)
(* the spend in that of its column.                                        *)
THEOREM TypeCorrect == Spec => []TypeOK
<1>1. IInv => TypeOK
  BY DEF IInv
<1> QED BY <1>1, InductiveInvariant, PTL

(* The balance of every account is the sum of its ledger: no purchase and  *)
(* no redemption is lost or half applied, for any number of handlers.      *)
THEOREM LedgersBalance == Spec => []LedgerBalances
<1>1. IInv => LedgerBalances
  BY DEF IInv, AccountsSound, Sound, LedgerBalances
<1> QED BY <1>1, InductiveInvariant, PTL

(* Points are never owed and never exceed the pesos spent, so no int32     *)
(* operation of the service wraps: the spend column fails first.           *)
THEOREM PointsStayWithinSpend == Spec => []PointsWithinSpend
<1>1. IInv => PointsWithinSpend
  BY DEF IInv, AccountsSound, Sound, PointsWithinSpend
<1> QED BY <1>1, InductiveInvariant, PTL

(* A transaction always works on the committed row.                        *)
THEOREM NoRowIsStale == Spec => []NoStaleRow
<1>1. IInv => NoStaleRow
  BY DEF IInv
<1> QED BY <1>1, InductiveInvariant, PTL
(* The tier never runs ahead of the stored spend, and lags half a cent at  *)
(* most.                                                                   *)
THEOREM TiersFollowSpend == Spec => []TierFollowsSpend
<1>1. IInv => TierFollowsSpend
  BY DEF IInv, AccountsSound, Sound, TierFollowsSpend
<1> QED BY <1>1, InductiveInvariant, PTL

-----------------------------------------------------------------------------------
USE DEF Accounts!Cent, Accounts!Peso

(* The service implements LoyaltyAccounts: a commit is a purchase or a     *)
(* redemption on the account as it is at the commit, the customer screens  *)
(* open and close accounts, and every other step changes nothing.          *)

(* LoyaltyAccounts computes with the same rules.                           *)
LEMMA SameRules ==
  /\ Accounts!NoAccount = NoAccount
  /\ Accounts!NoLedger = NoLedger
  /\ \A a : Accounts!Stored(a) = Stored(a)
  /\ \A a : Accounts!CalculateTier(a) = CalculateTier(a)
  /\ \A acc : Accounts!Opened(acc) = Opened(acc)
  /\ \A acc, n : Accounts!RedeemOn(acc, n) = RedeemOn(acc, n)
  /\ \A led, n : Accounts!EarnPosting(led, n) = EarnPosting(led, n)
  /\ \A led, n : Accounts!RedeemPosting(led, n) = RedeemPosting(led, n)
  BY DEF Accounts!NoAccount, NoAccount, Accounts!NoLedger, NoLedger,
     Accounts!Stored, Stored, Accounts!Opened, Opened,
     Accounts!CalculateTier, CalculateTier, Accounts!TierSilver, TierSilver,
     Accounts!TierGold, TierGold, Accounts!TierPlatinum, TierPlatinum,
     Accounts!RedeemOn, RedeemOn, Accounts!EarnPosting, EarnPosting,
     Accounts!RedeemPosting, RedeemPosting

(* A commit is the whole purchase or redemption of the abstract service.   *)
LEMMA CommitIsAtomic ==
  ASSUME IInv, NEW h \in Handlers, Commit(h)
  PROVE  Accounts!Next
<1> DEFINE p == req[h].phone
           acc == account[p]
           led == ledger[p]
<1>1. /\ p \in Phones /\ acc \in Account /\ led \in Ledger /\ Sound(acc, led)
      /\ ValidRequest(h) /\ CurrentRow(h) /\ pc[h] = "posted"
      /\ req[h].total \in Totals \cup {0}
      /\ account' = [account EXCEPT ![p] = row[h]]
      /\ ledger' = [ledger EXCEPT ![p] = Posting(h)]
  BY DEF IInv, TypeOK, AccountsSound, Request, Commit, NoStaleRow
<1>2. CASE req[h].op = "earn"
  <2> DEFINE t == req[h].total
             n == req[h].points
  <2>1. /\ t \in Totals /\ t \in Nat /\ t > 0 /\ n \in EarnedPoints(t)
        /\ Stored(acc.spent + t) =< MaxSpent
        /\ row[h] = EarnOn(acc, t, n) /\ Posting(h) = EarnPosting(led, n)
    BY <1>1, <1>2 DEF ValidRequest, CurrentRow, Posting
  <2>2. n = t \div Peso /\ AddInt32(acc.points, n) = acc.points + n
    BY <1>1, <2>1, EarnExact
  <2>3. row[h] = [exists |-> TRUE, points |-> acc.points + t \div Peso,
                  spent |-> Stored(acc.spent + t),
                  tier |-> CalculateTier(acc.spent + t)]
    BY <2>1, <2>2 DEF EarnOn
  <2>4. Accounts!Earn(p, t)
    BY <1>1, <2>1, <2>2, <2>3, SameRules DEF Accounts!Earn
  <2> QED BY <1>1, <2>1, <2>4 DEF Accounts!Next
<1>3. CASE req[h].op # "earn"
  <2>1. /\ req[h].points \in Redemptions /\ req[h].points > 0
        /\ acc.exists /\ req[h].points =< acc.points
        /\ row[h] = RedeemOn(acc, req[h].points)
        /\ Posting(h) = RedeemPosting(led, req[h].points)
    BY <1>1, <1>3 DEF ValidRequest, CurrentRow, Posting
  <2>2. Accounts!Redeem(p, req[h].points)
    BY <1>1, <2>1, SameRules DEF Accounts!Redeem
  <2> QED BY <1>1, <2>1, <2>2 DEF Accounts!Next
<1> QED BY <1>2, <1>3

(* Every other step is a stutter or a customer screen of the abstract      *)
(* service.                                                                *)
LEMMA StepIsAtomic == IInv /\ [Next]_vars => [Accounts!Next]_(Accounts!vars)
<1> SUFFICES ASSUME IInv, [Next]_vars
             PROVE  Accounts!Next \/ UNCHANGED <<account, ledger>>
  BY DEF Accounts!vars
<1>1. CASE UNCHANGED vars
  BY <1>1 DEF vars
<1>2. ASSUME NEW h \in Handlers, Begin(h)
      PROVE  UNCHANGED <<account, ledger>>
  BY <1>2 DEF Begin, EarnBegin, RedeemBegin
<1>3. ASSUME NEW h \in Handlers, Step(h)
      PROVE  Accounts!Next \/ UNCHANGED <<account, ledger>>
  BY <1>3, CommitIsAtomic
  DEF Step, EarnUpsert, EarnUpdate, RedeemRead, RedeemNotFound,
      RedeemInsufficient, RedeemUpdate, Post, Rollback
<1>4. ASSUME NEW p \in Phones, UpsertCustomer(p)
      PROVE  Accounts!Next
  BY <1>4, SameRules DEF UpsertCustomer, Accounts!Next, Accounts!Open
<1>5. ASSUME NEW p \in Phones, DeleteCustomer(p)
      PROVE  Accounts!Next
  BY <1>5, SameRules DEF DeleteCustomer, Accounts!Next, Accounts!Close
<1> QED BY <1>1, <1>2, <1>3, <1>4, <1>5 DEF Next

(* The interleaved transactions implement the atomic operations of         *)
(* LoyaltyAccounts.                                                        *)
THEOREM LoyaltyImplementsAccounts == Spec => ImplementsAccounts
<1>1. Init => Accounts!Init
  BY SameRules DEF Init, Accounts!Init
<1> QED BY <1>1, StepIsAtomic, InductiveInvariant, PTL
        DEF Spec, ImplementsAccounts, Accounts!Spec

-----------------------------------------------------------------------------------
(* Spend and tier only grow: a redemption leaves them alone, a purchase    *)
(* moves the spend up and the tier with it, and an account that may be     *)
(* deleted has neither.                                                    *)

(* No operation of the abstract service takes spend or tier away from a    *)
(* sound account.                                                          *)
LEMMA StepKeepsStanding ==
  IInv /\ Accounts!Next =>
    \A p \in Phones :
      /\ account'[p].spent >= account[p].spent
      /\ TierRank(account'[p].tier) >= TierRank(account[p].tier)
<1> SUFFICES ASSUME IInv, Accounts!Next, NEW p \in Phones
             PROVE  /\ account'[p].spent >= account[p].spent
                    /\ TierRank(account'[p].tier) >= TierRank(account[p].tier)
  OBVIOUS
<1> DEFINE acc == account[p]
<1>1. /\ acc \in Account /\ Sound(acc, ledger[p]) /\ acc.spent \in Nat
      /\ acc.tier \in Tiers
  BY MaxSpentAssumption DEF IInv, TypeOK, AccountsSound, Account
<1>2. PICK q \in Phones :
        \/ Accounts!Open(q)
        \/ Accounts!Close(q)
        \/ \E total \in Totals : Accounts!Earn(q, total)
        \/ \E n \in Redemptions : Accounts!Redeem(q, n)
  BY DEF Accounts!Next
<1>3. TierRank(acc.tier) \in Int
  BY DEF TierRank
<1>4. CASE q # p
  <2>1. account'[p] = account[p]
    BY <1>2, <1>4
    DEF Accounts!Open, Accounts!Close, Accounts!Earn, Accounts!Redeem, IInv, TypeOK
  <2> QED BY <1>1, <1>3, <2>1
<1>5. CASE q = p /\ (Accounts!Open(q) \/ \E n \in Redemptions : Accounts!Redeem(q, n))
  <2>1. account'[p].spent = acc.spent /\ account'[p].tier = acc.tier
    BY <1>5, SameRules DEF Accounts!Open, Accounts!Redeem, Opened, RedeemOn, IInv, TypeOK
  <2> QED BY <1>1, <1>3, <2>1
<1>6. CASE q = p /\ Accounts!Close(q)
  <2>1. acc.spent = 0 /\ acc.tier = "bronze" /\ account'[p] = NoAccount
    BY <1>1, <1>6, SameRules DEF Accounts!Close, Sound, IInv, TypeOK
  <2> QED BY <1>3, <2>1 DEF NoAccount
<1>7. ASSUME q = p, NEW total \in Totals, Accounts!Earn(q, total)
      PROVE  /\ account'[p].spent >= acc.spent
             /\ TierRank(account'[p].tier) >= TierRank(acc.tier)
  <2>1. /\ account'[p].spent = Stored(acc.spent + total)
        /\ account'[p].tier = CalculateTier(acc.spent + total)
        /\ total \in Nat
    BY <1>7, TotalsAssumption, SameRules DEF Accounts!Earn, IInv, TypeOK
  <2>2. PICK d \in 0 .. 5 : acc.tier = CalculateTier(acc.spent - d)
    BY <1>1 DEF Sound
  <2>3. TierRank(account'[p].tier) >= TierRank(acc.tier)
    <3>1. /\ acc.spent - d \in Int /\ acc.spent + total \in Int
          /\ acc.spent - d =< acc.spent + total
      BY <1>1, <2>1, <2>2
    <3> QED BY <2>1, <2>2, <3>1, TierMonotone
  <2>4. Stored(acc.spent + total) >= acc.spent
    BY <1>1, <2>1, StoredMonotone DEF Sound
  <2> QED BY <2>1, <2>3, <2>4
<1> QED BY <1>2, <1>4, <1>5, <1>6, <1>7

(* The accumulated spend and the tier of an account only grow.             *)
THEOREM StandingGrows == Spec => StandingNeverDrops
<1>1. IInv /\ [Next]_vars =>
        [\A p \in Phones :
           /\ account'[p].spent >= account[p].spent
           /\ TierRank(account'[p].tier) >= TierRank(account[p].tier)]_vars
  <2> SUFFICES ASSUME IInv, [Next]_vars, ~ UNCHANGED vars, NEW p \in Phones
               PROVE  /\ account'[p].spent >= account[p].spent
                      /\ TierRank(account'[p].tier) >= TierRank(account[p].tier)
    OBVIOUS
  <2>1. CASE Accounts!Next
    BY <2>1, StepKeepsStanding
  <2>2. CASE account' = account
    <3>1. account[p].spent \in Int /\ TierRank(account[p].tier) \in Int
      BY MaxSpentAssumption DEF IInv, TypeOK, Account, TierRank
    <3> QED BY <2>2, <3>1
  <2> QED BY <2>1, <2>2, StepIsAtomic DEF Accounts!vars
<1> QED BY <1>1, InductiveInvariant, PTL DEF Spec, StandingNeverDrops
===================================================================================
