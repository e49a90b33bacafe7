------------------------------ MODULE LoyaltyRules ------------------------------
(***************************************************************************)
(* The arithmetic of the loyalty service: how a purchase turns into points *)
(* (an int32), how PostgreSQL stores the accumulated spend (a              *)
(* NUMERIC(10,2)) and which tier a spend deserves.                         *)
(*                                                                         *)
(* Money is counted in tenths of a cent: the totals that reach the service *)
(* are floats, sums that may miss the cent they mean, and what the column  *)
(* keeps is rounded to the cent.                                           *)
(***************************************************************************)
EXTENDS Integers

CONSTANTS
  MaxSpent,   \* the largest amount a NUMERIC(10,2) column holds
  Int32Max    \* the largest int32

Cent == 10
Peso == 100 * Cent

ASSUME MaxSpentAssumption ==
  /\ MaxSpent \in Nat
  /\ MaxSpent % Cent = 0

(* The spend column overflows before the points column does: 10^8 pesos    *)
(* are fewer than 2^31 points.                                             *)
ASSUME Int32MaxAssumption ==
  /\ Int32Max \in Nat
  /\ MaxSpent \div Peso =< Int32Max

Int32 == (-Int32Max - 1) .. Int32Max

(* int32(math.Floor(total * PointsPerPeso)): the whole pesos. A float      *)
(* beyond the int32 range is implementation-defined in Go: amd64 yields    *)
(* the smallest int32, arm64 the largest.                                  *)
EarnedPoints(total) ==
  IF total \div Peso =< Int32Max
    THEN {total \div Peso}
    ELSE {-Int32Max - 1, Int32Max}

(* The int32 sum, which wraps around.                                      *)
AddInt32(a, b) ==
  IF a + b > Int32Max THEN a + b - 2 * (Int32Max + 1)
  ELSE IF a + b < -Int32Max - 1 THEN a + b + 2 * (Int32Max + 1)
  ELSE a + b

(* What NUMERIC(10,2) keeps of an amount: the nearest cent.                *)
Stored(amount) == ((amount + Cent \div 2) \div Cent) * Cent

Tiers == {"bronze", "silver", "gold", "platinum"}

TierSilver   == 500 * Peso
TierGold     == 2000 * Peso
TierPlatinum == 5000 * Peso

CalculateTier(spent) ==
  IF spent >= TierPlatinum THEN "platinum"
  ELSE IF spent >= TierGold THEN "gold"
  ELSE IF spent >= TierSilver THEN "silver"
  ELSE "bronze"

TierRank(tier) ==
  IF tier = "platinum" THEN 3
  ELSE IF tier = "gold" THEN 2
  ELSE IF tier = "silver" THEN 1
  ELSE 0

(* A row of loyalty_accounts, and what is there before the row is.         *)
Account == [exists: BOOLEAN, points: Int32, spent: 0 .. MaxSpent, tier: Tiers]

NoAccount == [exists |-> FALSE, points |-> 0, spent |-> 0, tier |-> "bronze"]

(* Wrong: the tier of the spend before the purchase.                       *)
EarnOnLateTier(acc, total, points) ==
  [exists |-> TRUE,
   points |-> AddInt32(acc.points, points),
   spent  |-> Stored(acc.spent + total),
   tier   |-> CalculateTier(acc.spent)]

(* Wrong: a redemption re-derives the tier from the points that are left.  *)
RedeemOnTierOfPoints(acc, points) ==
  [exists |-> acc.exists, points |-> acc.points - points,
   spent |-> acc.spent, tier |-> CalculateTier((acc.points - points) * Peso)]

(* The row an INSERT with zero points and zero spend leaves when there may  *)
(* be one already.                                                         *)
Opened(acc) ==
  [exists |-> TRUE, points |-> acc.points, spent |-> acc.spent, tier |-> acc.tier]

(* The UPDATE of EarnPoints and of RedeemPoints, computed from the row.     *)
EarnOn(acc, total, points) ==
  [exists |-> TRUE,
   points |-> AddInt32(acc.points, points),
   spent  |-> Stored(acc.spent + total),
   tier   |-> CalculateTier(acc.spent + total)]

RedeemOn(acc, points) ==
  [exists |-> acc.exists, points |-> acc.points - points,
   spent |-> acc.spent, tier |-> acc.tier]

(* The rows of loyalty_transactions of one account, added up by type.      *)
Ledger == [posted: BOOLEAN, earned: Nat, redeemed: Nat]

EarnPosting(led, points) ==
  [posted |-> TRUE, earned |-> led.earned + points, redeemed |-> led.redeemed]

RedeemPosting(led, points) ==
  [posted |-> TRUE, earned |-> led.earned, redeemed |-> led.redeemed + points]

NoLedger == [posted |-> FALSE, earned |-> 0, redeemed |-> 0]

================================================================================
