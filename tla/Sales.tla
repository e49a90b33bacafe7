----------------------------------- MODULE Sales -----------------------------------
(***************************************************************************)
(* A sale from POST /cobrar in the gateway (handleCobrar) through the      *)
(* sales service (CreateSale, CancelSale) to the database.                 *)
(*                                                                         *)
(* CreateSale runs its statements one by one without a transaction: each   *)
(* commits at once and stays when a later one fails. The gateway waits     *)
(* twelve seconds; when it gives up, the service may still be writing.     *)
(***************************************************************************)
EXTENDS Integers, Sequences, FiniteSets, Functions

CONSTANTS
  Calls,         \* the calls to POST /cobrar, each with the sale it creates
  Products,      \* the product ids a cart may name
  Malformed,     \* those that are no UUID: their item cannot be inserted
  Carts,         \* the carts: sequences of [product, quantity]
  InitialStock   \* the stock of every product

ASSUME CallsAssumption == IsFiniteSet(Calls)
ASSUME MalformedAssumption == Malformed \subseteq Products
(* handleCobrar looks at no quantity.                                      *)
ASSUME CartsAssumption ==
  Carts \subseteq Seq([product: Products, quantity: Int])
ASSUME InitialStockAssumption == InitialStock \in [Products -> Int]

VARIABLES
  pc,        \* where the call is
  cart,      \* what the call sells
  sale,      \* the status of the sale's row
  items,     \* how many rows of sale_items it has
  deducted,  \* the items whose quantity was taken off the stock
  stock,     \* products.stock
  tagged,    \* the sale has its tenant_id
  answer,    \* what the caller has been told
  cancels    \* how many cancellations of the sale were confirmed

vars == <<pc, cart, sale, items, deducted, stock, tagged, answer, cancels>>

(* The values of the tables and of the two services; among them, that no   *)
(* sale has two confirmed cancellations.                                   *)
TypeOK ==
  /\ pc \in [Calls -> {"uncalled", "header", "item", "stock", "done", "failed",
                       "tagged"}]
  /\ cart \in [Calls -> Carts \cup {<<>>}]
  /\ sale \in [Calls -> {"none", "completed", "cancelled"}]
  /\ items \in [Calls -> Nat]
  /\ deducted \in [Calls -> SUBSET Nat]
  /\ stock \in [Products -> Int]
  /\ tagged \in [Calls -> BOOLEAN]
  /\ answer \in [Calls -> {"uncalled", "pending", "ok", "error"}]
  /\ cancels \in [Calls -> 0 .. 1]

Init ==
  /\ pc = [c \in Calls |-> "uncalled"]
  /\ cart = [c \in Calls |-> <<>>]
  /\ sale = [c \in Calls |-> "none"]
  /\ items = [c \in Calls |-> 0]
  /\ deducted = [c \in Calls |-> {}]
  /\ stock = InitialStock
  /\ tagged = [c \in Calls |-> FALSE]
  /\ answer = [c \in Calls |-> "uncalled"]
  /\ cancels = [c \in Calls |-> 0]

Goto(c, label) == pc' = [pc EXCEPT ![c] = label]

(* Where the loop over the items stands when this many are inserted.       *)
NextItem(c, n) == IF n < Len(cart[c]) THEN "item" ELSE "done"

------------------------------------------------------------------------------------
(* CreateSale.                                                             *)

InsertSale(c) ==
  /\ pc[c] = "header"
  /\ sale' = [sale EXCEPT ![c] = "completed"]
  /\ Goto(c, NextItem(c, 0))
  /\ UNCHANGED <<cart, items, deducted, stock, tagged, answer, cancels>>

InsertItem(c) ==
  /\ pc[c] = "item"
  /\ cart[c][items[c] + 1].product \notin Malformed
  /\ items' = [items EXCEPT ![c] = items[c] + 1]
  /\ Goto(c, "stock")
  /\ UNCHANGED <<cart, sale, deducted, stock, tagged, answer, cancels>>

(* Wrong: the new stock is computed from the catalogue the register loaded. *)
DeductStockFromCatalogue(c) ==
  LET item == cart[c][items[c]] IN
  /\ pc[c] = "stock"
  /\ stock' = [stock EXCEPT ![item.product] =
                InitialStock[item.product] - item.quantity]
  /\ deducted' = [deducted EXCEPT ![c] = deducted[c] \cup {items[c]}]
  /\ Goto(c, NextItem(c, items[c]))
  /\ UNCHANGED <<cart, sale, items, tagged, answer, cancels>>

(* UPDATE products SET stock = stock - quantity, one atomic statement;     *)
(* the stock may go below zero.                                            *)
DeductStock(c) ==
  LET item == cart[c][items[c]] IN
  /\ pc[c] = "stock"
  /\ stock' = [stock EXCEPT ![item.product] = stock[item.product] - item.quantity]
  /\ deducted' = [deducted EXCEPT ![c] = deducted[c] \cup {items[c]}]
  /\ Goto(c, NextItem(c, items[c]))
  /\ UNCHANGED <<cart, sale, items, tagged, answer, cancels>>

(* The UPDATE fails, which is only logged, or matches no product.          *)
SkipStock(c) ==
  /\ pc[c] = "stock"
  /\ Goto(c, NextItem(c, items[c]))
  /\ UNCHANGED <<cart, sale, items, deducted, stock, tagged, answer, cancels>>

(* Wrong: the error is only logged and the sale returned as if complete.    *)
FailLogged(c) ==
  /\ pc[c] \in {"header", "item"}
  /\ sale' = [sale EXCEPT ![c] = "completed"]
  /\ Goto(c, "done")
  /\ UNCHANGED <<cart, items, deducted, stock, tagged, answer, cancels>>

(* An INSERT fails: a product id that is no UUID, an expired deadline or a  *)
(* lost connection, which may strike after the row was written. CreateSale *)
(* returns and leaves what is there.                                       *)
Fail(c) ==
  /\ pc[c] \in {"header", "item"}
  /\ \/ UNCHANGED <<sale, items>>
     \/ /\ pc[c] = "header"
        /\ sale' = [sale EXCEPT ![c] = "completed"]
        /\ UNCHANGED items
     \/ /\ pc[c] = "item"
        /\ cart[c][items[c] + 1].product \notin Malformed
        /\ items' = [items EXCEPT ![c] = items[c] + 1]
        /\ UNCHANGED sale
  /\ Goto(c, "failed")
  /\ UNCHANGED <<cart, deducted, stock, tagged, answer, cancels>>

------------------------------------------------------------------------------------
(* handleCobrar.                                                           *)

Charge(c, goods) ==
  /\ answer[c] = "uncalled"
  /\ cart' = [cart EXCEPT ![c] = goods]
  /\ answer' = [answer EXCEPT ![c] = "pending"]
  /\ Goto(c, "header")
  /\ UNCHANGED <<sale, items, deducted, stock, tagged, cancels>>

(* The UPDATE that gives the sale its tenant; its error is ignored.        *)
TagTenant(c) ==
  /\ pc[c] = "done"
  /\ answer[c] = "pending"
  /\ \E ok \in BOOLEAN : tagged' = [tagged EXCEPT ![c] = ok]
  /\ Goto(c, "tagged")
  /\ UNCHANGED <<cart, sale, items, deducted, stock, answer, cancels>>

(* Wrong: the sale is created in the background.                           *)
AnswerOkAtOnce(c) ==
  /\ answer[c] = "pending"
  /\ answer' = [answer EXCEPT ![c] = "ok"]
  /\ UNCHANGED <<pc, cart, sale, items, deducted, stock, tagged, cancels>>

AnswerOk(c) ==
  /\ pc[c] = "tagged"
  /\ answer[c] = "pending"
  /\ answer' = [answer EXCEPT ![c] = "ok"]
  /\ UNCHANGED <<pc, cart, sale, items, deducted, stock, tagged, cancels>>

(* Wrong: the timeout answers a call that has its answer.                   *)
AnswerErrorTwice(c) ==
  /\ answer[c] # "uncalled"
  /\ answer' = [answer EXCEPT ![c] = "error"]
  /\ UNCHANGED <<pc, cart, sale, items, deducted, stock, tagged, cancels>>

(* CreateSale failed, the twelve seconds are over, or the gateway went     *)
(* down before it could answer.                                            *)
AnswerError(c) ==
  /\ answer[c] = "pending"
  /\ answer' = [answer EXCEPT ![c] = "error"]
  /\ UNCHANGED <<pc, cart, sale, items, deducted, stock, tagged, cancels>>

------------------------------------------------------------------------------------
(* CancelSale: UPDATE ... WHERE status != 'cancelled', and an error when   *)
(* no row was updated.                                                     *)

(* Wrong: without the condition on the status.                             *)
CancelSaleAgain(c) ==
  /\ sale[c] # "none"
  /\ sale' = [sale EXCEPT ![c] = "cancelled"]
  /\ cancels' = [cancels EXCEPT ![c] = cancels[c] + 1]
  /\ UNCHANGED <<pc, cart, items, deducted, stock, tagged, answer>>

CancelSale(c) ==
  /\ sale[c] = "completed"
  /\ sale' = [sale EXCEPT ![c] = "cancelled"]
  /\ cancels' = [cancels EXCEPT ![c] = cancels[c] + 1]
  /\ UNCHANGED <<pc, cart, items, deducted, stock, tagged, answer>>

------------------------------------------------------------------------------------
Create(c) ==
  \/ InsertSale(c)
  \/ InsertItem(c)
  \/ DeductStock(c)
  \/ SkipStock(c)
  \/ Fail(c)

Answer(c) == TagTenant(c) \/ AnswerOk(c) \/ AnswerError(c)

Next ==
  \E c \in Calls :
    \/ \E goods \in Carts : Charge(c, goods)
    \/ Create(c)
    \/ Answer(c)
    \/ CancelSale(c)

Spec == Init /\ [][Next]_vars

------------------------------------------------------------------------------------
(* What makes a sale correct.                                              *)

(* Whoever is told "ok" has all the items of the sale in the database.     *)
OkMeansComplete ==
  \A c \in Calls :
    answer[c] = "ok" => sale[c] # "none" /\ items[c] = Len(cart[c])

(* The stock of a product is what it was minus the quantities of items     *)
(* that were sold, each taken off once, whatever calls ran at the same     *)
(* time and wherever they stopped.                                         *)
Quantities(c) == [i \in DOMAIN cart[c] |-> cart[c][i].quantity]

Taken(c, p) ==
  SumFunctionOnSet(Quantities(c), {i \in deducted[c] : cart[c][i].product = p})

StockIsAccountedFor ==
  /\ \A c \in Calls : deducted[c] \subseteq 1 .. items[c]
  /\ \A p \in Products :
       stock[p] = InitialStock[p] - SumFunction([c \in Calls |-> Taken(c, p)])

(* Once the caller has its "ok" nothing is added to the sale any more and  *)
(* nothing more is taken off the stock for it: only a cancellation may     *)
(* follow.                                                                 *)
SettledSalesStay ==
  [][\A c \in Calls :
       answer[c] = "ok" =>
         /\ UNCHANGED <<cart[c], items[c], deducted[c], tagged[c]>>
         /\ sale'[c] # sale[c] => sale'[c] = "cancelled"]_vars

(* The statements amount to what SalesService promises.                    *)
Service == INSTANCE SalesService WITH
  registered <- [c \in Calls |->
    IF sale[c] = "none" THEN "none"
    ELSE IF items[c] = Len(cart[c]) THEN "complete" ELSE "partial"]

(* Every behaviour of the gateway and the sales service is one the caller  *)
(* was promised.                                                           *)
ImplementsService == Service!Spec

=====================================================================================
