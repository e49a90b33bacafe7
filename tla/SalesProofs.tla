-------------------------------- MODULE SalesProofs --------------------------------
(***************************************************************************)
(* Proofs about a sale from POST /cobrar to the database (Sales) and about *)
(* the reports that read the sales (Reports).                              *)
(*                                                                         *)
(* Sales: Progress says how far each call is; with it TypeOK is inductive, *)
(* and OkMeansComplete and SettledSalesStay follow. The stock is a sum     *)
(* over calls of sums over items; DeductStock adds one term to it          *)
(* (SumAdd, SumChange of SumLemmas). Under the mapping registered every    *)
(* step is a step of SalesService.                                         *)
(*                                                                         *)
(* Reports: rows only go forward (RowGoesOn), so what a report remembers   *)
(* of its beginning (BegunOK) and what each part lists (PartOK) stay true  *)
(* after they were read.                                                   *)
(***************************************************************************)
EXTENDS Sales, Reports, SumLemmas, SequenceTheorems

(* How far a call has come, and what it has written by then.               *)
Progress ==
  \A c \in Calls :
    /\ pc[c] = "uncalled" <=> answer[c] = "uncalled"
    /\ pc[c] \in {"uncalled", "header"} => sale[c] = "none"
    /\ sale[c] = "none" =>
         pc[c] \in {"uncalled", "header", "failed"} /\ items[c] = 0
    /\ pc[c] = "item" => items[c] < Len(cart[c])
    /\ pc[c] = "stock" => items[c] >= 1 /\ items[c] \notin deducted[c]
    /\ pc[c] \in {"done", "tagged"} => items[c] = Len(cart[c])
    /\ items[c] <= Len(cart[c])
    /\ deducted[c] \subseteq 1 .. items[c]
    /\ answer[c] = "ok" => pc[c] = "tagged"
    /\ cancels[c] = 1 => sale[c] = "cancelled"

(* The inductive invariant of Spec.                                        *)
IInv == TypeOK /\ Progress

(* A cart is a sequence of products and quantities, the empty one before   *)
(* the call included.                                                      *)
LEMMA CartType ==
  ASSUME TypeOK
  PROVE  cart \in [Calls -> Seq([product: Products, quantity: Int])]
PROOF
<1> DEFINE Lines == [product: Products, quantity: Int]
<1>1. Carts \subseteq Seq(Lines) /\ <<>> \in Seq(Lines)
  BY CartsAssumption, EmptySeq
<1> HIDE DEF Lines
<1>2. cart \in [Calls -> Seq(Lines)]
  BY <1>1 DEF TypeOK
<1> QED
  BY <1>2 DEF Lines

(* Before the first call nothing is written.                               *)
LEMMA InitIInv == Init => IInv
PROOF
<1> SUFFICES ASSUME Init PROVE IInv
  OBVIOUS
<1>1. TypeOK
  BY InitialStockAssumption DEF Init, TypeOK
<1>2. Progress
  BY DEF Init, Progress
<1> QED
  BY <1>1, <1>2 DEF IInv

(* Every statement of CreateSale, of handleCobrar and of CancelSale keeps  *)
(* the invariant.                                                          *)
LEMMA NextIInv == IInv /\ [Next]_vars => IInv'
PROOF
<1> SUFFICES ASSUME IInv, [Next]_vars PROVE IInv'
  OBVIOUS
<1> USE DEF IInv
<1>0. cart \in [Calls -> Seq([product: Products, quantity: Int])]
  BY CartType
<1>1. ASSUME NEW c \in Calls, NEW goods \in Carts, Charge(c, goods)
      PROVE  IInv'
  <2>1. TypeOK'
    BY <1>1 DEF Charge, Goto, TypeOK
  <2>2. Len(goods) \in Nat
    BY CartsAssumption
  <2>3. Progress'
    BY <1>1, <2>2 DEF Charge, Goto, TypeOK, Progress
  <2> QED
    BY <2>1, <2>3
<1>2. ASSUME NEW c \in Calls, InsertSale(c) PROVE IInv'
  <2>1. TypeOK'
    BY <1>2 DEF InsertSale, Goto, NextItem, TypeOK
  <2>3. Progress'
    BY <1>0, <1>2 DEF InsertSale, Goto, NextItem, TypeOK, Progress
  <2> QED
    BY <2>1, <2>3
<1>3. ASSUME NEW c \in Calls, InsertItem(c) PROVE IInv'
  <2>1. TypeOK'
    BY <1>3 DEF InsertItem, Goto, TypeOK
  <2>3. Progress'
    BY <1>0, <1>3 DEF InsertItem, Goto, TypeOK, Progress
  <2> QED
    BY <2>1, <2>3
<1>4. ASSUME NEW c \in Calls, DeductStock(c) PROVE IInv'
  <2>0. items[c] \in 1 .. Len(cart[c])
    BY <1>0, <1>4 DEF DeductStock, TypeOK, Progress
  <2>1. cart[c][items[c]] \in [product: Products, quantity: Int]
    BY <1>0, <2>0, ElementOfSeq
  <2>2. stock' \in [Products -> Int]
    BY <1>4, <2>1 DEF DeductStock, TypeOK
  <2>3. TypeOK'
    BY <1>4, <2>2 DEF DeductStock, Goto, NextItem, TypeOK
  <2>4. Progress'
    BY <1>0, <1>4 DEF DeductStock, Goto, NextItem, TypeOK, Progress
  <2> QED
    BY <2>3, <2>4
<1>5. ASSUME NEW c \in Calls, SkipStock(c) PROVE IInv'
  <2>1. TypeOK'
    BY <1>5 DEF SkipStock, Goto, NextItem, TypeOK
  <2>3. Progress'
    BY <1>0, <1>5 DEF SkipStock, Goto, NextItem, TypeOK, Progress
  <2> QED
    BY <2>1, <2>3
<1>6. ASSUME NEW c \in Calls, Fail(c) PROVE IInv'
  <2>1. /\ sale' \in [Calls -> {"none", "completed", "cancelled"}]
        /\ items' \in [Calls -> Nat]
    <3>1. CASE UNCHANGED <<sale, items>>
      BY <3>1 DEF TypeOK
    <3>2. CASE sale' = [sale EXCEPT ![c] = "completed"] /\ UNCHANGED items
      BY <3>2 DEF TypeOK
    <3>3. CASE items' = [items EXCEPT ![c] = items[c] + 1] /\ UNCHANGED sale
      BY <3>3 DEF TypeOK
    <3> QED
      BY <1>6, <3>1, <3>2, <3>3 DEF Fail
  <2>2. TypeOK'
    BY <1>6, <2>1 DEF Fail, Goto, TypeOK
  <2>3. Progress'
    BY <1>0, <1>6 DEF Fail, Goto, TypeOK, Progress
  <2> QED
    BY <2>2, <2>3
<1>7. ASSUME NEW c \in Calls, Answer(c) PROVE IInv'
  <2>1. tagged' \in [Calls -> BOOLEAN]
    BY <1>7 DEF Answer, TagTenant, AnswerOk, AnswerError, TypeOK
  <2>2. TypeOK'
    BY <1>7, <2>1 DEF Answer, TagTenant, AnswerOk, AnswerError, Goto, TypeOK
  <2>3. Progress'
    BY <1>0, <1>7 DEF Answer, TagTenant, AnswerOk, AnswerError, Goto, TypeOK, Progress
  <2> QED
    BY <2>2, <2>3
<1>8. ASSUME NEW c \in Calls, CancelSale(c) PROVE IInv'
  <2>0. cancels[c] = 0
    BY <1>8 DEF CancelSale, TypeOK, Progress
  <2>1. TypeOK'
    BY <1>8, <2>0 DEF CancelSale, TypeOK
  <2>3. Progress'
    BY <1>0, <1>8 DEF CancelSale, TypeOK, Progress
  <2> QED
    BY <2>1, <2>3
<1>9. CASE UNCHANGED vars
  BY <1>9 DEF vars, TypeOK, Progress
<1> QED
  BY <1>1, <1>2, <1>3, <1>4, <1>5, <1>6, <1>7, <1>8, <1>9 DEF Next, Create

(* What a call to POST /cobrar has written never falls behind, or runs     *)
(* ahead of, the place where CreateSale stands, whatever statement fails.  *)
THEOREM InductiveInvariant == Spec => []IInv
PROOF BY InitIInv, NextIInv, PTL DEF Spec

(* The rows and the stock keep their types, and no sale is ever confirmed  *)
(* cancelled twice: CancelSale only updates a row that is not cancelled.   *)
THEOREM SalesTypeCorrect == Spec => []TypeOK
PROOF
<1>1. IInv => TypeOK
  BY DEF IInv
<1> QED
  BY <1>1, InductiveInvariant, PTL

(* Whenever POST /cobrar has answered "ok", the sale and every item of its *)
(* cart are in the database, although CreateSale runs without a            *)
(* transaction.                                                            *)
THEOREM OkIsComplete == Spec => []OkMeansComplete
PROOF
<1>1. IInv => OkMeansComplete
  BY DEF IInv, OkMeansComplete, Progress
<1> QED
  BY <1>1, InductiveInvariant, PTL

(* Once POST /cobrar has answered "ok", no statement of the sale is still  *)
(* to come: neither its items nor what it took off the stock ever change,  *)
(* and its status only to cancelled.                                       *)
THEOREM SalesSettle == Spec => SettledSalesStay
PROOF
<1> DEFINE Settled(c) ==
  answer[c] = "ok" =>
    /\ UNCHANGED <<cart[c], items[c], deducted[c], tagged[c]>>
    /\ sale'[c] # sale[c] => sale'[c] = "cancelled"
<1>1. ASSUME IInv, [Next]_vars, NEW c \in Calls PROVE Settled(c)
  BY <1>1 DEF IInv, TypeOK, Progress, Next, vars, Charge, Create, Answer, Goto, NextItem,
      InsertSale, InsertItem, DeductStock, SkipStock, Fail, TagTenant, AnswerOk,
      AnswerError, CancelSale
<1>2. IInv /\ [Next]_vars => \A c \in Calls : Settled(c)
  BY <1>1
<1> QED
  BY <1>2, InductiveInvariant, PTL DEF Spec, SettledSalesStay

------------------------------------------------------------------------------------
(* The second half of StockIsAccountedFor, inductive together with IInv.   *)
Accounted == \A p \in Products :
  stock[p] = InitialStock[p] - SumFunction([c \in Calls |-> Taken(c, p)])

(* The quantities of a cart, item by item.                                 *)
LEMMA QuantityType ==
  ASSUME TypeOK, NEW c \in Calls
  PROVE  \A i \in 1 .. Len(cart[c]) : /\ Quantities(c)[i] = cart[c][i].quantity
                                      /\ Quantities(c)[i] \in Int
PROOF
<1>1. cart[c] \in Seq([product: Products, quantity: Int])
  BY CartType
<1>2. ASSUME NEW i \in 1 .. Len(cart[c])
      PROVE  cart[c][i] \in [product: Products, quantity: Int]
  BY <1>1, ElementOfSeq
<1>3. DOMAIN cart[c] = 1 .. Len(cart[c])
  BY <1>1
<1> QED
  BY <1>2, <1>3 DEF Quantities

(* What a call took off a product is a sum over finitely many items.       *)
LEMMA TakenType ==
  ASSUME IInv
  PROVE  \A c \in Calls, p \in Products :
           /\ IsFiniteSet(deducted[c])
           /\ IsFiniteSet({i \in deducted[c] : cart[c][i].product = p})
           /\ Taken(c, p) \in Int
PROOF
<1> SUFFICES ASSUME NEW c \in Calls, NEW p \in Products
             PROVE  /\ IsFiniteSet(deducted[c])
                    /\ IsFiniteSet({i \in deducted[c] : cart[c][i].product = p})
                    /\ Taken(c, p) \in Int
  OBVIOUS
<1>1. cart[c] \in Seq([product: Products, quantity: Int])
  BY CartType DEF IInv
<1>2. deducted[c] \subseteq 1 .. Len(cart[c])
  BY <1>1 DEF IInv, TypeOK, Progress
<1>3. IsFiniteSet(1 .. Len(cart[c]))
  BY <1>1, FS_Interval
<1>4. IsFiniteSet(deducted[c])
  BY <1>2, <1>3, FS_Subset
<1> DEFINE mine == {i \in deducted[c] : cart[c][i].product = p}
<1>5. IsFiniteSet(mine)
  BY <1>4, FS_Subset
<1>6. \A i \in mine : Quantities(c)[i] \in Int
  BY <1>2, QuantityType DEF IInv
<1>7. SumFunctionOnSet(Quantities(c), mine) \in Int
  <2> HIDE DEF mine
  <2> QED
    BY <1>5, <1>6, SumType
<1> QED
  BY <1>4, <1>5, <1>7 DEF Taken

(* A step that leaves the carts and the deductions alone.                  *)
LEMMA SameTaken ==
  ASSUME UNCHANGED <<cart, deducted>>
  PROVE  \A c \in Calls, p \in Products : Taken(c, p)' = Taken(c, p)
PROOF BY DEF Taken, Quantities

(* A step that takes nothing off the stock keeps it accounted for.         *)
LEMMA AccountedStays ==
  ASSUME Accounted, UNCHANGED stock,
         \A c \in Calls, p \in Products : Taken(c, p)' = Taken(c, p)
  PROVE  Accounted'
PROOF
<1> SUFFICES ASSUME NEW p \in Products
             PROVE  stock'[p] = InitialStock[p] - SumFunction([c \in Calls |-> Taken(c, p)'])
  BY DEF Accounted
<1>1. [c \in Calls |-> Taken(c, p)'] = [c \in Calls |-> Taken(c, p)]
  OBVIOUS
<1>2. stock[p] = InitialStock[p] - SumFunction([c \in Calls |-> Taken(c, p)])
  BY DEF Accounted
<1> QED
  BY <1>1, <1>2

(* UPDATE products SET stock = stock - quantity takes off exactly what one *)
(* more deducted item adds to the sum of its call.                         *)
LEMMA DeductAccounted ==
  ASSUME IInv, Accounted, NEW c \in Calls, DeductStock(c)
  PROVE  Accounted'
PROOF
<1> DEFINE n == items[c]
           q == cart[c][n].quantity
           sold == cart[c][n].product
<1>1. cart[c] \in Seq([product: Products, quantity: Int])
  BY CartType DEF IInv
<1>2. n \in 1 .. Len(cart[c]) /\ n \notin deducted[c]
  BY <1>1 DEF IInv, TypeOK, Progress, DeductStock
<1>3. cart[c][n] \in [product: Products, quantity: Int]
  BY <1>1, <1>2, ElementOfSeq
<1>4. q \in Int /\ sold \in Products /\ Quantities(c)[n] = q
  BY <1>2, <1>3, QuantityType DEF IInv
<1>5. /\ stock' = [stock EXCEPT ![sold] = stock[sold] - q]
      /\ deducted' = [deducted EXCEPT ![c] = deducted[c] \cup {n}]
      /\ cart' = cart
  BY DEF DeductStock
<1> HIDE DEF n, q, sold
<1>6. ASSUME NEW p \in Products
      PROVE  Taken(c, p)' = Taken(c, p) + IF p = sold THEN q ELSE 0
  <2>1. Taken(c, p)' = SumFunctionOnSet(Quantities(c),
                         {i \in deducted[c] \cup {n} : cart[c][i].product = p})
    BY <1>5 DEF Taken, Quantities, IInv, TypeOK
  <2>2. PICK mine : mine = {i \in deducted[c] : cart[c][i].product = p}
    OBVIOUS
  <2>3. Taken(c, p) = SumFunctionOnSet(Quantities(c), mine) /\ Taken(c, p) \in Int
    BY <2>2, TakenType DEF Taken
  <2>4. CASE p = sold
    <3>1. {i \in deducted[c] \cup {n} : cart[c][i].product = p} = mine \cup {n}
      BY <2>2, <2>4 DEF sold
    <3>2. IsFiniteSet(mine) /\ n \notin mine
      BY <1>2, <2>2, TakenType
    <3>3. \A i \in mine \cup {n} : Quantities(c)[i] \in Int
      <4>1. deducted[c] \subseteq 1 .. Len(cart[c])
        BY <1>1 DEF IInv, TypeOK, Progress
      <4> QED
        BY <1>2, <2>2, <4>1, QuantityType DEF IInv
    <3>4. SumFunctionOnSet(Quantities(c), mine \cup {n})
            = Quantities(c)[n] + SumFunctionOnSet(Quantities(c), mine)
      BY <3>2, <3>3, SumAdd
    <3>5. Taken(c, p)' = q + Taken(c, p)
      BY <1>4, <2>1, <2>3, <3>1, <3>4
    <3> QED
      BY <1>4, <2>3, <2>4, <3>5
  <2>5. CASE p # sold
    <3>1. {i \in deducted[c] \cup {n} : cart[c][i].product = p} = mine
      BY <2>2, <2>5 DEF sold
    <3>2. Taken(c, p)' = Taken(c, p)
      BY <2>1, <2>3, <3>1
    <3> QED
      BY <2>3, <2>5, <3>2
  <2> QED
    BY <2>4, <2>5
<1>7. ASSUME NEW d \in Calls, d # c, NEW p \in Products
      PROVE  Taken(d, p)' = Taken(d, p)
  BY <1>5, <1>7 DEF Taken, Quantities, IInv, TypeOK
<1>8. ASSUME NEW p \in Products
      PROVE  stock'[p] = InitialStock[p] - SumFunction([d \in Calls |-> Taken(d, p)'])
  <2> DEFINE F == [d \in Calls |-> Taken(d, p)]
             G == [d \in Calls |-> Taken(d, p)']
             more == IF p = sold THEN q ELSE 0
  <2>1. more \in Int
    BY <1>4
  <2>2. stock'[p] = stock[p] - more /\ stock[p] \in Int /\ InitialStock[p] \in Int
    <3>1. stock \in [Products -> Int] /\ InitialStock[p] \in Int
      BY InitialStockAssumption DEF IInv, TypeOK
    <3>2. CASE p = sold
      BY <1>4, <1>5, <3>1, <3>2
    <3>3. CASE p # sold
      BY <1>4, <1>5, <3>1, <3>3
    <3> QED
      BY <3>2, <3>3
  <2>3. stock[p] = InitialStock[p] - SumFunctionOnSet(F, Calls)
    BY DEF Accounted, SumFunction
  <2>4. /\ \A d \in Calls : F[d] \in Int /\ G[d] \in Int
        /\ \A d \in Calls \ {c} : F[d] = G[d]
        /\ G[c] = F[c] + more
    <3>1. \A d \in Calls : Taken(d, p) \in Int
      BY TakenType
    <3>2. \A d \in Calls \ {c} : Taken(d, p)' = Taken(d, p)
      BY <1>7
    <3>3. Taken(c, p)' = Taken(c, p) + more
      BY <1>6
    <3> HIDE DEF more
    <3> QED
      BY <2>1, <3>1, <3>2, <3>3
  <2>5. SumFunction(G) = SumFunctionOnSet(G, Calls)
    BY DEF SumFunction
  <2> HIDE DEF F, G, more
  <2>6. SumFunctionOnSet(G, Calls) = SumFunctionOnSet(F, Calls) - F[c] + G[c]
    BY <2>4, SumChange, CallsAssumption
  <2>7. SumFunctionOnSet(F, Calls) \in Int
    BY <2>4, SumType, CallsAssumption
  <2>8. SumFunctionOnSet(G, Calls) = SumFunctionOnSet(F, Calls) + more
    BY <2>1, <2>4, <2>6, <2>7
  <2>9. stock'[p] = InitialStock[p] - SumFunction(G)
    BY <2>1, <2>2, <2>3, <2>5, <2>7, <2>8
  <2> QED
    BY <2>9 DEF G
<1> QED
  BY <1>8 DEF Accounted

(* A call that begins has no deductions, whatever its cart.                *)
LEMMA ChargeAccounted ==
  ASSUME IInv, Accounted, NEW c \in Calls, NEW goods \in Carts, Charge(c, goods)
  PROVE  Accounted'
PROOF
<1>1. deducted[c] = {} /\ deducted' = deducted /\ stock' = stock
  BY DEF IInv, TypeOK, Progress, Charge
<1>2. ASSUME NEW d \in Calls, NEW p \in Products
      PROVE  Taken(d, p)' = Taken(d, p)
  <2>1. CASE d = c
    <3>1. Taken(d, p) = SumFunctionOnSet(Quantities(d), {})
      <4>1. {i \in deducted[d] : cart[d][i].product = p} = {}
        BY <1>1, <2>1
      <4> QED
        BY <4>1 DEF Taken
    <3>2. Taken(d, p)' = SumFunctionOnSet(Quantities(d)', {})
      <4>1. {i \in deducted'[d] : cart'[d][i].product = p} = {}
        BY <1>1, <2>1
      <4> QED
        BY <4>1 DEF Taken
    <3> QED
      BY <3>1, <3>2, SumEmpty
  <2>2. CASE d # c
    BY <1>1, <2>2 DEF Taken, Quantities, Charge, IInv, TypeOK
  <2> QED
    BY <2>1, <2>2
<1> QED
  BY <1>1, <1>2, AccountedStays

(* The initial stock, with nothing deducted.                               *)
LEMMA InitAccounted == Init => Accounted
PROOF
<1> SUFFICES ASSUME Init, NEW p \in Products
             PROVE  stock[p] = InitialStock[p] - SumFunction([c \in Calls |-> Taken(c, p)])
  BY DEF Accounted
<1>1. \A c \in Calls : Taken(c, p) = 0
  <2> SUFFICES ASSUME NEW c \in Calls PROVE Taken(c, p) = 0
    OBVIOUS
  <2>1. {i \in deducted[c] : cart[c][i].product = p} = {}
    BY DEF Init
  <2> QED
    BY <2>1, SumEmpty DEF Taken
<1> DEFINE F == [c \in Calls |-> Taken(c, p)]
<1>2. F = [c \in Calls |-> 0]
  BY <1>1
<1>3. SumFunctionOnSet([c \in Calls |-> 0], Calls) = 0
  BY SumZero, CallsAssumption
<1>4. SumFunction(F) = 0
  BY <1>2, <1>3 DEF SumFunction
<1> HIDE DEF F
<1>5. stock[p] = InitialStock[p] - SumFunction(F)
  BY <1>4, InitialStockAssumption DEF Init
<1> QED
  BY <1>5 DEF F

(* Every step keeps the stock accounted for.                               *)
LEMMA NextAccounted == IInv /\ Accounted /\ [Next]_vars => Accounted'
PROOF
<1> SUFFICES ASSUME IInv, Accounted, [Next]_vars PROVE Accounted'
  OBVIOUS
<1>1. ASSUME NEW c \in Calls, NEW goods \in Carts, Charge(c, goods)
      PROVE  Accounted'
  BY <1>1, ChargeAccounted
<1>2. ASSUME NEW c \in Calls, DeductStock(c)
      PROVE  Accounted'
  BY <1>2, DeductAccounted
<1>3. ASSUME NEW c \in Calls,
             InsertSale(c) \/ InsertItem(c) \/ SkipStock(c) \/ Fail(c)
               \/ Answer(c) \/ CancelSale(c)
      PROVE  Accounted'
  <2>1. UNCHANGED <<cart, deducted>> /\ UNCHANGED stock
    BY <1>3 DEF InsertSale, InsertItem, SkipStock, Fail, Answer, TagTenant, AnswerOk,
        AnswerError, CancelSale
  <2> QED
    BY <2>1, SameTaken, AccountedStays
<1>4. CASE UNCHANGED vars
  <2>1. UNCHANGED <<cart, deducted>> /\ UNCHANGED stock
    BY <1>4 DEF vars
  <2> QED
    BY <2>1, SameTaken, AccountedStays
<1> QED
  BY <1>1, <1>2, <1>3, <1>4 DEF Next, Create

(* The stock of every product is what it was minus the deducted            *)
(* quantities, each once, for any number of calls to POST /cobrar in any   *)
(* order: CreateSale subtracts in the database, and never from a value it  *)
(* read.                                                                   *)
THEOREM StockAccounted == Spec => []StockIsAccountedFor
PROOF
<1>1. IInv /\ Accounted => StockIsAccountedFor
  BY DEF IInv, Progress, Accounted, StockIsAccountedFor
<1>2. Spec => []Accounted
  BY InductiveInvariant, InitAccounted, NextAccounted, PTL DEF Spec
<1> QED
  BY <1>1, <1>2, InductiveInvariant, PTL

------------------------------------------------------------------------------------
(* The status of a sale as SalesService sees it.                           *)
Registered(c) ==
  IF sale[c] = "none" THEN "none"
  ELSE IF items[c] = Len(cart[c]) THEN "complete" ELSE "partial"

(* The variable of SalesService under the mapping.                         *)
registered == [c \in Calls |-> Registered(c)]

(* A step that writes nothing of any sale, or only what does not count.    *)
LEMMA SameRegistered ==
  ASSUME \A c \in Calls : Registered(c)' = Registered(c)
  PROVE  registered' = registered
PROOF BY DEF registered

(* A step that adds to an unfinished sale of a waiting or given-up call is *)
(* a write of the service.                                                 *)
LEMMA WriteStep ==
  ASSUME NEW c \in Calls, answer[c] \in {"pending", "error"}, UNCHANGED answer,
         Registered(c) # "complete", Registered(c)' \in {"partial", "complete"},
         \A d \in Calls \ {c} : Registered(d)' = Registered(d)
  PROVE  Service!Write(c)
PROOF
<1>1. registered[c] # "complete"
  BY DEF registered
<1>2. registered' = [registered EXCEPT ![c] = Registered(c)']
  BY DEF registered
<1>3. /\ registered[c] # "complete"
      /\ \E more \in {"partial", "complete"} :
           registered' = [registered EXCEPT ![c] = more]
  BY <1>1, <1>2
<1> QED
  BY <1>3 DEF Service!Write, registered, Registered

(* The initial states map to initial states of SalesService.               *)
LEMMA InitService == Init => Service!Init
PROOF BY DEF Init, Service!Init

(* Every step of the gateway and of the sales service is a step of         *)
(* SalesService or a stutter.                                              *)
LEMMA NextService ==
  IInv /\ [Next]_vars => [Service!Next]_(Service!vars)
PROOF
<1> SUFFICES ASSUME IInv, [Next]_vars
             PROVE  Service!Next \/ (registered' = registered /\ answer' = answer)
  BY DEF Service!vars, registered, Registered
<1>0. \A c \in Calls : Len(cart[c]) \in Nat /\ items[c] \in Nat
  <2>1. cart \in [Calls -> Seq([product: Products, quantity: Int])]
    BY CartType DEF IInv
  <2>2. \A c \in Calls : Len(cart[c]) \in Nat
    BY <2>1
  <2> QED
    BY <2>2 DEF IInv, TypeOK
<1>1. ASSUME NEW c \in Calls, NEW goods \in Carts, Charge(c, goods)
      PROVE  Service!Next
  <2>1. sale[c] = "none"
    BY <1>1 DEF IInv, TypeOK, Progress, Charge
  <2>2. \A d \in Calls : Registered(d)' = Registered(d)
    BY <1>1, <2>1 DEF IInv, TypeOK, Registered, Charge
  <2>3. registered' = registered
    BY <2>2, SameRegistered
  <2>4. Service!Call(c)
    BY <1>1, <2>3 DEF Service!Call, registered, Registered, Charge
  <2> QED
    BY <2>4 DEF Service!Next
<1>2. ASSUME NEW c \in Calls, InsertSale(c) \/ InsertItem(c)
      PROVE  Service!Next
  <2>1. answer[c] \in {"pending", "error"} /\ UNCHANGED answer
    BY <1>2 DEF IInv, TypeOK, Progress, InsertSale, InsertItem
  <2>2. Registered(c) # "complete" /\ Registered(c)' \in {"partial", "complete"}
    BY <1>2 DEF IInv, TypeOK, Progress, InsertSale, InsertItem, Registered
  <2>3. \A d \in Calls \ {c} : Registered(d)' = Registered(d)
    BY <1>2 DEF IInv, TypeOK, InsertSale, InsertItem, Registered
  <2>4. Service!Write(c)
    BY <2>1, <2>2, <2>3, WriteStep
  <2> QED
    BY <2>4 DEF Service!Next, Service!Serve
<1>3. ASSUME NEW c \in Calls, Fail(c)
      PROVE  Service!Next \/ (registered' = registered /\ answer' = answer)
  <2>1. answer[c] \in {"pending", "error"} /\ UNCHANGED answer
    BY <1>3 DEF IInv, TypeOK, Progress, Fail
  <2>2. \A d \in Calls \ {c} : Registered(d)' = Registered(d)
    BY <1>3 DEF IInv, TypeOK, Fail, Registered
  <2>3. CASE UNCHANGED <<sale, items>>
    <3>1. \A d \in Calls : Registered(d)' = Registered(d)
      BY <1>3, <2>3 DEF Fail, Registered
    <3> QED
      BY <2>1, <3>1, SameRegistered
  <2>4. CASE ~UNCHANGED <<sale, items>>
    <3>1. Registered(c) # "complete" /\ Registered(c)' \in {"partial", "complete"}
      BY <1>0, <1>3, <2>4 DEF IInv, TypeOK, Progress, Fail, Registered
    <3>2. Service!Write(c)
      BY <2>1, <2>2, <3>1, WriteStep
    <3> QED
      BY <3>2 DEF Service!Next, Service!Serve
  <2> QED
    BY <2>3, <2>4
<1>4. ASSUME NEW c \in Calls,
             DeductStock(c) \/ SkipStock(c) \/ TagTenant(c) \/ CancelSale(c)
      PROVE  registered' = registered /\ answer' = answer
  <2>1. \A d \in Calls : Registered(d)' = Registered(d)
    BY <1>4 DEF IInv, TypeOK, DeductStock, SkipStock, TagTenant, CancelSale, Registered
  <2>2. answer' = answer
    BY <1>4 DEF DeductStock, SkipStock, TagTenant, CancelSale
  <2> QED
    BY <2>1, <2>2, SameRegistered
<1>5. ASSUME NEW c \in Calls, AnswerOk(c) \/ AnswerError(c)
      PROVE  Service!Next
  <2>1. \A d \in Calls : Registered(d)' = Registered(d)
    BY <1>5 DEF AnswerOk, AnswerError, Registered
  <2>2. registered' = registered
    BY <2>1, SameRegistered
  <2>3. CASE AnswerOk(c)
    <3>1. registered[c] = "complete"
      BY <2>3 DEF IInv, TypeOK, Progress, AnswerOk, registered, Registered
    <3>2. Service!AnswerOk(c)
      BY <2>2, <2>3, <3>1 DEF AnswerOk, Service!AnswerOk, registered, Registered
    <3> QED
      BY <3>2 DEF Service!Next, Service!Serve
  <2>4. CASE AnswerError(c)
    <3>1. Service!AnswerError(c)
      BY <2>2, <2>4 DEF AnswerError, Service!AnswerError, registered, Registered
    <3> QED
      BY <3>1 DEF Service!Next, Service!Serve
  <2> QED
    BY <1>5, <2>3, <2>4
<1>6. CASE UNCHANGED vars
  BY <1>6 DEF vars, registered, Registered
<1> QED
  BY <1>1, <1>2, <1>3, <1>4, <1>5, <1>6 DEF Next, Create, Answer

(* POST /cobrar with CreateSale behind it implements SalesService: "ok"    *)
(* only for a complete sale, an error for a sale that is missing, partial, *)
(* complete, or still being written.                                       *)
THEOREM KeepsThePromise == Spec => ImplementsService
PROOF
  BY InitService, NextService, InductiveInvariant, PTL
  DEF Spec, ImplementsService, Service!Spec

------------------------------------------------------------------------------------
(* The values of a row of sales.                                           *)
RowFields ==
  [step: {"none", "inserting", "refused", "open", "ended"},
   owner: Tenants \cup {Untagged}, tag: Tenants \cup {Untagged}, at: Nat,
   status: {"completed", "cancelled"}, items: SUBSET Names]

(* The parts of a report.                                                  *)
PartFields == [ok: BOOLEAN, full: BOOLEAN, sales: SUBSET Sales]

(* The values of a report that runs or has ended.                          *)
ReportFields ==
  [kind: Kinds, tenant: Tenants, range: [from: Int, to: Int, named: BOOLEAN],
   seen: Seq(PartFields), day: Nat,
   known: SUBSET Sales, rows: SUBSET Sales, itemized: SUBSET Sales,
   tagged: SUBSET Sales]

(* The steps at which a row is not in the table and will not be dated.     *)
Absent == {"none", "refused"}

(* A row only ever has the tag of its owner, and only once CreateSale has  *)
(* answered; and items only once the row is there.                         *)
RowsOK ==
  /\ clock \in Nat
  /\ row \in [Sales -> RowFields]
  /\ \A s \in Sales : /\ row[s].tag \in {row[s].owner, Untagged}
                      /\ row[s].tag # Untagged => row[s].step = "ended"
                      /\ row[s].items # {} => row[s].step \in {"open", "ended"}

(* What a report remembers of its beginning is still so.                   *)
BegunOK(rep) ==
  /\ Day(clock) >= rep.day
  /\ rep.known \cup rep.rows \cup rep.itemized \cup rep.tagged \subseteq Sales
  /\ \A s \in Sales \ rep.known :
       row[s].step \in Absent \/ Day(row[s].at) >= rep.day
  /\ \A s \in rep.rows : row[s].step \in {"open", "ended"}
  /\ \A s \in rep.itemized : row[s].items # {}
  /\ \A s \in rep.tagged : row[s].tag # Untagged
  /\ rep.kind \in {"corte", "period"} /\ rep.range.named =>
       rep.day \in rep.range.from .. rep.range.to

(* The i-th part may do without a sale: that of the products, if the sale  *)
(* is cancelled, came to the report without items, or others sell more.    *)
MayLack(rep, i, part, s) ==
  /\ Statements(rep.kind)[i] = "products"
  /\ row[s].status = "cancelled" \/ s \notin rep.itemized \/ part.full

(* The i-th part lists what it has to, and nothing else.                   *)
PartOK(rep, i, part) ==
  /\ rep.kind \in Dated \cup {"admin", "tenant"} =>
       \A s \in part.sales \cap rep.tagged : row[s].tag = rep.tenant
  /\ rep.kind = "corte" =>
       \A s \in part.sales : /\ s \in Sales
                             /\ row[s].step \in {"open", "ended"}
                             /\ InRange(s, rep.range)
                             /\ rep.range.to < rep.day => s \in rep.known
  /\ rep.kind \in {"corte", "period"} =>
       \A s \in rep.rows :
         row[s].owner = rep.tenant /\ InRange(s, rep.range) =>
           s \in part.sales \/ MayLack(rep, i, part, s)

(* What is true of each report: not begun, answered with an error, or      *)
(* right in all it remembers and has listed.                               *)
ReportOK(rep) ==
  \/ rep = Idle
  \/ rep = Failed
  \/ /\ rep \in ReportFields
     /\ BegunOK(rep)
     /\ \A i \in 1 .. Len(rep.seen) : rep.seen[i].ok => PartOK(rep, i, rep.seen[i])

(* The inductive invariant of SpecReports.                                 *)
ReportsInv ==
  /\ RowsOK
  /\ report \in [Reports -> ReportFields \cup {Idle, Failed}]
  /\ \A r \in Reports : ReportOK(report[r])

(* Rows only go forward.                                                   *)
RowGoesOn(s) ==
  /\ row[s].step \in {"open", "ended"} =>
       /\ row'[s].step \in {"open", "ended"}
       /\ row'[s].owner = row[s].owner
       /\ row[s].status = "cancelled" => row'[s].status = "cancelled"
  /\ row[s].items # {} => row'[s].items # {}
  /\ row[s].tag # Untagged => row'[s].tag = row[s].tag
  /\ row'[s].step \notin Absent =>
       row'[s].at = IF row[s].step \in Absent THEN clock ELSE row[s].at

(* Later times are of later days, or of the same.                          *)
LEMMA DayMonotone ==
  \A t, u \in Nat : t <= u => Day(t) <= Day(u) /\ Day(t) \in Nat
PROOF BY CalendarAssumption DEF Day

(* One row changes as the statements of CreateSale and handleCobrar do it. *)
RowStep(s) ==
  \/ InsertBegins(s) \/ Insert(s) \/ InsertFails(s) \/ Tag(s) \/ EndUntagged(s)
  \/ CancelRow(s) \/ AddItem(s)

(* Each of those statements keeps the rows right and only takes them       *)
(* forward.                                                                *)
LEMMA RowStepGoesOn ==
  ASSUME RowsOK, NEW s \in Sales, RowStep(s)
  PROVE  RowsOK' /\ \A u \in Sales : RowGoesOn(u)
PROOF
<1>0. clock' = clock /\ clock \in Nat
  BY DEF RowStep, InsertBegins, Insert, InsertFails, Tag, EndUntagged, CancelRow, AddItem, RowsOK
<1>1. PICK new : row' = [row EXCEPT ![s] = new]
  BY DEF RowStep, InsertBegins, Insert, InsertFails, Tag, EndUntagged, CancelRow, AddItem
<1>2. row[s] \in RowFields
  BY DEF RowsOK
<1>3. row'[s] = new
  BY <1>1 DEF RowsOK
<1>4. /\ new \in RowFields
      /\ new.tag \in {new.owner, Untagged}
      /\ new.tag # Untagged => new.step = "ended"
      /\ new.items # {} => new.step \in {"open", "ended"}
      /\ RowGoesOn(s)
  <2>1. CASE InsertBegins(s)
    <3>1. PICK t \in Tenants : row' = [row EXCEPT ![s] = RowOf("inserting", t, clock)]
      BY <2>1 DEF InsertBegins
    <3>2. new = RowOf("inserting", t, clock)
      BY <1>3, <3>1 DEF RowsOK
    <3>3. row[s].step = "none" /\ row[s].tag = Untagged /\ row[s].items = {}
      BY <2>1 DEF RowsOK, InsertBegins
    <3>4. /\ new.step = "inserting" /\ new.tag = Untagged /\ new.at = clock
          /\ new.items = {} /\ new \in RowFields
      BY <1>0, <3>2 DEF RowOf, RowFields
    <3> QED
      BY <1>3, <3>3, <3>4 DEF RowGoesOn, Absent, Untagged
  <2>2. CASE Insert(s)
    BY <1>2, <1>3, <2>2 DEF RowsOK, Insert, RowFields, RowGoesOn, Absent
  <2>3. CASE InsertFails(s)
    <3>1. new = RowOf("refused", Untagged, 0)
      BY <1>3, <2>3 DEF RowsOK, InsertFails
    <3>2. row[s].step = "inserting" /\ row[s].tag = Untagged /\ row[s].items = {}
      BY <2>3 DEF RowsOK, InsertFails
    <3>3. /\ new.step = "refused" /\ new.tag = Untagged /\ new.at = 0
          /\ new.items = {} /\ new \in RowFields
      BY <3>1 DEF RowOf, RowFields
    <3> QED
      BY <1>3, <3>2, <3>3 DEF RowGoesOn, Absent, Untagged
  <2>4. CASE Tag(s)
    BY <1>2, <1>3, <2>4 DEF RowsOK, Tag, RowFields, RowGoesOn, Absent
  <2>5. CASE EndUntagged(s)
    BY <1>2, <1>3, <2>5 DEF RowsOK, EndUntagged, RowFields, RowGoesOn, Absent
  <2>6. CASE CancelRow(s)
    BY <1>2, <1>3, <2>6 DEF RowsOK, CancelRow, Rows, RowFields, RowGoesOn, Absent
  <2>7. CASE AddItem(s)
    <3>1. PICK p \in Names \ row[s].items :
            row' = [row EXCEPT ![s].items = row[s].items \cup {p}]
      BY <2>7 DEF AddItem
    <3>2. new = [row[s] EXCEPT !.items = row[s].items \cup {p}]
      BY <1>3, <3>1 DEF RowsOK
    <3>3. row[s].step \in {"open", "ended"}
      BY <2>7 DEF AddItem, Rows
    <3>4. /\ new.items = row[s].items \cup {p} /\ new \in RowFields
          /\ new.step = row[s].step /\ new.tag = row[s].tag
          /\ new.owner = row[s].owner /\ new.at = row[s].at
          /\ new.status = row[s].status
      BY <1>2, <3>2 DEF RowFields
    <3> QED
      BY <1>3, <3>3, <3>4 DEF RowsOK, RowGoesOn, Absent
  <2> QED
    BY <2>1, <2>2, <2>3, <2>4, <2>5, <2>6, <2>7 DEF RowStep
<1>5. RowsOK'
  BY <1>0, <1>1, <1>3, <1>4 DEF RowsOK
<1>6. ASSUME NEW u \in Sales PROVE RowGoesOn(u)
  <2>1. CASE u = s
    BY <1>4, <2>1
  <2>2. CASE u # s
    BY <1>1, <2>2 DEF RowGoesOn, RowsOK
  <2> QED
    BY <2>1, <2>2
<1> QED
  BY <1>5, <1>6

(* What a report began with and what it listed stays as it must be while   *)
(* rows go forward and time passes.                                        *)
LEMMA ReportOutlivesRows ==
  ASSUME RowsOK, RowsOK', \A s \in Sales : RowGoesOn(s), clock' >= clock,
         NEW rep, ReportOK(rep)
  PROVE  ReportOK(rep)'
PROOF
<1>1. CASE rep = Idle \/ rep = Failed
  BY <1>1 DEF ReportOK
<1>2. CASE rep \in ReportFields /\ BegunOK(rep)
             /\ \A i \in 1 .. Len(rep.seen) : rep.seen[i].ok => PartOK(rep, i, rep.seen[i])
  <2> USE <1>2
  <2>0. clock \in Nat /\ clock' \in Nat /\ rep.day \in Nat
    BY DEF RowsOK, ReportFields
  <2>1. ASSUME NEW s \in Sales
        PROVE  /\ row[s].at \in Nat /\ row'[s].at \in Nat
               /\ row[s].step \in {"none", "inserting", "refused", "open", "ended"}
               /\ row'[s].step \in {"none", "inserting", "refused", "open", "ended"}
    BY DEF RowsOK, RowFields
  <2>2. BegunOK(rep)'
    <3>0. /\ Day(clock) \in Nat /\ Day(clock') \in Nat
          /\ Day(clock') >= Day(clock) /\ Day(clock) >= rep.day
      <4>1. PICK now, later \in Nat : now = clock /\ later = clock'
        BY <2>0
      <4>2. now <= later
        BY <2>0, <4>1
      <4> QED
        BY <4>1, <4>2, DayMonotone DEF BegunOK
    <3>1. \A s \in Sales \ rep.known : row'[s].step \in Absent \/ Day(row'[s].at) >= rep.day
      BY <2>0, <2>1, <3>0 DEF BegunOK, RowGoesOn
    <3>2. \A s \in rep.rows : row'[s].step \in {"open", "ended"}
      BY DEF BegunOK, RowGoesOn
    <3>3. /\ \A s \in rep.tagged : row'[s].tag # Untagged
          /\ \A s \in rep.itemized : row'[s].items # {}
      BY DEF BegunOK, RowGoesOn
    <3>4. Day(clock') >= rep.day
      BY <2>0, <3>0
    <3> QED
      BY <3>1, <3>2, <3>3, <3>4 DEF BegunOK, Day
  <2>3. ASSUME NEW s \in Sales, row[s].step \in {"open", "ended"}, NEW range
        PROVE  /\ row'[s].step \in {"open", "ended"} /\ row'[s].owner = row[s].owner
               /\ InRange(s, range)' <=> InRange(s, range)
               /\ row[s].status = "cancelled" => row'[s].status = "cancelled"
    BY <2>3 DEF RowGoesOn, InRange, Day, Absent
  <2>4. ASSUME NEW i, NEW part, PartOK(rep, i, part)
        PROVE  PartOK(rep, i, part)'
    <3>1. rep.kind \in Dated \cup {"admin", "tenant"} =>
            \A s \in part.sales \cap rep.tagged : row'[s].tag = rep.tenant
      BY <2>4 DEF PartOK, BegunOK, RowGoesOn
    <3>2. rep.kind = "corte" =>
            \A s \in part.sales : /\ s \in Sales
                                  /\ row'[s].step \in {"open", "ended"}
                                  /\ InRange(s, rep.range)'
                                  /\ rep.range.to < rep.day => s \in rep.known
      BY <2>3, <2>4 DEF PartOK
    <3>3. rep.kind \in {"corte", "period"} =>
            \A s \in rep.rows :
              row'[s].owner = rep.tenant /\ InRange(s, rep.range)' =>
                s \in part.sales \/ MayLack(rep, i, part, s)'
      BY <2>3, <2>4 DEF PartOK, BegunOK, MayLack
    <3> QED
      BY <3>1, <3>2, <3>3 DEF PartOK, Day, Dated
  <2> QED
    BY <2>2, <2>4 DEF ReportOK
<1> QED
  BY <1>1, <1>2 DEF ReportOK

(* Which statements a report runs.                                         *)
LEMMA StatementNames ==
  \A kind \in Kinds : \A i \in 1 .. Len(Statements(kind)) :
    /\ kind \in {"corte", "period"} =>
         Statements(kind)[i] \in {"methods", "hours", "products", "days"}
    /\ kind = "cfdi" => Statements(kind)[i] = "invoices"
    /\ kind = "admin" => Statements(kind)[i] = "totals"
    /\ kind = "tenant" => Statements(kind)[i] = "daily"
PROOF
<1>1. Statements("corte") = <<"methods", "hours", "products">>
  BY DEF Statements
<1>2. Statements("period") = <<"days", "products", "methods">>
  BY DEF Statements
<1>3. Statements("cfdi") = <<"invoices">>
  BY DEF Statements
<1>4. Statements("admin") = <<"totals">>
  BY DEF Statements
<1>5. Statements("tenant") = <<"daily">>
  BY DEF Statements
<1> SUFFICES ASSUME NEW kind \in {"corte", "period", "cfdi", "admin", "tenant"},
                    NEW i \in 1 .. Len(Statements(kind))
             PROVE  /\ kind \in {"corte", "period"} =>
                         Statements(kind)[i] \in {"methods", "hours", "products", "days"}
                    /\ kind = "cfdi" => Statements(kind)[i] = "invoices"
                    /\ kind = "admin" => Statements(kind)[i] = "totals"
                    /\ kind = "tenant" => Statements(kind)[i] = "daily"
  OBVIOUS
<1>6. CASE kind = "corte"
  <2>1. i \in 1 .. 3
    BY <1>1, <1>6
  <2> QED
    BY <1>1, <1>6, <2>1
<1>7. CASE kind = "period"
  <2>1. i \in 1 .. 3
    BY <1>2, <1>7
  <2> QED
    BY <1>2, <1>7, <2>1
<1>8. CASE kind = "cfdi"
  BY <1>3, <1>8
<1>9. CASE kind = "admin"
  BY <1>4, <1>9
<1>10. CASE kind = "tenant"
  BY <1>5, <1>10
<1> QED
  BY <1>6, <1>7, <1>8, <1>9, <1>10

(* Unless the limit is reached, what the products name is all there is.    *)
LEMMA NothingCut ==
  ASSUME RowsOK, NEW rep, NEW top \in TopProducts(rep),
         Cardinality(top) # ProductLimit(rep.kind), NEW s \in ProductSales(rep)
  PROVE  row[s].items \cap top # {}
PROOF
<1> DEFINE names == UNION {row[u].items : u \in ProductSales(rep)}
<1>1. ProductSales(rep) \subseteq Sales
  BY DEF ProductSales, Sold, Rows
<1>2. names \subseteq Names
  BY <1>1 DEF RowsOK, RowFields
<1>3. IsFiniteSet(names)
  BY <1>2, NamesAssumption, FS_Subset
<1>4. /\ top \in SUBSET names
      /\ Cardinality(top) = (IF Cardinality(names) < ProductLimit(rep.kind)
                             THEN Cardinality(names) ELSE ProductLimit(rep.kind))
  BY DEF TopProducts
<1>5. row[s].items # {} /\ row[s].items \subseteq names
  BY DEF ProductSales
<1> HIDE DEF names
<1>6. Cardinality(top) = Cardinality(names)
  BY <1>4
<1>7. top = names
  BY <1>3, <1>4, <1>6, FS_Subset
<1> QED
  BY <1>5, <1>7

(* A statement without a limit on products returns one of the choices.     *)
LEMMA ListedParts ==
  ASSUME NEW choices, NEW part \in Listed(choices)
  PROVE  /\ part.ok = TRUE /\ part.full = FALSE /\ part.sales \in choices
         /\ part = [ok |-> TRUE, full |-> FALSE, sales |-> part.sales]
PROOF
<1>1. PICK sales \in choices : part = [ok |-> TRUE, full |-> FALSE, sales |-> sales]
  BY DEF Listed
<1> QED
  BY <1>1

(* What the statements select.                                             *)
LEMMA SelectedParts ==
  ASSUME NEW rep, NEW name, NEW part \in Select(name, rep)
  PROVE  /\ name = "invoices" => part \in Listed(Invoices(rep))
         /\ name = "totals" => part \in Listed({Totals(rep.tenant)})
         /\ name = "daily" => part \in Listed({DaysOfTenant(rep.tenant)})
         /\ name = "newest" => part \in Listed(Newest(Rows, NewestLimit))
         /\ name \notin {"products", "invoices", "totals", "daily", "newest"} =>
              part \in Listed({Sold(rep)})
PROOF
<1>1. CASE name = "products"
  BY <1>1
<1>2. CASE name = "invoices"
  BY <1>2 DEF Select
<1>3. CASE name = "totals"
  BY <1>3 DEF Select
<1>4. CASE name = "daily"
  BY <1>4 DEF Select
<1>5. CASE name = "newest"
  BY <1>5 DEF Select
<1>6. CASE name \notin {"products", "invoices", "totals", "daily", "newest"}
  BY <1>6 DEF Select
<1> QED
  BY <1>1, <1>2, <1>3, <1>4, <1>5, <1>6

(* The products part.                                                      *)
LEMMA ProductsPart ==
  ASSUME RowsOK, NEW rep, NEW part \in Select("products", rep)
  PROVE  /\ part.ok = TRUE /\ part.full \in BOOLEAN
         /\ part = [ok |-> TRUE, full |-> part.full, sales |-> part.sales]
         /\ part.sales \subseteq ProductSales(rep)
         /\ \A s \in ProductSales(rep) : s \in part.sales \/ part.full
PROOF
<1>1. PICK top \in TopProducts(rep) :
        part = [ok |-> TRUE, full |-> Cardinality(top) = ProductLimit(rep.kind),
                sales |-> {s \in ProductSales(rep) : row[s].items \cap top # {}}]
  BY DEF Select
<1>2. PICK full \in BOOLEAN : full <=> Cardinality(top) = ProductLimit(rep.kind)
  OBVIOUS
<1>3. PICK sales : sales = {s \in ProductSales(rep) : row[s].items \cap top # {}}
  OBVIOUS
<1>4. part = [ok |-> TRUE, full |-> full, sales |-> sales]
  BY <1>1, <1>2, <1>3
<1>5. part.ok = TRUE /\ part.full = full /\ part.sales = sales
  BY <1>4
<1>6. \A s \in ProductSales(rep) : s \in sales \/ full
  BY <1>2, <1>3, NothingCut
<1> QED
  BY <1>3, <1>4, <1>5, <1>6

(* Which sales they list.                                                  *)
LEMMA Selections ==
  ASSUME RowsOK, NEW rep, NEW name, NEW part \in Select(name, rep)
  PROVE  /\ name \in {"methods", "hours", "products", "days", "invoices"} =>
              part.sales \subseteq Sold(rep)
         /\ name \in {"methods", "hours", "days"} => part.sales = Sold(rep)
         /\ name = "products" =>
              \A s \in ProductSales(rep) : s \in part.sales \/ part.full
         /\ name \in {"totals", "daily"} => part.sales \subseteq Totals(rep.tenant)
PROOF
<1>1. CASE name = "products"
  <2>1. /\ part.sales \subseteq ProductSales(rep)
        /\ \A s \in ProductSales(rep) : s \in part.sales \/ part.full
    BY <1>1, ProductsPart
  <2>2. ProductSales(rep) \subseteq Sold(rep)
    BY DEF ProductSales
  <2> QED
    BY <1>1, <2>1, <2>2
<1>2. CASE name = "invoices"
  <2>1. part.sales \in Invoices(rep)
    BY <1>2, SelectedParts, ListedParts
  <2>2. part.sales \subseteq Sold(rep)
    BY <2>1 DEF Invoices, Newest
  <2> QED
    BY <1>2, <2>2
<1>3. CASE name = "totals"
  <2>1. part.sales \in {Totals(rep.tenant)}
    BY <1>3, SelectedParts, ListedParts
  <2> QED
    BY <1>3, <2>1
<1>4. CASE name = "daily"
  <2>1. part.sales \in {DaysOfTenant(rep.tenant)}
    BY <1>4, SelectedParts, ListedParts
  <2>2. part.sales \subseteq Totals(rep.tenant)
    BY <2>1 DEF DaysOfTenant
  <2> QED
    BY <1>4, <2>2
<1>5. CASE name \in {"methods", "hours", "days"}
  <2>1. part.sales \in {Sold(rep)}
    BY <1>5, SelectedParts, ListedParts
  <2> QED
    BY <1>5, <2>1
<1> QED
  BY <1>1, <1>2, <1>3, <1>4, <1>5

(* Every statement lists rows of the table.                                *)
LEMMA SelectionsAreRows ==
  ASSUME RowsOK, NEW rep, NEW name, NEW part \in Select(name, rep)
  PROVE  part \in PartFields /\ part.ok
PROOF
<1>1. Sold(rep) \subseteq Rows /\ Totals(rep.tenant) \subseteq Rows /\ Rows \subseteq Sales
  BY DEF Sold, Totals, Rows
<1>2. /\ part.ok = TRUE /\ part.full \in BOOLEAN
      /\ part = [ok |-> TRUE, full |-> part.full, sales |-> part.sales]
  <2>1. CASE name = "products"
    BY <2>1, ProductsPart
  <2>2. CASE name # "products"
    <3>1. PICK choices : part \in Listed(choices)
      BY <2>2, SelectedParts
    <3> QED
      BY <3>1, ListedParts
  <2> QED
    BY <2>1, <2>2
<1>3. part.sales \subseteq Sales
  <2>1. CASE name = "newest"
    <3>1. part.sales \in Newest(Rows, NewestLimit)
      BY <2>1, SelectedParts, ListedParts
    <3> QED
      BY <1>1, <3>1 DEF Newest
  <2>2. CASE name \in {"products", "invoices", "totals", "daily"}
    BY <1>1, <2>2, Selections
  <2>3. CASE name \notin {"products", "invoices", "totals", "daily", "newest"}
    <3>1. part.sales \in {Sold(rep)}
      BY <2>3, SelectedParts, ListedParts
    <3> QED
      BY <1>1, <3>1
  <2> QED
    BY <2>1, <2>2, <2>3
<1>4. PICK full \in BOOLEAN, sales \in SUBSET Sales :
        part = [ok |-> TRUE, full |-> full, sales |-> sales]
  BY <1>2, <1>3
<1> QED
  BY <1>2, <1>4 DEF PartFields

(* A part is right when it is read.                                        *)
LEMMA ReadPartOK ==
  ASSUME RowsOK, NEW rep, rep \in ReportFields, BegunOK(rep),
         NEW i \in 1 .. Len(Statements(rep.kind)),
         NEW part \in Select(Statements(rep.kind)[i], rep)
  PROVE  PartOK(rep, i, part)
PROOF
<1> DEFINE name == Statements(rep.kind)[i]
<1>0. rep.kind \in Kinds
  BY DEF ReportFields
<1>1. /\ rep.kind \in {"corte", "period"} =>
           name \in {"methods", "hours", "products", "days"}
      /\ rep.kind = "cfdi" => name = "invoices"
      /\ rep.kind = "admin" => name = "totals"
      /\ rep.kind = "tenant" => name = "daily"
  BY <1>0, StatementNames
<1>2. /\ name \in {"methods", "hours", "products", "days", "invoices"} =>
           part.sales \subseteq Sold(rep)
      /\ name \in {"methods", "hours", "days"} => part.sales = Sold(rep)
      /\ name = "products" =>
           \A s \in ProductSales(rep) : s \in part.sales \/ part.full
      /\ name \in {"totals", "daily"} => part.sales \subseteq Totals(rep.tenant)
  BY Selections
<1>6. \A s : MayLack(rep, i, part, s) <=>
        /\ name = "products"
        /\ row[s].status = "cancelled" \/ s \notin rep.itemized \/ part.full
  BY DEF MayLack
<1> HIDE DEF name
<1>3. ASSUME rep.kind \in Dated \cup {"admin", "tenant"}, NEW s \in part.sales \cap rep.tagged
      PROVE  row[s].tag = rep.tenant
  <2>1. row[s].tag # Untagged
    BY <1>3 DEF BegunOK
  <2>2. s \in Sold(rep) \/ s \in Totals(rep.tenant)
    BY <1>1, <1>2, <1>3 DEF Dated
  <2> QED
    BY <2>1, <2>2 DEF Sold, Mine, Totals
<1>4. ASSUME rep.kind = "corte", NEW s \in part.sales
      PROVE  /\ s \in Sales
             /\ row[s].step \in {"open", "ended"}
             /\ InRange(s, rep.range)
             /\ rep.range.to < rep.day => s \in rep.known
  <2>1. s \in Sold(rep)
    BY <1>1, <1>2, <1>4
  <2>2. s \in Sales /\ row[s].step \in {"open", "ended"} /\ InRange(s, rep.range)
    BY <2>1 DEF Sold, Rows
  <2>3. ASSUME rep.range.to < rep.day, s \notin rep.known
        PROVE  FALSE
    <3>1. rep.day \in Nat /\ rep.range.to \in Int
      BY DEF ReportFields
    <3>2. Day(row[s].at) >= rep.day
      BY <2>2, <2>3 DEF BegunOK, Absent
    <3>3. Day(row[s].at) \in Nat
      BY <2>2, DayMonotone DEF RowsOK, RowFields
    <3>4. Day(row[s].at) <= rep.range.to
      BY <2>2, <3>1, <3>3 DEF InRange, RowsOK, ReportFields
    <3> QED
      BY <2>3, <3>1, <3>2, <3>3, <3>4
  <2> QED
    BY <2>2, <2>3
<1>5. ASSUME rep.kind \in {"corte", "period"}, NEW s \in rep.rows,
             row[s].owner = rep.tenant, InRange(s, rep.range)
      PROVE  s \in part.sales \/ MayLack(rep, i, part, s)
  <2>1. s \in Sales /\ row[s].step \in {"open", "ended"}
    BY DEF BegunOK
  <2>2. s \in Sold(rep)
    BY <1>5, <2>1 DEF Sold, Rows, Mine, RowsOK
  <2>3. row[s].status \in {"completed", "cancelled"}
    BY <2>1 DEF RowsOK, RowFields
  <2> QED
    BY <1>1, <1>2, <1>5, <1>6, <2>2, <2>3 DEF ProductSales, BegunOK
<1> QED
  BY <1>3, <1>4, <1>5 DEF PartOK

(* What is said of a report that has not changed stays true while rows,    *)
(* and the time, do not change either.                                     *)
LEMMA ReportStays ==
  ASSUME UNCHANGED <<clock, row>>, NEW rep
  PROVE  /\ BegunOK(rep) => BegunOK(rep)'
         /\ ReportOK(rep) => ReportOK(rep)'
         /\ \A i, part : PartOK(rep, i, part) => PartOK(rep, i, part)'
PROOF
<1>1. BegunOK(rep) => BegunOK(rep)'
  BY DEF BegunOK, Day
<1>2. ASSUME NEW i, NEW part PROVE PartOK(rep, i, part) => PartOK(rep, i, part)'
  BY DEF PartOK, Day, InRange, MayLack
<1> QED
  BY <1>1, <1>2 DEF ReportOK

(* A report goes on by one part.                                           *)
LEMMA PartAppended ==
  ASSUME NEW rep \in ReportFields, NEW next, NEW part \in PartFields,
         next = [rep EXCEPT !.seen = Append(rep.seen, part)],
         ReportOK(rep), part.ok => PartOK(rep, Len(rep.seen) + 1, part)
  PROVE  next \in ReportFields /\ ReportOK(next)
PROOF
<1>1. PICK seen : seen = Append(rep.seen, part)
  OBVIOUS
<1>2. rep.seen \in Seq(PartFields) /\ Len(rep.seen) \in Nat
  BY DEF ReportFields
<1>3. seen \in Seq(PartFields)
  BY <1>1, <1>2
<1>4. /\ Len(seen) = Len(rep.seen) + 1
      /\ \A i \in 1 .. Len(rep.seen) : seen[i] = rep.seen[i]
      /\ seen[Len(rep.seen) + 1] = part
  BY <1>1, <1>2
<1>5. next = [rep EXCEPT !.seen = seen]
  BY <1>1
<1>6. /\ next \in ReportFields
      /\ next.seen = seen /\ next.kind = rep.kind /\ next.tenant = rep.tenant
      /\ next.range = rep.range /\ next.day = rep.day /\ next.known = rep.known
      /\ next.rows = rep.rows /\ next.itemized = rep.itemized /\ next.tagged = rep.tagged
  BY <1>3, <1>5 DEF ReportFields
<1>7. /\ BegunOK(rep)
      /\ \A i \in 1 .. Len(rep.seen) : rep.seen[i].ok => PartOK(rep, i, rep.seen[i])
  BY DEF ReportOK, ReportFields, Kinds, Idle, Failed
<1>8. BegunOK(next)
  BY <1>6, <1>7 DEF BegunOK
<1>9. ASSUME NEW i, NEW given, PartOK(rep, i, given)
      PROVE  PartOK(next, i, given)
  BY <1>6, <1>9 DEF PartOK, MayLack
<1>10. ASSUME NEW i \in 1 .. Len(next.seen), next.seen[i].ok
       PROVE  PartOK(next, i, next.seen[i])
  <2>1. CASE i \in 1 .. Len(rep.seen)
    BY <1>4, <1>6, <1>7, <1>9, <1>10, <2>1
  <2>2. CASE i = Len(rep.seen) + 1
    <3>1. next.seen[i] = part
      BY <1>4, <1>6, <2>2
    <3> QED
      BY <1>9, <1>10, <2>2, <3>1
  <2> QED
    BY <1>2, <1>4, <1>6, <2>1, <2>2
<1> QED
  BY <1>6, <1>8, <1>10 DEF ReportOK

(* A step that changes one report, to one that is right, keeps the         *)
(* invariant.                                                              *)
LEMMA ReportReplaced ==
  ASSUME ReportsInv, NEW r \in Reports, UNCHANGED <<clock, row>>,
         NEW next \in ReportFields \cup {Idle, Failed}, ReportOK(next),
         report' = [report EXCEPT ![r] = next]
  PROVE  ReportsInv'
PROOF
<1>1. ReportOK(next)'
  BY ReportStays
<1>2. \A q \in Reports : ReportOK(report[q])'
  <2> SUFFICES ASSUME NEW q \in Reports PROVE ReportOK(report[q])'
    OBVIOUS
  <2>1. PICK old : old = report'[q]
    OBVIOUS
  <2>2. CASE q = r
    <3>1. old = next
      BY <2>1, <2>2 DEF ReportsInv
    <3> QED
      BY <1>1, <2>1, <3>1
  <2>3. CASE q # r
    <3>1. old = report[q]
      BY <2>1, <2>3 DEF ReportsInv
    <3>2. ReportOK(old)
      BY <3>1 DEF ReportsInv
    <3>3. ReportOK(old)'
      BY <3>2, ReportStays
    <3> QED
      BY <2>1, <3>3
  <2> QED
    BY <2>2, <2>3
<1>3. report' \in [Reports -> ReportFields \cup {Idle, Failed}]
  BY DEF ReportsInv
<1>4. RowsOK'
  BY DEF ReportsInv, RowsOK
<1> QED
  BY <1>2, <1>3, <1>4 DEF ReportsInv

(* A part is appended: one that was read, or the empty one of a statement  *)
(* that failed.                                                            *)
LEMMA ReadsKeepsOK ==
  ASSUME ReportsInv, NEW r \in Reports, Running(r), UNCHANGED <<clock, row>>,
         NEW part \in Select(NextStatement(r), report[r]) \cup {Nothing}, Reads(r, part)
  PROVE  ReportsInv'
PROOF
<1>1. PICK rep : rep = report[r]
  OBVIOUS
<1>2. rep \in ReportFields /\ ReportOK(rep) /\ BegunOK(rep)
  BY <1>1 DEF ReportsInv, ReportOK, Running, Idle, Failed, Kinds
<1>3. ~Nothing.ok /\ Nothing \in PartFields
  BY DEF Nothing, PartFields
<1>4. part.ok => PartOK(rep, Len(rep.seen) + 1, part)
  <2>1. rep.seen \in Seq(PartFields)
    BY <1>2 DEF ReportFields
  <2>2. Len(rep.seen) + 1 \in 1 .. Len(Statements(rep.kind))
    BY <1>1, <2>1 DEF Running
  <2> QED
    BY <1>1, <1>2, <1>3, <2>2, ReadPartOK DEF ReportsInv, NextStatement
<1>5. part \in PartFields
  BY <1>3, SelectionsAreRows DEF ReportsInv
<1>6. PICK next : next = [rep EXCEPT !.seen = Append(rep.seen, part)]
  OBVIOUS
<1>7. report' = [report EXCEPT ![r] = next]
  BY <1>1, <1>6, Zenon DEF Reads
<1>8. next \in ReportFields /\ ReportOK(next)
  BY <1>2, <1>4, <1>5, <1>6, PartAppended
<1> QED
  BY <1>7, <1>8, ReportReplaced

(* A named period holds the Monterrey day of the request.                  *)
LEMMA NamedRangeHoldsToday ==
  ASSUME clock \in Nat
  PROVE  /\ Day(clock) \in Nat /\ ServerDay \in Nat
         /\ Day(clock) \in (ServerDay - Back) .. ServerDay
PROOF
<1>1. Day(clock) \in Nat /\ ServerDay \in Nat
  BY CalendarAssumption DEF Day, ServerDay
<1>2. Day(clock) <= ServerDay
  BY CalendarAssumption DEF Day, ServerDay
<1>3. ServerDay <= Day(clock) + 1
  BY CalendarAssumption DEF Day, ServerDay
<1> QED
  BY <1>1, <1>2, <1>3, CalendarAssumption

(* The ranges of a request are pairs of days, and a named one holds the    *)
(* Monterrey day of the request.                                           *)
LEMMA RangesType ==
  ASSUME clock \in Nat, NEW kind, NEW range \in Ranges(kind)
  PROVE  /\ range \in [from: Int, to: Int, named: BOOLEAN]
         /\ kind \in {"corte", "period"} /\ range.named =>
              Day(clock) \in range.from .. range.to
PROOF
<1>1. ServerDay \in Nat /\ Back \in Nat
  BY NamedRangeHoldsToday, CalendarAssumption
<1>2. CASE kind = "corte"
  <2>1. PICK d \in 0 .. ServerDay : range = [from |-> d, to |-> d, named |-> FALSE]
    BY <1>2 DEF Ranges
  <2> QED
    BY <1>1, <2>1
<1>3. CASE kind \in {"period", "cfdi"}
  <2>1. range \in {[from |-> ServerDay - Back, to |-> ServerDay, named |-> TRUE]} \cup
                  UNION {{[from |-> d, to |-> e, named |-> FALSE] : e \in d .. ServerDay} :
                           d \in 0 .. ServerDay}
    BY <1>3 DEF Ranges
  <2>2. CASE range = [from |-> ServerDay - Back, to |-> ServerDay, named |-> TRUE]
    BY <1>1, <2>2, NamedRangeHoldsToday
  <2>3. CASE range # [from |-> ServerDay - Back, to |-> ServerDay, named |-> TRUE]
    <3>1. PICK d \in 0 .. ServerDay :
            range \in {[from |-> d, to |-> e, named |-> FALSE] : e \in d .. ServerDay}
      BY <2>1, <2>3
    <3>2. PICK e \in d .. ServerDay : range = [from |-> d, to |-> e, named |-> FALSE]
      BY <3>1
    <3> QED
      BY <1>1, <3>1, <3>2
  <2> QED
    BY <2>2, <2>3
<1>4. CASE kind \notin {"corte", "period", "cfdi"}
  <2>1. range = [from |-> 0, to |-> ServerDay, named |-> FALSE]
    BY <1>4 DEF Ranges
  <2> QED
    BY <1>1, <2>1
<1> QED
  BY <1>2, <1>3, <1>4

(* A report begins: what it remembers is true of the rows there are.       *)
LEMMA BeginOK ==
  ASSUME ReportsInv, NEW r \in Reports, Begin(r)
  PROVE  ReportsInv'
PROOF
<1>1. PICK kind \in Kinds, t \in Tenants : \E range \in Ranges(kind) :
        report' = [report EXCEPT ![r] =
          [kind |-> kind, tenant |-> t, range |-> range, seen |-> <<>>, day |-> Day(clock),
           known |-> {s \in Sales : row[s].step \notin {"none", "refused"}},
           rows |-> Rows, itemized |-> {s \in Sales : row[s].items # {}},
           tagged |-> {s \in Sales : row[s].tag # Untagged}]]
  BY DEF Begin
<1>2. PICK range \in Ranges(kind) :
        report' = [report EXCEPT ![r] =
          [kind |-> kind, tenant |-> t, range |-> range, seen |-> <<>>, day |-> Day(clock),
           known |-> {s \in Sales : row[s].step \notin {"none", "refused"}},
           rows |-> Rows, itemized |-> {s \in Sales : row[s].items # {}},
           tagged |-> {s \in Sales : row[s].tag # Untagged}]]
  BY <1>1
<1>3. PICK known, rows, itemized, owned, day :
        /\ known = {s \in Sales : row[s].step \notin {"none", "refused"}}
        /\ rows = Rows
        /\ itemized = {s \in Sales : row[s].items # {}}
        /\ owned = {s \in Sales : row[s].tag # Untagged}
        /\ day = Day(clock)
  OBVIOUS
<1>4. PICK next :
        next = [kind |-> kind, tenant |-> t, range |-> range, seen |-> <<>>, day |-> day,
                known |-> known, rows |-> rows, itemized |-> itemized, tagged |-> owned]
  OBVIOUS
<1>5. report' = [report EXCEPT ![r] = next]
  BY <1>2, <1>3, <1>4
<1>6. clock \in Nat /\ day \in Nat
  BY <1>3, DayMonotone DEF ReportsInv, RowsOK
<1>7. /\ known \subseteq Sales /\ rows \subseteq Sales /\ owned \subseteq Sales
      /\ itemized \subseteq Sales
  BY <1>3 DEF Rows
<1>8. range \in [from: Int, to: Int, named: BOOLEAN]
  BY <1>6, RangesType
<1>9. <<>> \in Seq(PartFields) /\ Len(<<>>) = 0
  BY EmptySeq
<1>10. next \in ReportFields
  BY <1>4, <1>6, <1>7, <1>8, <1>9 DEF ReportFields
<1>11. BegunOK(next)
  <2>1. next.kind \in {"corte", "period"} /\ next.range.named =>
          next.day \in next.range.from .. next.range.to
    BY <1>3, <1>4, <1>6, RangesType
  <2> QED
    BY <1>3, <1>4, <1>6, <1>7, <2>1 DEF BegunOK, Absent, Rows
<1>12. ReportOK(next)
  BY <1>4, <1>9, <1>10, <1>11 DEF ReportOK
<1>13. UNCHANGED <<clock, row>>
  BY DEF Begin
<1> QED
  BY <1>5, <1>10, <1>12, <1>13, ReportReplaced

(* A statement of a report is answered, or fails.                          *)
LEMMA ReadOK ==
  ASSUME ReportsInv, NEW r \in Reports, Read(r) \/ ReadFails(r) \/ AskAssistant(r)
  PROVE  ReportsInv'
PROOF
<1>0. Running(r) /\ UNCHANGED <<clock, row>>
  BY DEF Read, ReadFails, AskAssistant
<1>1. CASE Read(r)
  <2>1. PICK part \in Select(NextStatement(r), report[r]) : Reads(r, part)
    BY <1>1 DEF Read
  <2> QED
    BY <1>0, <2>1, ReadsKeepsOK
<1>2. CASE Reads(r, Nothing)
  BY <1>0, <1>2, ReadsKeepsOK
<1>3. CASE report' = [report EXCEPT ![r] = Failed]
  BY <1>0, <1>3, ReportReplaced DEF ReportOK
<1> QED
  BY <1>1, <1>2, <1>3 DEF ReadFails, AskAssistant

(* Rows and time go forward under the reports.                             *)
LEMMA RowsMoveOK ==
  ASSUME ReportsInv, RowsOK', \A s \in Sales : RowGoesOn(s), clock' >= clock,
         report' = report
  PROVE  ReportsInv'
PROOF
<1>1. ASSUME NEW r \in Reports PROVE ReportOK(report[r])'
  <2>1. PICK rep : rep = report[r]
    OBVIOUS
  <2>2. ReportOK(rep)'
    BY <2>1, ReportOutlivesRows DEF ReportsInv
  <2> QED
    BY <2>1, <2>2
<1> QED
  BY <1>1 DEF ReportsInv

(* There are no rows and no reports.                                       *)
LEMMA InitReportsInv == InitReports => ReportsInv
PROOF BY CalendarAssumption
DEF InitReports, ReportsInv, RowsOK, RowFields, NoSale, RowOf, ReportOK

(* Every step of the tills, of the clock and of the reports keeps the      *)
(* invariant.                                                              *)
LEMMA NextReportsInv == ReportsInv /\ [NextReports]_reportVars => ReportsInv'
PROOF
<1> SUFFICES ASSUME ReportsInv, [NextReports]_reportVars PROVE ReportsInv'
  OBVIOUS
<1>1. CASE Tick
  <2>1. RowsOK' /\ clock' >= clock
    BY <1>1 DEF Tick, ReportsInv, RowsOK
  <2>2. \A s \in Sales : RowGoesOn(s)
    BY <1>1 DEF Tick, RowGoesOn
  <2> QED
    BY <1>1, <2>1, <2>2, RowsMoveOK DEF Tick
<1>2. ASSUME NEW s \in Sales, RowStep(s) PROVE ReportsInv'
  <2>1. RowsOK' /\ \A u \in Sales : RowGoesOn(u)
    BY <1>2, RowStepGoesOn DEF ReportsInv
  <2>2. clock' = clock /\ report' = report
    BY <1>2 DEF RowStep, InsertBegins, Insert, InsertFails, Tag, EndUntagged, CancelRow, AddItem
  <2>3. clock' >= clock
    BY <2>2 DEF ReportsInv, RowsOK
  <2> QED
    BY <2>1, <2>2, <2>3, RowsMoveOK
<1>3. ASSUME NEW r \in Reports, Begin(r) PROVE ReportsInv'
  BY <1>3, BeginOK
<1>4. ASSUME NEW r \in Reports, Read(r) \/ ReadFails(r) \/ AskAssistant(r)
      PROVE  ReportsInv'
  BY <1>4, ReadOK
<1>5. CASE UNCHANGED reportVars
  <2>1. clock' = clock /\ row' = row /\ report' = report
    BY <1>5 DEF reportVars
  <2>2. RowsOK' /\ clock' >= clock /\ \A s \in Sales : RowGoesOn(s)
    BY <2>1 DEF RowGoesOn, ReportsInv, RowsOK
  <2> QED
    BY <2>1, <2>2, RowsMoveOK
<1> QED
  BY <1>1, <1>2, <1>3, <1>4, <1>5 DEF NextReports, RowStep

(* What a report remembers of its beginning, and every part it has listed, *)
(* stay right while POST /cobrar, the cancellations and the items that     *)
(* are still inserted change the rows under it.                            *)
THEOREM ReportsInductive == SpecReports => []ReportsInv
PROOF BY InitReportsInv, NextReportsInv, PTL DEF SpecReports

(* The parts of a report that began are right.                             *)
LEMMA PartsAreOK ==
  ASSUME ReportsInv, NEW r \in Reports, report[r].kind \in Kinds
  PROVE  /\ BegunOK(report[r]) /\ report[r] \in ReportFields
         /\ \A i \in Parts(r) : PartOK(report[r], i, report[r].seen[i])
PROOF
<1>1. /\ report[r] \in ReportFields /\ BegunOK(report[r])
      /\ \A i \in 1 .. Len(report[r].seen) :
           report[r].seen[i].ok => PartOK(report[r], i, report[r].seen[i])
  BY DEF ReportsInv, ReportOK, Kinds, Idle, Failed
<1>2. DOMAIN report[r].seen = 1 .. Len(report[r].seen)
  BY <1>1 DEF ReportFields
<1> QED
  BY <1>1, <1>2 DEF Parts

(* No report lists a sale that had another tenant when it began: every     *)
(* statement of the handlers asks for tenant_id = $2 OR tenant_id IS NULL, *)
(* or for the tag alone.                                                   *)
THEOREM ForeignSalesStayOut == SpecReports => []NoForeignSales
PROOF
<1>1. ReportsInv => NoForeignSales
  <2> SUFFICES ASSUME ReportsInv, NEW r \in Reports,
                      report[r].kind \in Dated \cup {"admin", "tenant"},
                      NEW i \in Parts(r), NEW s \in report[r].seen[i].sales,
                      s \in report[r].tagged
               PROVE  row[s].tag = report[r].tenant
    BY DEF NoForeignSales
  <2>1. PartOK(report[r], i, report[r].seen[i])
    BY PartsAreOK DEF Dated, Kinds
  <2> QED
    BY <2>1 DEF PartOK
<1> QED
  BY <1>1, ReportsInductive, PTL

(* A part of the close or of a period lists the sales of its tenant that   *)
(* were there when the report began.                                       *)
LEMMA OwnSaleListed ==
  ASSUME ReportsInv, NEW r \in Reports, report[r].kind \in {"corte", "period"},
         NEW i \in Parts(r), NEW s \in report[r].rows,
         row[s].owner = report[r].tenant,
         InRange(s, report[r].range)
  PROVE  s \in report[r].seen[i].sales \/ LeftOut(r, i, s)
PROOF
<1>1. PartOK(report[r], i, report[r].seen[i])
  BY PartsAreOK DEF Kinds
<1> QED
  BY <1>1 DEF PartOK, MayLack, LeftOut

(* The daily close and the reports of a period list every sale of their    *)
(* tenant that was there, tagged or not, and the sale just made although   *)
(* the period ends on the day of the server and the sales are dated in     *)
(* Monterrey.                                                              *)
THEOREM OwnSalesCounted == SpecReports => []OwnSalesAreCounted
PROOF
<1>1. ReportsInv => OwnSalesAreCounted
  <2> SUFFICES ASSUME ReportsInv, NEW r \in Reports,
                      report[r].kind \in {"corte", "period"},
                      NEW i \in Parts(r), NEW s \in report[r].rows,
                      row[s].owner = report[r].tenant,
                      \/ InRange(s, report[r].range)
                      \/ report[r].range.named /\ Day(row[s].at) = report[r].day
               PROVE  s \in report[r].seen[i].sales \/ LeftOut(r, i, s)
    BY DEF OwnSalesAreCounted
  <2>1. BegunOK(report[r])
    BY PartsAreOK DEF Kinds
  <2>2. InRange(s, report[r].range)
    BY <2>1 DEF BegunOK, InRange
  <2> QED
    BY <2>2, OwnSaleListed
<1> QED
  BY <1>1, ReportsInductive, PTL

(* The three statements of GET /corte for a day that is over agree on all  *)
(* sales but those that were being inserted, or are cancelled: created_at  *)
(* is the time of the INSERT, so no new row has a past day.                *)
THEOREM PastClosesAreFinal == SpecReports => []PastCloseIsFinal
PROOF
<1>1. ReportsInv => PastCloseIsFinal
  <2> SUFFICES ASSUME ReportsInv, NEW r \in Reports, report[r].kind = "corte",
                      report[r].range.to < report[r].day,
                      NEW i \in Parts(r), NEW j \in Parts(r)
               PROVE  /\ report[r].seen[i].sales \subseteq report[r].known
                      /\ \A s \in report[r].seen[i].sales \ report[r].seen[j].sales :
                           \/ row[s].owner # report[r].tenant
                           \/ s \notin report[r].rows
                           \/ LeftOut(r, j, s)
    BY DEF PastCloseIsFinal
  <2>1. PartOK(report[r], i, report[r].seen[i])
    BY PartsAreOK DEF Kinds
  <2>2. \A s \in report[r].seen[i].sales : s \in report[r].known /\ InRange(s, report[r].range)
    BY <2>1 DEF PartOK
  <2> QED
    BY <2>2, OwnSaleListed
<1> QED
  BY <1>1, ReportsInductive, PTL
=====================================================================================
