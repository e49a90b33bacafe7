-------------------------------- MODULE ShopProofs --------------------------------
(***************************************************************************)
(* What a shop keeps, its products (module Catalog) and its customers       *)
(* (module Customers), for any number of them, of pages, tills and tenants. *)
(*                                                                         *)
(* The catalogue keeps its rows: whatever a call does to the table, a row   *)
(* that is there stays with its tenant and its stock (RowsStay), and a row  *)
(* that appears has a product number that was never sold. So a list,        *)
(* however old, refers to rows that are still there and still its tenant's. *)
(*                                                                         *)
(* The contact data of a customer is kept: every write either leaves a      *)
(* customer's row alone, or replaces it by one that agrees with the old one *)
(* wherever it is empty (KeepsContact).                                    *)
(*                                                                         *)
(* A screen's balance is explained by its rows: a balance is at all times   *)
(* the sum of its history, a history only grows, and the times of its rows  *)
(* differ, so that exactly the newest ones fill a screen (TopHasAll).       *)
(***************************************************************************)
EXTENDS Catalog, Customers, SumLemmas

-----------------------------------------------------------------------------------
(* The catalogue.                                                          *)

(* A call about one product names it.                                       *)
NamesProduct == \A p \in Pages : work[p].call \in {"PUT", "DELETE"} => work[p].id \in Ids

(* The inductive invariant of Spec.                                        *)
IInv == TypeOK /\ ListsAreOwn /\ StockSurvivesEdits /\ NamesProduct

(* What is left to show of a step when what it does to the calls is known. *)
WorkOK == work \in [Pages -> Work] /\ NamesProduct

(* What a step that is not a sale leaves alone in the table.                *)
RowsStay ==
  \A id \in Ids :
    IF row[id] = NoRow
    THEN row'[id] = NoRow \/ row'[id].stock = 0
    ELSE /\ row'[id] # NoRow
         /\ row'[id].tenant = row[id].tenant
         /\ row'[id].stock = row[id].stock

(* No two rows of the table share a SKU.                                   *)
SkusDiffer ==
  \A i, j \in Ids :
    row[i] # NoRow /\ row[j] # NoRow /\ row[i].sku = row[j].sku => i = j \/ row[i].sku = NoSku

(* What is left to show of a step when what it does to the table is known.  *)
TableOK == row \in [Ids -> Row \cup {NoRow}] /\ SkusDiffer

(* A new row takes no SKU from another.                                     *)
LEMMA InsertKeeps ==
  ASSUME TypeOK, NEW id \in Ids, NEW tenant \in Tenants \cup {NoTenant},
         NEW sku \in Skus \cup {NoSku}, ~ Taken(sku, NoId), Insert(id, tenant, sku)
  PROVE  TableOK' /\ RowsStay
<1> DEFINE new == [tenant |-> tenant, sku |-> sku, active |-> TRUE, stock |-> 0]
<1>1. row' = [row EXCEPT ![id] = new] /\ row[id] = NoRow
  BY DEF Insert
<1>2. TRUE \in BOOLEAN
  OBVIOUS
<1>3. new \in Row
  BY <1>2 DEF Row
<1>4. row' \in [Ids -> Row \cup {NoRow}]
  BY <1>1, <1>3 DEF TypeOK
<1>5. \A i \in Ids : row'[i] = IF i = id THEN new ELSE row[i]
  BY <1>1 DEF TypeOK
<1>6. \A i \in Ids : row[i] # NoRow /\ row[i].sku = sku => sku = NoSku
  BY NoneAssumption DEF Taken
<1>7. new.sku = sku /\ new.stock = 0
  OBVIOUS
<1> HIDE DEF new
<1>8. SkusDiffer'
  <2> SUFFICES ASSUME NEW i \in Ids, NEW j \in Ids,
                      row'[i] # NoRow, row'[j] # NoRow, row'[i].sku = row'[j].sku
               PROVE  i = j \/ row'[i].sku = NoSku
    BY DEF SkusDiffer
  <2>1. CASE i = id
    BY <2>1, <1>5, <1>6, <1>7
  <2>2. CASE j = id
    BY <2>2, <1>5, <1>6, <1>7
  <2>3. CASE i # id /\ j # id
    BY <2>3, <1>5 DEF TypeOK
  <2> QED
    BY <2>1, <2>2, <2>3
<1>9. RowsStay
  BY <1>1, <1>5, <1>7 DEF RowsStay
<1> QED
  BY <1>4, <1>8, <1>9 DEF TableOK

(* A row that is rewritten with its tenant and its stock, and with a SKU     *)
(* that no other row has.                                                  *)
LEMMA RewriteKeeps ==
  ASSUME TypeOK, NEW id \in Ids, row[id] # NoRow, NEW sku \in Skus \cup {NoSku},
         NEW active \in BOOLEAN,
         \A i \in Ids \ {id} : row[i] # NoRow /\ row[i].sku = sku => sku = NoSku,
         row' = [row EXCEPT ![id] = [tenant |-> row[id].tenant, sku |-> sku,
                                     active |-> active, stock |-> row[id].stock]]
  PROVE  TableOK' /\ RowsStay
<1> DEFINE new == [tenant |-> row[id].tenant, sku |-> sku,
                   active |-> active, stock |-> row[id].stock]
<1>1. row[id] \in Row
  BY DEF TypeOK
<1>2. new \in Row
  BY <1>1 DEF Row
<1>3. row' \in [Ids -> Row \cup {NoRow}]
  BY <1>2 DEF TypeOK
<1>4. \A i \in Ids : row'[i] = IF i = id THEN new ELSE row[i]
  BY DEF TypeOK
<1>5. new.sku = sku /\ new.tenant = row[id].tenant /\ new.stock = row[id].stock /\ new # NoRow
  BY <1>2, NoRowAssumption
<1> HIDE DEF new
<1>6. SkusDiffer'
  <2> SUFFICES ASSUME NEW i \in Ids, NEW j \in Ids,
                      row'[i] # NoRow, row'[j] # NoRow, row'[i].sku = row'[j].sku
               PROVE  i = j \/ row'[i].sku = NoSku
    BY DEF SkusDiffer
  <2>1. CASE i = id
    BY <2>1, <1>4, <1>5
  <2>2. CASE j = id
    BY <2>2, <1>4, <1>5
  <2>3. CASE i # id /\ j # id
    BY <2>3, <1>4 DEF TypeOK
  <2> QED
    BY <2>1, <2>2, <2>3
<1>7. RowsStay
  BY <1>4, <1>5 DEF RowsStay
<1> QED
  BY <1>3, <1>6, <1>7 DEF TableOK

(* A step that leaves the table alone.                                      *)
LEMMA NoWriteKeeps ==
  ASSUME TypeOK, UNCHANGED row
  PROVE  TableOK' /\ RowsStay
<1>1. SkusDiffer'
  BY DEF TypeOK, SkusDiffer
<1> QED
  BY <1>1 DEF TypeOK, TableOK, RowsStay

(* A PUT that finds its row, and leaves its tenant and stock alone.        *)
LEMMA UpdateKeeps ==
  ASSUME TypeOK, NEW id \in Ids, NEW sku \in Skus \cup {NoSku}, Update(id, sku)
  PROVE  TableOK' /\ RowsStay
<1> DEFINE new == IF sku = NoSku THEN row[id].sku ELSE sku
<1>1. row[id] \in Row /\ row[id] # NoRow
  BY DEF TypeOK, Update
<1>2. new \in Skus \cup {NoSku}
  BY <1>1 DEF Row
<1>3. \A i \in Ids \ {id} : row[i] # NoRow /\ row[i].sku = new => new = NoSku
  <2>1. CASE sku = NoSku
    BY <2>1, <1>1 DEF TypeOK
  <2>2. CASE sku # NoSku
    BY <2>2 DEF Update, Taken
  <2> QED
    BY <2>1, <2>2
<1>4. row' = [row EXCEPT ![id] = [tenant |-> row[id].tenant, sku |-> new,
                                  active |-> TRUE, stock |-> row[id].stock]]
  BY DEF Update
<1>5. TRUE \in BOOLEAN
  OBVIOUS
<1> HIDE DEF new
<1> QED
  BY <1>1, <1>2, <1>3, <1>4, <1>5, RewriteKeeps

(* What a call says of its product when it is answered, and when it is over. *)
LEMMA AnswerKeeps ==
  ASSUME TypeOK, NamesProduct, NEW p \in Pages, NEW id \in Ids \cup {NoId}, Answer(p, id),
         work[p].call \in {"PUT", "DELETE"} => id \in Ids
  PROVE  WorkOK'
<1>1. work[p] \in Work /\ Nothing \in Listing
  BY DEF TypeOK, Nothing, Listing
<1>2. work' \in [Pages -> Work]
  BY <1>1 DEF Answer, TypeOK, Work
<1>3. \A q \in Pages \ {p} : work'[q] = work[q]
  BY DEF Answer, TypeOK
<1>4. work'[p].call = work[p].call /\ work'[p].id = id
  BY DEF Answer, TypeOK
<1> QED
  BY <1>2, <1>3, <1>4 DEF WorkOK, NamesProduct

(* A call is over.                                                         *)
LEMMA IdleKeeps ==
  ASSUME TypeOK, NamesProduct, NEW p \in Pages, work' = [work EXCEPT ![p] = NoWork]
  PROVE  WorkOK'
<1>1. NoWork \in Work
  BY DEF NoWork, Work, Nothing, Listing
<1>2. work' \in [Pages -> Work]
  BY <1>1 DEF TypeOK
<1>3. \A q \in Pages : work'[q] = IF q = p THEN NoWork ELSE work[q]
  BY DEF TypeOK
<1> QED
  BY <1>2, <1>3 DEF WorkOK, NamesProduct, NoWork

(* The answer of a call comes back or is lost.                             *)
LEMMA AnswerOrLoseKeeps ==
  ASSUME TypeOK, NamesProduct, NEW p \in Pages, NEW id \in Ids \cup {NoId}, AnswerOrLose(p, id),
         work[p].call \in {"PUT", "DELETE"} => id \in Ids
  PROVE  WorkOK'
BY AnswerKeeps, IdleKeeps DEF AnswerOrLose

(* A step that touches no call.                                            *)
LEMMA SameWork ==
  ASSUME TypeOK, NamesProduct, UNCHANGED work
  PROVE  WorkOK'
BY DEF TypeOK, WorkOK, NamesProduct

(* The INSERT ... ON CONFLICT of POST, of the first catalogue and of the   *)
(* migration: it never takes over a row of another tenant.                 *)
LEMMA UpsertKeeps ==
  ASSUME TypeOK, NamesProduct, NEW p \in Pages, NEW call \in {"POST", "seed", "migrate"},
         NEW tenant \in Tenants \cup {NoTenant}, Upsert(p, call, tenant)
  PROVE  TableOK' /\ RowsStay /\ WorkOK'
<1>1. work[p] \in Work
  BY DEF TypeOK
<1>2. work[p].sku \in Skus \cup {NoSku} /\ work[p].call \in {"none", "POST", "seed", "PUT", "DELETE", "rename", "migrate"}
  BY <1>1 DEF Work
<1>3. PICK id \in Ids :
        /\ \/ ~ Taken(work[p].sku, NoId) /\ Insert(id, tenant, work[p].sku)
           \/ UNCHANGED row
        /\ AnswerOrLose(p, id)
  BY DEF Upsert
<1>4. TableOK' /\ RowsStay
  BY <1>2, <1>3, InsertKeeps, NoWriteKeeps
<1>5. WorkOK'
  BY <1>3, AnswerOrLoseKeeps DEF Upsert
<1> QED
  BY <1>4, <1>5

-----------------------------------------------------------------------------------
(* What a step may do to the lists: keep what they have, add what is        *)
(* visible, and open a form for what is listed.                             *)
ListsStay ==
  /\ list' \in [Pages -> Listing]
  /\ shelf' \in [Pages -> SUBSET Ids]
  /\ editing' \in [Pages -> Ids \cup {NoId}]
  /\ \A p \in Pages, id \in Ids :
       /\ list'[p][id] # Unlisted => list[p][id] # Unlisted \/ Visible(p, id)
       /\ id \in shelf'[p] => id \in shelf[p] \/ Visible(p, id)
       /\ editing'[p] = id => editing[p] = id \/ list[p][id] # Unlisted

(* A step that touches no list and no form.                                *)
LEMMA SameLists ==
  ASSUME TypeOK, UNCHANGED <<list, shelf>>, UNCHANGED editing
  PROVE  ListsStay
BY DEF TypeOK, ListsStay

(* The form is closed, or stays.                                           *)
LEMMA FormCloses ==
  ASSUME TypeOK, NEW p \in Pages, UNCHANGED <<list, shelf>>, CloseProductModal(p)
  PROVE  ListsStay
<1>1. editing' \in {editing, [editing EXCEPT ![p] = NoId]}
  BY DEF CloseProductModal
<1>2. \A q \in Pages : editing'[q] = editing[q] \/ editing'[q] = NoId
  BY <1>1 DEF TypeOK
<1>3. editing' \in [Pages -> Ids \cup {NoId}]
  BY <1>1 DEF TypeOK
<1> QED
  BY <1>2, <1>3, NoneAssumption DEF TypeOK, ListsStay

(* The lists are read from rows that are visible.                           *)
LEMMA ReloadKeeps ==
  ASSUME TypeOK, NEW p \in Pages, LoadCatalog(p), LoadProductsFromDB(p), UNCHANGED editing
  PROVE  ListsStay
<1>1. Served(p) \in Listing
  BY DEF Served, Listing, Visible, TypeOK, Row
<1>2. \A id \in Ids : Served(p)[id] # Unlisted => Visible(p, id)
  BY DEF Served
<1>3. list' \in [Pages -> Listing]
  BY <1>1 DEF LoadCatalog, TypeOK
<1>4. \A q \in Pages, id \in Ids :
        list'[q][id] # Unlisted => list[q][id] # Unlisted \/ Visible(q, id)
  BY <1>2 DEF LoadCatalog, TypeOK
<1>5. shelf' \in [Pages -> SUBSET Ids]
  BY DEF LoadProductsFromDB, TypeOK
<1>6. \A q \in Pages, id \in Ids :
        id \in shelf'[q] => id \in shelf[q] \/ Visible(q, id)
  BY DEF LoadProductsFromDB, TypeOK
<1> QED
  BY <1>3, <1>4, <1>5, <1>6 DEF ListsStay, TypeOK

(* The strengthening holds after a step that treats the table and the lists *)
(* as it may.                                                              *)
LEMMA Settle ==
  ASSUME IInv, TableOK', RowsStay, ListsStay, UNCHANGED sold,
         WorkOK', calls' \in 0..MaxCalls
  PROVE  IInv'
<1>1. TypeOK'
  BY DEF IInv, TypeOK, TableOK, SkusDiffer, ListsStay, WorkOK
<1>2. \A p \in Pages, id \in Ids :
        row[id] # NoRow /\ row[id].tenant \in {TenantOf[p], NoTenant}
          => row'[id] # NoRow /\ row'[id].tenant \in {TenantOf[p], NoTenant}
  BY DEF RowsStay
<1>3. ListsAreOwn'
  BY <1>2 DEF IInv, ListsAreOwn, ListsStay, Visible
<1>4. StockSurvivesEdits'
  <2> SUFFICES ASSUME NEW id \in Ids
               PROVE  IF row'[id] = NoRow THEN sold[id] = 0 ELSE row'[id].stock + sold[id] = 0
    BY DEF StockSurvivesEdits
  <2>1. CASE row[id] = NoRow
    BY <2>1 DEF IInv, StockSurvivesEdits, RowsStay
  <2>2. CASE row[id] # NoRow
    BY <2>2 DEF IInv, StockSurvivesEdits, RowsStay
  <2> QED
    BY <2>1, <2>2
<1> QED
  BY <1>1, <1>3, <1>4 DEF IInv, WorkOK

(* A page sends a request and changes nothing else.                        *)
LEMMA SendKeeps ==
  ASSUME TypeOK, NamesProduct, NEW p \in Pages,
         NEW call \in {"POST", "seed", "PUT", "DELETE", "rename", "migrate"},
         NEW puts \in Listing, NEW id \in Ids \cup {NoId}, NEW sku \in Skus \cup {NoSku},
         call \in {"PUT", "DELETE"} => id \in Ids, Send(p, call, puts, id, sku)
  PROVE  /\ WorkOK' /\ calls' \in 0..MaxCalls
         /\ UNCHANGED <<row, sold>> /\ UNCHANGED <<list, shelf>> /\ UNCHANGED editing
<1>1. calls' \in 0..MaxCalls
  BY BoundsAssumption DEF Send, TypeOK
<1>2. [call |-> call, puts |-> puts, id |-> id, sku |-> sku, at |-> "sent"] \in Work
  BY DEF Work
<1>3. work' \in [Pages -> Work]
  BY <1>2 DEF Send, TypeOK
<1>4. \A q \in Pages \ {p} : work'[q] = work[q]
  BY DEF Send, TypeOK
<1>5. work'[p].call = call /\ work'[p].id = id
  BY DEF Send, TypeOK
<1> QED
  BY <1>1, <1>3, <1>4, <1>5 DEF Send, WorkOK, NamesProduct

(* What a page asks for.                                                    *)
LEMMA AskKeeps ==
  ASSUME IInv, NEW p \in Pages, Ask(p)
  PROVE  IInv'
<1> USE DEF IInv
<1>1. TypeOK /\ Nothing \in Listing
  BY DEF Nothing, Listing
<1>2. CASE Show(p)
  <2>1. ListsStay
    BY <1>1, <1>2, ReloadKeeps DEF Show
  <2>2. TableOK' /\ RowsStay
    BY <1>1, <1>2, NoWriteKeeps DEF Show
  <2> QED
    BY <1>1, <1>2, <2>1, <2>2, Settle, SameWork DEF Show, TypeOK
<1>3. ASSUME NEW id \in Ids \cup {NoId}, OpenProductModal(p, id) PROVE IInv'
  <2>1. \A q \in Pages : editing'[q] = IF q = p THEN id ELSE editing[q]
    BY <1>1, <1>3 DEF OpenProductModal, TypeOK
  <2>2. editing' \in [Pages -> Ids \cup {NoId}]
    BY <1>1, <1>3 DEF OpenProductModal, TypeOK
  <2>3. ListsStay
    BY <1>1, <1>3, <2>1, <2>2, NoneAssumption DEF OpenProductModal, ListsStay, TypeOK
  <2>4. TableOK' /\ RowsStay
    BY <1>1, <1>3, NoWriteKeeps DEF OpenProductModal
  <2> QED
    BY <1>1, <1>3, <2>3, <2>4, Settle, SameWork DEF OpenProductModal, TypeOK
<1>4. ASSUME NEW call \in {"POST", "seed", "PUT", "DELETE", "rename", "migrate"},
             NEW puts \in Listing, NEW id \in Ids \cup {NoId}, NEW sku \in Skus \cup {NoSku},
             call \in {"PUT", "DELETE"} => id \in Ids, Send(p, call, puts, id, sku)
      PROVE  IInv'
  <2>1. /\ WorkOK' /\ calls' \in 0..MaxCalls
        /\ UNCHANGED <<row, sold>> /\ UNCHANGED <<list, shelf>> /\ UNCHANGED editing
    BY <1>1, <1>4, SendKeeps
  <2>2. TableOK' /\ RowsStay
    BY <1>1, <2>1, NoWriteKeeps
  <2>3. ListsStay
    BY <1>1, <2>1, SameLists
  <2> QED
    BY <2>1, <2>2, <2>3, Settle
<1>5. ASSUME NEW sku \in Skus \cup {NoSku}, SaveProduct(p, sku) PROVE IInv'
  <2>1. CASE editing[p] = NoId
    BY <1>1, <1>4, <1>5, <2>1 DEF SaveProduct
  <2>2. CASE editing[p] # NoId
    <3>1. editing[p] \in Ids \cup {NoId}
      BY <1>1 DEF TypeOK
    <3> QED
      BY <1>1, <1>4, <1>5, <2>2, <3>1 DEF SaveProduct
  <2> QED
    BY <2>1, <2>2
<1>6. ASSUME NEW sku \in Skus, SeedDemoData(p, sku) \/ Migrate(p, sku) PROVE IInv'
  BY <1>1, <1>4, <1>6 DEF SeedDemoData, Migrate
<1>7. ASSUME NEW id \in Ids, ConfirmDelete(p, id) PROVE IInv'
  BY <1>1, <1>4, <1>7 DEF ConfirmDelete
<1>8. ASSUME NEW prods \in SUBSET Ids, RenameCat(p, prods) PROVE IInv'
  <2> DEFINE puts == [id \in Ids |-> IF id \in prods THEN list[p][id] ELSE Unlisted]
  <2>1. puts \in Listing
    BY <1>1 DEF TypeOK, Listing
  <2>2. Send(p, "rename", puts, NoId, NoSku)
    BY <1>8 DEF RenameCat
  <2> HIDE DEF puts
  <2> QED
    BY <1>4, <2>1, <2>2
<1>9. ASSUME NEW id \in Ids, Sell(p, id) PROVE IInv'
  <2> DEFINE new == [tenant |-> row[id].tenant, sku |-> row[id].sku,
                     active |-> row[id].active, stock |-> row[id].stock - 1]
  <2>1. row[id] \in Row /\ row[id] # NoRow
    BY <1>1, <1>9 DEF Sell, TypeOK, ListsAreOwn
  <2>2. row' = [row EXCEPT ![id] = new] /\ sold' = [sold EXCEPT ![id] = @ + 1]
    BY <1>9, <2>1 DEF Sell
  <2>3. new \in Row
    BY <2>1 DEF Row
  <2>4. /\ new # NoRow /\ new.tenant = row[id].tenant /\ new.sku = row[id].sku
        /\ new.stock = row[id].stock - 1
    BY <2>3, NoRowAssumption
  <2> HIDE DEF new
  <2>5. \A i \in Ids : row'[i] = IF i = id THEN new ELSE row[i]
    BY <1>1, <2>2 DEF TypeOK
  <2>6. sold' \in [Ids -> 0..MaxSold] /\ \A i \in Ids : sold'[i] = IF i = id THEN sold[i] + 1 ELSE sold[i]
    BY <1>1, <1>9, <2>2, BoundsAssumption DEF Sell, TypeOK
  <2>7. row' \in [Ids -> Row \cup {NoRow}]
    BY <1>1, <2>2, <2>3 DEF TypeOK
  <2>8. \A i \in Ids : (row'[i] = NoRow <=> row[i] = NoRow)
    BY <2>1, <2>4, <2>5
  <2>9. \A i \in Ids : row[i] # NoRow => row'[i].tenant = row[i].tenant /\ row'[i].sku = row[i].sku
    BY <2>4, <2>5
  <2>10. TypeOK'
    BY <1>1, <1>9, <2>6, <2>7, <2>8, <2>9 DEF TypeOK, Sell
  <2>11. ListsAreOwn'
    BY <1>9, <2>8, <2>9 DEF ListsAreOwn, Sell
  <2>12. StockSurvivesEdits'
    <3> SUFFICES ASSUME NEW i \in Ids
                 PROVE  IF row'[i] = NoRow THEN sold'[i] = 0 ELSE row'[i].stock + sold'[i] = 0
      BY DEF StockSurvivesEdits
    <3>1. CASE i = id
      <4>1. row[id].stock + sold[id] = 0 /\ sold[id] \in Int /\ row[id].stock \in Int
        BY <1>1, <2>1 DEF StockSurvivesEdits, TypeOK, Row
      <4> QED
        BY <3>1, <4>1, <2>1, <2>4, <2>5, <2>6, <2>8
    <3>2. CASE i # id
      BY <3>2, <2>5, <2>6 DEF StockSurvivesEdits
    <3> QED
      BY <3>1, <3>2
  <2>13. NamesProduct'
    BY <1>9 DEF Sell, NamesProduct
  <2> QED
    BY <2>10, <2>11, <2>12, <2>13
<1> QED
  BY <1>2, <1>3, <1>5, <1>6, <1>7, <1>8, <1>9 DEF Ask

(* What happens to a call.                                                  *)
LEMMA ProceedKeeps ==
  ASSUME IInv, NEW p \in Pages, Proceed(p)
  PROVE  IInv'
<1>1. /\ TypeOK
      /\ work[p] \in Work
      /\ TenantOf[p] \in Tenants
      /\ Nothing \in Listing
      /\ NamesProduct
  BY PagesAssumption DEF IInv, TypeOK, Nothing, Listing
<1>2. ASSUME NEW call \in {"POST", "seed", "migrate"}, NEW tenant \in Tenants \cup {NoTenant}, Upsert(p, call, tenant),
             CloseProductModal(p) \/ UNCHANGED editing
      PROVE  IInv'
  <2>1. TableOK' /\ RowsStay /\ WorkOK'
    BY <1>1, <1>2, UpsertKeeps
  <2>2. UNCHANGED <<list, shelf>> /\ UNCHANGED sold /\ UNCHANGED calls
    BY <1>2 DEF Upsert
  <2>3. ListsStay
    BY <1>1, <1>2, <2>2, SameLists, FormCloses
  <2> QED
    BY <1>1, <2>1, <2>2, <2>3, Settle DEF TypeOK
<1>3. CASE HandlePost(p) \/ HandleSeed(p) \/ HandleMigrate(p)
  BY <1>1, <1>2, <1>3 DEF HandlePost, HandleSeed, HandleMigrate
<1>4. ASSUME UNCHANGED <<row, sold, calls>>, UNCHANGED <<list, shelf>>, UNCHANGED editing,
             WorkOK'
      PROVE  IInv'
  <2>1. TableOK' /\ RowsStay /\ ListsStay
    BY <1>1, <1>4, NoWriteKeeps, SameLists
  <2> QED
    BY <1>1, <1>4, <2>1, Settle DEF TypeOK
<1>5. CASE MigrateRowFails(p)
  <2>1. WorkOK'
    BY <1>1, <1>5, AnswerKeeps DEF MigrateRowFails
  <2> QED
    BY <1>4, <1>5, <2>1 DEF MigrateRowFails
<1>6. CASE HandlerFails(p)
  <2>1. WorkOK'
    BY <1>1, <1>6, IdleKeeps DEF HandlerFails
  <2> QED
    BY <1>4, <1>6, <2>1 DEF HandlerFails
<1>7. CASE RenameDone(p)
  <2>1. WorkOK'
    BY <1>1, <1>7, AnswerKeeps DEF RenameDone
  <2> QED
    BY <1>4, <1>7, <2>1 DEF RenameDone
<1>8. CASE HandlePut(p)
  <2>1. work[p].id \in Ids /\ work[p].sku \in Skus \cup {NoSku}
    BY <1>1, <1>8 DEF Work, NamesProduct, HandlePut
  <2>2. TableOK' /\ RowsStay
    BY <1>1, <1>8, <2>1, UpdateKeeps DEF HandlePut
  <2>3. WorkOK'
    BY <1>1, <1>8, <2>1, AnswerOrLoseKeeps DEF HandlePut
  <2>4. ListsStay
    BY <1>1, <1>8, FormCloses DEF HandlePut
  <2> QED
    BY <1>1, <1>8, <2>2, <2>3, <2>4, Settle DEF HandlePut, TypeOK
<1>9. CASE HandleDelete(p)
  <2>1. work[p].id \in Ids
    BY <1>1, <1>9 DEF Work, NamesProduct, HandleDelete
  <2>2. row[work[p].id] \in Row /\ FALSE \in BOOLEAN
    BY <1>1, <1>9, <2>1 DEF TypeOK, HandleDelete
  <2>3. \A i \in Ids \ {work[p].id} :
          row[i] # NoRow /\ row[i].sku = row[work[p].id].sku => row[work[p].id].sku = NoSku
    BY <1>1, <1>9, <2>1 DEF TypeOK, HandleDelete
  <2>4. row[work[p].id].sku \in Skus \cup {NoSku}
    BY <2>2 DEF Row
  <2>5. TableOK' /\ RowsStay
    <3> DEFINE id == work[p].id
    <3>1. /\ id \in Ids /\ row[id] # NoRow
          /\ row' = [row EXCEPT ![id] = [tenant |-> row[id].tenant, sku |-> row[id].sku,
                                         active |-> FALSE, stock |-> row[id].stock]]
      BY <1>9, <2>1 DEF HandleDelete
    <3> HIDE DEF id
    <3>2. \A i \in Ids \ {id} : row[i] # NoRow /\ row[i].sku = row[id].sku => row[id].sku = NoSku
      BY <2>3 DEF id
    <3>3. row[id].sku \in Skus \cup {NoSku} /\ FALSE \in BOOLEAN
      BY <2>4, <2>2 DEF id
    <3> QED
      BY <1>1, <3>1, <3>2, <3>3, RewriteKeeps
  <2>6. WorkOK'
    BY <1>1, <1>9, <2>1, AnswerOrLoseKeeps DEF HandleDelete
  <2>7. ListsStay
    BY <1>1, <1>9, SameLists DEF HandleDelete
  <2> QED
    BY <1>1, <1>9, <2>5, <2>6, <2>7, Settle DEF HandleDelete, TypeOK
<1>10. ASSUME NEW id \in Ids, RenameNext(p, id) PROVE IInv'
  <2>1. work[p].puts[id] \in Skus \cup {NoSku}
    BY <1>1, <1>10 DEF RenameNext, Work, Listing
  <2>2. TableOK' /\ RowsStay
    BY <1>1, <1>10, <2>1, UpdateKeeps, NoWriteKeeps DEF RenameNext
  <2>3. [work[p].puts EXCEPT ![id] = Unlisted] \in Listing
    BY <1>1 DEF Work, Listing
  <2>4. work' \in [Pages -> Work]
    BY <1>1, <1>10, <2>3 DEF RenameNext, Work, TypeOK
  <2>5. work'[p].call = "rename" /\ \A q \in Pages \ {p} : work'[q] = work[q]
    BY <1>1, <1>10 DEF RenameNext, TypeOK
  <2>6. WorkOK'
    BY <1>1, <2>4, <2>5 DEF WorkOK, NamesProduct
  <2>7. ListsStay
    BY <1>1, <1>10, SameLists DEF RenameNext
  <2> QED
    BY <1>1, <1>10, <2>2, <2>6, <2>7, Settle DEF RenameNext, TypeOK
<1>11. CASE Reloaded(p)
  <2>1. ListsStay
    BY <1>1, <1>11, ReloadKeeps DEF Reloaded
  <2>2. TableOK' /\ RowsStay
    BY <1>1, <1>11, NoWriteKeeps DEF Reloaded
  <2>3. WorkOK'
    BY <1>1, <1>11, IdleKeeps DEF Reloaded
  <2> QED
    BY <1>1, <1>11, <2>1, <2>2, <2>3, Settle DEF Reloaded, TypeOK
<1> QED
  BY <1>3, <1>5, <1>6, <1>7, <1>8, <1>9, <1>10, <1>11 DEF Proceed

(* At first there are products that belong to no tenant, or none.          *)
LEMMA InitIInv == Init => IInv
<1> SUFFICES ASSUME Init PROVE IInv
  OBVIOUS
<1>1. /\ Nothing \in Listing /\ \A id \in Ids : Nothing[id] = Unlisted
      /\ NoWork \in Work /\ NoWork.call = "none"
  BY DEF Nothing, Listing, NoWork, Work
<1>2. [tenant |-> NoTenant, sku |-> NoSku, active |-> TRUE, stock |-> 0] \in Row
  <2>1. TRUE \in BOOLEAN
    OBVIOUS
  <2> QED
    BY <2>1 DEF Row
<1>3. \A id \in Ids :
        \/ row[id] = NoRow
        \/ row[id] = [tenant |-> NoTenant, sku |-> NoSku, active |-> TRUE, stock |-> 0]
  BY DEF Init
<1>4. row \in [Ids -> Row \cup {NoRow}]
  BY <1>2 DEF Init
<1>5. \A i, j \in Ids :
        row[i] # NoRow /\ row[j] # NoRow /\ row[i].sku = row[j].sku => row[i].sku = NoSku
  BY <1>3
<1>6. TypeOK
  <2>1. sold \in [Ids -> 0..MaxSold] /\ calls \in 0..MaxCalls
    BY BoundsAssumption DEF Init
  <2>2. list \in [Pages -> Listing] /\ work \in [Pages -> Work]
    BY <1>1 DEF Init
  <2>3. shelf \in [Pages -> SUBSET Ids] /\ editing \in [Pages -> Ids \cup {NoId}]
    BY DEF Init
  <2> QED
    BY <1>4, <1>5, <2>1, <2>2, <2>3 DEF TypeOK
<1>7. ListsAreOwn
  BY <1>1, NoneAssumption DEF Init, ListsAreOwn
<1>8. StockSurvivesEdits
  <2>1. \A id \in Ids : sold[id] = 0
    BY DEF Init
  <2>2. \A id \in Ids : row[id] # NoRow => row[id].stock = 0
    BY <1>3
  <2>3. \A n, k \in Int : n = 0 /\ k = 0 => n + k = 0
    OBVIOUS
  <2>4. \A id \in Ids : row[id] # NoRow => row[id].stock + sold[id] = 0
    BY <2>1, <2>2, <2>3
  <2> QED
    BY <2>1, <2>4 DEF StockSurvivesEdits
<1>9. NamesProduct
  BY <1>1 DEF Init, NamesProduct
<1> QED
  BY <1>6, <1>7, <1>8, <1>9 DEF IInv

(* A step of something else.                                               *)
LEMMA StutterKeeps == IInv /\ UNCHANGED vars => IInv'
BY DEF IInv, TypeOK, ListsAreOwn, StockSurvivesEdits, NamesProduct, vars

-----------------------------------------------------------------------------------
(* The strengthening holds in every behaviour of the catalogue.             *)
THEOREM InductiveInvariant == Spec => []IInv
<1>1. IInv /\ [Next]_vars => IInv'
  BY AskKeeps, ProceedKeeps, StutterKeeps DEF Next
<1> QED
  BY InitIInv, <1>1, PTL DEF Spec

(* The tables and the pages keep their types, and no two products get one   *)
(* SKU, whatever posts, imports and edits meet.                             *)
THEOREM TypeCorrect == Spec => []TypeOK
<1>1. IInv => TypeOK
  BY DEF IInv
<1> QED
  BY InductiveInvariant, <1>1, PTL

(* What a page lists, sells or edits is there and its tenant's, however old  *)
(* its list is.                                                            *)
THEOREM ListedProductsAreOwn == Spec => []ListsAreOwn
<1>1. IInv => ListsAreOwn
  BY DEF IInv
<1> QED
  BY InductiveInvariant, <1>1, PTL

(* No edit, import or deletion touches the stock that sales deduct from.    *)
THEOREM StockIsKept == Spec => []StockSurvivesEdits
<1>1. IInv => StockSurvivesEdits
  BY DEF IInv
<1> QED
  BY InductiveInvariant, <1>1, PTL

-----------------------------------------------------------------------------------
(* The contact data of the customers.                                       *)

(* The three fields no request clears.                                     *)
Kept == {"name", "email", "cp"}

(* One customer's new data may not be empty where the old was not.         *)
KeepsContact(old, new) == \A f \in Kept : old[f] # Empty => new[f] # Empty

(* What the COALESCE of a write leaves of an old row.                      *)
LEMMA KeepIsSafe ==
  ASSUME NEW given, NEW old,
         given \in [Fields -> Values \cup {Empty}], old \in [Fields -> Values \cup {Empty}]
  PROVE  /\ Keep(given, old) \in [Fields -> Values \cup {Empty}]
         /\ KeepsContact(old, Keep(given, old))
<1> QED
  BY DEF Keep, KeepsContact, Kept, Fields

(* What the upserts of the gateway and of EarnPoints do.                   *)
LEMMA UpsertIsSafe ==
  ASSUME ContactTypeOK, NEW p \in Phones, NEW given \in [Fields -> Values \cup {Empty}],
         UpsertContact(p, given)
  PROVE  ContactTypeOK' /\ \A q \in Phones : KeepsContact(contact[q], contact'[q])
<1> DEFINE new == Keep(given, contact[p])
<1>1. contact[p] \in [Fields -> Values \cup {Empty}]
  BY DEF ContactTypeOK
<1>2. new \in [Fields -> Values \cup {Empty}] /\ KeepsContact(contact[p], new)
  BY <1>1, KeepIsSafe
<1>3. /\ exists' = [exists EXCEPT ![p] = TRUE]
      /\ contact' = [contact EXCEPT ![p] = new]
  BY DEF UpsertContact
<1> HIDE DEF new
<1>4. ContactTypeOK'
  BY <1>2, <1>3 DEF ContactTypeOK
<1>5. ASSUME NEW q \in Phones
      PROVE  KeepsContact(contact[q], contact'[q])
  <2>1. CASE q = p
    BY <1>2, <1>3, <2>1 DEF ContactTypeOK
  <2>2. CASE q # p
    BY <1>3, <2>2 DEF ContactTypeOK, KeepsContact
  <2> QED
    BY <2>1, <2>2
<1> QED
  BY <1>4, <1>5

(* What the other screens do: they replace the data of one customer.       *)
LEMMA ReplacementIsSafe ==
  ASSUME ContactTypeOK, NEW p \in Phones, NEW new \in [Fields -> Values \cup {Empty}],
         contact' = [contact EXCEPT ![p] = new], UNCHANGED exists,
         KeepsContact(contact[p], new)
  PROVE  ContactTypeOK' /\ \A q \in Phones : KeepsContact(contact[q], contact'[q])
<1>1. ContactTypeOK'
  BY DEF ContactTypeOK
<1>2. ASSUME NEW q \in Phones
      PROVE  KeepsContact(contact[q], contact'[q])
  <2>1. CASE q = p
    BY <2>1 DEF ContactTypeOK
  <2>2. CASE q # p
    BY <2>2 DEF ContactTypeOK, KeepsContact
  <2> QED
    BY <2>1, <2>2
<1> QED
  BY <1>1, <1>2

(* A step that says nothing of the contact data.                           *)
LEMMA OthersAreSafe ==
  ASSUME ContactTypeOK, UNCHANGED <<exists, contact>>
  PROVE  ContactTypeOK' /\ \A q \in Phones : KeepsContact(contact[q], contact'[q])
<1> QED
  BY DEF ContactTypeOK, KeepsContact

(* Every step keeps the types, and the contact data of the customers that  *)
(* it does not delete.                                                     *)
Safe == ContactTypeOK' /\ \A q \in Phones : exists'[q] => KeepsContact(contact[q], contact'[q])

(* The screens of the shop write safely.                                   *)
LEMMA ScreensAreSafe ==
  ASSUME ContactTypeOK, NEW p \in Phones,
         \/ HandleCustomersPost(p) \/ HandleLoyaltyCliente(p) \/ HandleCustomerPut(p)
         \/ HandleLoyaltyCp(p) \/ HandleLoyaltyRfc(p) \/ HandleLoyaltyFiscal(p)
         \/ HandleCustomerDelete(p)
  PROVE  Safe
<1>0. contact[p] \in [Fields -> Values \cup {Empty}]
  BY DEF ContactTypeOK
<1>1. CASE HandleCustomersPost(p)
  <2>1. PICK given \in [Fields -> Values \cup {Empty}] : UpsertContact(p, given)
    BY <1>1 DEF HandleCustomersPost, Given
  <2> QED
    BY <2>1, UpsertIsSafe DEF Safe
<1>2. CASE HandleLoyaltyCliente(p)
  <2>1. PICK given \in [Fields -> Values \cup {Empty}] :
          UpsertContact(p, [given EXCEPT !["nombre"] = given["name"]])
    BY <1>2 DEF HandleLoyaltyCliente, Given
  <2>2. [given EXCEPT !["nombre"] = given["name"]] \in [Fields -> Values \cup {Empty}]
    BY DEF Fields
  <2> QED
    BY <2>1, <2>2, UpsertIsSafe DEF Safe
<1>3. CASE HandleCustomerPut(p)
  <2>1. PICK given \in [Fields -> Values \cup {Empty}] :
          contact' = [contact EXCEPT ![p] = Keep(given, contact[p])]
    BY <1>3 DEF HandleCustomerPut, Given
  <2>2. UNCHANGED exists
    BY <1>3 DEF HandleCustomerPut
  <2> QED
    BY <1>0, <2>1, <2>2, KeepIsSafe, ReplacementIsSafe DEF Safe
<1>4. CASE HandleLoyaltyCp(p)
  <2>1. PICK cp \in Values : contact' = [contact EXCEPT ![p] = [contact[p] EXCEPT !["cp"] = cp]]
    BY <1>4 DEF HandleLoyaltyCp
  <2> DEFINE new == [contact[p] EXCEPT !["cp"] = cp]
  <2>2. new \in [Fields -> Values \cup {Empty}] /\ KeepsContact(contact[p], new)
    BY <1>0, ValuesAssumption DEF KeepsContact, Kept, Fields
  <2>3. UNCHANGED exists
    BY <1>4 DEF HandleLoyaltyCp
  <2> QED
    BY <2>1, <2>2, <2>3, ReplacementIsSafe DEF Safe
<1>5. CASE HandleLoyaltyRfc(p)
  <2>1. PICK rfc \in Values \cup {Empty} :
          contact' = [contact EXCEPT ![p] = [contact[p] EXCEPT !["rfc"] = rfc]]
    BY <1>5 DEF HandleLoyaltyRfc
  <2> DEFINE new == [contact[p] EXCEPT !["rfc"] = rfc]
  <2>2. new \in [Fields -> Values \cup {Empty}] /\ KeepsContact(contact[p], new)
    BY <1>0 DEF KeepsContact, Kept, Fields
  <2>3. UNCHANGED exists
    BY <1>5 DEF HandleLoyaltyRfc
  <2> QED
    BY <2>1, <2>2, <2>3, ReplacementIsSafe DEF Safe
<1>6. CASE HandleLoyaltyFiscal(p)
  <2>1. PICK given \in [Fields -> Values \cup {Empty}] :
          contact' = [contact EXCEPT ![p] =
            [contact[p] EXCEPT !["regimen"] = given["regimen"], !["nombre"] = given["nombre"]]]
    BY <1>6 DEF HandleLoyaltyFiscal, Given
  <2> DEFINE new == [contact[p] EXCEPT !["regimen"] = given["regimen"],
                                       !["nombre"] = given["nombre"]]
  <2>2. new \in [Fields -> Values \cup {Empty}] /\ KeepsContact(contact[p], new)
    BY <1>0 DEF KeepsContact, Kept, Fields
  <2>3. UNCHANGED exists
    BY <1>6 DEF HandleLoyaltyFiscal
  <2> QED
    BY <2>1, <2>2, <2>3, ReplacementIsSafe DEF Safe
<1>7. CASE HandleCustomerDelete(p)
  <2>1. /\ exists' = [exists EXCEPT ![p] = FALSE]
        /\ contact' = [contact EXCEPT ![p] = NoContact]
    BY <1>7 DEF HandleCustomerDelete
  <2>2. NoContact \in [Fields -> Values \cup {Empty}]
    BY DEF NoContact
  <2>3. ContactTypeOK'
    BY <2>1, <2>2 DEF ContactTypeOK
  <2>4. ASSUME NEW q \in Phones, exists'[q]
        PROVE  KeepsContact(contact[q], contact'[q])
    <3>1. q # p
      BY <2>1, <2>4 DEF ContactTypeOK
    <3> QED
      BY <2>1, <3>1 DEF ContactTypeOK, KeepsContact
  <2> QED
    BY <2>3, <2>4 DEF Safe
<1> QED
  BY <1>1, <1>2, <1>3, <1>4, <1>5, <1>6, <1>7

(* So does every step.                                                     *)
LEMMA StepsAreSafe ==
  ASSUME ContactTypeOK, [NextCustomers]_customerVars
  PROVE  Safe
<1>1. CASE \E p \in Phones :
             \/ HandleCustomersPost(p) \/ HandleLoyaltyCliente(p) \/ HandleCustomerPut(p)
             \/ HandleLoyaltyCp(p) \/ HandleLoyaltyRfc(p) \/ HandleLoyaltyFiscal(p)
             \/ HandleCustomerDelete(p)
  BY <1>1, ScreensAreSafe
<1>2. CASE \E t \in Tills : EarnCommit(t)
  <2>1. PICK t \in Tills : EarnCommit(t)
    BY <1>2
  <2>2. PICK given \in [Fields -> Values \cup {Empty}] : UpsertContact(till[t].phone, given)
    BY <2>1 DEF EarnCommit, Given
  <2>3. CASE till[t].phone \in Phones
    BY <2>2, <2>3, UpsertIsSafe DEF Safe
  <2>4. CASE till[t].phone \notin Phones
    <3>1. exists' = exists /\ contact' = contact
      BY <2>2, <2>4 DEF UpsertContact, ContactTypeOK
    <3> QED
      BY <3>1, OthersAreSafe DEF Safe
  <2> QED
    BY <2>3, <2>4
<1>3. CASE \/ \E t \in Tills : RedeemCommit(t) \/ Rollback(t)
           \/ \E p \in Phones, t \in Tills : EarnBegin(t, p) \/ RedeemBegin(t, p)
           \/ \E r \in Readers : \/ ReadHistory(r) \/ HistoryFails(r)
                                 \/ \E p \in Phones : ReadAccount(r, p) \/ ListCustomers(r, p)
           \/ UNCHANGED customerVars
  <2>1. UNCHANGED <<exists, contact>>
    BY <1>3 DEF RedeemCommit, Rollback, EarnBegin, RedeemBegin, Begin, ReadHistory,
                HistoryFails, ReadAccount, ListCustomers, customerVars
  <2> QED
    BY <2>1, OthersAreSafe DEF Safe
<1> QED
  BY <1>1, <1>2, <1>3 DEF NextCustomers

(* The contact data holds values of its fields.                            *)
THEOREM ContactTypeCorrect == SpecCustomers => []ContactTypeOK
<1>1. InitCustomers => ContactTypeOK
  BY DEF InitCustomers, ContactTypeOK, NoContact
<1>2. ContactTypeOK /\ [NextCustomers]_customerVars => ContactTypeOK'
  BY StepsAreSafe DEF Safe
<1> QED
  BY <1>1, <1>2, PTL DEF SpecCustomers

(* No request and no purchase clears a customer's name, address or postal  *)
(* code: only the deletion of the customer does.                           *)
THEOREM ContactIsKept == SpecCustomers => NothingKnownIsLost
<1>1. ContactTypeOK /\ [NextCustomers]_customerVars =>
        [\A p \in Phones : exists'[p] =>
           \A f \in {"name", "email", "cp"} : contact[p][f] # Empty => contact'[p][f] # Empty]_customerVars
  BY StepsAreSafe DEF Safe, KeepsContact, Kept
<1> QED
  BY <1>1, ContactTypeCorrect, PTL DEF SpecCustomers, NothingKnownIsLost

-----------------------------------------------------------------------------------
(* The histories of the customers, and what the screens show of them.       *)

(* A row of the history: when, and how many points.                        *)
Posting == [at: Nat, points: Int]

(* No two rows have the same time.                                         *)
Distinct(R) == \A x, y \in R : x.at = y.at => x = y

(* The rows newer than x.                                                  *)
Above(R, x) == {y \in R : y.at > x.at}

(* The n newest rows of R: fewer than n are newer.                         *)
Top(R, n) == {x \in R : Cardinality(Above(R, x)) < n}

(* A finite history has finitely many newer rows.                          *)
LEMMA AboveIsFinite ==
  ASSUME NEW R, IsFiniteSet(R), NEW x
  PROVE  IsFiniteSet(Above(R, x)) /\ Cardinality(Above(R, x)) \in Nat
<1>1. IsFiniteSet(Above(R, x))
  BY FS_Subset DEF Above
<1> QED
  BY <1>1, FS_CardinalityType

(* Those in Top are newer than those that are not.                         *)
LEMMA TopIsNewer ==
  ASSUME NEW R \in SUBSET Posting, IsFiniteSet(R), NEW n \in Nat,
         NEW x \in R \ Top(R, n), NEW y \in Top(R, n)
  PROVE  y.at > x.at
<1> SUFFICES ASSUME ~(y.at > x.at) PROVE FALSE
  OBVIOUS
<1>1. x.at \in Nat /\ y.at \in Nat /\ \A z \in R : z.at \in Nat
  BY DEF Posting, Top
<1>2. Above(R, x) \subseteq Above(R, y)
  BY <1>1 DEF Above
<1>3. Cardinality(Above(R, x)) =< Cardinality(Above(R, y))
  BY <1>2, AboveIsFinite, FS_Subset
<1>4. Cardinality(Above(R, y)) < n /\ ~ (Cardinality(Above(R, x)) < n)
  BY DEF Top
<1> QED
  BY <1>3, <1>4, AboveIsFinite

(* The (n + 1) newest are the n newest and one more: the one that, of      *)
(* those left, has the fewest newer rows. It has n of them, and whoever    *)
(* else is left has more.                                                  *)
LEMMA NextOfTop ==
  ASSUME NEW R \in SUBSET Posting, IsFiniteSet(R), Distinct(R), NEW n \in Nat,
         Cardinality(Top(R, n)) = n, R \ Top(R, n) # {}
  PROVE  Cardinality(Top(R, n + 1)) = n + 1
<1> DEFINE rank(x) == Cardinality(Above(R, x))
           Ranks == {rank(x) : x \in R \ Top(R, n)}
<1>0. \A x \in R : rank(x) \in Nat
  BY AboveIsFinite
<1>1. PICK k \in Ranks : \A l \in Ranks : k =< l
  <2>1. Ranks \in SUBSET Nat /\ Ranks # {}
    BY <1>0
  <2> HIDE DEF Ranks
  <2>2. \E k \in Ranks : \A l \in Ranks : <<l, k>> \notin OpToRel(<, Nat)
    BY <2>1, NatLessThanWellFounded, WFMin, Zenon
  <2>3. PICK k \in Ranks : \A l \in Ranks : <<l, k>> \notin OpToRel(<, Nat)
    BY <2>2
  <2>4. \A l \in Ranks : ~(l < k)
    BY <2>1, <2>3 DEF OpToRel
  <2> QED
    BY <2>1, <2>4
<1>2. PICK m \in R \ Top(R, n) : rank(m) = k
  BY <1>1
<1>3. \A x \in R \ Top(R, n) : rank(m) =< rank(x)
  BY <1>1, <1>2
<1>4. m.at \in Nat /\ \A z \in R : z.at \in Nat
  BY DEF Posting
<1>5. ASSUME NEW x \in R, x.at > m.at
      PROVE  rank(x) < rank(m)
  <2>1. Above(R, x) \subseteq Above(R, m)
    BY <1>4, <1>5 DEF Above
  <2>2. x \in Above(R, m) /\ x \notin Above(R, x)
    BY <1>4, <1>5 DEF Above
  <2>3. Cardinality(Above(R, x)) < Cardinality(Above(R, m))
    BY <2>1, <2>2, AboveIsFinite, FS_Subset
  <2> QED
    BY <2>3
<1>6. Above(R, m) = Top(R, n)
  <2>1. ASSUME NEW x \in Above(R, m) PROVE x \in Top(R, n)
    <3>1. x \in R /\ x.at > m.at
      BY DEF Above
    <3>2. rank(x) < rank(m)
      BY <3>1, <1>5
    <3> HIDE DEF rank
    <3> QED
      BY <3>1, <3>2, <1>3, <1>0
  <2>2. ASSUME NEW x \in Top(R, n) PROVE x \in Above(R, m)
    <3>1. x.at > m.at
      BY TopIsNewer
    <3> QED
      BY <3>1 DEF Above, Top
  <2> QED
    BY <2>1, <2>2
<1>7. rank(m) = n
  BY <1>6
<1>8. ASSUME NEW x \in R, x # m, x \notin Top(R, n)
      PROVE  ~(rank(x) < n + 1)
  <2>1. x.at # m.at
    BY <1>8 DEF Distinct
  <2>2. ~(x.at > m.at)
    <3> SUFFICES ASSUME x.at > m.at PROVE FALSE
      OBVIOUS
    <3>1. x \in Above(R, m)
      BY DEF Above
    <3> QED
      BY <1>6, <1>8, <3>1
  <2>3. m.at > x.at
    BY <1>4, <2>1, <2>2
  <2>4. Above(R, m) \subseteq Above(R, x) /\ m \in Above(R, x) /\ m \notin Above(R, m)
    BY <1>4, <2>3 DEF Above
  <2>5. Cardinality(Above(R, m)) < Cardinality(Above(R, x))
    BY <2>4, AboveIsFinite, FS_Subset
  <2> QED
    BY <2>5, <1>7, <1>0
<1>9. Top(R, n + 1) = Top(R, n) \cup {m}
  <2>1. \A x \in Top(R, n) : x \in Top(R, n + 1)
    BY AboveIsFinite DEF Top
  <2>2. m \in Top(R, n + 1)
    BY <1>7 DEF Top
  <2>3. \A x \in Top(R, n + 1) : x \in Top(R, n) \/ x = m
    <3>1. \A x \in Top(R, n + 1) : x \in R /\ rank(x) < n + 1
      BY DEF Top
    <3> QED
      BY <1>8, <3>1
  <2> QED
    BY <2>1, <2>2, <2>3
<1>10. IsFiniteSet(Top(R, n)) /\ m \notin Top(R, n)
  BY FS_Subset DEF Top
<1> QED
  BY <1>9, <1>10, FS_AddElement

(* n of the rows are the n newest, if there are more than n.               *)
LEMMA TopHasAll ==
  ASSUME NEW R \in SUBSET Posting, IsFiniteSet(R), Distinct(R)
  PROVE  \A n \in Nat : R \ Top(R, n) # {} => Cardinality(Top(R, n)) = n
<1> DEFINE T == {n \in Nat : R \ Top(R, n) # {} => Cardinality(Top(R, n)) = n}
<1>1. 0 \in T
  <2>1. Top(R, 0) = {}
    BY AboveIsFinite DEF Top
  <2> QED
    BY <2>1, FS_EmptySet
<1>2. ASSUME NEW n \in T PROVE n + 1 \in T
  <2> SUFFICES ASSUME R \ Top(R, n + 1) # {} PROVE Cardinality(Top(R, n + 1)) = n + 1
    OBVIOUS
  <2>1. Top(R, n) \subseteq Top(R, n + 1)
    BY AboveIsFinite DEF Top
  <2>2. R \ Top(R, n) # {}
    BY <2>1
  <2> QED
    BY <1>2, <2>2, NextOfTop
<1>3. T = Nat
  <2>1. T \in SUBSET Nat
    OBVIOUS
  <2> HIDE DEF T
  <2> QED
    BY <1>1, <1>2, <2>1, NatSetInduction
<1> QED
  BY <1>3


(* The types of what tills and screens work on.                            *)
Call == [op: {"earn", "redeem"}, phone: Phones, at: Nat, points: Int]

(* What a screen has read of an account.                                   *)
Shown ==
  [step: {"idle"}]
    \cup [step: {"account", "bare"}, phone: Phones, points: Int, known: SUBSET Posting]
    \cup [step: {"shown"}, phone: Phones, points: Int, known: SUBSET Posting,
          rows: SUBSET Posting]

(* The values of the accounts, tills and screens.                          *)
LedgersTypeOK ==
  /\ points \in [Phones -> Int]
  /\ history \in [Phones -> SUBSET Posting]
  /\ clock \in Nat
  /\ till \in [Tills -> Call \cup {Idle}]
  /\ screen \in [Readers -> Shown]

(* A history is finite, and the time of a row is its own: no other row of   *)
(* the account, no till that is at work and nobody who comes later has it.  *)
HistoriesAreOrdered ==
  \A p \in Phones :
    /\ IsFiniteSet(history[p])
    /\ Distinct(history[p])
    /\ \A x \in history[p] : x.at < clock

(* Tills that are at work have times of their own.                         *)
TillsAreApart ==
  /\ \A t \in Tills : till[t] # Idle =>
       /\ till[t].at < clock
       /\ \A p \in Phones : \A x \in history[p] : x.at # till[t].at
  /\ \A t, u \in Tills : till[t] # Idle /\ till[u] # Idle /\ till[t].at = till[u].at => t = u

(* A balance is what the rows of the account add up to.                    *)
BalanceIsHistory == \A p \in Phones : points[p] = PointsOf(history[p])

(* A screen that has read its account knows a balance and its rows, all of  *)
(* which are still in the history.                                         *)
AccountsRead ==
  \A r \in Readers : screen[r].step = "account" =>
    /\ screen[r].points = PointsOf(screen[r].known)
    /\ screen[r].known \subseteq history[screen[r].phone]

(* What makes the screens' property inductive.                             *)
LedgersInv ==
  /\ LedgersTypeOK
  /\ HistoriesAreOrdered /\ TillsAreApart
  /\ BalanceIsHistory /\ AccountsRead
  /\ HistoryExplainsBalance

(* Rows add up to an integer.                                              *)
LEMMA PointsOfType ==
  ASSUME NEW R \in SUBSET Posting, IsFiniteSet(R)
  PROVE  PointsOf(R) \in Int
<1> DEFINE F == [x \in R |-> x.points]
<1>1. \A x \in R : F[x] \in Int
  BY DEF Posting
<1>2. SumFunctionOnSet(F, R) \in Int
  <2> HIDE DEF F
  <2> QED
    BY <1>1, SumType
<1> QED
  BY <1>2 DEF PointsOf

(* No rows add up to nothing.                                              *)
LEMMA PointsOfNothing == PointsOf({}) = 0
<1> QED
  BY SumEmpty DEF PointsOf

(* One more row adds its points.                                           *)
LEMMA PointsOfOneMore ==
  ASSUME NEW R \in SUBSET Posting, IsFiniteSet(R), NEW x \in Posting, x \notin R
  PROVE  PointsOf(R \cup {x}) = PointsOf(R) + x.points
<1> DEFINE F == [y \in R |-> y.points]
           G == [y \in R \cup {x} |-> y.points]
<1>1. \A y \in R \cup {x} : G[y] \in Int
  BY DEF Posting
<1>2. \A y \in R : F[y] = G[y]
  OBVIOUS
<1>3. G[x] = x.points /\ x.points \in Int
  BY DEF Posting
<1> HIDE DEF F, G
<1>4. SumFunctionOnSet(G, R \cup {x}) = G[x] + SumFunctionOnSet(G, R)
  BY <1>1, SumAdd
<1>5. SumFunctionOnSet(F, R) = SumFunctionOnSet(G, R)
  BY <1>2, SumCongruence
<1>6. SumFunctionOnSet(G, R) \in Int
  BY <1>1, SumType
<1>7. SumFunctionOnSet(G, R \cup {x}) = SumFunctionOnSet(F, R) + x.points
  BY <1>3, <1>4, <1>5, <1>6
<1> QED
  BY <1>7 DEF PointsOf, F, G

(* A row that is not among the newest is older than all of them, and they  *)
(* are as many as a screen shows.                                          *)
LEMMA NewestOrOlder ==
  ASSUME NEW R \in SUBSET Posting, IsFiniteSet(R), Distinct(R), NEW x \in R,
         x \notin Newest(R)
  PROVE  /\ Cardinality(Newest(R)) = HistoryLimit
         /\ \A y \in Newest(R) : y.at > x.at
<1>1. Newest(R) = Top(R, HistoryLimit)
  BY DEF Newest, Top, Above
<1>2. HistoryLimit \in Nat
  BY LimitAssumption
<1>3. x \in R \ Top(R, HistoryLimit)
  BY <1>1
<1> QED
  BY <1>1, <1>2, <1>3, TopHasAll, TopIsNewer

(* No customer, no till and no screen has anything to explain yet.         *)
LEMMA LedgersInit == InitCustomers => LedgersInv
<1> SUFFICES ASSUME InitCustomers PROVE LedgersInv
  OBVIOUS
<1> USE DEF InitCustomers
<1>1. LedgersTypeOK
  BY DEF LedgersTypeOK, Shown
<1>2. HistoriesAreOrdered
  BY FS_EmptySet DEF HistoriesAreOrdered, Distinct
<1>3. TillsAreApart
  BY DEF TillsAreApart
<1>4. BalanceIsHistory
  BY PointsOfNothing DEF BalanceIsHistory
<1>5. AccountsRead /\ HistoryExplainsBalance
  BY DEF AccountsRead, HistoryExplainsBalance
<1> QED
  BY <1>1, <1>2, <1>3, <1>4, <1>5 DEF LedgersInv

(* A step that writes contact data only.                                   *)
LEMMA LedgersStay ==
  ASSUME LedgersInv, UNCHANGED Ledgers
  PROVE  LedgersInv'
<1> QED
  BY DEF LedgersInv, Ledgers, LedgersTypeOK, HistoriesAreOrdered, TillsAreApart, BalanceIsHistory,
         AccountsRead, HistoryExplainsBalance

(* The deletion of a customer: its history is empty, so its balance is     *)
(* zero already.                                                           *)
LEMMA DeleteKeepsLedgers ==
  ASSUME LedgersInv, NEW p \in Phones, HandleCustomerDelete(p)
  PROVE  LedgersInv'
<1>1. /\ history[p] = {}
      /\ points' = [points EXCEPT ![p] = 0]
      /\ UNCHANGED <<history, clock, till, screen>>
  BY DEF HandleCustomerDelete
<1>2. BalanceIsHistory'
  BY <1>1, PointsOfNothing DEF LedgersInv, LedgersTypeOK, BalanceIsHistory
<1> QED
  BY <1>1, <1>2 DEF LedgersInv, LedgersTypeOK, HistoriesAreOrdered, TillsAreApart,
                    AccountsRead, HistoryExplainsBalance

(* A till takes a time that no row has.                                    *)
LEMMA BeginKeepsLedgers ==
  ASSUME LedgersInv, NEW t \in Tills, NEW p \in Phones, NEW n \in Int,
         NEW op \in {"earn", "redeem"}, Begin(t, op, p, n)
  PROVE  LedgersInv'
<1> DEFINE new == [op |-> op, phone |-> p, at |-> clock, points |-> n]
<1>1. /\ till[t] = Idle
      /\ clock' = clock + 1
      /\ till' = [till EXCEPT ![t] = new]
      /\ UNCHANGED <<exists, contact, points, history, screen>>
  BY DEF Begin
<1>2. LedgersTypeOK
  BY DEF LedgersInv
<1>3. clock \in Nat /\ \A u \in Tills : till[u] # Idle => till[u].at \in Nat
  BY <1>2 DEF LedgersTypeOK, Call
<1>4. new \in Call /\ new.at = clock
  BY <1>3 DEF Call
<1>5. \A q \in Phones : \A x \in history[q] : x.at \in Nat
  BY <1>2 DEF LedgersTypeOK, Posting
<1> HIDE DEF new
<1>6. \A u \in Tills : till'[u] = IF u = t THEN new ELSE till[u]
  BY <1>1, <1>2 DEF LedgersTypeOK
<1>7. LedgersTypeOK'
  BY <1>1, <1>2, <1>4 DEF LedgersTypeOK
<1>8. HistoriesAreOrdered'
  BY <1>1, <1>3, <1>5 DEF LedgersInv, HistoriesAreOrdered
<1>9. TillsAreApart'
  <2>1. ASSUME NEW u \in Tills, till'[u] # Idle
        PROVE  /\ till'[u].at < clock'
               /\ \A q \in Phones : \A x \in history'[q] : x.at # till'[u].at
    <3>1. CASE u = t
      <4>1. till'[u].at = clock
        BY <1>4, <1>6, <3>1
      <4>2. \A q \in Phones : \A x \in history[q] : x.at # clock
        BY <1>3, <1>5 DEF LedgersInv, HistoriesAreOrdered
      <4> QED
        BY <1>1, <1>3, <4>1, <4>2
    <3>2. CASE u # t
      BY <1>1, <1>3, <1>6, <2>1, <3>2 DEF LedgersInv, TillsAreApart
    <3> QED
      BY <3>1, <3>2
  <2>2. ASSUME NEW u \in Tills, NEW w \in Tills,
               till'[u] # Idle, till'[w] # Idle, till'[u].at = till'[w].at
        PROVE  u = w
    <3>1. \A v \in Tills \ {t} : till[v] # Idle => till[v].at < clock
      BY DEF LedgersInv, TillsAreApart
    <3>2. CASE u = t \/ w = t
      BY <1>3, <1>4, <1>6, <2>2, <3>1, <3>2
    <3>3. CASE u # t /\ w # t
      BY <1>6, <2>2, <3>3 DEF LedgersInv, TillsAreApart
    <3> QED
      BY <3>2, <3>3
  <2> QED
    BY <2>1, <2>2 DEF TillsAreApart
<1> QED
  BY <1>1, <1>7, <1>8, <1>9
  DEF LedgersInv, BalanceIsHistory, AccountsRead, HistoryExplainsBalance

(* A commit adds a row, with the till's time, and its points.              *)
LEMMA PostKeepsLedgers ==
  ASSUME LedgersInv, NEW t \in Tills, till[t] # Idle, NEW n \in Int, Post(t, n)
  PROVE  LedgersInv'
<1>0. LedgersTypeOK
  BY DEF LedgersInv
<1>1. till[t] \in Call
  BY <1>0 DEF LedgersTypeOK
<1>2. PICK p \in Phones : p = till[t].phone
  BY <1>1 DEF Call
<1>3. PICK new \in Posting : new = [at |-> till[t].at, points |-> n]
  BY <1>1 DEF Call, Posting
<1>4. new.at = till[t].at /\ new.points = n
  BY <1>3
<1>5. /\ points' = [points EXCEPT ![p] = points[p] + n]
      /\ history' = [history EXCEPT ![p] = history[p] \cup {new}]
      /\ till' = [till EXCEPT ![t] = Idle]
      /\ UNCHANGED <<clock, screen>>
  BY <1>2, <1>3 DEF Post
<1>6. \A q \in Phones : history'[q] = IF q = p THEN history[p] \cup {new} ELSE history[q]
  BY <1>0, <1>5 DEF LedgersTypeOK
<1>7. \A u \in Tills : till'[u] = IF u = t THEN Idle ELSE till[u]
  BY <1>0, <1>5 DEF LedgersTypeOK
<1>8. \A q \in Phones : \A x \in history[q] : x.at # new.at
  BY <1>4 DEF LedgersInv, TillsAreApart
<1>9. new.at < clock
  BY <1>4 DEF LedgersInv, TillsAreApart
<1>10. LedgersTypeOK'
  <2>1. points[p] + n \in Int /\ history[p] \cup {new} \in SUBSET Posting
    BY <1>0 DEF LedgersTypeOK
  <2>2. points' \in [Phones -> Int]
    BY <1>0, <1>5, <2>1 DEF LedgersTypeOK
  <2>3. history' \in [Phones -> SUBSET Posting]
    BY <1>0, <1>5, <2>1 DEF LedgersTypeOK
  <2>4. till' \in [Tills -> Call \cup {Idle}]
    BY <1>0, <1>5 DEF LedgersTypeOK
  <2> QED
    BY <1>0, <1>5, <2>2, <2>3, <2>4 DEF LedgersTypeOK
<1>11. HistoriesAreOrdered'
  <2> SUFFICES ASSUME NEW q \in Phones
               PROVE  /\ IsFiniteSet(history'[q])
                      /\ Distinct(history'[q])
                      /\ \A x \in history'[q] : x.at < clock'
    BY DEF HistoriesAreOrdered
  <2>1. IsFiniteSet(history[q]) /\ Distinct(history[q]) /\ \A x \in history[q] : x.at < clock
    BY DEF LedgersInv, HistoriesAreOrdered
  <2>2. IsFiniteSet(history'[q])
    BY <1>6, <2>1, FS_AddElement
  <2>3. Distinct(history'[q])
    BY <1>6, <1>8, <2>1 DEF Distinct
  <2> QED
    BY <1>5, <1>6, <1>9, <2>1, <2>2, <2>3
<1>12. TillsAreApart'
  <2>1. ASSUME NEW u \in Tills, till'[u] # Idle
        PROVE  /\ till'[u].at < clock'
               /\ \A q \in Phones : \A x \in history'[q] : x.at # till'[u].at
    <3>1. u # t /\ till'[u] = till[u] /\ till[u] # Idle
      BY <1>7, <2>1
    <3>2. till[u].at < clock /\ till[u].at # new.at
      BY <1>4, <3>1 DEF LedgersInv, TillsAreApart
    <3>3. \A q \in Phones : \A x \in history[q] : x.at # till[u].at
      BY <3>1 DEF LedgersInv, TillsAreApart
    <3> QED
      BY <1>5, <1>6, <3>1, <3>2, <3>3
  <2>2. ASSUME NEW u \in Tills, NEW w \in Tills,
               till'[u] # Idle, till'[w] # Idle, till'[u].at = till'[w].at
        PROVE  u = w
    BY <1>7, <2>2 DEF LedgersInv, TillsAreApart
  <2> QED
    BY <2>1, <2>2 DEF TillsAreApart
<1>13. BalanceIsHistory'
  <2> SUFFICES ASSUME NEW q \in Phones
               PROVE  points'[q] = PointsOf(history'[q])
    BY DEF BalanceIsHistory
  <2>1. points[q] = PointsOf(history[q])
    BY DEF LedgersInv, BalanceIsHistory
  <2>2. CASE q = p
    <3>1. IsFiniteSet(history[p]) /\ history[p] \in SUBSET Posting /\ new \notin history[p]
      BY <1>0, <1>8 DEF LedgersInv, HistoriesAreOrdered, LedgersTypeOK
    <3>2. PointsOf(history[p] \cup {new}) = PointsOf(history[p]) + n
      BY <1>4, <3>1, PointsOfOneMore
    <3>3. points'[p] = points[p] + n
      BY <1>0, <1>5 DEF LedgersTypeOK
    <3> QED
      BY <1>6, <2>1, <2>2, <3>2, <3>3
  <2>3. CASE q # p
    BY <1>0, <1>5, <1>6, <2>1, <2>3 DEF LedgersTypeOK
  <2> QED
    BY <2>2, <2>3
<1>14. AccountsRead'
  <2>1. \A q : history[q] \subseteq history'[q] \/ q \notin Phones
    BY <1>6
  <2>2. \A r \in Readers : screen[r].step = "account" => screen[r].phone \in Phones
    BY <1>0 DEF LedgersTypeOK, Shown
  <2> QED
    BY <1>5, <2>1, <2>2 DEF LedgersInv, AccountsRead
<1> QED
  BY <1>5, <1>10, <1>11, <1>12, <1>13, <1>14 DEF LedgersInv, HistoryExplainsBalance

(* A till that gives up leaves the ledgers alone.                          *)
LEMMA RollbackKeepsLedgers ==
  ASSUME LedgersInv, NEW t \in Tills, Rollback(t)
  PROVE  LedgersInv'
<1>1. /\ till' = [till EXCEPT ![t] = Idle]
      /\ UNCHANGED <<points, history, clock, screen>>
  BY DEF Rollback
<1>2. LedgersTypeOK' /\ \A u \in Tills : till'[u] = IF u = t THEN Idle ELSE till[u]
  BY <1>1 DEF LedgersInv, LedgersTypeOK
<1>3. TillsAreApart'
  BY <1>1, <1>2 DEF LedgersInv, TillsAreApart
<1> QED
  BY <1>1, <1>2, <1>3 DEF LedgersInv, HistoriesAreOrdered, BalanceIsHistory, AccountsRead,
                          HistoryExplainsBalance

(* What a reader needs to show to keep the invariant: its own screen.       *)
LEMMA ReaderKeepsLedgers ==
  ASSUME LedgersInv, NEW r \in Readers, NEW new \in Shown,
         screen' = [screen EXCEPT ![r] = new],
         UNCHANGED <<points, history, clock, till>>,
         new.step = "account" => /\ new.points = PointsOf(new.known)
                                 /\ new.known \subseteq history[new.phone],
         new.step = "shown" =>
           /\ new.points = PointsOf(new.known)
           /\ \A x \in new.known :
                \/ x \in new.rows
                \/ /\ Cardinality(new.rows) = HistoryLimit
                   /\ \A y \in new.rows : y.at > x.at
  PROVE  LedgersInv'
<1>1. LedgersTypeOK' /\ \A s \in Readers : screen'[s] = IF s = r THEN new ELSE screen[s]
  BY DEF LedgersInv, LedgersTypeOK
<1>2. AccountsRead'
  BY <1>1 DEF LedgersInv, AccountsRead
<1>3. HistoryExplainsBalance'
  <2> SUFFICES ASSUME NEW s \in Readers, screen'[s].step = "shown"
               PROVE  /\ screen'[s].points = PointsOf(screen'[s].known)
                      /\ \A x \in screen'[s].known :
                           \/ x \in screen'[s].rows
                           \/ /\ Cardinality(screen'[s].rows) = HistoryLimit
                              /\ \A y \in screen'[s].rows : y.at > x.at
    BY DEF HistoryExplainsBalance
  <2>1. CASE s = r
    BY <1>1, <2>1
  <2>2. CASE s # r
    BY <1>1, <2>2 DEF LedgersInv, HistoryExplainsBalance
  <2> QED
    BY <2>1, <2>2
<1> QED
  BY <1>1, <1>2, <1>3 DEF LedgersInv, HistoriesAreOrdered, TillsAreApart, BalanceIsHistory

(* The statements of the screens.                                          *)
LEMMA ReadsKeepLedgers ==
  ASSUME LedgersInv, NEW r \in Readers,
         \/ \E p \in Phones : ReadAccount(r, p) \/ ListCustomers(r, p)
         \/ ReadHistory(r) \/ HistoryFails(r)
  PROVE  LedgersInv'
<1>0. LedgersTypeOK
  BY DEF LedgersInv
<1>1. CASE \E p \in Phones : ReadAccount(r, p) \/ ListCustomers(r, p)
  <2>1. PICK p \in Phones, step \in {"account", "bare"} :
          /\ screen' = [screen EXCEPT ![r] = Screen(step, p)]
          /\ UNCHANGED <<exists, contact, points, history, clock, till>>
    BY <1>1 DEF ReadAccount, ListCustomers
  <2>2. points[p] \in Int /\ history[p] \in SUBSET Posting
    BY <1>0 DEF LedgersTypeOK
  <2>3. PICK new : new = Screen(step, p)
    OBVIOUS
  <2>4. new \in Shown
    BY <2>2, <2>3 DEF Screen, Shown
  <2>5. new.step # "shown" /\ new.points = PointsOf(new.known) /\ new.known = history[new.phone]
    BY <2>3 DEF Screen, LedgersInv, BalanceIsHistory
  <2> QED
    BY <2>1, <2>3, <2>4, <2>5, ReaderKeepsLedgers
<1>2. CASE ReadHistory(r)
  <2>0. screen[r].step = "account" /\ screen[r] \in Shown
    BY <1>0, <1>2 DEF ReadHistory, LedgersTypeOK
  <2>1. PICK p \in Phones : p = screen[r].phone
    BY <2>0 DEF Shown
  <2>2. PICK new : new = [step |-> "shown", phone |-> p, points |-> screen[r].points,
                          known |-> screen[r].known, rows |-> Newest(history[p])]
    OBVIOUS
  <2>3. /\ screen' = [screen EXCEPT ![r] = new]
        /\ UNCHANGED <<exists, contact, points, history, clock, till>>
    BY <1>2, <2>1, <2>2 DEF ReadHistory
  <2>4. /\ history[p] \in SUBSET Posting /\ IsFiniteSet(history[p]) /\ Distinct(history[p])
        /\ Newest(history[p]) \in SUBSET Posting
    BY <1>0 DEF LedgersTypeOK, LedgersInv, HistoriesAreOrdered, Newest
  <2>5. new \in Shown
    BY <2>0, <2>2, <2>4 DEF Shown
  <2>6. /\ new.step = "shown"
        /\ new.points = PointsOf(new.known)
        /\ new.known \subseteq history[p]
        /\ new.rows = Newest(history[p])
    BY <2>0, <2>1, <2>2 DEF LedgersInv, AccountsRead
  <2>7. \A x \in new.known :
          \/ x \in new.rows
          \/ /\ Cardinality(new.rows) = HistoryLimit
             /\ \A y \in new.rows : y.at > x.at
    BY <2>4, <2>6, NewestOrOlder
  <2> QED
    BY <2>3, <2>5, <2>6, <2>7, ReaderKeepsLedgers
<1>3. CASE HistoryFails(r)
  <2>0. screen[r].step = "account" /\ screen[r] \in Shown
    BY <1>0, <1>3 DEF HistoryFails, LedgersTypeOK
  <2>1. PICK new : new = [screen[r] EXCEPT !.step = "bare"]
    OBVIOUS
  <2>2. /\ screen' = [screen EXCEPT ![r] = new]
        /\ UNCHANGED <<exists, contact, points, history, clock, till>>
    BY <1>3, <2>1 DEF HistoryFails
  <2>3. new \in Shown /\ new.step = "bare"
    BY <2>0, <2>1 DEF Shown
  <2> QED
    BY <2>2, <2>3, ReaderKeepsLedgers
<1> QED
  BY <1>1, <1>2, <1>3

(* Every step keeps the invariant.                                         *)
LEMMA NextKeepsLedgers ==
  ASSUME LedgersInv, [NextCustomers]_customerVars
  PROVE  LedgersInv'
<1>0. LedgersTypeOK
  BY DEF LedgersInv
<1>1. CASE \/ \E p \in Phones :
                \/ HandleCustomersPost(p) \/ HandleLoyaltyCliente(p) \/ HandleCustomerPut(p)
                \/ HandleLoyaltyCp(p) \/ HandleLoyaltyRfc(p) \/ HandleLoyaltyFiscal(p)
           \/ UNCHANGED customerVars
  <2>1. UNCHANGED Ledgers
    BY <1>1 DEF HandleCustomersPost, HandleLoyaltyCliente, HandleCustomerPut, HandleLoyaltyCp,
                HandleLoyaltyRfc, HandleLoyaltyFiscal, customerVars, Ledgers
  <2> QED
    BY <2>1, LedgersStay
<1>2. CASE \E p \in Phones : HandleCustomerDelete(p)
  BY <1>2, DeleteKeepsLedgers
<1>3. CASE \E p \in Phones, t \in Tills : EarnBegin(t, p)
  <2>1. PICK p \in Phones, t \in Tills, n \in Int : Begin(t, "earn", p, n)
    BY <1>3, PointsAssumption DEF EarnBegin
  <2> QED
    BY <2>1, BeginKeepsLedgers
<1>4. CASE \E p \in Phones, t \in Tills : RedeemBegin(t, p)
  <2>1. PICK p \in Phones, t \in Tills, n \in Int : Begin(t, "redeem", p, n)
    <3>1. PICK p \in Phones, t \in Tills, n \in Asked : Begin(t, "redeem", p, ToInt32(n))
      BY <1>4 DEF RedeemBegin
    <3>2. ToInt32(n) \in Int
      <4>1. n \in Int /\ Int32Max \in Nat
        BY PointsAssumption
      <4> QED
        BY <4>1 DEF ToInt32
    <3> QED
      BY <3>1, <3>2
  <2> QED
    BY <2>1, BeginKeepsLedgers
<1>5. CASE \E t \in Tills : EarnCommit(t) \/ RedeemCommit(t)
  <2>1. PICK t \in Tills : EarnCommit(t) \/ RedeemCommit(t)
    BY <1>5
  <2>2. till[t].op \in {"earn", "redeem"}
    BY <2>1 DEF EarnCommit, RedeemCommit
  <2>3. till[t] # Idle
    BY <2>2 DEF Idle
  <2>4. till[t].points \in Int
    BY <1>0, <2>3 DEF LedgersTypeOK, Call
  <2>5. Post(t, till[t].points) \/ Post(t, 0 - till[t].points)
    BY <2>1 DEF EarnCommit, RedeemCommit
  <2> QED
    BY <2>3, <2>4, <2>5, PostKeepsLedgers
<1>6. CASE \E t \in Tills : Rollback(t)
  BY <1>6, RollbackKeepsLedgers
<1>7. CASE \E r \in Readers : \/ \E p \in Phones : ReadAccount(r, p) \/ ListCustomers(r, p)
                              \/ ReadHistory(r) \/ HistoryFails(r)
  BY <1>7, ReadsKeepLedgers
<1> QED
  BY <1>1, <1>2, <1>3, <1>4, <1>5, <1>6, <1>7 DEF NextCustomers

(* Whatever tills do between the two reads of a screen, and however many   *)
(* they are, the rows that make up the shown balance are shown or, if the  *)
(* twenty rows are full, older than those shown: ReadHistory shows no      *)
(* balance its history contradicts.                                        *)
THEOREM BalancesAreExplained == SpecCustomers => []HistoryExplainsBalance
<1>1. LedgersInv /\ [NextCustomers]_customerVars => LedgersInv'
  BY NextKeepsLedgers
<1>2. LedgersInv => HistoryExplainsBalance
  BY DEF LedgersInv
<1> QED
  BY LedgersInit, <1>1, <1>2, PTL DEF SpecCustomers

===================================================================================
