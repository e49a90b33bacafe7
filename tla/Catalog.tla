---------------------------------- MODULE Catalog ----------------------------------
(***************************************************************************)
(* The catalogue of products: handleProducts, handleProductByID and the    *)
(* product rows of handleMigrate in the gateway, and the pages that list,  *)
(* edit, rename, delete, import and sell products.                         *)
(*                                                                         *)
(* Name, price, category, unit, barcode and picture of a product are left  *)
(* out: every edit may change them.  A page waits for one of its calls     *)
(* before it makes the next, as saveProduct does; two pages of one tenant  *)
(* stand for two calls of one page as well.                                *)
(***************************************************************************)
EXTENDS Integers

CONSTANTS
  Ids,       \* the products there may ever be
  Pages,     \* the open pages
  Tenants,
  TenantOf,  \* the tenant of each page
  Skus,
  NoSku,     \* no SKU, and one the server makes up, which no other product has
  NoTenant,  \* NULL in tenant_id: the product belongs to every tenant
  NoId,      \* no product
  Unlisted,  \* a product that is not in a list
  NoRow,     \* no row
  MaxSold,   \* the bound on the sales of a product
  MaxCalls   \* the bound on the calls of the pages

ASSUME PagesAssumption == TenantOf \in [Pages -> Tenants]
ASSUME NoneAssumption ==
  /\ NoTenant \notin Tenants /\ NoId \notin Ids
  /\ NoSku \notin Skus /\ Unlisted \notin Skus \cup {NoSku}
ASSUME BoundsAssumption == MaxSold \in Nat /\ MaxCalls \in Nat

VARIABLES
  row,      \* the table products
  sold,     \* how many of each product were sold
  list,     \* allProducts of each page: the SKU of every product it lists
  shelf,    \* products of each page: what its register sells
  editing,  \* editingProductId of each page
  work,     \* the call each page is making
  calls     \* how many calls were made

vars == <<row, sold, list, shelf, editing, work, calls>>

Row == [tenant: Tenants \cup {NoTenant}, sku: Skus \cup {NoSku}, active: BOOLEAN, stock: Int]

ASSUME NoRowAssumption == NoRow \notin Row

Listing == [Ids -> Skus \cup {NoSku, Unlisted}]

Nothing == [id \in Ids |-> Unlisted]

(* puts: what the bodies of the PUTs still to be sent say of the SKU.      *)
Work == [call: {"none", "POST", "seed", "PUT", "DELETE", "rename", "migrate"},
         puts: Listing, id: Ids \cup {NoId}, sku: Skus \cup {NoSku},
         at: {"idle", "sent", "reloading"}]

NoWork == [call |-> "none", puts |-> Nothing, id |-> NoId, sku |-> NoSku, at |-> "idle"]

(* The values of the tables and of the pages; no two products have one SKU. *)
TypeOK ==
  /\ row \in [Ids -> Row \cup {NoRow}]
  /\ sold \in [Ids -> 0..MaxSold]
  /\ list \in [Pages -> Listing]
  /\ shelf \in [Pages -> SUBSET Ids]
  /\ editing \in [Pages -> Ids \cup {NoId}]
  /\ work \in [Pages -> Work]
  /\ calls \in 0..MaxCalls
  /\ \A i, j \in Ids :
       row[i] # NoRow /\ row[j] # NoRow /\ row[i].sku = row[j].sku
         => i = j \/ row[i].sku = NoSku

(* The products of the migrations have no SKU and no tenant.               *)
Init ==
  /\ \E common \in SUBSET Ids :
       row = [id \in Ids |-> IF id \in common
                THEN [tenant |-> NoTenant, sku |-> NoSku, active |-> TRUE, stock |-> 0]
                ELSE NoRow]
  /\ sold = [id \in Ids |-> 0]
  /\ list = [p \in Pages |-> Nothing]
  /\ shelf = [p \in Pages |-> {}]
  /\ editing = [p \in Pages |-> NoId]
  /\ work = [p \in Pages |-> NoWork]
  /\ calls = 0

-----------------------------------------------------------------------------------
(* The page.                                                               *)

Visible(p, id) ==
  /\ row[id] # NoRow
  /\ row[id].active
  /\ row[id].tenant \in {TenantOf[p], NoTenant}

(* GET /api/v1/products.                                                    *)
Served(p) == [id \in Ids |-> IF Visible(p, id) THEN row[id].sku ELSE Unlisted]

LoadCatalog(p) == list' = [list EXCEPT ![p] = Served(p)] \/ UNCHANGED list

(* The register keeps what it had when the answer is empty, or none comes.  *)
LoadProductsFromDB(p) ==
  LET ids == {id \in Ids : Visible(p, id)} IN
  \/ ids # {} /\ shelf' = [shelf EXCEPT ![p] = ids]
  \/ UNCHANGED shelf

Show(p) ==
  /\ LoadCatalog(p)
  /\ LoadProductsFromDB(p)
  /\ UNCHANGED <<row, sold, editing, work, calls>>

(* The form is filled from the page's list; NoId stands for a new product   *)
(* as well as for a closed form.                                           *)
OpenProductModal(p, id) ==
  /\ id # NoId => list[p][id] # Unlisted
  /\ editing' = [editing EXCEPT ![p] = id]
  /\ UNCHANGED <<row, sold, list, shelf, work, calls>>

Send(p, call, puts, id, sku) ==
  /\ work[p].at = "idle"
  /\ calls < MaxCalls
  /\ calls' = calls + 1
  /\ work' = [work EXCEPT ![p] =
       [call |-> call, puts |-> puts, id |-> id, sku |-> sku, at |-> "sent"]]
  /\ UNCHANGED <<row, sold, list, shelf, editing>>

SaveProduct(p, sku) ==
  IF editing[p] = NoId THEN Send(p, "POST", Nothing, NoId, sku)
                       ELSE Send(p, "PUT", Nothing, editing[p], sku)

(* seedDemoData posts product after product.                               *)
SeedDemoData(p, sku) == Send(p, "seed", Nothing, NoId, sku)

ConfirmDelete(p, id) ==
  /\ list[p][id] # Unlisted
  /\ Send(p, "DELETE", Nothing, id, NoSku)

(* renameCat and deleteCat: a PUT of every listed product of the category.  *)
RenameCat(p, prods) ==
  /\ \A id \in prods : list[p][id] # Unlisted
  /\ Send(p, "rename",
          [id \in Ids |-> IF id \in prods THEN list[p][id] ELSE Unlisted], NoId, NoSku)

Migrate(p, sku) == Send(p, "migrate", Nothing, NoId, sku)

-----------------------------------------------------------------------------------
(* The gateway.                                                            *)

(* The answer, and what the page does with it before it reloads its lists.  *)
Answer(p, id) ==
  work' = [work EXCEPT ![p] = [call |-> work[p].call, puts |-> Nothing,
                               id |-> id, sku |-> work[p].sku, at |-> "reloading"]]

(* An answer that is lost is an error to the page, whatever was written.    *)
AnswerOrLose(p, id) == Answer(p, id) \/ work' = [work EXCEPT ![p] = NoWork]

(* After an answer closeProductModal clears editingProductId, whatever form *)
(* is open by now.                                                         *)
CloseProductModal(p) ==
  editing' = IF work'[p].at = "reloading" THEN [editing EXCEPT ![p] = NoId] ELSE editing

Taken(sku, id) == \E i \in Ids \ {id} : row[i] # NoRow /\ row[i].sku = sku /\ sku # NoSku

Insert(id, tenant, sku) ==
  /\ row[id] = NoRow
  /\ row' = [row EXCEPT ![id] = [tenant |-> tenant, sku |-> sku, active |-> TRUE, stock |-> 0]]

(* Wrong: the row that has the SKU is handed to the tenant that asked.      *)
UpsertTakesTenant(p, call, tenant) ==
  LET sku == work[p].sku IN
  /\ work[p].at = "sent"
  /\ work[p].call = call
  /\ \E id \in Ids :
       /\ \/ ~ Taken(sku, NoId) /\ Insert(id, tenant, sku)
          \/ /\ sku # NoSku
             /\ row[id] # NoRow
             /\ row[id].sku = sku
             /\ row' = [row EXCEPT ![id] = [tenant |-> tenant, sku |-> sku,
                                            active |-> row[id].active, stock |-> row[id].stock]]
       /\ AnswerOrLose(p, id)
  /\ UNCHANGED <<sold, list, shelf, calls>>

(* INSERT ... ON CONFLICT (sku) DO UPDATE of name, price and the like: the  *)
(* row that has the SKU keeps its tenant, and stays deleted if it is.       *)
Upsert(p, call, tenant) ==
  LET sku == work[p].sku IN
  /\ work[p].at = "sent"
  /\ work[p].call = call
  /\ \E id \in Ids :
       /\ \/ ~ Taken(sku, NoId) /\ Insert(id, tenant, sku)
          \/ /\ sku # NoSku
             /\ row[id] # NoRow
             /\ row[id].sku = sku
             /\ UNCHANGED row
       /\ AnswerOrLose(p, id)
  /\ UNCHANGED <<sold, list, shelf, calls>>

HandlePost(p) == Upsert(p, "POST", TenantOf[p]) /\ CloseProductModal(p)

HandleSeed(p) == Upsert(p, "seed", TenantOf[p]) /\ UNCHANGED editing

(* The INSERT of a migration names no tenant.                               *)
HandleMigrate(p) == Upsert(p, "migrate", NoTenant) /\ UNCHANGED editing

(* A row that cannot be inserted is counted in productos_error, and the     *)
(* answer is "ok" all the same.                                            *)
MigrateRowFails(p) ==
  /\ work[p].at = "sent"
  /\ work[p].call = "migrate"
  /\ Answer(p, NoId)
  /\ UNCHANGED <<row, sold, list, shelf, editing, calls>>

(* Wrong: no unique index on the SKU.                                       *)
UpdateAnySku(id, sku) ==
  /\ row[id] # NoRow
  /\ row' = [row EXCEPT ![id] =
       [tenant |-> row[id].tenant, sku |-> IF sku = NoSku THEN row[id].sku ELSE sku,
        active |-> TRUE, stock |-> row[id].stock]]

(* UPDATE products ... WHERE id: an empty SKU leaves the one there is, and  *)
(* active becomes true, for the form leaves it out and the list has only    *)
(* products that were active.                                              *)
Update(id, sku) ==
  /\ row[id] # NoRow
  /\ ~ Taken(sku, id)
  /\ row' = [row EXCEPT ![id] =
       [tenant |-> row[id].tenant, sku |-> IF sku = NoSku THEN row[id].sku ELSE sku,
        active |-> TRUE, stock |-> row[id].stock]]

HandlePut(p) ==
  /\ work[p].at = "sent"
  /\ work[p].call = "PUT"
  /\ Update(work[p].id, work[p].sku)
  /\ AnswerOrLose(p, work[p].id)
  /\ CloseProductModal(p)
  /\ UNCHANGED <<sold, list, shelf, calls>>

(* Wrong: the row is removed.                                              *)
DeleteRow(p) ==
  /\ work[p].at = "sent"
  /\ work[p].call = "DELETE"
  /\ row' = [row EXCEPT ![work[p].id] = NoRow]
  /\ AnswerOrLose(p, work[p].id)
  /\ UNCHANGED <<sold, list, shelf, editing, calls>>

(* The row stays, for sales refer to it.                                    *)
HandleDelete(p) ==
  LET id == work[p].id IN
  /\ work[p].at = "sent"
  /\ work[p].call = "DELETE"
  /\ row[id] # NoRow
  /\ row' = [row EXCEPT ![id] = [tenant |-> row[id].tenant, sku |-> row[id].sku,
                                 active |-> FALSE, stock |-> row[id].stock]]
  /\ AnswerOrLose(p, id)
  /\ UNCHANGED <<sold, list, shelf, editing, calls>>

(* The call is not answered, or with an error: the page shows it.           *)
HandlerFails(p) ==
  /\ work[p].at = "sent"
  /\ work[p].call # "rename"
  /\ work' = [work EXCEPT ![p] = NoWork]
  /\ UNCHANGED <<row, sold, list, shelf, editing, calls>>

(* One turn of the loop; its errors are swallowed.                          *)
RenameNext(p, id) ==
  /\ work[p].at = "sent"
  /\ work[p].puts[id] # Unlisted
  /\ \/ Update(id, work[p].puts[id])
     \/ UNCHANGED row
  /\ work' = [work EXCEPT ![p] =
       [call |-> "rename", puts |-> [work[p].puts EXCEPT ![id] = Unlisted],
        id |-> NoId, sku |-> NoSku, at |-> "sent"]]
  /\ UNCHANGED <<sold, list, shelf, editing, calls>>

RenameDone(p) ==
  /\ work[p].at = "sent"
  /\ work[p].call = "rename"
  /\ work[p].puts = Nothing
  /\ Answer(p, NoId)
  /\ UNCHANGED <<row, sold, list, shelf, editing, calls>>

-----------------------------------------------------------------------------------
(* The page again.                                                         *)

(* Not every caller reloads both lists: the other one stays as it was.      *)
Reloaded(p) ==
  /\ work[p].at = "reloading"
  /\ LoadCatalog(p)
  /\ LoadProductsFromDB(p)
  /\ work' = [work EXCEPT ![p] = NoWork]
  /\ UNCHANGED <<row, sold, editing, calls>>

(* A sale of what the register lists: CreateSale deducts from the stock of  *)
(* the row, deleted or not; without a row it deducts nothing.               *)
Sell(p, id) ==
  /\ id \in shelf[p]
  /\ sold[id] < MaxSold
  /\ sold' = [sold EXCEPT ![id] = @ + 1]
  /\ row' = IF row[id] = NoRow THEN row
            ELSE [row EXCEPT ![id] =
                   [tenant |-> row[id].tenant, sku |-> row[id].sku,
                    active |-> row[id].active, stock |-> row[id].stock - 1]]
  /\ UNCHANGED <<list, shelf, editing, work, calls>>

-----------------------------------------------------------------------------------
(* What a page asks for.                                                    *)
Ask(p) ==
  \/ Show(p)
  \/ \E id \in Ids \cup {NoId} : OpenProductModal(p, id)
  \/ \E sku \in Skus \cup {NoSku} : SaveProduct(p, sku)
  \/ \E sku \in Skus : SeedDemoData(p, sku) \/ Migrate(p, sku)
  \/ \E id \in Ids : ConfirmDelete(p, id) \/ Sell(p, id)
  \/ \E prods \in SUBSET Ids \ {{}} : RenameCat(p, prods)

(* What happens to a call by itself.                                        *)
Proceed(p) ==
  \/ HandlePost(p) \/ HandleSeed(p) \/ HandleMigrate(p) \/ MigrateRowFails(p)
  \/ HandlePut(p) \/ HandleDelete(p) \/ HandlerFails(p)
  \/ \E id \in Ids : RenameNext(p, id)
  \/ RenameDone(p) \/ Reloaded(p)

Next == \E p \in Pages : Ask(p) \/ Proceed(p)

Spec == Init /\ [][Next]_vars

-----------------------------------------------------------------------------------
(* What makes the catalogue correct.                                        *)

(* What a page lists, sells or has in its form are rows of its own tenant   *)
(* or of all of them, however old its list is: no call of another tenant,   *)
(* with the same SKU for one, takes a product away or removes it.          *)
ListsAreOwn ==
  \A p \in Pages, id \in Ids :
    list[p][id] # Unlisted \/ id \in shelf[p] \/ editing[p] = id
      => row[id] # NoRow /\ row[id].tenant \in {TenantOf[p], NoTenant}

(* The stock of a product is what its sales deducted from it, whatever      *)
(* edits, imports and deletions of it, stale ones too, came between them.   *)
StockSurvivesEdits ==
  \A id \in Ids :
    IF row[id] = NoRow THEN sold[id] = 0 ELSE row[id].stock + sold[id] = 0

===================================================================================
