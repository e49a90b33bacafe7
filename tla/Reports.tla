--------------------------------- MODULE Reports ---------------------------------
(***************************************************************************)
(* What the gateway's reports say of the sales: the daily close (GET       *)
(* /corte), the reports of a period, the list of invoices, the             *)
(* administrator's figures, the dashboard's last sales and the assistant's *)
(* figures, each read in one or more statements with no transaction around *)
(* them, while tills go on selling.                                        *)
(*                                                                         *)
(* A sale's row comes from CreateSale without a tenant; handleCobrar tags  *)
(* it with another statement, whose error it ignores. A report therefore   *)
(* also shows the rows that have no tenant. CreateSale commits the items    *)
(* after the row, one by one, and leaves the row if one of them fails: a   *)
(* report that goes through the items may not see the sale.                *)
(***************************************************************************)
EXTENDS Integers, Sequences, FiniteSets

CONSTANTS
  Tenants,
  Sales,
  Names,        \* the names that items have
  Reports,      \* the calls to the report endpoints
  DayLength,    \* the ticks of a day
  Ahead,        \* how far the server's calendar is ahead of Monterrey's
  Back,         \* how many days a named period reaches back
  CloseLimit,   \* the close's five products
  PeriodLimit,  \* a period's ten products
  NewestLimit,  \* the dashboard's fifteen rows
  InvoiceLimit, \* the list of invoices' five hundred rows
  DayLimit,     \* the thirty days of one tenant's figures
  CartLimit,    \* bound: the products of a sale
  MinTime,      \* bound: the first tick
  MaxTime       \* bound: the last tick

ASSUME CalendarAssumption ==
  /\ DayLength \in Nat \ {0}
  /\ Ahead \in 0 .. DayLength
  /\ Back \in Nat \ {0}
  /\ MinTime \in Nat

ASSUME NamesAssumption ==
  /\ IsFiniteSet(Names)
  /\ CloseLimit \in Nat /\ PeriodLimit \in Nat

Untagged == "untagged"

VARIABLES
  clock,
  row,    \* the rows, and how far POST /cobrar is with them
  report  \* what each report has read

reportVars == <<clock, row, report>>

RowOf(step, owner, at) ==
  [step |-> step, owner |-> owner, tag |-> Untagged, at |-> at,
   status |-> "completed", items |-> {}]

NoSale == RowOf("none", Untagged, 0)

Idle == [kind |-> "idle", seen |-> <<>>]
Failed == [kind |-> "error", seen |-> <<>>]

\* DATE(created_at AT TIME ZONE 'America/Monterrey'), and time.Now()'s day.
Day(t) == t \div DayLength
ServerDay == (clock + Ahead) \div DayLength

Rows == {s \in Sales : row[s].step \in {"open", "ended"}}

(* The statements of each report, in their order.                          *)
Statements(kind) ==
  CASE kind = "corte"     -> <<"methods", "hours", "products">>
    [] kind = "period"    -> <<"days", "products", "methods">>
    [] kind = "cfdi"      -> <<"invoices">>
    [] kind = "admin"     -> <<"totals">>
    [] kind = "tenant"    -> <<"daily">>
    [] kind = "logs"      -> <<"newest">>
    [] kind = "assistant" -> <<"today", "week">>

Kinds == {"corte", "period", "cfdi", "admin", "tenant", "logs", "assistant"}

InitReports ==
  /\ clock = MinTime
  /\ row = [s \in Sales |-> NoSale]
  /\ report = [r \in Reports |-> Idle]

Tick ==
  /\ clock < MaxTime
  /\ clock' = clock + 1
  /\ UNCHANGED <<row, report>>

-----------------------------------------------------------------------------------
(* The rows.                                                               *)

(* CreateSale's INSERT begins: that is the row's created_at. The owner is  *)
(* the tenant of the request, the header's or the default one.             *)
InsertBegins(s) ==
  /\ row[s].step = "none"
  /\ \E t \in Tenants :
       row' = [row EXCEPT ![s] = RowOf("inserting", t, clock)]
  /\ UNCHANGED <<clock, report>>

(* Wrong: created_at is when the register queued the sale.                 *)
InsertAtQueuedTime(s) ==
  /\ row[s].step = "inserting"
  /\ row' = [row EXCEPT ![s].step = "open", ![s].at = 0]
  /\ UNCHANGED <<clock, report>>

Insert(s) ==
  /\ row[s].step = "inserting"
  /\ row' = [row EXCEPT ![s].step = "open"]
  /\ UNCHANGED <<clock, report>>

InsertFails(s) ==
  /\ row[s].step = "inserting"
  /\ row' = [row EXCEPT ![s] = RowOf("refused", Untagged, 0)]
  /\ UNCHANGED <<clock, report>>

(* INSERT INTO sale_items: another product of the cart, before CreateSale   *)
(* answers, or after the gateway has given up. A cart may also be empty.    *)
AddItem(s) ==
  /\ s \in Rows
  /\ row[s].tag = Untagged
  /\ Cardinality(row[s].items) < CartLimit
  /\ \E p \in Names \ row[s].items :
       row' = [row EXCEPT ![s].items = row[s].items \cup {p}]
  /\ UNCHANGED <<clock, report>>

(* CreateSale has answered: UPDATE sales SET tenant_id.                     *)
Tag(s) ==
  /\ row[s].step = "open"
  /\ row' = [row EXCEPT ![s].step = "ended", ![s].tag = row[s].owner]
  /\ UNCHANGED <<clock, report>>

(* CreateSale fails at an item or answers too late, or the UPDATE fails:    *)
(* the row stays, and never has a tenant.                                  *)
EndUntagged(s) ==
  /\ row[s].step = "open"
  /\ row' = [row EXCEPT ![s].step = "ended"]
  /\ UNCHANGED <<clock, report>>

CancelRow(s) ==
  /\ s \in Rows
  /\ row[s].status # "cancelled"
  /\ row' = [row EXCEPT ![s].status = "cancelled"]
  /\ UNCHANGED <<clock, report>>

-----------------------------------------------------------------------------------
(* The reports.                                                            *)

(* The days a request asks for: a day, by default the server's; a period   *)
(* that ends on the server's day; or one between any two dates, the later  *)
(* one last (else nothing is selected). The other reports have no dates.   *)
Ranges(kind) ==
  CASE kind = "corte" -> {[from |-> d, to |-> d, named |-> FALSE] : d \in 0 .. ServerDay}
    [] kind \in {"period", "cfdi"} ->
         {[from |-> ServerDay - Back, to |-> ServerDay, named |-> TRUE]} \cup
         UNION {{[from |-> d, to |-> e, named |-> FALSE] : e \in d .. ServerDay} :
                  d \in 0 .. ServerDay}
    [] OTHER -> {[from |-> 0, to |-> ServerDay, named |-> FALSE]}

(* `known`, `rows`, `itemized` and `tagged` are for the properties: which    *)
(* sales had begun, had a row, an item, their tenant when the report began; *)
(* and `day`, when that was.                                               *)
Begin(r) ==
  /\ report[r] = Idle
  /\ \E kind \in Kinds, t \in Tenants : \E range \in Ranges(kind) :
       report' = [report EXCEPT ![r] =
         [kind |-> kind, tenant |-> t, range |-> range, seen |-> <<>>, day |-> Day(clock),
          known |-> {s \in Sales : row[s].step \notin {"none", "refused"}},
          rows |-> Rows, itemized |-> {s \in Sales : row[s].items # {}},
          tagged |-> {s \in Sales : row[s].tag # Untagged}]]
  /\ UNCHANGED <<clock, row>>

(* The first rows of ORDER BY created_at DESC LIMIT n; rows of one time    *)
(* come in any order.                                                      *)
Newest(rows, n) ==
  {top \in SUBSET rows :
     /\ Cardinality(top) = (IF Cardinality(rows) < n THEN Cardinality(rows) ELSE n)
     /\ \A s \in top, u \in rows \ top : row[s].at >= row[u].at}

InRange(s, range) == Day(row[s].at) \in range.from .. range.to

(* Wrong: tenant_id = $2.                                                  *)
MineStrictly(s, t) == row[s].tag = t

(* tenant_id = $2 OR tenant_id IS NULL.                                    *)
Mine(s, t) == row[s].tag \in {t, Untagged}

(* By day, by hour and by method of payment.                               *)
Sold(rep) == {s \in Rows : InRange(s, rep.range) /\ Mine(s, rep.tenant)}

(* Wrong: the join with the items forgets the tenant.                      *)
ProductSalesOfAll(rep) ==
  {s \in Rows : /\ InRange(s, rep.range)
                /\ row[s].status = "completed" /\ row[s].items # {}}

(* JOIN sale_items, of the sales that are not cancelled.                   *)
ProductSales(rep) ==
  {s \in Sold(rep) : row[s].status = "completed" /\ row[s].items # {}}

ProductLimit(kind) == IF kind = "corte" THEN CloseLimit ELSE PeriodLimit

(* GROUP BY name ORDER BY total DESC LIMIT: which products have the largest *)
(* totals is left open.                                                    *)
TopProducts(rep) ==
  LET names == UNION {row[s].items : s \in ProductSales(rep)}
      limit == ProductLimit(rep.kind) IN
  {top \in SUBSET names :
     Cardinality(top) = (IF Cardinality(names) < limit THEN Cardinality(names) ELSE limit)}

(* Of the rows that have a UUID. Which have one by now is left open.        *)
Invoices(rep) ==
  UNION {Newest(stamped, InvoiceLimit) :
           stamped \in SUBSET {s \in Sold(rep) : row[s].step = "ended"}}

(* The administrator's figures leave out what is not tagged.               *)
Totals(t) == {s \in Rows : row[s].tag = t}

DaysOfTenant(t) ==
  {s \in Totals(t) :
     Cardinality({Day(row[u].at) : u \in Totals(t)} \ 0 .. Day(row[s].at)) < DayLimit}

Listed(choices) == {[ok |-> TRUE, full |-> FALSE, sales |-> sales] : sales \in choices}

(* What a statement may return: the sales behind what it lists, and whether *)
(* a LIMIT on the products is reached.                                     *)
Select(name, rep) ==
  CASE name = "products" ->
         {[ok |-> TRUE, full |-> Cardinality(top) = ProductLimit(rep.kind),
           sales |-> {s \in ProductSales(rep) : row[s].items \cap top # {}}] :
            top \in TopProducts(rep)}
    [] name = "invoices" -> Listed(Invoices(rep))
    [] name = "newest"   -> Listed(Newest(Rows, NewestLimit))
    [] name = "totals"   -> Listed({Totals(rep.tenant)})
    [] name = "daily"    -> Listed({DaysOfTenant(rep.tenant)})
    [] OTHER             -> Listed({Sold(rep)})

Nothing == [ok |-> FALSE, full |-> FALSE, sales |-> {}]

Reads(r, part) == report' = [report EXCEPT ![r].seen = Append(@, part)]

NextStatement(r) == Statements(report[r].kind)[Len(report[r].seen) + 1]

Running(r) ==
  /\ report[r].kind \in Kinds
  /\ Len(report[r].seen) < Len(Statements(report[r].kind))

Read(r) ==
  /\ Running(r)
  /\ report[r].kind # "assistant"
  /\ \E part \in Select(NextStatement(r), report[r]) : Reads(r, part)
  /\ UNCHANGED <<clock, row>>

(* An error of a report's first statement is its answer; of a later one,   *)
(* or of the figures of one tenant, an empty part.                         *)
ReadFails(r) ==
  /\ Running(r)
  /\ report[r].kind # "assistant"
  /\ IF report[r].seen = <<>> /\ report[r].kind # "tenant"
       THEN report' = [report EXCEPT ![r] = Failed]
       ELSE Reads(r, Nothing)
  /\ UNCHANGED <<clock, row>>

(* The assistant takes the tenant from a claim, tenant_id, that            *)
(* generateJWT does not write: its statements never succeed.                *)
AskAssistant(r) ==
  /\ Running(r)
  /\ report[r].kind = "assistant"
  /\ Reads(r, Nothing)
  /\ UNCHANGED <<clock, row>>

NextReports ==
  \/ Tick
  \/ \E s \in Sales :
       \/ InsertBegins(s) \/ Insert(s) \/ InsertFails(s)
       \/ AddItem(s) \/ Tag(s) \/ EndUntagged(s)
       \/ CancelRow(s)
  \/ \E r \in Reports : Begin(r) \/ Read(r) \/ ReadFails(r) \/ AskAssistant(r)

SpecReports == InitReports /\ [][NextReports]_reportVars

-----------------------------------------------------------------------------------
Dated == {"corte", "period", "cfdi"}

(* The parts of a report that did not fail.                                *)
Parts(r) == {i \in DOMAIN report[r].seen : report[r].seen[i].ok}

(* A sale that had its tenant's tag when a report began is in no part of   *)
(* another tenant's report: what a close shows of others are sales that    *)
(* were still to be tagged, or never are.                                  *)
NoForeignSales ==
  \A r \in Reports : report[r].kind \in Dated \cup {"admin", "tenant"} =>
    \A i \in Parts(r) : \A s \in report[r].seen[i].sales :
      s \in report[r].tagged => row[s].tag = report[r].tenant

(* The products leave out a sale that is cancelled, one that had no item    *)
(* when the report began (none yet, or none at all, since CreateSale       *)
(* failed), and one whose products others outsell.                         *)
LeftOut(r, i, s) ==
  /\ Statements(report[r].kind)[i] = "products"
  /\ \/ row[s].status = "cancelled"
     \/ s \notin report[r].itemized
     \/ report[r].seen[i].full

(* A sale whose row is there when a report of its day begins is in every   *)
(* part of its own tenant's report, whether or not the tag was, or ever    *)
(* is, written; and among the products unless it is left out there. The    *)
(* day of a sale just made belongs to every named period, although the     *)
(* period ends on the server's day and the sales are dated in Monterrey.   *)
OwnSalesAreCounted ==
  \A r \in Reports : report[r].kind \in {"corte", "period"} =>
    \A i \in Parts(r), s \in report[r].rows :
      /\ row[s].owner = report[r].tenant
      /\ \/ InRange(s, report[r].range)
         \/ report[r].range.named /\ Day(row[s].at) = report[r].day
      => s \in report[r].seen[i].sales \/ LeftOut(r, i, s)

(* The close of a day that is over is final although it is read in three    *)
(* statements: each lists only sales whose INSERT began before the close   *)
(* did, and a part lacks a sale of the tenant that another one has only if *)
(* the sale was still being inserted, or is left out of the products.       *)
PastCloseIsFinal ==
  \A r \in Reports :
    report[r].kind = "corte" /\ report[r].range.to < report[r].day =>
      \A i, j \in Parts(r) :
        /\ report[r].seen[i].sales \subseteq report[r].known
        /\ \A s \in report[r].seen[i].sales \ report[r].seen[j].sales :
             \/ row[s].owner # report[r].tenant
             \/ s \notin report[r].rows
             \/ LeftOut(r, j, s)

===================================================================================
