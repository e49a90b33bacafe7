# A verification project for TurboPOS

TurboPOS is a point of sale in Go: a web register talks to a gateway, the
gateway to a few gRPC services, and all of them to one PostgreSQL database. This
directory holds TLA+ models of the parts whose correctness depends on timing,
ordering and failure, the TLC runs that check them on small instances, and
machine-checked proofs of what matters most.

Paths below are relative to the repository; line numbers are those of the
commit the modules were written from.

## 1. The system

| Part | Code | State it keeps | Operations | Talks to |
|---|---|---|---|---|
| Web register | `web/index.html`, `web/sw.js` | cart, `isSyncing`, timers; `sales_queue` in IndexedDB | `confirmSale`, `queueSaleOffline`, `syncOfflineQueue`, listeners, badge | gateway over HTTP |
| Gateway (BFF) | `services/bff/cmd/main.go` | `loginAttempts` in memory; tenants, users, subscriptions, tokens, products, customers in the database | `/cobrar`, `/cancelar`, `/timbrar`, `/products`, `/customers`, `/login`, signup, checkout, webhook, reports, migration | services over gRPC, database directly |
| Sales service | `services/sales/cmd/server/main.go` | `sales`, `sale_items`, `products.stock` | `CreateSale`, `CancelSale`, `GetSale` | database |
| Loyalty service | `services/loyalty/cmd/main.go` | `loyalty_accounts`, `loyalty_transactions` | `GetAccount`, `EarnPoints`, `RedeemPoints`, `GetHistory` | database |
| CFDI service | `services/cfdi/cmd/main.go`, `internal/finkok`, `internal/xmlgen` | `CurrentPAC`, `TotalRequests`, `FailedRequests` | `Timbrar`, `/cancelar`, `auditLoop`, `healthCheckLoop`, `checkFailover` | two PACs (Finkok) over SOAP |
| Auth service | `services/auth` | `ping_log` | `Ping` | database |
| Tools | `services/audit`, `reportbot`, `marketing`, `security`, `scripts` | none of their own | reports, scans, backup | database, outside services |

How they interact: a sale starts in the register (online: a `fetch` of
`/cobrar`; offline: a record in IndexedDB that a later synchronization posts).
The gateway calls `CreateSale` with a deadline of twelve seconds, tags the new
row with its tenant, calls `EarnPoints` (three seconds) when there is a phone,
`Timbrar` (ten seconds) when an invoice is asked for, and answers. The services
share only the database: no message queue, no transaction across services.

What is hard in it, and where the properties aim:

* **Transactions that meet on a row.** Loyalty reads an account, computes new
  values in Go and writes them back as absolute values; only the row lock taken
  by the first statement makes that right.
* **Work without a transaction.** `CreateSale` commits statement by statement;
  a failure or a deadline leaves a partial sale behind, and the caller's error
  says nothing about what was written.
* **Asynchronous page code.** `syncOfflineQueue` tests its guard before an
  `await` and raises the flag after it; answers get lost; pages reload.
* **Background goroutines.** Failure checks, the audit window and the health
  check change the same counters, with the mutex free between their reads and
  their decisions.
* **Arithmetic at the edge.** int32 points, a NUMERIC(10,2) column and floats
  whose sums may miss the cent they mean.
* **Answers read with confidence.** PAC responses without a UUID, rejected
  cancellations, UPDATEs whose error nobody looks at: what is stored and what
  is said drift apart.
* **Old lists.** Pages edit, rename and delete from lists that were read before
  another page changed the catalogue; SKUs are shared by all tenants.
* **Work beside a transaction.** A signup writes two tables in a transaction
  and a third one outside of it; a reset of a password reads, hashes, writes and
  deletes with nothing around it.
* **Two readers of one map.** The login's two limiters forget attempts for each
  other, each under its own key and window.
* **Documents without a name.** An invoice says what was paid, by whom and in
  which second, but not for which sale; two may be identical, and a PAC may answer
  the second one with the UUID of the first.
* **Reports in parts.** A close is read in three statements, one of them through
  the items, while tills insert rows and items, tag and cancel, and dates come from
  two calendars.
* **Screens over one row.** Seven handlers write parts of a customer's contact
  data, each with its own idea of what an empty field means.
* **Amounts rounded apart.** An invoice prints base, tax and total, each rounded
  to the cent on its own, and signs a line in which empty fields have no place.

Correctness, per part: an account's balance is what its ledger says and its
tier what its spend deserves (Loyalty); an "ok" means a complete sale, and the
stock loses what was sold and nothing else (Sales); a shown ticket is never
lost, and synchronization neither blocks itself for ever nor runs twice at once
(register); counters and switches of the failover have their cause, and the
service returns to its primary PAC (CFDI); a sale's UUID is that of a stamp on
its own document, and a cancellation reaches only sales of one document
(invoices); a page's lists
keep to its tenant and edits leave the stock alone (catalogue); a tenant has
exactly one user, an "ok" means an account, and a reset of a password takes no
newer token away and sets nobody else's (accounts); no key is let in too often, and
a refusal answers a key, or a host, that was let in as often as the limit says
(login); no screen loses what another one stored, and a balance is
explained by the history under it (customers); a report shows no sale tagged
for others, misses no own one but among the products, where the code says which are
left out, and a past day's close is final (reports); an
invoice's parts add up, and its seal fits no other (document).

`PROJECT.json` lists every component with its status, every hazard with the
line where it bites and the property that would catch it, and, per definition,
the lines of code it stands for.

## 2. The modules

```
LoyaltyRules <--- LoyaltyAccounts        (atomic purchases and redemptions)
     ^                 ^
     |                 | implements
     +--- Loyalty -----+                 MCLoyalty, LoyaltyProofs

SalesService  <--implements--  Sales     MCSales, SalesProofs
     ^
     | INSTANCE Server
OfflineSync                              MCOfflineSync, OfflineSyncProofs

Reports                                  MCReports, SalesProofs
PacFailover                              MCPacFailover, CfdiProofs
InvoiceXml                               MCInvoiceXml, CfdiProofs
Invoices                                 MCInvoices, InvoicesProofs
Catalog                                  MCCatalog, ShopProofs
Customers                                MCCustomers, ShopProofs
Login                                    MCLogin, AccountsProofs

Subscriptions <--EXTENDS-- PasswordReset MCPasswordReset, AccountsProofs

SumLemmas                                sums over finite sets, for SalesProofs and ShopProofs
```

A module of proofs may be about two components that share no variable; the
specification of the second one then has a name of its own (`SpecReports`,
`SpecXml`, `SpecCustomers`, `SpecLogin`).

A definition marked "Wrong:" just before another one is a plausible bug of the
definition after it. No specification uses it: it exists to show that the
properties would notice.

### Loyalty

`LoyaltyRules` is the arithmetic: points of a purchase (`EarnedPoints`, with
the conversion of an out-of-range float as a choice, since Go leaves it to the
platform), the int32 sum, the rounding of the NUMERIC(10,2) column, tiers, and
the rows of both tables. Money is counted in tenths of a cent because
the totals are floats, sums of the cart's lines that may miss the cent they
mean.

`Loyalty` has one step per SQL statement. A handler is a goroutine serving one
call inside one transaction: `EarnBegin`, `EarnUpsert` (INSERT .. ON CONFLICT,
which takes the row's lock), `EarnUpdate`, `Post` (the ledger row), `Commit`;
`RedeemBegin`, `RedeemRead` (SELECT .. FOR UPDATE), `RedeemNotFound`,
`RedeemInsufficient`, `RedeemUpdate`. `Rollback` is the deferred
`tx.Rollback()`, possible at every statement: errors, deadlines, lost
connections, a crash of the service. `UpsertCustomer` and `DeleteCustomer` are
the gateway's own statements on the same table; the ledger's foreign key
refuses to delete an account with history.

`LoyaltyAccounts` is what callers are promised: purchases and redemptions that
happen one at a time, in unbounded arithmetic. `Loyalty` implements it under
the identity mapping of the committed tables.

### Sales

`Sales` follows a call of `/cobrar`: `Charge`, then `CreateSale` statement by
statement (`InsertSale`, `InsertItem`, `DeductStock` or `SkipStock`, whose
error is only logged), `TagTenant` and the answer. `Fail` is a statement's
error, before or after its row was written. `AnswerError` may strike while
`CreateSale` still runs: that is the gateway's deadline. `CancelSale` is
the conditional UPDATE.

`SalesService` is what a caller may rely on: none, part or all of the sale may
be there, an "ok" comes after all of it, an "error" promises nothing.
`Sales` implements it (`Service`, with `registered` computed from the tables),
and the register is built on it.

### The offline register

`OfflineSync` is one page over `SalesService`; a step is what runs between two
awaits. `confirmSale` is `ConfirmOnline`, `SaleConfirmed`, `SaleNotConfirmed`
(an error, or an answer that never arrived: the cart stays) and
`ConfirmOffline`. `syncOfflineQueue` is `Start` (the guard), `Read` (the list,
and the flag), `Upload`, `UploadAnswered`, `MarkSynced`, `UploadFailed` (the
`catch` with its `break`) and `AllUploaded`. `TimerFires`, `BadgeClicked`,
`GoOnline`, `GoOffline` and `Reload` are what starts or destroys
synchronizations.

### The PAC failover

`PacFailover` takes one step per critical section of the service's mutex:
`Begin`, `Stamped`, `XmlFails` and `PacFails` (Timbrar), `CheckFailover` (its
goroutine), `Audit`, and the health check split where it releases the mutex:
`HealthTick`, `ProbeAnswered`, `PrimaryBack`, `PrimaryDown`. `begun` and
`blamed` are history variables the properties compare the counters with; no
step reads them.

### Invoices

`Invoices` follows the calls of the CFDI service's `Timbrar`: those of the
goroutine that `/cobrar` starts (`AutoTimbrar`), of `/timbrar` (`Timbrar`) and
of the upload of a certificate (`CSDUpload`). The service does not know of its
caller's deadline, so `GiveUp` leaves the call running. A call sends one of
`Documents`; since a document has no sale, folio or item in it, any two calls may
send the same one. `PacStamps` (a UUID of the call's own), `PacRepeats` (the UUID
of an earlier stamp on an identical document: whatever incidencia or status comes
with it, `parseStampResponse` takes a response with a UUID for a success),
`PacAnswersNothing` (a response that is parsed as a success without a UUID) and
`TimbrarFails` are its ends; a document may exist after each of them. `Store`
and `Dismiss` are what the gateway does with them. The document of an upload
belongs to no sale; the pair of certificate and key it was made to verify, and
the table that keeps it, are left out. A cancellation is
`Cancelar`, `PacAnswersCancel` (whatever the PAC's verdict) or
`CancelarFails`, and `StoreCancel`. Which PAC is asked is left to
`PacFailover`: both are read by the same code.

### The catalogue

`Catalog` is the table `products`, and pages with their two lists (`list` is
`allProducts`, `shelf` what the register sells), the form that is open
(`editing`) and the call under way (`work`). `SaveProduct`, `SeedDemoData`,
`ConfirmDelete`, `RenameCat` and `Migrate` send; `HandlePost`, `HandleSeed`,
`HandlePut`, `HandleDelete`, `HandleMigrate`, `MigrateRowFails` and
`RenameNext` (one PUT of the loop) are the gateway's handlers, each of which
may fail (`HandlerFails`) or lose its answer (`AnswerOrLose`); `Reloaded` is
the end of a call. `Sell` is what `CreateSale` does to the stock.

### Signup, subscriptions and the password reset

`Subscriptions` follows `handleSignup` statement by statement: `Check`,
`InsertTenant`, `InsertUser` (which waits for an uncommitted user with the same
address: `Waits`), `InsertSubscription` (outside the transaction, its error
ignored), `Commit` (whose confirmation may be lost) and `Fail`. Then a checkout
by card (`CheckoutCard`; the other ways to pay write nothing), the processor's
notices (`HandleOpenpayWebhook`) and the operator's changes of plan
(`HandleAdminTenantByID`). Prices are left out: they are written together with
the plan.

`PasswordReset` adds `handleForgotPassword` (`FindUser`, `StoreToken` or
`StoreFails`, `MailToken`) and `handleResetPassword` (`CheckToken`,
`SetPassword`, `DeleteToken` or `DeleteFails`) over the users that the signups
commit, and the hour of a token (`Expire`). The statement that makes a token is
answered over a pool of connections and its error is ignored, so `StoreToken` may
store an empty one (`EmptyToken`), even over a good one. A step of one module leaves the
other's variables alone; `AccountsSpec` is their interleaving. `newest` and
`spent` are history variables.

### The login

`Login` has one step per use of the mutex: `CheckRateLimit` (the function),
`SecondLimit` (the handler's own limiter, under another key and with a shorter
window, which shortens the list the first one counts with) and `Authenticate`,
the rest of the handler, which no limiter hears of: right passwords count like wrong
ones. A key is the header `X-Real-IP` if there is one, and it names whom it likes:
`RefusalsHaveCause` therefore promises a caller that only his own requests keep him
out as long as no header speaks for his host. The code's lists of times
are sets of attempts, each with its time and the request it came from: a request
is counted once, and no step asks for the order of a list. `admitted` is
history.

### Customers

`Customers` has an action for each handler that writes contact data, with what
it does about a field it is not given: `HandleCustomersPost`,
`HandleLoyaltyCliente`, `HandleCustomerPut`, `HandleLoyaltyCp`,
`HandleLoyaltyRfc`, `HandleLoyaltyFiscal`, the upsert of a purchase
(`EarnCommit`) and `HandleCustomerDelete`. Purchases and redemptions take
effect at their commit, which `LoyaltyAccounts` justifies, but their row has
the time at which the transaction began. No two transactions begin in one
microsecond, the precision of `created_at`: ties are left out. `ReadAccount`,
`ReadHistory` and `HistoryFails` are a screen's two reads; `ListCustomers` has one.

### Reports

`Reports` has a sale's row (`InsertBegins`, `Insert`, `AddItem`, `Tag` or
`EndUntagged`, `CancelRow`), a clock whose days differ between the server and
Monterrey by `Ahead`, and a report read statement by statement: `Begin` takes
the dates as the handler computes them, `Read` what the next statement selects
(`Sold`, `ProductSales` and `TopProducts`, `Invoices`, `Totals`, `DaysOfTenant`),
`ReadFails` an error, which answers the first statement and leaves a later part
empty. Which sales a statement selects is what is modelled; sums and groups follow
from it. The products are the one part that joins the items and has a LIMIT: a sale
whose row is there before its items, or that CreateSale left without any, is not in
it, nor is one all of whose products others outsell. Which products have the
largest totals is left open, and so is which of the ended sales have a UUID when
the invoices are listed.

### The document of an invoice

`InvoiceXml` is `GenerarXML` (amounts in tenths of a cent, printed in cents;
a value half way between two cents may be printed either way, as its float
lies), `CadenaOriginal` (the line that is signed, read back from the document; `Field`
leaves an empty one out) and `Firmar`. A signature stands for the line it signs. The
line is a sequence of fields here, while the code joins them with "|": that a
field has no "|" in it, as no valid RFC or postal code has, is assumed (the gateway
does not look). Two sales with one receiver, total and second have one document, and
one seal; `SealFitsOneDocument` is about documents.

## 3. The runs

| Run | Question | Distinct states | Answer |
|---|---|---|---|
| `loyalty` | do interleaved transactions keep balance, tier and range, implement `LoyaltyAccounts`, and free every lock? | 140,704 | yes |
| `sales` | what do "ok" and "error" mean, is the stock accounted for, does a settled sale stay, does `Sales` implement `SalesService`? | 48,841 | yes |
| `offline` | is a ticket always backed, is the page never locked by its flag, does every synchronization end? | 220,668 | yes |
| `pac` | are counters, switches and the stale-looking health check right, does the service return to its primary? | 669,658 | yes |
| `invoices` | do rows keep to the documents of their sales, and cancellations to one document; what brings a cancelled invoice back? | 1,634,128 | yes |
| `catalog` | do lists keep to their tenant, SKUs apart, and edits off the stock? | 506,413 | yes |
| `accounts` | are accounts whole, does "ok" mean an account, can every plan be billed, do resets keep apart? | 765,787 | yes |
| `login` | does the limit hold although two limiters share a map, and what has a refusal for its cause? | 1,589,168 | yes |
| `customers` | is nothing known lost, is a shown balance explained by its history? | 307,844 | yes |
| `reports` | no foreign sale, every own one but those the products leave out, a final close? | 5,652,780 | yes |
| `invoice_xml` | do the printed amounts add up, does a seal fit one document? | 8,641 | yes |
| `offline_double_upload` | does the guard keep a second synchronization out? | | no: the finding |

The question answered "no" compares the code with a comment of its own;
`PROJECT.json` quotes the line. A component's safety and liveness are one run,
with no symmetry where there is a liveness property (TLC's symmetry reduction
is not sound for liveness).

### Bounds, and why they are enough

* Loyalty: two handlers (races on a row are between two transactions: a third
  waits for the same lock) on one account (transactions on different accounts
  share nothing). The totals stop half a cent below
  a tier, cross the others by accumulation, and exceed the column, the last one
  the int32 too. `MaxSpent` and `Int32Max` are scaled to 5,500 pesos and 5,500
  points: what matters is that the column is full before the int32 is, which is
  the assumption `Int32MaxAssumption` and true of 10^8 and 2^31. The theorems
  hold for all values.
* Sales: two calls of one product that has less stock than they sell, over
  carts with no line, one line, two lines of one product, and a line whose
  product id is no UUID.
* Register: two sales, two calls (one of each sale, or one sale and its
  repetition), two synchronizations under way together. `MaxTimers` (1, or 2 for
  `offline_double_upload`) bounds the pending timers: a reconnection while that
  many are pending is left out. The proofs hold for any bound.
* Failover: five requests, each made once; `MinRequests` 2 instead of 5 and one
  failure in 3 tolerated instead of one in 20, so that windows that are too
  small, within the tolerance and above it all occur. The proofs hold for the
  code's values.
* Invoices: two sales, two calls of `Timbrar` that send one document or two, and
  two cancellations: two late answers, or a repeated one, and a cancellation of each
  sale between them. The theorems
  hold for any number.
* Catalogue: two products, which is enough for one SKU to be fought over and
  for a rename of two; two pages of two tenants, `MaxCalls` (two)
  calls and `MaxSold` sale of each product. The two pages make each other's lists
  old through the products that belong to every tenant. The theorems hold for any number.
* Accounts: two tenants, two signups with one address or two, that ask for a
  plan that is billed or for one (`chain`) that only the page knows; two calls
  that ask for a token and two that use one, so that a slow reset with an older
  token meets a newer token and its reset, or an empty one, for one user and for two.
* Login: four attempts from two hosts, with or without a header that names
  either; `MaxAttempts` 2 instead of 5, windows of 3 and 1 ticks instead of 15
  and 5 minutes: two attempts fill a list, the others are refused, or come in
  when the first ones are old.
* Customers: one customer (no statement touches two), two tills, one screen,
  four transactions and `HistoryLimit` 2 instead of 20, so that rows drop out
  of the history; a redemption may ask for more than an int32 (three bits here).
* Reports: two tenants, two sales, one report (reports do not write), days of two ticks
  with the server one tick ahead. The clock runs from the tick at which the server's
  day is already the next one (`MinTime`) to the tick at which Monterrey's is too
  (`MaxTime`), so a day is past, present or, for one calendar, still to come. Limits of
  one row, one day and one product (`CloseLimit` and `PeriodLimit`, five and ten in the
  code), over two names of products and at most one product in a sale (`CartLimit`): a
  product falls below the limit when two sales differ. The theorems hold for all
  values.
* Document: two receivers, one of them the PAC's test RFC, the public and an
  empty RFC; two postal codes and none; three dates in two months; totals of
  whole cents, after a discount, and half way between two cents in the base, the tax or
  the total. The theorem about the amounts holds for every total.

A model stops where its calls are used up, so only the runs of Loyalty, the
register, the failover and the catalogue look for deadlocks.

### Fairness

* A handler of Loyalty: its gRPC deadline (three or twelve seconds) cancels a
  statement that waits, and the rollback runs.
* Register: timers fire, code between two awaits runs, a `fetch` ends with an
  answer or an exception, the gateway answers. The cashier is never obliged to
  sell, click or reload, nor is the connection obliged to come back.
* Failover: the ticker ticks and the probe has a timeout of five seconds.

The other modules state no fairness and have no liveness property: that a
handler ends there only says that its context does.

## 4. What is proved

For every value of the constants under the named assumptions of the modules,
listed at the end of this section:

* **`LoyaltyProofs`**. `IInv` is `TypeOK`, `AccountsSound` (balances, tiers and
  spend of all accounts), `ValidRequest` and `NoStaleRow`. The last one is what
  makes it inductive: that an UPDATE is right follows only from the row it was
  computed from being the committed one, which follows from the lock held since
  the read. From it: types (no int32 wraps, no column overflows), balances,
  points within spend, tiers, `StandingNeverDrops`, and the refinement
  `LoyaltyImplementsAccounts` (every step is a step of the atomic accounts or
  leaves the tables alone).
* **`OfflineSyncProofs`**. `IInv` adds to the two properties that a waiting
  till or synchronization waits for a call that carries its sale (`TillCalls`,
  `SyncCalls`), that "ok" means registered (`AnswersAgree`), and that a record
  marked as synced was registered (`SyncedIsRegistered`). From it
  `NoSaleIsLost` and `FlagIsOwned`, for any number of sales, calls and
  overlapping synchronizations.
* **`SalesProofs`**, for `Sales`: `Progress` says, for each place where
  `CreateSale` can stand or have stopped, what is written and what is answered;
  with it `TypeOK` is inductive, and `OkIsComplete` and `SalesSettle` follow.
  `StockAccounted` is an equation between the stock and a sum over calls of
  sums over items: `TakenType` shows the sums finite, `DeductAccounted` that one
  UPDATE adds one term to one of them. `KeepsThePromise` is the refinement:
  under `registered` every statement is a step of `SalesService` or a stutter.
  So what `OfflineSyncProofs` shows of the register over `SalesService` holds
  over what `Sales` does.
* **`SalesProofs`**, for `Reports`: a row only goes forward (`RowGoesOn`: its
  owner and time are fixed from its INSERT on, a tag and a cancellation stay).
  So what a report remembers of its beginning stays true (`BegunOK`), and so
  does what a part was when it was read (`PartOK`): `ReportOutlivesRows`. The
  products name all there are unless the limit is reached (`NothingCut`), and may do
  without a cancelled, an unitemized or an outsold sale (`MayLack`). Together
  they are `ReportsInv`, from which `ForeignSalesStayOut`, `OwnSalesCounted` and
  `PastClosesAreFinal`. The calendars enter in two places: `DayMonotone` (who
  begins after the close of a past day is not of that day) and
  `NamedRangeHoldsToday`, which needs that the server's calendar is ahead of
  Monterrey's by a day at most and that a period reaches back a day at least.
* **`CfdiProofs`**, for `PacFailover`: `IInv` adds `CountedOnce` (a request is
  counted at most once per window, because it is counted where it changes its
  place). From it the counters' meaning, `ProbeIsNotStale`, and
  `SwitchesHaveCause`.
* **`CfdiProofs`**, for `InvoiceXml`: `DocumentIsGenerated` (the document in hand
  is that of its sale) and `AmountsAlwaysAdd`. Integer division by a constant is
  stated by its bounds (`RoundIsNear`), from which the sum of three rounded
  amounts is linear arithmetic (`PrintsAdd`). `SealsFitOneDocument`: the line
  leaves empty fields out, so equal lines need not have equal fields. They have,
  because a document of `GenerarXML` leaves out nothing but the months, and those
  exactly when the receiver is not the public (`DocumentsAreWritten`): the fields
  are taken off the end of the line (`LineTellsFields`), so the receiver is known
  before it matters whether there are months.
* **`InvoicesProofs`**. `IInv` adds to `TypeOK` and `RowsHaveOwnDocument` where
  a UUID comes from: a call carries no UUID but the empty one and that of a stamp on
  the document it sent, and only until it is over (`UuidFits`), is for a sale
  when it will store one (`AskedForSale`), and has nothing stamped before it is made
  (`StampedOnRequest`); what is cancelled has a UUID (`CancelledHasUuid`), so sales
  that share an empty one are never hit together. From it `RowsKeepTheirDocument`,
  `CancellationsHitOneDocument` and `CancelledSalesStay`. What the code does not
  give, one UUID for one sale, follows with one more condition on the documents:
  `DifferentDocumentsKeepSalesApart`, as long as no two calls send an identical one
  (`DocumentsDiffer`), a sale has the UUID of its own call.
* **`ShopProofs`**, for `Catalog`: `IInv` is the type invariant (one product per
  SKU), the two properties, and that a call about one product names it. The
  argument is `RowsStay`: whatever a step other than a sale does to the table, a
  row stays with its tenant and its stock, and a new row has none sold; so a list
  refers to rows that are still its tenant's, however old it is.
* **`ShopProofs`**, for `Customers`: `ContactTypeCorrect`, and `ContactIsKept`,
  one lemma per screen: each writes a row that keeps what was known
  (`ReplacementIsSafe`), or is the deletion. `BalancesAreExplained`: `LedgersInv`
  adds that a balance is the sum of its history, that what a screen has read of
  an account stays in the history, and that times differ
  (`HistoriesAreOrdered`, `TillsAreApart`); with distinct times the newest
  rows are as many as the limit or all there are (`TopHasAll`).
* **`AccountsProofs`**. `IAccounts` adds to the three properties of the accounts
  the life of a row: an open transaction has an uncommitted tenant
  (`OpenHasTenant`) that is nobody else's (`OpenIsAlone`), and from its INSERT of
  the user on holds an address that is free (`AddressIsFree`) and held once
  (`AddressIsHeldOnce`), which is what `Waits` is for. `IResets` follows a token
  from its request (`TokensHaveOwner`) to the reset that spends it
  (`ResetsHaveToken`) and the password it sets (`PasswordsHaveReset`). From them
  all four properties of the run `accounts`.
* **`AccountsProofs`**, for `Login`: `LimiterInv` ties the map to the requests
  both ways: a list has no attempt that was not let in under its key
  (`AttemptsWereAdmitted`), and the requests that lie in the short window, or
  under a key with a port in the long one, are in the list
  (`AdmissionsAreRemembered`), which is all that the second limiter leaves.
  Injections between attempts and requests turn this into the counts
  (`RecentAreCounted`, `CountedAreRecent`). From it `LimitsHold` and
  `RefusalsAreCaused`, whose second half, that a host no header speaks for is kept out
  by its own requests only, is `CountedAreOwn`.
* **`SumLemmas`**: what a sum over a finite set is when the set gains an element
  or the function changes at one point (`SumAdd`, `SumChange`). The fold chooses
  a function by its recursive equation, so there has to be one
  (`SummingExists`). The library's induction theorems take an operator; the
  inductions here are about sets instead: a set of numbers, or of subsets, that
  has what follows from its members has them all (`NatSetInduction`,
  `SubsetInduction`), because what it lacked would have a least member.

So every invariant and every action property of the runs is a theorem. Only
model-checked: the liveness properties `LocksAreReleased`, `SyncsEnd` and
`PrimaryRecovers` (fairness and ENABLED are out of the prover's reach), and
`OneUploadAtATime`, which does not hold.

The assumptions, and the code that justifies them:

* Finite sets of calls (Sales), requests (failover, login): a process has
  served finitely many. Totals are naturals, redemptions int32s; a quantity may
  be any integer, `handleCobrar` does not look at it.
* Values that stand for nothing (`NoUuid`, `NoToken`, `NoTenant`, `None`, an
  empty field) are no value of the data: NULL, or the empty string of Go.
* `Int32MaxAssumption`: 10^8 pesos, the column's limit, are fewer than 2^31
  points. Thresholds, windows and limits are positive literals of the code; the
  short window of the login is the shorter one.
* `TextsAssumption`: dates, their months, RFCs and postal codes are not empty
  strings; a request without an RFC or a postal code is a case of its own.
* The PAC stamps a document under a UUID of its own, and repeats a UUID only for
  an identical document; `parseStampResponse` would take any other for a success,
  too. This is built into `PacStamps` and `PacRepeats`.
* `NamesAssumption`: the products' names are finitely many, since each is in a row
  of `sale_items`. `EmptyToken` is no token of a call.
* `CalendarAssumption`: two calendars differ by a day at most; the shortest named
  period of the reports reaches back six days.

## 5. Findings

Checked by a run, against a comment of the code:

* Two synchronizations can both pass the `isSyncing` guard and upload the same
  sale, which the server registers twice (`web/index.html:4297`).

Seen while modelling, with no run of their own, most of them because no
interleaving is needed to meet them:

* Register: after one failed `fetch` nothing schedules another synchronization,
  although the landing page says that sales synchronize by themselves
  (`web/index.html:4311`, `web/landing.html:1193`); a queued sale loses its discount,
  phone and invoice request (`web/index.html:5513`).
* Invoices: a cancellation the PAC rejects is answered and stored as done
  (`services/cfdi/internal/finkok/client.go:189`).
* Invoices: two sales with one receiver and total in one second have an identical
  document (`services/cfdi/cmd/main.go:123`), any response with a UUID is a success
  (`services/cfdi/internal/finkok/client.go:270`), so they may get one UUID; the
  cancellation of one then marks both (`services/bff/cmd/main.go:1532`), and a second
  stamping of a cancelled sale may bring the cancelled UUID back.
* Catalogue: a product created under a SKU that is taken changes another
  tenant's product, or a deleted one (`services/bff/cmd/main.go:1780`).
* Signup: the trial's row may be missing although the answer says that the
  trial begins (`services/bff/cmd/main.go:454`).
* Password reset: a slow reset with an older token overwrites the password of
  a newer reset; the answer is "ok" even if the UPDATE failed, and the mail
  goes out even if the token was not stored (`services/bff/cmd/main.go:859`, 884);
  the error of the statement that makes the token is ignored, so an empty one may
  take the place of a good one (`services/bff/cmd/main.go:854`).
* Login: the fifteen minutes hold for keys with a port only, and the second
  limiter counts only those attempts whose `X-Real-IP` is the host itself
  (`services/bff/cmd/main.go:2148`); the header is believed whoever sends it, so
  attempts from one host may keep another one out, and attempts with the right
  password count although the comment says failed ones
  (`services/bff/cmd/main.go:38`).
* Tenants: no page sends `X-Tenant-ID` and no route installs `jwtMiddleware`,
  so every page works as the default tenant (`services/bff/cmd/main.go:2230`); the
  assistant reads a claim `tenant_id` where the token has `tid`, so its figures are
  always zero (`services/bff/cmd/main.go:144`, 1984).
* Reports: without a date the close is of the server's day, and the page asks
  for the day of UTC (`services/bff/cmd/main.go:1614`, `web/index.html:7979`); the last
  sales are those of all tenants (`services/bff/cmd/main.go:1590`); a completed sale
  that was left without items is in the methods and the hours of a close but not in
  its products (`services/bff/cmd/main.go:1682`, `services/sales/cmd/server/main.go:48`).
* Customers: a deletion the foreign key refuses is answered "deleted"
  (`services/bff/cmd/main.go:1195`).
* Document: the receiver's name, regime and use that the gateway sends do not
  reach the document (`services/cfdi/cmd/main.go:124`); after a discount its
  parts may miss the total by a cent
  (`services/cfdi/internal/xmlgen/xmlgen.go:159`).
* Loyalty: the tier follows the accumulated spend, not the accumulated points
  of the comments and the start-up log (`services/loyalty/cmd/main.go:114`).
* Register: after a sale was queued, `clearDescuento` calls a function no script
  defines, and the page says that the sale could not be saved
  (`web/index.html:5532`).
* Invoices: a PAC response without a UUID is stored and counted as a stamped
  invoice (`services/cfdi/internal/finkok/client.go:280`); the verification of
  a certificate and its key verifies neither (`services/bff/cmd/main.go:2420`),
  and every invoice is sealed with the service's own
  (`services/cfdi/cmd/main.go:136`).
* Catalogue: an edit or a rename from an old list revives a deleted product
  (`services/bff/cmd/main.go:1827`); edits are announced as creations
  (`web/index.html:6399`); the last product is still sold after its deletion
  (`web/index.html:6456`); imports count the rows of the file
  (`services/bff/cmd/main.go:1475`), and the import of a customer is always
  refused (`services/bff/cmd/main.go:1467`).
* Signup: the plan Cadena becomes the plan starter
  (`services/bff/cmd/main.go:388`); the checkout and the subscription have
  different prices (`services/bff/cmd/main.go:386`, 563); the checkout says
  "active" whatever its UPDATE did (`services/bff/cmd/main.go:574`);
  `startTrialCron` is never called, so trials never end
  (`services/bff/cmd/main.go:80`).

## 6. Not modelled, and the plan

Left out for good: generated code, layout, e-mail, push, the Auth service's
`Ping`, and the stand-alone tools: no state of the system depends on them. Left
out because nothing reaches them: `findOrCreateAccount`, `startTrialCron`,
`_handleOpenpayCheckout_old`, `jwtMiddleware` and `validateJWT`. The tables
`tenants`, `subscriptions`, `tenant_csds` and `password_reset_tokens` are not
in the migrations and are known only from how the gateway uses them: what their
constraints refuse is a failure that is always possible.

The order of the work, the most important behaviour first. Done: the accounts
of Loyalty and their abstract specification; sales and theirs; the offline
register over the abstract sales; the failover; invoices and their document;
the catalogue; signup and password reset; the login; customers; reports. Runs are few
enough to be repeated at every change: a component has one, and what its
documentation says otherwise is listed in section 5. Next:

| Step | Module | What it models | Abstract specification, runs and bounds | Theorems |
|---|---|---|---|---|
| 1 | `Checkout` composition | `Sales`, `Loyalty` and `Invoices` in one call of `/cobrar` | what an answer says of points and invoice | |
| 2 | `OfflineSync`, further | records of their own (double click, several tabs on one queue), the cart's lines, the card payment's flow | how often one sale may be registered; two tabs, two records | `NoSaleLost` for records |
| 3 | `MigrationImport` | `parseMigrationCSV` (columns by header, SKU by name, phones) and the loop over customers | against a reference definition over small files; which rows are dropped | what the chosen columns are |
