-------------------------------- MODULE Customers --------------------------------
(***************************************************************************)
(* The gateway's customer screens over the loyalty tables: who may write   *)
(* which part of a customer's contact data, and what a screen shows of an  *)
(* account that a till is using.                                           *)
(*                                                                         *)
(* A purchase and a redemption are transactions that take effect at their  *)
(* commit (module LoyaltyAccounts); here they matter for the row they add  *)
(* to the history, whose created_at is the time the transaction began; no  *)
(* two are taken to begin in one microsecond. A screen reads the account   *)
(* and then, in another statement, its history.                            *)
(***************************************************************************)
EXTENDS Integers, FiniteSets, Functions

CONSTANTS
  Phones,
  Tills,        \* the calls of EarnPoints and RedeemPoints
  Readers,      \* the calls of GET /loyalty, /customers and /customers/{id}
  Values,       \* what a field of the contact data may hold
  Earned,       \* the points of a purchase
  Asked,        \* the points a redemption asks for, an int64
  Int32Max,
  HistoryLimit, \* twenty rows
  MaxPostings   \* bound: transactions that begin

ASSUME LimitAssumption == HistoryLimit \in Nat \ {0}
ASSUME PointsAssumption == Int32Max \in Nat /\ Earned \subseteq Nat /\ Asked \subseteq Int

\* An empty string or NULL, and a string of blanks.
Empty == "empty"
Blank == "blank"

ASSUME ValuesAssumption == Empty \notin Values

Fields == {"name", "rfc", "email", "cp", "regimen", "nombre"}

\* uso_cfdi is left out: one screen writes it, and nothing reads it.
NoContact == [f \in Fields |-> Empty]

\* What a request may say of some fields; the others it does not carry.
Given(fields) ==
  {g \in [Fields -> Values \cup {Empty}] : \A f \in Fields \ fields : g[f] = Empty}

VARIABLES
  exists,   \* the phone has a row in loyalty_accounts
  contact,  \* its contact data
  points,   \* its balance
  history,  \* loyalty_transactions, by phone
  clock,    \* the next created_at
  till,     \* the transaction of each till
  screen    \* what each reader has read

customerVars == <<exists, contact, points, history, clock, till, screen>>

Idle == [op |-> "idle"]

Screen(step, p) ==
  [step |-> step, phone |-> p, points |-> points[p], known |-> history[p]]

(* What the contact data may hold.                                         *)
ContactTypeOK ==
  /\ exists \in [Phones -> BOOLEAN]
  /\ contact \in [Phones -> [Fields -> Values \cup {Empty}]]

InitCustomers ==
  /\ exists = [p \in Phones |-> FALSE]
  /\ contact = [p \in Phones |-> NoContact]
  /\ points = [p \in Phones |-> 0]
  /\ history = [p \in Phones |-> {}]
  /\ clock = 0
  /\ till = [t \in Tills |-> Idle]
  /\ screen = [r \in Readers |-> [step |-> "idle"]]

-----------------------------------------------------------------------------------
(* The contact data.                                                       *)

(* CASE WHEN $2 != '' and COALESCE(NULLIF($1,''), name): nothing said,      *)
(* nothing changed.                                                        *)
Keep(given, old) == [f \in Fields |-> IF given[f] = Empty THEN old[f] ELSE given[f]]

(* Wrong: the row takes whatever the request says.                         *)
UpsertOverwrites(p, given) ==
  /\ exists' = [exists EXCEPT ![p] = TRUE]
  /\ contact' = [contact EXCEPT ![p] = given]

(* INSERT ... ON CONFLICT (phone) DO UPDATE. What is not there is empty.   *)
UpsertContact(p, given) ==
  /\ exists' = [exists EXCEPT ![p] = TRUE]
  /\ contact' = [contact EXCEPT ![p] = Keep(given, contact[p])]

Ledgers == <<points, history, clock, till, screen>>

HandleCustomersPost(p) ==
  /\ \E given \in Given({"name", "rfc", "email"}) :
       given["name"] # Empty /\ UpsertContact(p, given)
  /\ UNCHANGED Ledgers

(* The name is stored twice, as the customer's and as the taxpayer's.      *)
HandleLoyaltyCliente(p) ==
  /\ \E given \in Given({"name", "rfc", "email", "cp", "regimen"}) :
       UpsertContact(p, [given EXCEPT !["nombre"] = given["name"]])
  /\ UNCHANGED Ledgers

(* Wrong: a plain SET of the three columns.                                *)
HandleCustomerPutOverwrites(p) ==
  /\ exists[p]
  /\ \E given \in Given({"name", "rfc", "email"}) :
       contact' = [contact EXCEPT ![p] =
         [f \in Fields |-> IF f \in {"name", "rfc", "email"} THEN given[f] ELSE contact[p][f]]]
  /\ UNCHANGED <<exists, Ledgers>>

HandleCustomerPut(p) ==
  /\ exists[p]
  /\ \E given \in Given({"name", "rfc", "email"}) :
       contact' = [contact EXCEPT ![p] = Keep(given, contact[p])]
  /\ UNCHANGED <<exists, Ledgers>>

HandleLoyaltyCp(p) ==
  /\ exists[p]
  /\ \E cp \in Values : contact' = [contact EXCEPT ![p]["cp"] = cp]
  /\ UNCHANGED <<exists, Ledgers>>

(* strings.TrimSpace comes after the check for an empty RFC.               *)
HandleLoyaltyRfc(p) ==
  /\ exists[p]
  /\ \E rfc \in Values \cup {Blank} :
       contact' = [contact EXCEPT ![p]["rfc"] = IF rfc = Blank THEN Empty ELSE rfc]
  /\ UNCHANGED <<exists, Ledgers>>

(* This screen alone writes both of its fields whatever they say.          *)
HandleLoyaltyFiscal(p) ==
  /\ exists[p]
  /\ \E given \in Given({"regimen", "nombre"}) :
       contact' = [contact EXCEPT ![p]["regimen"] = given["regimen"],
                                  ![p]["nombre"] = given["nombre"]]
  /\ UNCHANGED <<exists, Ledgers>>

(* The foreign key of the history refuses the DELETE of an account that    *)
(* has one; the answer says "deleted" either way.                          *)
HandleCustomerDelete(p) ==
  /\ exists[p]
  /\ history[p] = {}
  /\ exists' = [exists EXCEPT ![p] = FALSE]
  /\ contact' = [contact EXCEPT ![p] = NoContact]
  /\ points' = [points EXCEPT ![p] = 0]
  /\ UNCHANGED <<history, clock, till, screen>>

-----------------------------------------------------------------------------------
(* Tills. The deferred rollback of a transaction that ends otherwise       *)
(* leaves nothing.                                                         *)

(* int32(req.Points): the low 32 bits of what the gateway was asked.       *)
ToInt32(n) == ((n + Int32Max + 1) % (2 * (Int32Max + 1))) - (Int32Max + 1)

Begin(t, op, p, n) ==
  /\ till[t] = Idle
  /\ clock < MaxPostings
  /\ clock' = clock + 1
  /\ till' = [till EXCEPT ![t] = [op |-> op, phone |-> p, at |-> clock, points |-> n]]
  /\ UNCHANGED <<exists, contact, points, history, screen>>

EarnBegin(t, p) == \E n \in Earned : Begin(t, "earn", p, n)

RedeemBegin(t, p) == \E n \in Asked : ToInt32(n) > 0 /\ Begin(t, "redeem", p, ToInt32(n))

Post(t, n) ==
  LET p == till[t].phone IN
  /\ points' = [points EXCEPT ![p] = points[p] + n]
  /\ history' = [history EXCEPT ![p] = @ \cup {[at |-> till[t].at, points |-> n]}]
  /\ till' = [till EXCEPT ![t] = Idle]
  /\ UNCHANGED <<clock, screen>>

(* The upsert of EarnPoints keeps a name the request does not give.        *)
EarnCommit(t) ==
  /\ till[t].op = "earn"
  /\ \E given \in Given({"name"}) : UpsertContact(till[t].phone, given)
  /\ Post(t, till[t].points)

RedeemCommit(t) ==
  /\ till[t].op = "redeem"
  /\ exists[till[t].phone]
  /\ points[till[t].phone] >= till[t].points
  /\ Post(t, 0 - till[t].points)
  /\ UNCHANGED <<exists, contact>>

Rollback(t) ==
  /\ till[t] # Idle
  /\ till' = [till EXCEPT ![t] = Idle]
  /\ UNCHANGED <<exists, contact, points, history, clock, screen>>

-----------------------------------------------------------------------------------
(* Screens.                                                                *)

(* GetAccount, or the first SELECT of GET /customers/{id}.                  *)
ReadAccount(r, p) ==
  /\ screen[r].step = "idle"
  /\ exists[p]
  /\ screen' = [screen EXCEPT ![r] = Screen("account", p)]
  /\ UNCHANGED <<exists, contact, points, history, clock, till>>

(* Wrong: ORDER BY created_at without DESC.                                *)
Oldest(rows) == {x \in rows : Cardinality({y \in rows : y.at < x.at}) < HistoryLimit}

(* ORDER BY created_at DESC LIMIT 20.                                      *)
Newest(rows) == {x \in rows : Cardinality({y \in rows : y.at > x.at}) < HistoryLimit}

(* Wrong: the history is read first, so the account may know more.         *)
ReadAccountLast(r) ==
  /\ screen[r].step = "account"
  /\ screen' = [screen EXCEPT ![r] =
       [step |-> "shown", phone |-> screen[r].phone, points |-> points[screen[r].phone],
        known |-> history[screen[r].phone], rows |-> Newest(screen[r].known)]]
  /\ UNCHANGED <<exists, contact, points, history, clock, till>>

(* GetHistory, or the second SELECT: the rows of the account, found by its *)
(* phone or by its id. An account that has rows is never deleted, so both   *)
(* find the same. What the balance is made of, `known`, is for the property. *)
ReadHistory(r) ==
  LET p == screen[r].phone IN
  /\ screen[r].step = "account"
  /\ screen' = [screen EXCEPT ![r] =
       [step |-> "shown", phone |-> p, points |-> screen[r].points,
        known |-> screen[r].known, rows |-> Newest(history[p])]]
  /\ UNCHANGED <<exists, contact, points, history, clock, till>>

(* The error of the second read is dropped: the balance is shown without   *)
(* any history.                                                            *)
HistoryFails(r) ==
  /\ screen[r].step = "account"
  /\ screen' = [screen EXCEPT ![r].step = "bare"]
  /\ UNCHANGED <<exists, contact, points, history, clock, till>>

(* GET /customers: every account in one statement, without its history.     *)
(* The model follows one of them.                                          *)
ListCustomers(r, p) ==
  /\ screen[r].step = "idle"
  /\ exists[p]
  /\ screen' = [screen EXCEPT ![r] = Screen("bare", p)]
  /\ UNCHANGED <<exists, contact, points, history, clock, till>>

NextCustomers ==
  \/ \E p \in Phones :
       \/ HandleCustomersPost(p)
       \/ HandleLoyaltyCliente(p)
       \/ HandleCustomerPut(p)
       \/ HandleLoyaltyCp(p)
       \/ HandleLoyaltyRfc(p)
       \/ HandleLoyaltyFiscal(p)
       \/ HandleCustomerDelete(p)
       \/ \E t \in Tills : EarnBegin(t, p) \/ RedeemBegin(t, p)
       \/ \E r \in Readers : ReadAccount(r, p) \/ ListCustomers(r, p)
  \/ \E t \in Tills : EarnCommit(t) \/ RedeemCommit(t) \/ Rollback(t)
  \/ \E r \in Readers : ReadHistory(r) \/ HistoryFails(r)

SpecCustomers == InitCustomers /\ [][NextCustomers]_customerVars

-----------------------------------------------------------------------------------
(* What is known of a customer is not lost by a request that does not      *)
(* mention it, whichever screen or till wrote it and whichever writes now: *)
(* only the deletion of the customer clears a name, an address or a postal *)
(* code. (An RFC of blanks clears the RFC, and the fiscal screen its two   *)
(* fields.)                                                                *)
NothingKnownIsLost ==
  [][\A p \in Phones : exists'[p] =>
       \A f \in {"name", "email", "cp"} : contact[p][f] # Empty => contact'[p][f] # Empty]_customerVars

(* What the rows of a history add up to.                                   *)
PointsOf(rows) == SumFunctionOnSet([x \in rows |-> x.points], rows)

(* A screen's balance is explained by the rows under it, whatever the tills *)
(* did between the two reads: the rows that made up the balance are shown, *)
(* as far as they are among the newest, and what is not shown is older.     *)
HistoryExplainsBalance ==
  \A r \in Readers : screen[r].step = "shown" =>
    /\ screen[r].points = PointsOf(screen[r].known)
    /\ \A x \in screen[r].known :
         \/ x \in screen[r].rows
         \/ /\ Cardinality(screen[r].rows) = HistoryLimit
            /\ \A y \in screen[r].rows : y.at > x.at

===================================================================================
