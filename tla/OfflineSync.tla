-------------------------------- MODULE OfflineSync --------------------------------
(***************************************************************************)
(* The register's page selling with and without a connection: confirmSale, *)
(* the queue of offline sales in IndexedDB and syncOfflineQueue, over the  *)
(* gateway's POST /cobrar as SalesService describes it.                    *)
(*                                                                         *)
(* The page is single-threaded, but syncOfflineQueue is an async function: *)
(* whenever it awaits, anything else may run, a second call of itself      *)
(* included. A step of the model is what runs between two awaits.          *)
(***************************************************************************)
EXTENDS Integers

CONSTANTS
  Sales,      \* the sales the cashier rings up, in this order or another
  Calls,      \* the calls to POST /cobrar
  Syncs,      \* the calls of syncOfflineQueue that may be under way together
  MaxTimers,  \* bound: the timers that may be pending at once
  None        \* no sale, no call

ASSUME NoneAssumption == None \notin Sales \cup Calls
ASSUME MaxTimersAssumption == MaxTimers \in Nat \ {0}

VARIABLES
  online,      \* navigator.onLine
  till,        \* where each sale is at the register, and the call it waits for
  queue,       \* sales_queue in IndexedDB: the status of the sale's record
  isSyncing,   \* the page's flag
  timers,      \* setTimeout(syncOfflineQueue, ...) that have not fired
  sync,        \* each call of syncOfflineQueue
  order,       \* the sale each call to POST /cobrar carries
  registered,  \* how much of its sale a call has written (SalesService)
  answer       \* what the gateway has answered (SalesService)

page == <<online, till, queue, isSyncing, timers, sync, order>>
vars == <<page, registered, answer>>

Server == INSTANCE SalesService

Till == [at: {"cart", "sending", "ticket"}, call: Calls \cup {None}]

InCart == [at |-> "cart", call |-> None]

Ticket == [at |-> "ticket", call |-> None]

Sync == [at: {"idle", "reading", "loop", "waiting", "marking"}, todo: SUBSET Sales,
         sale: Sales \cup {None}, call: Calls \cup {None}]

Idle == [at |-> "idle", todo |-> {}, sale |-> None, call |-> None]

Reading == [at |-> "reading", todo |-> {}, sale |-> None, call |-> None]

Loop(todo) == [at |-> "loop", todo |-> todo, sale |-> None, call |-> None]

(* The values of the page; among them, that no more timers are pending than *)
(* the connection and the loads account for.                               *)
TypeOK ==
  /\ online \in BOOLEAN
  /\ till \in [Sales -> Till]
  /\ queue \in [Sales -> {"absent", "pending", "synced"}]
  /\ isSyncing \in BOOLEAN
  /\ timers \in 0 .. MaxTimers
  /\ sync \in [Syncs -> Sync]
  /\ order \in [Calls -> Sales \cup {None}]
  /\ Server!TypeOK

(* The page is loaded: initOfflineDB schedules a first synchronization.     *)
Init ==
  /\ online \in BOOLEAN
  /\ till = [s \in Sales |-> InCart]
  /\ queue = [s \in Sales |-> "absent"]
  /\ isSyncing = FALSE
  /\ timers = 1
  /\ sync = [k \in Syncs |-> Idle]
  /\ order = [c \in Calls |-> None]
  /\ Server!Init

Pending == {s \in Sales : queue[s] = "pending"}

(* A fetch that reaches the gateway.                                       *)
Send(c, s) ==
  /\ Server!Call(c)
  /\ order' = [order EXCEPT ![c] = s]

------------------------------------------------------------------------------------
(* confirmSale. There is one cart, and its button is disabled while a sale *)
(* is being sent.                                                          *)

ButtonEnabled == \A s \in Sales : till[s].at # "sending"

ConfirmOnline(s, c) ==
  /\ online
  /\ ButtonEnabled
  /\ till[s].at = "cart"
  /\ Send(c, s)
  /\ till' = [till EXCEPT ![s] = [at |-> "sending", call |-> c]]
  /\ UNCHANGED <<online, queue, isSyncing, timers, sync>>

SaleConfirmed(s) ==
  /\ till[s].at = "sending"
  /\ answer[till[s].call] = "ok"
  /\ till' = [till EXCEPT ![s] = Ticket]
  /\ UNCHANGED <<online, queue, isSyncing, timers, sync, order, registered, answer>>

(* The gateway answers an error, or the connection breaks before its       *)
(* answer arrives: the cart stays, and the cashier may confirm again.      *)
SaleNotConfirmed(s) ==
  /\ till[s].at = "sending"
  /\ till' = [till EXCEPT ![s] = InCart]
  /\ UNCHANGED <<online, queue, isSyncing, timers, sync, order, registered, answer>>

(* The record of an offline sale is queued, and its ticket shown. When      *)
(* IndexedDB refuses the record, everything stays as it was.               *)
ConfirmOffline(s) ==
  /\ ~ online
  /\ ButtonEnabled
  /\ till[s].at = "cart"
  /\ queue' = [queue EXCEPT ![s] = "pending"]
  /\ till' = [till EXCEPT ![s] = Ticket]
  /\ UNCHANGED <<online, isSyncing, timers, sync, order, registered, answer>>

------------------------------------------------------------------------------------
(* What starts a synchronization.                                          *)

GoOffline ==
  /\ online
  /\ online' = FALSE
  /\ UNCHANGED <<till, queue, isSyncing, timers, sync, order, registered, answer>>

GoOnline ==
  /\ ~ online
  /\ timers < MaxTimers
  /\ online' = TRUE
  /\ timers' = timers + 1
  /\ UNCHANGED <<till, queue, isSyncing, sync, order, registered, answer>>

Start(k) ==
  /\ sync[k].at = "idle"
  /\ sync' = [sync EXCEPT ![k] =
       IF isSyncing \/ ~ online THEN Idle ELSE Reading]

TimerFires(k) ==
  /\ timers > 0
  /\ timers' = timers - 1
  /\ Start(k)
  /\ UNCHANGED <<online, till, queue, isSyncing, order, registered, answer>>

(* The badge that counts the pending sales is clicked.                     *)
BadgeClicked(k) ==
  /\ Start(k)
  /\ UNCHANGED <<online, till, queue, isSyncing, timers, order, registered, answer>>

(* A reload loses what only the page knew; a call it was waiting for goes  *)
(* on at the server.                                                       *)
Reload ==
  /\ till' = [s \in Sales |-> IF till[s].at = "sending" THEN InCart ELSE till[s]]
  /\ isSyncing' = FALSE
  /\ timers' = 1
  /\ sync' = [k \in Syncs |-> Idle]
  /\ UNCHANGED <<online, queue, order, registered, answer>>

------------------------------------------------------------------------------------
(* syncOfflineQueue.                                                       *)

(* getPendingSales has answered; the flag is raised only now.              *)
Read(k) ==
  /\ sync[k].at = "reading"
  /\ sync' = [sync EXCEPT ![k] = IF Pending = {} THEN Idle ELSE Loop(Pending)]
  /\ isSyncing' = (isSyncing \/ Pending # {})
  /\ UNCHANGED <<online, till, queue, timers, order, registered, answer>>

Upload(k, s, c) ==
  /\ sync[k].at = "loop"
  /\ s \in sync[k].todo
  /\ Send(c, s)
  /\ sync' = [sync EXCEPT ![k] = [at |-> "waiting", todo |-> sync[k].todo \ {s},
                                  sale |-> s, call |-> c]]
  /\ UNCHANGED <<online, till, queue, isSyncing, timers>>

(* Wrong: any answer counts as success.                                    *)
UploadAnsweredAtAll(k) ==
  /\ sync[k].at = "waiting"
  /\ answer[sync[k].call] \in {"ok", "error"}
  /\ sync' = [sync EXCEPT ![k] = [at |-> "marking", todo |-> sync[k].todo,
                                  sale |-> sync[k].sale, call |-> sync[k].call]]
  /\ UNCHANGED <<online, till, queue, isSyncing, timers, order, registered, answer>>

(* An answer that is not ok leaves the record pending; the loop goes on.   *)
UploadAnswered(k) ==
  /\ sync[k].at = "waiting"
  /\ \/ /\ answer[sync[k].call] = "ok"
        /\ sync' = [sync EXCEPT ![k] = [at |-> "marking", todo |-> sync[k].todo,
                                   sale |-> sync[k].sale, call |-> sync[k].call]]
     \/ /\ answer[sync[k].call] = "error"
        /\ sync' = [sync EXCEPT ![k] = Loop(sync[k].todo)]
  /\ UNCHANGED <<online, till, queue, isSyncing, timers, order, registered, answer>>

MarkSynced(k) ==
  /\ sync[k].at = "marking"
  /\ queue' = [queue EXCEPT ![sync[k].sale] = "synced"]
  /\ sync' = [sync EXCEPT ![k] = Loop(sync[k].todo)]
  /\ UNCHANGED <<online, till, isSyncing, timers, order, registered, answer>>

End(k) ==
  /\ isSyncing' = FALSE
  /\ sync' = [sync EXCEPT ![k] = Idle]
  /\ UNCHANGED <<online, till, queue, timers, order, registered, answer>>

(* Wrong: return in the catch instead of break.                            *)
UploadFailedReturn(k) ==
  /\ \/ sync[k].at = "loop" /\ sync[k].todo # {}
     \/ sync[k].at = "waiting"
  /\ sync' = [sync EXCEPT ![k] = Idle]
  /\ UNCHANGED <<online, till, queue, isSyncing, timers, order, registered, answer>>

(* The fetch throws, before the request got through or after: break.       *)
UploadFailed(k) ==
  /\ \/ sync[k].at = "loop" /\ sync[k].todo # {}
     \/ sync[k].at = "waiting"
  /\ End(k)

(* Wrong: the loop starts over until there is nothing left.                *)
AllUploadedAgain(k) ==
  /\ sync[k].at = "loop"
  /\ sync[k].todo = {}
  /\ sync' = [sync EXCEPT ![k] = Loop(Pending)]
  /\ UNCHANGED <<online, till, queue, isSyncing, timers, order, registered, answer>>

AllUploaded(k) ==
  /\ sync[k].at = "loop"
  /\ sync[k].todo = {}
  /\ End(k)

------------------------------------------------------------------------------------
ServerStep(c) == Server!Serve(c) /\ UNCHANGED page

Confirm(s) ==
  \/ \E c \in Calls : ConfirmOnline(s, c)
  \/ SaleConfirmed(s)
  \/ SaleNotConfirmed(s)
  \/ ConfirmOffline(s)

SyncStep(k) ==
  \/ Read(k)
  \/ \E s \in Sales, c \in Calls : Upload(k, s, c)
  \/ UploadAnswered(k)
  \/ MarkSynced(k)
  \/ UploadFailed(k)
  \/ AllUploaded(k)

Next ==
  \/ \E s \in Sales : Confirm(s)
  \/ GoOffline
  \/ GoOnline
  \/ \E k \in Syncs : TimerFires(k) \/ BadgeClicked(k) \/ SyncStep(k)
  \/ Reload
  \/ \E c \in Calls : ServerStep(c)

Spec == Init /\ [][Next]_vars

(* Timers fire, the steps between two awaits run, a fetch ends (with an    *)
(* answer or with an exception) and the gateway answers. Nobody has to     *)
(* sell, click or reload, and the connection may stay as it is.            *)
FairSpec ==
  /\ Spec
  /\ WF_vars(\E k \in Syncs : TimerFires(k))
  /\ \A k \in Syncs : WF_vars(SyncStep(k))
  /\ \A c \in Calls : WF_vars(ServerStep(c))

------------------------------------------------------------------------------------
(* What makes the register correct.                                        *)

Registered(s) ==
  \E c \in Calls : order[c] = s /\ registered[c] = "complete"

(* A sale whose ticket was shown is complete in the database or waits in   *)
(* the queue, through lost answers, reloads and overlapping                *)
(* synchronizations.                                                       *)
NoSaleLost ==
  \A s \in Sales :
    till[s].at = "ticket" => Registered(s) \/ queue[s] = "pending"

(* The flag is up only while a synchronization runs that will take it      *)
(* down: it can never lock the page out of synchronizing.                  *)
FlagHasOwner ==
  isSyncing => \E k \in Syncs : sync[k].at \in {"loop", "waiting", "marking"}

(* Every synchronization ends.                                             *)
SyncsEnd == \A k \in Syncs : sync[k].at # "idle" ~> sync[k].at = "idle"

(* What the guard of syncOfflineQueue is there for: no two                 *)
(* synchronizations upload the same sale at the same time.                 *)
OneUploadAtATime ==
  \A k, m \in Syncs :
    sync[k].at = "waiting" /\ sync[m].at = "waiting" /\ sync[k].sale = sync[m].sale
      => k = m

====================================================================================
