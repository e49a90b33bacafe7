----------------------------- MODULE OfflineSyncProofs -----------------------------
(***************************************************************************)
(* NoSaleLost and FlagHasOwner hold for any number of sales, calls and     *)
(* overlapping synchronizations. NoSaleLost is not inductive: a ticket     *)
(* that replaces a queued record is backed by the "ok" the page heard, so  *)
(* the invariant follows each call from the fetch that made it to the mark *)
(* that relies on its answer.                                              *)
(***************************************************************************)
EXTENDS OfflineSync, TLAPS

(* A synchronization that has called the server, or has its answer.        *)
Waiting == {"waiting", "marking"}

(* What a call has written agrees with its answer.                         *)
AnswersAgree ==
  \A c \in Calls :
    /\ answer[c] = "uncalled" => registered[c] = "none"
    /\ answer[c] = "ok" => registered[c] = "complete"

(* The call a sale or a synchronization waits for carries that sale.       *)
TillCalls ==
  \A s \in Sales :
    till[s].at = "sending" =>
      /\ till[s].call \in Calls
      /\ answer[till[s].call] # "uncalled"
      /\ order[till[s].call] = s

(* The call a synchronization waits for carries the sale it reads.         *)
SyncCalls ==
  \A k \in Syncs :
    sync[k].at \in Waiting =>
      /\ sync[k].sale \in Sales
      /\ sync[k].call \in Calls
      /\ answer[sync[k].call] # "uncalled"
      /\ order[sync[k].call] = sync[k].sale
      /\ sync[k].at = "marking" => answer[sync[k].call] = "ok"

(* A sale that is marked synced is in the database.                        *)
SyncedIsRegistered ==
  \A s \in Sales : queue[s] = "synced" => Registered(s)

(* The inductive invariant of Spec.                                        *)
IInv ==
  /\ TypeOK
  /\ AnswersAgree
  /\ TillCalls
  /\ SyncCalls
  /\ SyncedIsRegistered
  /\ NoSaleLost
  /\ FlagHasOwner

------------------------------------------------------------------------------------
(* The steps of the server and the page that touch the calls.              *)

(* What was registered, answered or ordered for a call under way stays.    *)
CallsGoOn ==
  \A c \in Calls :
    /\ registered[c] = "complete" => registered'[c] = "complete"
    /\ answer[c] # "uncalled" => answer'[c] # "uncalled" /\ order'[c] = order[c]
    /\ answer[c] = "ok" => answer'[c] = "ok"

(* Whatever keeps the calls going keeps the registered sales registered.   *)
LEMMA RegisteredStays ==
  ASSUME IInv, CallsGoOn, NEW s \in Sales, Registered(s)
  PROVE  Registered(s)'
<1>1. PICK c \in Calls : order[c] = s /\ registered[c] = "complete"
  BY DEF Registered
<1>2. answer[c] # "uncalled"
  BY <1>1 DEF IInv, AnswersAgree
<1>3. order'[c] = s /\ registered'[c] = "complete"
  BY <1>1, <1>2 DEF CallsGoOn
<1> QED
  BY <1>3 DEF Registered

(* The initial state satisfies the inductive invariant: there are neither  *)
(* tickets nor calls.                                                      *)
LEMMA InitIInv == Init => IInv
<1> SUFFICES ASSUME Init PROVE IInv
  OBVIOUS
<1>1. TypeOK
  <2>1. Server!TypeOK
    BY DEF Init, Server!Init, Server!TypeOK
  <2>2. till \in [Sales -> Till] /\ queue \in [Sales -> {"absent", "pending", "synced"}]
    BY DEF Init, Till, InCart
  <2>3. sync \in [Syncs -> Sync]
    BY DEF Init, Sync, Idle
  <2>4. order \in [Calls -> Sales \cup {None}]
    BY DEF Init
  <2>5. online \in BOOLEAN /\ isSyncing \in BOOLEAN
    BY Zenon DEF Init
  <2>6. timers \in 0 .. MaxTimers
    BY MaxTimersAssumption DEF Init
  <2> QED
    BY <2>1, <2>2, <2>3, <2>4, <2>5, <2>6 DEF TypeOK
<1>2. AnswersAgree
  BY DEF Init, AnswersAgree, Server!Init
<1>3. TillCalls /\ NoSaleLost
  BY DEF Init, TillCalls, NoSaleLost, InCart
<1>4. SyncCalls /\ SyncedIsRegistered /\ FlagHasOwner
  BY DEF Init, SyncCalls, SyncedIsRegistered, FlagHasOwner, Idle, Waiting
<1> QED
  BY <1>1, <1>2, <1>3, <1>4 DEF IInv

(* Sending a fetch starts a fresh call and leaves the others alone.        *)
LEMMA SendKeepsCalls ==
  ASSUME IInv, NEW c \in Calls, NEW s \in Sales, Send(c, s)
  PROVE  /\ CallsGoOn
         /\ AnswersAgree'
         /\ Server!TypeOK'
         /\ order' \in [Calls -> Sales \cup {None}]
         /\ answer'[c] = "pending" /\ order'[c] = s
<1>1. answer[c] = "uncalled" /\ UNCHANGED registered
  BY DEF Send, Server!Call
<1>2. answer' = [answer EXCEPT ![c] = "pending"]
  BY DEF Send, Server!Call
<1>3. order' = [order EXCEPT ![c] = s]
  BY DEF Send
<1>4. Server!TypeOK /\ order \in [Calls -> Sales \cup {None}]
  BY DEF IInv, TypeOK
<1>5. CallsGoOn
  BY <1>1, <1>2, <1>3, <1>4 DEF CallsGoOn, Server!TypeOK
<1>6. AnswersAgree'
  BY <1>1, <1>2, <1>4 DEF IInv, AnswersAgree, Server!TypeOK
<1>7. Server!TypeOK' /\ order' \in [Calls -> Sales \cup {None}]
  BY <1>1, <1>2, <1>3, <1>4 DEF Server!TypeOK
<1>8. answer'[c] = "pending" /\ order'[c] = s
  BY <1>2, <1>3, <1>4 DEF Server!TypeOK
<1> QED
  BY <1>5, <1>6, <1>7, <1>8

(* A step of the server writes more or answers once, and "ok" only after   *)
(* everything is written.                                                  *)
LEMMA ServeKeepsCalls ==
  ASSUME IInv, NEW c \in Calls, ServerStep(c)
  PROVE  /\ CallsGoOn
         /\ AnswersAgree'
         /\ Server!TypeOK'
<1>1. UNCHANGED order /\ Server!TypeOK /\ AnswersAgree
  BY DEF ServerStep, page, IInv, TypeOK
<1>2. CASE Server!Write(c)
  <2>1. PICK more \in {"partial", "complete"} :
          registered' = [registered EXCEPT ![c] = more]
    BY <1>2 DEF Server!Write
  <2>2. registered[c] # "complete" /\ UNCHANGED answer
        /\ answer[c] \in {"pending", "error"}
    BY <1>2 DEF Server!Write
  <2> QED
    BY <1>1, <2>1, <2>2 DEF CallsGoOn, AnswersAgree, Server!TypeOK
<1>3. CASE Server!AnswerOk(c)
  BY <1>1, <1>3 DEF Server!AnswerOk, CallsGoOn, AnswersAgree, Server!TypeOK
<1>4. CASE Server!AnswerError(c)
  BY <1>1, <1>4 DEF Server!AnswerError, CallsGoOn, AnswersAgree, Server!TypeOK
<1> QED
  BY <1>2, <1>3, <1>4 DEF ServerStep, Server!Serve

(* A step of the page alone leaves the calls as they are.                  *)
LEMMA QuietKeepsCalls ==
  ASSUME IInv, UNCHANGED <<order, registered, answer>>
  PROVE  /\ CallsGoOn
         /\ AnswersAgree'
         /\ Server!TypeOK'
         /\ order' \in [Calls -> Sales \cup {None}]
<1>1. CallsGoOn
  BY DEF CallsGoOn
<1>2. AnswersAgree'
  BY DEF IInv, AnswersAgree
<1>3. Server!TypeOK' /\ order' \in [Calls -> Sales \cup {None}]
  BY DEF IInv, TypeOK, Server!TypeOK
<1> QED
  BY <1>1, <1>2, <1>3

------------------------------------------------------------------------------------
(* What a step keeps of the part it does not touch.                        *)

(* Sales that do not move at the register keep their call and their        *)
(* backing.                                                                *)
LEMMA TillStays ==
  ASSUME IInv, CallsGoOn, UNCHANGED till
  PROVE  TillCalls'
<1>1. TillCalls
  BY DEF IInv
<1> QED
  BY <1>1 DEF TillCalls, CallsGoOn

(* Nor does a synced record lose the call that backs it.                   *)
LEMMA QueueStays ==
  ASSUME IInv, CallsGoOn, UNCHANGED queue
  PROVE  SyncedIsRegistered'
<1> SUFFICES ASSUME NEW s \in Sales, queue'[s] = "synced" PROVE Registered(s)'
  BY DEF SyncedIsRegistered
<1>1. Registered(s)
  BY DEF IInv, SyncedIsRegistered
<1> QED
  BY <1>1, RegisteredStays

(* Tickets that were shown keep their backing when no new one is shown.    *)
LEMMA TicketsStay ==
  ASSUME IInv, CallsGoOn, UNCHANGED queue,
         \A s \in Sales : till'[s].at = "ticket" => till[s].at = "ticket"
  PROVE  NoSaleLost'
<1> SUFFICES ASSUME NEW s \in Sales, till'[s].at = "ticket"
             PROVE  Registered(s)' \/ queue'[s] = "pending"
  BY DEF NoSaleLost
<1>1. Registered(s) \/ queue[s] = "pending"
  BY DEF IInv, NoSaleLost
<1> QED
  BY <1>1, RegisteredStays

(* The synchronizations under way keep their calls and the flag its owner. *)
LEMMA SyncStays ==
  ASSUME IInv, CallsGoOn, UNCHANGED <<sync, isSyncing>>
  PROVE  SyncCalls' /\ FlagHasOwner'
<1>1. SyncCalls /\ FlagHasOwner
  BY DEF IInv
<1>2. SyncCalls'
  BY <1>1 DEF SyncCalls, CallsGoOn
<1> QED
  BY <1>1, <1>2 DEF FlagHasOwner

------------------------------------------------------------------------------------
(* confirmSale.                                                            *)

(* Confirming online sends one call, and its sale waits for it.            *)
LEMMA ConfirmOnlineIInv ==
  ASSUME IInv, NEW s \in Sales, NEW c \in Calls, ConfirmOnline(s, c)
  PROVE  IInv'
<1>1. Send(c, s)
  BY DEF ConfirmOnline
<1>2. UNCHANGED <<online, queue, isSyncing, timers, sync>>
      /\ till' = [till EXCEPT ![s] = [at |-> "sending", call |-> c]]
  BY DEF ConfirmOnline
<1>3. /\ CallsGoOn /\ AnswersAgree' /\ Server!TypeOK' /\ order' \in [Calls -> Sales \cup {None}]
      /\ answer'[c] = "pending" /\ order'[c] = s
  BY <1>1, SendKeepsCalls
<1>4. TypeOK /\ TillCalls
  BY DEF IInv
<1>5. till' \in [Sales -> Till]
  BY <1>2, <1>4 DEF TypeOK, Till
<1>6. TypeOK'
  BY <1>2, <1>3, <1>4, <1>5 DEF TypeOK
<1>7. TillCalls'
  BY <1>2, <1>3, <1>4 DEF TillCalls, TypeOK, Till, CallsGoOn
<1>8. \A t \in Sales : till'[t].at = "ticket" => till[t].at = "ticket"
  BY <1>2, <1>4 DEF TypeOK, Till
<1> QED
  BY <1>2, <1>3, <1>6, <1>7, <1>8, QueueStays, TicketsStay, SyncStays DEF IInv

(* An "ok" the register hears backs the ticket it shows.                   *)
LEMMA SaleConfirmedIInv ==
  ASSUME IInv, NEW s \in Sales, SaleConfirmed(s)
  PROVE  IInv'
<1>1. UNCHANGED <<online, queue, isSyncing, timers, sync, order, registered, answer>>
      /\ till' = [till EXCEPT ![s] = Ticket]
  BY DEF SaleConfirmed
<1>2. TypeOK /\ TillCalls /\ AnswersAgree
  BY DEF IInv
<1>3. CallsGoOn /\ AnswersAgree' /\ Server!TypeOK' /\ order' \in [Calls -> Sales \cup {None}]
  BY <1>1, QuietKeepsCalls
<1>4. till' \in [Sales -> Till]
  BY <1>1, <1>2 DEF TypeOK, Till, Ticket
<1>5. TypeOK'
  BY <1>1, <1>2, <1>3, <1>4 DEF TypeOK
<1>6. TillCalls'
  BY <1>1, <1>2 DEF TillCalls, TypeOK, Till, Ticket
<1>7. Registered(s)
  BY <1>2 DEF SaleConfirmed, TillCalls, AnswersAgree, Registered
<1>8. NoSaleLost'
  <2> SUFFICES ASSUME NEW t \in Sales, till'[t].at = "ticket"
               PROVE  Registered(t)' \/ queue'[t] = "pending"
    BY DEF NoSaleLost
  <2>1. Registered(t) \/ queue[t] = "pending"
    BY <1>1, <1>2, <1>7 DEF IInv, NoSaleLost, TypeOK, Till
  <2> QED
    BY <1>1, <1>3, <2>1, RegisteredStays
<1> QED
  BY <1>1, <1>3, <1>5, <1>6, <1>8, QueueStays, SyncStays DEF IInv

(* A sale that is not confirmed goes back to the cart.                     *)
LEMMA SaleNotConfirmedIInv ==
  ASSUME IInv, NEW s \in Sales, SaleNotConfirmed(s)
  PROVE  IInv'
<1>1. UNCHANGED <<online, queue, isSyncing, timers, sync, order, registered, answer>>
      /\ till' = [till EXCEPT ![s] = InCart]
  BY DEF SaleNotConfirmed
<1>2. TypeOK /\ TillCalls
  BY DEF IInv
<1>3. CallsGoOn /\ AnswersAgree' /\ Server!TypeOK' /\ order' \in [Calls -> Sales \cup {None}]
  BY <1>1, QuietKeepsCalls
<1>4. till' \in [Sales -> Till]
  BY <1>1, <1>2 DEF TypeOK, Till, InCart
<1>5. TypeOK'
  BY <1>1, <1>2, <1>3, <1>4 DEF TypeOK
<1>6. TillCalls'
  BY <1>1, <1>2 DEF TillCalls, TypeOK, Till, InCart
<1>7. \A t \in Sales : till'[t].at = "ticket" => till[t].at = "ticket"
  BY <1>1, <1>2 DEF TypeOK, Till, InCart
<1> QED
  BY <1>1, <1>3, <1>5, <1>6, <1>7, QueueStays, TicketsStay, SyncStays DEF IInv

(* An offline ticket is backed by the record just queued; its sale was in  *)
(* the cart, so no synced record is put back to pending for a sale that    *)
(* relies on it.                                                           *)
LEMMA ConfirmOfflineIInv ==
  ASSUME IInv, NEW s \in Sales, ConfirmOffline(s)
  PROVE  IInv'
<1>1. UNCHANGED <<online, isSyncing, timers, sync, order, registered, answer>>
      /\ till' = [till EXCEPT ![s] = Ticket]
      /\ queue' = [queue EXCEPT ![s] = "pending"]
  BY DEF ConfirmOffline
<1>2. TypeOK /\ TillCalls
  BY DEF IInv
<1>3. CallsGoOn /\ AnswersAgree' /\ Server!TypeOK' /\ order' \in [Calls -> Sales \cup {None}]
  BY <1>1, QuietKeepsCalls
<1>4. till' \in [Sales -> Till]
  BY <1>1, <1>2 DEF TypeOK, Till, Ticket
<1>5. TypeOK'
  BY <1>1, <1>2, <1>3, <1>4 DEF TypeOK
<1>6. TillCalls'
  BY <1>1, <1>2 DEF TillCalls, TypeOK, Till, Ticket
<1>7. NoSaleLost'
  <2> SUFFICES ASSUME NEW t \in Sales, till'[t].at = "ticket"
               PROVE  Registered(t)' \/ queue'[t] = "pending"
    BY DEF NoSaleLost
  <2>1. CASE t = s
    BY <1>1, <1>2, <2>1 DEF TypeOK
  <2>2. CASE t # s
    <3>1. Registered(t) \/ queue[t] = "pending"
      BY <1>1, <1>2, <2>2 DEF IInv, NoSaleLost, TypeOK
    <3> QED
      BY <1>1, <1>2, <1>3, <2>2, <3>1, RegisteredStays DEF TypeOK
  <2> QED
    BY <2>1, <2>2
<1>8. SyncedIsRegistered'
  <2> SUFFICES ASSUME NEW t \in Sales, queue'[t] = "synced" PROVE Registered(t)'
    BY DEF SyncedIsRegistered
  <2>1. Registered(t)
    BY <1>1, <1>2 DEF IInv, SyncedIsRegistered, TypeOK
  <2> QED
    BY <1>3, <2>1, RegisteredStays
<1> QED
  BY <1>1, <1>3, <1>5, <1>6, <1>7, <1>8, SyncStays DEF IInv

------------------------------------------------------------------------------------
(* The connection, the triggers and the reload.                            *)

(* Steps that leave the sales, the queue and the calls alone keep the      *)
(* invariant as far as those go.                                           *)
LEMMA PageKeeps ==
  ASSUME IInv, UNCHANGED <<till, queue, order, registered, answer>>,
         online' \in BOOLEAN, isSyncing' \in BOOLEAN, timers' \in 0 .. MaxTimers,
         sync' \in [Syncs -> Sync], SyncCalls', FlagHasOwner'
  PROVE  IInv'
<1>1. CallsGoOn /\ AnswersAgree' /\ Server!TypeOK' /\ order' \in [Calls -> Sales \cup {None}]
  BY QuietKeepsCalls
<1>2. TypeOK'
  BY <1>1 DEF IInv, TypeOK
<1>3. TillCalls' /\ SyncedIsRegistered' /\ NoSaleLost'
  BY <1>1, TillStays, QueueStays, TicketsStay
<1> QED
  BY <1>1, <1>2, <1>3 DEF IInv

(* The connection comes and goes without a synchronization being touched.  *)
LEMMA ConnectionIInv ==
  ASSUME IInv, GoOffline \/ GoOnline
  PROVE  IInv'
<1>1. UNCHANGED <<till, queue, isSyncing, sync, order, registered, answer>>
  BY DEF GoOffline, GoOnline
<1>2. online' \in BOOLEAN
  BY Zenon DEF GoOffline, GoOnline
<1>3. timers' \in 0 .. MaxTimers
  BY MaxTimersAssumption DEF IInv, TypeOK, GoOffline, GoOnline
<1>4. isSyncing' \in BOOLEAN /\ sync' \in [Syncs -> Sync]
  BY <1>1 DEF IInv, TypeOK
<1>5. SyncCalls' /\ FlagHasOwner'
  BY <1>1, QuietKeepsCalls, SyncStays
<1> QED
  BY <1>1, <1>2, <1>3, <1>4, <1>5, PageKeeps

(* A synchronization that starts owns nothing yet.                         *)
LEMMA StartIInv ==
  ASSUME IInv, NEW k \in Syncs, TimerFires(k) \/ BadgeClicked(k)
  PROVE  IInv'
<1>1. UNCHANGED <<online, till, queue, isSyncing, order, registered, answer>>
  BY DEF TimerFires, BadgeClicked
<1>2. PICK new \in {Idle, Reading} : sync' = [sync EXCEPT ![k] = new]
  BY DEF TimerFires, BadgeClicked, Start
<1>3. sync[k].at = "idle"
  BY DEF TimerFires, BadgeClicked, Start
<1>4. TypeOK /\ SyncCalls /\ FlagHasOwner
  BY DEF IInv
<1>5. timers' \in 0 .. MaxTimers
  BY <1>4, MaxTimersAssumption DEF TypeOK, TimerFires, BadgeClicked
<1>6. sync' \in [Syncs -> Sync]
  BY <1>2, <1>4 DEF TypeOK, Sync, Idle, Reading
<1>7. SyncCalls'
  BY <1>1, <1>2, <1>4 DEF SyncCalls, Waiting, Idle, Reading, TypeOK
<1>8. FlagHasOwner'
  BY <1>1, <1>2, <1>3, <1>4 DEF FlagHasOwner, TypeOK
<1>9. online' \in BOOLEAN /\ isSyncing' \in BOOLEAN
  BY <1>1, <1>4 DEF TypeOK
<1> QED
  BY <1>1, <1>5, <1>6, <1>7, <1>8, <1>9, PageKeeps

(* After a reload the page waits for nothing; the tickets and the queue    *)
(* are as they were.                                                       *)
LEMMA ReloadIInv ==
  ASSUME IInv, Reload
  PROVE  IInv'
<1>1. UNCHANGED <<online, queue, order, registered, answer>>
      /\ till' = [s \in Sales |-> IF till[s].at = "sending" THEN InCart ELSE till[s]]
      /\ timers' = 1
      /\ sync' = [k \in Syncs |-> Idle]
  BY DEF Reload
<1>2. ~ isSyncing' /\ isSyncing' \in BOOLEAN
  BY Zenon DEF Reload
<1>3. TypeOK
  BY DEF IInv
<1>4. CallsGoOn /\ AnswersAgree' /\ Server!TypeOK' /\ order' \in [Calls -> Sales \cup {None}]
  BY <1>1, QuietKeepsCalls
<1>5. till' \in [Sales -> Till] /\ TillCalls'
  BY <1>1, <1>3 DEF TypeOK, Till, InCart, TillCalls
<1>6. sync' \in [Syncs -> Sync] /\ SyncCalls'
  BY <1>1 DEF Sync, Idle, SyncCalls, Waiting
<1>7. timers' \in 0 .. MaxTimers
  BY <1>1, MaxTimersAssumption
<1>8. TypeOK'
  BY <1>1, <1>2, <1>3, <1>4, <1>5, <1>6, <1>7 DEF TypeOK
<1>9. \A s \in Sales : till'[s].at = "ticket" => till[s].at = "ticket"
  BY <1>1 DEF InCart
<1>10. FlagHasOwner'
  BY <1>2 DEF FlagHasOwner
<1> QED
  BY <1>1, <1>4, <1>5, <1>6, <1>8, <1>9, <1>10, QueueStays, TicketsStay DEF IInv

------------------------------------------------------------------------------------
(* syncOfflineQueue.                                                       *)

(* A synchronization enters its loop only by raising the flag; one that    *)
(* finds nothing pending ends.                                             *)
LEMMA ReadIInv ==
  ASSUME IInv, NEW k \in Syncs, Read(k)
  PROVE  IInv'
<1>1. UNCHANGED <<online, till, queue, timers, order, registered, answer>>
      /\ sync[k].at = "reading"
      /\ sync' = [sync EXCEPT ![k] = IF Pending = {} THEN Idle ELSE Loop(Pending)]
      /\ isSyncing' = (isSyncing \/ Pending # {})
  BY Zenon DEF Read
<1>2. TypeOK /\ SyncCalls /\ FlagHasOwner
  BY DEF IInv
<1>3. isSyncing' \in BOOLEAN
  BY <1>1
<1>4. Pending \subseteq Sales
  BY DEF Pending
<1>5. sync' \in [Syncs -> Sync]
  BY <1>1, <1>2, <1>4 DEF TypeOK, Sync, Idle, Loop
<1>6. SyncCalls'
  BY <1>1, <1>2 DEF SyncCalls, Waiting, Idle, Loop, TypeOK
<1>7. FlagHasOwner'
  <2>1. CASE Pending = {}
    <3>1. isSyncing' => isSyncing
      BY <1>1, <2>1
    <3> QED
      BY <1>1, <1>2, <3>1 DEF FlagHasOwner, TypeOK
  <2>2. CASE Pending # {}
    BY <1>1, <1>2, <2>2 DEF FlagHasOwner, TypeOK, Loop
  <2> QED
    BY <2>1, <2>2
<1>8. online' \in BOOLEAN /\ timers' \in 0 .. MaxTimers
  BY <1>1, <1>2 DEF TypeOK
<1> QED
  BY <1>1, <1>3, <1>5, <1>6, <1>7, <1>8, PageKeeps

(* An upload waits for a call that carries the sale it uploads.            *)
LEMMA UploadIInv ==
  ASSUME IInv, NEW k \in Syncs, NEW s \in Sales, NEW c \in Calls, Upload(k, s, c)
  PROVE  IInv'
<1>1. Send(c, s)
  BY DEF Upload
<1>2. UNCHANGED <<online, till, queue, isSyncing, timers>>
      /\ sync[k].at = "loop"
      /\ sync' = [sync EXCEPT ![k] = [at |-> "waiting", todo |-> sync[k].todo \ {s},
                                     sale |-> s, call |-> c]]
  BY DEF Upload
<1>3. /\ CallsGoOn /\ AnswersAgree' /\ Server!TypeOK' /\ order' \in [Calls -> Sales \cup {None}]
      /\ answer'[c] = "pending" /\ order'[c] = s
  BY <1>1, SendKeepsCalls
<1>4. TypeOK /\ SyncCalls /\ FlagHasOwner
  BY DEF IInv
<1>5. sync' \in [Syncs -> Sync]
  BY <1>2, <1>4 DEF TypeOK, Sync
<1>6. TypeOK'
  BY <1>2, <1>3, <1>4, <1>5 DEF TypeOK
<1>7. SyncCalls'
  <2> SUFFICES ASSUME NEW m \in Syncs, sync'[m].at \in Waiting
               PROVE  /\ sync'[m].sale \in Sales
                      /\ sync'[m].call \in Calls
                      /\ answer'[sync'[m].call] # "uncalled"
                      /\ order'[sync'[m].call] = sync'[m].sale
                      /\ sync'[m].at = "marking" => answer'[sync'[m].call] = "ok"
    BY DEF SyncCalls
  <2>1. CASE m = k
    BY <1>2, <1>3, <1>4, <2>1 DEF TypeOK
  <2>2. CASE m # k
    BY <1>2, <1>3, <1>4, <2>2 DEF TypeOK, SyncCalls, CallsGoOn
  <2> QED
    BY <2>1, <2>2
<1>8. FlagHasOwner'
  BY <1>2, <1>4 DEF FlagHasOwner, TypeOK
<1> QED
  BY <1>2, <1>3, <1>6, <1>7, <1>8, TillStays, QueueStays, TicketsStay DEF IInv

(* Only an "ok" takes an upload to its mark.                               *)
LEMMA UploadAnsweredIInv ==
  ASSUME IInv, NEW k \in Syncs, UploadAnswered(k)
  PROVE  IInv'
<1>1. UNCHANGED <<online, till, queue, isSyncing, timers, order, registered, answer>>
      /\ sync[k].at = "waiting"
  BY DEF UploadAnswered
<1>2. TypeOK /\ SyncCalls /\ FlagHasOwner
  BY DEF IInv
<1> DEFINE mark == [at |-> "marking", todo |-> sync[k].todo,
                    sale |-> sync[k].sale, call |-> sync[k].call]
<1>3. \/ answer[sync[k].call] = "ok" /\ sync' = [sync EXCEPT ![k] = mark]
      \/ sync' = [sync EXCEPT ![k] = Loop(sync[k].todo)]
  BY DEF UploadAnswered
<1>4. sync' \in [Syncs -> Sync]
  BY <1>2, <1>3 DEF TypeOK, Sync, Loop
<1>5. SyncCalls'
  BY <1>1, <1>2, <1>3 DEF SyncCalls, Waiting, Loop, TypeOK
<1>6. FlagHasOwner'
  BY <1>1, <1>2, <1>3 DEF FlagHasOwner, Loop, TypeOK
<1>7. online' \in BOOLEAN /\ isSyncing' \in BOOLEAN /\ timers' \in 0 .. MaxTimers
  BY <1>1, <1>2 DEF TypeOK
<1> QED
  BY <1>1, <1>4, <1>5, <1>6, <1>7, PageKeeps

(* The mark is backed by the call that was answered "ok": the record may   *)
(* leave the pending ones.                                                 *)
LEMMA MarkSyncedIInv ==
  ASSUME IInv, NEW k \in Syncs, MarkSynced(k)
  PROVE  IInv'
<1> DEFINE s == sync[k].sale
<1>1. UNCHANGED <<online, till, isSyncing, timers, order, registered, answer>>
      /\ sync[k].at = "marking"
      /\ queue' = [queue EXCEPT ![s] = "synced"]
      /\ sync' = [sync EXCEPT ![k] = Loop(sync[k].todo)]
  BY DEF MarkSynced
<1>2. TypeOK /\ SyncCalls /\ FlagHasOwner /\ AnswersAgree
  BY DEF IInv
<1>3. CallsGoOn /\ AnswersAgree' /\ Server!TypeOK' /\ order' \in [Calls -> Sales \cup {None}]
  BY <1>1, QuietKeepsCalls
<1>4. s \in Sales /\ Registered(s)
  BY <1>1, <1>2 DEF SyncCalls, Waiting, AnswersAgree, Registered
<1>5. queue' \in [Sales -> {"absent", "pending", "synced"}]
  BY <1>1, <1>2 DEF TypeOK
<1>6. sync' \in [Syncs -> Sync]
  BY <1>1, <1>2 DEF TypeOK, Sync, Loop
<1>7. TypeOK'
  BY <1>1, <1>2, <1>3, <1>5, <1>6 DEF TypeOK
<1>8. SyncCalls' /\ FlagHasOwner'
  BY <1>1, <1>2 DEF SyncCalls, FlagHasOwner, Waiting, Loop, TypeOK
<1>9. SyncedIsRegistered'
  <2> SUFFICES ASSUME NEW t \in Sales, queue'[t] = "synced" PROVE Registered(t)'
    BY DEF SyncedIsRegistered
  <2>1. Registered(t)
    BY <1>1, <1>2, <1>4 DEF IInv, SyncedIsRegistered, TypeOK
  <2> QED
    BY <1>3, <2>1, RegisteredStays
<1>10. NoSaleLost'
  <2> SUFFICES ASSUME NEW t \in Sales, till'[t].at = "ticket"
               PROVE  Registered(t)' \/ queue'[t] = "pending"
    BY DEF NoSaleLost
  <2>1. Registered(t) \/ queue[t] = "pending"
    BY <1>1 DEF IInv, NoSaleLost
  <2>2. Registered(t) \/ queue'[t] = "pending"
    BY <1>1, <1>2, <1>4, <2>1 DEF TypeOK
  <2> QED
    BY <1>3, <2>2, RegisteredStays
<1> QED
  BY <1>1, <1>3, <1>7, <1>8, <1>9, <1>10, TillStays DEF IInv

(* A synchronization that ends takes the flag down.                        *)
LEMMA EndIInv ==
  ASSUME IInv, NEW k \in Syncs, UploadFailed(k) \/ AllUploaded(k)
  PROVE  IInv'
<1>1. UNCHANGED <<online, till, queue, timers, order, registered, answer>>
      /\ sync' = [sync EXCEPT ![k] = Idle]
  BY DEF UploadFailed, AllUploaded, End
<1>2. ~ isSyncing' /\ isSyncing' \in BOOLEAN
  BY Zenon DEF UploadFailed, AllUploaded, End
<1>3. TypeOK /\ SyncCalls
  BY DEF IInv
<1>4. sync' \in [Syncs -> Sync]
  BY <1>1, <1>3 DEF TypeOK, Sync, Idle
<1>5. SyncCalls'
  BY <1>1, <1>3 DEF SyncCalls, Waiting, Idle, TypeOK
<1>6. FlagHasOwner'
  BY <1>2 DEF FlagHasOwner
<1>7. online' \in BOOLEAN /\ timers' \in 0 .. MaxTimers
  BY <1>1, <1>3 DEF TypeOK
<1> QED
  BY <1>1, <1>2, <1>4, <1>5, <1>6, <1>7, PageKeeps

------------------------------------------------------------------------------------
(* The server's own steps reach the page only through the answers.         *)
LEMMA ServerIInv ==
  ASSUME IInv, NEW c \in Calls, ServerStep(c)
  PROVE  IInv'
<1>1. UNCHANGED page
  BY DEF ServerStep
<1>2. CallsGoOn /\ AnswersAgree' /\ Server!TypeOK'
  BY ServeKeepsCalls
<1>3. TypeOK'
  BY <1>1, <1>2 DEF page, IInv, TypeOK
<1> QED
  BY <1>1, <1>2, <1>3, TillStays, QueueStays, TicketsStay, SyncStays DEF IInv, page

(* Every step keeps the inductive invariant.                               *)
LEMMA NextIInv == IInv /\ [Next]_vars => IInv'
<1> SUFFICES ASSUME IInv, [Next]_vars PROVE IInv'
  OBVIOUS
<1>1. ASSUME NEW s \in Sales, Confirm(s) PROVE IInv'
  BY <1>1, ConfirmOnlineIInv, SaleConfirmedIInv, SaleNotConfirmedIInv, ConfirmOfflineIInv
  DEF Confirm
<1>2. ASSUME NEW k \in Syncs, SyncStep(k) PROVE IInv'
  BY <1>2, ReadIInv, UploadIInv, UploadAnsweredIInv, MarkSyncedIInv, EndIInv
  DEF SyncStep
<1>3. CASE UNCHANGED vars
  <2>1. UNCHANGED <<online, till, queue, isSyncing, timers, sync, order, registered, answer>>
    BY <1>3 DEF vars, page
  <2> QED
    BY <2>1, QuietKeepsCalls, SyncStays, PageKeeps DEF IInv, TypeOK
<1> QED
  BY <1>1, <1>2, <1>3, ConnectionIInv, StartIInv, ReloadIInv, ServerIInv DEF Next

(* The strengthening of NoSaleLost holds in every reachable state.         *)
THEOREM InductiveInvariant == Spec => []IInv
<1> QED
  BY InitIInv, NextIInv, PTL DEF Spec

(* Every variable of the register keeps its type.                          *)
THEOREM TypeCorrect == Spec => []TypeOK
<1>1. IInv => TypeOK
  BY DEF IInv
<1> QED
  BY <1>1, InductiveInvariant, PTL

(* No ticket is ever shown for a sale that is neither complete in the      *)
(* database nor queued, however many synchronizations overlap.             *)
THEOREM NoSaleIsLost == Spec => []NoSaleLost
<1>1. IInv => NoSaleLost
  BY DEF IInv
<1> QED
  BY <1>1, InductiveInvariant, PTL

(* The flag never stays up without a synchronization that takes it down.   *)
THEOREM FlagIsOwned == Spec => []FlagHasOwner
<1>1. IInv => FlagHasOwner
  BY DEF IInv
<1> QED
  BY <1>1, InductiveInvariant, PTL

====================================================================================
