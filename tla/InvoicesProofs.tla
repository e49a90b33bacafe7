------------------------------ MODULE InvoicesProofs ------------------------------
(***************************************************************************)
(* The rows of the sales and the documents of the PAC agree, for any       *)
(* number of sales, documents, stampings and cancellations. What has to be *)
(* added to the checked properties is where a UUID comes from: a call only *)
(* ever carries the UUID of a stamp on the document it sent, hands it over *)
(* once, and nobody can cancel a UUID that is empty.                       *)
(***************************************************************************)
EXTENDS Invoices, TLAPS

(* A call carries a UUID only when it has been answered: the empty one, or  *)
(* that of a stamp on an identical document.                               *)
UuidFits ==
  \A c \in Calls :
    /\ call[c].at = "answered" => call[c].uuid # NoUuid
    /\ call[c].uuid \in Calls =>
         /\ call[c].at = "answered"
         /\ doc[call[c].uuid] # "none"
         /\ call[call[c].uuid].xml = call[c].xml

(* A stamping is asked for a sale, and for a document.                     *)
AskedForSale ==
  \A c \in Calls :
    /\ call[c].by \in {"cobrar", "timbrar"} => call[c].sale \in Sales
    /\ call[c].at # "new" => call[c].xml \in Documents

(* Nothing is stamped for a call that has not been made.                   *)
StampedOnRequest ==
  \A c \in Calls : doc[c] # "none" => call[c].at # "new"

(* What is cancelled has a UUID.                                           *)
CancelledHasUuid ==
  /\ \A x \in Cancels : cancel[x].at \in {"sent", "ok"} => cancel[x].uuid \in Calls
  /\ \A s \in Sales : row[s].status = "cancelado" => row[s].uuid \in Calls

(* The inductive invariant of Spec.                                        *)
IInv ==
  /\ TypeOK
  /\ UuidFits
  /\ AskedForSale
  /\ StampedOnRequest
  /\ RowsHaveOwnDocument
  /\ CancelledHasUuid

(* Nothing is stamped at first.                                            *)
LEMMA InitIInv == Init => IInv
<1> SUFFICES ASSUME Init PROVE IInv
  OBVIOUS
<1>1. TypeOK
  BY DEF Init, TypeOK, NoCall, NoCancel, Unstamped, Call, Doc, Row, Cancel
<1>2. UuidFits /\ AskedForSale /\ StampedOnRequest
  BY NoUuidAssumption DEF Init, UuidFits, AskedForSale, StampedOnRequest, NoCall
<1>3. RowsHaveOwnDocument /\ CancelledHasUuid
  BY NoUuidAssumption
  DEF Init, RowsHaveOwnDocument, CancelledHasUuid, Unstamped, NoCancel
<1> QED
  BY <1>1, <1>2, <1>3 DEF IInv

(* Where a call is changes nothing of what was asked.                      *)
LEMMA MoveType ==
  ASSUME TypeOK, NEW c \in Calls,
         NEW at \in {"new", "sent", "answered", "failed", "done"},
         NEW uuid \in Calls \cup {NoUuid, Empty}, NEW waiting \in BOOLEAN,
         Move(c, at, uuid, waiting)
  PROVE  /\ call' \in [Calls -> Call]
         /\ \A d \in Calls \ {c} : call'[d] = call[d]
         /\ call'[c].by = call[c].by /\ call'[c].sale = call[c].sale
         /\ call'[c].xml = call[c].xml
         /\ call'[c].at = at /\ call'[c].uuid = uuid
<1> DEFINE new == [by |-> call[c].by, sale |-> call[c].sale, xml |-> call[c].xml,
                   at |-> at, uuid |-> uuid, waiting |-> waiting]
<1>1. call' = [call EXCEPT ![c] = new]
  BY DEF Move
<1>2. call[c] \in Call
  BY DEF TypeOK
<1>3. new \in Call
  BY <1>2 DEF Call
<1>4. call \in [Calls -> Call]
  BY DEF TypeOK
<1> QED
  BY <1>1, <1>3, <1>4

(* A call that goes on without a step backwards, and with the document it   *)
(* has sent, leaves to every row the document of its sale.                 *)
LEMMA RowsOutliveCalls ==
  ASSUME RowsHaveOwnDocument, StampedOnRequest,
         UNCHANGED row,
         \A d \in Calls : doc[d] # "none" => doc'[d] # "none",
         \A d \in Calls : call[d].at # "new" =>
           /\ call'[d].sale = call[d].sale
           /\ call'[d].xml = call[d].xml
           /\ call[d].at = "done" => call'[d].at = "done"
  PROVE  RowsHaveOwnDocument'
<1> SUFFICES ASSUME NEW s \in Sales, NEW c \in Calls, row'[s].uuid = c
             PROVE  doc'[c] # "none" /\ Sent(s, call[c].xml)'
  BY DEF RowsHaveOwnDocument
<1>1. doc[c] # "none" /\ Sent(s, call[c].xml)
  BY DEF RowsHaveOwnDocument
<1>2. call'[c].xml = call[c].xml
  BY <1>1 DEF StampedOnRequest
<1>3. PICK d \in Calls :
        call[d].sale = s /\ call[d].xml = call[c].xml /\ call[d].at = "done"
  BY <1>1 DEF Sent
<1>4. call'[d].sale = s /\ call'[d].xml = call'[c].xml /\ call'[d].at = "done"
  BY <1>2, <1>3
<1> QED
  BY <1>1, <1>4 DEF Sent

(* A new call: it carries nothing yet.                                     *)
LEMMA AskIInv ==
  ASSUME IInv, NEW c \in Calls, NEW by \in {"cobrar", "timbrar", "csd"},
         NEW s \in Sales \cup {NoUuid},
         by \in {"cobrar", "timbrar"} => s \in Sales, Ask(c, by, s)
  PROVE  IInv'
<1>1. PICK xml \in Documents :
        call' = [call EXCEPT ![c] =
          [by |-> by, sale |-> s, xml |-> xml, at |-> "sent", uuid |-> NoUuid,
           waiting |-> TRUE]]
  BY DEF Ask
<1> DEFINE new == [by |-> by, sale |-> s, xml |-> xml, at |-> "sent",
                   uuid |-> NoUuid, waiting |-> TRUE]
<1>2. call[c].at = "new" /\ UNCHANGED <<doc, row, cancel>>
  BY DEF Ask
<1>3. new \in Call
  BY DEF Call
<1>4. call \in [Calls -> Call] /\ TypeOK
  BY DEF IInv, TypeOK
<1>5. /\ call'[c] = new
      /\ \A d \in Calls \ {c} : call'[d] = call[d]
  BY <1>1, <1>4
<1>6. TypeOK'
  BY <1>1, <1>2, <1>3, <1>4 DEF TypeOK
<1>7. doc[c] = "none"
  BY <1>2 DEF IInv, StampedOnRequest
<1>8. UuidFits'
  BY <1>2, <1>5, <1>7, NoUuidAssumption DEF IInv, UuidFits
<1>9. AskedForSale' /\ StampedOnRequest' /\ CancelledHasUuid'
  BY <1>2, <1>5 DEF IInv, AskedForSale, StampedOnRequest, CancelledHasUuid
<1>10. RowsHaveOwnDocument'
  BY <1>2, <1>5, RowsOutliveCalls DEF IInv
<1> QED
  BY <1>6, <1>8, <1>9, <1>10 DEF IInv

(* What a stamping leaves when its call goes on: the call carries nothing,  *)
(* the empty UUID, or that of a stamp on its document.                     *)
LEMMA MoveIInv ==
  ASSUME IInv, NEW c \in Calls, call[c].at = "sent",
         NEW at \in {"sent", "answered", "failed"},
         NEW uuid \in Calls \cup {NoUuid, Empty}, NEW waiting \in BOOLEAN,
         Move(c, at, uuid, waiting),
         Issue(c) \/ UNCHANGED doc,
         UNCHANGED <<row, cancel>>,
         at = "answered" => uuid # NoUuid,
         uuid \in Calls =>
           at = "answered" /\ doc'[uuid] # "none" /\ call[uuid].xml = call[c].xml
  PROVE  IInv'
<1>1. TypeOK
  BY DEF IInv
<1>2. /\ call' \in [Calls -> Call]
      /\ \A d \in Calls \ {c} : call'[d] = call[d]
      /\ call'[c].by = call[c].by /\ call'[c].sale = call[c].sale
      /\ call'[c].xml = call[c].xml
      /\ call'[c].at = at /\ call'[c].uuid = uuid
  BY <1>1, MoveType
<1>3. /\ doc' \in [Calls -> Doc]
      /\ \A d \in Calls \ {c} : doc'[d] = doc[d]
      /\ \A d \in Calls : doc[d] # "none" => doc'[d] # "none"
  <2>1. "valid" \in Doc
    BY DEF Doc
  <2> QED
    BY <1>1, <2>1 DEF TypeOK, Issue
<1>4. TypeOK'
  BY <1>1, <1>2, <1>3 DEF TypeOK
<1>5. \A d \in Calls : call'[d].xml = call[d].xml
  BY <1>2
<1>6. UuidFits'
  BY <1>2, <1>3, <1>5 DEF IInv, UuidFits
<1>7. AskedForSale' /\ StampedOnRequest' /\ CancelledHasUuid'
  BY <1>2, <1>3 DEF IInv, AskedForSale, StampedOnRequest, CancelledHasUuid
<1>8. RowsHaveOwnDocument'
  BY <1>2, <1>3, <1>5, RowsOutliveCalls DEF IInv
<1> QED
  BY <1>4, <1>6, <1>7, <1>8 DEF IInv

(* The service's steps and the end of the wait.                            *)
LEMMA ServiceIInv ==
  ASSUME IInv, NEW c \in Calls, GiveUp(c) \/ Service(c)
  PROVE  IInv'
<1>1. TypeOK /\ call[c] \in Call /\ call[c].at = "sent"
  BY DEF IInv, TypeOK, GiveUp, Service, PacStamps, PacRepeats, PacAnswersNothing,
     TimbrarFails
<1>2. call[c].waiting \in BOOLEAN /\ FALSE \in BOOLEAN
  BY <1>1 DEF Call
<1>3. UNCHANGED <<row, cancel>>
  BY DEF GiveUp, Service, PacStamps, PacRepeats, PacAnswersNothing, TimbrarFails
<1>4. NoUuid \notin Calls /\ Empty \notin Calls /\ Empty # NoUuid
  BY NoUuidAssumption, EmptyAssumption
<1>5. CASE GiveUp(c)
  <2>1. Move(c, "sent", NoUuid, FALSE) /\ UNCHANGED doc
    BY <1>5 DEF GiveUp
  <2> QED
    BY <1>1, <1>2, <1>3, <1>4, <2>1, MoveIInv
<1>6. CASE PacStamps(c)
  <2>1. Move(c, "answered", c, call[c].waiting) /\ Issue(c)
    BY <1>6 DEF PacStamps
  <2>2. doc'[c] # "none"
    BY <1>1, <2>1 DEF Issue, TypeOK
  <2> QED
    BY <1>1, <1>2, <1>3, <1>4, <2>1, <2>2, MoveIInv
<1>7. CASE PacRepeats(c)
  <2>1. PICK d \in Calls :
          /\ doc[d] # "none"
          /\ call[d].xml = call[c].xml
          /\ Move(c, "answered", d, call[c].waiting)
    BY <1>7 DEF PacRepeats
  <2>2. UNCHANGED doc
    BY <1>7 DEF PacRepeats
  <2> QED
    BY <1>1, <1>2, <1>3, <1>4, <2>1, <2>2, MoveIInv
<1>8. CASE PacAnswersNothing(c)
  <2>1. Move(c, "answered", Empty, call[c].waiting) /\ (Issue(c) \/ UNCHANGED doc)
    BY <1>8 DEF PacAnswersNothing
  <2> QED
    BY <1>1, <1>2, <1>3, <1>4, <2>1, MoveIInv
<1>9. CASE TimbrarFails(c)
  <2>1. Move(c, "failed", NoUuid, call[c].waiting) /\ (Issue(c) \/ UNCHANGED doc)
    BY <1>9 DEF TimbrarFails
  <2> QED
    BY <1>1, <1>2, <1>3, <1>4, <2>1, MoveIInv
<1> QED
  BY <1>5, <1>6, <1>7, <1>8, <1>9 DEF Service

(* What the end of a call leaves of it.                                    *)
LEMMA DoneType ==
  ASSUME TypeOK, NEW c \in Calls, Done(c)
  PROVE  /\ call' \in [Calls -> Call]
         /\ \A d \in Calls \ {c} : call'[d] = call[d]
         /\ call'[c].by = call[c].by /\ call'[c].sale = call[c].sale
         /\ call'[c].xml = call[c].xml
         /\ call'[c].at = "done" /\ call'[c].uuid = NoUuid
<1>1. FALSE \in BOOLEAN
  OBVIOUS
<1> QED
  BY <1>1, MoveType DEF Done

(* What the end of a call leaves of the invariant, whatever it stores.      *)
LEMMA DoneFits ==
  ASSUME IInv, NEW c \in Calls, Done(c), call[c].at # "new", UNCHANGED doc
  PROVE  UuidFits' /\ AskedForSale' /\ StampedOnRequest'
<1>1. TypeOK
  BY DEF IInv
<1>2. /\ \A d \in Calls \ {c} : call'[d] = call[d]
      /\ call'[c].by = call[c].by /\ call'[c].sale = call[c].sale
      /\ call'[c].xml = call[c].xml
      /\ call'[c].at = "done" /\ call'[c].uuid = NoUuid
  BY <1>1, DoneType
<1>3. \A d \in Calls : call'[d].xml = call[d].xml
  BY <1>2
<1> QED
  BY <1>2, <1>3, NoUuidAssumption DEF IInv, UuidFits, AskedForSale, StampedOnRequest

(* A call that ends without storing its UUID.                              *)
LEMMA DoneIInv ==
  ASSUME IInv, NEW c \in Calls, Done(c), call[c].at # "new",
         UNCHANGED <<doc, row, cancel>>
  PROVE  IInv'
<1>1. TypeOK
  BY DEF IInv
<1>2. /\ call' \in [Calls -> Call]
      /\ \A d \in Calls \ {c} : call'[d] = call[d]
      /\ call'[c].sale = call[c].sale /\ call'[c].xml = call[c].xml
      /\ call'[c].at = "done"
  BY <1>1, DoneType
<1>3. TypeOK' /\ CancelledHasUuid'
  BY <1>1, <1>2 DEF TypeOK, IInv, CancelledHasUuid
<1>4. RowsHaveOwnDocument'
  BY <1>2, RowsOutliveCalls DEF IInv
<1> QED
  BY <1>3, <1>4, DoneFits DEF IInv

(* The UPDATE puts the UUID of a stamp on the call's own document, or none, *)
(* into the call's own sale.                                               *)
LEMMA StoreIInv ==
  ASSUME IInv, NEW c \in Calls, Store(c)
  PROVE  IInv'
<1>1. /\ TypeOK /\ Done(c) /\ UNCHANGED <<doc, cancel>>
      /\ call[c].at = "answered" /\ call[c].by \in {"cobrar", "timbrar"}
  BY DEF IInv, Store
<1>2. CASE UNCHANGED row
  BY <1>1, <1>2, DoneIInv
<1>3. CASE row' = [row EXCEPT ![call[c].sale] = Stamped(call[c].uuid)]
  <2> DEFINE sale == call[c].sale
             new == Stamped(call[c].uuid)
  <2>1. sale \in Sales
    BY <1>1 DEF IInv, AskedForSale
  <2>2. call[c].uuid \in Calls \cup {Empty}
    BY <1>1 DEF IInv, UuidFits, TypeOK, Call
  <2>3. new \in Row /\ new.uuid = call[c].uuid /\ new.status = "timbrado"
    BY <2>2 DEF Row, Stamped
  <2>4. /\ row' \in [Sales -> Row]
        /\ row'[sale] = new
        /\ \A s \in Sales \ {sale} : row'[s] = row[s]
    BY <1>1, <1>3, <2>1, <2>3 DEF TypeOK
  <2>5. /\ call' \in [Calls -> Call]
        /\ \A d \in Calls \ {c} : call'[d] = call[d]
        /\ call'[c].sale = call[c].sale /\ call'[c].xml = call[c].xml
        /\ call'[c].at = "done"
    BY <1>1, DoneType
  <2>6. TypeOK'
    BY <1>1, <2>4, <2>5 DEF TypeOK
  <2>7. UuidFits' /\ AskedForSale' /\ StampedOnRequest'
    BY <1>1, DoneFits
  <2>8. ASSUME NEW s \in Sales, NEW d \in Calls, row'[s].uuid = d
        PROVE  doc'[d] # "none" /\ Sent(s, call[d].xml)'
    <3>1. CASE s = sale
      <4>1. call[c].uuid = d
        BY <2>3, <2>4, <2>8, <3>1
      <4>2. doc[d] # "none" /\ call[d].xml = call[c].xml
        BY <4>1 DEF IInv, UuidFits
      <4>3. call'[c].sale = s /\ call'[c].xml = call'[d].xml /\ call'[c].at = "done"
        BY <2>5, <3>1, <4>2
      <4> QED
        BY <1>1, <4>2, <4>3 DEF Sent
    <3>2. CASE s # sale
      <4>1. doc[d] # "none" /\ Sent(s, call[d].xml)
        BY <2>4, <2>8, <3>2 DEF IInv, RowsHaveOwnDocument
      <4>2. PICK e \in Calls :
              call[e].sale = s /\ call[e].xml = call[d].xml /\ call[e].at = "done"
        BY <4>1 DEF Sent
      <4>3. call'[e].sale = s /\ call'[e].xml = call'[d].xml /\ call'[e].at = "done"
        BY <2>5, <4>2
      <4> QED
        BY <1>1, <4>1, <4>3 DEF Sent
    <3> QED
      BY <3>1, <3>2
  <2>9. RowsHaveOwnDocument'
    BY <2>8 DEF RowsHaveOwnDocument
  <2>10. CancelledHasUuid'
    BY <1>1, <2>3, <2>4 DEF IInv, CancelledHasUuid
  <2> QED
    BY <2>6, <2>7, <2>9, <2>10 DEF IInv
<1> QED
  BY <1>2, <1>3 DEF Store

(* What the gateway does with an answer.                                   *)
LEMMA GatewayIInv ==
  ASSUME IInv, NEW c \in Calls, Gateway(c)
  PROVE  IInv'
<1>1. CASE Store(c)
  BY <1>1, StoreIInv
<1>2. CASE Dismiss(c)
  BY <1>2, DoneIInv DEF Dismiss
<1> QED
  BY <1>1, <1>2 DEF Gateway

(* A cancellation on its way: documents are cancelled, none disappears.    *)
LEMMA CancelDocIInv ==
  ASSUME IInv, NEW x \in Cancels, NEW new \in Cancel,
         new.at \in {"sent", "ok"} => new.uuid \in Calls,
         cancel' = [cancel EXCEPT ![x] = new],
         CancelDoc(cancel[x].uuid) \/ UNCHANGED doc,
         UNCHANGED <<call, row>>
  PROVE  IInv'
<1>1. TypeOK
  BY DEF IInv
<1>2. /\ cancel' \in [Cancels -> Cancel]
      /\ cancel'[x] = new
      /\ \A y \in Cancels \ {x} : cancel'[y] = cancel[y]
  BY <1>1 DEF TypeOK
<1>3. /\ doc' \in [Calls -> Doc]
      /\ \A c \in Calls : doc[c] # "none" => doc'[c] # "none"
  <2>1. CASE UNCHANGED doc
    BY <1>1, <2>1 DEF TypeOK
  <2>2. CASE CancelDoc(cancel[x].uuid)
    <3> DEFINE u == cancel[x].uuid
    <3>1. u \in Calls /\ doc' = [doc EXCEPT ![u] = "cancelled"] /\ doc \in [Calls -> Doc]
      BY <1>1, <2>2 DEF CancelDoc, TypeOK
    <3>2. "cancelled" \in Doc
      BY DEF Doc
    <3> QED
      BY <3>1, <3>2
  <2> QED
    BY <2>1, <2>2
<1>4. TypeOK'
  BY <1>1, <1>2, <1>3 DEF TypeOK
<1>5. UuidFits' /\ AskedForSale' /\ StampedOnRequest'
  <2>1. \A c \in Calls : doc'[c] # "none" => doc[c] # "none"
    BY <1>1 DEF CancelDoc, TypeOK
  <2> QED
    BY <1>3, <2>1 DEF IInv, UuidFits, AskedForSale, StampedOnRequest
<1>6. CancelledHasUuid'
  BY <1>2 DEF IInv, CancelledHasUuid
<1>7. RowsHaveOwnDocument'
  BY <1>3, RowsOutliveCalls DEF IInv
<1> QED
  BY <1>4, <1>5, <1>6, <1>7 DEF IInv

(* The steps of a cancellation.                                            *)
LEMMA CancelIInv ==
  ASSUME IInv, NEW x \in Cancels,
         \/ \E u \in Calls \cup {Empty} : Cancelar(x, u)
         \/ Cancelling(x)
  PROVE  IInv'
<1>0. TypeOK /\ cancel[x] \in Cancel
  BY DEF IInv, TypeOK
<1>00. Cancelled \in Cancel /\ Cancelled.at = "done"
  BY DEF Cancelled, Cancel
<1>1. ASSUME NEW u \in Calls \cup {Empty}, Cancelar(x, u)
      PROVE  IInv'
  <2> DEFINE new == [at |-> "sent", uuid |-> u]
  <2>1. new \in Cancel
    BY <1>1 DEF Cancel
  <2>2. new.uuid \in Calls /\ cancel' = [cancel EXCEPT ![x] = new]
        /\ UNCHANGED <<call, doc, row>>
    BY <1>1 DEF Cancelar
  <2> HIDE DEF new
  <2> QED
    BY <2>1, <2>2, CancelDocIInv
<1>2. CASE PacAnswersCancel(x)
  <2> DEFINE new == [at |-> "ok", uuid |-> cancel[x].uuid]
  <2>1. new \in Cancel
    BY <1>0 DEF Cancel
  <2>2. cancel[x].uuid \in Calls
    BY <1>2 DEF PacAnswersCancel, IInv, CancelledHasUuid
  <2>3. /\ new.uuid \in Calls
        /\ cancel' = [cancel EXCEPT ![x] = new]
        /\ CancelDoc(cancel[x].uuid) \/ UNCHANGED doc
        /\ UNCHANGED <<call, row>>
    BY <1>2, <2>2 DEF PacAnswersCancel
  <2> HIDE DEF new
  <2> QED
    BY <2>1, <2>3, CancelDocIInv
<1>3. CASE CancelarFails(x)
  BY <1>00, <1>3, CancelDocIInv DEF CancelarFails
<1>4. CASE StoreCancel(x)
  <2> DEFINE u == cancel[x].uuid
  <2>1. u \in Calls
    BY <1>4 DEF StoreCancel, IInv, CancelledHasUuid
  <2>2. /\ cancel' = [cancel EXCEPT ![x] = Cancelled]
        /\ UNCHANGED <<call, doc>>
        /\ \/ row' = [s \in Sales |->
                  IF row[s].uuid = u THEN [uuid |-> u, status |-> "cancelado"]
                  ELSE row[s]]
           \/ UNCHANGED row
    BY <1>4 DEF StoreCancel
  <2>3. /\ cancel' \in [Cancels -> Cancel]
        /\ \A y \in Cancels : cancel'[y].at \in {"sent", "ok"} => cancel'[y].uuid \in Calls
    BY <1>0, <1>00, <2>2 DEF TypeOK, IInv, CancelledHasUuid
  <2>4. [uuid |-> u, status |-> "cancelado"] \in Row
    BY <2>1 DEF Row
  <2>5. /\ row' \in [Sales -> Row]
        /\ \A s \in Sales :
             /\ row'[s].uuid = row[s].uuid
             /\ row'[s].status = "cancelado" => row'[s].uuid \in Calls
    BY <1>0, <2>1, <2>2, <2>4 DEF TypeOK, IInv, CancelledHasUuid
  <2>6. TypeOK'
    BY <1>0, <2>2, <2>3, <2>5 DEF TypeOK
  <2>7. UuidFits' /\ AskedForSale' /\ StampedOnRequest'
    BY <2>2 DEF IInv, UuidFits, AskedForSale, StampedOnRequest
  <2>8. CancelledHasUuid'
    BY <2>3, <2>5 DEF CancelledHasUuid
  <2>9. RowsHaveOwnDocument'
    BY <2>2, <2>5 DEF IInv, RowsHaveOwnDocument, Sent
  <2> QED
    BY <2>6, <2>7, <2>8, <2>9 DEF IInv
<1> QED
  BY <1>1, <1>2, <1>3, <1>4 DEF Cancelling

(* Every step keeps the inductive invariant.                               *)
LEMMA NextIInv == IInv /\ [Next]_vars => IInv'
<1> SUFFICES ASSUME IInv, [Next]_vars PROVE IInv'
  OBVIOUS
<1>1. ASSUME NEW c \in Calls, NEW s \in Sales, AutoTimbrar(c, s) \/ Timbrar(c, s)
      PROVE  IInv'
  BY <1>1, AskIInv DEF AutoTimbrar, Timbrar
<1>2. ASSUME NEW c \in Calls, CSDUpload(c) PROVE IInv'
  BY <1>2, AskIInv DEF CSDUpload
<1>3. ASSUME NEW c \in Calls, GiveUp(c) \/ Service(c) \/ Gateway(c) PROVE IInv'
  BY <1>3, ServiceIInv, GatewayIInv
<1>4. CASE UNCHANGED vars
  BY <1>4
  DEF vars, IInv, TypeOK, UuidFits, AskedForSale, StampedOnRequest,
      RowsHaveOwnDocument, Sent, CancelledHasUuid
<1> QED
  BY <1>1, <1>2, <1>3, <1>4, CancelIInv DEF Next

-----------------------------------------------------------------------------------
(* The inductive invariant holds of every behaviour.                       *)
THEOREM InductiveInvariant == Spec => []IInv
  BY InitIInv, NextIInv, PTL DEF Spec

(* The tables keep their types: a sale has a status exactly when its        *)
(* cfdi_uuid is not NULL.                                                  *)
THEOREM TypeCorrect == Spec => []TypeOK
<1>1. IInv => TypeOK
  BY DEF IInv
<1> QED
  BY <1>1, InductiveInvariant, PTL

(* The UUID of a sale is that of a stamp on the document sent for it, for   *)
(* any number of stampings under way together.                             *)
THEOREM RowsKeepTheirDocument == Spec => []RowsHaveOwnDocument
<1>1. IInv => RowsHaveOwnDocument
  BY DEF IInv
<1> QED
  BY <1>1, InductiveInvariant, PTL

(* No two calls have sent an identical document.                           *)
DocumentsDiffer ==
  \A c, d \in Calls : c # d /\ call[c].at # "new" => call[c].xml # call[d].xml

(* As long as documents differ, because totals, receivers or seconds do, a *)
(* sale has the UUID of its own stamping, and two sales never share one.   *)
THEOREM DifferentDocumentsKeepSalesApart ==
  Spec => [](DocumentsDiffer =>
               \A s \in Sales : \A c \in Calls : row[s].uuid = c => call[c].sale = s)
<1>1. IInv /\ DocumentsDiffer =>
        \A s \in Sales : \A c \in Calls : row[s].uuid = c => call[c].sale = s
  <2> SUFFICES ASSUME IInv, DocumentsDiffer, NEW s \in Sales, NEW c \in Calls,
                      row[s].uuid = c
               PROVE  call[c].sale = s
    OBVIOUS
  <2>1. PICK d \in Calls :
          call[d].sale = s /\ call[d].xml = call[c].xml /\ call[d].at = "done"
    BY DEF IInv, RowsHaveOwnDocument, Sent
  <2>2. d = c
    BY <2>1 DEF DocumentsDiffer
  <2> QED
    BY <2>1, <2>2
<1> QED
  BY <1>1, InductiveInvariant, PTL

(* Only StoreCancel cancels rows.                                          *)
LEMMA OnlyCancellationsCancel ==
  ASSUME IInv, Next, NEW s \in Sales,
         row[s].status # "cancelado", row'[s].status = "cancelado"
  PROVE  \E x \in Cancels : StoreCancel(x) /\ row[s].uuid = cancel[x].uuid
<1>1. ASSUME NEW c \in Calls, Store(c) PROVE FALSE
  <2>1. call[c].sale \in Sales
    BY <1>1 DEF Store, IInv, AskedForSale
  <2>2. \/ row' = [row EXCEPT ![call[c].sale] = Stamped(call[c].uuid)]
        \/ row' = row
    BY <1>1 DEF Store
  <2>3. Stamped(call[c].uuid).status = "timbrado"
    BY DEF Stamped
  <2> QED
    BY <2>1, <2>2, <2>3 DEF IInv, TypeOK
<1>2. CASE row' = row
  BY <1>2
<1>3. ASSUME NEW x \in Cancels, StoreCancel(x) PROVE row[s].uuid = cancel[x].uuid
  BY <1>3 DEF StoreCancel
<1> QED
  BY <1>1, <1>2, <1>3
  DEF Next, AutoTimbrar, Timbrar, CSDUpload, Ask, GiveUp, Service, PacStamps,
      PacRepeats, PacAnswersNothing, TimbrarFails, Gateway, Dismiss, Cancelar,
      Cancelling, PacAnswersCancel, CancelarFails

(* Sales that a cancellation marks together had one document sent.         *)
THEOREM CancellationsHitOneDocument == Spec => CancelsOneDocument
<1> DEFINE Alike ==
      \A s, t \in {z \in Sales : /\ row[z].status = "timbrado"
                              /\ row'[z].status = "cancelado"} :
        \E xml \in Documents : Sent(s, xml) /\ Sent(t, xml)
<1>1. IInv /\ [Next]_vars => [Alike]_vars
  <2> SUFFICES ASSUME IInv, Next, NEW s \in Sales, NEW t \in Sales,
                      row[s].status = "timbrado", row'[s].status = "cancelado",
                      row[t].status = "timbrado", row'[t].status = "cancelado"
               PROVE  \E xml \in Documents : Sent(s, xml) /\ Sent(t, xml)
    BY DEF vars
  <2>1. PICK x \in Cancels : StoreCancel(x) /\ row[s].uuid = cancel[x].uuid
    BY OnlyCancellationsCancel
  <2>2. row[t].uuid = cancel[x].uuid
    BY <2>1 DEF StoreCancel
  <2>3. cancel[x].uuid \in Calls
    BY <2>1 DEF StoreCancel, IInv, CancelledHasUuid
  <2> DEFINE xml == call[cancel[x].uuid].xml
  <2>4. Sent(s, xml) /\ Sent(t, xml)
    BY <2>1, <2>2, <2>3 DEF IInv, RowsHaveOwnDocument
  <2>5. xml \in Documents
    <3>1. PICK c \in Calls : call[c].xml = xml /\ call[c].at = "done"
      BY <2>4 DEF Sent
    <3> QED
      BY <3>1 DEF IInv, AskedForSale
  <2> QED
    BY <2>4, <2>5
<1> QED
  BY <1>1, InductiveInvariant, PTL DEF Spec, CancelsOneDocument

(* A cancelled sale is marked as stamped again only with another UUID, or   *)
(* by its second stamping with one document.                               *)
THEOREM CancelledSalesStay == Spec => CancelledStaysCancelled
<1> DEFINE Stays ==
      \A s \in Sales :
        row[s].status = "cancelado" /\ row'[s].status = "timbrado" =>
          \/ row'[s].uuid # row[s].uuid
          \/ \E c, d \in Calls :
               /\ c # d
               /\ call[c].sale = s /\ call[d].sale = s
               /\ call[c].xml = call[d].xml
<1>1. IInv /\ [Next]_vars => [Stays]_vars
  <2> SUFFICES ASSUME IInv, Next, NEW s \in Sales,
                      row[s].status = "cancelado", row'[s].status = "timbrado",
                      row'[s].uuid = row[s].uuid
               PROVE  \E c, d \in Calls :
                        /\ c # d
                        /\ call[c].sale = s /\ call[d].sale = s
                        /\ call[c].xml = call[d].xml
    BY DEF vars
  <2>1. row[s].uuid \in Calls
    BY DEF IInv, CancelledHasUuid
  <2>2. PICK d \in Calls : /\ call[d].sale = s /\ call[d].at = "done"
                           /\ call[d].xml = call[row[s].uuid].xml
    BY <2>1 DEF IInv, RowsHaveOwnDocument, Sent
  <2>3. ASSUME NEW c \in Calls, Store(c)
        PROVE  c # d /\ call[c].sale = s /\ call[c].xml = call[d].xml
    <3>1. call[c].sale \in Sales /\ call[c].at = "answered"
      BY <2>3 DEF Store, IInv, AskedForSale
    <3>2. \/ row' = [row EXCEPT ![call[c].sale] = Stamped(call[c].uuid)]
          \/ row' = row
      BY <2>3 DEF Store
    <3>3. call[c].sale = s /\ row'[s] = Stamped(call[c].uuid)
      BY <3>1, <3>2 DEF IInv, TypeOK
    <3>4. call[c].uuid = row[s].uuid
      BY <3>3 DEF Stamped
    <3> QED
      BY <2>1, <2>2, <3>1, <3>3, <3>4 DEF IInv, UuidFits
  <2>4. ASSUME NEW x \in Cancels, StoreCancel(x) PROVE FALSE
    <3>1. row'[s].status = "cancelado"
      BY <2>4 DEF StoreCancel, IInv, TypeOK
    <3> QED
      BY <3>1
  <2>5. CASE row' = row
    BY <2>5
  <2>6. ASSUME NEW c \in Calls, Store(c)
        PROVE  \E e, f \in Calls :
                 /\ e # f
                 /\ call[e].sale = s /\ call[f].sale = s
                 /\ call[e].xml = call[f].xml
    BY <2>2, <2>3, <2>6
  <2> QED
    BY <2>4, <2>5, <2>6
    DEF Next, AutoTimbrar, Timbrar, CSDUpload, Ask, GiveUp, Service, PacStamps,
        PacRepeats, PacAnswersNothing, TimbrarFails, Gateway, Dismiss, Cancelar,
        Cancelling, PacAnswersCancel, CancelarFails
<1> QED
  BY <1>1, InductiveInvariant, PTL DEF Spec, CancelledStaysCancelled

===================================================================================
