--------------------------------- MODULE Invoices ---------------------------------
(***************************************************************************)
(* Invoices (CFDI) between the gateway, the CFDI service, the PAC that     *)
(* stamps them and the rows of sales: the automatic stamping of            *)
(* handleCobrar, handleTimbrar, handleCancelar, and handleCSDUpload, which *)
(* stamps to verify a tenant's certificate.                                *)
(*                                                                         *)
(* The CFDI service ignores the context of its caller: when the gateway's  *)
(* deadline ends a call, the service goes on, and the PAC may still stamp. *)
(*                                                                         *)
(* A document names its total, its receiver and its second, and no sale:   *)
(* two calls, of one sale or of two, may send the very same document, and  *)
(* any answer with a UUID is taken for a success, so that a PAC that has   *)
(* stamped a document before may answer with the UUID it has.              *)
(***************************************************************************)

CONSTANTS
  Sales,     \* the sales of one tenant
  Calls,     \* the calls of the CFDI service's Timbrar; a call names the UUID
             \* of the document that was stamped anew for it
  Documents, \* what GenerarXML may write
  Cancels,   \* the calls of /cancelar
  NoUuid,    \* NULL in cfdi_uuid; no sale, no document
  Empty      \* the empty string in cfdi_uuid

ASSUME NoUuidAssumption == NoUuid \notin Sales \cup Calls \cup Documents
ASSUME EmptyAssumption == Empty \notin Calls \cup {NoUuid}

VARIABLES
  call,    \* each call of Timbrar: who asked, for what, and where it is
  doc,     \* the PAC: what was stamped anew for each call
  row,     \* cfdi_uuid and cfdi_status of each sale
  cancel   \* each call of /cancelar

vars == <<call, doc, row, cancel>>

Call == [by: {"nobody", "cobrar", "timbrar", "csd"}, sale: Sales \cup {NoUuid},
         xml: Documents \cup {NoUuid},
         at: {"new", "sent", "answered", "failed", "done"},
         uuid: Calls \cup {NoUuid, Empty}, waiting: BOOLEAN]

NoCall == [by |-> "nobody", sale |-> NoUuid, xml |-> NoUuid, at |-> "new",
           uuid |-> NoUuid, waiting |-> FALSE]

Doc == {"none", "valid", "cancelled"}

Unstamped == [uuid |-> NoUuid, status |-> "none"]

Stamped(u) == [uuid |-> u, status |-> "timbrado"]

Row == {Unstamped} \cup [uuid: Calls \cup {Empty}, status: {"timbrado", "cancelado"}]

Cancel == [at: {"new", "sent", "ok", "done"}, uuid: Calls \cup {NoUuid, Empty}]

NoCancel == [at |-> "new", uuid |-> NoUuid]

Cancelled == [at |-> "done", uuid |-> NoUuid]

(* The values of the tables and of the calls; among them, that a sale has  *)
(* an invoice status exactly when its cfdi_uuid is not NULL.               *)
TypeOK ==
  /\ call \in [Calls -> Call]
  /\ doc \in [Calls -> Doc]
  /\ row \in [Sales -> Row]
  /\ cancel \in [Cancels -> Cancel]

Init ==
  /\ call = [c \in Calls |-> NoCall]
  /\ doc = [c \in Calls |-> "none"]
  /\ row = [s \in Sales |-> Unstamped]
  /\ cancel = [x \in Cancels |-> NoCancel]

-----------------------------------------------------------------------------------
(* The gateway calls Timbrar.                                              *)

Move(c, at, uuid, waiting) ==
  call' = [call EXCEPT ![c] =
    [by |-> call[c].by, sale |-> call[c].sale, xml |-> call[c].xml, at |-> at,
     uuid |-> uuid, waiting |-> waiting]]

(* The document follows from the request and the second in which the        *)
(* service writes it, so it may be any, another call's too.                *)
Ask(c, by, s) ==
  /\ call[c].at = "new"
  /\ \E xml \in Documents :
       call' = [call EXCEPT ![c] =
         [by |-> by, sale |-> s, xml |-> xml, at |-> "sent", uuid |-> NoUuid,
          waiting |-> TRUE]]
  /\ UNCHANGED <<doc, row, cancel>>

(* The sale has just been created: it is stamped once from here.           *)
AutoTimbrar(c, s) ==
  /\ \A d \in Calls : call[d].by = "cobrar" => call[d].sale # s
  /\ Ask(c, "cobrar", s)

Timbrar(c, s) == Ask(c, "timbrar", s)

(* A document is stamped only to see whether it can be: it is of no sale.   *)
CSDUpload(c) == Ask(c, "csd", NoUuid)

(* The deadline of the gateway's context: the service is not told.         *)
GiveUp(c) ==
  /\ call[c].at = "sent"
  /\ call[c].waiting
  /\ Move(c, "sent", NoUuid, FALSE)
  /\ UNCHANGED <<doc, row, cancel>>

-----------------------------------------------------------------------------------
(* The CFDI service and the PAC.                                           *)

Issue(c) == doc' = [doc EXCEPT ![c] = "valid"]

(* The PAC stamps the document anew and its UUID arrives.                  *)
PacStamps(c) ==
  /\ call[c].at = "sent"
  /\ Issue(c)
  /\ Move(c, "answered", c, call[c].waiting)
  /\ UNCHANGED <<row, cancel>>

(* The PAC has stamped this document before, whatever has become of it, and *)
(* answers with that UUID: incidencias and CodEstatus are only looked at    *)
(* when there is no UUID.                                                  *)
PacRepeats(c) ==
  /\ call[c].at = "sent"
  /\ \E d \in Calls :
       /\ doc[d] # "none"
       /\ call[d].xml = call[c].xml
       /\ Move(c, "answered", d, call[c].waiting)
  /\ UNCHANGED <<doc, row, cancel>>

(* A response with no UUID, no incidencia and no CodEstatus, such as a     *)
(* SOAP fault, is parsed as a success with an empty UUID; so is one that    *)
(* reports a stamped document but spells its UUID in another way.          *)
PacAnswersNothing(c) ==
  /\ call[c].at = "sent"
  /\ Issue(c) \/ UNCHANGED doc
  /\ Move(c, "answered", Empty, call[c].waiting)
  /\ UNCHANGED <<row, cancel>>

(* Incidencias, an XML that cannot be generated or sealed, an unreachable  *)
(* PAC, or thirty seconds without a response to a document it did stamp.   *)
TimbrarFails(c) ==
  /\ call[c].at = "sent"
  /\ Issue(c) \/ UNCHANGED doc
  /\ Move(c, "failed", NoUuid, call[c].waiting)
  /\ UNCHANGED <<row, cancel>>

-----------------------------------------------------------------------------------
(* The gateway again.                                                      *)

Done(c) == Move(c, "done", NoUuid, FALSE)

(* Wrong: the status is written before the UUID is known.                  *)
StoreStatusOnly(c) ==
  /\ call[c].at = "answered"
  /\ call[c].waiting
  /\ call[c].by \in {"cobrar", "timbrar"}
  /\ row' = [row EXCEPT ![call[c].sale] = Stamped(row[call[c].sale].uuid)]
  /\ Done(c)
  /\ UNCHANGED <<doc, cancel>>

(* Wrong: the goroutine uses the variable of the request served last, not  *)
(* its own copy of the sale's id.                                          *)
StoreOfAnother(c) ==
  /\ call[c].at = "answered"
  /\ call[c].waiting
  /\ call[c].by \in {"cobrar", "timbrar"}
  /\ \E d \in Calls :
       /\ call[d].sale # NoUuid
       /\ row' = [row EXCEPT ![call[d].sale] = Stamped(call[c].uuid)]
  /\ Done(c)
  /\ UNCHANGED <<doc, cancel>>

(* Wrong: the UPDATE is repeated until somebody looks at its error.        *)
StoreAgain(c) ==
  /\ call[c].at = "answered"
  /\ call[c].waiting
  /\ call[c].by \in {"cobrar", "timbrar"}
  /\ row' = [row EXCEPT ![call[c].sale] = Stamped(call[c].uuid)]
  /\ UNCHANGED <<call, doc, cancel>>

(* UPDATE sales SET cfdi_uuid, cfdi_status = 'timbrado' WHERE id; nobody   *)
(* looks at its error.                                                     *)
Store(c) ==
  /\ call[c].at = "answered"
  /\ call[c].waiting
  /\ call[c].by \in {"cobrar", "timbrar"}
  /\ \/ row' = [row EXCEPT ![call[c].sale] = Stamped(call[c].uuid)]
     \/ UNCHANGED row
  /\ Done(c)
  /\ UNCHANGED <<doc, cancel>>

(* An error is logged or answered, a document of no sale is forgotten, and *)
(* an answer after the deadline reaches nobody.                            *)
Dismiss(c) ==
  /\ \/ call[c].at = "failed"
     \/ call[c].at = "answered" /\ (call[c].by = "csd" \/ ~ call[c].waiting)
  /\ Done(c)
  /\ UNCHANGED <<doc, row, cancel>>

-----------------------------------------------------------------------------------
(* handleCancelar and serveCancelar.                                       *)

(* Wrong: without the check that there is a UUID.                          *)
CancelarAnything(x, u) ==
  /\ cancel[x].at = "new"
  /\ cancel' = [cancel EXCEPT ![x] = [at |-> "sent", uuid |-> u]]
  /\ UNCHANGED <<call, doc, row>>

Cancelar(x, u) ==
  /\ cancel[x].at = "new"
  /\ u # Empty
  /\ cancel' = [cancel EXCEPT ![x] = [at |-> "sent", uuid |-> u]]
  /\ UNCHANGED <<call, doc, row>>

CancelDoc(u) ==
  /\ u \in Calls
  /\ doc[u] = "valid"
  /\ doc' = [doc EXCEPT ![u] = "cancelled"]

(* Whatever status the PAC answers, accepted, under way, rejected or       *)
(* unknown UUID, the service answers ok.                                   *)
PacAnswersCancel(x) ==
  /\ cancel[x].at = "sent"
  /\ CancelDoc(cancel[x].uuid) \/ UNCHANGED doc
  /\ cancel' = [cancel EXCEPT ![x] = [at |-> "ok", uuid |-> cancel[x].uuid]]
  /\ UNCHANGED <<call, row>>

(* A SOAP fault, or no response: an error, and the gateway writes nothing.  *)
CancelarFails(x) ==
  /\ cancel[x].at = "sent"
  /\ CancelDoc(cancel[x].uuid) \/ UNCHANGED doc
  /\ cancel' = [cancel EXCEPT ![x] = Cancelled]
  /\ UNCHANGED <<call, row>>

(* UPDATE sales SET cfdi_status = 'cancelado' WHERE cfdi_uuid = ..., with   *)
(* the UUID as it was sent: in another spelling, which the service puts in *)
(* capitals for the PAC, it is the UUID of no row.                         *)
StoreCancel(x) ==
  LET u == cancel[x].uuid IN
  /\ cancel[x].at = "ok"
  /\ \/ row' = [s \in Sales |->
          IF row[s].uuid = u THEN [uuid |-> u, status |-> "cancelado"] ELSE row[s]]
     \/ UNCHANGED row
  /\ cancel' = [cancel EXCEPT ![x] = Cancelled]
  /\ UNCHANGED <<call, doc>>

-----------------------------------------------------------------------------------
Service(c) == PacStamps(c) \/ PacRepeats(c) \/ PacAnswersNothing(c) \/ TimbrarFails(c)

Gateway(c) == Store(c) \/ Dismiss(c)

Cancelling(x) == PacAnswersCancel(x) \/ CancelarFails(x) \/ StoreCancel(x)

Next ==
  \/ \E c \in Calls, s \in Sales : AutoTimbrar(c, s) \/ Timbrar(c, s)
  \/ \E c \in Calls : CSDUpload(c) \/ GiveUp(c) \/ Service(c) \/ Gateway(c)
  \/ \E x \in Cancels, u \in Calls \cup {Empty} : Cancelar(x, u)
  \/ \E x \in Cancels : Cancelling(x)

Spec == Init /\ [][Next]_vars

-----------------------------------------------------------------------------------
(* What makes the invoices correct.                                        *)

(* A stamping of the sale is over that sent this document.                 *)
Sent(s, xml) ==
  \E c \in Calls : call[c].sale = s /\ call[c].xml = xml /\ call[c].at = "done"

(* The UUID of a sale is that of a stamp on the very document that was sent *)
(* for this sale, whatever calls for it and for others were under way      *)
(* together. The stamp may have been made for another call, even of another *)
(* sale, that sent an identical document; of two sales with different      *)
(* documents, none ever gets the other's.                                  *)
RowsHaveOwnDocument ==
  \A s \in Sales : \A c \in Calls :
    row[s].uuid = c => doc[c] # "none" /\ Sent(s, call[c].xml)

(* A cancellation marks the rows that have its UUID: sales it marks         *)
(* together had one identical document sent. Sales that share only the     *)
(* empty UUID are not cancelled together, nor is any with another document. *)
CancelsOneDocument ==
  [][\A s, t \in {z \in Sales : /\ row[z].status = "timbrado"
                              /\ row'[z].status = "cancelado"} :
       \E xml \in Documents : Sent(s, xml) /\ Sent(t, xml)]_vars

(* A sale marked as cancelled is marked as stamped again only with another  *)
(* UUID, or because two stampings of this sale sent one identical document: *)
(* no answer is stored twice, and none of another sale's calls brings back  *)
(* the invoice that was cancelled.                                         *)
CancelledStaysCancelled ==
  [][\A s \in Sales :
       row[s].status = "cancelado" /\ row'[s].status = "timbrado" =>
         \/ row'[s].uuid # row[s].uuid
         \/ \E c, d \in Calls :
              /\ c # d
              /\ call[c].sale = s /\ call[d].sale = s
              /\ call[c].xml = call[d].xml]_vars

===================================================================================
