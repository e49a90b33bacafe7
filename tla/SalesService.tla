------------------------------- MODULE SalesService -------------------------------
(***************************************************************************)
(* What POST /cobrar promises to whoever calls it. A call registers a sale *)
(* piece by piece; the answer "ok" comes after all of it, the answer       *)
(* "error" says nothing: the sale may be missing, partial or complete, and *)
(* a statement that was already running may still write.                   *)
(***************************************************************************)

CONSTANT Calls   \* the calls to POST /cobrar, each with the sale it creates

VARIABLES
  registered,    \* how much of its sale a call has written
  answer         \* what the caller has been told

vars == <<registered, answer>>

(* The values a caller can observe.                                        *)
TypeOK ==
  /\ registered \in [Calls -> {"none", "partial", "complete"}]
  /\ answer \in [Calls -> {"uncalled", "pending", "ok", "error"}]

Init ==
  /\ registered = [c \in Calls |-> "none"]
  /\ answer = [c \in Calls |-> "uncalled"]

Call(c) ==
  /\ answer[c] = "uncalled"
  /\ answer' = [answer EXCEPT ![c] = "pending"]
  /\ UNCHANGED registered

Write(c) ==
  /\ answer[c] \in {"pending", "error"}
  /\ registered[c] # "complete"
  /\ \E more \in {"partial", "complete"} :
       registered' = [registered EXCEPT ![c] = more]
  /\ UNCHANGED answer

AnswerOk(c) ==
  /\ answer[c] = "pending"
  /\ registered[c] = "complete"
  /\ answer' = [answer EXCEPT ![c] = "ok"]
  /\ UNCHANGED registered

AnswerError(c) ==
  /\ answer[c] = "pending"
  /\ answer' = [answer EXCEPT ![c] = "error"]
  /\ UNCHANGED registered

Serve(c) == Write(c) \/ AnswerOk(c) \/ AnswerError(c)

Next == \E c \in Calls : Call(c) \/ Serve(c)

Spec == Init /\ [][Next]_vars

====================================================================================
