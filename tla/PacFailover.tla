-------------------------------- MODULE PacFailover --------------------------------
(***************************************************************************)
(* The CFDI service between its two PACs (the certification providers that *)
(* stamp invoices): Timbrar counts requests and failures, checkFailover    *)
(* moves to the secondary PAC, healthCheckLoop back to the primary, and    *)
(* auditLoop starts a new window. All of them meet on one mutex, which     *)
(* each takes for a few assignments at a time; a step of the model is one  *)
(* such critical section.                                                  *)
(***************************************************************************)
EXTENDS Integers, FiniteSets

CONSTANTS
  Requests,     \* the calls of Timbrar, each made once
  MinRequests,  \* checkFailover looks at no fewer requests (5 in the code)
  Tolerance     \* one failure in this many is tolerated (20: MaxErrorRatio)

ASSUME RequestsAssumption == IsFiniteSet(Requests)
ASSUME MinRequestsAssumption == MinRequests \in Nat \ {0}
ASSUME ToleranceAssumption == Tolerance \in Nat \ {0}

Primary == 0
Secondary == 1

VARIABLES
  current,  \* CurrentPAC
  total,    \* TotalRequests
  failed,   \* FailedRequests
  pc,       \* where each call of Timbrar is, its go checkFailover() included
  probe,    \* healthCheckLoop between its read of CurrentPAC and its decision
  up,       \* the primary answers the health check
  begun,    \* history: the requests begun since the counters were reset
  blamed    \* history: the requests counted as failed since then

counters == <<current, total, failed, begun, blamed>>
vars == <<current, total, failed, pc, probe, up, begun, blamed>>

(* The values of the service; among them, that the PAC in use is one of the *)
(* two in the array of clients.                                            *)
TypeOK ==
  /\ current \in {Primary, Secondary}
  /\ total \in Nat
  /\ failed \in Nat
  /\ pc \in [Requests -> {"new", "stamping", "stamped", "checking", "failed"}]
  /\ probe \in {"idle", "probing", "answered"}
  /\ up \in BOOLEAN
  /\ begun \in SUBSET Requests
  /\ blamed \in SUBSET Requests

Init ==
  /\ current = Primary
  /\ total = 0
  /\ failed = 0
  /\ pc = [r \in Requests |-> "new"]
  /\ probe = "idle"
  /\ up \in BOOLEAN
  /\ begun = {}
  /\ blamed = {}

Reset ==
  /\ total' = 0
  /\ failed' = 0
  /\ begun' = {}
  /\ blamed' = {}

------------------------------------------------------------------------------------
(* Timbrar.                                                                *)

Begin(r) ==
  /\ pc[r] = "new"
  /\ total' = total + 1
  /\ begun' = begun \cup {r}
  /\ pc' = [pc EXCEPT ![r] = "stamping"]
  /\ UNCHANGED <<current, failed, probe, up, blamed>>

Stamped(r) ==
  /\ pc[r] = "stamping"
  /\ pc' = [pc EXCEPT ![r] = "stamped"]
  /\ UNCHANGED <<current, total, failed, probe, up, begun, blamed>>

CountFailure(r) ==
  /\ failed' = failed + 1
  /\ blamed' = blamed \cup {r}
  /\ UNCHANGED <<current, total, probe, up, begun>>

(* GenerarXML or FirmarXML fails: counted like a failure of the PAC, but   *)
(* nobody looks at the counters.                                           *)
XmlFails(r) ==
  /\ pc[r] = "stamping"
  /\ pc' = [pc EXCEPT ![r] = "failed"]
  /\ CountFailure(r)

(* The PAC does not stamp: counted, and go checkFailover().                *)
PacFails(r) ==
  /\ pc[r] = "stamping"
  /\ pc' = [pc EXCEPT ![r] = "checking"]
  /\ CountFailure(r)

------------------------------------------------------------------------------------
(* checkFailover, in the goroutine the failure started.                    *)

TooManyErrors == total >= MinRequests /\ failed * Tolerance > total

(* Wrong: the next PAC, whichever is in use.                               *)
CheckFailoverNext(r) ==
  /\ pc[r] = "checking"
  /\ pc' = [pc EXCEPT ![r] = "failed"]
  /\ IF TooManyErrors
       THEN current' = current + 1 /\ Reset
       ELSE UNCHANGED counters
  /\ UNCHANGED <<probe, up>>

(* Wrong: the ratio is taken over any number of requests.                  *)
CheckFailoverAtOnce(r) ==
  /\ pc[r] = "checking"
  /\ pc' = [pc EXCEPT ![r] = "failed"]
  /\ IF failed * Tolerance > total /\ current = Primary
       THEN current' = Secondary /\ Reset
       ELSE UNCHANGED counters
  /\ UNCHANGED <<probe, up>>

CheckFailover(r) ==
  /\ pc[r] = "checking"
  /\ pc' = [pc EXCEPT ![r] = "failed"]
  /\ IF TooManyErrors /\ current = Primary
       THEN current' = Secondary /\ Reset
       ELSE UNCHANGED counters
  /\ UNCHANGED <<probe, up>>

------------------------------------------------------------------------------------
(* auditLoop.                                                              *)

(* Wrong: the window ends for the requests but not for the failures.       *)
AuditKeepsFailures ==
  /\ total' = 0
  /\ begun' = {}
  /\ blamed' = {}
  /\ UNCHANGED <<current, failed, pc, probe, up>>

(* Wrong: every window starts on the primary.                              *)
AuditOnPrimary ==
  /\ Reset
  /\ current' = Primary
  /\ UNCHANGED <<pc, probe, up>>

Audit ==
  /\ Reset
  /\ UNCHANGED <<current, pc, probe, up>>

------------------------------------------------------------------------------------
(* healthCheckLoop. Between the read and the decision the mutex is free.   *)

HealthTick ==
  /\ probe = "idle"
  /\ current # Primary
  /\ probe' = "probing"
  /\ UNCHANGED <<current, total, failed, pc, up, begun, blamed>>

ProbeAnswered ==
  /\ probe = "probing"
  /\ up
  /\ probe' = "answered"
  /\ UNCHANGED <<current, total, failed, pc, up, begun, blamed>>

(* The decision, whatever has become of the primary since it answered.     *)
PrimaryBack ==
  /\ probe = "answered"
  /\ current' = Primary
  /\ Reset
  /\ probe' = "idle"
  /\ UNCHANGED <<pc, up>>

(* Wrong: the loop returns at the first probe that fails.                  *)
PrimaryDownReturn ==
  /\ probe = "probing"
  /\ ~ up
  /\ probe' = "ended"
  /\ UNCHANGED <<current, total, failed, pc, up, begun, blamed>>

(* No answer within five seconds, or a server error: continue.             *)
PrimaryDown ==
  /\ probe = "probing"
  /\ ~ up
  /\ probe' = "idle"
  /\ UNCHANGED <<current, total, failed, pc, up, begun, blamed>>

(* The primary goes down or comes back.                                    *)
PrimaryFlips ==
  /\ up' = ~ up
  /\ UNCHANGED <<current, total, failed, pc, probe, begun, blamed>>

------------------------------------------------------------------------------------
HealthCheck == HealthTick \/ ProbeAnswered \/ PrimaryBack \/ PrimaryDown

Next ==
  \/ \E r \in Requests :
       Begin(r) \/ Stamped(r) \/ XmlFails(r) \/ PacFails(r) \/ CheckFailover(r)
  \/ Audit
  \/ HealthCheck
  \/ PrimaryFlips

Spec == Init /\ [][Next]_vars

(* The ticker ticks and the probe has a timeout.                           *)
FairSpec == Spec /\ WF_vars(HealthCheck)

------------------------------------------------------------------------------------
(* What makes the failover correct.                                        *)

(* The counters tell the truth about the window: no update is lost and no  *)
(* reset is partial, although a request that began before a reset may fail *)
(* after it (so failures may outnumber requests).                          *)
CountersCount ==
  /\ total = Cardinality(begun)
  /\ failed = Cardinality(blamed)

(* The health check's decision is not stale: while its probe is out        *)
(* nobody else moves the service back to the primary, so the reset it      *)
(* makes never wipes the counters of a primary already in use.             *)
ProbeMeansSecondary == probe # "idle" => current = Secondary

(* The primary is left only for a window with enough requests and a share  *)
(* of failures above what is tolerated.                                    *)
SwitchHasCause ==
  [][current = Primary /\ current' = Secondary =>
       /\ Cardinality(begun) >= MinRequests
       /\ Cardinality(blamed) * Tolerance > Cardinality(begun)]_vars

(* Once the primary answers for good the service is back on it again and   *)
(* again, however many windows and switches there were.                    *)
PrimaryRecovers == <>[]up => []<>(current = Primary)

====================================================================================
