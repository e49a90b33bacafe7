---------------------------------- MODULE Login ----------------------------------
(***************************************************************************)
(* POST /api/v1/login of the gateway: two limiters, one after the other,   *)
(* over one map of attempts, and then the credentials.                     *)
(*                                                                         *)
(* The limiters differ in their key (the X-Real-IP header, or host and     *)
(* port; the host alone), in their window, and in what they write: the     *)
(* first one adds the attempt to its key, the second one only forgets      *)
(* attempts of the host. Each holds the map's mutex for itself.            *)
(***************************************************************************)
EXTENDS Integers, FiniteSets

CONSTANTS
  Requests,     \* the calls of the handler
  Hosts,        \* addresses without a port
  Ports,
  NoHeader,     \* the request has no X-Real-IP
  MaxAttempts,  \* five
  LongWindow,   \* fifteen minutes
  ShortWindow,  \* five minutes
  MaxTime       \* bound of the clock

ASSUME WindowsAssumption ==
  /\ MaxAttempts \in Nat \ {0}
  /\ LongWindow \in Nat /\ ShortWindow \in 1 .. LongWindow

ASSUME KeysAssumption ==
  /\ Hosts \cap (Hosts \X Ports) = {}
  /\ NoHeader \notin Hosts
  /\ IsFiniteSet(Requests)

VARIABLES
  now,
  counts,    \* loginAttempts.counts: the attempts of each key
  pc,        \* where each request is, and what it was answered
  req,       \* where it comes from
  admitted   \* history: when the first limiter let it in, or Never

loginVars == <<now, counts, pc, req, admitted>>

Never == -1

\* The first limiter's keys: a header's address, or RemoteAddr with its port.
Keys == Hosts \cup (Hosts \X Ports)

Origin == [host: Hosts, port: Ports, header: Hosts \cup {NoHeader}]

NoOrigin == [host |-> NoHeader, port |-> NoHeader, header |-> NoHeader]

Key(o) == IF o.header = NoHeader THEN <<o.host, o.port>> ELSE o.header

InitLogin ==
  /\ now = 0
  /\ counts = [k \in Keys |-> {}]
  /\ pc = [r \in Requests |-> "idle"]
  /\ req = [r \in Requests |-> NoOrigin]
  /\ admitted = [r \in Requests |-> Never]

Goto(r, place) == pc' = [pc EXCEPT ![r] = place]

Tick ==
  /\ now < MaxTime
  /\ now' = now + 1
  /\ UNCHANGED <<counts, pc, req, admitted>>

(* An entry of a list. The code keeps its time only; whose it is tells     *)
(* entries of one time apart, so that a set has as many as the list.       *)
Attempt(r, t) == [by |-> r, at |-> t]

(* The attempts that lie within a window.                                  *)
Recent(attempts, window) == {a \in attempts : now - a.at < window}

(* Wrong: the attempt is let in when the list has the maximum already.     *)
CheckRateLimitOffByOne(r) ==
  /\ pc[r] = "idle"
  /\ \E o \in Origin :
       LET k == Key(o)
           recent == Recent(counts[k], LongWindow) IN
       /\ req' = [req EXCEPT ![r] = o]
       /\ IF Cardinality(recent) > MaxAttempts
            THEN /\ counts' = [counts EXCEPT ![k] = recent]
                 /\ Goto(r, "tooMany")
                 /\ UNCHANGED admitted
            ELSE /\ counts' = [counts EXCEPT ![k] = recent \cup {Attempt(r, now)}]
                 /\ Goto(r, "limited")
                 /\ admitted' = [admitted EXCEPT ![r] = now]
  /\ UNCHANGED now

(* Wrong: refused attempts count too.                                      *)
CheckRateLimitCountsRefused(r) ==
  /\ pc[r] = "idle"
  /\ \E o \in Origin :
       LET k == Key(o)
           recent == Recent(counts[k], LongWindow) IN
       /\ req' = [req EXCEPT ![r] = o]
       /\ IF Cardinality(recent) >= MaxAttempts
            THEN /\ counts' = [counts EXCEPT ![k] = recent \cup {Attempt(r, now)}]
                 /\ Goto(r, "tooMany")
                 /\ UNCHANGED admitted
            ELSE /\ counts' = [counts EXCEPT ![k] = recent \cup {Attempt(r, now)}]
                 /\ Goto(r, "limited")
                 /\ admitted' = [admitted EXCEPT ![r] = now]
  /\ UNCHANGED now

(* A request arrives. checkRateLimit: forget what is older than the long    *)
(* window, refuse at the maximum, and count the attempt otherwise.         *)
CheckRateLimit(r) ==
  /\ pc[r] = "idle"
  /\ \E o \in Origin :
       LET k == Key(o)
           recent == Recent(counts[k], LongWindow) IN
       /\ req' = [req EXCEPT ![r] = o]
       /\ IF Cardinality(recent) >= MaxAttempts
            THEN /\ counts' = [counts EXCEPT ![k] = recent]
                 /\ Goto(r, "tooMany")
                 /\ UNCHANGED admitted
            ELSE /\ counts' = [counts EXCEPT ![k] = recent \cup {Attempt(r, now)}]
                 /\ Goto(r, "limited")
                 /\ admitted' = [admitted EXCEPT ![r] = now]
  /\ UNCHANGED now

(* Wrong: the second limiter starts the host's list anew.                  *)
SecondLimitForgets(r) ==
  /\ pc[r] = "limited"
  /\ counts' = [counts EXCEPT ![req[r].host] = {}]
  /\ Goto(r, "admitted")
  /\ UNCHANGED <<now, req, admitted>>

(* The second limiter: it looks at, and shortens, the list of the host,    *)
(* which only requests that name the host in their header have filled.     *)
SecondLimit(r) ==
  LET recent == Recent(counts[req[r].host], ShortWindow) IN
  /\ pc[r] = "limited"
  /\ counts' = [counts EXCEPT ![req[r].host] = recent]
  /\ Goto(r, IF Cardinality(recent) >= MaxAttempts THEN "tooMany" ELSE "admitted")
  /\ UNCHANGED <<now, req, admitted>>

(* The rest of the handler: method and body, the user's row and its hash,  *)
(* or the operator's credentials when there is no row to be had; generateJWT *)
(* for whoever passes. Whatever the answer, the attempt stays counted.     *)
Authenticate(r) ==
  /\ pc[r] = "admitted"
  /\ Goto(r, "answered")
  /\ UNCHANGED <<now, counts, req, admitted>>

NextLogin ==
  \/ Tick
  \/ \E r \in Requests : CheckRateLimit(r) \/ SecondLimit(r) \/ Authenticate(r)

SpecLogin == InitLogin /\ [][NextLogin]_loginVars

-----------------------------------------------------------------------------------
(* The requests that were counted under a key within a window.             *)
Counted(k, window) ==
  {r \in Requests : admitted[r] # Never /\ Key(req[r]) = k /\ now - admitted[r] < window}

(* Whatever the two limiters forget for each other, no key is let in more  *)
(* than MaxAttempts times within the short window; and a key with a port,  *)
(* which only checkRateLimit touches, not within the long one.             *)
LimitHolds ==
  \A k \in Keys :
    /\ Cardinality(Counted(k, ShortWindow)) =< MaxAttempts
    /\ k \notin Hosts => Cardinality(Counted(k, LongWindow)) =< MaxAttempts

(* The requests of a host that were let in within a window.                *)
SentBy(h, window) ==
  {r \in Requests : admitted[r] # Never /\ req[r].host = h /\ now - admitted[r] < window}

(* A header speaks for another host than the one it comes from, as that of *)
(* a proxy does: the request's own, or that of a request that names its     *)
(* host.                                                                   *)
SpokenFor(o) ==
  \/ o.header \notin {NoHeader, o.host}
  \/ \E r \in Requests : req[r].header = o.host /\ req[r].host # o.host

(* Whoever is refused is not kept out by attempts that were refused, or     *)
(* that are old: a 429 answers a request whose key, or whose host, was      *)
(* named by MaxAttempts requests that were let in within the window, with   *)
(* the right password or not. They need not be the caller's, since a header *)
(* names whom it likes; but they are his host's own when no header speaks  *)
(* for it.                                                                 *)
RefusalsHaveCause ==
  [][\A r \in Requests :
       pc'[r] = "tooMany" /\ pc[r] # "tooMany" =>
         /\ \/ Cardinality(Counted(Key(req'[r]), LongWindow)) >= MaxAttempts
            \/ Cardinality(Counted(req'[r].host, ShortWindow)) >= MaxAttempts
         /\ ~ SpokenFor(req'[r]) =>
              Cardinality(SentBy(req'[r].host, LongWindow)) >= MaxAttempts]_loginVars

===================================================================================
