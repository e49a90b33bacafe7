-------------------------------- MODULE CfdiProofs --------------------------------
(***************************************************************************)
(* The CFDI service: the choice of its PAC (module PacFailover), for any    *)
(* number of requests and any thresholds, and the documents it writes and   *)
(* signs (module InvoiceXml), for any dates, receivers and totals.          *)
(*                                                                         *)
(* To what is checked of the counters, the health check and the switch,     *)
(* only one fact has to be added: a request that is not counted yet has not *)
(* begun, and one that may still fail has not been counted as failed.       *)
(*                                                                         *)
(* A document's amounts are three roundings of one total, each within half  *)
(* a cent. Its signed line is read from the end, where no field is empty    *)
(* before the receiver is known, and the receiver tells whether the months  *)
(* have a place in it.                                                      *)
(***************************************************************************)
EXTENDS PacFailover, InvoiceXml, FiniteSetTheorems, SequenceTheorems, TLAPS

-----------------------------------------------------------------------------------
(* The PAC.                                                                *)

(* A request is counted and blamed once.                                   *)
CountedOnce ==
  \A r \in Requests :
    /\ pc[r] = "new" => r \notin begun
    /\ pc[r] \in {"new", "stamping"} => r \notin blamed

(* What makes the three invariants inductive.                               *)
IInv ==
  /\ TypeOK
  /\ CountedOnce
  /\ CountersCount
  /\ ProbeMeansSecondary

(* Counting one more request of a finite set.                              *)
LEMMA CountOneMore ==
  ASSUME NEW S \in SUBSET Requests, NEW r \in Requests, r \notin S
  PROVE  Cardinality(S \cup {r}) = Cardinality(S) + 1
<1>1. IsFiniteSet(S)
  BY RequestsAssumption, FS_Subset
<1> QED
  BY <1>1, FS_AddElement

(* A reset of the counters is complete and leaves nothing counted.         *)
LEMMA ResetCounts ==
  ASSUME Reset
  PROVE  /\ total' \in Nat /\ failed' \in Nat
         /\ begun' = {} /\ blamed' = {}
         /\ CountersCount'
<1>1. Cardinality({}) = 0
  BY FS_EmptySet
<1> QED
  BY <1>1 DEF Reset, CountersCount

(* Nothing is counted before the first request.                            *)
LEMMA InitIInv == Init => IInv
<1>1. Cardinality({}) = 0
  BY FS_EmptySet
<1>2. Init => TypeOK
  BY DEF Init, TypeOK, Primary, Secondary
<1> QED
  BY <1>1, <1>2 DEF Init, IInv, CountedOnce, CountersCount, ProbeMeansSecondary

(* Each step of Timbrar counts its own request at most once.               *)
LEMMA TimbrarIInv ==
  ASSUME IInv, NEW r \in Requests,
         Begin(r) \/ Stamped(r) \/ XmlFails(r) \/ PacFails(r)
  PROVE  IInv'
<1>1. TypeOK /\ CountedOnce /\ CountersCount /\ ProbeMeansSecondary
  BY DEF IInv
<1>2. CASE Begin(r)
  <2>1. Cardinality(begun \cup {r}) = Cardinality(begun) + 1
    BY <1>1, <1>2, CountOneMore DEF TypeOK, CountedOnce, Begin
  <2> QED
    BY <1>1, <1>2, <2>1
    DEF Begin, IInv, TypeOK, CountedOnce, CountersCount, ProbeMeansSecondary
<1>3. CASE Stamped(r)
  BY <1>1, <1>3
  DEF Stamped, IInv, TypeOK, CountedOnce, CountersCount, ProbeMeansSecondary
<1>4. CASE XmlFails(r) \/ PacFails(r)
  <2>1. Cardinality(blamed \cup {r}) = Cardinality(blamed) + 1
    BY <1>1, <1>4, CountOneMore DEF TypeOK, CountedOnce, XmlFails, PacFails
  <2> QED
    BY <1>1, <1>4, <2>1
    DEF XmlFails, PacFails, CountFailure, IInv, TypeOK, CountedOnce, CountersCount,
        ProbeMeansSecondary
<1> QED
  BY <1>2, <1>3, <1>4

(* The check moves to the secondary, where a probe may be out, and never   *)
(* to the primary.                                                         *)
LEMMA CheckFailoverIInv ==
  ASSUME IInv, NEW r \in Requests, CheckFailover(r)
  PROVE  IInv'
<1>1. TypeOK /\ CountedOnce /\ CountersCount /\ ProbeMeansSecondary
  BY DEF IInv
<1>2. CASE current' = Secondary /\ Reset
  BY <1>1, <1>2, ResetCounts
  DEF CheckFailover, IInv, TypeOK, CountedOnce, ProbeMeansSecondary
<1>3. CASE UNCHANGED counters
  BY <1>1, <1>3
  DEF CheckFailover, counters, IInv, TypeOK, CountedOnce, CountersCount,
      ProbeMeansSecondary
<1> QED
  BY <1>2, <1>3 DEF CheckFailover

(* The loops: a new window leaves the PAC alone, and only the health check *)
(* itself goes back to the primary.                                        *)
LEMMA LoopsIInv ==
  ASSUME IInv, Audit \/ HealthCheck \/ PrimaryFlips
  PROVE  IInv'
<1>1. TypeOK /\ CountedOnce /\ CountersCount /\ ProbeMeansSecondary
  BY DEF IInv
<1>2. CASE Audit
  BY <1>1, <1>2, ResetCounts
  DEF Audit, IInv, TypeOK, CountedOnce, ProbeMeansSecondary
<1>3. CASE PrimaryBack
  BY <1>1, <1>3, ResetCounts
  DEF PrimaryBack, IInv, TypeOK, CountedOnce, ProbeMeansSecondary
<1>4. CASE HealthTick \/ ProbeAnswered \/ PrimaryDown
  BY <1>1, <1>4
  DEF HealthTick, ProbeAnswered, PrimaryDown, IInv, TypeOK, CountedOnce, CountersCount,
      ProbeMeansSecondary, Primary, Secondary
<1>5. CASE PrimaryFlips
  <2>1. UNCHANGED <<current, total, failed, pc, probe, begun, blamed>>
    BY <1>5 DEF PrimaryFlips
  <2>2. up' \in BOOLEAN
    BY <1>5, Zenon DEF PrimaryFlips
  <2> QED
    BY <1>1, <2>1, <2>2
    DEF IInv, TypeOK, CountedOnce, CountersCount, ProbeMeansSecondary
<1> QED
  BY <1>2, <1>3, <1>4, <1>5 DEF HealthCheck

(* Every step keeps the inductive invariant.                               *)
LEMMA NextIInv == IInv /\ [Next]_vars => IInv'
<1> SUFFICES ASSUME IInv, [Next]_vars PROVE IInv'
  OBVIOUS
<1>1. CASE UNCHANGED vars
  BY <1>1
  DEF vars, IInv, TypeOK, CountedOnce, CountersCount, ProbeMeansSecondary
<1> QED
  BY <1>1, TimbrarIInv, CheckFailoverIInv, LoopsIInv DEF Next

(* The inductive invariant holds in every reachable state.                 *)
THEOREM InductiveInvariant == Spec => []IInv
<1> QED
  BY InitIInv, NextIInv, PTL DEF Spec

(* The PAC in use is always one of the two there are: the index into the   *)
(* array of clients stays in range.                                        *)
THEOREM TypeCorrect == Spec => []TypeOK
<1>1. IInv => TypeOK
  BY DEF IInv
<1> QED
  BY <1>1, InductiveInvariant, PTL

(* No update of the counters is lost and no reset is partial.              *)
THEOREM CountersAreTrue == Spec => []CountersCount
<1>1. IInv => CountersCount
  BY DEF IInv
<1> QED
  BY <1>1, InductiveInvariant, PTL

(* The health check never acts on a PAC that has changed under it.         *)
THEOREM ProbeIsNotStale == Spec => []ProbeMeansSecondary
<1>1. IInv => ProbeMeansSecondary
  BY DEF IInv
<1> QED
  BY <1>1, InductiveInvariant, PTL

(* The primary is left only for enough requests and too many failures.     *)
THEOREM SwitchesHaveCause == Spec => SwitchHasCause
<1> DEFINE Cause ==
      current = Primary /\ current' = Secondary =>
        /\ Cardinality(begun) >= MinRequests
        /\ Cardinality(blamed) * Tolerance > Cardinality(begun)
<1>1. IInv /\ [Next]_vars => [Cause]_vars
  <2> SUFFICES ASSUME IInv, Next, current = Primary, current' = Secondary
               PROVE  /\ Cardinality(begun) >= MinRequests
                      /\ Cardinality(blamed) * Tolerance > Cardinality(begun)
    BY Zenon
  <2>1. PICK r \in Requests : CheckFailover(r)
    BY DEF Next, Begin, Stamped, XmlFails, PacFails, CountFailure, Audit, HealthCheck,
           HealthTick, ProbeAnswered, PrimaryBack, PrimaryDown, PrimaryFlips,
           Primary, Secondary
  <2>2. TooManyErrors
    BY <2>1 DEF CheckFailover, counters, Primary, Secondary
  <2> QED
    BY <2>2 DEF TooManyErrors, IInv, CountersCount
<1> QED
  BY <1>1, InductiveInvariant, PTL DEF Spec, SwitchHasCause

-----------------------------------------------------------------------------------
(* The document.                                                           *)

(* A rounded quotient is within one half of the quotient.                  *)
LEMMA RoundIsNear ==
  ASSUME NEW n \in Nat, NEW d \in Nat \ {0}, NEW upwards \in BOOLEAN
  PROVE  /\ Round(n, d, upwards) \in Nat
         /\ 2 * d * Round(n, d, upwards) - 2 * n \in (0 - d) .. d
<1> DEFINE q == n \div d
           r == n - d * q
<1>1. q \in Nat /\ n = d * q + (n % d) /\ n % d \in 0 .. d - 1
  BY SMT
<1>2. r \in 0 .. d - 1
  BY <1>1, SMT
<1>3. CASE Round(n, d, upwards) = q + 1 /\ 2 * r >= d
  BY <1>1, <1>2, <1>3, SMT
<1>4. CASE Round(n, d, upwards) = q /\ 2 * r =< d
  BY <1>1, <1>2, <1>4, SMT
<1> QED
  BY <1>1, <1>2, <1>3, <1>4, SMT DEF Round

(* Three half cents make at most one cent; and the two fractions of a whole *)
(* number of cents, in twenty-ninths, complete each other without a tie.   *)
LEMMA PrintsAdd ==
  ASSUME NEW t \in Nat, NEW a \in BOOLEAN, NEW b \in BOOLEAN, NEW c \in BOOLEAN
  PROVE  LET rest == PrintTotal(t, a) - (PrintBase(t, b) + PrintTax(t, c)) IN
         /\ rest \in -1 .. 1
         /\ t % 10 = 0 => rest = 0
<1>1. /\ PrintTotal(t, a) \in Nat
      /\ 20 * PrintTotal(t, a) - 2 * t \in (0 - 10) .. 10
  <2>1. 10 \in Nat \ {0}
    BY SMT
  <2>2. /\ Round(t, 10, a) \in Nat
        /\ 2 * 10 * Round(t, 10, a) - 2 * t \in (0 - 10) .. 10
    BY <2>1, RoundIsNear, Zenon
  <2> QED
    BY <2>2, SMT DEF PrintTotal
<1>2. /\ PrintBase(t, b) \in Nat
      /\ 116 * PrintBase(t, b) - 10 * t \in (0 - 58) .. 58
  <2>1. 58 \in Nat \ {0} /\ 5 * t \in Nat
    BY SMT
  <2>2. /\ Round(5 * t, 58, b) \in Nat
        /\ 2 * 58 * Round(5 * t, 58, b) - 2 * (5 * t) \in (0 - 58) .. 58
    BY <2>1, RoundIsNear, Zenon
  <2> QED
    BY <2>2, SMT DEF PrintBase
<1>3. /\ PrintTax(t, c) \in Nat
      /\ 290 * PrintTax(t, c) - 4 * t \in (0 - 145) .. 145
  <2>1. 145 \in Nat \ {0} /\ 2 * t \in Nat
    BY SMT
  <2>2. /\ Round(2 * t, 145, c) \in Nat
        /\ 2 * 145 * Round(2 * t, 145, c) - 2 * (2 * t) \in (0 - 145) .. 145
    BY <2>1, RoundIsNear, Zenon
  <2> QED
    BY <2>2, SMT DEF PrintTax
<1>4. ASSUME t % 10 = 0
      PROVE  PrintTotal(t, a) = PrintBase(t, b) + PrintTax(t, c)
  <2>1. PICK k \in Nat : t = 10 * k
    <3>1. t = 10 * (t \div 10) + (t % 10) /\ t \div 10 \in Nat
      BY SMT
    <3> QED
      BY <1>4, <3>1, SMT
  <2>2. PrintTotal(t, a) = k
    BY <1>1, <2>1, SMT
  <2>3. 29 * PrintBase(t, b) - 25 * k \in (0 - 14) .. 14
    BY <1>2, <2>1, SMT
  <2>4. 29 * PrintTax(t, c) - 4 * k \in (0 - 14) .. 14
    BY <1>3, <2>1, SMT
  <2> QED
    BY <1>2, <1>3, <2>2, <2>3, <2>4, SMT
<1>5. PrintTotal(t, a) - (PrintBase(t, b) + PrintTax(t, c)) \in (0 - 1) .. 1
  BY <1>1, <1>2, <1>3, SMT
<1>6. -1 .. 1 = (0 - 1) .. 1
  BY SMT
<1> QED
  BY <1>1, <1>2, <1>3, <1>4, <1>5, <1>6, SMT

(* From its generation on, the document is that of the data.               *)
Generated == step # "new" => data \in SaleData /\ document = GenerarXML(data)

(* What GenerarXML has written is never changed before Finkok signs it:    *)
(* the document at hand is that of the sale's data, whole, at every later  *)
(* moment.                                                                 *)
THEOREM DocumentIsGenerated == SpecXml => []Generated
<1>1. InitXml => Generated
  BY DEF InitXml, Generated
<1>2. Generated /\ [NextXml]_xmlVars => Generated'
  <2> SUFFICES ASSUME Generated, [NextXml]_xmlVars PROVE Generated'
    OBVIOUS
  <2>1. CASE Generar
    BY <2>1 DEF Generar, Generated
  <2>2. CASE Firmar \/ FirmarFails
    <3>1. step # "new" /\ UNCHANGED <<data, document>>
      BY <2>2 DEF Firmar, FirmarFails
    <3> QED
      BY <3>1 DEF Generated
  <2>3. CASE UNCHANGED xmlVars
    BY <2>3 DEF Generated, xmlVars
  <2> QED
    BY <2>1, <2>2, <2>3 DEF NextXml
<1> QED
  BY <1>1, <1>2, PTL DEF SpecXml

(* The printed base and tax make up the printed total, for every total that *)
(* is a whole number of cents, and within one cent for every other.        *)
THEOREM AmountsAlwaysAdd == SpecXml => []AmountsAdd
<1>1. Generated => AmountsAdd
  <2> SUFFICES ASSUME Generated, step # "new" PROVE AmountsAdd
    BY DEF AmountsAdd
  <2>1. /\ data.total \in Nat
        /\ data.up.total \in BOOLEAN /\ data.up.base \in BOOLEAN /\ data.up.tax \in BOOLEAN
    BY TotalsAssumption DEF Generated, SaleData
  <2>2. /\ document.total = PrintTotal(data.total, data.up.total)
        /\ document.base = PrintBase(data.total, data.up.base)
        /\ document.iva = PrintTax(data.total, data.up.tax)
    BY DEF Generated, GenerarXML
  <2> QED
    BY <2>1, <2>2, PrintsAdd DEF AmountsAdd
<1> QED
  BY <1>1, DocumentIsGenerated, PTL

(* What a field of a line may hold.                                        *)
Text ==
  Dates \cup {MonthOf[d] : d \in Dates} \cup Rfcs \cup Codes
    \cup {Issued, Empty, Public, PublicName, TestName,
          "616", "S01", "601", "G03"}

(* A line to which one more field is added.                                *)
Line(s, v) == s \o Field(v)

(* A line stays one.                                                       *)
LEMMA LineType ==
  ASSUME NEW s \in Seq(Text), NEW v \in Text
  PROVE  Line(s, v) \in Seq(Text)
<1>1. <<>> \in Seq(Text) /\ <<v>> \in Seq(Text)
  OBVIOUS
<1> QED
  BY <1>1, ConcatProperties DEF Line, Field

(* A field that is not empty can be told from the end of a line.           *)
LEMMA LastField ==
  ASSUME NEW s \in Seq(Text), NEW t \in Seq(Text), NEW v \in Text, NEW w \in Text,
         v # Empty, w # Empty, Line(s, v) = Line(t, w)
  PROVE  s = t /\ v = w
<1>1. Append(s, v) = s \o <<v>> /\ Append(t, w) = t \o <<w>>
  BY AppendIsConcat
<1>2. Append(s, v) = Append(t, w)
  BY <1>1 DEF Line, Field
<1> QED
  BY <1>2, AppendInjective

(* What a document of a sale's data holds: only the months may be empty,    *)
(* and they are unless the receiver is the public at large.                 *)
Written(x) ==
  /\ x.fecha \in Text /\ x.fecha # Empty
  /\ x.lugar \in Text /\ x.lugar # Empty
  /\ x.global.meses \in Text
  /\ x.global.meses = Empty <=> x.receptor.rfc # Public
  /\ x.receptor.rfc \in Text /\ x.receptor.rfc # Empty
  /\ x.receptor.nombre \in Text /\ x.receptor.nombre # Empty
  /\ x.receptor.cp \in Text /\ x.receptor.cp # Empty
  /\ x.receptor.regimen \in Text /\ x.receptor.regimen # Empty
  /\ x.receptor.uso \in Text /\ x.receptor.uso # Empty

(* GenerarXML leaves no field empty but the months.                        *)
LEMMA DocumentsAreWritten ==
  ASSUME NEW d \in SaleData
  PROVE  Written(GenerarXML(d))
<1>1. PICK x : x = GenerarXML(d)
  OBVIOUS
<1>2. /\ d.fecha \in Dates /\ d.rfc \in Rfcs \cup {Empty, Public} /\ d.cp \in Codes \cup {Empty}
      /\ MonthOf[d.fecha] \in {MonthOf[e] : e \in Dates}
  BY DEF SaleData
<1>3. /\ x.fecha = d.fecha /\ x.lugar = Issued
      /\ x.global = InformacionGlobal(d) /\ x.receptor = Receptor(d)
  BY <1>1 DEF GenerarXML
<1>4. /\ d.fecha # Empty /\ Issued # Empty /\ MonthOf[d.fecha] # Empty
      /\ \A v \in Rfcs \cup Codes : v # Empty
  BY <1>2, TextsAssumption
<1>5. /\ x.fecha \in Text /\ x.fecha # Empty
      /\ x.lugar \in Text /\ x.lugar # Empty
  BY <1>2, <1>3, <1>4 DEF Text
<1>6. CASE ForPublic(d)
  <2>1. x.global.meses = MonthOf[d.fecha]
    BY <1>3, <1>6 DEF InformacionGlobal
  <2>2. /\ x.receptor.rfc = Public /\ x.receptor.nombre = PublicName
        /\ x.receptor.cp = Issued /\ x.receptor.regimen = "616" /\ x.receptor.uso = "S01"
    BY <1>3, <1>6 DEF Receptor
  <2>3. /\ Public # Empty /\ PublicName # Empty
        /\ "616" # Empty /\ "S01" # Empty
    BY DEF Public, PublicName, Empty
  <2>4. /\ MonthOf[d.fecha] \in Text /\ Public \in Text /\ PublicName \in Text
        /\ Issued \in Text /\ "616" \in Text /\ "S01" \in Text
    BY <1>2 DEF Text
  <2>5. Written(x)
    BY <1>4, <1>5, <2>1, <2>2, <2>3, <2>4 DEF Written
  <2> QED
    BY <1>1, <2>5
<1>7. CASE ~ ForPublic(d)
  <2>1. x.global.meses = Empty
    BY <1>3, <1>7 DEF InformacionGlobal
  <2>2. /\ x.receptor.rfc = d.rfc
        /\ x.receptor.nombre = IF d.rfc = Test THEN TestName ELSE d.rfc
        /\ x.receptor.cp = IF d.cp = Empty THEN Issued ELSE d.cp
        /\ x.receptor.regimen = "601" /\ x.receptor.uso = "G03"
    BY <1>3, <1>7 DEF Receptor
  <2>3. d.rfc \in Rfcs /\ d.rfc # Public /\ d.rfc # Empty
    BY <1>2, <1>4, <1>7 DEF ForPublic
  <2>4. TestName # Empty /\ "601" # Empty /\ "G03" # Empty
    BY DEF TestName, Empty
  <2>5. /\ Empty \in Text /\ d.rfc \in Text /\ TestName \in Text
        /\ (d.cp # Empty => d.cp \in Text) /\ Issued \in Text
        /\ "601" \in Text /\ "G03" \in Text
    BY <1>2, <2>3 DEF Text
  <2>6. Written(x)
    BY <1>4, <1>5, <2>1, <2>2, <2>3, <2>4, <2>5 DEF Written
  <2> QED
    BY <1>1, <2>6
<1> QED
  BY <1>6, <1>7

(* A line up to each of its fields.                                        *)
ToDate(x) == Field(x.fecha)
ToPlace(x) == Line(ToDate(x), x.lugar)
ToMonths(x) == Line(ToPlace(x), x.global.meses)
ToRfc(x) == Line(ToMonths(x), x.receptor.rfc)
ToName(x) == Line(ToRfc(x), x.receptor.nombre)
ToCode(x) == Line(ToName(x), x.receptor.cp)
ToRegime(x) == Line(ToCode(x), x.receptor.regimen)
ToUse(x) == Line(ToRegime(x), x.receptor.uso)

(* They are lines.                                                         *)
LEMMA PrefixType ==
  ASSUME NEW x, Written(x)
  PROVE  /\ ToDate(x) \in Seq(Text) /\ ToPlace(x) \in Seq(Text) /\ ToMonths(x) \in Seq(Text)
         /\ ToRfc(x) \in Seq(Text) /\ ToName(x) \in Seq(Text) /\ ToCode(x) \in Seq(Text)
         /\ ToRegime(x) \in Seq(Text)
<1>1. ToDate(x) \in Seq(Text)
  <2>1. x.fecha \in Text
    BY DEF Written
  <2> QED
    BY <2>1 DEF ToDate, Field
<1>2. ToPlace(x) \in Seq(Text)
  BY <1>1, LineType DEF Written, ToPlace
<1>3. ToMonths(x) \in Seq(Text)
  BY <1>2, LineType DEF Written, ToMonths
<1>4. ToRfc(x) \in Seq(Text)
  BY <1>3, LineType DEF Written, ToRfc
<1>5. ToName(x) \in Seq(Text)
  BY <1>4, LineType DEF Written, ToName
<1>6. ToCode(x) \in Seq(Text)
  BY <1>5, LineType DEF Written, ToCode
<1>7. ToRegime(x) \in Seq(Text)
  BY <1>6, LineType DEF Written, ToRegime
<1> QED
  BY <1>1, <1>2, <1>3, <1>4, <1>5, <1>6, <1>7

(* The line tells the fields apart: they are taken from its end; the only   *)
(* one that may have no place is there for the public at large, and the     *)
(* receiver's RFC is taken before it.                                      *)
LEMMA LineTellsFields ==
  ASSUME NEW x, NEW y, Written(x), Written(y), ToUse(x) = ToUse(y)
  PROVE  /\ x.fecha = y.fecha /\ x.global.meses = y.global.meses
         /\ x.receptor.rfc = y.receptor.rfc /\ x.receptor.nombre = y.receptor.nombre
         /\ x.receptor.cp = y.receptor.cp /\ x.receptor.regimen = y.receptor.regimen
         /\ x.receptor.uso = y.receptor.uso
<1>1. ToRegime(x) = ToRegime(y) /\ x.receptor.uso = y.receptor.uso
  <2>1. ToRegime(x) \in Seq(Text) /\ ToRegime(y) \in Seq(Text)
    BY PrefixType
  <2>2. /\ x.receptor.uso \in Text /\ x.receptor.uso # Empty
        /\ y.receptor.uso \in Text /\ y.receptor.uso # Empty
    BY DEF Written
  <2>3. Line(ToRegime(x), x.receptor.uso) = Line(ToRegime(y), y.receptor.uso)
    BY DEF ToUse
  <2> QED
    BY <2>1, <2>2, <2>3, LastField
<1>2. ToCode(x) = ToCode(y) /\ x.receptor.regimen = y.receptor.regimen
  <2>1. ToCode(x) \in Seq(Text) /\ ToCode(y) \in Seq(Text)
    BY PrefixType
  <2>2. /\ x.receptor.regimen \in Text /\ x.receptor.regimen # Empty
        /\ y.receptor.regimen \in Text /\ y.receptor.regimen # Empty
    BY DEF Written
  <2>3. Line(ToCode(x), x.receptor.regimen) = Line(ToCode(y), y.receptor.regimen)
    BY <1>1 DEF ToRegime
  <2> QED
    BY <2>1, <2>2, <2>3, LastField
<1>3. ToName(x) = ToName(y) /\ x.receptor.cp = y.receptor.cp
  <2>1. ToName(x) \in Seq(Text) /\ ToName(y) \in Seq(Text)
    BY PrefixType
  <2>2. /\ x.receptor.cp \in Text /\ x.receptor.cp # Empty
        /\ y.receptor.cp \in Text /\ y.receptor.cp # Empty
    BY DEF Written
  <2>3. Line(ToName(x), x.receptor.cp) = Line(ToName(y), y.receptor.cp)
    BY <1>2 DEF ToCode
  <2> QED
    BY <2>1, <2>2, <2>3, LastField
<1>4. ToRfc(x) = ToRfc(y) /\ x.receptor.nombre = y.receptor.nombre
  <2>1. ToRfc(x) \in Seq(Text) /\ ToRfc(y) \in Seq(Text)
    BY PrefixType
  <2>2. /\ x.receptor.nombre \in Text /\ x.receptor.nombre # Empty
        /\ y.receptor.nombre \in Text /\ y.receptor.nombre # Empty
    BY DEF Written
  <2>3. Line(ToRfc(x), x.receptor.nombre) = Line(ToRfc(y), y.receptor.nombre)
    BY <1>3 DEF ToName
  <2> QED
    BY <2>1, <2>2, <2>3, LastField
<1>5. ToMonths(x) = ToMonths(y) /\ x.receptor.rfc = y.receptor.rfc
  <2>1. ToMonths(x) \in Seq(Text) /\ ToMonths(y) \in Seq(Text)
    BY PrefixType
  <2>2. /\ x.receptor.rfc \in Text /\ x.receptor.rfc # Empty
        /\ y.receptor.rfc \in Text /\ y.receptor.rfc # Empty
    BY DEF Written
  <2>3. Line(ToMonths(x), x.receptor.rfc) = Line(ToMonths(y), y.receptor.rfc)
    BY <1>4 DEF ToRfc
  <2> QED
    BY <2>1, <2>2, <2>3, LastField
<1>6. ToPlace(x) = ToPlace(y) /\ x.global.meses = y.global.meses
  <2>1. CASE x.receptor.rfc = Public
    <3>1. ToPlace(x) \in Seq(Text) /\ ToPlace(y) \in Seq(Text)
      BY PrefixType
    <3>2. /\ x.global.meses \in Text /\ x.global.meses # Empty
          /\ y.global.meses \in Text /\ y.global.meses # Empty
      BY <1>5, <2>1 DEF Written
    <3>3. Line(ToPlace(x), x.global.meses) = Line(ToPlace(y), y.global.meses)
      BY <1>5 DEF ToMonths
    <3> QED
      BY <3>1, <3>2, <3>3, LastField
  <2>2. CASE x.receptor.rfc # Public
    <3>1. x.global.meses = Empty /\ y.global.meses = Empty
      BY <1>5, <2>2 DEF Written
    <3>2. ToMonths(x) = ToPlace(x) /\ ToMonths(y) = ToPlace(y)
      BY <3>1, PrefixType, ConcatEmptySeq DEF ToMonths, Line, Field
    <3> QED
      BY <1>5, <3>1, <3>2
  <2> QED
    BY <2>1, <2>2
<1>7. ToDate(x) = ToDate(y)
  BY <1>6, PrefixType, LastField DEF ToPlace, Written
<1>8. x.fecha = y.fecha
  BY <1>7 DEF ToDate, Field, Written
<1> QED
  BY <1>1, <1>2, <1>3, <1>4, <1>5, <1>6, <1>8

(* And the document follows from the fields and the amounts.               *)
LEMMA LineTellsDocument ==
  ASSUME NEW d \in SaleData, NEW e \in SaleData,
         CadenaOriginal(GenerarXML(d)) = CadenaOriginal(GenerarXML(e))
  PROVE  GenerarXML(d) = GenerarXML(e)
<1>1. PICK x : x = GenerarXML(d)
  OBVIOUS
<1>2. PICK y : y = GenerarXML(e)
  OBVIOUS
<1>3. /\ CadenaOriginal(x).texts = CadenaOriginal(y).texts
      /\ CadenaOriginal(x).amounts = CadenaOriginal(y).amounts
  BY <1>1, <1>2
<1>4. /\ x.subtotal = y.subtotal /\ x.total = y.total /\ x.concepto = y.concepto
      /\ x.base = y.base /\ x.iva = y.iva
  BY <1>3 DEF CadenaOriginal
<1>5. \A z : CadenaOriginal(z).texts = ToUse(z)
  BY DEF CadenaOriginal, ToUse, ToRegime, ToCode, ToName, ToRfc, ToMonths, ToPlace, ToDate, Line
<1>6. Written(x) /\ Written(y)
  BY <1>1, <1>2, DocumentsAreWritten
<1>7. /\ x.fecha = y.fecha /\ x.global.meses = y.global.meses
      /\ x.receptor.rfc = y.receptor.rfc /\ x.receptor.nombre = y.receptor.nombre
      /\ x.receptor.cp = y.receptor.cp /\ x.receptor.regimen = y.receptor.regimen
      /\ x.receptor.uso = y.receptor.uso
  BY <1>3, <1>5, <1>6, LineTellsFields
<1>8. x.global = y.global
  BY <1>1, <1>2, <1>7 DEF GenerarXML, InformacionGlobal
<1>9. x.receptor = y.receptor
  <2>1. x.receptor = Receptor(d) /\ y.receptor = Receptor(e)
    BY <1>1, <1>2 DEF GenerarXML
  <2>2. \A z : LET r == Receptor(z) IN
          r = [rfc |-> r.rfc, nombre |-> r.nombre, cp |-> r.cp,
               regimen |-> r.regimen, uso |-> r.uso]
    BY DEF Receptor
  <2> QED
    BY <1>7, <2>1, <2>2
<1>10. x.lugar = y.lugar
  BY <1>1, <1>2 DEF GenerarXML
<1>11. \A z : LET w == GenerarXML(z) IN
         w = [fecha |-> w.fecha, subtotal |-> w.subtotal, total |-> w.total,
              lugar |-> w.lugar, global |-> w.global, receptor |-> w.receptor,
              concepto |-> w.concepto, base |-> w.base, iva |-> w.iva]
  BY DEF GenerarXML
<1> QED
  BY <1>1, <1>2, <1>4, <1>7, <1>8, <1>9, <1>10, <1>11

(* The signature is that of the document's line.                           *)
Signed == step = "signed" => sello = <<CadenaOriginal(document)>>

(* Whoever alters the date, the receiver or an amount of a sale gets a      *)
(* document that FirmarXML's signature does not fit, for all dates,        *)
(* receivers, postal codes and totals, although generarCadenaOriginal      *)
(* leaves out empty fields.                                                *)
THEOREM SealsFitOneDocument == SpecXml => []SealFitsOneDocument
<1>1. InitXml => Signed
  BY DEF InitXml, Signed
<1>2. Signed /\ [NextXml]_xmlVars => Signed'
  BY DEF Signed, NextXml, Generar, Firmar, FirmarFails, xmlVars
<1>3. Generated /\ Signed => SealFitsOneDocument
  <2> SUFFICES ASSUME Generated, Signed, step = "signed", NEW d \in SaleData,
                      sello = <<CadenaOriginal(GenerarXML(d))>>
               PROVE  GenerarXML(d) = document
    BY DEF SealFitsOneDocument
  <2>1. data \in SaleData /\ document = GenerarXML(data)
    BY DEF Generated
  <2>2. CadenaOriginal(GenerarXML(d)) = CadenaOriginal(GenerarXML(data))
    BY <2>1 DEF Signed
  <2> QED
    BY <2>1, <2>2, LineTellsDocument
<1> QED
  BY <1>1, <1>2, <1>3, DocumentIsGenerated, PTL DEF SpecXml

===================================================================================
