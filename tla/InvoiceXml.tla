------------------------------- MODULE InvoiceXml -------------------------------
(***************************************************************************)
(* The document of an invoice: GenerarXML writes it from the sale,         *)
(* generarCadenaOriginal reads it back and lines up its fields, and        *)
(* FirmarXML signs that line and puts the signature into the document.     *)
(*                                                                         *)
(* Amounts are counted in tenths of a cent, since a discount leaves totals *)
(* that are no whole cents; what %.2f prints is counted in cents. Fields   *)
(* that are the same in every document, the issuer's among them, are left  *)
(* out. Timbrar makes one item of the sale, so the only concept has the    *)
(* amounts of the document.                                                *)
(***************************************************************************)
EXTENDS Integers, Sequences

CONSTANTS
  Dates,    \* time.Now(), to the second
  MonthOf,  \* the month of a date
  Totals,   \* the totals of sales, in tenths of a cent
  Rfcs,     \* the receivers a request may name
  Codes,    \* their postal codes
  Issued    \* "64000", the postal code of the issuer

ASSUME TotalsAssumption == Totals \subseteq Nat

Empty == ""

ASSUME TextsAssumption ==
  Empty \notin Dates \cup {MonthOf[d] : d \in Dates} \cup Rfcs \cup Codes \cup {Issued}

Public == "XAXX010101000"
Test == "EKU9003173C9"
PublicName == "PUBLICO EN GENERAL"
TestName == "ESCUELA KEMPER URGATE"

VARIABLES
  step,     \* how far Timbrar is
  data,     \* the SaleData
  document, \* the Comprobante
  sello     \* its Sello: empty, or the signature

xmlVars == <<step, data, document, sello>>

(* SaleData, and which way %.2f takes a value that lies between two cents. *)
SaleData ==
  [fecha: Dates, rfc: Rfcs \cup {Empty, Public}, cp: Codes \cup {Empty}, total: Totals,
   up: [base: BOOLEAN, tax: BOOLEAN, total: BOOLEAN]]

NoData == [total |-> 0]
NoDocument == [total |-> 0]

InitXml ==
  /\ step = "new"
  /\ data = NoData
  /\ document = NoDocument
  /\ sello = <<>>

-----------------------------------------------------------------------------------
(* GenerarXML.                                                             *)

(* n/d rounded to the nearest integer.                                     *)
Round(n, d, up) ==
  LET q == n \div d
      twice == 2 * (n - d * q) IN
  IF twice > d \/ (twice = d /\ up) THEN q + 1 ELSE q

(* In cents: the subtotal, subtotal / 1.16 and what that leaves of it, each *)
(* printed on its own.                                                     *)
PrintTotal(t, up) == Round(t, 10, up)
PrintBase(t, up) == Round(5 * t, 58, up)

(* Wrong: sixteen per cent of a subtotal that includes the tax.            *)
PrintTaxOfTotal(t, up) == Round(2 * t, 125, up)

PrintTax(t, up) == Round(2 * t, 145, up)

ForPublic(d) == d.rfc \in {Empty, Public}

(* The public at large has a regime, a use and a postal code of its own;   *)
(* other receivers have those of a company, whatever the request says.     *)
(* Timbrar passes no name, so it is the RFC.                               *)
Receptor(d) ==
  IF ForPublic(d)
    THEN [rfc |-> Public, nombre |-> PublicName, cp |-> Issued,
          regimen |-> "616", uso |-> "S01"]
    ELSE [rfc |-> d.rfc,
          nombre |-> IF d.rfc = Test THEN TestName ELSE d.rfc,
          cp |-> IF d.cp = Empty THEN Issued ELSE d.cp,
          regimen |-> "601", uso |-> "G03"]

(* Only the public's document has one.                                     *)
InformacionGlobal(d) == IF ForPublic(d) THEN [meses |-> MonthOf[d.fecha]] ELSE [meses |-> Empty]

GenerarXML(d) ==
  [fecha    |-> d.fecha,
   subtotal |-> PrintBase(d.total, d.up.base),
   total    |-> PrintTotal(d.total, d.up.total),
   lugar    |-> Issued,
   global   |-> InformacionGlobal(d),
   receptor |-> Receptor(d),
   concepto |-> d.total,  \* Importe: subtotal / 1.16 with six decimals
   base     |-> PrintBase(d.total, d.up.base),
   iva      |-> PrintTax(d.total, d.up.tax)]

Generar ==
  /\ step = "new"
  /\ data' \in SaleData
  /\ document' = GenerarXML(data')
  /\ step' = "generated"
  /\ UNCHANGED sello

-----------------------------------------------------------------------------------
(* FirmarXML.                                                              *)

(* add(): a field that is empty, or not in the document, has no place.     *)
Field(v) == IF v = Empty THEN <<>> ELSE <<v>>

(* Wrong: the line has the amounts of the document but not of the concept, *)
(* and not the receiver's postal code.                                     *)
CadenaOfTotals(x) ==
  [texts   |-> Field(x.fecha) \o Field(x.lugar) \o Field(x.global.meses)
                 \o Field(x.receptor.rfc) \o Field(x.receptor.nombre)
                 \o Field(x.receptor.regimen) \o Field(x.receptor.uso),
   amounts |-> <<x.subtotal, x.total, x.base, x.iva>>]

(* Every field but the signature and the certificate, in the SAT's order;  *)
(* texts and amounts, which are never empty, are lined up apart here. The  *)
(* code joins the fields with "|"; no field is taken to have one in it.     *)
CadenaOriginal(x) ==
  [texts   |-> Field(x.fecha) \o Field(x.lugar) \o Field(x.global.meses)
                 \o Field(x.receptor.rfc) \o Field(x.receptor.nombre) \o Field(x.receptor.cp)
                 \o Field(x.receptor.regimen) \o Field(x.receptor.uso),
   amounts |-> <<x.subtotal, x.total, x.concepto, x.base, x.iva>>]

(* SHA-256 and PKCS #1 are taken to be injective: the signature stands for *)
(* the line it signs. It takes the place of Sello="" in the document.       *)
Firmar ==
  /\ step = "generated"
  /\ sello' = <<CadenaOriginal(document)>>
  /\ step' = "signed"
  /\ UNCHANGED <<data, document>>

(* parsePrivateKey knows neither the kind of the key nor the password.     *)
FirmarFails ==
  /\ step = "generated"
  /\ step' = "failed"
  /\ UNCHANGED <<data, document, sello>>

NextXml == Generar \/ Firmar \/ FirmarFails

SpecXml == InitXml /\ [][NextXml]_xmlVars

-----------------------------------------------------------------------------------
(* What an invoice prints: the base and the tax, rounded independently,    *)
(* make up the printed total, if the sale's total was a whole number of     *)
(* cents; otherwise, as after a discount, they may miss it by one cent.     *)
AmountsAdd ==
  step # "new" =>
    LET rest == document.total - (document.base + document.iva) IN
    /\ rest \in -1 .. 1
    /\ data.total % 10 = 0 => rest = 0

(* The signature of a document fits no other: whoever alters the date, the *)
(* receiver or an amount of a sale gets a document the signature does not   *)
(* fit, although empty fields have no place in the line that is signed.    *)
SealFitsOneDocument ==
  step = "signed" =>
    \A d \in SaleData : sello = <<CadenaOriginal(GenerarXML(d))>> => GenerarXML(d) = document

=================================================================================
