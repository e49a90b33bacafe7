-------------------------------- MODULE MCInvoices --------------------------------
(* Invoices with two sales and two stampings, which may be of one sale, and *)
(* two documents, which the stampings may share.                           *)
EXTENDS Invoices

===================================================================================
