------------------------------- MODULE MCInvoiceXml -------------------------------
EXTENDS InvoiceXml

MCDates == {"d1", "d2", "d3"}

MCMonthOf == [d \in MCDates |-> IF d = "d3" THEN "m2" ELSE "m1"]

\* Whole cents, 90 % of a price, and values that lie between two cents.
MCTotals == {10, 290, 1990, 17990} \cup {17991, 18} \cup {5, 145, 725, 3625}

MCRfcs == {"EKU9003173C9", "rfc"}

MCCodes == {"06600", "cp"}

===================================================================================
