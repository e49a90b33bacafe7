-------------------------------- MODULE MCCustomers --------------------------------
EXTENDS Customers, TLC

\* In three bits: what fits, and what is one after the low bits are kept.
MCAsked == {1, 9}

MCSymmetry == Permutations(Tills)

====================================================================================
