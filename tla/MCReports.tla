--------------------------------- MODULE MCReports ---------------------------------
EXTENDS Reports, TLC

MCSymmetry == Permutations(Tenants) \cup Permutations(Sales) \cup Permutations(Names)

====================================================================================
