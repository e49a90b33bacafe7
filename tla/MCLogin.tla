---------------------------------- MODULE MCLogin ----------------------------------
(* Nothing is asked of one request, or of one host, that is not asked of    *)
(* another.                                                                *)
EXTENDS Login, TLC

MCSymmetry == Permutations(Requests) \cup Permutations(Hosts)

====================================================================================
