---------------------------------- MODULE MCSales ----------------------------------
(* Sales with concurrent calls, one product in stock and one demo     *)
(* product whose id ("1") is no UUID, as the register's demo catalogue has. *)
EXTENDS Sales

CONSTANTS cola, demo

MCProducts == {cola, demo}

MCMalformed == {demo}

Line(p, q) == [product |-> p, quantity |-> q]

(* No line, one line, two lines of the same product, and a line that fails  *)
(* after one that did not.                                                  *)
MCCarts == {<<>>, <<Line(cola, 1)>>, <<Line(cola, 1), Line(cola, 2)>>,
            <<Line(cola, 2), Line(demo, 1)>>}

(* Less than two calls sell together.                                       *)
MCInitialStock == [p \in MCProducts |-> 2]

====================================================================================
