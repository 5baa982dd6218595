--------------------------- MODULE MCDefaultWhile1 ---------------------------
(* Sources of up to three reads over an accepted and a rejected item.      *)
EXTENDS DefaultWhile1

CONSTANTS a, z, err

MCItems == {a, z}
MCPred == {a}
MCInputs == UNION {[1 .. n -> {a, z, err}] : n \in 0 .. 3}

=============================================================================
