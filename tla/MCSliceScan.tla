---------------------------- MODULE MCSliceScan ----------------------------
(* SliceScan on items a (accepted by f) and b (rejected).  The loop reads  *)
(* a slice only up to its first rejected item, so the slices of the form   *)
(* a^n or a^n b a^m of up to MaxLen items show every behaviour of it.      *)
EXTENDS SliceScan

CONSTANTS a, b, MaxLen

MCInputs ==
  UNION {{[x \in 1 .. n |-> IF x = f THEN b ELSE a] : f \in 1 .. n + 1} :
           n \in 0 .. MaxLen}
=============================================================================
