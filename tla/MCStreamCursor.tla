--------------------------- MODULE MCStreamCursor ---------------------------
(* Small instances of StreamCursor for TLC: the items d (a digit), c (a    *)
(* comma) and e (a char of two UTF-8 bytes, U+0080), inputs of up to       *)
(* MaxItems items.                                                         *)
EXTENDS StreamCursor

CONSTANTS d, c, e, MaxItems

\* The UTF-8 encodings of the model chars, and the identity for a slice.
MCStrEnc == [s \in {d, c, e} |-> CASE s = d -> <<49>>
                                  [] s = c -> <<44>>
                                  [] s = e -> <<194, 128>>]
MCSliceEnc == [s \in {d, c} |-> <<s>>]

RECURSIVE Concat(_)
Concat(ss) == IF ss = <<>> THEN <<>> ELSE Head(ss) \o Concat(Tail(ss))

\* The encodings of every item sequence of at most MaxItems items.
MCInputs ==
  UNION {{Concat([i \in 1 .. n |-> Enc[cs[i]]]) : cs \in [1 .. n -> Syms]} :
           n \in 0 .. MaxItems}
=============================================================================
