------------------------------ MODULE MCDecode ------------------------------
(* Decode on a small alphabet: digits, the comma and one other byte.       *)
EXTENDS Decode

CONSTANTS d1, d2, c, x

MCDigits == {d1, d2}
MCBytes == {d1, d2, c, x}

\* The liveness run: one digit is enough to tell messages apart by length.
MCDigitsOne == {d1}
MCBytesOne == {d1, c, x}

=============================================================================
