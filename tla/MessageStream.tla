---------------------------- MODULE MessageStream ----------------------------
(***************************************************************************)
(* What a decoder built on combine's decode promises its consumer (the     *)
(* decode contract of spec.md, sections 4.4 and 6): whatever the chunks    *)
(* the bytes arrive in, the messages handed out are, in order, the ones a  *)
(* single parse of all the bytes received so far finds, each handed out    *)
(* once; and once the bytes after the last message can no longer start a  *)
(* message, the stream fails and stays failed.                             *)
(*                                                                         *)
(* The message format is the one of the spec's example: a run of digits    *)
(* ended by a comma.  Any byte that is neither makes the stream malformed. *)
(***************************************************************************)
EXTENDS Naturals, Sequences, FiniteSets

CONSTANTS
  Digits,    \* the digit bytes
  Comma,     \* the byte that ends a message
  Bytes,     \* every byte the transport can deliver
  MaxBytes   \* bound on the number of bytes delivered

VARIABLES
  received,  \* every byte delivered so far, in order
  out,       \* the messages handed to the consumer, in order
  failed     \* the stream ended with a parse error

vars == <<received, out, failed>>

(***************************************************************************)
(* The single-shot reading of a byte sequence s.                           *)
(***************************************************************************)
IsBad(b) == b \notin Digits \cup {Comma}

\* The index of the first byte that can be neither digit nor comma, or
\* Len(s) + 1 when there is none.
Limit(s) ==
  IF \E i \in 1 .. Len(s) : IsBad(s[i])
  THEN CHOOSE i \in 1 .. Len(s) : IsBad(s[i]) /\ \A j \in 1 .. i - 1 : ~IsBad(s[j])
  ELSE Len(s) + 1

\* The commas that end a well-formed message.
Ends(s) == {i \in 1 .. Len(s) : s[i] = Comma /\ i < Limit(s)}

\* The index of the k-th of them (0 for k = 0).
NthEnd(s, k) ==
  IF k = 0 THEN 0
  ELSE CHOOSE i \in Ends(s) : Cardinality({j \in Ends(s) : j <= i}) = k

\* The complete messages of s, without their commas.
Messages(s) ==
  [k \in 1 .. Cardinality(Ends(s)) |-> SubSeq(s, NthEnd(s, k - 1) + 1, NthEnd(s, k) - 1)]

\* s holds a byte that no message can contain.
Malformed(s) == Limit(s) <= Len(s)

(***************************************************************************)
(* The contract as a state machine.                                        *)
(***************************************************************************)
Init ==
  /\ received = <<>>
  /\ out = <<>>
  /\ failed = FALSE

\* The transport delivers one more byte.
Receive ==
  /\ ~failed
  /\ Len(received) < MaxBytes
  /\ \E b \in Bytes : received' = Append(received, b)
  /\ UNCHANGED <<out, failed>>

\* The next complete message is handed out.
Deliver ==
  /\ ~failed
  /\ Len(out) < Len(Messages(received))
  /\ out' = Append(out, Messages(received)[Len(out) + 1])
  /\ UNCHANGED <<received, failed>>

\* Every message before the bad byte has been handed out; the stream fails.
Fail ==
  /\ ~failed
  /\ Malformed(received)
  /\ Len(out) = Len(Messages(received))
  /\ failed' = TRUE
  /\ UNCHANGED <<received, out>>

Next == Receive \/ Deliver \/ Fail

\* A message that has arrived is eventually handed out, and a malformed
\* stream eventually fails.
Spec == Init /\ [][Next]_vars /\ WF_vars(Deliver) /\ WF_vars(Fail)

=============================================================================
