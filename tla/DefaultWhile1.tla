---------------------------- MODULE DefaultWhile1 ----------------------------
(***************************************************************************)
(* The default RangeStreamOnce::uncons_while1 (src/src/stream/mod.rs)      *)
(* folded by the free function uncons_while1, on a cursor that keeps the   *)
(* default: one whose uncons_while can fail, here a cursor over a source   *)
(* that may hold an I/O error in place of an item.                         *)
(***************************************************************************)
EXTENDS Naturals, Sequences

CONSTANTS
  Items,    \* the items of the source
  IoError,  \* a read that fails instead of giving an item (not in Items)
  Pred,     \* the predicate f, as the subset of Items it accepts
  Inputs    \* the sources a parse can be given: sequences over Items and IoError

VARIABLES
  input,    \* the source
  pos,      \* how much of it the cursor has read
  partial,  \* is_partial() of the cursor
  res,      \* the outcome of the last call of uncons_while1
  matched   \* how many items f accepted in that call

vars == <<input, pos, partial, res, matched>>

MinOf(S) == CHOOSE m \in S : \A x \in S : m <= x

\* input_at_eof: the next uncons would fail with end of input (not with an
\* I/O error).
AtEof(s, p) == p = Len(s)

\* The cursor's uncons_while: reads items while f accepts them; a read that
\* fails ends the call with that error, the items read before it consumed.
FallibleUnconsWhile(s, p) ==
  LET q == MinOf({x \in p .. Len(s) : x = Len(s) \/ s[x + 1] \notin Pred}) IN
  IF q < Len(s) /\ s[q + 1] = IoError
  THEN [ok |-> FALSE, err |-> "Other", pos |-> q]
  ELSE [ok |-> TRUE, pos |-> q]

\* The default uncons_while1: consumed is set when f accepted an item; the
\* result of uncons_while is kept only then, and an empty scan is EmptyErr.
DefaultUnconsWhile1(s, p) ==
  LET r == FallibleUnconsWhile(s, p)
      consumed == r.pos > p
  IN CASE consumed /\ r.ok  -> [tag |-> "ConsumedOk", pos |-> r.pos]
       [] consumed /\ ~r.ok -> [tag |-> "ConsumedErr", err |-> r.err, pos |-> r.pos]
       [] OTHER             -> [tag |-> "EmptyErr", err |-> "Unexpected", pos |-> r.pos]

\* wrap_stream_error: a partial cursor reports the error as consumed.
WrapStreamError(e, pt) ==
  IF pt THEN [tag |-> "ConsumedErr", err |-> e] ELSE [tag |-> "EmptyErr", err |-> e]

\* The free function uncons_while1: at the end of a partial input every arm
\* becomes a consumed end-of-input error; otherwise ConsumedOk is kept,
\* EmptyErr stays empty and ConsumedErr goes through wrap_stream_error.
UnconsWhile1(s, p, pt) ==
  LET r == DefaultUnconsWhile1(s, p) IN
  IF pt /\ AtEof(s, r.pos) THEN [tag |-> "ConsumedErr", err |-> "Eoi"]
  ELSE CASE r.tag = "ConsumedOk"  -> [tag |-> "ConsumedOk"]
         [] r.tag = "EmptyErr"    -> [tag |-> "EmptyErr", err |-> "Unexpected"]
         [] r.tag = "ConsumedErr" -> WrapStreamError(r.err, pt)

Init ==
  /\ input \in Inputs
  /\ partial \in BOOLEAN
  /\ pos = 0
  /\ res = [tag |-> "None"]
  /\ matched = 0

\* A parser calls uncons_while1(input, f).
Call ==
  LET r == DefaultUnconsWhile1(input, pos) IN
  /\ res' = UnconsWhile1(input, pos, partial)
  /\ pos' = r.pos
  /\ matched' = r.pos - pos
  /\ UNCHANGED <<input, partial>>

Next == Call

Spec == Init /\ [][Next]_vars

\* Spec 4.1: uncons_while1 reports consumed exactly when at least one item
\* matched (apart from the partial end-of-input correction), so that a
\* caller can tell "nothing matched" from "matched, then failed".
While1ConsumedIffMatched ==
  res.tag # "None" /\ ~(partial /\ AtEof(input, pos)) =>
    (res.tag \in {"ConsumedOk", "ConsumedErr"} <=> matched > 0)

=============================================================================
