---------------------------- MODULE StreamCursor ----------------------------
(***************************************************************************)
(* The cursor layer of combine (src/src/stream/mod.rs).                    *)
(*                                                                         *)
(* A cursor is a slice value -- &str or &[T] (SliceStream behaves like     *)
(* &[T]) -- over a buffer, optionally wrapped in PartialStream, which      *)
(* delegates everything and only answers is_partial() = TRUE.  The slice   *)
(* is the suffix of the buffer that starts at offset pos; its position     *)
(* (a PointerOffset) is the buffer's base address plus pos.  For &str the  *)
(* units of the buffer are UTF-8 bytes and the items are chars; for a      *)
(* slice the units are the items.                                          *)
(*                                                                         *)
(* Each primitive is the free function of the module (uncons,              *)
(* uncons_range, uncons_while, uncons_while1) together with the concrete   *)
(* RangeStreamOnce method it calls, so one step is one call of the free    *)
(* function, exactly as a parser makes it.  The primitives are written as  *)
(* pure operators of (buffer, offset, partial flag) so that the same code  *)
(* can be run on the complete input for comparison.                        *)
(***************************************************************************)
EXTENDS Naturals, Sequences, FiniteSets

CONSTANTS
  Kind,     \* "str" (&str: units are bytes, items chars) or "slice" (&[T])
  Syms,     \* the items an input is made of (chars, or values of T)
  Enc,      \* Enc[s]: the units of item s (UTF-8 bytes; <<s>> for a slice)
  Inputs,   \* the complete inputs (unit sequences) a parse can be given
  Preds,    \* the predicates callers pass to uncons_while(1), as item sets
  Sizes     \* the sizes callers pass to uncons_range

\* The units a buffer is made of.
Units == IF Kind = "str" THEN 0 .. 255 ELSE Syms

\* A byte that starts a char: the test `b < 128 || b >= 192` of
\* is_char_boundary.
IsLead(b) == b < 128 \/ b >= 192

ASSUME KindAssumption == Kind \in {"str", "slice"}

\* Every item has a non-empty encoding and no encoding is a prefix of
\* another item's (UTF-8 is prefix free, so a &str decodes one way only);
\* a char starts with its one lead byte.
ASSUME EncAssumption ==
  /\ Enc \in [Syms -> Seq(Units) \ {<<>>}]
  /\ \A s, t \in Syms :
        Len(Enc[s]) <= Len(Enc[t]) /\ SubSeq(Enc[t], 1, Len(Enc[s])) = Enc[s] => s = t
  /\ Kind = "slice" => \A s \in Syms : Enc[s] = <<s>>
  /\ Kind = "str" =>
       \A s \in Syms : /\ IsLead(Enc[s][1])
                       /\ \A j \in 2 .. Len(Enc[s]) : ~IsLead(Enc[s][j])

ASSUME ArgsAssumption == Preds \subseteq SUBSET Syms /\ Sizes \subseteq Nat

(***************************************************************************)
(* Decoding.  The item at a char boundary k of buffer b is the unique item *)
(* whose encoding starts there (UTF-8 is prefix free).                     *)
(***************************************************************************)
Width(s) == Len(Enc[s])

\* The item that starts at offset k of b.
ItemAt(b, k) ==
  CHOOSE s \in Syms : k + Width(s) <= Len(b) /\ SubSeq(b, k + 1, k + Width(s)) = Enc[s]

\* is_char_boundary(s, index) of RangeStreamOnce for &str, on the remaining
\* slice s.  For a slice every offset is an item boundary.
IsCharBoundary(s, index) ==
  IF Kind = "slice" THEN index <= Len(s)
  ELSE \/ index = Len(s)
       \/ index < Len(s) /\ IsLead(s[index + 1])

\* The item boundaries of b: offsets 0 .. Len(b) where an item starts or b ends.
Bounds(b) == {k \in 0 .. Len(b) : IsCharBoundary(b, k)}

\* Every boundary before the end starts the encoding of an item, and the
\* item ends at a boundary (valid UTF-8).
WellFormed(b) ==
  \A k \in Bounds(b) \ {Len(b)} :
     LET s == ItemAt(b, k) IN
     /\ s \in Syms
     /\ k + Width(s) <= Len(b)
     /\ SubSeq(b, k + 1, k + Width(s)) = Enc[s]
     /\ k + Width(s) \in Bounds(b)

\* The inputs, and every prefix of them cut at an item boundary (what a
\* partial cursor may have received of them), are valid UTF-8.
ASSUME InputsAssumption ==
  /\ Inputs \subseteq Seq(Units)
  /\ \A b \in Inputs : \A n \in Bounds(b) :
        0 \in Bounds(SubSeq(b, 1, n)) /\ WellFormed(SubSeq(b, 1, n))

\* The least element of a non-empty set of naturals.
Least(S) == CHOOSE m \in S : \A x \in S : m <= x

(***************************************************************************)
(* Results.  Raw results are the Result<_, StreamError> of the concrete    *)
(* methods; outcomes are the four FastResult variants the free functions   *)
(* return.  An error carries the position at which it was made.            *)
(***************************************************************************)
OkTags  == {"ConsumedOk", "EmptyOk"}
ErrTags == {"ConsumedErr", "EmptyErr"}
Errors  == {"Eoi", "CharacterBoundary", "Unexpected"}

RawOk(v, p) == [ok |-> TRUE, val |-> v, pos |-> p]
RawErr(e)   == [ok |-> FALSE, err |-> e]
Ok(tag, v)      == [tag |-> tag, val |-> v]
Err(tag, e, at) == [tag |-> tag, err |-> e, at |-> at]
NoResult == [tag |-> "None"]

\* wrap_stream_error: attach the position; a partial input reports the
\* error as consumed so that no alternative is tried.
WrapStreamError(p, e, pt) ==
  IF pt THEN Err("ConsumedErr", e, p) ELSE Err("EmptyErr", e, p)

\* input_at_eof: uncons at offset p would fail with end of input.
AtEof(b, p) == p = Len(b)

(***************************************************************************)
(* StreamOnce::uncons of &str and &[T], folded by the free function uncons.*)
(***************************************************************************)
Uncons(b, p, pt) ==
  IF p < Len(b)
  THEN LET c == ItemAt(b, p)
       IN [pos |-> p + Width(c), res |-> Ok("ConsumedOk", Enc[c])]
  ELSE [pos |-> p, res |-> WrapStreamError(p, "Eoi", pt)]

(***************************************************************************)
(* RangeStreamOnce::uncons_range of &str (with the boundary check) and of  *)
(* &[T], folded by the free function uncons_range.                         *)
(***************************************************************************)
\* Fault: uncons_range of &str without the is_char_boundary test.
StrUnconsRangeUnchecked(b, p, size) ==
  IF size <= Len(b) - p THEN RawOk(SubSeq(b, p + 1, p + size), p + size)
  ELSE RawErr("Eoi")

StrUnconsRange(b, p, size) ==
  LET s == SubSeq(b, p + 1, Len(b)) IN
  IF size <= Len(s)
  THEN IF IsCharBoundary(s, size) THEN RawOk(SubSeq(s, 1, size), p + size)
       ELSE RawErr("CharacterBoundary")
  ELSE RawErr("Eoi")

SliceUnconsRange(b, p, size) ==
  IF size <= Len(b) - p THEN RawOk(SubSeq(b, p + 1, p + size), p + size)
  ELSE RawErr("Eoi")

\* Fault: the cursor is advanced by size before the raw result is checked.
UnconsRangeAdvanceOnError(b, p, size, pt) ==
  LET r == IF Kind = "str" THEN StrUnconsRange(b, p, size)
           ELSE SliceUnconsRange(b, p, size)
  IN IF ~r.ok THEN [pos |-> p + size, res |-> WrapStreamError(p + size, r.err, pt)]
     ELSE [pos |-> r.pos, res |-> Ok(IF size = 0 THEN "EmptyOk" ELSE "ConsumedOk", r.val)]

\* Fault: uncons_range without the size == 0 case, always ConsumedOk.
UnconsRangeAlwaysConsumed(b, p, size, pt) ==
  LET r == IF Kind = "str" THEN StrUnconsRange(b, p, size)
           ELSE SliceUnconsRange(b, p, size)
  IN IF ~r.ok THEN [pos |-> p, res |-> WrapStreamError(p, r.err, pt)]
     ELSE [pos |-> r.pos, res |-> Ok("ConsumedOk", r.val)]

UnconsRange(b, p, size, pt) ==
  LET r == IF Kind = "str" THEN StrUnconsRange(b, p, size)
           ELSE SliceUnconsRange(b, p, size)
  IN IF ~r.ok THEN [pos |-> p, res |-> WrapStreamError(p, r.err, pt)]
     ELSE [pos |-> r.pos,
           res |-> Ok(IF size = 0 THEN "EmptyOk" ELSE "ConsumedOk", r.val)]

(***************************************************************************)
(* The scans.  str_uncons_while(slice, chars, f) runs the chars iterator,  *)
(* positioned at offset from, up to the first char failing f and cuts the  *)
(* slice at slice.len() - chars.as_str().len() - last_char_size.           *)
(* slice_uncons_while(slice, i, f) advances i up to the first item failing *)
(* f (its 8-wide unrolled loop stops at the same index) and splits there.  *)
(***************************************************************************)
\* Fault: the cut ignores last_char_size, keeping the char that failed f.
StrUnconsWhileNoLastChar(b, p, from, P) ==
  LET k == Least({j \in Bounds(b) : j >= from /\ (j = Len(b) \/ ItemAt(b, j) \notin P)})
      found == k < Len(b)
      lastCharSize == IF found THEN Width(ItemAt(b, k)) ELSE 0
      asStrLen == IF found THEN Len(b) - k - lastCharSize ELSE 0
      len == (Len(b) - p) - asStrLen
  IN RawOk(SubSeq(b, p + 1, p + len), p + len)

StrUnconsWhile(b, p, from, P) ==
  LET k == Least({j \in Bounds(b) : j >= from /\ (j = Len(b) \/ ItemAt(b, j) \notin P)})
      found == k < Len(b)
      lastCharSize == IF found THEN Width(ItemAt(b, k)) ELSE 0
      asStrLen == IF found THEN Len(b) - k - lastCharSize ELSE 0
      len == (Len(b) - p) - asStrLen - lastCharSize
  IN RawOk(SubSeq(b, p + 1, p + len), p + len)

SliceUnconsWhile(b, p, i, P) ==
  LET s == SubSeq(b, p + 1, Len(b))
      j == Least({x \in i .. Len(s) : x = Len(s) \/ s[x + 1] \notin P})
  IN RawOk(SubSeq(s, 1, j), p + j)

\* The free function uncons_while over RangeStreamOnce::uncons_while.
\* Fault: uncons_while without the partial end-of-input correction.
UnconsWhileNoEofCheck(b, p, P, pt) ==
  LET r == IF Kind = "str" THEN StrUnconsWhile(b, p, p, P)
           ELSE SliceUnconsWhile(b, p, 0, P)
  IN IF ~r.ok THEN [pos |-> p, res |-> WrapStreamError(p, r.err, pt)]
     ELSE [pos |-> r.pos,
           res |-> Ok(IF Len(r.val) = 0 THEN "EmptyOk" ELSE "ConsumedOk", r.val)]

UnconsWhile(b, p, P, pt) ==
  LET r == IF Kind = "str" THEN StrUnconsWhile(b, p, p, P)
           ELSE SliceUnconsWhile(b, p, 0, P)
  IN IF ~r.ok THEN [pos |-> p, res |-> WrapStreamError(p, r.err, pt)]
     ELSE IF pt /\ AtEof(b, r.pos)
          THEN [pos |-> r.pos, res |-> Err("ConsumedErr", "Eoi", r.pos)]
          ELSE [pos |-> r.pos,
                res |-> Ok(IF Len(r.val) = 0 THEN "EmptyOk" ELSE "ConsumedOk", r.val)]

\* RangeStreamOnce::uncons_while1 of &str and of &[T]: an EmptyErr when the
\* first item is missing or fails f, else a ConsumedOk scan past it.
StrUnconsWhile1(b, p, P) ==
  IF p = Len(b) \/ ItemAt(b, p) \notin P THEN [tag |-> "EmptyErr", err |-> "Unexpected"]
  ELSE LET r == StrUnconsWhile(b, p, p + Width(ItemAt(b, p)), P)
       IN [tag |-> "ConsumedOk", val |-> r.val, pos |-> r.pos]

SliceUnconsWhile1(b, p, P) ==
  IF p = Len(b) \/ b[p + 1] \notin P THEN [tag |-> "EmptyErr", err |-> "Unexpected"]
  ELSE LET r == SliceUnconsWhile(b, p, 1, P)
       IN [tag |-> "ConsumedOk", val |-> r.val, pos |-> r.pos]

\* The free function uncons_while1: every inner outcome is overridden by a
\* consumed end-of-input error when a partial input is at its end.
UnconsWhile1(b, p, P, pt) ==
  LET r == IF Kind = "str" THEN StrUnconsWhile1(b, p, P) ELSE SliceUnconsWhile1(b, p, P)
      q == IF r.tag = "ConsumedOk" THEN r.pos ELSE p
  IN IF pt /\ AtEof(b, q) THEN [pos |-> q, res |-> Err("ConsumedErr", "Eoi", q)]
     ELSE CASE r.tag = "ConsumedOk" -> [pos |-> q, res |-> Ok("ConsumedOk", r.val)]
            [] r.tag = "EmptyErr"   -> [pos |-> q, res |-> Err("EmptyErr", "Unexpected", q)]
            [] r.tag = "ConsumedErr" -> [pos |-> q, res |-> WrapStreamError(q, r.err, pt)]

\* Fault: distance of &str counts chars rather than bytes.
DistanceInChars(b, p, end) ==
  IF Kind = "str" THEN Cardinality({k \in end + 1 .. p : IsLead(b[k])})
  ELSE (Len(b) - end) - (Len(b) - p)

\* Fault: distance of &[T] subtracts the lengths the wrong way round.
DistanceSwapped(b, p, end) ==
  IF Kind = "str" THEN p - end ELSE (Len(b) - p) - (Len(b) - end)

\* RangeStreamOnce::distance: for &str the difference of the two positions
\* (pointers), for &[T] the difference of the two lengths.
Distance(b, p, end) ==
  IF Kind = "str" THEN p - end ELSE (Len(b) - end) - (Len(b) - p)


(***************************************************************************)
(* The cursor.  full is the complete input and buf the part of it the      *)
(* cursor views: all of it, or for a PartialStream any prefix that ends at *)
(* an item boundary (what a streaming caller has received so far).  ckpt   *)
(* is the checkpoint the caller holds (Resetable::Checkpoint is the slice  *)
(* itself, so an offset); res and op are the outcome and the call of the   *)
(* last primitive.  taken is bookkeeping for the spec's reading of         *)
(* distance: items taken by uncons plus range sizes since the checkpoint.  *)
(***************************************************************************)
VARIABLES full, buf, partial, pos, ckpt, res, op, taken

vars == <<full, buf, partial, pos, ckpt, res, op, taken>>

\* The calls a parser makes, with their arguments.
Ops == [name : {"uncons"}] \cup [name : {"range"}, size : Sizes]
       \cup [name : {"while", "while1"}, pred : Preds]
       \cup [name : {"checkpoint", "reset"}]

\* The primitive o on buffer b at offset p, partial or not.
Exec(o, b, p, pt) ==
  CASE o.name = "uncons" -> Uncons(b, p, pt)
    [] o.name = "range"  -> UnconsRange(b, p, o.size, pt)
    [] o.name = "while"  -> UnconsWhile(b, p, o.pred, pt)
    [] o.name = "while1" -> UnconsWhile1(b, p, o.pred, pt)

\* The prefixes of b that end at an item boundary.
BoundaryPrefixes(b) == {SubSeq(b, 1, n) : n \in Bounds(b)}

Init ==
  /\ full \in Inputs
  /\ partial \in BOOLEAN
  /\ buf \in IF partial THEN BoundaryPrefixes(full) ELSE {full}
  /\ pos = 0
  /\ ckpt = 0
  /\ res = NoResult
  /\ op = [name |-> "checkpoint"]
  /\ taken = 0

\* A call of a primitive: the cursor moves to r.pos and the outcome is r.res.
Call(o) ==
  LET r == Exec(o, buf, pos, partial) IN
  /\ pos' = r.pos
  /\ res' = r.res
  /\ op' = o
  /\ taken' = taken + (IF o.name # "uncons" THEN r.pos - pos
                       ELSE IF r.pos > pos THEN 1 ELSE 0)
  /\ UNCHANGED <<full, buf, partial, ckpt>>

UnconsStep == Call([name |-> "uncons"])

UnconsRangeStep == \E n \in Sizes : Call([name |-> "range", size |-> n])

UnconsWhileStep == \E P \in Preds : Call([name |-> "while", pred |-> P])

UnconsWhile1Step == \E P \in Preds : Call([name |-> "while1", pred |-> P])

\* Resetable::checkpoint (clone_resetable!: the checkpoint is a clone).
CheckpointStep ==
  /\ ckpt' = pos
  /\ res' = NoResult
  /\ op' = [name |-> "checkpoint"]
  /\ taken' = 0
  /\ UNCHANGED <<full, buf, partial, pos>>

\* Resetable::reset (clone_resetable!: *self = checkpoint).
ResetStep ==
  /\ pos' = ckpt
  /\ res' = NoResult
  /\ op' = [name |-> "reset"]
  /\ taken' = 0
  /\ UNCHANGED <<full, buf, partial, ckpt>>

Next ==
  \/ UnconsStep
  \/ UnconsRangeStep
  \/ UnconsWhileStep
  \/ UnconsWhile1Step
  \/ CheckpointStep
  \/ ResetStep

Spec == Init /\ [][Next]_vars

-----------------------------------------------------------------------------
(***************************************************************************)
(* Properties.                                                             *)
(***************************************************************************)
Results ==
  [tag : OkTags, val : Seq(Units)] \cup [tag : ErrTags, err : Errors, at : Nat]
  \cup {NoResult}

TypeOK ==
  /\ full \in Inputs
  /\ buf \in Seq(Units)
  /\ partial \in BOOLEAN
  /\ pos \in 0 .. Len(buf)
  /\ ckpt \in 0 .. Len(buf)
  /\ res \in Results
  /\ op \in Ops
  /\ taken \in Nat


\* The inductive invariant behind TypeOK and CursorOnCharBoundary: the
\* buffer stays valid UTF-8 and the cursor and the checkpoint stay on item
\* boundaries, which is what lets uncons decode a whole item.
IInv ==
  /\ TypeOK
  /\ pos \in Bounds(buf)
  /\ ckpt \in Bounds(buf)
  /\ WellFormed(buf)

(***************************************************************************)
(* The outcome algebra, which every combinator relies on to decide whether *)
(* to backtrack (free functions uncons, uncons_range, uncons_while,        *)
(* uncons_while1 and wrap_stream_error): an Empty outcome never moves the  *)
(* cursor, a ConsumedOk always does, and without PartialStream an outcome  *)
(* is Consumed exactly when the cursor moved.  A success returns exactly   *)
(* the input it stepped over (zero copy), and an error carries the         *)
(* cursor's position.                                                      *)
(***************************************************************************)
OutcomeContract ==
  [][res' # NoResult =>
       /\ res'.tag \in {"EmptyOk", "EmptyErr"} => pos' = pos
       /\ res'.tag = "ConsumedOk" => pos' > pos
       /\ ~partial => (res'.tag \in {"ConsumedOk", "ConsumedErr"} <=> pos' > pos)
       /\ res'.tag \in OkTags => res'.val = SubSeq(buf, pos + 1, pos')
       /\ res'.tag \in ErrTags => res'.at = pos']_vars

(***************************************************************************)
(* The end-of-input correction of PartialStream (uncons_while,             *)
(* uncons_while1, wrap_stream_error): whatever a partial cursor reports    *)
(* other than end of input -- every success and every other error -- is    *)
(* what the same call reports once the whole input has arrived.  A take-   *)
(* while run that reaches the end of the received data must not succeed,  *)
(* since the next chunk may continue it.                                   *)
(***************************************************************************)
PartialResultsAgree ==
  [][partial /\ res' # NoResult /\ (res'.tag \in OkTags \/ res'.err # "Eoi")
       => Exec(op', full, pos, partial) = [pos |-> pos', res |-> res']]_vars

(***************************************************************************)
(* The scans of str_uncons_while and slice_uncons_while (with the byte     *)
(* arithmetic slice.len() - chars.as_str().len() - last_char_size for      *)
(* &str): a successful uncons_while(1) returns a run of items that all     *)
(* satisfy the predicate, and leaves the cursor at the end of the input or *)
(* before an item that fails it.                                           *)
(***************************************************************************)
WhileRangeMaximal ==
  op.name \in {"while", "while1"} /\ res.tag \in OkTags =>
     /\ \A k \in Bounds(res.val) \ {Len(res.val)} : ItemAt(res.val, k) \in op.pred
     /\ pos = Len(buf) \/ ItemAt(buf, pos) \notin op.pred

(***************************************************************************)
(* &str cursors stay on char boundaries: no sequence of calls splits a     *)
(* multi-byte char (is_char_boundary in uncons_range, the scans), so the   *)
(* cursor and the checkpoint always denote valid UTF-8.                    *)
(***************************************************************************)
CursorOnCharBoundary == pos \in Bounds(buf) /\ ckpt \in Bounds(buf)

(***************************************************************************)
(* The contract stated on RangeStreamOnce::distance: after any calls since *)
(* the checkpoint, resetting to it and calling uncons_range(distance)      *)
(* succeeds and brings the cursor back to where it is.                     *)
(***************************************************************************)
DistanceReplay ==
  /\ ckpt <= pos
  /\ LET r == UnconsRange(buf, ckpt, Distance(buf, pos, ckpt), partial)
     IN r.pos = pos /\ r.res.tag \in OkTags

(***************************************************************************)
(* The spec's reading of distance (section 4.1): the number of items       *)
(* consumed since the checkpoint, the count of uncons calls or the size of *)
(* the ranges taken.                                                       *)
(***************************************************************************)
DistanceCountsItems == Distance(buf, pos, ckpt) = taken

=============================================================================
