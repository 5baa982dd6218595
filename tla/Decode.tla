------------------------------- MODULE Decode -------------------------------
(***************************************************************************)
(* Incremental decoding (src/src/stream/mod.rs): decode / decode_mut and   *)
(* the tokio Decoder adapter, composed with the cursor primitives of       *)
(* StreamCursor on a partial &[u8].                                        *)
(*                                                                         *)
(* The transport appends bytes to the adapter's BytesMut buffer src; each  *)
(* call of Decoder::decode runs the parser closure on &src[..] with the    *)
(* adapter's partial state, propagates an error with ?, and otherwise      *)
(* drops the first removed_len bytes with split_to.  The closure is the    *)
(* one of examples/async.rs: decode(parser, PartialStream(input), state).  *)
(* The parser is the spec's example, digits then a comma, as               *)
(* (take_while(digit), token(',')) whose partial state keeps the digits    *)
(* taken before the input ran out.                                         *)
(***************************************************************************)
EXTENDS Naturals, Sequences

CONSTANTS
  Digits,    \* the digit bytes
  Comma,     \* the byte that ends a message
  Bytes,     \* every byte the transport can deliver
  MaxBytes   \* bound on the number of bytes delivered

ASSUME DecodeAssumption ==
  /\ Digits \subseteq Bytes
  /\ Comma \in Bytes \ Digits
  /\ MaxBytes \in Nat

\* A byte slice: every item is one unit.
ByteEnc == [s \in Bytes |-> <<s>>]

\* The cursor primitives, on a byte slice.  The cursor's own variables are
\* not used here: each call is evaluated as a pure function.
SC == INSTANCE StreamCursor WITH
        Kind <- "slice", Syms <- Bytes, Enc <- ByteEnc,
        Inputs <- {<<>>}, Preds <- {Digits}, Sizes <- {0},
        full <- <<>>, buf <- <<>>, partial <- TRUE, pos <- 0, ckpt <- 0,
        res <- [tag |-> "None"], op <- [name |-> "checkpoint"], taken <- 0

VARIABLES
  arrived,   \* every byte the transport has delivered (history)
  src,       \* the BytesMut buffer of the adapter
  state,     \* the adapter's partial state (S::default() at first)
  out,       \* the items the decoder has returned, in order
  status,    \* "running", "error" (decode returned Err) or "panic"
  ret        \* the result of the last call of decode

vars == <<arrived, src, state, out, status, ret>>

(***************************************************************************)
(* The parser on a partial slice b with partial state st, from offset 0:   *)
(* take_while(digit) by the free function uncons_while, then token(',') by  *)
(* uncons.  The outcome says how far the cursor got and what the state     *)
(* becomes.                                                                *)
(***************************************************************************)
Parse(b, st) ==
  LET w == SC!UnconsWhile(b, 0, Digits, TRUE)
      run == SubSeq(b, 1, w.pos)
      t == SC!Uncons(b, w.pos, TRUE)
  IN IF w.res.tag \in SC!ErrTags \/ t.res.tag \in SC!ErrTags
     THEN [st |-> "eoi", pos |-> w.pos, state |-> st \o run]
     ELSE IF t.res.val = <<Comma>>
          THEN [st |-> "ok", pos |-> t.pos, msg |-> st \o run, state |-> <<>>]
          ELSE [st |-> "unexpected", pos |-> w.pos, state |-> st \o run]

\* A result of decode: Ok((opt, n)) with opt an item when some, or Err.
Result(ok, some, m, n, st) == [ok |-> ok, some |-> some, msg |-> m, n |-> n, state |-> st]

\* Fault: the incomplete case reports that nothing was consumed.
DecodeMutNoneConsumesNothing(b, st) ==
  LET p == Parse(b, st)
  IN CASE p.st = "ok"  -> Result(TRUE, TRUE, p.msg, SC!Distance(b, p.pos, 0), p.state)
       [] p.st = "eoi" -> Result(TRUE, FALSE, <<>>, 0, p.state)
       [] OTHER        -> Result(FALSE, FALSE, <<>>, 0, st)

\* Fault: the count includes the digits kept in the partial state.
DecodeMutCountsState(b, st) ==
  LET p == Parse(b, st)
  IN CASE p.st = "ok"  -> Result(TRUE, TRUE, p.msg, SC!Distance(b, p.pos, 0) + Len(st), p.state)
       [] p.st = "eoi" -> Result(TRUE, FALSE, <<>>, SC!Distance(b, p.pos, 0) + Len(st), p.state)
       [] OTHER        -> Result(FALSE, FALSE, <<>>, 0, st)

\* Fault: every error of a partial input is taken for missing input (the
\* is_unexpected_end_of_input test dropped).
DecodeMutEveryErrorIncomplete(b, st) ==
  LET p == Parse(b, st)
  IN IF p.st = "ok" THEN Result(TRUE, TRUE, p.msg, SC!Distance(b, p.pos, 0), p.state)
     ELSE Result(TRUE, FALSE, <<>>, SC!Distance(b, p.pos, 0), p.state)

\* decode_mut: the distance from the checkpoint taken at the start is the
\* count of bytes consumed; an end-of-input error on a partial input is an
\* Ok((None, distance)), every other error is returned.
DecodeMut(b, st) ==
  LET p == Parse(b, st)
  IN CASE p.st = "ok"  -> Result(TRUE, TRUE, p.msg, SC!Distance(b, p.pos, 0), p.state)
       [] p.st = "eoi" -> Result(TRUE, FALSE, <<>>, SC!Distance(b, p.pos, 0), p.state)
       [] OTHER        -> Result(FALSE, FALSE, <<>>, 0, st)

\* Decoder::new: the state is S::default(), nothing has been delivered.
Init ==
  /\ arrived = <<>>
  /\ src = <<>>
  /\ state = <<>>
  /\ out = <<>>
  /\ status = "running"
  /\ ret = Result(TRUE, FALSE, <<>>, 0, <<>>)

\* The transport reads one more byte into the buffer.
Read ==
  /\ status = "running"
  /\ Len(arrived) < MaxBytes
  /\ \E b \in Bytes : /\ arrived' = Append(arrived, b)
                      /\ src' = Append(src, b)
  /\ UNCHANGED <<state, out, status, ret>>

\* Decoder::decode: run the closure, return its error with ?, else
\* src.split_to(removed_len) (which asserts removed_len <= src.len(); a
\* usize never holds a negative count) and
\* return the item.
DecodeStep ==
  /\ status = "running"
  /\ ret' = DecodeMut(src, state)
  /\ \/ /\ ~ret'.ok
        /\ status' = "error"
        /\ UNCHANGED <<src, state, out>>
     \/ /\ ret'.ok
        /\ IF ret'.n \in 0 .. Len(src)
           THEN /\ src' = SubSeq(src, ret'.n + 1, Len(src))
                /\ state' = ret'.state
                /\ out' = IF ret'.some THEN Append(out, ret'.msg) ELSE out
                /\ UNCHANGED status
           ELSE /\ status' = "panic"
                /\ UNCHANGED <<src, state, out>>
  /\ UNCHANGED arrived

Next == Read \/ DecodeStep

\* The framing loop calls decode after every read and again after every
\* item until it returns None, so a call that can change something is
\* eventually made.
Spec == Init /\ [][Next]_vars /\ WF_vars(DecodeStep)

(***************************************************************************)
(* Properties.                                                             *)
(***************************************************************************)
Msgs == Seq(Digits)

\* Every variable has the type the code gives it; in particular the count
\* decode returns is a natural number (a usize).
TypeOK ==
  /\ arrived \in Seq(Bytes) /\ src \in Seq(Bytes) /\ state \in Msgs
  /\ out \in Seq(Msgs)
  /\ status \in {"running", "error", "panic"}
  /\ ret.ok \in BOOLEAN /\ ret.some \in BOOLEAN /\ ret.msg \in Msgs
  /\ ret.n \in Nat /\ ret.state \in Msgs

\* split_to(removed_len) never panics: the count decode_mut returns never
\* exceeds the bytes the adapter handed to the parser.
NoSplitPanic == status # "panic"

\* Chunked decoding is single-shot decoding: for every way the bytes are cut
\* into reads and every interleaving of reads and decode calls, each step of
\* the adapter is a step of MessageStream (or leaves its state alone): the
\* items returned are, in order, the messages of all the bytes received,
\* each once and without loss, and Err comes only once every message before
\* a malformed byte has been returned.
Abs == INSTANCE MessageStream WITH received <- arrived, failed <- (status = "error")

ChunkedIsSingleShot == Abs!Init /\ [][Abs!Next]_Abs!vars

\* The liveness half of MessageStream's contract under the framing loop's
\* fairness: every complete message received is eventually returned, and
\* a stream holding a byte no message can contain eventually ends with Err.
EventuallyDecoded ==
  /\ \A k \in 1 .. MaxBytes : Len(Abs!Messages(arrived)) >= k ~> Len(out) >= k
  /\ Abs!Malformed(arrived) ~> status = "error"

=============================================================================
