# TLA+ models of the combine stream layer

This directory holds TLA+ models of `src/src/stream/mod.rs`, the stream layer of the combine
parser library. It also holds the TLC configurations that check the models and TLAPS proofs
about them. Each definition is translated from the Rust source. `PROJECT.json` maps every
modelled definition to the lines it translates.

## 1. The system (inventory)

The stream layer is single-threaded and synchronous. A *cursor* is an input that a parser
consumes. The layer has these parts:

| Part | Code (mod.rs) | State | Operations |
|---|---|---|---|
| Capability traits | `StreamOnce`, `Positioned`, `Resetable`, `RangeStreamOnce` (97–205) | — | `uncons`, `uncons_range`, `uncons_while`, `uncons_while1`, `distance`, `checkpoint`, `reset`, `is_partial` |
| Free functions | `uncons`, `wrap_stream_error`, `uncons_range`, `input_at_eof`, `uncons_while`, `uncons_while1` (146–347) | none | fold a raw `Result` into the outcome `FastResult` (`ConsumedOk`, `EmptyOk`, `ConsumedErr`, `EmptyErr`); apply the partial end-of-input correction |
| `&str` cursor | 361–450, 566–590 | the remaining slice | decodes chars; `is_char_boundary` check; `str_uncons_while` byte arithmetic; `distance` in bytes |
| `&[T]` cursor | 473–564, 592–621 | the remaining slice | `slice_uncons_while`, an 8-wide unrolled loop of unchecked reads; `distance` in items |
| `clone_resetable!` | 33–47 | — | a checkpoint is a clone of the cursor, and reset assigns it back |
| `PartialStream<S>` | 625–711 | the inner cursor | delegates everything; `is_partial() = true` |
| `SliceStream` | 715–845 | the remaining slice | the same as `&[T]`, but yields references (`slice_uncons_while_ref`) |
| `IteratorStream`, `ReadStream` | 851–955 | an iterator; `io::Bytes` | `uncons` only; `ReadStream` surfaces I/O errors |
| `PointerOffset` | 957–987 | — | positions are addresses; `translate_position` subtracts a base address |
| `decode`, `decode_mut`, tokio `Decoder` | 995–1093 | `partial_state`; the `BytesMut` buffer | one resumable parse attempt, then `split_to(removed_len)` |

The parts interact as follows:
- A parser calls the free functions on a cursor.
- The free functions call the cursor's primitives.
- `PartialStream` changes how the free functions classify errors and end of input.
- `decode` runs a parser between a checkpoint and `distance`.
- The tokio `Decoder` drops the consumed bytes.

The behaviours that are hard to test:
- The outcome classification. It decides whether a combinator backtracks.
- The partial end-of-input correction. A take-while must not succeed at the end of a chunk.
- The byte arithmetic of the `&str` scan. It must never split a char.
- The unchecked reads of the slice scan.
- The `distance` contract.
- The chunked decode protocol.

`PROJECT.json` lists these hazards at their lines.

## 2. Modules

| Module | Models | Status |
|---|---|---|
| `StreamCursor` | the `&str` and `&[T]` cursors, the free functions, `PartialStream`, `clone_resetable!` | done |
| `MCStreamCursor` | model values: 3 symbols, their UTF-8 encodings (1 and 2 bytes), and every input of up to `MaxItems` items | done |
| `SliceScan`, `MCSliceScan` | the loop of `slice_uncons_while` (and `slice_uncons_while_ref`), one `check!` per step | done |
| `StreamCursorProofs`, `CursorContractProofs`, `PartialStreamProofs` | the TLAPS proofs about `StreamCursor` (§5) | done |
| `SliceScanProofs` | the TLAPS proofs about `SliceScan` | done |
| `Decode`, `MCDecode` | `decode_mut` and the tokio `Decoder` over `StreamCursor`, with a digits-then-comma parser | done |
| `MessageStream` | the abstract decode contract (spec §4.4, §6), which `Decode` refines | done |
| `DecodeProofs` | the TLAPS proofs about `Decode` | done |
| `DefaultWhile1`, `MCDefaultWhile1` | the default `uncons_while1` over a fallible `uncons_while`, folded by the free `uncons_while1` | done |

### StreamCursor

The model abstracts the data as follows:
- An item is a symbol of `Syms`. `Enc` gives its encoding: one byte (a `Units` value) for a
  slice, and UTF-8 bytes for `&str` (a lead byte, then continuation bytes).
- The `&str` operations work on the bytes, as the code does.
- `IsCharBoundary` is the code's `b < 128 || b >= 192` test.
- `StrUnconsWhile` keeps the cut `len - as_str().len() - last_char_size`.
- `SliceUnconsWhile` is the slice scan's result; `SliceScan` steps through its loop.

The state:
- `full`: the whole input.
- `buf`: the bytes the cursor sees. It is all of `full` for a plain cursor. For a partial cursor
  it is any prefix of `full` that ends on an item boundary.
- `partial`: whether the cursor is a `PartialStream`.
- `pos`: the cursor, as an offset into `buf`.
- `ckpt`: the checkpoint the caller holds.
- `res` and `op`: the outcome and the call of the last step.
- `taken`: the items taken since the checkpoint. It is bookkeeping for the spec's reading of
  `distance`.

There is one action per call:
- `UnconsStep`, `UnconsRangeStep` (for each size in `Sizes`), `UnconsWhileStep` and
  `UnconsWhile1Step` (for each predicate in `Preds`). Each runs the whole free function with the
  cursor's primitive inside it (`Exec`), the partial correction included.
- `CheckpointStep` and `ResetStep`.

The two kinds of cursor are one module with the constant `Kind`, and a run chooses the kind.

### SliceScan

SliceScan steps through the loop of `slice_uncons_while`:
- `RoundGuard` is `while len - i >= 8`.
- `Check` is one `check!`: an unchecked read, then `found = true; break` or `i += 1`.
- `RemainderLoop` is the `if !found { while i < len ... }` loop.
- `Split` is `split_at(i)`.

`Init` lets `i` start at 0 (`uncons_while`) or at 1 (`uncons_while1`, only when item 0 passes).

### Decode and MessageStream

`Decode` composes three parts:
- the cursor primitives of `StreamCursor`, instantiated as `SC` for a byte slice;
- the parser of spec §8, digits then a comma;
- the tokio adapter.

The parser, `Parse`, is `(take_while(digit), token(','))` run on `PartialStream(&src[..])`. It
calls the free `uncons_while`, then `uncons`. Its partial state is the digits it took before
the input ran out. The combinator layer is not in this repository, so the parser is modelled
from the spec.

The code's operations:
- `DecodeMut` is `decode_mut`, with `decode` folded in. It takes the distance from the
  checkpoint at offset 0. It turns a partial end-of-input error into `Ok((None, distance))`
  and returns any other error.
- `DecodeStep` is `Decoder::decode`. It calls the closure, returns an error with `?`, and
  otherwise calls `split_to(removed_len)`. `split_to` asserts `removed_len <= src.len()`; a
  failed assertion gives `status = "panic"`.
- `Init` is `Decoder::new`: the state is `S::default()` and the buffer is empty.

The transport, `Read`, appends one byte to `src` and to the history `arrived`. Reading one byte
at a time, interleaved with decode calls in every order, covers every way the bytes can be cut
into chunks.

`MessageStream` is the contract stated over `received`, `out` and `failed`:
- `Receive`: a byte arrives.
- `Deliver`: the next message of the single-shot reading `Messages(received)` is handed out.
- `Fail`: this is allowed only when every message before a bad byte has been handed out.
- Fairness: weak fairness on `Deliver` and `Fail`.

`Decode` refines it under the mapping `received <- arrived`, `failed <- status = "error"`, with
`out` mapped to itself.

### DefaultWhile1

Every cursor in mod.rs overrides `uncons_while1`. The default (175–194) runs on a cursor whose
`uncons_while` can fail. Here that cursor is modelled from the spec: it reads a source that may
hold an I/O error where an item would be.

`Call` makes one call of the free `uncons_while1` (300–347) around the default. The call
records the outcome and how many items `f` accepted.

## 3. Runs

| Run | Bounds | Checks | Result |
|---|---|---|---|
| `str_cursor` | `&str`, chars `1`, `,` and a 2-byte char; inputs of at most 4 chars; sizes 0–3; predicates {1} and {1, 2-byte char} | TypeOK, WhileRangeMaximal, CursorOnCharBoundary, DistanceReplay, OutcomeContract, PartialResultsAgree | pass (61462 states) |
| `slice_cursor` | `&[T]`, 2 items, at most 5 items per slice; predicates {d} and {} | TypeOK, DistanceReplay, OutcomeContract, PartialResultsAgree | pass (33942 states) |
| `distance_counts_items` | `&str`, at most 2 chars | DistanceCountsItems | violation (expected) |
| `slice_scan` | slices `a^n` and `a^n b a^m` up to 19 items, stride 8 | TypeOK, UncheckedInBounds, SplitsAtFirstFailing, Terminates | pass |
| `decode_chunked` | digits {d1, d2}, comma, one bad byte; at most 6 bytes | TypeOK, NoSplitPanic, ChunkedIsSingleShot | pass (49645 states) |
| `decode_liveness` | one digit, comma, one bad byte; at most 4 bytes | EventuallyDecoded | pass (667 states) |
| `while1_consumed_iff_matched` | items {a, z}, f accepts a, sources of at most 3 reads with I/O errors | While1ConsumedIffMatched | violation (expected) |

Why the bounds are enough:
- **Multi-byte chars.** With a 2-byte char, `uncons_range(1)` can land inside a char.
  `last_char_size` matters when the failing char is 2 bytes. Four chars allow a run, a failing
  char and more after it.
- **Partial prefixes.** The partial runs take every boundary prefix of every input, so a
  take-while can reach the end of the received data in the middle of a run.
- **The slice scan.** 19 items cover two full unrolled rounds. They also cover every length of
  the remainder (0–7 items) and a failing item in a round or in the remainder. The loop reads a
  slice only up to its first failing item, so the inputs `a^n` and `a^n b a^m` cover every
  behaviour of the loop.

- **Decode.** Six bytes allow two messages, a message split across any read boundary, and a
  bad byte after a complete message. Two digits make a message's content, not only its
  length, visible to the refinement. The liveness run uses one digit and four bytes. TLC does
  not cache LET values inside the ENABLED of the fairness condition, so every extra byte costs
  a factor there. Four bytes still hold two messages, or a message and a bad byte.
- **DefaultWhile1.** Three reads give an accepted item followed by an I/O error, both on a
  partial and on a plain cursor.

What each property says:
- **OutcomeContract** (an action property).
  - An Empty outcome never moves the cursor.
  - `ConsumedOk` always moves it.
  - Without `PartialStream`, an outcome is Consumed exactly when the cursor moved.
  - A success returns exactly the input it stepped over.
  - An error carries the cursor position.
- **PartialResultsAgree** (an action property). Whatever a partial cursor reports, other than
  end of input, is what the same call reports on the complete input. It is the purpose of the
  correction in `uncons_while` and `uncons_while1` (mod.rs 277, 310–343).
- **WhileRangeMaximal.** A successful scan returns only items that satisfy the predicate. It
  stops at the end or before an item that fails it. This checks the `&str` cut arithmetic
  (mod.rs 391) and the first-char handoff of `&str` `uncons_while1` (mod.rs 420), so
  `str_cursor` checks it. On slices, `SliceUnconsWhile` is the loop's result, the least failing
  index, so the property would hold by definition. `slice_cursor` leaves it out, and
  `SplitsAtFirstFailing` on `slice_scan` checks the loop itself.
- **CursorOnCharBoundary.** The cursor and the checkpoint never split a char.
- **DistanceReplay.** After any calls since the checkpoint, `reset` followed by
  `uncons_range(distance)` succeeds and comes back to the same offset. This is the contract
  written on `RangeStreamOnce::distance`.
- **SliceScan properties.**
  - UncheckedInBounds: every `get_unchecked(i)` read is inside the slice.
  - SplitsAtFirstFailing: the split is the first failing index, as a plain scan would find it.
  - Terminates: the loop ends.
- **NoSplitPanic.** `split_to(removed_len)` never panics. The count that `decode_mut` returns
  never exceeds the bytes it was given (mod.rs 1074).
- **ChunkedIsSingleShot.** This is the refinement `Abs!Init /\ [][Abs!Next]_Abs!vars`, with
  `Abs` the instance of `MessageStream`. For every chunking and every interleaving of reads and
  calls:
  - the items returned are, in order, the messages of a single parse of all the bytes received;
  - each message is returned once, and none is lost;
  - `Err` comes only after every message before the bad byte has been returned.

  It fails if the count misses the bytes the partial state kept, which re-feeds them, and if
  the state is not kept across calls (mod.rs 1016–1020).
- **EventuallyDecoded.** This is the liveness half of the contract. Every complete message
  received is eventually returned, and a malformed stream eventually ends with `Err`. Taking
  every error for missing input (dropping `is_unexpected_end_of_input`) breaks it.
- **While1ConsumedIffMatched.** Spec §4.1: `uncons_while1` reports consumed exactly when an
  item matched, apart from the partial end-of-input correction.

Every property of a passing run is violated by a mutant of the code, which is listed in
`PROJECT.json` "mutants". Some examples:
- dropping `last_char_size`;
- stepping past the failing item before the break of `check!`;
- dropping the boundary check;
- an off-by-one in the round guard;
- moving the cursor on an error;
- dropping the partial end-of-input check;
- a decode count that also counts the partial state, or that reports 0 on None.

### Finding

`distance_counts_items` is about `distance` on `&str`. It returns `self.position().0 -
end.position().0`, which is a byte count. Spec §4.1 says distance is the number of items
consumed. After `uncons` of a 2-byte char, distance is 2 where the spec's count is 1. The code
still keeps its own contract (DistanceReplay holds), so the spec's wording is what is wrong for
`&str`.

`while1_consumed_iff_matched` is about the `ConsumedErr` arm of the free `uncons_while1`
(mod.rs 342). The failing case is a plain cursor that reads `a` and then hits an I/O error:
- The default `uncons_while1` returns `ConsumedErr`, because `f` accepted `a`.
- The free function passes the error to `wrap_stream_error`. On a non-partial input that gives
  `EmptyErr`.
- So a combinator would try a sibling alternative after input was consumed, against spec §4.1.

No cursor of mod.rs reaches this arm, because all of them override `uncons_while1` and have an
infallible `uncons_while`. A user cursor that keeps the default does reach it.

## 4. Fairness

- `StreamCursor` has no fairness. Its properties are safety properties. A parser may stop
  calling at any time, so no call is bound to happen.
- `SliceScan` assumes `WF_vars(Next)`. The loop is straight-line code of one thread with no
  blocking, so once it has started it keeps running until `split_at`.
- `slice_scan` sets `CHECK_DEADLOCK FALSE` because the loop really stops in state `done`.
- `Decode` assumes `WF_vars(DecodeStep)`. A framing loop calls `decode` after every read and
  calls it again after each item, until it returns `None`. So a call that would change
  something is eventually made.
  - `Read` has no fairness: the peer may stop sending.
  - The decode runs set `CHECK_DEADLOCK FALSE`. After `Err` (or a panic) the adapter really
    stops: spec §6 forbids further calls.
- `MessageStream` has weak fairness on `Deliver` and `Fail`. The refinement checks safety as
  `[][Abs!Next]_Abs!vars`. The liveness half is `EventuallyDecoded`, which states the same
  promise on the concrete state, so TLC never has to evaluate the abstract ENABLED through the
  mapping.

## 5. Proofs (checked by `tlapm`)

Five modules hold the proofs. Each EXTENDS the module it proves about, and TLAPS:

| Module | Proves about |
|---|---|
| `StreamCursorProofs` | `StreamCursor`: types, boundaries, the inductive invariant `IInv` |
| `CursorContractProofs` | `StreamCursor`: `DistanceReplay`, `WhileRangeMaximal`, `OutcomeContract` |
| `PartialStreamProofs` | `StreamCursor`: `PartialResultsAgree` |
| `SliceScanProofs` | `SliceScan`: the unrolled loop |
| `DecodeProofs` | `Decode`: `decode_mut` and `Decoder::decode` |

The theorems hold for every value of the constants that satisfies the named assumptions:
- `KindAssumption`: `Kind` is `"str"` or `"slice"`.
- `EncAssumption`: encodings are non-empty and **prefix free**: no item's encoding is a prefix
  of another's. UTF-8 is prefix free, and a slice item is its own unit. A UTF-8 encoding is a
  lead byte followed by continuation bytes.
- `ArgsAssumption`: predicates are sets of items, and sizes are naturals.
- `InputsAssumption`: every boundary prefix of an input is well formed (valid UTF-8) and starts
  at a boundary.
- `ScanAssumption` (`SliceScan`): the unrolling factor `Stride` is a positive natural.
- `DecodeAssumption` (`Decode`): digits and the comma are distinct bytes.

### The cursor (`StreamCursorProofs`)

- `TypeCorrect == Spec => []TypeOK`.
- `BoundarySafety == Spec => []CursorOnCharBoundary`.
- Both rest on `IInvInductive == IInv /\ [Next]_vars => IInv'` and on `InitIInv`.

Neither property is inductive on its own. `IInv` strengthens TypeOK with three facts:
- `pos` is an item boundary of `buf`;
- `ckpt` is an item boundary of `buf`;
- `buf` is well formed: every boundary begins the encoding of an item that ends at the next
  boundary.

`uncons` decodes a whole char, and moves to a boundary, only if it starts at a boundary of a
valid buffer.

The proof has one lemma per primitive, and each shows that the call moves the cursor forward
to a boundary with a well-typed outcome:
- `UnconsOK` and `UnconsRangeOK`. For `&str`, the byte after the cut is a lead byte.
- `StrUnconsWhileOK`. The `last_char_size` terms cancel, so the cut is at the least stopping
  boundary.
- `SliceUnconsWhileOK`.
- `UnconsWhileOK` and `UnconsWhile1OK`. The `ConsumedErr` arm is dead here.

`ExecOK` combines these lemmas, and `CallIInv` lifts them to a step. `LeastIsLeast` (from
`WellFoundedInduction`) gives the least element that the scans cut at. TLC checked IInv as an
invariant of both cursor runs before the proof was written.

### The cursor's contracts (`CursorContractProofs`)

- `DistanceReplaySafety == Spec => []DistanceReplay`. The invariant is
  `RInv == IInv /\ ckpt <= pos`. The bare property is not inductive, because it needs the
  checkpoint and the cursor on boundaries of a well-formed buffer, which IInv supplies. Calls
  only move `pos` forward, so `ckpt <= pos` is kept. `ReplayOK` shows the rest:
  `uncons_range` of `distance` items from a boundary `c` at or before a boundary `p` succeeds
  and stops at `p`. `distance` is `p - c` for both kinds, and for `&str` the end `p` is a char
  boundary of the rest, so `is_char_boundary` lets the range through.
- `ScansMaximal == Spec => []WhileRangeMaximal`. The invariant is
  `IInv /\ WhileRangeMaximal`. The maximality of the last take-while run is kept by every step,
  because a new call either replaces `res` and `op` or sets `res` to `NoResult`.
  - `StrScanMax` and `SliceScanMax` show that each scan stops at the first failing item.
  - `RunMaxRange` carries that to the returned range.
  - `While1ScanMax` shows the same for `uncons_while1`.
  - The substance is the `&str` half: the cut `len - as_str().len() - last_char_size`. On
    slices the scan is the loop's result (the least failing index), and
    `ScanSplitsAtFirstFailing` proves that the loop computes it.
- `OutcomeAlgebra == Spec => OutcomeContract`. This is an action property. It is proved as
  `IInv /\ [Next]_vars => [ContractStep]_vars`, then combined with `[]IInv` by PTL. Each call
  is judged against the state it starts from, so no strengthening beyond IInv is needed. One
  lemma per primitive (`UnconsContract`, `RangeContract`, `WhileContract`, `While1Contract`)
  establishes the five outcome conjuncts. `ExecContract` and `CallContract` lift them to a
  step.

### PartialStream (`PartialStreamProofs`)

- `PartialAgreement == Spec => PartialResultsAgree`.
- It is an action property like `OutcomeContract`, over the invariant
  `PInv == IInv /\ full \in Seq(Units) /\ WellFormed(full) /\ (partial => buf is a boundary
  prefix of full)`. IInv says nothing of the whole input, and the property compares a call on
  `buf` with the same call on `full`. That part of PInv is kept because no step changes
  `full`, `buf` or `partial`. TLC checked PInv as an invariant of both cursor runs first.
- The argument, one lemma per primitive (`PrefixUncons`, `PrefixUnconsRange`, `PrefixWhile`,
  `PrefixWhile1`, combined in `PrefixExec`):
  - Encodings are prefix free, so an item of the prefix decodes as in the whole input
    (`PrefixItemAt`).
  - A run that stops before the end of the prefix stops at the same place in the whole input
    (`PrefixRunMax`, `RunMaxUnique`).
  - Every outcome that could differ is one that reached the end of the prefix. PartialStream
    turns that outcome into end of input, which the property excludes.
- `ExecShape` shows that every call returns a record of its position and its outcome, which
  is what the property compares.

### The unrolled scan (`SliceScanProofs`)

For every unrolling factor `Stride`, predicate and slice:
- `ScanTypeCorrect == Spec => []TypeOK`;
- `ScanUncheckedInBounds == Spec => []UncheckedInBounds`;
- `ScanSplitsAtFirstFailing == Spec => []SplitsAtFirstFailing`.

All three rest on `IInv`. `UncheckedInBounds` alone is not inductive. A `check!` in the middle
of a round is in bounds only because the guard at the start of the round saw `Stride` items
left. So IInv keeps `i + (Stride - k) <= len` while a round runs, with `k = 0` at its start.
`SplitsAtFirstFailing` needs two more facts:
- every item stepped over passes (`Passed`);
- the loop stops only where the plain scan stops (`Stopped`). After a break this holds because
  `found` is set only in front of a failing item.

### Decode (`DecodeProofs`)

For every alphabet and every bound:
- `SplitNeverPanics == Spec => []NoSplitPanic`;
- `DecodeTypeCorrect == Spec => []TypeOK`.

Both rest on `Inv == TypeOK /\ NoSplitPanic`. `Inv` is inductive as it stands, because the
lemmas bound the count in every state, whatever the buffer holds:
- `ScanFacts`: on a byte slice, the free `uncons_while` stops at an offset `j <= Len(b)`, every
  byte before `j` is a digit, and it reports end of input exactly at the end.
- `UnconsByte`: the next `uncons` takes one byte.
- `ParseFacts`: the parser stops inside the slice and keeps only digits.
- `DecodeMutOK`: `decode_mut`'s distance from the checkpoint at 0 is the parser's offset, so it
  lies in `0 .. Len(b)`.

### Left to TLC

- Liveness: `Terminates` (the unrolled scan) and `EventuallyDecoded`. They rest on fairness,
  and the provers do not handle ENABLED.
- The refinement `ChunkedIsSingleShot`. `Messages` is defined with CHOOSE and Cardinality over
  comma positions. A proof would need induction over the byte history, and the library's
  induction theorems take an operator parameter that the provers cannot instantiate.
- `DistanceCountsItems` and `While1ConsumedIffMatched`. TLC finds both violated, and the
  findings in §3 explain why; they are not theorems.
- `MCStreamCursor`, `MCSliceScan`, `MCDecode` and `MCDefaultWhile1` instantiate the models with
  finite sets. `MCStreamCursor` builds its inputs with a RECURSIVE operator, so no proof module
  reaches it.

## 6. Not modelled, and the plan

- **`IteratorStream` and `ReadStream`.** Their `uncons` is a two- or three-arm forward of
  `Iterator::next` or `io::Bytes::next`, and they keep no state of their own. What an I/O error
  does to the consumed bit is checked in `DefaultWhile1`. Positions and buffering come from
  wrappers that are not in this snapshot.
- **A decode call after `Err`.** `Decoder::decode` leaves `self.state` changed on the error
  path (mod.rs 1072). Whether decode is called again is up to the tokio framing loop, which is
  not in this repository. The model stops at `Err`, as spec §6 requires.
- **`InputConverter`.** This is a conversion trait with no state.
- **More checkpoints.** Let the caller hold several nested checkpoints. This is where the
  `distance` underflow hazard lives.
- **`translate_position` and `PointerOffset`.** These are address arithmetic across
  allocations. `Display` is formatting only.
- **The `buffered`, `easy` and `state` submodules, and the combinator layer.** They have no
  source in this repository.
