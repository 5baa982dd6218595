----------------------------- MODULE SliceScan -----------------------------
(***************************************************************************)
(* The loop of slice_uncons_while (and slice_uncons_while_ref), step by    *)
(* step: an 8-wide unrolled loop `while len - i >= 8 { check!() x 8 }`     *)
(* whose check! reads slice.get_unchecked(i) without a bounds check, then, *)
(* unless an item failed f, a checked remainder loop `while i < len`, then *)
(* split_at(i).  uncons_while starts it at i = 0; uncons_while1 at i = 1,  *)
(* after testing item 0 itself.                                            *)
(***************************************************************************)
EXTENDS Naturals, Sequences

CONSTANTS
  Items,    \* the values of T
  Pred,     \* the items f accepts
  Inputs,   \* the slices the loop is run on
  Stride    \* the unrolling factor: 8 check! per round

ASSUME ScanAssumption ==
  /\ Pred \subseteq Items
  /\ Inputs \subseteq Seq(Items)
  /\ Stride \in Nat \ {0}

VARIABLES
  slice,    \* the slice scanned
  i,        \* the index of the next item to test
  found,    \* an item failed f inside the unrolled loop
  k,        \* how many check! of the current round have run
  pc        \* "round", "check", "tail", "split" or "done"

vars == <<slice, i, found, k, pc>>

\* The callers: uncons_while starts at 0; uncons_while1 starts at 1 only
\* after slice[0] exists and satisfies f.
Init ==
  /\ slice \in Inputs
  /\ i \in IF Len(slice) >= 1 /\ slice[1] \in Pred THEN {0, 1} ELSE {0}
  /\ found = FALSE
  /\ k = 0
  /\ pc = "round"

\* Fault: the guard is off by one, `len - i >= 7`.
RoundGuardOffByOne ==
  /\ pc = "round"
  /\ pc' = IF Len(slice) - i >= Stride - 1 THEN "check" ELSE "tail"
  /\ UNCHANGED <<slice, i, found, k>>

\* The guard of the unrolled loop, `len - i >= 8`, at the start of a round.
RoundGuard ==
  /\ pc = "round"
  /\ pc' = IF Len(slice) - i >= Stride THEN "check" ELSE "tail"
  /\ UNCHANGED <<slice, i, found, k>>

\* Fault: a round of check! that never restarts its count.
CheckNoWrap ==
  /\ pc = "check"
  /\ IF slice[i + 1] \notin Pred
     THEN found' = TRUE /\ pc' = "tail" /\ UNCHANGED <<i, k>>
     ELSE /\ i' = i + 1
          /\ k' = k + 1
          /\ pc' = IF k + 1 = Stride THEN "round" ELSE "check"
          /\ UNCHANGED found
  /\ UNCHANGED slice

\* Fault: check! increments i before it breaks.
CheckBreakAfterIncrement ==
  /\ pc = "check"
  /\ i' = i + 1
  /\ IF slice[i + 1] \notin Pred
     THEN found' = TRUE /\ pc' = "tail" /\ UNCHANGED k
     ELSE /\ k' = (k + 1) % Stride
          /\ pc' = IF k + 1 = Stride THEN "round" ELSE "check"
          /\ UNCHANGED found
  /\ UNCHANGED slice

\* One check!: test slice[i] unchecked; on failure set found and break out
\* of the loop, else i += 1.
Check ==
  /\ pc = "check"
  /\ IF slice[i + 1] \notin Pred
     THEN /\ found' = TRUE
          /\ pc' = "tail"
          /\ UNCHANGED <<i, k>>
     ELSE /\ i' = i + 1
          /\ k' = (k + 1) % Stride
          /\ pc' = IF k + 1 = Stride THEN "round" ELSE "check"
          /\ UNCHANGED found
  /\ UNCHANGED slice

\* Fault: the remainder loop forgets `i += 1`.
RemainderLoopNoIncrement ==
  /\ pc = "tail"
  /\ IF ~found /\ i < Len(slice) /\ slice[i + 1] \in Pred
     THEN UNCHANGED i /\ pc' = "tail"
     ELSE UNCHANGED i /\ pc' = "split"
  /\ UNCHANGED <<slice, found, k>>

\* `if !found { while i < len { if !f(..) { break } i += 1 } }`
RemainderLoop ==
  /\ pc = "tail"
  /\ IF ~found /\ i < Len(slice) /\ slice[i + 1] \in Pred
     THEN i' = i + 1 /\ pc' = "tail"
     ELSE UNCHANGED i /\ pc' = "split"
  /\ UNCHANGED <<slice, found, k>>

\* split_at(i): the range is slice[..i], the cursor moves to slice[i..].
Split ==
  /\ pc = "split"
  /\ pc' = "done"
  /\ UNCHANGED <<slice, i, found, k>>

Next == RoundGuard \/ Check \/ RemainderLoop \/ Split

\* The loop is straight-line code of one thread: it keeps running.
Spec == Init /\ [][Next]_vars /\ WF_vars(Next)

-----------------------------------------------------------------------------
TypeOK ==
  /\ slice \in Inputs
  /\ i \in 0 .. Len(slice)
  /\ found \in BOOLEAN
  /\ k \in 0 .. Stride - 1
  /\ pc \in {"round", "check", "tail", "split", "done"}

\* The reference scan: the first index from start whose item fails f, or
\* the length of the slice.
FirstFailing(s, start) ==
  CHOOSE j \in start .. Len(s) :
     /\ \A x \in start + 1 .. j : s[x] \in Pred
     /\ j = Len(s) \/ s[j + 1] \notin Pred

(***************************************************************************)
(* The unchecked reads of check! (get_unchecked(i)) stay inside the slice: *)
(* the guard len - i >= 8 at the start of a round covers all 8 reads.      *)
(***************************************************************************)
UncheckedInBounds == pc = "check" => i < Len(slice)

(***************************************************************************)
(* The unrolled loop with its found flag and its remainder loop splits the *)
(* slice where the plain scan would: before the first item failing f      *)
(* (uncons_while1 starts at 1 only when item 0 passes, so the plain scan   *)
(* from 0 is the reference for both callers).                              *)
(***************************************************************************)
SplitsAtFirstFailing == pc = "done" => i = FirstFailing(slice, 0)

(***************************************************************************)
(* The loop terminates: every scan reaches split_at.                       *)
(***************************************************************************)
Terminates == <>(pc = "done")
=============================================================================
