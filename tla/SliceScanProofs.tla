-------------------------- MODULE SliceScanProofs --------------------------
(***************************************************************************)
(* Proofs about the unrolled scan loop of slice_uncons_while, for every    *)
(* unrolling factor Stride, every predicate and every set of slices        *)
(* allowed by ScanAssumption.                                              *)
(***************************************************************************)
EXTENDS SliceScan, TLAPS

USE ScanAssumption

\* Every item the loop has stepped over satisfies f.
Passed == \A x \in 1 .. i : slice[x] \in Pred

\* The loop stands before an item failing f, or at the end of the slice.
Stopped == i = Len(slice) \/ slice[i + 1] \notin Pred

(***************************************************************************)
(* The inductive invariant.  UncheckedInBounds alone is not inductive: a   *)
(* check! in the middle of a round is in bounds because the guard at the   *)
(* start of the round saw Stride items left and each check! since used up  *)
(* one, so the invariant keeps "i + the check! still to run <= len", with  *)
(* k = 0 at the start of a round.  SplitsAtFirstFailing needs the items    *)
(* stepped over to pass (Passed) and the loop to stop only where the plain *)
(* scan stops (Stopped), which after a break of the unrolled loop holds    *)
(* because found is set only in front of a failing item.                  *)
(***************************************************************************)
IInv ==
  /\ TypeOK
  /\ Passed
  /\ pc = "round" => k = 0
  /\ pc = "check" => i + (Stride - k) <= Len(slice)
  /\ found => /\ pc \in {"tail", "split", "done"}
              /\ i < Len(slice)
              /\ slice[i + 1] \notin Pred
  /\ pc \in {"split", "done"} => Stopped

(***************************************************************************)
(* The reference scan picks the one index where the items before it pass   *)
(* and the scan has to stop.                                               *)
(***************************************************************************)
LEMMA FirstFailingIs ==
  ASSUME NEW s \in Seq(Items), NEW j \in 0 .. Len(s),
         \A x \in 1 .. j : s[x] \in Pred,
         j = Len(s) \/ s[j + 1] \notin Pred
  PROVE  FirstFailing(s, 0) = j
<1>1. \A m \in 0 .. Len(s) :
         (\A x \in 0 + 1 .. m : s[x] \in Pred) /\ (m = Len(s) \/ s[m + 1] \notin Pred)
           => m = j
  <2> SUFFICES ASSUME NEW m \in 0 .. Len(s),
                      \A x \in 0 + 1 .. m : s[x] \in Pred,
                      m = Len(s) \/ s[m + 1] \notin Pred
               PROVE  m = j
    OBVIOUS
  <2>1. ~(m < j)
    OBVIOUS
  <2>2. ~(j < m)
    OBVIOUS
  <2>3. QED
    BY <2>1, <2>2
<1>2. (\A x \in 0 + 1 .. j : s[x] \in Pred) /\ (j = Len(s) \/ s[j + 1] \notin Pred)
  OBVIOUS
<1>3. QED
  BY <1>1, <1>2, Zenon DEF FirstFailing

\* The count of a round wraps to 0 after the Stride-th check! and is
\* otherwise one more.
LEMMA RoundCount ==
  ASSUME NEW c \in 0 .. Stride - 1
  PROVE  /\ c + 1 < Stride => (c + 1) % Stride = c + 1
         /\ c + 1 = Stride => (c + 1) % Stride = 0
<1>1. Stride \in Nat \ {0}
  OBVIOUS
<1>2. c + 1 < Stride => (c + 1) % Stride = c + 1
  BY <1>1, Z3
<1>3. Stride % Stride = 0
  BY <1>1, Z3
<1>4. QED
  BY <1>2, <1>3

LEMMA InitIInv == Init => IInv
<1> SUFFICES ASSUME Init PROVE IInv
  OBVIOUS
<1>1. slice \in Seq(Items)
  BY DEF Init
<1>2. i \in {0, 1} /\ i <= Len(slice) /\ (i = 1 => slice[1] \in Pred)
  BY <1>1 DEF Init
<1>3. Passed
  BY <1>1, <1>2 DEF Passed
<1>4. TypeOK
  <2>1. slice \in Inputs /\ found = FALSE /\ k = 0 /\ pc = "round"
    BY DEF Init
  <2>2. 0 \in 0 .. Stride - 1
    OBVIOUS
  <2>3. i \in 0 .. Len(slice)
    BY <1>1, <1>2
  <2>4. found \in BOOLEAN
    BY <2>1
  <2>5. QED
    BY <2>1, <2>2, <2>3, <2>4 DEF TypeOK
<1>5. found = FALSE /\ k = 0 /\ pc = "round"
  BY DEF Init
<1>6. QED
  BY <1>3, <1>4, <1>5 DEF IInv

LEMMA NextIInv == IInv /\ [Next]_vars => IInv'
<1> SUFFICES ASSUME IInv, [Next]_vars PROVE IInv'
  OBVIOUS
<1>1. slice \in Seq(Items) /\ i \in 0 .. Len(slice) /\ k \in 0 .. Stride - 1
  BY DEF IInv, TypeOK
<1>2. CASE RoundGuard
  BY <1>1, <1>2 DEF RoundGuard, IInv, TypeOK, Passed, Stopped
<1>3. CASE Check
  <2>1. i < Len(slice)
    BY <1>1, <1>3 DEF Check, IInv
  <2>2. CASE slice[i + 1] \notin Pred
    BY <1>1, <1>3, <2>1, <2>2 DEF Check, IInv, TypeOK, Passed, Stopped
  <2>3. CASE slice[i + 1] \in Pred /\ k + 1 < Stride
    <3>1. k' = k + 1 /\ i' = i + 1 /\ pc' = "check" /\ found' = found /\ slice' = slice
      BY <1>3, <1>1, <2>3, RoundCount DEF Check
    <3>2. QED
      BY <1>1, <1>3, <2>1, <2>3, <3>1 DEF Check, IInv, TypeOK, Passed, Stopped
  <2>4. CASE slice[i + 1] \in Pred /\ k + 1 = Stride
    <3>1. k' = 0 /\ i' = i + 1 /\ pc' = "round" /\ found' = found /\ slice' = slice
      BY <1>3, <1>1, <2>4, RoundCount DEF Check
    <3>2. QED
      BY <1>1, <1>3, <2>1, <2>4, <3>1 DEF Check, IInv, TypeOK, Passed, Stopped
  <2>5. QED
    BY <1>1, <2>2, <2>3, <2>4
<1>4. CASE RemainderLoop
  <2>1. CASE ~found /\ i < Len(slice) /\ slice[i + 1] \in Pred
    BY <1>1, <1>4, <2>1 DEF RemainderLoop, IInv, TypeOK, Passed, Stopped
  <2>2. CASE ~(~found /\ i < Len(slice) /\ slice[i + 1] \in Pred)
    BY <1>1, <1>4, <2>2 DEF RemainderLoop, IInv, TypeOK, Passed, Stopped
  <2>3. QED
    BY <2>1, <2>2
<1>5. CASE Split
  BY <1>5 DEF Split, IInv, TypeOK, Passed, Stopped
<1>6. CASE UNCHANGED vars
  BY <1>6 DEF vars, IInv, TypeOK, Passed, Stopped
<1>7. QED
  BY <1>2, <1>3, <1>4, <1>5, <1>6 DEF Next

\* IInv holds in every state of every run of the loop.
LEMMA IInvAlways == Spec => []IInv
BY InitIInv, NextIInv, PTL DEF Spec

(***************************************************************************)
(* Theorems.                                                               *)
(***************************************************************************)

\* The loop's variables keep their types: i stays within 0 .. len and the
\* round count k within 0 .. 7 (0 .. Stride - 1).
THEOREM ScanTypeCorrect == Spec => []TypeOK
BY IInvAlways, PTL DEF IInv

\* Every get_unchecked(i) of check! reads inside the slice, for every
\* unrolling factor: the unrolled loop has no out-of-bounds read.
THEOREM ScanUncheckedInBounds == Spec => []UncheckedInBounds
<1>1. IInv => UncheckedInBounds
  BY DEF IInv, TypeOK, UncheckedInBounds
<1>2. QED
  BY <1>1, IInvAlways, PTL

\* split_at(i) splits every slice before its first item failing f, as the
\* plain one-item-at-a-time scan would.
THEOREM ScanSplitsAtFirstFailing == Spec => []SplitsAtFirstFailing
<1>1. IInv => SplitsAtFirstFailing
  <2> SUFFICES ASSUME IInv, pc = "done" PROVE i = FirstFailing(slice, 0)
    BY DEF SplitsAtFirstFailing
  <2>1. slice \in Seq(Items) /\ i \in 0 .. Len(slice)
    BY DEF IInv, TypeOK
  <2>2. \A x \in 1 .. i : slice[x] \in Pred
    BY DEF IInv, Passed
  <2>3. i = Len(slice) \/ slice[i + 1] \notin Pred
    BY DEF IInv, Stopped
  <2>4. QED
    BY <2>1, <2>2, <2>3, FirstFailingIs
<1>2. QED
  BY <1>1, IInvAlways, PTL

=============================================================================
