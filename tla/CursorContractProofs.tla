------------------------ MODULE CursorContractProofs ------------------------
(***************************************************************************)
(* Proofs of the contracts the cursor gives its callers, for every value   *)
(* of the constants: the replay contract of RangeStreamOnce::distance and  *)
(* the maximality of the take-while scans, and the outcome algebra of the  *)
(* free functions.                                                         *)
(* Built on the invariant IInv and the lemmas of StreamCursorProofs.       *)
(***************************************************************************)
EXTENDS StreamCursorProofs

\* uncons_range on a raw success: the cursor moves to the raw position and
\* the outcome is EmptyOk for size 0, ConsumedOk otherwise.
LEMMA UnconsRangeOnOk ==
  ASSUME NEW b, NEW p, NEW n, NEW pt, NEW v, NEW q,
         (IF Kind = "str" THEN StrUnconsRange(b, p, n) ELSE SliceUnconsRange(b, p, n))
           = RawOk(v, q)
  PROVE  UnconsRange(b, p, n, pt)
           = [pos |-> q, res |-> Ok(IF n = 0 THEN "EmptyOk" ELSE "ConsumedOk", v)]
BY DEF UnconsRange, RawOk

(***************************************************************************)
(* uncons_range(distance) from a checkpoint c at or before a boundary p    *)
(* succeeds and stops at p: distance is p - c for both kinds of input, the *)
(* range fits in the rest of the buffer, and for &str its end p is a char  *)
(* boundary of the rest, so is_char_boundary lets it through.              *)
(***************************************************************************)
LEMMA ReplayOK ==
  ASSUME NEW b \in Seq(Units), NEW c \in Bounds(b), NEW p \in Bounds(b), c <= p,
         NEW pt \in BOOLEAN
  PROVE  /\ UnconsRange(b, c, Distance(b, p, c), pt).pos = p
         /\ UnconsRange(b, c, Distance(b, p, c), pt).res.tag \in OkTags
<1>1. c \in 0 .. Len(b) /\ p \in 0 .. Len(b)
  BY BoundsFacts
<1>2. Distance(b, p, c) = p - c
  BY <1>1 DEF Distance
<1> DEFINE d == p - c
           s == SubSeq(b, c + 1, Len(b))
<1>3. s \in Seq(Units) /\ Len(s) = Len(b) - c /\ d \in 0 .. Len(s)
  BY <1>1, RestFacts
<1>4. CASE Kind = "str"
  <2>1. IsCharBoundary(s, d)
    <3>1. CASE p = Len(b)
      BY <1>3, <1>4, <3>1 DEF IsCharBoundary
    <3>2. CASE p < Len(b)
      <4>1. IsLead(b[p + 1])
        BY <1>4, <3>2 DEF Bounds, IsCharBoundary
      <4>2. s[d + 1] = b[c + (d + 1)]
        <5>1. d + 1 \in 1 .. Len(b) - c
          BY <1>1, <3>2
        <5>2. QED
          BY <1>1, <5>1, RestFacts
      <4>3. QED
        BY <1>1, <1>3, <1>4, <3>2, <4>1, <4>2 DEF IsCharBoundary
    <3>3. QED
      BY <1>1, <3>1, <3>2
  <2>2. StrUnconsRange(b, c, d) = RawOk(SubSeq(s, 1, d), c + d)
    BY <1>3, <2>1 DEF StrUnconsRange
  <2>3. UnconsRange(b, c, d, pt) =
          [pos |-> c + d, res |-> Ok(IF d = 0 THEN "EmptyOk" ELSE "ConsumedOk", SubSeq(s, 1, d))]
    <3>1. (IF Kind = "str" THEN StrUnconsRange(b, c, d) ELSE SliceUnconsRange(b, c, d))
            = RawOk(SubSeq(s, 1, d), c + d)
      BY <1>4, <2>2
    <3>2. QED
      BY <3>1, UnconsRangeOnOk
  <2>4. QED
    BY <1>1, <1>2, <2>3 DEF Ok, OkTags
<1>5. CASE Kind # "str"
  <2>1. SliceUnconsRange(b, c, d) = RawOk(SubSeq(b, c + 1, c + d), c + d)
    BY <1>1 DEF SliceUnconsRange
  <2>2. UnconsRange(b, c, d, pt) =
          [pos |-> c + d,
           res |-> Ok(IF d = 0 THEN "EmptyOk" ELSE "ConsumedOk", SubSeq(b, c + 1, c + d))]
    <3>1. (IF Kind = "str" THEN StrUnconsRange(b, c, d) ELSE SliceUnconsRange(b, c, d))
            = RawOk(SubSeq(b, c + 1, c + d), c + d)
      BY <1>5, <2>1
    <3>2. QED
      BY <3>1, UnconsRangeOnOk
  <2>3. QED
    BY <1>1, <1>2, <2>2 DEF Ok, OkTags
<1>6. QED
  BY <1>4, <1>5

(***************************************************************************)
(* A call of a primitive never moves the cursor back and leaves the        *)
(* checkpoint alone.                                                       *)
(***************************************************************************)
LEMMA CallForward ==
  ASSUME IInv, NEW o \in Ops, o.name \notin {"checkpoint", "reset"}, Call(o)
  PROVE  pos <= pos' /\ ckpt' = ckpt
<1>1. StepOK(Exec(o, buf, pos, partial), buf, pos)
  BY ExecOK DEF IInv, TypeOK
<1>2. pos' = Exec(o, buf, pos, partial).pos /\ ckpt' = ckpt
  BY DEF Call
<1>3. QED
  BY <1>1, <1>2 DEF StepOK

(***************************************************************************)
(* The invariant behind DistanceReplay: IInv, and the cursor is never      *)
(* behind the checkpoint.  The order of the two is not a state invariant   *)
(* of IInv alone: it holds because checkpoint copies the cursor, reset     *)
(* copies the checkpoint back, and every primitive only moves forward.     *)
(***************************************************************************)
RInv == IInv /\ ckpt <= pos

LEMMA InitRInv == Init => RInv
<1> SUFFICES ASSUME Init PROVE RInv
  OBVIOUS
<1>1. IInv
  BY InitIInv
<1>2. ckpt <= pos
  BY DEF Init
<1>3. QED
  BY <1>1, <1>2 DEF RInv

LEMMA NextRInv == RInv /\ [Next]_vars => RInv'
<1> SUFFICES ASSUME RInv, [Next]_vars PROVE RInv'
  OBVIOUS
<1>1. IInv'
  BY IInvInductive DEF RInv
<1>2. pos \in Nat /\ ckpt \in Nat
  BY BoundsFacts DEF RInv, IInv, TypeOK
<1>3. ASSUME NEW o \in Ops, o.name \notin {"checkpoint", "reset"}, Call(o)
      PROVE  ckpt' <= pos'
  <2>1. pos <= pos' /\ ckpt' = ckpt
    BY <1>3, CallForward DEF RInv
  <2>2. pos' \in Nat
    BY <1>1, BoundsFacts DEF IInv, TypeOK
  <2>3. QED
    BY <1>2, <2>1, <2>2 DEF RInv
<1>4. CASE UnconsStep
  <2>1. [name |-> "uncons"] \in Ops
    BY DEF Ops
  <2>2. QED
    BY <1>1, <1>4, <2>1, <1>3 DEF UnconsStep, RInv
<1>5. CASE UnconsRangeStep
  <2>1. PICK n \in Sizes : Call([name |-> "range", size |-> n])
    BY <1>5 DEF UnconsRangeStep
  <2>2. [name |-> "range", size |-> n] \in Ops
    BY DEF Ops
  <2>3. QED
    BY <1>1, <2>1, <2>2, <1>3 DEF RInv
<1>6. CASE UnconsWhileStep
  <2>1. PICK P \in Preds : Call([name |-> "while", pred |-> P])
    BY <1>6 DEF UnconsWhileStep
  <2>2. [name |-> "while", pred |-> P] \in Ops
    BY DEF Ops
  <2>3. QED
    BY <1>1, <2>1, <2>2, <1>3 DEF RInv
<1>7. CASE UnconsWhile1Step
  <2>1. PICK P \in Preds : Call([name |-> "while1", pred |-> P])
    BY <1>7 DEF UnconsWhile1Step
  <2>2. [name |-> "while1", pred |-> P] \in Ops
    BY DEF Ops
  <2>3. QED
    BY <1>1, <2>1, <2>2, <1>3 DEF RInv
<1>8. CASE CheckpointStep \/ ResetStep
  BY <1>1, <1>2, <1>8 DEF CheckpointStep, ResetStep, RInv
<1>9. CASE UNCHANGED vars
  BY <1>1, <1>9 DEF vars, RInv
<1>10. QED
  BY <1>4, <1>5, <1>6, <1>7, <1>8, <1>9 DEF Next

(***************************************************************************)
(* Decoding.  The lemmas the scans' contract rests on: a range of a range  *)
(* is a range of the buffer, an item is decoded one way only (encodings    *)
(* are prefix free), an item ends at or before the next boundary, and so   *)
(* the item at a boundary of a sub-slice is the item at the same place of  *)
(* the buffer.                                                             *)
(***************************************************************************)
LEMMA RangeOfRange ==
  ASSUME NEW b \in Seq(Units), NEW m \in 0 .. Len(b), NEW n \in m .. Len(b),
         NEW a \in 0 .. n - m, NEW e \in a .. n - m
  PROVE  SubSeq(SubSeq(b, m + 1, n), a + 1, e) = SubSeq(b, m + a + 1, m + e)
<1> DEFINE v == SubSeq(b, m + 1, n)
<1>1. v \in Seq(Units) /\ Len(v) = n - m /\ \A i \in 1 .. n - m : v[i] = b[m + i]
  BY SubSeqType
<1>2. /\ SubSeq(v, a + 1, e) \in Seq(Units) /\ Len(SubSeq(v, a + 1, e)) = e - a
      /\ \A i \in 1 .. e - a : SubSeq(v, a + 1, e)[i] = v[a + i]
  BY <1>1, SubSeqType
<1>3. /\ SubSeq(b, m + a + 1, m + e) \in Seq(Units)
      /\ Len(SubSeq(b, m + a + 1, m + e)) = e - a
      /\ \A i \in 1 .. e - a : SubSeq(b, m + a + 1, m + e)[i] = b[m + a + i]
  BY SubSeqType
<1>4. \A i \in 1 .. e - a : SubSeq(v, a + 1, e)[i] = SubSeq(b, m + a + 1, m + e)[i]
  BY <1>1, <1>2, <1>3
<1> HIDE DEF v
<1>5. QED
  BY <1>2, <1>3, <1>4, SeqEqual

\* An item matches the buffer at offset j: its encoding fits and is there.
MatchesAt(b, j, s) == j + Width(s) <= Len(b) /\ SubSeq(b, j + 1, j + Width(s)) = Enc[s]

\* One of two items matching at the same offset is a prefix of the other.
LEMMA PrefixOfMatch ==
  ASSUME NEW b \in Seq(Units), NEW j \in 0 .. Len(b), NEW s \in Syms, NEW t \in Syms,
         MatchesAt(b, j, s), MatchesAt(b, j, t), Width(s) <= Width(t)
  PROVE  s = t
<1>1. Width(s) \in Nat /\ Width(t) \in Nat /\ Width(s) = Len(Enc[s])
  BY EncType DEF Width
<1>2. SubSeq(Enc[t], 1, Width(s)) = SubSeq(b, j + 1, j + Width(s))
  <2>1. Enc[t] = SubSeq(b, j + 1, j + Width(t)) /\ j + Width(t) \in j .. Len(b)
    BY <1>1 DEF MatchesAt
  <2>2. SubSeq(SubSeq(b, j + 1, j + Width(t)), 0 + 1, Width(s))
          = SubSeq(b, j + 0 + 1, j + Width(s))
    BY <1>1, <2>1, RangeOfRange
  <2>3. 0 + 1 = 1 /\ j + 0 + 1 = j + 1
    OBVIOUS
  <2>4. SubSeq(SubSeq(b, j + 1, j + Width(t)), 1, Width(s))
          = SubSeq(b, j + 1, j + Width(s))
    BY <2>2, <2>3, Zenon
  <2>5. QED
    BY <2>1, <2>4, Zenon
<1>3. SubSeq(Enc[t], 1, Len(Enc[s])) = Enc[s]
  <2>1. SubSeq(b, j + 1, j + Width(s)) = Enc[s]
    BY DEF MatchesAt
  <2>2. SubSeq(Enc[t], 1, Width(s)) = Enc[s]
    BY <1>2, <2>1
  <2>3. QED
    BY <1>1, <2>2
<1>4. QED
  BY <1>1, <1>3, EncAssumption DEF Width

\* The item matching at an offset is the item decoded there.
LEMMA MatchIsItemAt ==
  ASSUME NEW b \in Seq(Units), NEW j \in 0 .. Len(b), NEW s \in Syms,
         MatchesAt(b, j, s)
  PROVE  ItemAt(b, j) = s
<1>1. ItemAt(b, j) \in Syms /\ MatchesAt(b, j, ItemAt(b, j))
  BY DEF ItemAt, MatchesAt
<1>2. Width(s) \in Nat /\ Width(ItemAt(b, j)) \in Nat
  BY <1>1, EncType
<1>3. CASE Width(s) <= Width(ItemAt(b, j))
  BY <1>1, <1>3, PrefixOfMatch
<1>4. CASE Width(ItemAt(b, j)) <= Width(s)
  BY <1>1, <1>4, PrefixOfMatch
<1>5. QED
  BY <1>2, <1>3, <1>4

\* On a slice the item at offset k is the k + 1-th element.
LEMMA SliceItemAt ==
  ASSUME Kind = "slice", NEW b \in Seq(Units), NEW k \in 0 .. Len(b) - 1
  PROVE  ItemAt(b, k) = b[k + 1]
<1>1. b[k + 1] \in Syms
  BY DEF Units
<1>2. Width(b[k + 1]) = 1 /\ Enc[b[k + 1]] = <<b[k + 1]>>
  <2>1. \A x \in Syms : Enc[x] = <<x>>
    BY EncAssumption
  <2>2. Enc[b[k + 1]] = <<b[k + 1]>>
    BY <1>1, <2>1
  <2>3. QED
    BY <2>2 DEF Width
<1>3. SubSeq(b, k + 1, k + 1) = <<b[k + 1]>>
  <2>1. /\ SubSeq(b, k + 1, k + 1) \in Seq(Units) /\ Len(SubSeq(b, k + 1, k + 1)) = 1
        /\ SubSeq(b, k + 1, k + 1)[1] = b[k + 1]
    BY SubSeqType
  <2>2. <<b[k + 1]>> \in Seq(Units)
    OBVIOUS
  <2>3. \A i \in 1 .. 1 : SubSeq(b, k + 1, k + 1)[i] = <<b[k + 1]>>[i]
    BY <2>1
  <2>4. QED
    BY <2>1, <2>2, <2>3, SeqEqual
<1>4. MatchesAt(b, k, b[k + 1])
  BY <1>2, <1>3 DEF MatchesAt
<1>5. QED
  BY <1>1, <1>4, MatchIsItemAt

\* An item decoded at a boundary ends at or before the next boundary: the
\* bytes after a char's lead byte are continuation bytes, never boundaries.
LEMMA ItemEnd ==
  ASSUME NEW b \in Seq(Units), WellFormed(b), NEW j \in Bounds(b), j < Len(b),
         NEW q \in Bounds(b), j < q
  PROVE  j + Width(ItemAt(b, j)) <= q
<1> DEFINE c == ItemAt(b, j)
<1>0. c = ItemAt(b, j)
  OBVIOUS
<1>1. /\ c \in Syms /\ j + Width(c) <= Len(b)
      /\ SubSeq(b, j + 1, j + Width(c)) = Enc[c]
  BY ItemAtFacts
<1>2. j \in 0 .. Len(b) /\ q \in 0 .. Len(b) /\ Width(c) \in Nat /\ Enc[c] \in Seq(Units)
  BY <1>1, BoundsFacts, EncType
<1> HIDE DEF c
<1>3. CASE Kind = "slice"
  <2>1. Enc[c] = <<c>>
    BY <1>1, <1>3, EncAssumption
  <2>2. QED
    BY <1>0, <1>2, <2>1 DEF Width
<1>4. CASE Kind = "str"
  <2> SUFFICES ASSUME q < j + Width(c) PROVE FALSE
    BY <1>0, <1>2
  <2>1. IsLead(b[q + 1])
    BY <1>1, <1>4, <1>2 DEF Bounds, IsCharBoundary
  <2>2. b[q + 1] = Enc[c][q - j + 1]
    <3>1. \A i \in 1 .. Width(c) : SubSeq(b, j + 1, j + Width(c))[i] = b[j + 1 + i - 1]
      BY <1>1, <1>2, SubSeqType
    <3>2. q - j + 1 \in 1 .. Width(c)
      BY <1>2
    <3>3. SubSeq(b, j + 1, j + Width(c))[q - j + 1] = b[q + 1]
      BY <1>2, <3>1, <3>2
    <3>4. QED
      BY <1>1, <3>3
  <2>3. ~IsLead(Enc[c][q - j + 1])
    <3>1. \A x \in 2 .. Len(Enc[c]) : ~IsLead(Enc[c][x])
      BY <1>1, <1>4, EncAssumption
    <3>2. q - j + 1 \in 2 .. Len(Enc[c])
      BY <1>2 DEF Width
    <3>3. QED
      BY <3>1, <3>2
  <2>4. QED
    BY <2>1, <2>2, <2>3
<1>5. QED
  BY <1>3, <1>4, KindAssumption

\* A boundary of a range b[p+1 .. q] before its end is a boundary of b.
LEMMA BoundOfRange ==
  ASSUME NEW b \in Seq(Units), NEW p \in 0 .. Len(b), NEW q \in p .. Len(b),
         NEW k \in Bounds(SubSeq(b, p + 1, q)), k < q - p
  PROVE  p + k \in Bounds(b)
<1> DEFINE v == SubSeq(b, p + 1, q)
<1>1. v \in Seq(Units) /\ Len(v) = q - p /\ \A i \in 1 .. q - p : v[i] = b[p + i]
  BY SubSeqType
<1>2. k \in 0 .. q - p
  BY <1>1, BoundsFacts
<1> HIDE DEF v
<1>3. CASE Kind = "slice"
  BY <1>2, <1>3, BoundsFacts
<1>4. CASE Kind = "str"
  <2>1. IsLead(v[k + 1])
    BY <1>1, <1>2, <1>4 DEF Bounds, IsCharBoundary
  <2>2. v[k + 1] = b[p + k + 1]
    BY <1>1, <1>2
  <2>3. QED
    BY <1>2, <1>4, <2>1, <2>2 DEF Bounds, IsCharBoundary
<1>5. QED
  BY <1>3, <1>4, KindAssumption

\* The item at a boundary of b inside the range b[p+1 .. q] is the item
\* decoded at the same place of the range.
LEMMA ItemAtOfRange ==
  ASSUME NEW b \in Seq(Units), WellFormed(b), NEW p \in 0 .. Len(b),
         NEW q \in Bounds(b), p <= q, NEW j \in Bounds(b), p <= j, j < q
  PROVE  ItemAt(SubSeq(b, p + 1, q), j - p) = ItemAt(b, j)
<1> DEFINE c == ItemAt(b, j)
           v == SubSeq(b, p + 1, q)
<1>0. c = ItemAt(b, j) /\ v = SubSeq(b, p + 1, q)
  OBVIOUS
<1>1. q \in 0 .. Len(b) /\ j \in 0 .. Len(b) /\ j < Len(b)
  BY BoundsFacts
<1>2. /\ c \in Syms /\ SubSeq(b, j + 1, j + Width(c)) = Enc[c]
      /\ Width(c) \in Nat /\ j + Width(c) <= q
  <2>1. c \in Syms /\ SubSeq(b, j + 1, j + Width(c)) = Enc[c]
    BY <1>1, ItemAtFacts
  <2>2. Width(c) \in Nat
    BY <2>1, EncType
  <2>3. j + Width(c) <= q
    BY <1>1, ItemEnd
  <2>4. QED
    BY <2>1, <2>2, <2>3
<1>3. v \in Seq(Units) /\ Len(v) = q - p
  BY <1>1, SubSeqType
<1> HIDE DEF c, v
<1>4. SubSeq(v, (j - p) + 1, (j - p) + Width(c)) = SubSeq(b, j + 1, j + Width(c))
  <2>1. SubSeq(v, (j - p) + 1, (j - p) + Width(c))
          = SubSeq(b, p + (j - p) + 1, p + ((j - p) + Width(c)))
    BY <1>1, <1>2, RangeOfRange DEF v
  <2>2. p + (j - p) + 1 = j + 1 /\ p + ((j - p) + Width(c)) = j + Width(c)
    BY <1>1, <1>2
  <2>3. QED
    BY <2>1, <2>2, Zenon
<1>5. MatchesAt(v, j - p, c)
  <2>1. (j - p) + Width(c) <= Len(v)
    BY <1>1, <1>2, <1>3
  <2>2. QED
    BY <1>2, <2>1, <1>4 DEF MatchesAt
<1>6. j - p \in 0 .. Len(v)
  BY <1>1, <1>3
<1>7. QED
  BY <1>0, <1>2, <1>3, <1>5, <1>6, MatchIsItemAt

(***************************************************************************)
(* The scans.  RunMax(b, p, q, P): every item from p up to q satisfies the *)
(* predicate and q is the end of b or an item failing it -- what the       *)
(* first failing boundary, the Least of the scans, gives.                  *)
(***************************************************************************)
RunMax(b, p, q, P) ==
  /\ \A j \in Bounds(b) : p <= j /\ j < q => ItemAt(b, j) \in P
  /\ q = Len(b) \/ ItemAt(b, q) \notin P

\* str_uncons_while stops at the first boundary from `from` on whose char
\* fails f; given that the chars from p up to from pass, so do all before it.
LEMMA StrScanMax ==
  ASSUME NEW b \in Seq(Units), WellFormed(b), NEW p \in Bounds(b),
         NEW from \in Bounds(b), p <= from, NEW P,
         \A j \in Bounds(b) : p <= j /\ j < from => ItemAt(b, j) \in P
  PROVE  RunMax(b, p, StrUnconsWhile(b, p, from, P).pos, P)
<1> DEFINE S == {j \in Bounds(b) : j >= from /\ (j = Len(b) \/ ItemAt(b, j) \notin P)}
<1>1. p \in 0 .. Len(b) /\ from \in 0 .. Len(b) /\ S \subseteq 0 .. Len(b)
  BY BoundsFacts
<1>2. Len(b) \in S
  BY <1>1, BoundsFacts
<1>3. PICK k \in S : k = Least(S)
  BY <1>1, <1>2, LeastIsLeast
<1>4. \A x \in S : k <= x
  BY <1>1, <1>2, <1>3, LeastIsLeast
<1>5. k < Len(b) => Width(ItemAt(b, k)) \in Nat
  BY <1>3, ItemAtFacts, EncType
<1>6. StrUnconsWhile(b, p, from, P).pos = k
  <2> DEFINE found == k < Len(b)
             lastCharSize == IF found THEN Width(ItemAt(b, k)) ELSE 0
             asStrLen == IF found THEN Len(b) - k - lastCharSize ELSE 0
             len == (Len(b) - p) - asStrLen - lastCharSize
  <2>1. p + len = k
    BY <1>1, <1>3, <1>5
  <2>2. StrUnconsWhile(b, p, from, P).pos = p + len
    BY <1>3 DEF StrUnconsWhile, RawOk
  <2>3. QED
    BY <2>1, <2>2
<1> HIDE DEF S
<1>7. ASSUME NEW j \in Bounds(b), p <= j, j < k PROVE ItemAt(b, j) \in P
  <2>1. CASE j < from
    BY <1>7, <2>1
  <2>2. CASE j >= from
    <3>1. j \notin S
      BY <1>1, <1>4, <1>7
    <3>2. QED
      BY <2>2, <3>1, <1>1 DEF S
  <2>3. QED
    BY <1>1, <2>1, <2>2
<1>8. k = Len(b) \/ ItemAt(b, k) \notin P
  BY <1>3 DEF S
<1>9. QED
  BY <1>6, <1>7, <1>8 DEF RunMax

\* slice_uncons_while stops at the first item from i on that fails f;
\* given that the items before i pass, so do all before it.
LEMMA SliceScanMax ==
  ASSUME Kind = "slice", NEW b \in Seq(Units), NEW p \in 0 .. Len(b),
         NEW i \in 0 .. Len(b) - p, NEW P,
         \A x \in 0 .. i - 1 : b[p + x + 1] \in P
  PROVE  RunMax(b, p, SliceUnconsWhile(b, p, i, P).pos, P)
<1> DEFINE s == SubSeq(b, p + 1, Len(b))
           S == {x \in i .. Len(s) : x = Len(s) \/ s[x + 1] \notin P}
<1>1. Len(s) = Len(b) - p /\ s \in Seq(Units)
      /\ \A x \in 1 .. Len(b) - p : s[x] = b[p + x]
  BY RestFacts
<1>2. Len(s) \in S /\ S \subseteq Nat
  BY <1>1
<1>3. PICK j \in S : j = Least(S)
  BY <1>2, LeastIsLeast
<1>4. \A x \in S : j <= x
  BY <1>2, <1>3, LeastIsLeast
<1>5. SliceUnconsWhile(b, p, i, P).pos = p + j
  BY <1>3 DEF SliceUnconsWhile, RawOk
<1> HIDE DEF S, s
<1>6. j \in i .. Len(b) - p
  BY <1>1, <1>3 DEF S
<1>7. ASSUME NEW jj \in Bounds(b), p <= jj, jj < p + j PROVE ItemAt(b, jj) \in P
  <2>1. jj \in 0 .. Len(b) - 1
    BY <1>6, <1>7, BoundsFacts
  <2>2. ItemAt(b, jj) = b[jj + 1]
    BY <2>1, SliceItemAt
  <2>3. CASE jj - p < i
    <3>1. jj - p \in 0 .. i - 1 /\ p + (jj - p) + 1 = jj + 1
      BY <1>7, <2>1, <2>3
    <3>2. b[p + (jj - p) + 1] \in P
      BY <3>1
    <3>3. QED
      BY <2>2, <3>1, <3>2
  <2>4. CASE jj - p >= i
    <3>1. jj - p \notin S
      BY <1>4, <1>6, <1>7, <2>1
    <3>2. jj - p \in i .. Len(s) /\ jj - p # Len(s)
      BY <1>1, <1>6, <1>7, <2>1, <2>4
    <3>3. s[jj - p + 1] \in P
      BY <3>1, <3>2 DEF S
    <3>4. s[jj - p + 1] = b[jj + 1]
      BY <1>1, <2>1, <3>2
    <3>5. QED
      BY <2>2, <3>3, <3>4
  <2>5. QED
    BY <2>1, <2>3, <2>4
<1>8. p + j = Len(b) \/ ItemAt(b, p + j) \notin P
  <2>1. CASE j = Len(s)
    BY <1>1, <2>1
  <2>2. CASE j # Len(s)
    <3>1. s[j + 1] \notin P
      BY <1>3, <2>2 DEF S
    <3>2. s[j + 1] = b[p + j + 1] /\ p + j \in 0 .. Len(b) - 1
      BY <1>1, <1>6, <2>2
    <3>3. ItemAt(b, p + j) = b[p + j + 1]
      BY <3>2, SliceItemAt
    <3>4. QED
      BY <3>1, <3>2, <3>3
  <2>3. QED
    BY <2>1, <2>2
<1>9. QED
  BY <1>5, <1>7, <1>8 DEF RunMax

\* Every item decoded inside a maximal run satisfies the predicate.
LEMMA RunMaxRange ==
  ASSUME NEW b \in Seq(Units), WellFormed(b), NEW p \in Bounds(b),
         NEW q \in Bounds(b), p <= q, NEW P, RunMax(b, p, q, P)
  PROVE  \A k \in Bounds(SubSeq(b, p + 1, q)) \ {Len(SubSeq(b, p + 1, q))} :
            ItemAt(SubSeq(b, p + 1, q), k) \in P
<1>1. p \in 0 .. Len(b) /\ q \in 0 .. Len(b)
  BY BoundsFacts
<1> DEFINE v == SubSeq(b, p + 1, q)
<1>2. v \in Seq(Units) /\ Len(v) = q - p
  BY <1>1, SubSeqType
<1> SUFFICES ASSUME NEW k \in Bounds(v), k # Len(v) PROVE ItemAt(v, k) \in P
  OBVIOUS
<1>3. k \in 0 .. q - p /\ k < q - p
  <2>1. Bounds(v) \subseteq 0 .. Len(v)
    BY <1>2, BoundsFacts
  <2>2. QED
    BY <1>1, <1>2, <2>1
<1>4. p + k \in Bounds(b)
  BY <1>1, <1>3, BoundOfRange
<1>5. ItemAt(v, (p + k) - p) = ItemAt(b, p + k)
  BY <1>1, <1>3, <1>4, ItemAtOfRange
<1>6. ItemAt(b, p + k) \in P
  BY <1>1, <1>3, <1>4 DEF RunMax
<1>7. QED
  BY <1>1, <1>3, <1>5, <1>6

\* What a successful uncons_while or uncons_while1 delivers: the cursor
\* moves forward to a boundary q, the value is b[p+1 .. q], and q ends a
\* maximal run of items satisfying the predicate.
MaxStep(e, b, p, P) ==
  /\ e.pos \in Bounds(b)
  /\ p <= e.pos
  /\ e.res.val = SubSeq(b, p + 1, e.pos)
  /\ RunMax(b, p, e.pos, P)

LEMMA WhileScanMax ==
  ASSUME NEW b \in Seq(Units), WellFormed(b), NEW p \in Bounds(b), NEW P
  PROVE  RunMax(b, p, WhileScan(b, p, P).pos, P)
<1>1. p \in 0 .. Len(b)
  BY BoundsFacts
<1>2. CASE Kind = "str"
  <2>0. \A j \in Bounds(b) : p <= j /\ j < p => ItemAt(b, j) \in P
    BY <1>1, BoundsFacts
  <2>1. RunMax(b, p, StrUnconsWhile(b, p, p, P).pos, P)
    <3>1. p <= p
      BY <1>1
    <3>2. QED
      BY <2>0, <3>1, StrScanMax, Zenon
  <2>2. QED
    BY <1>2, <2>1 DEF WhileScan
<1>3. CASE Kind # "str"
  <2>1. Kind = "slice"
    BY <1>3, KindAssumption
  <2>2. RunMax(b, p, SliceUnconsWhile(b, p, 0, P).pos, P)
    BY <1>1, <2>1, SliceScanMax
  <2>3. QED
    BY <1>3, <2>2 DEF WhileScan
<1>4. QED
  BY <1>2, <1>3

LEMMA UnconsWhileMax ==
  ASSUME NEW b \in Seq(Units), WellFormed(b), NEW p \in Bounds(b),
         NEW P, NEW pt \in BOOLEAN, UnconsWhile(b, p, P, pt).res.tag \in OkTags
  PROVE  MaxStep(UnconsWhile(b, p, P, pt), b, p, P)
<1> DEFINE r == WhileScan(b, p, P)
<1>1. p \in 0 .. Len(b)
  BY BoundsFacts
<1>2. ScanOK(r, b, p, p) /\ RunMax(b, p, r.pos, P)
  BY WhileScanOK, WhileScanMax
<1>3. r.ok /\ r.pos \in Bounds(b) /\ p <= r.pos /\ r.val = SubSeq(b, p + 1, r.pos)
  BY <1>2 DEF ScanOK
<1> HIDE DEF r
<1>4. UnconsWhile(b, p, P, pt) =
        IF pt /\ AtEof(b, r.pos)
        THEN [pos |-> r.pos, res |-> Err("ConsumedErr", "Eoi", r.pos)]
        ELSE [pos |-> r.pos,
              res |-> Ok(IF Len(r.val) = 0 THEN "EmptyOk" ELSE "ConsumedOk", r.val)]
  BY <1>3 DEF UnconsWhile, WhileScan, r
<1>5. ~(pt /\ AtEof(b, r.pos))
  BY <1>4 DEF Err, OkTags
<1>6. UnconsWhile(b, p, P, pt) =
        [pos |-> r.pos,
         res |-> Ok(IF Len(r.val) = 0 THEN "EmptyOk" ELSE "ConsumedOk", r.val)]
  BY <1>4, <1>5
<1>7. QED
  BY <1>2, <1>3, <1>6 DEF MaxStep, Ok

\* Every item has a non-empty encoding.
LEMMA WidthPositive ==
  ASSUME NEW s \in Syms
  PROVE  Width(s) >= 1
<1>1. Enc[s] \in Seq(Units) /\ Enc[s] # <<>>
  BY EncAssumption
<1>2. QED
  BY <1>1, EmptySeq DEF Width

\* The inner uncons_while1 scan, when it succeeds.
LEMMA While1ScanMax ==
  ASSUME NEW b \in Seq(Units), WellFormed(b), NEW p \in Bounds(b), NEW P,
         While1Scan(b, p, P).tag = "ConsumedOk"
  PROVE  /\ While1Scan(b, p, P).pos \in Bounds(b)
         /\ p <= While1Scan(b, p, P).pos
         /\ p < While1Scan(b, p, P).pos
         /\ While1Scan(b, p, P).val = SubSeq(b, p + 1, While1Scan(b, p, P).pos)
         /\ RunMax(b, p, While1Scan(b, p, P).pos, P)
<1>1. p \in 0 .. Len(b)
  BY BoundsFacts
<1>2. CASE Kind = "str"
  <2>1. ~(p = Len(b) \/ ItemAt(b, p) \notin P)
    BY <1>2 DEF While1Scan, StrUnconsWhile1
  <2> DEFINE from == p + Width(ItemAt(b, p))
             rr == StrUnconsWhile(b, p, from, P)
  <2>2. ItemAt(b, p) \in Syms /\ from \in Bounds(b) /\ Width(ItemAt(b, p)) \in Nat
    BY <2>1, ItemAtFacts, EncType
  <2>3. p <= from
    BY <1>1, <2>2
  <2>4. \A j \in Bounds(b) : p <= j /\ j < from => ItemAt(b, j) \in P
    <3> SUFFICES ASSUME NEW j \in Bounds(b), p <= j, j < from PROVE ItemAt(b, j) \in P
      OBVIOUS
    <3>1. j \in 0 .. Len(b)
      BY BoundsFacts
    <3>2. CASE j = p
      BY <2>1, <3>2
    <3>3. CASE j > p
      <4>1. from <= j
        BY <2>1, <1>1, <3>1, <3>3, ItemEnd
      <4>2. QED
        BY <1>1, <2>2, <3>1, <4>1
    <3>4. QED
      BY <1>1, <3>1, <3>2, <3>3
  <2>5. ScanOK(rr, b, p, from) /\ RunMax(b, p, rr.pos, P)
    BY <2>2, <2>3, <2>4, StrUnconsWhileOK, StrScanMax
  <2>6. While1Scan(b, p, P) = [tag |-> "ConsumedOk", val |-> rr.val, pos |-> rr.pos]
    BY <1>2, <2>1 DEF While1Scan, StrUnconsWhile1
  <2>7. While1Scan(b, p, P).pos = rr.pos /\ While1Scan(b, p, P).val = rr.val
    BY <2>6
  <2>8. rr.pos \in Bounds(b) /\ p <= rr.pos /\ rr.val = SubSeq(b, p + 1, rr.pos)
    BY <1>1, <2>2, <2>3, <2>5, BoundsFacts DEF ScanOK
  <2>9. p < rr.pos
    <3>1. Width(ItemAt(b, p)) >= 1
      BY <2>2, WidthPositive
    <3>2. from <= rr.pos /\ rr.pos \in Nat
      BY <2>5, <1>1, BoundsFacts DEF ScanOK
    <3>3. QED
      BY <1>1, <2>2, <3>1, <3>2
  <2> HIDE DEF rr
  <2>10. QED
    BY <2>5, <2>7, <2>8, <2>9
<1>3. CASE Kind # "str"
  <2>0. Kind = "slice"
    BY <1>3, KindAssumption
  <2>1. ~(p = Len(b) \/ b[p + 1] \notin P)
    BY <1>3 DEF While1Scan, SliceUnconsWhile1
  <2> DEFINE rr == SliceUnconsWhile(b, p, 1, P)
  <2>2. 1 \in 0 .. Len(b) - p /\ \A x \in 0 .. 1 - 1 : b[p + x + 1] \in P
    BY <1>1, <2>1
  <2>3. ScanOK(rr, b, p, p + 1) /\ RunMax(b, p, rr.pos, P)
    BY <1>1, <2>0, <2>2, SliceUnconsWhileOK, SliceScanMax
  <2>4. While1Scan(b, p, P) = [tag |-> "ConsumedOk", val |-> rr.val, pos |-> rr.pos]
    BY <1>3, <2>1 DEF While1Scan, SliceUnconsWhile1
  <2>5. While1Scan(b, p, P).pos = rr.pos /\ While1Scan(b, p, P).val = rr.val
    BY <2>4
  <2>6. rr.pos \in Bounds(b) /\ p <= rr.pos /\ rr.val = SubSeq(b, p + 1, rr.pos)
    BY <1>1, <2>3, BoundsFacts DEF ScanOK
  <2>7. p < rr.pos
    <3>1. p + 1 <= rr.pos /\ rr.pos \in Nat
      BY <2>3, BoundsFacts DEF ScanOK
    <3>2. QED
      BY <1>1, <3>1
  <2> HIDE DEF rr
  <2>8. QED
    BY <2>3, <2>5, <2>6, <2>7
<1>4. QED
  BY <1>2, <1>3

LEMMA UnconsWhile1Max ==
  ASSUME NEW b \in Seq(Units), WellFormed(b), NEW p \in Bounds(b),
         NEW P, NEW pt \in BOOLEAN, UnconsWhile1(b, p, P, pt).res.tag \in OkTags
  PROVE  MaxStep(UnconsWhile1(b, p, P, pt), b, p, P)
<1> DEFINE r == While1Scan(b, p, P)
           q == IF r.tag = "ConsumedOk" THEN r.pos ELSE p
<1>1. While1OK(r, b, p)
  BY While1ScanOK
<1> HIDE DEF r, q
<1>2. UnconsWhile1(b, p, P, pt) =
        IF pt /\ AtEof(b, q) THEN [pos |-> q, res |-> Err("ConsumedErr", "Eoi", q)]
        ELSE CASE r.tag = "ConsumedOk" -> [pos |-> q, res |-> Ok("ConsumedOk", r.val)]
               [] r.tag = "EmptyErr"   -> [pos |-> q, res |-> Err("EmptyErr", "Unexpected", q)]
               [] r.tag = "ConsumedErr" -> [pos |-> q, res |-> WrapStreamError(q, r.err, pt)]
  BY DEF UnconsWhile1, While1Scan, r, q
<1>3. ~(pt /\ AtEof(b, q))
  BY <1>2 DEF Err, OkTags
<1>4. r.tag = "ConsumedOk"
  BY <1>1, <1>2, <1>3 DEF While1OK, Err, OkTags
<1>5. q = r.pos
  BY <1>4 DEF q
<1>6. UnconsWhile1(b, p, P, pt) = [pos |-> r.pos, res |-> Ok("ConsumedOk", r.val)]
  BY <1>2, <1>3, <1>4, <1>5
<1>7. /\ r.pos \in Bounds(b) /\ p <= r.pos /\ r.val = SubSeq(b, p + 1, r.pos)
      /\ RunMax(b, p, r.pos, P)
  BY <1>4, While1ScanMax DEF r
<1>8. QED
  BY <1>6, <1>7 DEF MaxStep, Ok

(***************************************************************************)
(* The contract of RangeStreamOnce::distance (DistanceReplay): in every    *)
(* state of every behaviour, resetting to the checkpoint and calling       *)
(* uncons_range(distance(checkpoint)) succeeds and brings the cursor back  *)
(* to where it is, for &str and &[T], partial or not.                      *)
(***************************************************************************)
THEOREM DistanceReplaySafety == Spec => []DistanceReplay
<1>1. RInv => DistanceReplay
  <2> SUFFICES ASSUME RInv PROVE DistanceReplay
    OBVIOUS
  <2>1. buf \in Seq(Units) /\ ckpt \in Bounds(buf) /\ pos \in Bounds(buf)
        /\ ckpt <= pos /\ partial \in BOOLEAN
    BY DEF RInv, IInv, TypeOK
  <2>2. QED
    BY <2>1, ReplayOK DEF DistanceReplay
<1>2. QED
  BY <1>1, InitRInv, NextRInv, PTL DEF Spec
(***************************************************************************)
(* A call of uncons_while or uncons_while1 that succeeds leaves a state    *)
(* where WhileRangeMaximal holds; every other call or step leaves an       *)
(* outcome or an operation it says nothing about.                          *)
(***************************************************************************)
LEMMA CallMax ==
  ASSUME IInv, NEW o \in Ops, o.name \notin {"checkpoint", "reset"}, Call(o)
  PROVE  WhileRangeMaximal'
<1> DEFINE e == Exec(o, buf, pos, partial)
<1>1. buf \in Seq(Units) /\ WellFormed(buf) /\ pos \in Bounds(buf) /\ partial \in BOOLEAN
  BY DEF IInv, TypeOK
<1>2. pos' = e.pos /\ res' = e.res /\ op' = o /\ buf' = buf
  BY DEF Call
<1> HIDE DEF e
<1>3. CASE o.name \in {"while", "while1"} /\ e.res.tag \in OkTags
  <2>1. o.pred \in Preds
    BY <1>3 DEF Ops
  <2>2. MaxStep(e, buf, pos, o.pred)
    <3>1. CASE o.name = "while"
      BY <1>1, <1>3, <3>1, UnconsWhileMax DEF e, Exec
    <3>2. CASE o.name = "while1"
      BY <1>1, <1>3, <3>2, UnconsWhile1Max DEF e, Exec
    <3>3. QED
      BY <1>3, <3>1, <3>2
  <2>3. /\ e.pos \in Bounds(buf) /\ pos <= e.pos /\ e.res.val = SubSeq(buf, pos + 1, e.pos)
        /\ RunMax(buf, pos, e.pos, o.pred)
    BY <2>2 DEF MaxStep
  <2>4. \A k \in Bounds(e.res.val) \ {Len(e.res.val)} : ItemAt(e.res.val, k) \in o.pred
    BY <1>1, <2>3, RunMaxRange
  <2>5. e.pos = Len(buf) \/ ItemAt(buf, e.pos) \notin o.pred
    BY <2>3 DEF RunMax
  <2>6. QED
    BY <1>2, <2>4, <2>5 DEF WhileRangeMaximal
<1>4. CASE ~(o.name \in {"while", "while1"} /\ e.res.tag \in OkTags)
  BY <1>2, <1>4 DEF WhileRangeMaximal
<1>5. QED
  BY <1>3, <1>4

\* WhileRangeMaximal is preserved by every step from a state of IInv.
LEMMA NextMax == IInv /\ WhileRangeMaximal /\ [Next]_vars => WhileRangeMaximal'
<1> SUFFICES ASSUME IInv, WhileRangeMaximal, [Next]_vars PROVE WhileRangeMaximal'
  OBVIOUS
<1>1. CASE UnconsStep
  <2>1. [name |-> "uncons"] \in Ops
    BY DEF Ops
  <2>2. QED
    BY <1>1, <2>1, CallMax DEF UnconsStep
<1>2. CASE UnconsRangeStep
  <2>1. PICK n \in Sizes : Call([name |-> "range", size |-> n])
    BY <1>2 DEF UnconsRangeStep
  <2>2. [name |-> "range", size |-> n] \in Ops
    BY DEF Ops
  <2>3. QED
    BY <2>1, <2>2, CallMax
<1>3. CASE UnconsWhileStep
  <2>1. PICK P \in Preds : Call([name |-> "while", pred |-> P])
    BY <1>3 DEF UnconsWhileStep
  <2>2. [name |-> "while", pred |-> P] \in Ops
    BY DEF Ops
  <2>3. QED
    BY <2>1, <2>2, CallMax
<1>4. CASE UnconsWhile1Step
  <2>1. PICK P \in Preds : Call([name |-> "while1", pred |-> P])
    BY <1>4 DEF UnconsWhile1Step
  <2>2. [name |-> "while1", pred |-> P] \in Ops
    BY DEF Ops
  <2>3. QED
    BY <2>1, <2>2, CallMax
<1>5. CASE CheckpointStep \/ ResetStep
  BY <1>5 DEF CheckpointStep, ResetStep, WhileRangeMaximal
<1>6. CASE UNCHANGED vars
  BY <1>6 DEF vars, WhileRangeMaximal
<1>7. QED
  BY <1>1, <1>2, <1>3, <1>4, <1>5, <1>6 DEF Next

(***************************************************************************)
(* The scans of str_uncons_while and slice_uncons_while, and the           *)
(* last_char_size arithmetic of the first (WhileRangeMaximal): in every    *)
(* state after a successful uncons_while or uncons_while1, every char or   *)
(* item of the returned range satisfies the predicate and the cursor is at *)
(* the end of the input or before an item failing it, for every encoding, *)
(* input and predicate.                                                    *)
(***************************************************************************)
THEOREM ScansMaximal == Spec => []WhileRangeMaximal
<1>1. Init => IInv /\ WhileRangeMaximal
  BY InitIInv DEF Init, WhileRangeMaximal
<1>2. IInv /\ WhileRangeMaximal /\ [Next]_vars => (IInv /\ WhileRangeMaximal)'
  BY IInvInductive, NextMax
<1>3. QED
  BY <1>1, <1>2, PTL DEF Spec
(***************************************************************************)
(* The outcome algebra of one call e of a primitive at offset p of b: an   *)
(* Empty outcome leaves the cursor where it was, a ConsumedOk moves it,    *)
(* without PartialStream Consumed means moved, a success returns the input *)
(* stepped over and an error carries the new position.                     *)
(***************************************************************************)
Contract(e, b, p, pt) ==
  /\ e.res.tag \in {"EmptyOk", "EmptyErr"} => e.pos = p
  /\ e.res.tag = "ConsumedOk" => e.pos > p
  /\ ~pt => (e.res.tag \in {"ConsumedOk", "ConsumedErr"} <=> e.pos > p)
  /\ e.res.tag \in OkTags => e.res.val = SubSeq(b, p + 1, e.pos)
  /\ e.res.tag \in ErrTags => e.res.at = e.pos

\* An error of wrap_stream_error at p, with the cursor left at p.
LEMMA WrapContract ==
  ASSUME NEW b, NEW p \in Nat, NEW e, NEW pt \in BOOLEAN
  PROVE  Contract([pos |-> p, res |-> WrapStreamError(p, e, pt)], b, p, pt)
BY DEF Contract, WrapStreamError, Err, OkTags, ErrTags

\* uncons of a whole item: it is the item's encoding, which is not empty.
LEMMA UnconsContract ==
  ASSUME NEW b \in Seq(Units), WellFormed(b), NEW p \in Bounds(b), NEW pt \in BOOLEAN
  PROVE  Contract(Uncons(b, p, pt), b, p, pt)
<1>1. p \in 0 .. Len(b)
  BY BoundsFacts
<1>2. CASE p < Len(b)
  <2> DEFINE c == ItemAt(b, p)
  <2>1. c \in Syms /\ SubSeq(b, p + 1, p + Width(c)) = Enc[c]
    BY <1>1, <1>2, ItemAtFacts
  <2>2. Width(c) >= 1 /\ Width(c) \in Nat
    BY <2>1, WidthPositive, EncType
  <2>3. Uncons(b, p, pt) = [pos |-> p + Width(c), res |-> Ok("ConsumedOk", Enc[c])]
    BY <1>2 DEF Uncons
  <2> HIDE DEF c
  <2>4. QED
    BY <1>1, <2>1, <2>2, <2>3 DEF Contract, Ok, OkTags, ErrTags
<1>3. CASE ~(p < Len(b))
  <2>1. Uncons(b, p, pt) = [pos |-> p, res |-> WrapStreamError(p, "Eoi", pt)]
    BY <1>3 DEF Uncons
  <2>2. QED
    BY <1>1, <2>1, WrapContract
<1>4. QED
  BY <1>2, <1>3

\* uncons_range on a raw error: the cursor stays and the error is wrapped.
LEMMA UnconsRangeOnErr ==
  ASSUME NEW b, NEW p, NEW n, NEW pt, NEW e,
         (IF Kind = "str" THEN StrUnconsRange(b, p, n) ELSE SliceUnconsRange(b, p, n))
           = RawErr(e)
  PROVE  UnconsRange(b, p, n, pt) = [pos |-> p, res |-> WrapStreamError(p, e, pt)]
BY DEF UnconsRange, RawErr

\* uncons_range(size) either fails or takes exactly size units: for &str
\* the first size units of the rest are the units p + 1 .. p + size.
LEMMA RangeContract ==
  ASSUME NEW b \in Seq(Units), NEW p \in Bounds(b), NEW size \in Nat,
         NEW pt \in BOOLEAN
  PROVE  Contract(UnconsRange(b, p, size, pt), b, p, pt)
<1>1. p \in 0 .. Len(b)
  BY BoundsFacts
<1> DEFINE s == SubSeq(b, p + 1, Len(b))
           r == IF Kind = "str" THEN StrUnconsRange(b, p, size)
                ELSE SliceUnconsRange(b, p, size)
           v == SubSeq(b, p + 1, p + size)
<1>2. Len(s) = Len(b) - p
  BY <1>1, RestFacts
<1>3. r = RawOk(v, p + size) \/ \E e \in Errors : r = RawErr(e)
  <2>1. CASE Kind = "str" /\ size <= Len(s) /\ IsCharBoundary(s, size)
    <3>1. SubSeq(s, 0 + 1, size) = SubSeq(b, p + 0 + 1, p + size)
      BY <1>1, <1>2, <2>1, RangeOfRange
    <3>2. 0 + 1 = 1 /\ p + 0 + 1 = p + 1
      BY <1>1
    <3>3. SubSeq(s, 1, size) = v
      BY <3>1, <3>2, Zenon
    <3>4. QED
      BY <2>1, <3>3 DEF StrUnconsRange
  <2>2. CASE Kind = "str" /\ ~(size <= Len(s) /\ IsCharBoundary(s, size))
    BY <2>2 DEF StrUnconsRange, Errors
  <2>3. CASE Kind # "str"
    BY <2>3 DEF SliceUnconsRange, Errors
  <2>4. QED
    BY <2>1, <2>2, <2>3
<1> HIDE DEF s, r, v
<1>4. CASE r = RawOk(v, p + size)
  <2>1. UnconsRange(b, p, size, pt)
          = [pos |-> p + size, res |-> Ok(IF size = 0 THEN "EmptyOk" ELSE "ConsumedOk", v)]
    BY <1>4, UnconsRangeOnOk DEF r
  <2>2. QED
    BY <1>1, <2>1 DEF Contract, Ok, OkTags, ErrTags, v
<1>5. CASE \E e \in Errors : r = RawErr(e)
  <2>1. PICK e \in Errors : r = RawErr(e)
    BY <1>5
  <2>2. UnconsRange(b, p, size, pt) = [pos |-> p, res |-> WrapStreamError(p, e, pt)]
    BY <2>1, UnconsRangeOnErr DEF r
  <2>3. QED
    BY <1>1, <2>2, WrapContract
<1>6. QED
  BY <1>3, <1>4, <1>5
\* uncons_while always scans successfully; the outcome is Empty exactly
\* when the scan took nothing, and a partial input at its end is an error
\* at the new position.
LEMMA WhileContract ==
  ASSUME NEW b \in Seq(Units), WellFormed(b), NEW p \in Bounds(b),
         NEW P, NEW pt \in BOOLEAN
  PROVE  Contract(UnconsWhile(b, p, P, pt), b, p, pt)
<1> DEFINE r == WhileScan(b, p, P)
<1>1. p \in 0 .. Len(b)
  BY BoundsFacts
<1>2. ScanOK(r, b, p, p)
  BY WhileScanOK
<1>3. r.ok /\ r.pos \in p .. Len(b) /\ r.val = SubSeq(b, p + 1, r.pos)
  BY <1>1, <1>2, ScanValue DEF ScanOK
<1>4. Len(r.val) = r.pos - p
  BY <1>1, <1>3, SubSeqType
<1> HIDE DEF r
<1>5. UnconsWhile(b, p, P, pt) =
        IF pt /\ AtEof(b, r.pos)
        THEN [pos |-> r.pos, res |-> Err("ConsumedErr", "Eoi", r.pos)]
        ELSE [pos |-> r.pos,
              res |-> Ok(IF Len(r.val) = 0 THEN "EmptyOk" ELSE "ConsumedOk", r.val)]
  BY <1>3 DEF UnconsWhile, WhileScan, r
<1>6. CASE pt /\ AtEof(b, r.pos)
  BY <1>5, <1>6 DEF Contract, Err, OkTags, ErrTags
<1>7. CASE ~(pt /\ AtEof(b, r.pos))
  BY <1>1, <1>3, <1>4, <1>5, <1>7 DEF Contract, Ok, OkTags, ErrTags
<1>8. QED
  BY <1>6, <1>7

\* uncons_while1 either fails where it stands or takes at least one item;
\* a partial input at its end is an error at the new position.
LEMMA While1Contract ==
  ASSUME NEW b \in Seq(Units), WellFormed(b), NEW p \in Bounds(b),
         NEW P, NEW pt \in BOOLEAN
  PROVE  Contract(UnconsWhile1(b, p, P, pt), b, p, pt)
<1> DEFINE r == While1Scan(b, p, P)
           q == IF r.tag = "ConsumedOk" THEN r.pos ELSE p
<1>1. p \in 0 .. Len(b)
  BY BoundsFacts
<1>2. While1OK(r, b, p)
  BY While1ScanOK
<1>3. r.tag = "ConsumedOk" =>
        /\ r.pos \in 0 .. Len(b) /\ p < r.pos /\ r.val = SubSeq(b, p + 1, r.pos)
  BY While1ScanMax, BoundsFacts DEF r
<1> HIDE DEF r, q
<1>4. UnconsWhile1(b, p, P, pt) =
        IF pt /\ AtEof(b, q) THEN [pos |-> q, res |-> Err("ConsumedErr", "Eoi", q)]
        ELSE CASE r.tag = "ConsumedOk" -> [pos |-> q, res |-> Ok("ConsumedOk", r.val)]
               [] r.tag = "EmptyErr"   -> [pos |-> q, res |-> Err("EmptyErr", "Unexpected", q)]
               [] r.tag = "ConsumedErr" -> [pos |-> q, res |-> WrapStreamError(q, r.err, pt)]
  BY DEF UnconsWhile1, While1Scan, r, q
<1>5. CASE pt /\ AtEof(b, q)
  BY <1>4, <1>5 DEF Contract, Err, OkTags, ErrTags
<1>6. CASE ~(pt /\ AtEof(b, q)) /\ r.tag = "ConsumedOk"
  <2>1. q = r.pos
    BY <1>6 DEF q
  <2>2. QED
    BY <1>1, <1>3, <1>4, <1>6, <2>1 DEF Contract, Ok, OkTags, ErrTags
<1>7. CASE ~(pt /\ AtEof(b, q)) /\ r.tag = "EmptyErr"
  <2>1. q = p
    BY <1>7 DEF q
  <2>2. QED
    BY <1>1, <1>4, <1>7, <2>1 DEF Contract, Err, OkTags, ErrTags
<1>8. QED
  BY <1>2, <1>5, <1>6, <1>7 DEF While1OK

\* Every primitive keeps the outcome algebra.
LEMMA ExecContract ==
  ASSUME NEW b \in Seq(Units), WellFormed(b), NEW p \in Bounds(b),
         NEW pt \in BOOLEAN, NEW o \in Ops, o.name \notin {"checkpoint", "reset"}
  PROVE  Contract(Exec(o, b, p, pt), b, p, pt)
<1>1. CASE o.name = "uncons"
  BY <1>1, UnconsContract DEF Exec
<1>2. CASE o.name = "range"
  <2>1. o.size \in Nat
    BY <1>2, ArgsAssumption DEF Ops
  <2>2. QED
    BY <1>2, <2>1, RangeContract DEF Exec
<1>3. CASE o.name = "while"
  BY <1>3, WhileContract DEF Exec
<1>4. CASE o.name = "while1"
  BY <1>4, While1Contract DEF Exec
<1>5. QED
  BY <1>1, <1>2, <1>3, <1>4 DEF Ops

\* The step that OutcomeContract requires of every change of state.
ContractStep ==
  res' # NoResult =>
    /\ res'.tag \in {"EmptyOk", "EmptyErr"} => pos' = pos
    /\ res'.tag = "ConsumedOk" => pos' > pos
    /\ ~partial => (res'.tag \in {"ConsumedOk", "ConsumedErr"} <=> pos' > pos)
    /\ res'.tag \in OkTags => res'.val = SubSeq(buf, pos + 1, pos')
    /\ res'.tag \in ErrTags => res'.at = pos'

\* A call of a primitive is a step of the contract.
LEMMA CallContract ==
  ASSUME IInv, NEW o \in Ops, o.name \notin {"checkpoint", "reset"}, Call(o)
  PROVE  ContractStep
<1> DEFINE e == Exec(o, buf, pos, partial)
<1>1. Contract(e, buf, pos, partial)
  BY ExecContract DEF IInv, TypeOK
<1>2. pos' = e.pos /\ res' = e.res
  BY DEF Call
<1> HIDE DEF e
<1>3. QED
  BY <1>1, <1>2 DEF Contract, ContractStep

(***************************************************************************)
(* The outcome algebra of the free functions uncons, uncons_range,         *)
(* uncons_while and uncons_while1 and of wrap_stream_error                 *)
(* (OutcomeContract), for every encoding, input, predicate and size: an    *)
(* Empty outcome leaves the cursor, a ConsumedOk moves it, without         *)
(* PartialStream an outcome is Consumed exactly when the cursor moved, a   *)
(* success returns exactly the input stepped over and an error carries the *)
(* new position.  No strengthening beyond IInv is needed: each call is     *)
(* judged against the state it starts from.                                *)
(***************************************************************************)
THEOREM OutcomeAlgebra == Spec => OutcomeContract
<1>1. IInv /\ [Next]_vars => [ContractStep]_vars
  <2> SUFFICES ASSUME IInv, [Next]_vars PROVE [ContractStep]_vars
    OBVIOUS
  <2>1. CASE UnconsStep
    <3>1. [name |-> "uncons"] \in Ops
      BY DEF Ops
    <3>2. QED
      BY <2>1, <3>1, CallContract DEF UnconsStep
  <2>2. CASE UnconsRangeStep
    <3>1. PICK n \in Sizes : Call([name |-> "range", size |-> n])
      BY <2>2 DEF UnconsRangeStep
    <3>2. [name |-> "range", size |-> n] \in Ops
      BY DEF Ops
    <3>3. QED
      BY <3>1, <3>2, CallContract
  <2>3. CASE UnconsWhileStep
    <3>1. PICK P \in Preds : Call([name |-> "while", pred |-> P])
      BY <2>3 DEF UnconsWhileStep
    <3>2. [name |-> "while", pred |-> P] \in Ops
      BY DEF Ops
    <3>3. QED
      BY <3>1, <3>2, CallContract
  <2>4. CASE UnconsWhile1Step
    <3>1. PICK P \in Preds : Call([name |-> "while1", pred |-> P])
      BY <2>4 DEF UnconsWhile1Step
    <3>2. [name |-> "while1", pred |-> P] \in Ops
      BY DEF Ops
    <3>3. QED
      BY <3>1, <3>2, CallContract
  <2>5. CASE CheckpointStep \/ ResetStep
    BY <2>5 DEF CheckpointStep, ResetStep, ContractStep
  <2>6. CASE UNCHANGED vars
    BY <2>6
  <2>7. QED
    BY <2>1, <2>2, <2>3, <2>4, <2>5, <2>6 DEF Next
<1>2. Spec => []IInv
  BY InitIInv, IInvInductive, PTL DEF Spec
<1>3. QED
  BY <1>1, <1>2, PTL DEF Spec, OutcomeContract, ContractStep

=============================================================================
