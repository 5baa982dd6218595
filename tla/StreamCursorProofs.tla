------------------------- MODULE StreamCursorProofs -------------------------
(***************************************************************************)
(* Proofs about StreamCursor for every value of the constants: the cursor  *)
(* and the checkpoint of a &str stay on char boundaries, and every         *)
(* variable keeps its type, whatever calls the parser makes.               *)
(***************************************************************************)
EXTENDS StreamCursor, WellFoundedInduction, SequenceTheorems, TLAPS

(***************************************************************************)
(* A non-empty set of naturals has a least element, so the scans' Least is *)
(* a member of the set it is taken from.                                   *)
(***************************************************************************)
LEMMA LeastIsLeast ==
  ASSUME NEW S \in SUBSET Nat, S # {}
  PROVE  Least(S) \in S /\ \A x \in S : Least(S) <= x
<1>1. \E m \in S : \A x \in S : ~(<<x, m>> \in OpToRel(<, Nat))
  BY NatLessThanWellFounded, WFMin
<1>2. PICK m \in S : \A x \in S : ~(<<x, m>> \in OpToRel(<, Nat))
  BY <1>1
<1>3. \A x \in S : m <= x
  <2> TAKE x \in S
  <2>1. <<x, m>> \in Nat \X Nat
    OBVIOUS
  <2>2. ~(x < m)
    BY <1>2, <2>1 DEF OpToRel
  <2>3. QED
    BY <2>2
<1>4. QED
  BY <1>3 DEF Least

(***************************************************************************)
(* What a call of a primitive must deliver for the invariant: the cursor   *)
(* moves forward to an item boundary and the outcome is well typed.        *)
(***************************************************************************)
StepOK(r, b, p) ==
  /\ r.pos \in Bounds(b)
  /\ p <= r.pos
  /\ r.res \in Results

\* The boundaries of a buffer are offsets into it, its end among them, and
\* every offset of a slice.
LEMMA BoundsFacts ==
  ASSUME NEW b \in Seq(Units)
  PROVE  /\ Bounds(b) \subseteq 0 .. Len(b)
         /\ Len(b) \in Bounds(b)
         /\ Kind = "slice" => Bounds(b) = 0 .. Len(b)
BY DEF Bounds, IsCharBoundary

\* The encoding of an item is a sequence of units.
LEMMA EncType ==
  ASSUME NEW s \in Syms
  PROVE  Enc[s] \in Seq(Units) /\ Width(s) \in Nat
BY EncAssumption DEF Width

\* The item at a boundary other than the end is an item whose encoding ends
\* at the next boundary.
LEMMA ItemAtFacts ==
  ASSUME NEW b \in Seq(Units), WellFormed(b),
         NEW k \in Bounds(b), k # Len(b)
  PROVE  /\ ItemAt(b, k) \in Syms
         /\ k + Width(ItemAt(b, k)) <= Len(b)
         /\ k + Width(ItemAt(b, k)) \in Bounds(b)
         /\ SubSeq(b, k + 1, k + Width(ItemAt(b, k))) = Enc[ItemAt(b, k)]
BY DEF WellFormed

\* An error made by wrap_stream_error is a well-typed outcome.
LEMMA WrapType ==
  ASSUME NEW p \in Nat, NEW e \in Errors, NEW pt \in BOOLEAN
  PROVE  WrapStreamError(p, e, pt) \in Results
BY DEF WrapStreamError, Err, Results, ErrTags

LEMMA UnconsOK ==
  ASSUME NEW b \in Seq(Units), WellFormed(b), NEW p \in Bounds(b),
         NEW pt \in BOOLEAN
  PROVE  StepOK(Uncons(b, p, pt), b, p)
<1>1. p \in 0 .. Len(b)
  BY BoundsFacts
<1>2. CASE p < Len(b)
  <2> DEFINE c == ItemAt(b, p)
  <2>1. c \in Syms /\ p + Width(c) \in Bounds(b)
    BY <1>2, ItemAtFacts
  <2>2. Enc[c] \in Seq(Units) /\ Width(c) \in Nat
    BY <2>1, EncType
  <2>3. Uncons(b, p, pt) = [pos |-> p + Width(c), res |-> Ok("ConsumedOk", Enc[c])]
    BY <1>2 DEF Uncons
  <2>4. QED
    BY <2>1, <2>2, <2>3, <1>1 DEF StepOK, Ok, Results, OkTags
<1>3. CASE p = Len(b)
  <2>1. Uncons(b, p, pt) = [pos |-> p, res |-> WrapStreamError(p, "Eoi", pt)]
    BY <1>3 DEF Uncons
  <2>2. QED
    BY <2>1, <1>1, WrapType DEF StepOK, Errors
<1>4. QED
  BY <1>1, <1>2, <1>3

\* The remaining slice at offset p: its length and its units.
LEMMA RestFacts ==
  ASSUME NEW b \in Seq(Units), NEW p \in 0 .. Len(b)
  PROVE  /\ SubSeq(b, p + 1, Len(b)) \in Seq(Units)
         /\ Len(SubSeq(b, p + 1, Len(b))) = Len(b) - p
         /\ \A i \in 1 .. Len(b) - p : SubSeq(b, p + 1, Len(b))[i] = b[p + i]
<1>1. \A i \in p + 1 .. Len(b) : b[i] \in Units
  OBVIOUS
<1>2. QED
  BY <1>1, SubSeqProperties

\* A sub-range of a buffer: its type, its length and its units.
LEMMA SubSeqType ==
  ASSUME NEW b \in Seq(Units), NEW m \in 1 .. Len(b) + 1, NEW n \in m - 1 .. Len(b)
  PROVE  /\ SubSeq(b, m, n) \in Seq(Units)
         /\ Len(SubSeq(b, m, n)) = n - m + 1
         /\ \A i \in 1 .. n - m + 1 : SubSeq(b, m, n)[i] = b[m + i - 1]
<1>1. \A i \in m .. n : b[i] \in Units
  OBVIOUS
<1>2. QED
  BY <1>1, SubSeqProperties

LEMMA UnconsRangeOK ==
  ASSUME NEW b \in Seq(Units), NEW p \in Bounds(b), NEW size \in Nat,
         NEW pt \in BOOLEAN
  PROVE  StepOK(UnconsRange(b, p, size, pt), b, p)
<1>1. p \in 0 .. Len(b)
  BY BoundsFacts
<1> DEFINE s == SubSeq(b, p + 1, Len(b))
<1>2. s \in Seq(Units) /\ Len(s) = Len(b) - p
  BY <1>1, RestFacts
<1>3. CASE Kind = "str"
  <2> DEFINE r == StrUnconsRange(b, p, size)
  <2>1. CASE size <= Len(s) /\ IsCharBoundary(s, size)
    <3>1. r = RawOk(SubSeq(s, 1, size), p + size)
      BY <2>1 DEF StrUnconsRange
    <3>2. p + size \in Bounds(b)
      <4>1. CASE size = Len(s)
        BY <4>1, <1>2, BoundsFacts
      <4>2. CASE size < Len(s)
        <5>1. IsLead(s[size + 1])
          BY <2>1, <4>2, <1>2, <1>3 DEF IsCharBoundary
        <5>2. s[size + 1] = b[p + (size + 1)]
          <6>1. size + 1 \in 1 .. Len(b) - p
            BY <4>2, <1>2
          <6>2. QED
            BY <6>1, <1>1, RestFacts
        <5>3. p + size \in 0 .. Len(b) /\ p + size < Len(b) /\ p + (size + 1) = p + size + 1
          BY <4>2, <2>1, <1>1, <1>2
        <5>4. IsCharBoundary(b, p + size)
          BY <5>1, <5>2, <5>3, <1>3 DEF IsCharBoundary
        <5>5. QED
          BY <5>3, <5>4 DEF Bounds
      <4>3. QED
        BY <4>1, <4>2, <2>1, <1>2
    <3>3. SubSeq(s, 1, size) \in Seq(Units)
      BY <1>2, <2>1, SubSeqType
    <3>4. UnconsRange(b, p, size, pt) =
            [pos |-> p + size,
             res |-> Ok(IF size = 0 THEN "EmptyOk" ELSE "ConsumedOk", SubSeq(s, 1, size))]
      BY <1>3, <3>1 DEF UnconsRange, RawOk
    <3>5. Ok(IF size = 0 THEN "EmptyOk" ELSE "ConsumedOk", SubSeq(s, 1, size)) \in Results
      BY <3>3 DEF Ok, Results, OkTags
    <3>6. QED
      BY <1>1, <3>2, <3>4, <3>5 DEF StepOK
  <2>2. CASE ~(size <= Len(s) /\ IsCharBoundary(s, size))
    <3>1. ~r.ok /\ r.err \in Errors
      BY <2>2 DEF StrUnconsRange, RawErr, Errors
    <3>2. UnconsRange(b, p, size, pt) = [pos |-> p, res |-> WrapStreamError(p, r.err, pt)]
      BY <1>3, <3>1 DEF UnconsRange
    <3>3. QED
      BY <3>1, <3>2, <1>1, WrapType DEF StepOK
  <2>3. QED
    BY <2>1, <2>2
<1>4. CASE Kind # "str"
  <2> DEFINE r == SliceUnconsRange(b, p, size)
  <2>0. Kind = "slice"
    BY <1>4, KindAssumption
  <2>1. CASE size <= Len(b) - p
    <3>1. r = RawOk(SubSeq(b, p + 1, p + size), p + size)
      BY <2>1 DEF SliceUnconsRange
    <3>2. SubSeq(b, p + 1, p + size) \in Seq(Units)
      BY <2>1, <1>1, SubSeqType
    <3>3. UnconsRange(b, p, size, pt) =
            [pos |-> p + size,
             res |-> Ok(IF size = 0 THEN "EmptyOk" ELSE "ConsumedOk",
                        SubSeq(b, p + 1, p + size))]
      BY <1>4, <3>1 DEF UnconsRange, RawOk
    <3>4. p + size \in Bounds(b)
      BY <2>0, <2>1, <1>1, BoundsFacts
    <3>5. QED
      BY <1>1, <3>2, <3>3, <3>4 DEF StepOK, Ok, Results, OkTags
  <2>2. CASE ~(size <= Len(b) - p)
    <3>1. ~r.ok /\ r.err \in Errors
      BY <2>2 DEF SliceUnconsRange, RawErr, Errors
    <3>2. UnconsRange(b, p, size, pt) = [pos |-> p, res |-> WrapStreamError(p, r.err, pt)]
      BY <1>4, <3>1 DEF UnconsRange
    <3>3. QED
      BY <3>1, <3>2, <1>1, WrapType DEF StepOK
  <2>3. QED
    BY <2>1, <2>2
<1>5. QED
  BY <1>3, <1>4

\* What a scan must deliver: a raw success whose cursor is an item boundary
\* at or after from, and whose value is the slice taken.
ScanOK(r, b, p, from) ==
  /\ r.ok
  /\ r.pos \in Bounds(b)
  /\ from <= r.pos
  /\ r.val = SubSeq(b, p + 1, r.pos)

\* A raw success that takes b from p to a boundary k at or after from.
LEMMA RawScanOK ==
  ASSUME NEW r, NEW b, NEW p \in Nat, NEW from, NEW k,
         r = RawOk(SubSeq(b, p + 1, k), k), k \in Bounds(b), from <= k
  PROVE  ScanOK(r, b, p, from)
BY DEF RawOk, ScanOK

\* str_uncons_while cuts the slice at the first boundary from `from` on
\* whose char fails f: the arithmetic on last_char_size cancels out.
LEMMA StrUnconsWhileOK ==
  ASSUME NEW b \in Seq(Units), WellFormed(b), NEW p \in Bounds(b),
         NEW from \in Bounds(b), p <= from, NEW P
  PROVE  ScanOK(StrUnconsWhile(b, p, from, P), b, p, from)
<1> DEFINE S == {j \in Bounds(b) : j >= from /\ (j = Len(b) \/ ItemAt(b, j) \notin P)}
<1>1. p \in 0 .. Len(b) /\ from \in 0 .. Len(b) /\ S \subseteq 0 .. Len(b)
  BY BoundsFacts
<1>2. Len(b) \in S
  BY <1>1, BoundsFacts
<1>3. PICK k \in S : k = Least(S)
  BY <1>1, <1>2, LeastIsLeast
<1>4. k < Len(b) => /\ ItemAt(b, k) \in Syms
                    /\ k + Width(ItemAt(b, k)) <= Len(b)
                    /\ Width(ItemAt(b, k)) \in Nat
  BY <1>3, ItemAtFacts, EncType
<1>5. StrUnconsWhile(b, p, from, P) = RawOk(SubSeq(b, p + 1, k), k)
  <2> DEFINE found == k < Len(b)
             lastCharSize == IF found THEN Width(ItemAt(b, k)) ELSE 0
             asStrLen == IF found THEN Len(b) - k - lastCharSize ELSE 0
             len == (Len(b) - p) - asStrLen - lastCharSize
  <2>1. len = k - p
    BY <1>1, <1>3, <1>4
  <2>2. StrUnconsWhile(b, p, from, P) = RawOk(SubSeq(b, p + 1, p + len), p + len)
    BY <1>3 DEF StrUnconsWhile
  <2>3. QED
    BY <2>1, <2>2, <1>1
<1>6. k \in Bounds(b) /\ from <= k
  BY <1>1, <1>3
<1>7. QED
  BY <1>1, <1>5, <1>6, RawScanOK

\* slice_uncons_while splits at the first item from i on that fails f.
LEMMA SliceUnconsWhileOK ==
  ASSUME Kind = "slice", NEW b \in Seq(Units), NEW p \in 0 .. Len(b),
         NEW i \in 0 .. Len(b) - p, NEW P
  PROVE  ScanOK(SliceUnconsWhile(b, p, i, P), b, p, p + i)
<1> DEFINE s == SubSeq(b, p + 1, Len(b))
           S == {x \in i .. Len(s) : x = Len(s) \/ s[x + 1] \notin P}
<1>1. Len(s) = Len(b) - p /\ s \in Seq(Units)
  BY RestFacts
<1>2. Len(s) \in S /\ S \subseteq Nat
  BY <1>1
<1>3. PICK j \in i .. Len(s) : j = Least(S)
  BY <1>2, LeastIsLeast
<1> HIDE DEF S
<1>4. SubSeq(s, 1, j) = SubSeq(b, p + 1, p + j)
  <2>0. j \in 0 .. Len(s) /\ p + j \in p .. Len(b)
    BY <1>1, <1>3
  <2>1. /\ SubSeq(s, 1, j) \in Seq(Units) /\ Len(SubSeq(s, 1, j)) = j
        /\ \A x \in 1 .. j : SubSeq(s, 1, j)[x] = s[x]
    BY <1>1, <2>0, SubSeqType
  <2>2. /\ SubSeq(b, p + 1, p + j) \in Seq(Units) /\ Len(SubSeq(b, p + 1, p + j)) = j
        /\ \A x \in 1 .. j : SubSeq(b, p + 1, p + j)[x] = b[p + x]
    BY <2>0, SubSeqType
  <2>3. \A x \in 1 .. j : s[x] = b[p + x]
    BY <1>1, <1>3, RestFacts
  <2>4. QED
    BY <2>1, <2>2, <2>3, SeqEqual
<1>5. SliceUnconsWhile(b, p, i, P) = RawOk(SubSeq(b, p + 1, p + j), p + j)
  BY <1>3, <1>4 DEF SliceUnconsWhile, S
<1>6. p + j \in Bounds(b)
  BY <1>1, <1>3, BoundsFacts
<1>7. QED
  BY <1>3, <1>5, <1>6, RawScanOK

\* The value a scan returns is a sequence of units.
LEMMA ScanValue ==
  ASSUME NEW b \in Seq(Units), NEW p \in 0 .. Len(b), NEW from \in Int,
         p <= from, NEW r, ScanOK(r, b, p, from)
  PROVE  r.pos \in p .. Len(b) /\ r.val \in Seq(Units)
<1>1. r.pos \in p .. Len(b)
  BY BoundsFacts DEF ScanOK
<1>2. QED
  BY <1>1, SubSeqType DEF ScanOK

\* The scan that uncons_while runs, for either kind of input.
WhileScan(b, p, P) ==
  IF Kind = "str" THEN StrUnconsWhile(b, p, p, P) ELSE SliceUnconsWhile(b, p, 0, P)

LEMMA WhileScanOK ==
  ASSUME NEW b \in Seq(Units), WellFormed(b), NEW p \in Bounds(b), NEW P
  PROVE  ScanOK(WhileScan(b, p, P), b, p, p)
<1>1. p \in 0 .. Len(b)
  BY BoundsFacts
<1>2. CASE Kind = "str"
  <2>1. ScanOK(StrUnconsWhile(b, p, p, P), b, p, p)
    BY <1>1, StrUnconsWhileOK
  <2>2. QED
    BY <1>2, <2>1 DEF WhileScan
<1>3. CASE Kind # "str"
  <2>1. Kind = "slice"
    BY <1>3, KindAssumption
  <2>2. ScanOK(SliceUnconsWhile(b, p, 0, P), b, p, p + 0)
    BY <1>1, <2>1, SliceUnconsWhileOK
  <2>3. QED
    BY <1>1, <1>3, <2>2 DEF WhileScan
<1>4. QED
  BY <1>2, <1>3

LEMMA UnconsWhileOK ==
  ASSUME NEW b \in Seq(Units), WellFormed(b), NEW p \in Bounds(b),
         NEW P, NEW pt \in BOOLEAN
  PROVE  StepOK(UnconsWhile(b, p, P, pt), b, p)
<1> DEFINE r == WhileScan(b, p, P)
<1>1. p \in 0 .. Len(b)
  BY BoundsFacts
<1>2. ScanOK(r, b, p, p)
  BY WhileScanOK
<1>3. r.ok /\ r.pos \in Bounds(b) /\ r.pos \in p .. Len(b) /\ r.val \in Seq(Units)
  BY <1>1, <1>2, ScanValue DEF ScanOK
<1> HIDE DEF r
<1>4. UnconsWhile(b, p, P, pt) =
        IF pt /\ AtEof(b, r.pos)
        THEN [pos |-> r.pos, res |-> Err("ConsumedErr", "Eoi", r.pos)]
        ELSE [pos |-> r.pos,
              res |-> Ok(IF Len(r.val) = 0 THEN "EmptyOk" ELSE "ConsumedOk", r.val)]
  BY <1>3 DEF UnconsWhile, WhileScan, r
<1>5. Err("ConsumedErr", "Eoi", r.pos) \in Results
  BY <1>1, <1>3 DEF Err, Results, ErrTags, Errors
<1>6. Ok(IF Len(r.val) = 0 THEN "EmptyOk" ELSE "ConsumedOk", r.val) \in Results
  BY <1>3 DEF Ok, Results, OkTags
<1>7. CASE pt /\ AtEof(b, r.pos)
  BY <1>3, <1>4, <1>5, <1>7 DEF StepOK
<1>8. CASE ~(pt /\ AtEof(b, r.pos))
  BY <1>3, <1>4, <1>6, <1>8 DEF StepOK
<1>9. QED
  BY <1>7, <1>8

\* The inner uncons_while1 of either kind of input.
While1Scan(b, p, P) ==
  IF Kind = "str" THEN StrUnconsWhile1(b, p, P) ELSE SliceUnconsWhile1(b, p, P)

\* The inner uncons_while1 never reports a consumed error, and a success
\* moves the cursor forward to a boundary.
While1OK(r, b, p) ==
  /\ r.tag \in {"ConsumedOk", "EmptyErr"}
  /\ r.tag = "ConsumedOk" =>
        r.pos \in Bounds(b) /\ p <= r.pos /\ r.val \in Seq(Units)

LEMMA While1ScanOK ==
  ASSUME NEW b \in Seq(Units), WellFormed(b), NEW p \in Bounds(b), NEW P
  PROVE  While1OK(While1Scan(b, p, P), b, p)
<1>1. p \in 0 .. Len(b)
  BY BoundsFacts
<1>2. CASE Kind = "str"
  <2>1. CASE p = Len(b) \/ ItemAt(b, p) \notin P
    BY <1>2, <2>1 DEF While1Scan, StrUnconsWhile1, While1OK
  <2>2. CASE ~(p = Len(b) \/ ItemAt(b, p) \notin P)
    <3> DEFINE from == p + Width(ItemAt(b, p))
               r == StrUnconsWhile(b, p, from, P)
    <3>1. from \in Bounds(b) /\ p <= from
      <4>1. ItemAt(b, p) \in Syms /\ from \in Bounds(b)
        BY <2>2, ItemAtFacts
      <4>2. Width(ItemAt(b, p)) \in Nat
        BY <4>1, EncType
      <4>3. QED
        BY <1>1, <4>1, <4>2
    <3>2. ScanOK(r, b, p, from)
      BY <3>1, StrUnconsWhileOK
    <3>3. r.pos \in Bounds(b) /\ p <= r.pos /\ r.val \in Seq(Units)
      BY <1>1, <3>1, <3>2, BoundsFacts, ScanValue DEF ScanOK
    <3> HIDE DEF r
    <3>4. While1Scan(b, p, P) = [tag |-> "ConsumedOk", val |-> r.val, pos |-> r.pos]
      BY <1>2, <2>2 DEF While1Scan, StrUnconsWhile1, r
    <3>5. QED
      BY <3>3, <3>4 DEF While1OK
  <2>3. QED
    BY <2>1, <2>2
<1>3. CASE Kind # "str"
  <2>0. Kind = "slice"
    BY <1>3, KindAssumption
  <2>1. CASE p = Len(b) \/ b[p + 1] \notin P
    BY <1>3, <2>1 DEF While1Scan, SliceUnconsWhile1, While1OK
  <2>2. CASE ~(p = Len(b) \/ b[p + 1] \notin P)
    <3> DEFINE r == SliceUnconsWhile(b, p, 1, P)
    <3>1. ScanOK(r, b, p, p + 1)
      BY <1>1, <2>0, <2>2, SliceUnconsWhileOK
    <3>2. r.pos \in Bounds(b) /\ p <= r.pos /\ r.val \in Seq(Units)
      BY <1>1, <3>1, ScanValue DEF ScanOK
    <3> HIDE DEF r
    <3>3. While1Scan(b, p, P) = [tag |-> "ConsumedOk", val |-> r.val, pos |-> r.pos]
      BY <1>3, <2>2 DEF While1Scan, SliceUnconsWhile1, r
    <3>4. QED
      BY <3>2, <3>3 DEF While1OK
  <2>3. QED
    BY <2>1, <2>2
<1>4. QED
  BY <1>2, <1>3

LEMMA UnconsWhile1OK ==
  ASSUME NEW b \in Seq(Units), WellFormed(b), NEW p \in Bounds(b),
         NEW P, NEW pt \in BOOLEAN
  PROVE  StepOK(UnconsWhile1(b, p, P, pt), b, p)
<1> DEFINE r == While1Scan(b, p, P)
           q == IF r.tag = "ConsumedOk" THEN r.pos ELSE p
<1>1. p \in 0 .. Len(b)
  BY BoundsFacts
<1>2. While1OK(r, b, p)
  BY While1ScanOK
<1>3. q \in Bounds(b) /\ p <= q /\ q \in Nat
  BY <1>1, <1>2, BoundsFacts DEF While1OK
<1> HIDE DEF r, q
<1>4. UnconsWhile1(b, p, P, pt) =
        IF pt /\ AtEof(b, q) THEN [pos |-> q, res |-> Err("ConsumedErr", "Eoi", q)]
        ELSE CASE r.tag = "ConsumedOk" -> [pos |-> q, res |-> Ok("ConsumedOk", r.val)]
               [] r.tag = "EmptyErr"   -> [pos |-> q, res |-> Err("EmptyErr", "Unexpected", q)]
               [] r.tag = "ConsumedErr" -> [pos |-> q, res |-> WrapStreamError(q, r.err, pt)]
  BY DEF UnconsWhile1, While1Scan, r, q
<1>5. CASE pt /\ AtEof(b, q)
  BY <1>3, <1>4, <1>5 DEF StepOK, Err, Results, ErrTags, Errors
<1>6. CASE ~(pt /\ AtEof(b, q)) /\ r.tag = "ConsumedOk"
  BY <1>2, <1>3, <1>4, <1>6 DEF StepOK, While1OK, Ok, Results, OkTags
<1>7. CASE ~(pt /\ AtEof(b, q)) /\ r.tag = "EmptyErr"
  BY <1>3, <1>4, <1>7 DEF StepOK, Err, Results, ErrTags, Errors
<1>8. QED
  BY <1>2, <1>5, <1>6, <1>7 DEF While1OK

\* Every call of a primitive moves the cursor forward to an item boundary
\* and delivers a well-typed outcome.
LEMMA ExecOK ==
  ASSUME NEW b \in Seq(Units), WellFormed(b), NEW p \in Bounds(b),
         NEW pt \in BOOLEAN, NEW o \in Ops, o.name \notin {"checkpoint", "reset"}
  PROVE  StepOK(Exec(o, b, p, pt), b, p)
<1>1. CASE o.name = "uncons"
  BY <1>1, UnconsOK DEF Exec
<1>2. CASE o.name = "range"
  <2>1. o.size \in Nat
    BY <1>2, ArgsAssumption DEF Ops
  <2>2. QED
    BY <1>2, <2>1, UnconsRangeOK DEF Exec
<1>3. CASE o.name = "while"
  BY <1>3, UnconsWhileOK DEF Exec
<1>4. CASE o.name = "while1"
  BY <1>4, UnconsWhile1OK DEF Exec
<1>5. QED
  BY <1>1, <1>2, <1>3, <1>4 DEF Ops

(***************************************************************************)
(* The inductive invariant IInv.  TypeOK alone is not inductive: uncons    *)
(* decodes a whole item only at an item boundary of a well-formed buffer,  *)
(* so the boundaries and the validity of the buffer are carried along.     *)
(***************************************************************************)
LEMMA InitIInv == Init => IInv
<1> SUFFICES ASSUME Init PROVE IInv
  OBVIOUS
<1>1. full \in Seq(Units) /\ Len(full) \in Bounds(full)
  BY InputsAssumption, BoundsFacts DEF Init
<1>2. PICK n \in Bounds(full) : buf = SubSeq(full, 1, n)
  <2>1. CASE partial
    BY <2>1 DEF Init, BoundaryPrefixes
  <2>2. CASE ~partial
    <3>1. buf = full
      BY <2>2 DEF Init
    <3>2. QED
      BY <1>1, <3>1, SubSeqFull
  <2>3. QED
    BY <2>1, <2>2
<1>3. 0 \in Bounds(buf) /\ WellFormed(buf)
  BY <1>2, InputsAssumption DEF Init
<1>4. buf \in Seq(Units)
  BY <1>1, <1>2, BoundsFacts, SubSeqType
<1>5. NoResult \in Results /\ [name |-> "checkpoint"] \in Ops
  BY DEF Results, Ops
<1>6. QED
  BY <1>3, <1>4, <1>5, BoundsFacts DEF Init, IInv, TypeOK

\* A call of a primitive preserves IInv.
LEMMA CallIInv ==
  ASSUME IInv, NEW o \in Ops, o.name \notin {"checkpoint", "reset"}, Call(o)
  PROVE  IInv'
<1> DEFINE r == Exec(o, buf, pos, partial)
<1>1. StepOK(r, buf, pos)
  BY ExecOK DEF IInv, TypeOK
<1>2. r.pos \in 0 .. Len(buf) /\ pos <= r.pos
  BY <1>1, BoundsFacts DEF StepOK, IInv, TypeOK
<1> HIDE DEF r
<1>3. pos' = r.pos /\ res' = r.res /\ op' = o
      /\ UNCHANGED <<full, buf, partial, ckpt>>
  BY DEF Call, r
<1>4. taken' \in Nat
  <2>1. taken' = taken + (IF o.name # "uncons" THEN r.pos - pos
                          ELSE IF r.pos > pos THEN 1 ELSE 0)
    BY DEF Call, r
  <2>2. QED
    BY <1>2, <2>1 DEF IInv, TypeOK
<1>5. QED
  BY <1>1, <1>2, <1>3, <1>4 DEF IInv, TypeOK, StepOK

THEOREM IInvInductive == IInv /\ [Next]_vars => IInv'
<1> SUFFICES ASSUME IInv, [Next]_vars PROVE IInv'
  OBVIOUS
<1>1. CASE UnconsStep
  <2>1. [name |-> "uncons"] \in Ops
    BY DEF Ops
  <2>2. QED
    BY <1>1, <2>1, CallIInv DEF UnconsStep
<1>2. CASE UnconsRangeStep
  <2>1. PICK n \in Sizes : Call([name |-> "range", size |-> n])
    BY <1>2 DEF UnconsRangeStep
  <2>2. [name |-> "range", size |-> n] \in Ops
    BY DEF Ops
  <2>3. QED
    BY <2>1, <2>2, CallIInv
<1>3. CASE UnconsWhileStep
  <2>1. PICK P \in Preds : Call([name |-> "while", pred |-> P])
    BY <1>3 DEF UnconsWhileStep
  <2>2. [name |-> "while", pred |-> P] \in Ops
    BY DEF Ops
  <2>3. QED
    BY <2>1, <2>2, CallIInv
<1>4. CASE UnconsWhile1Step
  <2>1. PICK P \in Preds : Call([name |-> "while1", pred |-> P])
    BY <1>4 DEF UnconsWhile1Step
  <2>2. [name |-> "while1", pred |-> P] \in Ops
    BY DEF Ops
  <2>3. QED
    BY <2>1, <2>2, CallIInv
<1>5. CASE CheckpointStep
  <2>1. NoResult \in Results /\ [name |-> "checkpoint"] \in Ops
    BY DEF Results, Ops
  <2>2. QED
    BY <1>5, <2>1 DEF CheckpointStep, IInv, TypeOK
<1>6. CASE ResetStep
  <2>1. NoResult \in Results /\ [name |-> "reset"] \in Ops
    BY DEF Results, Ops
  <2>2. QED
    BY <1>6, <2>1 DEF ResetStep, IInv, TypeOK
<1>7. CASE UNCHANGED vars
  BY <1>7 DEF vars, IInv, TypeOK
<1>8. QED
  BY <1>1, <1>2, <1>3, <1>4, <1>5, <1>6, <1>7 DEF Next

(***************************************************************************)
(* Every variable keeps its type (TypeOK) in every behaviour of the        *)
(* cursor, for every input and every sequence of calls a parser makes.     *)
(***************************************************************************)
THEOREM TypeCorrect == Spec => []TypeOK
<1>1. IInv => TypeOK
  BY DEF IInv
<1>2. QED
  BY <1>1, InitIInv, IInvInductive, PTL DEF Spec

(***************************************************************************)
(* The cursor and the checkpoint of a &str stay on char boundaries         *)
(* (CursorOnCharBoundary): uncons_range's is_char_boundary check and the   *)
(* scans' last_char_size arithmetic never split a multi-byte char.         *)
(***************************************************************************)
THEOREM BoundarySafety == Spec => []CursorOnCharBoundary
<1>1. IInv => CursorOnCharBoundary
  BY DEF IInv, CursorOnCharBoundary
<1>2. QED
  BY <1>1, InitIInv, IInvInductive, PTL DEF Spec
=============================================================================
