------------------------- MODULE PartialStreamProofs -------------------------
(***************************************************************************)
(* The end-of-input correction of PartialStream, for every value of the    *)
(* constants: whatever a partial cursor reports other than end of input is *)
(* what the same call reports once the whole input has arrived.  A partial *)
(* buffer is a prefix of the input cut at an item boundary; the proofs     *)
(* show that every primitive that does not run into the end of the prefix  *)
(* decides on the same items, and so returns the same outcome.             *)
(***************************************************************************)
EXTENDS CursorContractProofs

(***************************************************************************)
(* A prefix b of f cut at a boundary n of f: its units are those of f, its *)
(* boundaries are those of f up to n, and an item at a boundary before n   *)
(* is the item of f there (the encodings are prefix free).                 *)
(***************************************************************************)
LEMMA PrefixBounds ==
  ASSUME NEW f \in Seq(Units), NEW n \in Bounds(f), NEW b, b = SubSeq(f, 1, n)
  PROVE  /\ b \in Seq(Units) /\ Len(b) = n /\ n \in 0 .. Len(f)
         /\ \A i \in 1 .. n : b[i] = f[i]
         /\ Bounds(b) \subseteq 0 .. n
         /\ \A j \in Bounds(b) : j \in Bounds(f)
         /\ \A j \in Bounds(f) : j <= n => j \in Bounds(b)
<1>1. n \in 0 .. Len(f)
  BY BoundsFacts
<1>2. b \in Seq(Units) /\ Len(b) = n /\ \A i \in 1 .. n : b[i] = f[i]
  <2>1. /\ SubSeq(f, 1, n) \in Seq(Units) /\ Len(SubSeq(f, 1, n)) = n - 1 + 1
        /\ \A i \in 1 .. n - 1 + 1 : SubSeq(f, 1, n)[i] = f[1 + i - 1]
    BY <1>1, SubSeqType
  <2>2. QED
    BY <1>1, <2>1
<1>3. SubSeq(f, 0 + 1, n) = b
  <2>1. 0 + 1 = 1
    OBVIOUS
  <2>2. QED
    BY <2>1, Zenon
<1>4. ASSUME NEW j \in Bounds(b) PROVE j \in Bounds(f)
  <2>1. j \in 0 .. n
    BY <1>2, BoundsFacts
  <2>2. CASE j = n
    BY <2>2
  <2>3. CASE j < n
    <3>1. j \in Bounds(SubSeq(f, 0 + 1, n)) /\ j < n - 0
      BY <1>3, <2>1, <2>3
    <3>2. 0 \in 0 .. Len(f) /\ n \in 0 .. Len(f)
      BY <1>1
    <3>3. 0 + j \in Bounds(f)
      BY <3>1, <3>2, BoundOfRange, Zenon
    <3>4. QED
      BY <2>1, <3>3
  <2>4. QED
    BY <1>1, <2>1, <2>2, <2>3
<1>5. ASSUME NEW j \in Bounds(f), j <= n PROVE j \in Bounds(b)
  <2>1. j \in 0 .. Len(f)
    BY BoundsFacts
  <2>2. CASE j = n
    BY <1>2, <2>2, BoundsFacts
  <2>3. CASE j < n /\ Kind = "slice"
    BY <1>2, <2>1, <2>3 DEF Bounds, IsCharBoundary
  <2>4. CASE j < n /\ Kind = "str"
    <3>1. IsLead(f[j + 1])
      BY <2>1, <2>4 DEF Bounds, IsCharBoundary
    <3>2. b[j + 1] = f[j + 1]
      BY <1>2, <2>1, <2>4
    <3>3. QED
      BY <1>2, <2>1, <2>4, <3>1, <3>2 DEF Bounds, IsCharBoundary
  <2>5. j = n \/ j < n
    BY <1>1, <1>5, <2>1
  <2>6. QED
    BY <2>2, <2>3, <2>4, <2>5, KindAssumption, Zenon
<1>6. Bounds(b) \subseteq 0 .. n
  BY <1>2 DEF Bounds
<1>7. QED
  BY <1>1, <1>2, <1>4, <1>5, <1>6

LEMMA PrefixItemAt ==
  ASSUME NEW f \in Seq(Units), WellFormed(f), NEW n \in Bounds(f), NEW b,
         b = SubSeq(f, 1, n), NEW j \in Bounds(b), j < n
  PROVE  ItemAt(b, j) = ItemAt(f, j)
<1>1. j \in Bounds(f) /\ j \in 0 .. Len(f) /\ n \in 0 .. Len(f)
  BY PrefixBounds, BoundsFacts
<1>2. ItemAt(SubSeq(f, 0 + 1, n), j - 0) = ItemAt(f, j)
  BY <1>1, ItemAtOfRange
<1>3. 0 + 1 = 1 /\ j - 0 = j
  BY <1>1
<1>4. QED
  BY <1>2, <1>3, Zenon

\* The units p + 1 .. k of a prefix are those of the input.
LEMMA PrefixRange ==
  ASSUME NEW f \in Seq(Units), NEW n \in 0 .. Len(f), NEW p \in 0 .. n,
         NEW k \in p .. n
  PROVE  SubSeq(SubSeq(f, 1, n), p + 1, k) = SubSeq(f, p + 1, k)
<1>1. SubSeq(SubSeq(f, 0 + 1, n), p + 1, k) = SubSeq(f, 0 + p + 1, 0 + k)
  BY RangeOfRange
<1>2. 0 + 1 = 1 /\ 0 + p + 1 = p + 1 /\ 0 + k = k
  OBVIOUS
<1>3. QED
  BY <1>1, <1>2, Zenon

(***************************************************************************)
(* The point where a take-while scan stops is unique: the first boundary   *)
(* from p on that is the end or an item failing the predicate.             *)
(***************************************************************************)
LEMMA RunMaxUnique ==
  ASSUME NEW b \in Seq(Units), NEW p \in Nat, NEW P,
         NEW q1 \in Bounds(b), NEW q2 \in Bounds(b), p <= q1, p <= q2,
         RunMax(b, p, q1, P), RunMax(b, p, q2, P)
  PROVE  q1 = q2
<1>1. q1 \in 0 .. Len(b) /\ q2 \in 0 .. Len(b)
  BY BoundsFacts
<1>2. ASSUME NEW x \in Bounds(b), NEW y \in Bounds(b), p <= x, x < y,
             RunMax(b, p, x, P), RunMax(b, p, y, P)
      PROVE  FALSE
  <2>1. x # Len(b)
    BY <1>2, BoundsFacts
  <2>2. ItemAt(b, x) \notin P
    BY <1>2, <2>1 DEF RunMax
  <2>3. ItemAt(b, x) \in P
    BY <1>2 DEF RunMax
  <2>4. QED
    BY <2>2, <2>3
<1>3. QED
  BY <1>1, <1>2

\* A scan that stops before the end of the prefix stops at the same place
\* of the whole input.
LEMMA PrefixRunMax ==
  ASSUME NEW f \in Seq(Units), WellFormed(f), NEW n \in Bounds(f), NEW b,
         b = SubSeq(f, 1, n), NEW p \in Bounds(b), NEW k \in Bounds(b),
         p <= k, k < n, NEW P, RunMax(b, p, k, P)
  PROVE  RunMax(f, p, k, P)
<1>1. /\ Len(b) = n /\ \A j \in Bounds(f) : j <= n => j \in Bounds(b)
      /\ Bounds(b) \subseteq 0 .. n /\ n \in 0 .. Len(f)
  BY PrefixBounds
<1>2. ASSUME NEW j \in Bounds(f), p <= j, j < k PROVE ItemAt(f, j) \in P
  <2>0. j \in 0 .. Len(f) /\ k \in 0 .. n /\ j < n
    BY <1>1, <1>2, BoundsFacts
  <2>1. j \in Bounds(b)
    BY <1>1, <2>0
  <2>2. ItemAt(b, j) \in P
    BY <1>2, <2>1 DEF RunMax
  <2>3. ItemAt(b, j) = ItemAt(f, j)
    BY <2>0, <2>1, PrefixItemAt, Zenon
  <2>4. QED
    BY <2>2, <2>3
<1>3. ItemAt(f, k) \notin P
  <2>0. k # Len(b)
    BY <1>1
  <2>1. ItemAt(b, k) \notin P
    BY <2>0, Zenon DEF RunMax
  <2>2. QED
    BY <2>1, PrefixItemAt, Zenon
<1>4. QED
  BY <1>2, <1>3 DEF RunMax
(***************************************************************************)
(* uncons_range in closed form.  is_char_boundary on the rest of a &str at *)
(* size is the end p + size being a boundary of the buffer, so the call    *)
(* succeeds when p + size is a boundary, fails with a boundary error when  *)
(* it falls inside a char, and with end of input past the end.             *)
(***************************************************************************)
LEMMA RestBoundary ==
  ASSUME NEW b \in Seq(Units), NEW p \in 0 .. Len(b), NEW size \in 0 .. Len(b) - p
  PROVE  IsCharBoundary(SubSeq(b, p + 1, Len(b)), size) <=> p + size \in Bounds(b)
<1> DEFINE s == SubSeq(b, p + 1, Len(b))
<1>1. Len(s) = Len(b) - p /\ \A i \in 1 .. Len(b) - p : s[i] = b[p + i]
  BY RestFacts
<1>2. CASE Kind = "slice"
  BY <1>1, <1>2 DEF IsCharBoundary, Bounds
<1>3. CASE Kind # "slice" /\ size = Len(s)
  BY <1>1, <1>3 DEF IsCharBoundary, Bounds
<1>4. CASE Kind # "slice" /\ size < Len(s)
  <2>1. s[size + 1] = b[p + size + 1]
    BY <1>1, <1>4
  <2>2. IsCharBoundary(s, size) <=> IsLead(s[size + 1])
    BY <1>1, <1>4 DEF IsCharBoundary
  <2>3. p + size \in Bounds(b) <=> IsLead(b[p + size + 1])
    BY <1>1, <1>4 DEF IsCharBoundary, Bounds
  <2>4. QED
    BY <2>1, <2>2, <2>3
<1>5. QED
  BY <1>1, <1>2, <1>3, <1>4

\* The outcome of uncons_range(size) at p, read off the end p + size.
RangeOutcome(b, p, size, pt) ==
  IF p + size \in Bounds(b)
  THEN [pos |-> p + size,
        res |-> Ok(IF size = 0 THEN "EmptyOk" ELSE "ConsumedOk", SubSeq(b, p + 1, p + size))]
  ELSE IF p + size <= Len(b)
       THEN [pos |-> p, res |-> WrapStreamError(p, "CharacterBoundary", pt)]
       ELSE [pos |-> p, res |-> WrapStreamError(p, "Eoi", pt)]

LEMMA RangeNormal ==
  ASSUME NEW b \in Seq(Units), NEW p \in Bounds(b), NEW size \in Nat, NEW pt
  PROVE  UnconsRange(b, p, size, pt) = RangeOutcome(b, p, size, pt)
<1>1. p \in 0 .. Len(b)
  BY BoundsFacts
<1> DEFINE s == SubSeq(b, p + 1, Len(b))
           r == IF Kind = "str" THEN StrUnconsRange(b, p, size)
                ELSE SliceUnconsRange(b, p, size)
<1>2. Len(s) = Len(b) - p
  BY <1>1, RestFacts
<1>3. CASE p + size \in Bounds(b)
  <2>1. size \in 0 .. Len(b) - p /\ IsCharBoundary(s, size)
    BY <1>1, <1>3, RestBoundary, BoundsFacts
  <2>0. size <= Len(s)
    BY <1>1, <1>2, <2>1
  <2>2. r = RawOk(SubSeq(b, p + 1, p + size), p + size)
    <3>1. CASE Kind = "str"
      <4>1. SubSeq(s, 0 + 1, size) = SubSeq(b, p + 0 + 1, p + size)
        BY <1>1, <2>1, RangeOfRange
      <4>2. 0 + 1 = 1 /\ p + 0 + 1 = p + 1
        BY <1>1
      <4>3. SubSeq(s, 1, size) = SubSeq(b, p + 1, p + size)
        BY <4>1, <4>2, Zenon
      <4>4. QED
        BY <2>0, <2>1, <3>1, <4>3 DEF StrUnconsRange
    <3>2. CASE Kind # "str"
      BY <2>1, <3>2 DEF SliceUnconsRange
    <3>3. QED
      BY <3>1, <3>2
  <2>3. QED
    BY <1>3, <2>2, UnconsRangeOnOk DEF RangeOutcome
<1>4. CASE p + size \notin Bounds(b) /\ p + size <= Len(b)
  <2>1. size \in 0 .. Len(b) - p /\ ~IsCharBoundary(s, size)
    BY <1>1, <1>4, RestBoundary
  <2>2. Kind = "str"
    BY <1>1, <1>4, KindAssumption DEF Bounds, IsCharBoundary
  <2>0. size <= Len(s)
    BY <1>1, <1>2, <2>1
  <2>3. r = RawErr("CharacterBoundary")
    BY <2>0, <2>1, <2>2 DEF StrUnconsRange
  <2>4. QED
    BY <1>4, <2>3, UnconsRangeOnErr DEF RangeOutcome
<1>5. CASE ~(p + size <= Len(b))
  <2>1. p + size \notin Bounds(b)
    BY <1>5, BoundsFacts
  <2>2. r = RawErr("Eoi")
    BY <1>1, <1>2, <1>5 DEF StrUnconsRange, SliceUnconsRange
  <2>3. QED
    BY <1>5, <2>1, <2>2, UnconsRangeOnErr DEF RangeOutcome
<1>6. QED
  BY <1>3, <1>4, <1>5

(***************************************************************************)
(* The primitives on a prefix.  Each lemma assumes what PartialResultsAgree *)
(* assumes of the outcome on the prefix b (a success, or an error other    *)
(* than end of input) and shows the call on the whole input f returns the  *)
(* same outcome.                                                           *)
(***************************************************************************)
\* Not at the end of the prefix, uncons decodes the same item.
LEMMA PrefixUncons ==
  ASSUME NEW f \in Seq(Units), WellFormed(f), NEW n \in Bounds(f), NEW b,
         b = SubSeq(f, 1, n), NEW p \in Bounds(b),
         Uncons(b, p, TRUE).res.tag \in OkTags \/ Uncons(b, p, TRUE).res.err # "Eoi"
  PROVE  Uncons(f, p, TRUE) = Uncons(b, p, TRUE)
<1>1. Len(b) = n /\ n \in 0 .. Len(f) /\ Bounds(b) \subseteq 0 .. n
  BY PrefixBounds
<1>2. p < n
  <2> SUFFICES ASSUME ~(p < n) PROVE FALSE
    OBVIOUS
  <2>1. Uncons(b, p, TRUE) = [pos |-> p, res |-> WrapStreamError(p, "Eoi", TRUE)]
    BY <1>1 DEF Uncons
  <2>2. LET e == [pos |-> p, res |-> WrapStreamError(p, "Eoi", TRUE)]
        IN  e.res.tag \notin OkTags /\ e.res.err = "Eoi"
    BY DEF WrapStreamError, Err, OkTags
  <2>3. QED
    BY <2>1, <2>2, Zenon
<1>3. ItemAt(b, p) = ItemAt(f, p)
  BY <1>2, PrefixItemAt
<1>4. QED
  BY <1>1, <1>2, <1>3 DEF Uncons

\* uncons_range decides on the end p + size, which is a boundary of the
\* prefix exactly when it is one of the input.
LEMMA PrefixUnconsRange ==
  ASSUME NEW f \in Seq(Units), NEW n \in Bounds(f), NEW b,
         b = SubSeq(f, 1, n), NEW p \in Bounds(b), NEW size \in Nat,
         UnconsRange(b, p, size, TRUE).res.tag \in OkTags
           \/ UnconsRange(b, p, size, TRUE).res.err # "Eoi"
  PROVE  UnconsRange(f, p, size, TRUE) = UnconsRange(b, p, size, TRUE)
<1>1. /\ b \in Seq(Units) /\ Len(b) = n /\ n \in 0 .. Len(f) /\ Bounds(b) \subseteq 0 .. n
      /\ \A j \in Bounds(b) : j \in Bounds(f)
      /\ \A j \in Bounds(f) : j <= n => j \in Bounds(b)
  BY PrefixBounds
<1>2. p \in Bounds(f) /\ p \in 0 .. n
  BY <1>1
<1>3. UnconsRange(b, p, size, TRUE) = RangeOutcome(b, p, size, TRUE)
      /\ UnconsRange(f, p, size, TRUE) = RangeOutcome(f, p, size, TRUE)
  BY <1>1, <1>2, RangeNormal
<1>4. p + size <= n
  <2> SUFFICES ASSUME ~(p + size <= n) PROVE FALSE
    OBVIOUS
  <2>1. p + size \notin Bounds(b) /\ ~(p + size <= Len(b))
    BY <1>1, <1>2
  <2>2. UnconsRange(b, p, size, TRUE) = [pos |-> p, res |-> WrapStreamError(p, "Eoi", TRUE)]
    BY <1>3, <2>1 DEF RangeOutcome
  <2>3. LET e == [pos |-> p, res |-> WrapStreamError(p, "Eoi", TRUE)]
        IN  e.res.tag \notin OkTags /\ e.res.err = "Eoi"
    BY DEF WrapStreamError, Err, OkTags
  <2>4. QED
    BY <2>2, <2>3, Zenon
<1>5. CASE p + size \in Bounds(b)
  <2>1. p + size \in Bounds(f)
    BY <1>1, <1>5
  <2>2. SubSeq(b, p + 1, p + size) = SubSeq(f, p + 1, p + size)
    BY <1>1, <1>2, <1>4, PrefixRange
  <2>3. QED
    BY <1>3, <1>5, <2>1, <2>2 DEF RangeOutcome
<1>6. CASE p + size \notin Bounds(b)
  <2>1. p + size \notin Bounds(f) /\ p + size <= Len(f) /\ p + size <= Len(b)
    BY <1>1, <1>2, <1>4, <1>6
  <2>2. QED
    BY <1>3, <1>6, <2>1 DEF RangeOutcome
<1>7. QED
  BY <1>5, <1>6
\* uncons_while on a prefix, when it stops before the end of the prefix,
\* stops at the same item of the input and returns the same run.
LEMMA PrefixWhile ==
  ASSUME NEW f \in Seq(Units), WellFormed(f), NEW n \in Bounds(f), NEW b,
         b = SubSeq(f, 1, n), WellFormed(b), NEW p \in Bounds(b), NEW P,
         UnconsWhile(b, p, P, TRUE).res.tag \in OkTags
           \/ UnconsWhile(b, p, P, TRUE).res.err # "Eoi"
  PROVE  UnconsWhile(f, p, P, TRUE) = UnconsWhile(b, p, P, TRUE)
<1>1. /\ b \in Seq(Units) /\ Len(b) = n /\ n \in 0 .. Len(f) /\ Bounds(b) \subseteq 0 .. n
      /\ \A j \in Bounds(b) : j \in Bounds(f)
  BY PrefixBounds
<1>2. p \in Bounds(f) /\ p \in 0 .. n
  BY <1>1
<1> DEFINE rb == WhileScan(b, p, P)
           rf == WhileScan(f, p, P)
<1>3. /\ rb.ok /\ rb.pos \in Bounds(b) /\ p <= rb.pos /\ rb.val = SubSeq(b, p + 1, rb.pos)
      /\ RunMax(b, p, rb.pos, P)
  BY <1>1, WhileScanOK, WhileScanMax DEF ScanOK
<1>4. /\ rf.ok /\ rf.pos \in Bounds(f) /\ p <= rf.pos /\ rf.val = SubSeq(f, p + 1, rf.pos)
      /\ RunMax(f, p, rf.pos, P)
  BY <1>2, WhileScanOK, WhileScanMax DEF ScanOK
<1> HIDE DEF rb, rf
<1>5. UnconsWhile(b, p, P, TRUE) =
        IF AtEof(b, rb.pos)
        THEN [pos |-> rb.pos, res |-> Err("ConsumedErr", "Eoi", rb.pos)]
        ELSE [pos |-> rb.pos,
              res |-> Ok(IF Len(rb.val) = 0 THEN "EmptyOk" ELSE "ConsumedOk", rb.val)]
  BY <1>3 DEF UnconsWhile, WhileScan, rb
<1>6. UnconsWhile(f, p, P, TRUE) =
        IF AtEof(f, rf.pos)
        THEN [pos |-> rf.pos, res |-> Err("ConsumedErr", "Eoi", rf.pos)]
        ELSE [pos |-> rf.pos,
              res |-> Ok(IF Len(rf.val) = 0 THEN "EmptyOk" ELSE "ConsumedOk", rf.val)]
  BY <1>4 DEF UnconsWhile, WhileScan, rf
<1>7. rb.pos < n
  <2> SUFFICES ASSUME ~(rb.pos < n) PROVE FALSE
    OBVIOUS
  <2>1. AtEof(b, rb.pos)
    BY <1>1, <1>3 DEF AtEof
  <2>2. UnconsWhile(b, p, P, TRUE) = [pos |-> rb.pos, res |-> Err("ConsumedErr", "Eoi", rb.pos)]
    BY <1>5, <2>1
  <2>3. LET e == [pos |-> rb.pos, res |-> Err("ConsumedErr", "Eoi", rb.pos)]
        IN  e.res.tag \notin OkTags /\ e.res.err = "Eoi"
    BY DEF Err, OkTags
  <2>4. QED
    BY <2>2, <2>3, Zenon
<1>8. rf.pos = rb.pos
  <2>1. RunMax(f, p, rb.pos, P) /\ rb.pos \in Bounds(f)
    BY <1>1, <1>3, <1>7, PrefixRunMax
  <2>2. p \in Nat /\ p <= rb.pos
    BY <1>2, <1>3
  <2>3. QED
    BY <1>4, <2>1, <2>2, RunMaxUnique, Zenon
<1>9. rf.val = rb.val
  BY <1>1, <1>2, <1>3, <1>4, <1>7, <1>8, PrefixRange
<1>10. ~AtEof(b, rb.pos) /\ ~AtEof(f, rf.pos)
  BY <1>1, <1>7, <1>8 DEF AtEof
<1>11. QED
  BY <1>5, <1>6, <1>8, <1>9, <1>10

\* The inner uncons_while1 takes at least one item exactly when there is
\* an item at p that satisfies the predicate.
LEMMA While1Tag ==
  ASSUME NEW b \in Seq(Units), NEW p \in Bounds(b), NEW P
  PROVE  While1Scan(b, p, P).tag = "ConsumedOk" <=> p < Len(b) /\ ItemAt(b, p) \in P
<1>1. p \in 0 .. Len(b)
  BY BoundsFacts
<1>2. CASE Kind = "str"
  BY <1>1, <1>2 DEF While1Scan, StrUnconsWhile1
<1>3. CASE Kind # "str"
  <2>1. Kind = "slice"
    BY <1>3, KindAssumption
  <2>2. p < Len(b) => ItemAt(b, p) = b[p + 1]
    BY <1>1, <2>1, SliceItemAt
  <2>3. QED
    BY <1>1, <1>3, <2>2 DEF While1Scan, SliceUnconsWhile1
<1>4. QED
  BY <1>2, <1>3
\* uncons_while1 on a prefix, when it does not run into the end of the
\* prefix, fails on the same first item or takes the same run.
LEMMA PrefixWhile1 ==
  ASSUME NEW f \in Seq(Units), WellFormed(f), NEW n \in Bounds(f), NEW b,
         b = SubSeq(f, 1, n), WellFormed(b), NEW p \in Bounds(b), NEW P,
         UnconsWhile1(b, p, P, TRUE).res.tag \in OkTags
           \/ UnconsWhile1(b, p, P, TRUE).res.err # "Eoi"
  PROVE  UnconsWhile1(f, p, P, TRUE) = UnconsWhile1(b, p, P, TRUE)
<1>1. /\ b \in Seq(Units) /\ Len(b) = n /\ n \in 0 .. Len(f) /\ Bounds(b) \subseteq 0 .. n
      /\ \A j \in Bounds(b) : j \in Bounds(f)
  BY PrefixBounds
<1>2. p \in Bounds(f) /\ p \in 0 .. n /\ p \in Nat
  BY <1>1
<1> DEFINE rb == While1Scan(b, p, P)
           rf == While1Scan(f, p, P)
           qb == IF rb.tag = "ConsumedOk" THEN rb.pos ELSE p
           qf == IF rf.tag = "ConsumedOk" THEN rf.pos ELSE p
<1>3. While1OK(rb, b, p) /\ While1OK(rf, f, p)
  BY <1>1, <1>2, While1ScanOK
<1>4. rb.tag = "ConsumedOk" =>
        /\ rb.pos \in Bounds(b) /\ p <= rb.pos /\ rb.val = SubSeq(b, p + 1, rb.pos)
        /\ RunMax(b, p, rb.pos, P)
  BY <1>1, While1ScanMax
<1>5. rf.tag = "ConsumedOk" =>
        /\ rf.pos \in Bounds(f) /\ p <= rf.pos /\ rf.val = SubSeq(f, p + 1, rf.pos)
        /\ RunMax(f, p, rf.pos, P)
  BY <1>2, While1ScanMax
<1>6. /\ rb.tag = "ConsumedOk" <=> p < n /\ ItemAt(b, p) \in P
      /\ rf.tag = "ConsumedOk" <=> p < Len(f) /\ ItemAt(f, p) \in P
  BY <1>1, <1>2, While1Tag
<1> HIDE DEF rb, rf, qb, qf
<1>7. UnconsWhile1(b, p, P, TRUE) =
        IF AtEof(b, qb) THEN [pos |-> qb, res |-> Err("ConsumedErr", "Eoi", qb)]
        ELSE CASE rb.tag = "ConsumedOk" -> [pos |-> qb, res |-> Ok("ConsumedOk", rb.val)]
               [] rb.tag = "EmptyErr"   -> [pos |-> qb, res |-> Err("EmptyErr", "Unexpected", qb)]
               [] rb.tag = "ConsumedErr" -> [pos |-> qb, res |-> WrapStreamError(qb, rb.err, TRUE)]
  BY DEF UnconsWhile1, While1Scan, rb, qb
<1>8. UnconsWhile1(f, p, P, TRUE) =
        IF AtEof(f, qf) THEN [pos |-> qf, res |-> Err("ConsumedErr", "Eoi", qf)]
        ELSE CASE rf.tag = "ConsumedOk" -> [pos |-> qf, res |-> Ok("ConsumedOk", rf.val)]
               [] rf.tag = "EmptyErr"   -> [pos |-> qf, res |-> Err("EmptyErr", "Unexpected", qf)]
               [] rf.tag = "ConsumedErr" -> [pos |-> qf, res |-> WrapStreamError(qf, rf.err, TRUE)]
  BY DEF UnconsWhile1, While1Scan, rf, qf
<1>9. qb < n
  <2>1. qb \in 0 .. n
    BY <1>1, <1>2, <1>4 DEF qb
  <2> SUFFICES ASSUME ~(qb < n) PROVE FALSE
    OBVIOUS
  <2>2. AtEof(b, qb)
    BY <1>1, <2>1 DEF AtEof
  <2>3. UnconsWhile1(b, p, P, TRUE) = [pos |-> qb, res |-> Err("ConsumedErr", "Eoi", qb)]
    BY <1>7, <2>2
  <2>4. LET e == [pos |-> qb, res |-> Err("ConsumedErr", "Eoi", qb)]
        IN  e.res.tag \notin OkTags /\ e.res.err = "Eoi"
    BY DEF Err, OkTags
  <2>5. QED
    BY <2>3, <2>4, Zenon
<1>10. CASE rb.tag = "ConsumedOk"
  <2>1. p < n /\ ItemAt(b, p) \in P
    BY <1>6, <1>10
  <2>2. ItemAt(f, p) = ItemAt(b, p) /\ p < Len(f)
    <3>1. ItemAt(b, p) = ItemAt(f, p)
      BY <2>1, PrefixItemAt, Zenon
    <3>2. QED
      BY <1>1, <1>2, <2>1, <3>1
  <2>3. rf.tag = "ConsumedOk"
    BY <1>6, <2>1, <2>2
  <2>4. qb = rb.pos /\ qf = rf.pos
    BY <1>10, <2>3 DEF qb, qf
  <2>5. rb.pos < n /\ rb.pos \in Bounds(b) /\ p <= rb.pos /\ RunMax(b, p, rb.pos, P)
    BY <1>4, <1>9, <1>10, <2>4
  <2>6. RunMax(f, p, rb.pos, P) /\ rb.pos \in Bounds(f)
    BY <1>1, <2>5, PrefixRunMax
  <2>7. rf.pos \in Bounds(f) /\ p <= rf.pos /\ RunMax(f, p, rf.pos, P)
    BY <1>5, <2>3
  <2>8. rf.pos = rb.pos
    BY <1>2, <2>5, <2>6, <2>7, RunMaxUnique, Zenon
  <2>9. rf.val = rb.val
    <3>1. rb.pos \in p .. n
      BY <1>1, <1>2, <2>5
    <3>2. SubSeq(SubSeq(f, 1, n), p + 1, rb.pos) = SubSeq(f, p + 1, rb.pos)
      BY <1>1, <1>2, <3>1, PrefixRange
    <3>3. rb.val = SubSeq(b, p + 1, rb.pos) /\ rf.val = SubSeq(f, p + 1, rf.pos)
      BY <1>4, <1>5, <1>10, <2>3
    <3>4. QED
      BY <2>8, <3>2, <3>3, Zenon
  <2>10. ~AtEof(b, qb) /\ ~AtEof(f, qf)
    BY <1>1, <1>9, <2>4, <2>8 DEF AtEof
  <2>11. QED
    BY <1>7, <1>8, <1>10, <2>3, <2>4, <2>8, <2>9, <2>10
<1>11. CASE rb.tag = "EmptyErr"
  <2>1. qb = p
    BY <1>11 DEF qb
  <2>2. p < n /\ ItemAt(b, p) \notin P
    BY <1>6, <1>9, <1>11, <2>1
  <2>3. ItemAt(f, p) = ItemAt(b, p) /\ p < Len(f)
    <3>1. ItemAt(b, p) = ItemAt(f, p)
      BY <2>2, PrefixItemAt, Zenon
    <3>2. QED
      BY <1>1, <1>2, <2>2, <3>1
  <2>4. rf.tag = "EmptyErr"
    BY <1>3, <1>6, <2>2, <2>3 DEF While1OK
  <2>5. qf = p
    BY <2>4 DEF qf
  <2>6. ~AtEof(b, qb) /\ ~AtEof(f, qf)
    BY <1>1, <2>1, <2>2, <2>3, <2>5 DEF AtEof
  <2>7. QED
    BY <1>7, <1>8, <1>11, <2>1, <2>4, <2>5, <2>6
<1>12. QED
  BY <1>3, <1>10, <1>11 DEF While1OK
\* Every primitive on a prefix agrees with the input when its outcome is
\* not end of input.
LEMMA PrefixExec ==
  ASSUME NEW f \in Seq(Units), WellFormed(f), NEW n \in Bounds(f), NEW b,
         b = SubSeq(f, 1, n), WellFormed(b), NEW p \in Bounds(b),
         NEW o \in Ops, o.name \notin {"checkpoint", "reset"},
         Exec(o, b, p, TRUE).res.tag \in OkTags \/ Exec(o, b, p, TRUE).res.err # "Eoi"
  PROVE  Exec(o, f, p, TRUE) = Exec(o, b, p, TRUE)
<1>1. CASE o.name = "uncons"
  <2>1. Exec(o, b, p, TRUE) = Uncons(b, p, TRUE) /\ Exec(o, f, p, TRUE) = Uncons(f, p, TRUE)
    BY <1>1 DEF Exec
  <2>2. QED
    BY <2>1, PrefixUncons, Zenon
<1>2. CASE o.name = "range"
  <2>1. o.size \in Nat
    BY <1>2, ArgsAssumption DEF Ops
  <2>2. Exec(o, b, p, TRUE) = UnconsRange(b, p, o.size, TRUE)
        /\ Exec(o, f, p, TRUE) = UnconsRange(f, p, o.size, TRUE)
    BY <1>2 DEF Exec
  <2>3. QED
    BY <2>1, <2>2, PrefixUnconsRange, Zenon
<1>3. CASE o.name = "while"
  <2>1. Exec(o, b, p, TRUE) = UnconsWhile(b, p, o.pred, TRUE)
        /\ Exec(o, f, p, TRUE) = UnconsWhile(f, p, o.pred, TRUE)
    BY <1>3 DEF Exec
  <2>2. QED
    BY <2>1, PrefixWhile, Zenon
<1>4. CASE o.name = "while1"
  <2>1. Exec(o, b, p, TRUE) = UnconsWhile1(b, p, o.pred, TRUE)
        /\ Exec(o, f, p, TRUE) = UnconsWhile1(f, p, o.pred, TRUE)
    BY <1>4 DEF Exec
  <2>2. QED
    BY <2>1, PrefixWhile1, Zenon
<1>5. QED
  BY <1>1, <1>2, <1>3, <1>4 DEF Ops

\* A call delivers a record of the new position and the outcome.
IsStep(x) == x = [pos |-> x.pos, res |-> x.res]

LEMMA ExecShape ==
  ASSUME NEW b \in Seq(Units), WellFormed(b), NEW p \in Bounds(b),
         NEW pt \in BOOLEAN, NEW o \in Ops, o.name \notin {"checkpoint", "reset"}
  PROVE  IsStep(Exec(o, b, p, pt))
<1>1. CASE o.name = "uncons"
  <2>1. IsStep(Uncons(b, p, pt))
    BY DEF Uncons, IsStep
  <2>2. QED
    BY <1>1, <2>1 DEF Exec
<1>2. CASE o.name = "range"
  <2>1. o.size \in Nat
    BY <1>2, ArgsAssumption DEF Ops
  <2>2. IsStep(RangeOutcome(b, p, o.size, pt))
    BY DEF RangeOutcome, IsStep
  <2>3. QED
    BY <1>2, <2>1, <2>2, RangeNormal DEF Exec
<1>3. CASE o.name = "while"
  <2> DEFINE r == WhileScan(b, p, o.pred)
  <2>1. r.ok
    BY WhileScanOK DEF ScanOK
  <2> HIDE DEF r
  <2>2. UnconsWhile(b, p, o.pred, pt) =
          IF pt /\ AtEof(b, r.pos)
          THEN [pos |-> r.pos, res |-> Err("ConsumedErr", "Eoi", r.pos)]
          ELSE [pos |-> r.pos,
                res |-> Ok(IF Len(r.val) = 0 THEN "EmptyOk" ELSE "ConsumedOk", r.val)]
    BY <2>1 DEF UnconsWhile, WhileScan, r
  <2>3. IsStep(UnconsWhile(b, p, o.pred, pt))
    BY <2>2 DEF IsStep
  <2>4. QED
    BY <1>3, <2>3 DEF Exec
<1>4. CASE o.name = "while1"
  <2> DEFINE r == While1Scan(b, p, o.pred)
             q == IF r.tag = "ConsumedOk" THEN r.pos ELSE p
  <2>1. r.tag \in {"ConsumedOk", "EmptyErr"}
    BY While1ScanOK DEF While1OK
  <2> HIDE DEF r, q
  <2>2. UnconsWhile1(b, p, o.pred, pt) =
          IF pt /\ AtEof(b, q) THEN [pos |-> q, res |-> Err("ConsumedErr", "Eoi", q)]
          ELSE CASE r.tag = "ConsumedOk" -> [pos |-> q, res |-> Ok("ConsumedOk", r.val)]
                 [] r.tag = "EmptyErr"   -> [pos |-> q, res |-> Err("EmptyErr", "Unexpected", q)]
                 [] r.tag = "ConsumedErr" -> [pos |-> q, res |-> WrapStreamError(q, r.err, pt)]
    BY DEF UnconsWhile1, While1Scan, r, q
  <2>3. IsStep(UnconsWhile1(b, p, o.pred, pt))
    BY <2>1, <2>2 DEF IsStep
  <2>4. QED
    BY <1>4, <2>3 DEF Exec
<1>5. QED
  BY <1>1, <1>2, <1>3, <1>4 DEF Ops
(***************************************************************************)
(* The inductive invariant PInv.  IInv says nothing of the whole input:    *)
(* PartialResultsAgree compares a call on the buffer received so far with  *)
(* the same call on full, so PInv adds that full is valid UTF-8 and that a *)
(* partial buffer is a prefix of full cut at an item boundary.  No call    *)
(* changes full, buf or partial, so this part is kept by every step.       *)
(***************************************************************************)
PInv ==
  /\ IInv
  /\ full \in Seq(Units)
  /\ WellFormed(full)
  /\ partial => \E n \in Bounds(full) : buf = SubSeq(full, 1, n)

\* The body of PartialResultsAgree, as a step predicate.
PRStep ==
  partial /\ res' # NoResult /\ (res'.tag \in OkTags \/ res'.err # "Eoi")
    => Exec(op', full, pos, partial) = [pos |-> pos', res |-> res']

LEMMA InitPInv == Init => PInv
<1> SUFFICES ASSUME Init PROVE PInv
  OBVIOUS
<1>1. full \in Seq(Units) /\ Len(full) \in Bounds(full)
  BY InputsAssumption, BoundsFacts DEF Init
<1>2. WellFormed(SubSeq(full, 1, Len(full)))
  BY <1>1, InputsAssumption DEF Init
<1>3. SubSeq(full, 1, Len(full)) = full
  BY <1>1, SubSeqFull
<1>4. WellFormed(full)
  BY <1>2, <1>3
<1>5. partial => \E n \in Bounds(full) : buf = SubSeq(full, 1, n)
  BY DEF Init, BoundaryPrefixes
<1>6. QED
  BY <1>1, <1>4, <1>5, InitIInv DEF PInv

\* No step changes the input, the buffer received or the partial flag.
LEMMA FrameFixed == [Next]_vars => UNCHANGED <<full, buf, partial>>
BY DEF Next, UnconsStep, UnconsRangeStep, UnconsWhileStep, UnconsWhile1Step,
       Call, CheckpointStep, ResetStep, vars

LEMMA NextPInv == PInv /\ [Next]_vars => PInv'
<1> SUFFICES ASSUME PInv, [Next]_vars PROVE PInv'
  OBVIOUS
<1>1. IInv'
  BY IInvInductive DEF PInv
<1>2. full' = full /\ buf' = buf /\ partial' = partial
  BY FrameFixed
<1>3. QED
  BY <1>1, <1>2 DEF PInv

\* A call of a primitive on a partial buffer is a step of
\* PartialResultsAgree.
LEMMA CallPartial ==
  ASSUME PInv, NEW o \in Ops, o.name \notin {"checkpoint", "reset"}, Call(o)
  PROVE  PRStep
<1> SUFFICES ASSUME partial, res' # NoResult, res'.tag \in OkTags \/ res'.err # "Eoi"
             PROVE  Exec(op', full, pos, partial) = [pos |-> pos', res |-> res']
  BY DEF PRStep
<1>1. partial = TRUE
  BY DEF PInv, IInv, TypeOK
<1>2. PICK n \in Bounds(full) : buf = SubSeq(full, 1, n)
  BY DEF PInv
<1>3. buf \in Seq(Units) /\ WellFormed(buf) /\ pos \in Bounds(buf)
      /\ full \in Seq(Units) /\ WellFormed(full)
  BY DEF PInv, IInv, TypeOK
<1> DEFINE e == Exec(o, buf, pos, TRUE)
<1>4. pos' = e.pos /\ res' = e.res /\ op' = o
  BY <1>1 DEF Call
<1>5. e.res.tag \in OkTags \/ e.res.err # "Eoi"
  BY <1>4
<1>6. IsStep(e)
  BY <1>3, ExecShape
<1> HIDE DEF e
<1>7. Exec(o, full, pos, TRUE) = e
  BY <1>2, <1>3, <1>5, PrefixExec DEF e
<1>8. QED
  BY <1>1, <1>4, <1>6, <1>7 DEF IsStep

(***************************************************************************)
(* The end-of-input correction of PartialStream (uncons_while,             *)
(* uncons_while1 and wrap_stream_error), for every encoding, input,        *)
(* predicate and size (PartialResultsAgree): whatever a call on a partial  *)
(* cursor reports other than end of input, the same call on the whole      *)
(* input reports too, at the same new position.  The argument: encodings  *)
(* are prefix free, so each item of the received prefix decodes as in the  *)
(* whole input, and every outcome that would differ is one that looked at  *)
(* the end of the prefix, which the correction turns into end of input.    *)
(***************************************************************************)
THEOREM PartialAgreement == Spec => PartialResultsAgree
<1>1. PInv /\ [Next]_vars => [PRStep]_vars
  <2> SUFFICES ASSUME PInv, [Next]_vars PROVE [PRStep]_vars
    OBVIOUS
  <2>1. CASE UnconsStep
    <3>1. [name |-> "uncons"] \in Ops
      BY DEF Ops
    <3>2. QED
      BY <2>1, <3>1, CallPartial DEF UnconsStep
  <2>2. CASE UnconsRangeStep
    <3>1. PICK n \in Sizes : Call([name |-> "range", size |-> n])
      BY <2>2 DEF UnconsRangeStep
    <3>2. [name |-> "range", size |-> n] \in Ops
      BY DEF Ops
    <3>3. QED
      BY <3>1, <3>2, CallPartial
  <2>3. CASE UnconsWhileStep
    <3>1. PICK P \in Preds : Call([name |-> "while", pred |-> P])
      BY <2>3 DEF UnconsWhileStep
    <3>2. [name |-> "while", pred |-> P] \in Ops
      BY DEF Ops
    <3>3. QED
      BY <3>1, <3>2, CallPartial
  <2>4. CASE UnconsWhile1Step
    <3>1. PICK P \in Preds : Call([name |-> "while1", pred |-> P])
      BY <2>4 DEF UnconsWhile1Step
    <3>2. [name |-> "while1", pred |-> P] \in Ops
      BY DEF Ops
    <3>3. QED
      BY <3>1, <3>2, CallPartial
  <2>5. CASE CheckpointStep \/ ResetStep
    BY <2>5 DEF CheckpointStep, ResetStep, PRStep
  <2>6. CASE UNCHANGED vars
    BY <2>6
  <2>7. QED
    BY <2>1, <2>2, <2>3, <2>4, <2>5, <2>6 DEF Next
<1>2. Spec => []PInv
  BY InitPInv, NextPInv, PTL DEF Spec
<1>3. QED
  BY <1>1, <1>2, PTL DEF Spec, PartialResultsAgree, PRStep

=============================================================================
