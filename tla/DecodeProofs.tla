---------------------------- MODULE DecodeProofs ----------------------------
(***************************************************************************)
(* Proofs about Decode for every alphabet and every bound: the count       *)
(* decode_mut returns is always within the bytes it was given, so the      *)
(* adapter's split_to never panics, and every variable keeps its type.     *)
(***************************************************************************)
EXTENDS Decode, WellFoundedInduction, SequenceTheorems, TLAPS

(***************************************************************************)
(* The scan of uncons_while takes the least stopping offset, which exists. *)
(***************************************************************************)
LEMMA LeastIsLeast ==
  ASSUME NEW S \in SUBSET Nat, S # {}
  PROVE  SC!Least(S) \in S /\ \A x \in S : SC!Least(S) <= x
<1>1. \E m \in S : \A x \in S : ~(<<x, m>> \in OpToRel(<, Nat))
  BY NatLessThanWellFounded, WFMin
<1>2. PICK m \in S : \A x \in S : ~(<<x, m>> \in OpToRel(<, Nat))
  BY <1>1
<1>3. \A x \in S : m <= x
  <2> TAKE x \in S
  <2>1. <<x, m>> \in Nat \X Nat
    OBVIOUS
  <2>2. ~(x < m)
    BY <1>2, <2>1 DEF OpToRel
  <2>3. QED
    BY <2>2
<1>4. QED
  BY <1>3 DEF SC!Least

(***************************************************************************)
(* take_while(digit) on a partial byte slice b: the free function          *)
(* uncons_while stops at an offset j of b, every byte before j is a digit, *)
(* and it reports end of input exactly when j is the end of b.             *)
(***************************************************************************)
LEMMA ScanFacts ==
  ASSUME NEW b \in Seq(Bytes)
  PROVE  \E j \in 0 .. Len(b) :
           /\ \A y \in 1 .. j : b[y] \in Digits
           /\ SC!UnconsWhile(b, 0, Digits, TRUE).pos = j
           /\ j = Len(b) => SC!UnconsWhile(b, 0, Digits, TRUE).res.tag = "ConsumedErr"
           /\ j < Len(b) => SC!UnconsWhile(b, 0, Digits, TRUE).res.tag \in SC!OkTags
<1> DEFINE S == {x \in 0 .. Len(b) : x = Len(b) \/ b[x + 1] \notin Digits}
<1>1. S \in SUBSET Nat /\ S # {} /\ Len(b) \in S
  OBVIOUS
<1>2. PICK j \in S : j = SC!Least(S)
  BY <1>1, LeastIsLeast
<1>3. \A x \in S : j <= x
  BY <1>1, <1>2, LeastIsLeast
<1> HIDE DEF S
<1>4. j \in 0 .. Len(b)
  BY <1>2 DEF S
<1>5. \A y \in 1 .. j : b[y] \in Digits
  <2> TAKE y \in 1 .. j
  <2>1. y - 1 \in 0 .. Len(b) /\ y - 1 < j
    BY <1>4
  <2>2. y - 1 \notin S
    BY <2>1, <1>3, <1>4
  <2>3. QED
    BY <2>1, <2>2 DEF S
<1>6. SubSeq(b, 0 + 1, Len(b)) = b
  OBVIOUS
<1>7. SC!SliceUnconsWhile(b, 0, 0, Digits) = SC!RawOk(SubSeq(b, 1, j), j)
  <2>1. {x \in 0 .. Len(SubSeq(b, 0 + 1, Len(b))) :
           x = Len(SubSeq(b, 0 + 1, Len(b))) \/ SubSeq(b, 0 + 1, Len(b))[x + 1] \notin Digits} = S
    BY <1>6 DEF S
  <2>2. SC!SliceUnconsWhile(b, 0, 0, Digits) = SC!RawOk(SubSeq(b, 1, SC!Least(S)), 0 + SC!Least(S))
    BY <1>6, <2>1 DEF SC!SliceUnconsWhile
  <2>3. QED
    BY <1>2, <1>4, <2>2
<1>8. (IF "slice" = "str" THEN SC!StrUnconsWhile(b, 0, 0, Digits)
                           ELSE SC!SliceUnconsWhile(b, 0, 0, Digits))
        = [ok |-> TRUE, val |-> SubSeq(b, 1, j), pos |-> j]
  BY <1>7 DEF SC!RawOk
<1>9. /\ j = Len(b) => SC!UnconsWhile(b, 0, Digits, TRUE).res.tag = "ConsumedErr"
      /\ j < Len(b) => SC!UnconsWhile(b, 0, Digits, TRUE).res.tag \in SC!OkTags
  <2>1. j = Len(b) => SC!UnconsWhile(b, 0, Digits, TRUE).res.tag = "ConsumedErr"
    BY <1>8 DEF SC!UnconsWhile, SC!AtEof, SC!WrapStreamError, SC!Err, SC!Ok
  <2>2. j < Len(b) => SC!UnconsWhile(b, 0, Digits, TRUE).res.tag \in SC!OkTags
    BY <1>4, <1>8 DEF SC!UnconsWhile, SC!AtEof, SC!WrapStreamError, SC!Err, SC!Ok, SC!OkTags
  <2>3. QED
    BY <2>1, <2>2
<1>10. SC!UnconsWhile(b, 0, Digits, TRUE).pos = j
  BY <1>8 DEF SC!UnconsWhile, SC!AtEof, SC!Err, SC!Ok
<1>11. QED
  BY <1>4, <1>5, <1>9, <1>10

(***************************************************************************)
(* uncons of a byte slice before its end takes the next byte.             *)
(***************************************************************************)
LEMMA UnconsByte ==
  ASSUME NEW b \in Seq(Bytes), NEW p \in Nat, p < Len(b)
  PROVE  /\ SC!Uncons(b, p, TRUE).pos = p + 1
         /\ SC!Uncons(b, p, TRUE).res.tag = "ConsumedOk"
         /\ SC!Uncons(b, p, TRUE).res.val = <<b[p + 1]>>
<1>1. b[p + 1] \in Bytes
  OBVIOUS
<1>2. \A s \in Bytes : SC!Width(s) = 1 /\ ByteEnc[s] = <<s>>
  BY DEF SC!Width, ByteEnc
<1>3. SubSeq(b, p + 1, p + 1) = <<b[p + 1]>>
  <2>1. /\ SubSeq(b, p + 1, p + 1) \in Seq(Bytes)
        /\ Len(SubSeq(b, p + 1, p + 1)) = 1
        /\ SubSeq(b, p + 1, p + 1)[1] = b[p + 1]
    <3>1. \A i \in (p + 1) .. (p + 1) : b[i] \in Bytes
      OBVIOUS
    <3>2. QED
      BY <3>1, SubSeqProperties
  <2>2. <<b[p + 1]>> \in Seq(Bytes) /\ Len(<<b[p + 1]>>) = 1 /\ <<b[p + 1]>>[1] = b[p + 1]
    BY <1>1
  <2>3. \A i \in 1 .. Len(SubSeq(b, p + 1, p + 1)) :
           SubSeq(b, p + 1, p + 1)[i] = <<b[p + 1]>>[i]
    BY <2>1, <2>2
  <2>4. QED
    BY <2>1, <2>2, <2>3, SeqEqual, Zenon
<1>4. \A s \in Bytes :
         (p + SC!Width(s) <= Len(b) /\ SubSeq(b, p + 1, p + SC!Width(s)) = ByteEnc[s])
           <=> s = b[p + 1]
  <2> SUFFICES ASSUME NEW s \in Bytes
               PROVE  (p + SC!Width(s) <= Len(b) /\ SubSeq(b, p + 1, p + SC!Width(s)) = ByteEnc[s])
                        <=> s = b[p + 1]
    OBVIOUS
  <2>1. SC!Width(s) = 1 /\ ByteEnc[s] = <<s>>
    BY <1>2
  <2>2. SubSeq(b, p + 1, p + SC!Width(s)) = <<b[p + 1]>>
    BY <2>1, <1>3
  <2>3. <<b[p + 1]>> = <<s>> <=> s = b[p + 1]
    OBVIOUS
  <2>4. QED
    BY <2>1, <2>2, <2>3
<1>5. SC!ItemAt(b, p) = b[p + 1]
  BY <1>1, <1>4, Zenon DEF SC!ItemAt
<1>6. QED
  BY <1>1, <1>2, <1>5 DEF SC!Uncons, SC!Ok, SC!WrapStreamError, SC!Err

\* What the digits-then-comma parser gives on a partial slice.
ParseOK(r, b) ==
  /\ r.st \in {"eoi", "ok", "unexpected"}
  /\ r.pos \in 0 .. Len(b)
  /\ r.state \in Seq(Digits)
  /\ r.st = "ok" => r.msg \in Seq(Digits)

(***************************************************************************)
(* The parser's cursor ends within the slice, and the digits it keeps or   *)
(* returns are digits.                                                     *)
(***************************************************************************)
LEMMA ParseFacts ==
  ASSUME NEW b \in Seq(Bytes), NEW st \in Seq(Digits)
  PROVE  ParseOK(Parse(b, st), b)
<1>1. PICK j \in 0 .. Len(b) :
           /\ \A y \in 1 .. j : b[y] \in Digits
           /\ SC!UnconsWhile(b, 0, Digits, TRUE).pos = j
           /\ j = Len(b) => SC!UnconsWhile(b, 0, Digits, TRUE).res.tag = "ConsumedErr"
           /\ j < Len(b) => SC!UnconsWhile(b, 0, Digits, TRUE).res.tag \in SC!OkTags
  BY ScanFacts
<1>2. st \o SubSeq(b, 1, j) \in Seq(Digits)
  <2>1. SubSeq(b, 1, j) \in Seq(Digits)
    BY <1>1
  <2>2. QED
    BY <2>1
<1>3. CASE j = Len(b)
  <2>1. Parse(b, st) = [st |-> "eoi", pos |-> j, state |-> st \o SubSeq(b, 1, j)]
    BY <1>1, <1>3 DEF Parse, SC!ErrTags, SC!OkTags
  <2>2. QED
    BY <1>2, <2>1 DEF ParseOK
<1>4. CASE j < Len(b)
  <2>1. /\ SC!Uncons(b, j, TRUE).pos = j + 1
        /\ SC!Uncons(b, j, TRUE).res.tag = "ConsumedOk"
        /\ SC!Uncons(b, j, TRUE).res.val = <<b[j + 1]>>
    <3>1. j \in Nat /\ j < Len(b)
      BY <1>4
    <3>2. QED
      BY <3>1, UnconsByte
  <2>2. Parse(b, st) =
          IF <<b[j + 1]>> = <<Comma>>
          THEN [st |-> "ok", pos |-> j + 1, msg |-> st \o SubSeq(b, 1, j), state |-> <<>>]
          ELSE [st |-> "unexpected", pos |-> j, state |-> st \o SubSeq(b, 1, j)]
    BY <1>1, <1>4, <2>1 DEF Parse, SC!ErrTags, SC!OkTags
  <2>3. QED
    BY <1>2, <1>4, <2>2 DEF ParseOK
<1>5. QED
  BY <1>3, <1>4

\* The results decode_mut can return on a slice b.
DecodeResults(b) ==
  [ok : BOOLEAN, some : BOOLEAN, msg : Seq(Digits), n : 0 .. Len(b), state : Seq(Digits)]

(***************************************************************************)
(* decode_mut counts at most the bytes it was given: the distance from the *)
(* checkpoint at offset 0 is the offset the parser stopped at.             *)
(***************************************************************************)
LEMMA DecodeMutOK ==
  ASSUME NEW b \in Seq(Bytes), NEW st \in Seq(Digits)
  PROVE  DecodeMut(b, st) \in DecodeResults(b)
<1>1. PICK r : r = Parse(b, st)
  OBVIOUS
<1>2. ParseOK(r, b)
  BY <1>1, ParseFacts
<1>3. SC!Distance(b, r.pos, 0) = r.pos
  BY <1>2 DEF SC!Distance, ParseOK
<1>4. QED
  BY <1>1, <1>2, <1>3 DEF DecodeMut, Result, ParseOK, DecodeResults

(***************************************************************************)
(* The invariant: the variables are well typed and split_to has not        *)
(* panicked.  It is inductive as it stands, because DecodeMutOK bounds the *)
(* count by the buffer in every state.                                     *)
(***************************************************************************)
Inv == TypeOK /\ NoSplitPanic

LEMMA InitInv == Init => Inv
BY DEF Init, Inv, TypeOK, NoSplitPanic, Result, Msgs

LEMMA NextInv == Inv /\ [Next]_vars => Inv'
<1> SUFFICES ASSUME Inv, [Next]_vars PROVE Inv'
  OBVIOUS
<1>1. src \in Seq(Bytes) /\ state \in Seq(Digits) /\ out \in Seq(Seq(Digits))
  BY DEF Inv, TypeOK, Msgs
<1>2. CASE Read
  BY <1>2, DecodeAssumption DEF Read, Inv, TypeOK, NoSplitPanic, Msgs
<1>3. CASE DecodeStep
  <2>1. ret' \in DecodeResults(src)
    BY <1>1, <1>3, DecodeMutOK DEF DecodeStep
  <2>2. CASE ~ret'.ok
    BY <1>3, <2>1, <2>2 DEF DecodeStep, Inv, TypeOK, NoSplitPanic, Msgs, DecodeResults
  <2>3. CASE ret'.ok
    <3>1. /\ src' = SubSeq(src, ret'.n + 1, Len(src))
          /\ state' = ret'.state
          /\ out' = IF ret'.some THEN Append(out, ret'.msg) ELSE out
          /\ status' = status
          /\ arrived' = arrived
      BY <1>3, <2>1, <2>3 DEF DecodeStep, DecodeResults
    <3>2. QED
      BY <1>1, <2>1, <3>1 DEF Inv, TypeOK, NoSplitPanic, Msgs, DecodeResults
  <2>4. QED
    BY <2>2, <2>3
<1>4. CASE UNCHANGED vars
  BY <1>4 DEF vars, Inv, TypeOK, NoSplitPanic
<1>5. QED
  BY <1>2, <1>3, <1>4 DEF Next

(***************************************************************************)
(* For every alphabet and every bound on the bytes delivered, the count    *)
(* decode_mut returns never exceeds the adapter's buffer, so split_to in   *)
(* Decoder::decode never panics, whatever the chunks the bytes arrive in.  *)
(***************************************************************************)
THEOREM SplitNeverPanics == Spec => []NoSplitPanic
<1>1. Init => Inv
  BY InitInv
<1>2. Inv /\ [Next]_vars => Inv'
  BY NextInv
<1>3. Inv => NoSplitPanic
  BY DEF Inv
<1>4. QED
  BY <1>1, <1>2, <1>3, PTL DEF Spec

(***************************************************************************)
(* Every variable of the adapter keeps its type: in particular the count   *)
(* decode returns is a usize and the items returned are digit strings.     *)
(***************************************************************************)
THEOREM DecodeTypeCorrect == Spec => []TypeOK
<1>1. Inv => TypeOK
  BY DEF Inv
<1>2. QED
  BY InitInv, NextInv, <1>1, PTL DEF Spec

=============================================================================
