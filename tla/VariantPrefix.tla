---------------------------- MODULE VariantPrefix ----------------------------
(***************************************************************************)
(* How several contents become one stream: each behind its length, written *)
(* in LEB128 digits, the lowest first, all but the last with the high bit. *)
(* A content is a sequence of bytes.                                       *)
(***************************************************************************)
EXTENDS Integers, SequencesExt

CONSTANT Base   \* a digit is less than Base, 128, and Base is the high bit

ASSUME BaseAssumption == Base \in Nat \ {0, 1}

\* encodeULEB128.
Digits[n \in Nat] ==
  IF n < Base THEN <<n>> ELSE <<Base + (n % Base)>> \o Digits[n \div Base]

\* decodeULEB128.
Value[digits \in Seq(0 .. 2 * Base - 1)] ==
  IF digits = <<>> THEN 0 ELSE (Head(digits) % Base) + Base * Value[Tail(digits)]

AttatchPrefix(content) == Digits[Len(content)] \o content

EncodeWithVariantPrefix(contents) ==
  FlattenSeq([i \in DOMAIN contents |-> AttatchPrefix(contents[i])])

\* The prefix at the front: one more byte is tried until it decodes.
ParsePrefix(bytes) ==
  LET offset == Min({i \in DOMAIN bytes : bytes[i] < Base}) IN
  [offset |-> offset, length |-> Value[SubSeq(bytes, 1, offset)]]

\* The contents of a stream that is whole.  (Without a prefix in front, which no
\* such stream comes to, there is nothing more.)
DropPrefixes[bytes \in Seq(0 .. 2 * Base - 1)] ==
  LET p    == ParsePrefix(bytes)
      last == p.offset + p.length
      content == SubSeq(bytes, p.offset + 1, Min({last, Len(bytes)})) IN
  IF \A i \in DOMAIN bytes : bytes[i] >= Base THEN <<>>
  ELSE IF Len(bytes) > last
  THEN <<content>> \o DropPrefixes[SubSeq(bytes, last + 1, Len(bytes))]
  ELSE <<content>>
=============================================================================
