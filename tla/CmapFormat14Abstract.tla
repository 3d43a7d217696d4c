------------------------- MODULE CmapFormat14Abstract -------------------------
(***************************************************************************)
(* What Parse0514 promises, as one decision: handed a subtable, it         *)
(* accepts it (Spec) exactly when the subtable is a well-formed format-14 *)
(* table (spec 4.5), otherwise rejects it, and eventually does one or the  *)
(* other (Decided).  Well-formedness is stated over the whole table at     *)
(* once: every record, every nested table and every entry, with no loop    *)
(* and no reading order.                                                   *)
(*                                                                         *)
(* Two points of spec 4.5 are read as the code reads them: a selector of 0 *)
(* is not above the implicit previous selector 0, and ranges of a default  *)
(* table are "strictly increasing" in that each starts after the previous  *)
(* one ends.                                                               *)
(***************************************************************************)
EXTENDS Integers, Sequences

CONSTANTS NumGlyphs

VARIABLES data, length, result

avars == <<data, length, result>>

MaxScalar == 1114111

Byte(b) == IF b + 1 <= Len(data) THEN data[b + 1] ELSE 0
RECURSIVE BE(_, _)
\* The big-endian value of the n bytes at b.
BE(b, n) == IF n = 0 THEN 0 ELSE Byte(b) * 256^(n - 1) + (IF n = 1 THEN 0 ELSE BE(b + 1, n - 1))

\* A u32 count or offset; 2^31 - 1 stands for every value of 2^31 or more.
Count(b) == IF Byte(b) >= 128 THEN 2147483647 ELSE BE(b, 4)

\* A nested table at off of n entries of size w lies inside the subtable.
TableFits(off, w) == Count(off) <= (length - off - 4) \div w

\* The default UVS table at off: ranges inside 0..0x10FFFF, each starting
\* after the previous one ends.
DefaultTableOK(off) ==
  /\ TableFits(off, 4)
  /\ \A n \in 1..Count(off) :
       LET p == off + 4 * n IN
       /\ BE(p, 3) + Byte(p + 3) <= MaxScalar
       /\ n > 1 => BE(p, 3) > BE(p - 4, 3) + Byte(p - 1)

\* The non-default UVS table at off: code points strictly increasing and
\* scalar, glyphs below num_glyphs.
NonDefaultTableOK(off) ==
  /\ TableFits(off, 5)
  /\ \A n \in 1..Count(off) :
       LET p == off + 4 + 5 * (n - 1) IN
       /\ BE(p, 3) <= MaxScalar /\ BE(p + 3, 2) < NumGlyphs
       /\ n > 1 => BE(p, 3) > BE(p - 5, 3)

\* The record at p: a positive selector above its predecessor's, offsets
\* that leave room for a count, and well-formed nested tables.
RecordOK(k) ==
  LET p == 10 + 11 * (k - 1)
      vs == BE(p, 3)  def == Count(p + 3)  nondef == Count(p + 7)
  IN
  /\ vs > (IF k = 1 THEN 0 ELSE BE(p - 11, 3)) /\ vs <= MaxScalar
  /\ def <= length - 4 /\ nondef <= length - 4
  /\ def # 0 => DefaultTableOK(def)
  /\ nondef # 0 => NonDefaultTableOK(nondef)

WellFormed ==
  /\ length >= 10
  /\ Count(6) <= (length - 10) \div 11
  /\ \A k \in 1..Count(6) : RecordOK(k)

Init == result = "pending" /\ length \in Nat /\ data \in Seq(0..255)

Decide ==
  /\ result = "pending"
  /\ result' = IF WellFormed THEN "accepted" ELSE "rejected"
  /\ UNCHANGED <<data, length>>

Spec == Init /\ [][Decide]_avars

\* The decision is eventually taken.  Decide is enabled in every pending
\* state, so with Spec this is what WF_avars(Decide) would add.
Decided == <>(result # "pending")

====
