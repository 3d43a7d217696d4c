-------------------------- MODULE CmapFormat4Abstract --------------------------
(***************************************************************************)
(* What Parse3x4 promises, as one decision: handed a subtable (and the     *)
(* font's OS/2 table), it accepts it exactly when the subtable is a        *)
(* well-formed format-4 table as the code reads spec 4.2, and rejects it   *)
(* otherwise.  Well-formedness is stated over the whole table at once:     *)
(* every header field, every segment and every code point, with no loop    *)
(* and no reading order.                                                   *)
(*                                                                         *)
(* The code space is 0..MaxCode, MaxCode playing 0xFFFF, as in            *)
(* CmapFormat4.  The points of spec 4.2 read as the code reads them:      *)
(* segment 0 is neither ordered against anything nor simulated, an odd    *)
(* idRangeOffset on the last segment counts as 0, and two 0xFFFF          *)
(* terminators at the end are tolerated.                                   *)
(***************************************************************************)
EXTENDS Integers, Sequences

CONSTANTS NumGlyphs, MaxCode

VARIABLES data, length, hasOS2, result

avars == <<data, length, hasOS2, result>>

W(b) == IF b \div 2 + 1 <= Len(data) THEN data[b \div 2 + 1] ELSE 0

\* The number of segments and the fields of segment s (1-based).
N == W(6) \div 2
End(s)   == W(12 + 2 * s)
Start(s) == W(14 + 2 * N + 2 * s)
Delta(s) == LET w == W(14 + 4 * N + 2 * s) IN IF w >= 32768 THEN w - 65536 ELSE w
RawIro(s) == W(14 + 6 * N + 2 * s)
IroAt(s) == 14 + 6 * N + 2 * s
Iro(s) == IF RawIro(s) % 2 = 1 THEN 0 ELSE RawIro(s)

\* floor(log2 n) for n >= 1.
FloorLog2(n) == CHOOSE x \in 0..16 : 2^x <= n /\ n < 2^(x + 1)

HeaderOK ==
  /\ length >= 14
  /\ W(4) = 0 /\ W(6) % 2 = 0 /\ N >= 1
  /\ W(8) = (2 * 2^FloorLog2(N)) % 65536
  /\ W(10) = FloorLog2(N)
  /\ W(12) = (W(6) - W(8)) % 65536

\* The four arrays and the reserved pad fit, the pad is 0, and only the
\* last idRangeOffset may be odd.
ArraysOK ==
  /\ 16 + 8 * N <= length
  /\ W(14 + 2 * N) = 0
  /\ \A s \in 1..(N - 1) : RawIro(s) % 2 = 0

Terminator(s) == Start(s) = MaxCode /\ End(s) = MaxCode

\* From segment 2 on, each ends after and starts after the previous end.
OrderOK ==
  \A s \in 2..N :
    \/ s = N /\ Terminator(s - 1) /\ Terminator(s)
    \/ End(s) > End(s - 1) /\ Start(s) > End(s - 1)

\* The lookup of code point c through segment s.
LookupOK(s, c) ==
  IF Iro(s) = 0
    THEN (c + Delta(s)) % (MaxCode + 1) < NumGlyphs
    ELSE LET a == IroAt(s) + Iro(s) + 2 * (c - Start(s))
         IN a + 1 < length /\ W(a) < NumGlyphs

WellFormed ==
  /\ hasOS2
  /\ HeaderOK
  /\ ArraysOK
  /\ OrderOK
  /\ End(N) = MaxCode
  /\ \A s \in 2..N : \A c \in Start(s)..End(s) : LookupOK(s, c)

Init ==
  /\ result = "pending"
  /\ data \in Seq(0..65535) /\ length \in Nat /\ hasOS2 \in BOOLEAN

Decide ==
  /\ result = "pending"
  /\ result' = IF WellFormed THEN "accepted" ELSE "rejected"
  /\ UNCHANGED <<data, length, hasOS2>>

Spec == Init /\ [][Decide]_avars

====
