---------------------------- MODULE MCCmapOs2Fixup ----------------------------
(***************************************************************************)
(* Three code points and the terminator 3 (for 0xFFFF).  Lo covers codes 0 *)
(* and 1 and reaches code 1 from its second segment; Hi covers only code 2 *)
(* and has no second non-terminator segment, so the fix-up of Hi alone     *)
(* moves nothing, and a first_char_index of 1 names a code Hi does not     *)
(* map.  The font's own values are inside the range or 0xFFFF, which the   *)
(* fix-up leaves alone.                                                    *)
(***************************************************************************)
EXTENDS CmapOs2Fixup

Seg(s, e) == [start |-> s, end |-> e]

MCTables ==
  { <<Seg(0, 0), Seg(1, 1), Seg(3, 3)>>,
    <<Seg(2, 2), Seg(3, 3)>> }

MCOs2Inits == { <<2, 2>>, <<3, 3>> }

====
