---------------------------- MODULE MC_SegmentCodec ----------------------------
EXTENDS SegmentCodec

(* 1 fits every field; 2 overflows the one-bit fields; 4 overflows the    *)
(* privilege level.                                                       *)
MC_Values == {1, 2, 4}
MC_MaxEdits == 1
====
