----------------------------- MODULE MC_XSaveCodec -----------------------------
EXTENDS XSaveCodec

(* A 3-byte area on 2-byte pages, so that the page rounding of encode     *)
(* matters, and get buffers smaller than, equal to and larger than it.    *)
MC_XSaveSize == 3
MC_HV_PAGE_SIZE == 2
MC_HV_HYP_PAGE_SHIFT == 1
MC_GetSizes == {2, 3, 4}
MC_Values == {9}
MC_MaxEdits == 1
====
