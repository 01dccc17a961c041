------------------------ MODULE MC_VpStateComponents ------------------------
(***************************************************************************)
(* VpStateComponents on a scaled-down page of 2 bytes: the LAPIC and      *)
(* synthetic timer components are shorter than a page (1024 and 200 bytes *)
(* against 4096), the XSAVE, SIMP and SIEFP components are one page.  The  *)
(* VMM may allocate a full page, as the crate's callers and tests do, or a *)
(* buffer of one byte, which is too small for the page-sized components.  *)
(***************************************************************************)
EXTENDS VpStateComponents, TLC

MC_HV_PAGE_SIZE == 2
MC_LapicStateSize == 1
MC_XSaveSize == 2
MC_SyntheticTimersSize == 1
MC_AllocSizes == {1, 2}

=============================================================================
