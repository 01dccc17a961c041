---------------------------- MODULE MC_LapicCodec ----------------------------
(* Vector registers of two 3-bit words, so that every in-service bitmap is *)
(* an initial state; a page of 64 bytes and a record of 40, so that the   *)
(* page rounding of encode matters; Buffers for a get of half a page and  *)
(* of a page; the VMM writes LDR, ISR word 1, TPR and PPR.                *)
EXTENDS LapicCodec

MC_W == 3
MC_NW == 2
MC_HV_PAGE_SIZE == 64
MC_HV_HYP_PAGE_SHIFT == 6
MC_HvStateSize == 40
MC_GetSizes == {32, 64}
MC_Values == {7}
MC_EditSlots == {Slot(LOCAL_APIC_OFFSET_LDR), Slot(LOCAL_APIC_OFFSET_ISR + 16),
                 Slot(LOCAL_APIC_OFFSET_TPR), Slot(LOCAL_APIC_OFFSET_PPR)}
MC_MaxEdits == 2

=============================================================================
