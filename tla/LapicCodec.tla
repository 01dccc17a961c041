------------------------------ MODULE LapicCodec ------------------------------
(***************************************************************************)
(* The LAPIC state codec of regs.rs: TryFrom<Buffer> for LapicState       *)
(* (decode) reshapes the hypervisor's hv_local_interrupt_controller_state  *)
(* record, read from a transfer Buffer, into the 1024-byte register file   *)
(* LapicState and derives the PPR from the in-service register;           *)
(* TryFrom<&LapicState> for Buffer (encode) reads the register file back  *)
(* into a fresh page-rounded Buffer holding such a record.                *)
(*                                                                         *)
(* The codec is driven the way a VMM uses it: get the LAPIC state of a VP  *)
(* into a Buffer, decode it, let the VMM write registers of the file (as  *)
(* its device emulation does), encode, and set the state back.  The       *)
(* hypervisor is the environment; its get and set are modelled from the   *)
(* interface the spec describes.  The VMM may hand the codec any Buffer it  *)
(* holds, also one the hypervisor refused to fill.                         *)
(*                                                                         *)
(* The register file is a function from 32-bit slots (byte offset \div 4) *)
(* to words: every register offset is a multiple of 16, so each u32 write *)
(* covers exactly one slot.  A record is a function from field names to   *)
(* words (scalar fields) or to arrays of NW words (the ISR, TMR and IRR).  *)
(* W is the width of a vector word (32 in the code); the model lets it be *)
(* smaller so that every in-service bitmap can be enumerated.            *)
(***************************************************************************)
EXTENDS Naturals, Sequences, FiniteSets

CONSTANTS
  W,               \* bits per vector word (32)
  NW,              \* words per vector register (8)
  HV_PAGE_SIZE,    \* the hypervisor page size (4096)
  HV_HYP_PAGE_SHIFT, \* log2 of the hypervisor page size (12)
  HvStateSize,     \* size_of::<hv_local_interrupt_controller_state>()
  GetSizes,        \* sizes of the Buffers a VMM allocates for a get
  Values,          \* word values of the scalar registers
  EditSlots,       \* register slots the VMM writes
  MaxEdits,        \* register writes per decoded state
  Uninit           \* a byte nobody has written

ASSUME LapicAssumption ==
  /\ W \in Nat \ {0}
  /\ NW \in Nat \ {0}
  /\ HV_PAGE_SIZE \in Nat \ {0}
  /\ HV_HYP_PAGE_SHIFT \in Nat
  /\ 2 ^ HV_HYP_PAGE_SHIFT \in 1 .. HV_PAGE_SIZE   \* 4096 = 2^12 in the bindings
  /\ HvStateSize \in Nat \ {0}
  /\ GetSizes \subseteq Nat
  /\ MaxEdits \in Nat

(* The register offsets of the local APIC register file. *)
LOCAL_APIC_OFFSET_APIC_ID == 32
LOCAL_APIC_OFFSET_VERSION == 48
LOCAL_APIC_OFFSET_TPR == 128
LOCAL_APIC_OFFSET_APR == 144
LOCAL_APIC_OFFSET_PPR == 160
LOCAL_APIC_OFFSET_EOI == 176
LOCAL_APIC_OFFSET_REMOTE_READ == 192
LOCAL_APIC_OFFSET_LDR == 208
LOCAL_APIC_OFFSET_DFR == 224
LOCAL_APIC_OFFSET_SPURIOUS == 240
LOCAL_APIC_OFFSET_ISR == 256
LOCAL_APIC_OFFSET_TMR == 384
LOCAL_APIC_OFFSET_IRR == 512
LOCAL_APIC_OFFSET_ERROR == 640
LOCAL_APIC_OFFSET_ICR_LOW == 768
LOCAL_APIC_OFFSET_ICR_HIGH == 784
LOCAL_APIC_OFFSET_TIMER_LVT == 800
LOCAL_APIC_OFFSET_THERMAL_LVT == 816
LOCAL_APIC_OFFSET_PERFMON_LVT == 832
LOCAL_APIC_OFFSET_LINT0_LVT == 848
LOCAL_APIC_OFFSET_LINT1_LVT == 864
LOCAL_APIC_OFFSET_ERROR_LVT == 880
LOCAL_APIC_OFFSET_INITIAL_COUNT == 896
LOCAL_APIC_OFFSET_CURRENT_COUNT == 912
LOCAL_APIC_OFFSET_DIVIDER == 992

(* LapicState.regs: 1024 bytes, 256 slots of 32 bits. *)
Slots == 0 .. 255
Slot(offset) == offset \div 4

(* The values of a u32 register; TLC's integers are too narrow for the  *)
(* bound 2^32, and no step here does arithmetic on them.                *)
U32 == Nat
Words == 0 .. (2 ^ W - 1)
VecIdx == 0 .. (NW - 1)

(* The scalar fields of the record and the register each is stored at. *)
ScalarOffset ==
  [apic_id |-> LOCAL_APIC_OFFSET_APIC_ID,
   apic_version |-> LOCAL_APIC_OFFSET_VERSION,
   apic_remote_read |-> LOCAL_APIC_OFFSET_REMOTE_READ,
   apic_ldr |-> LOCAL_APIC_OFFSET_LDR,
   apic_dfr |-> LOCAL_APIC_OFFSET_DFR,
   apic_spurious |-> LOCAL_APIC_OFFSET_SPURIOUS,
   apic_esr |-> LOCAL_APIC_OFFSET_ERROR,
   apic_icr_low |-> LOCAL_APIC_OFFSET_ICR_LOW,
   apic_icr_high |-> LOCAL_APIC_OFFSET_ICR_HIGH,
   apic_lvt_timer |-> LOCAL_APIC_OFFSET_TIMER_LVT,
   apic_lvt_thermal |-> LOCAL_APIC_OFFSET_THERMAL_LVT,
   apic_lvt_perfmon |-> LOCAL_APIC_OFFSET_PERFMON_LVT,
   apic_lvt_lint0 |-> LOCAL_APIC_OFFSET_LINT0_LVT,
   apic_lvt_lint1 |-> LOCAL_APIC_OFFSET_LINT1_LVT,
   apic_lvt_error |-> LOCAL_APIC_OFFSET_ERROR_LVT,
   apic_initial_count |-> LOCAL_APIC_OFFSET_INITIAL_COUNT,
   apic_counter_value |-> LOCAL_APIC_OFFSET_CURRENT_COUNT,
   apic_divide_configuration |-> LOCAL_APIC_OFFSET_DIVIDER]
ScalarFields == DOMAIN ScalarOffset

(* The vector fields and their base offsets; word i is at base + i * 16. *)
VectorBase ==
  [apic_isr |-> LOCAL_APIC_OFFSET_ISR,
   apic_tmr |-> LOCAL_APIC_OFFSET_TMR,
   apic_irr |-> LOCAL_APIC_OFFSET_IRR]
VectorFields == DOMAIN VectorBase

(* Fields of the record that have no register in the file. *)
ExtraFields == {"apic_error_status", "apic_lvt_cmci"}

(* r is a record hv_local_interrupt_controller_state. *)
Fields == ScalarFields \cup VectorFields \cup ExtraFields
IsRecord(r) ==
  /\ DOMAIN r = Fields
  /\ \A f \in ScalarFields \cup ExtraFields : r[f] \in U32
  /\ \A f \in VectorFields : r[f] \in [VecIdx -> Words]

(* u32::leading_zeros of a W-bit word. *)
LeadingZeros(v) ==
  CHOOSE n \in 0 .. W : v < 2 ^ (W - n) /\ (n = W \/ 2 ^ (W - n - 1) <= v)

(* Mutant: the bit index taken as 32 - leading_zeros, one too high. *)
IsrPriorityOffByOne(isr) ==
  LET scan[j \in 0 .. NW] ==
        IF j = 0 THEN 0
        ELSE IF isr[j - 1] # 0
               THEN (W - LeadingZeros(isr[j - 1])) + (j - 1) * W
               ELSE scan[j - 1]
  IN  scan[NW]

(* Mutant: the scan runs from word 0 up, so the lowest nonzero word wins. *)
IsrPriorityAscending(isr) ==
  LET scan[j \in 0 .. NW] ==
        IF j = 0 THEN 0
        ELSE IF isr[NW - j] # 0
               THEN (W - 1 - LeadingZeros(isr[NW - j])) + (NW - j) * W
               ELSE scan[j - 1]
  IN  scan[NW]

(* The PPR loop of decode: scan the ISR words from the highest index down; *)
(* the first nonzero word gives the index of its most significant set bit *)
(* plus i * 4 * 8, the bits below word i; no nonzero word gives 0.        *)
IsrPriority(isr) ==
  LET scan[j \in 0 .. NW] ==
        IF j = 0 THEN 0
        ELSE IF isr[j - 1] # 0
               THEN (W - 1 - LeadingZeros(isr[j - 1])) + (j - 1) * W
               ELSE scan[j - 1]
  IN  scan[NW]

(* The reference: the highest vector whose in-service bit is set, or 0.  *)
HighestInService(isr) ==
  LET InService == {v \in 0 .. (NW * W - 1) : (isr[v \div W] \div 2 ^ (v % W)) % 2 = 1}
  IN  IF InService = {} THEN 0 ELSE CHOOSE m \in InService : \A u \in InService : u <= m

(* The scalar fields in the order decode writes them. *)
ScalarOrder ==
  <<"apic_id", "apic_version", "apic_remote_read", "apic_ldr", "apic_dfr",
    "apic_spurious", "apic_esr", "apic_icr_low", "apic_icr_high",
    "apic_lvt_timer", "apic_lvt_thermal", "apic_lvt_perfmon", "apic_lvt_lint0",
    "apic_lvt_lint1", "apic_lvt_error", "apic_initial_count",
    "apic_counter_value", "apic_divide_configuration">>

(* Mutant: decode steps through the vector words 4 bytes apart instead   *)
(* of 16.                                                                 *)
LapicDecodeStride4(rec) ==
  LET scalars[n \in 0 .. Len(ScalarOrder)] ==
        IF n = 0 THEN [s \in Slots |-> 0]
        ELSE [scalars[n - 1] EXCEPT
                ![Slot(ScalarOffset[ScalarOrder[n]])] = rec[ScalarOrder[n]]]
      vectors[i \in 0 .. NW] ==
        IF i = 0 THEN scalars[Len(ScalarOrder)]
        ELSE [vectors[i - 1] EXCEPT
                ![Slot(LOCAL_APIC_OFFSET_ISR + (i - 1) * 4)] = rec.apic_isr[i - 1],
                ![Slot(LOCAL_APIC_OFFSET_TMR + (i - 1) * 4)] = rec.apic_tmr[i - 1],
                ![Slot(LOCAL_APIC_OFFSET_IRR + (i - 1) * 4)] = rec.apic_irr[i - 1]]
  IN  [vectors[NW] EXCEPT ![Slot(LOCAL_APIC_OFFSET_PPR)] = IsrPriority(rec.apic_isr)]

(* TryFrom<Buffer> for LapicState, past its size check: start from the    *)
(* zeroed LapicState::default(), write the scalar fields one by one, then *)
(* in round i of the vector loop ISR, TMR and IRR word i, then the PPR.   *)
LapicDecode(rec) ==
  LET scalars[n \in 0 .. Len(ScalarOrder)] ==
        IF n = 0 THEN [s \in Slots |-> 0]
        ELSE [scalars[n - 1] EXCEPT
                ![Slot(ScalarOffset[ScalarOrder[n]])] = rec[ScalarOrder[n]]]
      vectors[i \in 0 .. NW] ==
        IF i = 0 THEN scalars[Len(ScalarOrder)]
        ELSE [vectors[i - 1] EXCEPT
                ![Slot(LOCAL_APIC_OFFSET_ISR + (i - 1) * 16)] = rec.apic_isr[i - 1],
                ![Slot(LOCAL_APIC_OFFSET_TMR + (i - 1) * 16)] = rec.apic_tmr[i - 1],
                ![Slot(LOCAL_APIC_OFFSET_IRR + (i - 1) * 16)] = rec.apic_irr[i - 1]]
  IN  [vectors[NW] EXCEPT ![Slot(LOCAL_APIC_OFFSET_PPR)] = IsrPriority(rec.apic_isr)]

(* Mutant: encode writes the fields it has registers for one by one and  *)
(* leaves error status and LVT CMCI as the fresh buffer had them.         *)
LapicEncodeNoZero(regs) ==
  [f \in Fields |->
     IF f \in ScalarFields THEN regs[Slot(ScalarOffset[f])]
     ELSE IF f \in ExtraFields THEN Uninit
     ELSE [i \in VecIdx |-> regs[Slot(VectorBase[f] + i * 16)]]]

(* TryFrom<&LapicState> for Buffer, the record it writes: every scalar    *)
(* field read from its register, error status and LVT CMCI zero, then the *)
(* vector words read back from base + i * 16.                             *)
LapicEncode(regs) ==
  [f \in Fields |->
     IF f \in ScalarFields THEN regs[Slot(ScalarOffset[f])]
     ELSE IF f \in ExtraFields THEN 0
     ELSE [i \in VecIdx |-> regs[Slot(VectorBase[f] + i * 16)]]]

(* Mutant: the page count rounded down instead of up. *)
EncodeBufferSizeTruncated ==
  (HvStateSize \div 2 ^ HV_HYP_PAGE_SHIFT) * HV_PAGE_SIZE

(* The Buffer encode allocates: num_pages * HV_PAGE_SIZE bytes with       *)
(* num_pages = (hv_state_size + HV_PAGE_SIZE - 1) >> HV_HYP_PAGE_SHIFT.   *)
EncodeBufferSize ==
  ((HvStateSize + HV_PAGE_SIZE - 1) \div 2 ^ HV_HYP_PAGE_SHIFT) * HV_PAGE_SIZE

-----------------------------------------------------------------------------
(* A VMM saving, editing and restoring the LAPIC state of a VP. *)

VARIABLES
  hv,       \* the hypervisor's LAPIC record of the VP
  buf,      \* the transfer Buffer the VMM holds: its size and the record in it
  regs,     \* the VMM's LapicState register file
  got,      \* the record the register file was decoded from
  edited,   \* the register slots the VMM has written since
  pc,       \* where the VMM is in the save / edit / restore cycle
  ret       \* the error the last codec call returned, or "ok"

vars == <<hv, buf, regs, got, edited, pc, ret>>

NoBuf == [size |-> 0, rec |-> Uninit]
NoRegs == [s \in Slots |-> 0]

(* The record the hypervisor starts with: distinct values in the scalar   *)
(* fields, nonzero error status and LVT CMCI, any in-service bitmap.      *)
InitRecords ==
  {[f \in Fields |->
      IF f \in ScalarFields THEN CHOOSE n \in 1 .. Len(ScalarOrder) : ScalarOrder[n] = f
      ELSE IF f = "apic_error_status" THEN 100
      ELSE IF f = "apic_lvt_cmci" THEN 101
      ELSE IF f = "apic_isr" THEN isr
      ELSE IF f = "apic_tmr" THEN [i \in VecIdx |-> (i + 1) % (2 ^ W)]
      ELSE [i \in VecIdx |-> (i + 2) % (2 ^ W)]] : isr \in [VecIdx -> Words]}

Init ==
  /\ hv \in InitRecords
  /\ buf = NoBuf
  /\ regs = NoRegs
  /\ got = hv
  /\ edited = {}
  /\ pc = "idle"
  /\ ret = "ok"

(* The VMM allocates a Buffer for get VP state. *)
StartGet(size) ==
  /\ pc = "idle"
  /\ buf' = [size |-> size, rec |-> Uninit]
  /\ pc' = "hvget"
  /\ UNCHANGED <<hv, regs, got, edited, ret>>

(* Get VP state: the hypervisor writes its record to the buffer, or fails *)
(* when the buffer cannot hold it.  Either way the VMM goes on to decode. *)
HvGetLapic ==
  /\ pc = "hvget"
  /\ IF buf.size >= HvStateSize
       THEN buf' = [buf EXCEPT !.rec = hv]
       ELSE UNCHANGED buf
  /\ pc' = "decode"
  /\ UNCHANGED <<hv, regs, got, edited, ret>>

(* LapicState::try_from(buf): EINVAL for a buffer smaller than the record, *)
(* otherwise the decoded register file.  The Buffer is consumed.          *)
Decode ==
  /\ pc = "decode"
  /\ \/ /\ buf.size < HvStateSize
        /\ ret' = "einval"
        /\ pc' = "idle"
        /\ UNCHANGED <<regs, got, edited>>
     \/ /\ buf.size >= HvStateSize
        /\ regs' = LapicDecode(buf.rec)
        /\ got' = buf.rec
        /\ edited' = {}
        /\ ret' = "ok"
        /\ pc' = "edit"
  /\ buf' = NoBuf
  /\ UNCHANGED hv

(* The VMM writes one register of the file. *)
VmmWrite(s, v) ==
  /\ pc = "edit"
  /\ Cardinality(edited) < MaxEdits
  /\ regs' = [regs EXCEPT ![s] = v]
  /\ edited' = edited \cup {s}
  /\ UNCHANGED <<hv, buf, got, pc, ret>>

(* Buffer::try_from(&regs): ENOMEM when the allocation fails, otherwise a *)
(* fresh Buffer holding the encoded record.                               *)
Encode ==
  /\ pc = "edit"
  /\ \/ /\ ret' = "enomem"
        /\ UNCHANGED <<buf, pc>>
     \/ /\ buf' = [size |-> EncodeBufferSize, rec |-> LapicEncode(regs)]
        /\ ret' = "ok"
        /\ pc' = "hvset"
  /\ UNCHANGED <<hv, regs, got, edited>>

(* Set VP state: the hypervisor takes the record from the buffer, which  *)
(* the VMM then drops.                                                    *)
HvSetLapic ==
  /\ pc = "hvset"
  /\ hv' = buf.rec
  /\ buf' = NoBuf
  /\ pc' = "idle"
  /\ UNCHANGED <<regs, got, edited, ret>>

Next ==
  \/ \E size \in GetSizes : StartGet(size)
  \/ HvGetLapic
  \/ Decode
  \/ \E s \in EditSlots, v \in Values : VmmWrite(s, v)
  \/ Encode
  \/ HvSetLapic

Spec == Init /\ [][Next]_vars

-----------------------------------------------------------------------------
(* Properties. *)

TypeOK ==
  /\ IsRecord(hv)
  /\ DOMAIN buf = {"size", "rec"}
  /\ buf.size \in Nat
  /\ buf.rec = Uninit \/ IsRecord(buf.rec)
  /\ regs \in [Slots -> U32]
  /\ IsRecord(got)
  /\ edited \subseteq EditSlots
  /\ pc \in {"idle", "hvget", "decode", "edit", "hvset"}
  /\ ret \in {"ok", "einval", "enomem"}

(* Until the VMM writes it, the PPR of a decoded register file is the      *)
(* highest vector in service in the ISR the hypervisor handed over, or 0  *)
(* when none is (spec 4.3; the TPR term is the documented gap): the        *)
(* descending scan, the leading-zero count and the i * 32 word offset of  *)
(* decode together compute it for every in-service bitmap.               *)
PprIsHighestInService ==
  pc = "edit" /\ Slot(LOCAL_APIC_OFFSET_PPR) \notin edited =>
    regs[Slot(LOCAL_APIC_OFFSET_PPR)] = HighestInService(got.apic_isr)

(* The register of field f of the record, and of word i of a vector. *)
FieldSlot(f) == Slot(ScalarOffset[f])
VectorSlot(f, i) == Slot(VectorBase[f] + i * 16)

(* What a set after a get, decode, register writes and encode hands the    *)
(* hypervisor: every field whose register the VMM did not write is the     *)
(* value it got, every written register arrives, and the fields the file   *)
(* has no register for are zero (spec 4.3 and 8, LAPIC idempotence).       *)
RoundTrip ==
  pc = "hvset" =>
    /\ \A f \in ScalarFields :
          buf.rec[f] = IF FieldSlot(f) \in edited THEN regs[FieldSlot(f)] ELSE got[f]
    /\ \A f \in VectorFields : \A i \in VecIdx :
          buf.rec[f][i] = IF VectorSlot(f, i) \in edited THEN regs[VectorSlot(f, i)]
                          ELSE got[f][i]
    /\ \A f \in ExtraFields : buf.rec[f] = 0

(* The Buffer encode allocates holds the whole record it writes there,    *)
(* so the write of *hv_state never runs past the allocation.              *)
EncodeFits == pc = "hvset" => buf.size >= HvStateSize


(* The strengthening of EncodeFits that every step keeps: the Buffer is a *)
(* size and a record, and between encode and set it is the Buffer encode  *)
(* allocated, of the page-rounded size.                                    *)
EncodePhase ==
  /\ DOMAIN buf = {"size", "rec"}
  /\ buf.size \in Nat
  /\ pc = "hvset" => buf.size = EncodeBufferSize

=============================================================================
