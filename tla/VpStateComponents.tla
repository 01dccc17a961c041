--------------------------- MODULE VpStateComponents ---------------------------
(***************************************************************************)
(* The VP-state component directory of regs.rs (AllVpStateComponents):    *)
(* one contiguous buffer that holds, in order, the LAPIC, XSAVE,           *)
(* synthetic message page (SIMP), synthetic event flags page (SIEFP) and   *)
(* synthetic timer components of one virtual processor, and the one        *)
(* operation on it, copy_to_or_from_buffer, which moves a single          *)
(* component between the directory and a raw transfer Buffer.             *)
(*                                                                         *)
(* The directory is driven the way the VMM drives it: to save component   *)
(* i it allocates a page-aligned Buffer, has the hypervisor fill it        *)
(* (get VP state) and copies it in; to restore component i it allocates a  *)
(* Buffer, copies the component out into it and hands it to the           *)
(* hypervisor (set VP state).  The hypervisor is the environment: it holds *)
(* the VP's components in hv and is modelled from the interface the spec   *)
(* describes.  The VP does not run while its state is saved or restored,  *)
(* so hv changes only through set VP state.                               *)
(*                                                                         *)
(* Sizes are constants so that TLC can use a scaled-down page; each byte *)
(* the hypervisor first holds carries its own value Tag(i, k), so any     *)
(* byte that lands at the wrong place is visible.                          *)
(***************************************************************************)
EXTENDS Naturals, Buffer

CONSTANTS
  HV_PAGE_SIZE,         \* the hypervisor page size (4096)
  LapicStateSize,       \* size_of::<LapicState>() (1024)
  XSaveSize,            \* size_of::<XSave>() (4096)
  SyntheticTimersSize,  \* size_of::<hv_synthetic_timers_state>() (200)
  AllocSizes            \* sizes a VMM may ask Buffer::new for

ASSUME SizesAssumption ==
  /\ HV_PAGE_SIZE \in Nat \ {0}
  /\ LapicStateSize \in Nat \ {0}
  /\ XSaveSize \in Nat \ {0}
  /\ SyntheticTimersSize \in Nat \ {0}
  /\ AllocSizes \subseteq Nat \ {0}
  /\ AllocSizes # {}

(* The component indices of the kernel interface (the MSHV_VP_STATE_ constants). *)
MSHV_VP_STATE_LAPIC == 0
MSHV_VP_STATE_XSAVE == 1
MSHV_VP_STATE_SIMP == 2
MSHV_VP_STATE_SIEFP == 3
MSHV_VP_STATE_SYNTHETIC_TIMERS == 4
MSHV_VP_STATE_COUNT == 5

Comp == 0 .. (MSHV_VP_STATE_COUNT - 1)

(* initialize_comp_sizes: the size of each component. *)
VP_STATE_COMP_SIZES ==
  [i \in Comp |->
     CASE i = MSHV_VP_STATE_LAPIC -> LapicStateSize
       [] i = MSHV_VP_STATE_XSAVE -> XSaveSize
       [] i = MSHV_VP_STATE_SIMP -> HV_PAGE_SIZE
       [] i = MSHV_VP_STATE_SIEFP -> HV_PAGE_SIZE
       [] i = MSHV_VP_STATE_SYNTHETIC_TIMERS -> SyntheticTimersSize]

(* The size of the whole directory: the sum of the five sizes. *)
VP_STATE_COMPONENTS_BUFFER_SIZE ==
  VP_STATE_COMP_SIZES[0] + VP_STATE_COMP_SIZES[1] + VP_STATE_COMP_SIZES[2]
    + VP_STATE_COMP_SIZES[3] + VP_STATE_COMP_SIZES[4]

(* get_vp_state_comp_start_offset: the sum of the sizes of the components *)
(* with a smaller index.                                                  *)
StartOffset(index) ==
  LET Part(j) == IF j < index THEN VP_STATE_COMP_SIZES[j] ELSE 0
  IN  Part(0) + Part(1) + Part(2) + Part(3) + Part(4)

(* The abstract bytes: zero, an uninitialised byte, or the positive     *)
(* number Tag(i, k) naming byte k of component i (one number per pair).   *)
Tag(i, k) == k * MSHV_VP_STATE_COUNT + i + 1
Tags == UNION {{Tag(i, k) : k \in Offsets(VP_STATE_COMP_SIZES[i])} : i \in Comp}
Byte == {0, Uninit} \cup Tags

(* Component i as the hypervisor holds it before anyone restores it. *)
Orig(i) == [k \in Offsets(VP_STATE_COMP_SIZES[i]) |-> Tag(i, k)]
(* Component i as a zeroed directory holds it. *)
Zeros(i) == [k \in Offsets(VP_STATE_COMP_SIZES[i]) |-> 0]

VARIABLES
  states,    \* AllVpStateComponents.buffer
  buf,       \* the transfer Buffer the VMM currently owns
  hv,        \* the hypervisor's copy of each component of the VP
  vmm,       \* where the VMM is in a save or restore of component vmm.comp
  panicked   \* the process has panicked

vars == <<states, buf, hv, vmm, panicked>>

(* Component i of the directory. *)
Component(i) == [k \in Offsets(VP_STATE_COMP_SIZES[i]) |-> states[StartOffset(i) + k]]

(* Byte k of buffer b; past the end of the allocation it is memory the    *)
(* buffer does not own, whose content is unknown.                         *)
ReadBuf(b, k) == IF k < b.size THEN b.data[k] ELSE Uninit

(* Mutant: the copy into the directory runs one byte past the component *)
(* (p <= start + len), an off-by-one of the copy length.                 *)
CopyIntoOverrun(index, to_buffer) ==
  LET len   == VP_STATE_COMP_SIZES[index]
      start == StartOffset(index)
  IN  \/ /\ len > BufferSize(buf)
         /\ panicked' = TRUE
         /\ UNCHANGED <<states, buf>>
      \/ /\ ~(len > BufferSize(buf))
         /\ panicked' = FALSE
         /\ IF to_buffer
              THEN /\ buf' = [buf EXCEPT !.data =
                               [k \in Offsets(buf.size) |->
                                  IF k < len THEN states[start + k] ELSE buf.data[k]]]
                   /\ UNCHANGED states
              ELSE /\ states' = [p \in Offsets(VP_STATE_COMPONENTS_BUFFER_SIZE) |->
                                  IF start <= p /\ p <= start + len
                                    THEN ReadBuf(buf, p - start) ELSE states[p]]
                   /\ UNCHANGED buf

(* Mutant: the copy out of the directory reads from the start of the     *)
(* directory instead of the component's start offset.                   *)
CopyOutFromZero(index, to_buffer) ==
  LET len   == VP_STATE_COMP_SIZES[index]
      start == StartOffset(index)
  IN  \/ /\ len > BufferSize(buf)
         /\ panicked' = TRUE
         /\ UNCHANGED <<states, buf>>
      \/ /\ ~(len > BufferSize(buf))
         /\ panicked' = FALSE
         /\ IF to_buffer
              THEN /\ buf' = [buf EXCEPT !.data =
                               [k \in Offsets(buf.size) |->
                                  IF k < len THEN states[k] ELSE buf.data[k]]]
                   /\ UNCHANGED states
              ELSE /\ states' = [p \in Offsets(VP_STATE_COMPONENTS_BUFFER_SIZE) |->
                                  IF start <= p /\ p < start + len
                                    THEN ReadBuf(buf, p - start) ELSE states[p]]
                   /\ UNCHANGED buf

(* Mutant: the copy into the directory starts one byte late (start < p), *)
(* so the first byte of the component keeps its old value.              *)
CopyIntoSkipsFirst(index, to_buffer) ==
  LET len   == VP_STATE_COMP_SIZES[index]
      start == StartOffset(index)
  IN  \/ /\ len > BufferSize(buf)
         /\ panicked' = TRUE
         /\ UNCHANGED <<states, buf>>
      \/ /\ ~(len > BufferSize(buf))
         /\ panicked' = FALSE
         /\ IF to_buffer
              THEN /\ buf' = [buf EXCEPT !.data =
                               [k \in Offsets(buf.size) |->
                                  IF k < len THEN states[start + k] ELSE buf.data[k]]]
                   /\ UNCHANGED states
              ELSE /\ states' = [p \in Offsets(VP_STATE_COMPONENTS_BUFFER_SIZE) |->
                                  IF start < p /\ p < start + len
                                    THEN ReadBuf(buf, p - start) ELSE states[p]]
                   /\ UNCHANGED buf

(* copy_to_or_from_buffer(index, buffer, to_buffer): panic when the       *)
(* component is longer than the buffer, otherwise copy the len bytes at   *)
(* [start, start + len) of the directory to the start of the buffer, or   *)
(* the first len bytes of the buffer into [start, start + len).           *)
copy_to_or_from_buffer(index, to_buffer) ==
  LET len   == VP_STATE_COMP_SIZES[index]
      start == StartOffset(index)
  IN  \/ /\ len > BufferSize(buf)
         /\ panicked' = TRUE
         /\ UNCHANGED <<states, buf>>
      \/ /\ ~(len > BufferSize(buf))
         /\ panicked' = FALSE
         /\ IF to_buffer
              THEN /\ buf' = [buf EXCEPT !.data =
                               [k \in Offsets(buf.size) |->
                                  IF k < len THEN states[start + k] ELSE buf.data[k]]]
                   /\ UNCHANGED states
              ELSE /\ states' = [p \in Offsets(VP_STATE_COMPONENTS_BUFFER_SIZE) |->
                                  IF start <= p /\ p < start + len
                                    THEN ReadBuf(buf, p - start) ELSE states[p]]
                   /\ UNCHANGED buf

-----------------------------------------------------------------------------
(* The VMM's and the hypervisor's steps. *)

Init ==
  /\ states = [p \in Offsets(VP_STATE_COMPONENTS_BUFFER_SIZE) |-> 0]
  /\ buf = NoBuffer
  /\ hv = [i \in Comp |-> Orig(i)]
  /\ vmm = [pc |-> "idle", comp |-> MSHV_VP_STATE_LAPIC]
  /\ panicked = FALSE

(* The VMM starts a save (get) or restore (set) of component i: it         *)
(* allocates a transfer Buffer with Buffer::new(size, HV_PAGE_SIZE).        *)
StartTransfer(i, next) ==
  /\ ~panicked
  /\ vmm.pc = "idle"
  /\ \E size \in AllocSizes : buf' = BufferNew(size, HV_PAGE_SIZE)
  /\ vmm' = [pc |-> next, comp |-> i]
  /\ UNCHANGED <<states, hv, panicked>>

StartGet(i) == StartTransfer(i, "hvget")
StartSet(i) == StartTransfer(i, "copyto")

(* Get VP state: the hypervisor writes the component to the start of the   *)
(* buffer, or fails when the buffer is too small for it.                   *)
HvGetVpState ==
  /\ ~panicked
  /\ vmm.pc = "hvget"
  /\ LET i == vmm.comp
         len == VP_STATE_COMP_SIZES[i]
     IN  IF len <= BufferSize(buf)
           THEN /\ buf' = [buf EXCEPT !.data =
                            [k \in Offsets(buf.size) |->
                               IF k < len THEN hv[i][k] ELSE buf.data[k]]]
                /\ vmm' = [vmm EXCEPT !.pc = "copyfrom"]
           ELSE /\ vmm' = [vmm EXCEPT !.pc = "drop"]
                /\ UNCHANGED buf
  /\ UNCHANGED <<states, hv, panicked>>

(* The VMM copies the filled buffer into the directory. *)
CopyFromBuffer ==
  /\ ~panicked
  /\ vmm.pc = "copyfrom"
  /\ copy_to_or_from_buffer(vmm.comp, FALSE)
  /\ vmm' = IF panicked' THEN vmm ELSE [vmm EXCEPT !.pc = "drop"]
  /\ UNCHANGED hv

(* The VMM copies a directory component out into the buffer. *)
CopyToBuffer ==
  /\ ~panicked
  /\ vmm.pc = "copyto"
  /\ copy_to_or_from_buffer(vmm.comp, TRUE)
  /\ vmm' = IF panicked' THEN vmm ELSE [vmm EXCEPT !.pc = "hvset"]
  /\ UNCHANGED hv

(* Mutant: set VP state takes the whole buffer (buffer.size() bytes) as  *)
(* the component instead of the component's size.                        *)
HvSetWholeBuffer ==
  /\ ~panicked
  /\ vmm.pc = "hvset"
  /\ LET i == vmm.comp
         len == VP_STATE_COMP_SIZES[i]
     IN  /\ len <= BufferSize(buf)
         /\ hv' = [hv EXCEPT ![i] = [k \in Offsets(buf.size) |-> buf.data[k]]]
  /\ vmm' = [vmm EXCEPT !.pc = "drop"]
  /\ UNCHANGED <<states, buf, panicked>>

(* Set VP state: the hypervisor takes the component from the start of the *)
(* buffer, or fails when the buffer is too small for it.                   *)
HvSetVpState ==
  /\ ~panicked
  /\ vmm.pc = "hvset"
  /\ LET i == vmm.comp
         len == VP_STATE_COMP_SIZES[i]
     IN  /\ len <= BufferSize(buf)
         /\ hv' = [hv EXCEPT ![i] = [k \in Offsets(len) |-> buf.data[k]]]
  /\ vmm' = [vmm EXCEPT !.pc = "drop"]
  /\ UNCHANGED <<states, buf, panicked>>

(* The transfer returns and its Buffer is dropped (Drop::drop -> dealloc). *)
DropBuffer ==
  /\ ~panicked
  /\ vmm.pc = "drop"
  /\ buf' = NoBuffer
  /\ vmm' = [vmm EXCEPT !.pc = "idle"]
  /\ UNCHANGED <<states, hv, panicked>>

Next ==
  \/ \E i \in Comp : StartGet(i) \/ StartSet(i)
  \/ HvGetVpState
  \/ CopyFromBuffer
  \/ CopyToBuffer
  \/ HvSetVpState
  \/ DropBuffer

Spec == Init /\ [][Next]_vars

-----------------------------------------------------------------------------
(* Properties. *)

TypeOK ==
  /\ states \in [Offsets(VP_STATE_COMPONENTS_BUFFER_SIZE) -> Byte]
  /\ IsBuffer(buf, Byte)
  /\ hv \in [Comp -> UNION {[Offsets(VP_STATE_COMP_SIZES[i]) -> Byte] : i \in Comp}]
  /\ \A i \in Comp : hv[i] \in [Offsets(VP_STATE_COMP_SIZES[i]) -> Byte]
  /\ vmm \in [pc : {"idle", "hvget", "copyfrom", "copyto", "hvset", "drop"}, comp : Comp]
  /\ panicked \in BOOLEAN

(* Every component of the directory is either still the zeroed default or *)
(* an exact, complete copy of that component as the hypervisor holds it:   *)
(* copy_to_or_from_buffer never places a byte at another component's       *)
(* offset, never copies part of a component, and never copies bytes the    *)
(* hypervisor did not write.                                                *)
DirFaithful == \A i \in Comp : Component(i) \in {Orig(i), Zeros(i)}

(* What set VP state hands to the hypervisor for component i is the        *)
(* component the directory holds for i, so the hypervisor never receives    *)
(* another component's bytes or uninitialised buffer bytes: each of its    *)
(* components is the original one or (restored before it was ever saved)  *)
(* the zeroed default.                                                     *)
HvFaithful == \A i \in Comp : hv[i] \in {Orig(i), Zeros(i)}

(* The directory seen one whole component at a time. *)
DirView == [i \in Comp |-> Component(i)]

Transfer == INSTANCE VpStateTransfer
              WITH dir <- DirView,
                   DirInit <- [i \in Comp |-> Zeros(i)],
                   HvInit <- [i \in Comp |-> Orig(i)]

(* Every step of the VMM and the hypervisor, copy_to_or_from_buffer's     *)
(* panic included, either leaves every component of the directory and of  *)
(* the hypervisor as it was, or moves one component whole from one side   *)
(* to the other: a save's copy into the directory delivers exactly what   *)
(* the hypervisor holds now, and a restore's set delivers exactly what the *)
(* directory holds now, never a mixture or an earlier value.              *)
TransferRefined == Transfer!Spec

-----------------------------------------------------------------------------
(* The inductive strengthening of DirFaithful and HvFaithful: what the     *)
(* transfer Buffer holds at each point of a save or restore.  While a      *)
(* transfer is under way the VMM owns a live Buffer of an allocatable size;*)
(* once the hypervisor has filled it for a save, its first len bytes are   *)
(* the hypervisor's component; once the directory has been copied into it  *)
(* for a restore, they are the directory's component.                      *)
BufferPhase ==
  LET i == vmm.comp
      len == VP_STATE_COMP_SIZES[i]
  IN  /\ vmm.pc = "idle" => buf = NoBuffer
      /\ vmm.pc # "idle" => buf.live /\ buf.size \in AllocSizes
      /\ vmm.pc \in {"copyfrom", "hvset"} => len <= buf.size
      /\ vmm.pc = "copyfrom" => \A k \in Offsets(len) : buf.data[k] = hv[i][k]
      /\ vmm.pc = "hvset" => \A k \in Offsets(len) : buf.data[k] = Component(i)[k]

IInv == TypeOK /\ DirFaithful /\ HvFaithful /\ BufferPhase

=============================================================================
