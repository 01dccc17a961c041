----------------------- MODULE VpStateComponents_proofs -----------------------
(***************************************************************************)
(* Proofs about the VP-state component directory, for every choice of the *)
(* page size and the component sizes that SizesAssumption allows.        *)
(*                                                                         *)
(* The argument: the five components occupy consecutive, disjoint ranges  *)
(* [StartOffset(i), StartOffset(i) + size(i)) of the directory, all inside *)
(* it (lemmas Layout and Disjoint).  A copy of component i into the       *)
(* directory therefore leaves every other component as it was, and the    *)
(* guard len > buffer.size() makes it read only bytes of the buffer's own  *)
(* allocation.  BufferPhase says what those bytes are: the hypervisor's   *)
(* component on a save, the directory's on a restore.                    *)
(***************************************************************************)
EXTENDS VpStateComponents, TLAPS

USE SizesAssumption

(* The sizes and start offsets of the five components, in closed form. *)
LEMMA SizesFacts ==
  /\ VP_STATE_COMP_SIZES \in [Comp -> Nat \ {0}]
  /\ VP_STATE_COMP_SIZES[0] = LapicStateSize
  /\ VP_STATE_COMP_SIZES[1] = XSaveSize
  /\ VP_STATE_COMP_SIZES[2] = HV_PAGE_SIZE
  /\ VP_STATE_COMP_SIZES[3] = HV_PAGE_SIZE
  /\ VP_STATE_COMP_SIZES[4] = SyntheticTimersSize
  /\ StartOffset(0) = 0
  /\ StartOffset(1) = LapicStateSize
  /\ StartOffset(2) = LapicStateSize + XSaveSize
  /\ StartOffset(3) = LapicStateSize + XSaveSize + HV_PAGE_SIZE
  /\ StartOffset(4) = LapicStateSize + XSaveSize + HV_PAGE_SIZE + HV_PAGE_SIZE
  /\ VP_STATE_COMPONENTS_BUFFER_SIZE =
       LapicStateSize + XSaveSize + HV_PAGE_SIZE + HV_PAGE_SIZE + SyntheticTimersSize
<1>1. VP_STATE_COMP_SIZES \in [Comp -> Nat \ {0}]
  BY DEF VP_STATE_COMP_SIZES, Comp, MSHV_VP_STATE_COUNT, MSHV_VP_STATE_LAPIC,
         MSHV_VP_STATE_XSAVE, MSHV_VP_STATE_SIMP, MSHV_VP_STATE_SIEFP,
         MSHV_VP_STATE_SYNTHETIC_TIMERS
<1>2. /\ VP_STATE_COMP_SIZES[0] = LapicStateSize
      /\ VP_STATE_COMP_SIZES[1] = XSaveSize
      /\ VP_STATE_COMP_SIZES[2] = HV_PAGE_SIZE
      /\ VP_STATE_COMP_SIZES[3] = HV_PAGE_SIZE
      /\ VP_STATE_COMP_SIZES[4] = SyntheticTimersSize
  BY DEF VP_STATE_COMP_SIZES, Comp, MSHV_VP_STATE_COUNT, MSHV_VP_STATE_LAPIC,
         MSHV_VP_STATE_XSAVE, MSHV_VP_STATE_SIMP, MSHV_VP_STATE_SIEFP,
         MSHV_VP_STATE_SYNTHETIC_TIMERS
<1>3. QED
  BY <1>1, <1>2 DEF StartOffset, VP_STATE_COMPONENTS_BUFFER_SIZE

(* Every byte of every component lies inside the directory. *)
LEMMA Layout ==
  \A i \in Comp : \A k \in Offsets(VP_STATE_COMP_SIZES[i]) :
     StartOffset(i) + k \in Offsets(VP_STATE_COMPONENTS_BUFFER_SIZE)
BY SizesFacts DEF Comp, MSHV_VP_STATE_COUNT, Offsets

(* Every start offset is a natural number. *)
LEMMA StartOffsetNat ==
  \A i \in Comp : StartOffset(i) \in Nat
BY SizesFacts DEF Comp, MSHV_VP_STATE_COUNT

(* No byte of component j lies in the range of another component i. *)
LEMMA Disjoint ==
  \A i, j \in Comp : \A k \in Offsets(VP_STATE_COMP_SIZES[j]) :
     i # j => ~(StartOffset(i) <= StartOffset(j) + k
                /\ StartOffset(j) + k < StartOffset(i) + VP_STATE_COMP_SIZES[i])
BY SizesFacts DEF Comp, MSHV_VP_STATE_COUNT, Offsets

(* The original and the zeroed form of a component are byte strings of    *)
(* the component's size.                                                   *)
LEMMA ComponentValuesType ==
  \A i \in Comp :
     /\ Orig(i) \in [Offsets(VP_STATE_COMP_SIZES[i]) -> Byte]
     /\ Zeros(i) \in [Offsets(VP_STATE_COMP_SIZES[i]) -> Byte]
<1> SUFFICES ASSUME NEW i \in Comp
             PROVE  /\ Orig(i) \in [Offsets(VP_STATE_COMP_SIZES[i]) -> Byte]
                    /\ Zeros(i) \in [Offsets(VP_STATE_COMP_SIZES[i]) -> Byte]
  OBVIOUS
<1>1. \A k \in Offsets(VP_STATE_COMP_SIZES[i]) : Tag(i, k) \in Tags
  BY DEF Tags
<1>2. QED
  BY <1>1 DEF Orig, Zeros, Byte

(* A buffer fresh from Buffer::new is a buffer of uninitialised bytes. *)
LEMMA BufferNewType ==
  \A size \in AllocSizes : IsBuffer(BufferNew(size, HV_PAGE_SIZE), Byte)
BY DEF IsBuffer, BufferNew, Byte

(* The initial state satisfies the inductive invariant: the directory is  *)
(* zeroed, the hypervisor holds the original components, no transfer is    *)
(* under way.                                                               *)
LEMMA InitIInv == Init => IInv
<1> SUFFICES ASSUME Init PROVE IInv
  OBVIOUS
<1>1. TypeOK
  <2>1. states \in [Offsets(VP_STATE_COMPONENTS_BUFFER_SIZE) -> Byte]
    BY DEF Init, Byte
  <2>2. IsBuffer(buf, Byte)
    BY DEF Init, IsBuffer
  <2>3. \A i \in Comp : hv[i] \in [Offsets(VP_STATE_COMP_SIZES[i]) -> Byte]
    BY ComponentValuesType DEF Init
  <2>4. hv \in [Comp -> UNION {[Offsets(VP_STATE_COMP_SIZES[i]) -> Byte] : i \in Comp}]
    BY <2>3 DEF Init
  <2>5. vmm \in [pc : {"idle", "hvget", "copyfrom", "copyto", "hvset", "drop"}, comp : Comp]
    BY DEF Init, Comp, MSHV_VP_STATE_LAPIC, MSHV_VP_STATE_COUNT
  <2>6. QED
    BY <2>1, <2>2, <2>3, <2>4, <2>5 DEF TypeOK, Init
<1>2. DirFaithful
  <2> SUFFICES ASSUME NEW i \in Comp PROVE Component(i) = Zeros(i)
    BY DEF DirFaithful
  <2>1. \A k \in Offsets(VP_STATE_COMP_SIZES[i]) :
           StartOffset(i) + k \in Offsets(VP_STATE_COMPONENTS_BUFFER_SIZE)
    BY Layout
  <2>2. QED
    BY <2>1 DEF Init, Component, Zeros
<1>3. HvFaithful
  BY DEF Init, HvFaithful
<1>4. BufferPhase
  BY DEF Init, BufferPhase
<1>5. QED
  BY <1>1, <1>2, <1>3, <1>4 DEF IInv

(* A step that changes neither the directory nor the hypervisor's state   *)
(* keeps DirFaithful and HvFaithful.                                        *)
LEMMA FaithfulFrame ==
  ASSUME DirFaithful, HvFaithful, states' = states, hv' = hv
  PROVE  DirFaithful' /\ HvFaithful'
BY DEF DirFaithful, HvFaithful, Component

(* Starting a transfer allocates a live buffer and touches nothing else. *)
LEMMA StartTransferStep ==
  ASSUME IInv, NEW i \in Comp, NEW next \in {"hvget", "copyto"},
         StartTransfer(i, next)
  PROVE  IInv'
<1> USE DEF StartTransfer
<1>1. PICK size \in AllocSizes : buf' = BufferNew(size, HV_PAGE_SIZE)
  OBVIOUS
<1>2. TypeOK'
  BY <1>1, BufferNewType DEF IInv, TypeOK
<1>3. DirFaithful' /\ HvFaithful'
  BY FaithfulFrame DEF IInv
<1>4. BufferPhase'
  BY <1>1 DEF BufferPhase, BufferNew
<1>5. QED
  BY <1>2, <1>3, <1>4 DEF IInv

(* While a transfer is under way the buffer is a live record of bytes. *)
LEMMA LiveBuffer ==
  ASSUME IInv, vmm.pc # "idle"
  PROVE  /\ buf = [live |-> TRUE, size |-> buf.size, align |-> buf.align, data |-> buf.data]
         /\ buf.size \in Nat \ {0}
         /\ buf.align \in Nat \ {0}
         /\ buf.data \in [Offsets(buf.size) -> Byte]
<1>1. buf.live /\ buf # NoBuffer
  BY DEF IInv, BufferPhase, NoBuffer
<1>2. QED
  BY <1>1 DEF IInv, TypeOK, IsBuffer

(* The hypervisor fills the buffer with its component, or refuses a       *)
(* buffer that is too small.                                                *)
LEMMA HvGetStep ==
  ASSUME IInv, HvGetVpState
  PROVE  IInv'
<1> DEFINE i == vmm.comp
<1> DEFINE clen == VP_STATE_COMP_SIZES[i]
<1>1. /\ vmm.pc = "hvget"
      /\ i \in Comp
      /\ clen \in Nat \ {0}
      /\ hv[i] \in [Offsets(clen) -> Byte]
  BY SizesFacts DEF HvGetVpState, IInv, TypeOK
<1>2. /\ buf = [live |-> TRUE, size |-> buf.size, align |-> buf.align, data |-> buf.data]
      /\ buf.size \in Nat \ {0}
      /\ buf.align \in Nat \ {0}
      /\ buf.data \in [Offsets(buf.size) -> Byte]
  BY <1>1, LiveBuffer
<1>3. DirFaithful' /\ HvFaithful'
  BY FaithfulFrame DEF IInv, HvGetVpState
<1>4. CASE clen <= BufferSize(buf)
  <2>1. /\ buf' = [buf EXCEPT !.data = [k \in Offsets(buf.size) |->
                                          IF k < clen THEN hv[i][k] ELSE buf.data[k]]]
        /\ vmm' = [vmm EXCEPT !.pc = "copyfrom"]
        /\ UNCHANGED <<states, hv, panicked>>
    BY <1>4 DEF HvGetVpState
  <2>2. TypeOK'
    <3> DEFINE data == [k \in Offsets(buf.size) |->
                          IF k < clen THEN hv[i][k] ELSE buf.data[k]]
    <3>1. buf' = [[live |-> TRUE, size |-> buf.size, align |-> buf.align,
                   data |-> buf.data] EXCEPT !.data = data]
      BY <1>2, <2>1, Zenon DEF data
    <3>2. buf' = [live |-> TRUE, size |-> buf.size, align |-> buf.align, data |-> data]
      BY <3>1
    <3>3. data \in [Offsets(buf.size) -> Byte]
      BY <1>1, <1>2 DEF Offsets, data
    <3>4. IsBuffer(buf', Byte)
      BY <1>2, <3>2, <3>3 DEF IsBuffer
    <3>5. QED
      BY <3>4, <2>1, <1>1 DEF IInv, TypeOK
  <2>3. BufferPhase'
    BY <1>1, <1>2, <1>4, <2>1 DEF BufferPhase, BufferSize, Offsets, IInv
  <2>4. QED
    BY <1>3, <2>2, <2>3 DEF IInv
<1>5. CASE ~(clen <= BufferSize(buf))
  <2>1. /\ vmm' = [vmm EXCEPT !.pc = "drop"]
        /\ UNCHANGED <<buf, states, hv, panicked>>
    BY <1>5 DEF HvGetVpState
  <2>2. TypeOK'
    BY <1>1, <2>1 DEF IInv, TypeOK
  <2>3. BufferPhase'
    BY <1>1, <2>1 DEF BufferPhase, IInv
  <2>4. QED
    BY <1>3, <2>2, <2>3 DEF IInv
<1>6. QED
  BY <1>4, <1>5

(* Set VP state hands the hypervisor exactly the directory's component.   *)
LEMMA HvSetStep ==
  ASSUME IInv, HvSetVpState
  PROVE  IInv'
<1> DEFINE i == vmm.comp
<1> DEFINE clen == VP_STATE_COMP_SIZES[i]
<1>1. /\ vmm.pc = "hvset"
      /\ i \in Comp
      /\ clen \in Nat \ {0}
      /\ clen <= buf.size
      /\ \A k \in Offsets(clen) : buf.data[k] = Component(i)[k]
  BY SizesFacts DEF HvSetVpState, IInv, TypeOK, BufferPhase
<1>2. /\ hv' = [hv EXCEPT ![i] = [k \in Offsets(clen) |-> buf.data[k]]]
      /\ vmm' = [vmm EXCEPT !.pc = "drop"]
      /\ UNCHANGED <<states, buf, panicked>>
  BY DEF HvSetVpState
<1>3. [k \in Offsets(clen) |-> buf.data[k]] = Component(i)
  BY <1>1 DEF Component
<1>4. Component(i) \in {Orig(i), Zeros(i)}
  BY <1>1 DEF IInv, DirFaithful
<1>5. Component(i) \in [Offsets(clen) -> Byte]
  BY <1>1, <1>4, ComponentValuesType
<1>6. hv'[i] = Component(i) /\ \A j \in Comp \ {i} : hv'[j] = hv[j]
  BY <1>1, <1>2, <1>3 DEF IInv, TypeOK
<1>7. TypeOK'
  <2>1. \A j \in Comp : hv'[j] \in [Offsets(VP_STATE_COMP_SIZES[j]) -> Byte]
    BY <1>5, <1>6 DEF IInv, TypeOK
  <2>2. hv' \in [Comp -> UNION {[Offsets(VP_STATE_COMP_SIZES[j]) -> Byte] : j \in Comp}]
    BY <1>2, <2>1 DEF IInv, TypeOK
  <2>3. QED
    BY <1>1, <1>2, <2>1, <2>2 DEF IInv, TypeOK
<1>8. DirFaithful'
  BY <1>2 DEF IInv, DirFaithful, Component
<1>9. HvFaithful'
  BY <1>4, <1>6 DEF IInv, HvFaithful
<1>10. BufferPhase'
  BY <1>1, <1>2 DEF IInv, BufferPhase
<1>11. QED
  BY <1>7, <1>8, <1>9, <1>10 DEF IInv

(* Dropping the buffer ends the transfer and touches nothing else. *)
LEMMA DropStep ==
  ASSUME IInv, DropBuffer
  PROVE  IInv'
<1>1. /\ buf' = NoBuffer
      /\ vmm' = [vmm EXCEPT !.pc = "idle"]
      /\ UNCHANGED <<states, hv, panicked>>
      /\ vmm.comp \in Comp
  BY DEF DropBuffer, IInv, TypeOK
<1>2. TypeOK'
  BY <1>1 DEF IInv, TypeOK, IsBuffer
<1>3. DirFaithful' /\ HvFaithful'
  BY <1>1, FaithfulFrame DEF IInv
<1>4. BufferPhase'
  BY <1>1 DEF BufferPhase
<1>5. QED
  BY <1>2, <1>3, <1>4 DEF IInv

(* Copying a directory component out into the buffer either panics, which *)
(* ends the process with the state as it was, or puts the component at the *)
(* start of the buffer.                                                     *)
LEMMA CopyToStep ==
  ASSUME IInv, CopyToBuffer
  PROVE  IInv'
<1> DEFINE i == vmm.comp
<1> DEFINE clen == VP_STATE_COMP_SIZES[i]
<1> DEFINE start == StartOffset(i)
<1>1. /\ vmm.pc = "copyto"
      /\ i \in Comp
      /\ clen \in Nat \ {0}
      /\ UNCHANGED hv
  BY SizesFacts DEF CopyToBuffer, IInv, TypeOK
<1>2. /\ buf = [live |-> TRUE, size |-> buf.size, align |-> buf.align, data |-> buf.data]
      /\ buf.size \in Nat \ {0}
      /\ buf.align \in Nat \ {0}
      /\ buf.data \in [Offsets(buf.size) -> Byte]
  BY <1>1, LiveBuffer
<1>3. CASE clen > BufferSize(buf)
  <2>1. /\ panicked' = TRUE
        /\ UNCHANGED <<states, buf, vmm>>
    BY <1>3 DEF CopyToBuffer, copy_to_or_from_buffer
  <2>2. TypeOK'
    BY <1>1, <2>1 DEF IInv, TypeOK
  <2>3. DirFaithful' /\ HvFaithful'
    BY <1>1, <2>1, FaithfulFrame DEF IInv
  <2>4. BufferPhase'
    BY <1>1, <2>1 DEF IInv, BufferPhase
  <2>5. QED
    BY <2>2, <2>3, <2>4 DEF IInv
<1>4. CASE ~(clen > BufferSize(buf))
  <2> DEFINE data == [k \in Offsets(buf.size) |->
                        IF k < clen THEN states[start + k] ELSE buf.data[k]]
  <2>1. /\ panicked' = FALSE
        /\ buf' = [buf EXCEPT !.data = data]
        /\ UNCHANGED states
        /\ vmm' = [vmm EXCEPT !.pc = "hvset"]
    BY <1>4 DEF CopyToBuffer, copy_to_or_from_buffer, data
  <2>2. buf' = [live |-> TRUE, size |-> buf.size, align |-> buf.align, data |-> data]
    <3>1. buf' = [[live |-> TRUE, size |-> buf.size, align |-> buf.align,
                   data |-> buf.data] EXCEPT !.data = data]
      BY <1>2, <2>1, Zenon
    <3>2. QED
      BY <3>1
  <2>3. \A k \in Offsets(clen) : start + k \in Offsets(VP_STATE_COMPONENTS_BUFFER_SIZE)
    BY <1>1, Layout
  <2>4. data \in [Offsets(buf.size) -> Byte]
    <3>1. \A k \in Offsets(buf.size) : k < clen => states[start + k] \in Byte
      <4> SUFFICES ASSUME NEW k \in Offsets(buf.size), k < clen
                   PROVE  states[start + k] \in Byte
        OBVIOUS
      <4>1. start + k \in Offsets(VP_STATE_COMPONENTS_BUFFER_SIZE)
        BY <1>1, <1>2, <2>3 DEF Offsets
      <4>2. QED
        BY <4>1 DEF IInv, TypeOK
    <3>2. QED
      BY <1>2, <3>1 DEF data
  <2>5. TypeOK'
    <3>1. IsBuffer(buf', Byte)
      BY <1>2, <2>2, <2>4 DEF IsBuffer
    <3>2. QED
      BY <1>1, <2>1, <3>1 DEF IInv, TypeOK
  <2>6. DirFaithful' /\ HvFaithful'
    BY <1>1, <2>1, FaithfulFrame DEF IInv
  <2>7. BufferPhase'
    <3>1. \A k \in Offsets(clen) : data[k] = Component(i)[k]
      BY <1>1, <1>2, <1>4 DEF BufferSize, Offsets, data, Component, start, clen
    <3>2. QED
      BY <1>1, <1>2, <1>4, <2>1, <2>2, <3>1 DEF IInv, BufferPhase, BufferSize, Component
  <2>8. QED
    BY <2>5, <2>6, <2>7 DEF IInv
<1>5. QED
  BY <1>3, <1>4

(* Copying the filled buffer into the directory replaces component i by    *)
(* the hypervisor's component and, the ranges being disjoint, leaves every *)
(* other component as it was.  The panic branch cannot be taken: the      *)
(* hypervisor only fills a buffer that is large enough.                    *)
LEMMA CopyFromEffect ==
  ASSUME IInv, CopyFromBuffer
  PROVE  /\ \A j \in Comp : j = vmm.comp => Component(j)' = hv[j]
         /\ \A j \in Comp : j # vmm.comp => Component(j)' = Component(j)
         /\ states' \in [Offsets(VP_STATE_COMPONENTS_BUFFER_SIZE) -> Byte]
         /\ panicked' = FALSE
         /\ UNCHANGED <<buf, hv>>
         /\ vmm' = [vmm EXCEPT !.pc = "drop"]
         /\ vmm.pc = "copyfrom"
<1> DEFINE i == vmm.comp
<1> DEFINE clen == VP_STATE_COMP_SIZES[i]
<1> DEFINE start == StartOffset(i)
<1> DEFINE N == VP_STATE_COMPONENTS_BUFFER_SIZE
<1>1. /\ vmm.pc = "copyfrom"
      /\ i \in Comp
      /\ clen \in Nat \ {0}
      /\ clen <= buf.size
      /\ \A k \in Offsets(clen) : buf.data[k] = hv[i][k]
      /\ UNCHANGED hv
  BY SizesFacts DEF CopyFromBuffer, IInv, TypeOK, BufferPhase
<1>2. /\ buf.size \in Nat \ {0}
      /\ buf.data \in [Offsets(buf.size) -> Byte]
  BY <1>1, LiveBuffer
<1>3. /\ panicked' = FALSE
      /\ states' = [p \in Offsets(N) |->
                      IF start <= p /\ p < start + clen
                        THEN ReadBuf(buf, p - start) ELSE states[p]]
      /\ UNCHANGED buf
      /\ vmm' = [vmm EXCEPT !.pc = "drop"]
  BY <1>1, <1>2 DEF CopyFromBuffer, copy_to_or_from_buffer, BufferSize
<1>4. start \in Nat /\ N \in Nat
  BY <1>1, StartOffsetNat, SizesFacts
<1>5. \A p \in Offsets(N) : start <= p /\ p < start + clen =>
         /\ p - start \in Offsets(clen)
         /\ states'[p] = hv[i][p - start]
  <2> SUFFICES ASSUME NEW p \in Offsets(N), start <= p, p < start + clen
               PROVE  /\ p - start \in Offsets(clen)
                      /\ states'[p] = hv[i][p - start]
    OBVIOUS
  <2>1. p - start \in Offsets(clen) /\ p - start < buf.size
    BY <1>1, <1>2, <1>4 DEF Offsets, start, clen, N, i
  <2>2. states'[p] = ReadBuf(buf, p - start)
    BY <1>3
  <2>3. ReadBuf(buf, p - start) = buf.data[p - start]
    BY <2>1 DEF ReadBuf
  <2>4. QED
    BY <1>1, <2>1, <2>2, <2>3
<1>6. \A k \in Offsets(clen) : start + k \in Offsets(N)
  BY <1>1, Layout
<1>7. states' \in [Offsets(N) -> Byte]
  BY <1>1, <1>3, <1>5 DEF IInv, TypeOK
<1>8. [k \in Offsets(clen) |-> states'[start + k]] = hv[i]
  <2>1. \A k \in Offsets(clen) : states'[start + k] = hv[i][k]
    <3> SUFFICES ASSUME NEW k \in Offsets(clen) PROVE states'[start + k] = hv[i][k]
      OBVIOUS
    <3>1. start <= start + k /\ start + k < start + clen /\ (start + k) - start = k
      BY <1>1, <1>4 DEF Offsets
    <3>2. QED
      BY <1>5, <1>6, <3>1
  <2>2. hv[i] = [k \in Offsets(clen) |-> hv[i][k]]
    BY <1>1 DEF IInv, TypeOK
  <2>3. QED
    BY <2>1, <2>2
<1>9. \A j \in Comp : j = i => Component(j)' = hv[j]
  BY <1>8 DEF Component, start, clen
<1>10. \A j \in Comp : j # i => Component(j)' = Component(j)
  <2> SUFFICES ASSUME NEW j \in Comp, j # i
               PROVE  Component(j)' = Component(j)
    OBVIOUS
  <2>1. \A k \in Offsets(VP_STATE_COMP_SIZES[j]) :
           /\ StartOffset(j) + k \in Offsets(N)
           /\ ~(start <= StartOffset(j) + k /\ StartOffset(j) + k < start + clen)
    BY <1>1, Layout, Disjoint
  <2>2. \A k \in Offsets(VP_STATE_COMP_SIZES[j]) :
           states'[StartOffset(j) + k] = states[StartOffset(j) + k]
    BY <1>3, <2>1
  <2>3. QED
    BY <2>2 DEF Component
<1>11. QED
  BY <1>1, <1>3, <1>7, <1>9, <1>10

(* The copy into the directory keeps the inductive invariant: component i *)
(* becomes the hypervisor's, which HvFaithful makes faithful.             *)
LEMMA CopyFromStep ==
  ASSUME IInv, CopyFromBuffer
  PROVE  IInv'
<1> DEFINE i == vmm.comp
<1>1. /\ \A j \in Comp : j = i => Component(j)' = hv[j]
      /\ \A j \in Comp : j # i => Component(j)' = Component(j)
      /\ states' \in [Offsets(VP_STATE_COMPONENTS_BUFFER_SIZE) -> Byte]
      /\ panicked' = FALSE
      /\ UNCHANGED <<buf, hv>>
      /\ vmm' = [vmm EXCEPT !.pc = "drop"]
      /\ vmm.pc = "copyfrom"
  BY CopyFromEffect
<1>2. i \in Comp
  BY DEF IInv, TypeOK
<1>3. TypeOK'
  BY <1>1, <1>2 DEF IInv, TypeOK
<1>4. DirFaithful'
  <2> SUFFICES ASSUME NEW j \in Comp PROVE Component(j)' \in {Orig(j), Zeros(j)}
    BY DEF DirFaithful
  <2>1. CASE j = i
    BY <1>1, <2>1 DEF IInv, HvFaithful
  <2>2. CASE j # i
    BY <1>1, <2>2 DEF IInv, DirFaithful
  <2>3. QED
    BY <2>1, <2>2
<1>5. HvFaithful'
  BY <1>1 DEF IInv, HvFaithful
<1>6. BufferPhase'
  BY <1>1 DEF IInv, BufferPhase
<1>7. QED
  BY <1>3, <1>4, <1>5, <1>6 DEF IInv

(* IInv is inductive: every step of Next, and every stuttering step, keeps *)
(* it.                                                                      *)
LEMMA NextIInv == IInv /\ [Next]_vars => IInv'
<1> SUFFICES ASSUME IInv, [Next]_vars PROVE IInv'
  OBVIOUS
<1>1. CASE \E i \in Comp : StartGet(i) \/ StartSet(i)
  BY <1>1, StartTransferStep DEF StartGet, StartSet
<1>2. CASE HvGetVpState
  BY <1>2, HvGetStep
<1>3. CASE CopyFromBuffer
  BY <1>3, CopyFromStep
<1>4. CASE CopyToBuffer
  BY <1>4, CopyToStep
<1>5. CASE HvSetVpState
  BY <1>5, HvSetStep
<1>6. CASE DropBuffer
  BY <1>6, DropStep
<1>7. CASE UNCHANGED vars
  BY <1>7 DEF vars, IInv, TypeOK, DirFaithful, HvFaithful, BufferPhase, Component
<1>8. QED
  BY <1>1, <1>2, <1>3, <1>4, <1>5, <1>6, <1>7 DEF Next

(* In every reachable state the inductive invariant holds. *)
THEOREM Invariance == Spec => []IInv
BY InitIInv, NextIInv, PTL DEF Spec

(* Type correctness of the directory, the buffer, the hypervisor's state  *)
(* and the VMM's control state, for every page and component size.        *)
THEOREM TypeCorrect == Spec => []TypeOK
BY Invariance, PTL DEF IInv

(* Whatever the sizes, copy_to_or_from_buffer driven by saves and restores *)
(* in any order keeps every directory component either zeroed or an exact  *)
(* copy of that component as the hypervisor holds it.                      *)
THEOREM DirectoryFaithful == Spec => []DirFaithful
BY Invariance, PTL DEF IInv

(* Whatever the sizes, a restore hands the hypervisor only the component's *)
(* own bytes: no other component's bytes and no uninitialised memory.      *)
THEOREM HypervisorFaithful == Spec => []HvFaithful
BY Invariance, PTL DEF IInv

-----------------------------------------------------------------------------
(* The directory implements VpStateTransfer under the mapping that views *)
(* it one whole component at a time (DirView).                           *)

(* The zeroed directory and the hypervisor's original components are the *)
(* abstract initial state.                                               *)
LEMMA InitRefines == Init => Transfer!Init
<1> SUFFICES ASSUME Init
             PROVE  DirView = [i \in Comp |-> Zeros(i)] /\ hv = [i \in Comp |-> Orig(i)]
  BY DEF Transfer!Init
<1>1. \A i \in Comp : Component(i) = Zeros(i)
  <2> SUFFICES ASSUME NEW i \in Comp PROVE Component(i) = Zeros(i)
    OBVIOUS
  <2>1. \A k \in Offsets(VP_STATE_COMP_SIZES[i]) :
           StartOffset(i) + k \in Offsets(VP_STATE_COMPONENTS_BUFFER_SIZE)
    BY Layout
  <2>2. QED
    BY <2>1 DEF Init, Component, Zeros
<1>2. QED
  BY <1>1 DEF DirView, Init

(* A step that changes neither the directory bytes nor the hypervisor's  *)
(* components is an abstract stutter.                                    *)
LEMMA FrameRefines ==
  ASSUME states' = states, hv' = hv
  PROVE  UNCHANGED <<DirView, hv>>
BY DEF DirView, Component

(* Every step is a save, a restore, or a stutter of VpStateTransfer. *)
LEMMA NextRefines == IInv /\ [Next]_vars => [Transfer!Next]_<<DirView, hv>>
<1> SUFFICES ASSUME IInv, [Next]_vars PROVE [Transfer!Next]_<<DirView, hv>>
  OBVIOUS
<1> DEFINE i == vmm.comp
<1>0. i \in Comp
  BY DEF IInv, TypeOK
<1>1. CASE CopyFromBuffer
  <2>1. /\ \A j \in Comp : j = i => Component(j)' = hv[j]
        /\ \A j \in Comp : j # i => Component(j)' = Component(j)
        /\ UNCHANGED hv
    BY <1>1, CopyFromEffect
  <2>2. DirView' = [DirView EXCEPT ![i] = hv[i]]
    BY <1>0, <2>1 DEF DirView
  <2>3. Transfer!Save(i)
    BY <2>1, <2>2 DEF Transfer!Save
  <2>4. QED
    BY <1>0, <2>3 DEF Transfer!Next
<1>2. CASE HvSetVpState
  <2> DEFINE clen == VP_STATE_COMP_SIZES[i]
  <2>1. /\ hv' = [hv EXCEPT ![i] = [k \in Offsets(clen) |-> buf.data[k]]]
        /\ UNCHANGED states
    BY <1>2 DEF HvSetVpState
  <2>2. \A k \in Offsets(clen) : buf.data[k] = Component(i)[k]
    BY <1>2 DEF HvSetVpState, IInv, BufferPhase
  <2>3. [k \in Offsets(clen) |-> buf.data[k]] = DirView[i]
    BY <1>0, <2>2 DEF Component, DirView
  <2>4. DirView' = DirView
    BY <2>1 DEF DirView, Component
  <2>5. Transfer!Restore(i)
    BY <2>1, <2>3, <2>4 DEF Transfer!Restore
  <2>6. QED
    BY <1>0, <2>5 DEF Transfer!Next
<1>3. CASE \/ \E j \in Comp : StartGet(j) \/ StartSet(j)
           \/ HvGetVpState \/ CopyToBuffer \/ DropBuffer \/ UNCHANGED vars
  <2>1. states' = states /\ hv' = hv
    BY <1>3 DEF StartGet, StartSet, StartTransfer, HvGetVpState, CopyToBuffer,
                copy_to_or_from_buffer, DropBuffer, vars
  <2>2. QED
    BY <2>1, FrameRefines
<1>4. QED
  BY <1>1, <1>2, <1>3 DEF Next

(* The directory, copy_to_or_from_buffer's start offsets and panic and the *)
(* buffers of any allocatable size included, implements VpStateTransfer:  *)
(* for every page and component size each save and each restore moves one *)
(* component whole, in one step, and nothing else changes either side.    *)
THEOREM Refinement == Spec => TransferRefined
BY Invariance, InitRefines, NextRefines, PTL DEF Spec, TransferRefined, Transfer!Spec, Transfer!vars

=============================================================================
