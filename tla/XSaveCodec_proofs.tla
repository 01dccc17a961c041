-------------------------- MODULE XSaveCodec_proofs --------------------------
(***************************************************************************)
(* Proofs about the XSAVE codec, for every area size, page size, page     *)
(* shift and choice of get-buffer sizes that XSaveAssumption allows.      *)
(*                                                                         *)
(* The argument: a buffer the hypervisor filled is at least as large as   *)
(* the area, and decode accepts only a buffer no larger than the area, so *)
(* a filled buffer that decodes has exactly the area's size and decode    *)
(* copies all of it.  Encode allocates num_pages * HV_PAGE_SIZE bytes,    *)
(* which covers the area because the page shift is no larger than the    *)
(* page (PageRounding, from PageArithmetic), and copies the whole area to *)
(* its start.                                                              *)
(* BufferPhase records these facts between the steps.                      *)
(***************************************************************************)
EXTENDS XSaveCodec, PageArithmetic, TLAPS

USE XSaveAssumption

(* The page-rounded size encode allocates is a natural number no smaller  *)
(* than the area, since the page shift is no larger than the page.        *)
LEMMA PageRounding == XSaveBufferSize \in Nat /\ XSaveSize <= XSaveBufferSize
BY RoundedPagesCover DEF XSaveBufferSize

(* A buffer fresh from Buffer::new is a live buffer of uninitialised      *)
(* bytes.                                                                   *)
LEMMA BufferNewType ==
  \A size \in Nat \ {0} :
     /\ IsBuffer(BufferNew(size, HV_PAGE_SIZE), Byte)
     /\ BufferNew(size, HV_PAGE_SIZE) # NoBuffer
     /\ BufferNew(size, HV_PAGE_SIZE).size = size
BY DEF IsBuffer, BufferNew, NoBuffer, Byte

(* The initial state satisfies the inductive invariant. *)
LEMMA InitIInv == Init => IInv
<1> SUFFICES ASSUME Init PROVE IInv
  OBVIOUS
<1>1. TypeOK
  <2>1. hv \in [Offsets(XSaveSize) -> Byte] /\ xsave \in [Offsets(XSaveSize) -> Byte]
    BY DEF Init, XSaveDefault, Byte, Offsets
  <2>2. IsBuffer(buf, Byte)
    BY DEF Init, IsBuffer
  <2>3. QED
    BY <2>1, <2>2 DEF Init, TypeOK
<1>2. DecodeFaithful /\ HeldFaithful /\ BufferPhase
  BY DEF Init, DecodeFaithful, HeldFaithful, BufferPhase
<1>3. QED
  BY <1>1, <1>2 DEF IInv

(* While the VMM holds a Buffer it is a live record of bytes. *)
LEMMA LiveBuffer ==
  ASSUME TypeOK, buf # NoBuffer
  PROVE  /\ buf = [live |-> TRUE, size |-> buf.size, align |-> buf.align, data |-> buf.data]
         /\ buf.size \in Nat \ {0}
         /\ buf.align \in Nat \ {0}
         /\ buf.data \in [Offsets(buf.size) -> Byte]
BY DEF TypeOK, IsBuffer

(* Encoding an area into a live buffer that can hold it gives a live     *)
(* buffer of the same size whose first XSaveSize bytes are the area.     *)
LEMMA EncodeShape ==
  ASSUME NEW b, NEW area \in [Offsets(XSaveSize) -> Byte],
         b = [live |-> TRUE, size |-> b.size, align |-> b.align, data |-> b.data],
         b.size \in Nat \ {0}, b.align \in Nat \ {0},
         b.data \in [Offsets(b.size) -> Byte],
         XSaveSize <= b.size
  PROVE  /\ IsBuffer(XSaveEncode(area, b), Byte)
         /\ XSaveEncode(area, b) # NoBuffer
         /\ XSaveEncode(area, b).size = b.size
         /\ \A k \in Offsets(XSaveSize) : XSaveEncode(area, b).data[k] = area[k]
<1> DEFINE d == [k \in Offsets(b.size) |-> IF k < XSaveSize THEN area[k] ELSE b.data[k]]
<1>1. XSaveEncode(area, b) = [live |-> TRUE, size |-> b.size, align |-> b.align, data |-> d]
  <2>1. XSaveEncode(area, b) = [[live |-> TRUE, size |-> b.size, align |-> b.align,
                                 data |-> b.data] EXCEPT !.data = d]
    BY Zenon DEF XSaveEncode
  <2>2. QED
    BY <2>1
<1>2. d \in [Offsets(b.size) -> Byte]
  BY DEF Offsets
<1>3. \A k \in Offsets(XSaveSize) : d[k] = area[k]
  BY DEF Offsets
<1>4. QED
  BY <1>1, <1>2, <1>3 DEF IsBuffer, NoBuffer

(* Allocating a get buffer keeps the invariant. *)
LEMMA StartGetStep ==
  ASSUME IInv, NEW size \in GetSizes, StartGet(size)
  PROVE  IInv'
<1>1. /\ IsBuffer(buf', Byte) /\ buf' # NoBuffer
      /\ pc' = "hvget"
      /\ UNCHANGED <<hv, xsave, filled, got, edited, ret>>
  BY BufferNewType DEF StartGet
<1>2. QED
  BY <1>1 DEF IInv, TypeOK, DecodeFaithful, HeldFaithful, BufferPhase

(* The hypervisor fills a buffer that can hold the area, or leaves it. *)
LEMMA HvGetStep ==
  ASSUME IInv, HvGetXSave
  PROVE  IInv'
<1>1. /\ pc = "hvget" /\ pc' = "decode"
      /\ got' = hv
      /\ filled' = (XSaveSize <= buf.size)
      /\ UNCHANGED <<hv, xsave, edited, ret>>
  BY DEF HvGetXSave
<1>2. /\ buf = [live |-> TRUE, size |-> buf.size, align |-> buf.align, data |-> buf.data]
      /\ buf.size \in Nat \ {0}
      /\ buf.align \in Nat \ {0}
      /\ buf.data \in [Offsets(buf.size) -> Byte]
  BY <1>1, LiveBuffer DEF IInv, BufferPhase
<1>3. hv \in [Offsets(XSaveSize) -> Byte]
  BY DEF IInv, TypeOK
<1>4. CASE XSaveSize <= buf.size
  <2>1. buf' = XSaveEncode(hv, buf) /\ filled'
    BY <1>1, <1>4 DEF HvGetXSave
  <2>2. /\ IsBuffer(buf', Byte) /\ buf' # NoBuffer /\ buf'.size = buf.size
        /\ \A k \in Offsets(XSaveSize) : buf'.data[k] = hv[k]
    BY <1>2, <1>3, <1>4, <2>1, EncodeShape
  <2>3. QED
    BY <1>1, <1>4, <2>2 DEF IInv, TypeOK, DecodeFaithful, HeldFaithful, BufferPhase
<1>5. CASE ~(XSaveSize <= buf.size)
  <2>1. buf' = buf /\ ~filled'
    BY <1>1, <1>5 DEF HvGetXSave
  <2>2. QED
    BY <1>1, <2>1 DEF IInv, TypeOK, DecodeFaithful, HeldFaithful, BufferPhase
<1>6. QED
  BY <1>4, <1>5

(* Decode rejects a buffer larger than the area; otherwise it copies     *)
(* buf.size() bytes, and a filled buffer has exactly the area's size.    *)
LEMMA DecodeStep ==
  ASSUME IInv, Decode
  PROVE  IInv'
<1>1. /\ pc = "decode" /\ buf' = NoBuffer
      /\ UNCHANGED <<hv, filled, got>>
  BY DEF Decode
<1>2. /\ buf.size \in Nat \ {0}
      /\ buf.data \in [Offsets(buf.size) -> Byte]
  BY <1>1, LiveBuffer DEF IInv, BufferPhase
<1>3. IsBuffer(buf', Byte)
  BY <1>1 DEF IsBuffer
<1>4. CASE XSaveSize < buf.size
  <2>1. pc' = "idle" /\ ret' = "einval" /\ UNCHANGED <<xsave, edited>>
    BY <1>2, <1>4 DEF Decode
  <2>2. QED
    BY <1>1, <1>3, <2>1 DEF IInv, TypeOK, DecodeFaithful, HeldFaithful, BufferPhase
<1>5. CASE XSaveSize >= buf.size
  <2>1. /\ pc' = "edit" /\ ret' = "ok" /\ edited' = {}
        /\ xsave' = XSaveDecode(buf)
    BY <1>2, <1>5 DEF Decode
  <2>2. xsave' \in [Offsets(XSaveSize) -> Byte]
    BY <1>2, <2>1 DEF XSaveDecode, XSaveDefault, Offsets, Byte
  <2>3. DecodeFaithful'
    <3> SUFFICES ASSUME filled PROVE \A k \in Offsets(XSaveSize) : xsave'[k] = got[k]
      BY <1>1, <2>1 DEF DecodeFaithful
    <3>1. XSaveSize = buf.size /\ \A k \in Offsets(XSaveSize) : buf.data[k] = got[k]
      BY <1>1, <1>2, <1>5 DEF IInv, BufferPhase
    <3>2. QED
      BY <2>1, <3>1 DEF XSaveDecode, Offsets
  <2>4. QED
    BY <1>1, <1>3, <2>1, <2>2, <2>3 DEF IInv, TypeOK, HeldFaithful, BufferPhase
<1>6. QED
  BY <1>2, <1>4, <1>5

(* A byte the VMM writes joins the edited set; the others keep the       *)
(* hypervisor's value.                                                     *)
LEMMA VmmWriteStep ==
  ASSUME IInv, NEW k \in Offsets(XSaveSize), NEW v \in Values, VmmWrite(k, v)
  PROVE  IInv'
<1>1. /\ pc = "edit"
      /\ xsave' = [xsave EXCEPT ![k] = v]
      /\ edited' = edited \cup {k}
      /\ UNCHANGED <<hv, buf, filled, got, pc, ret>>
  BY DEF VmmWrite
<1>2. xsave' \in [Offsets(XSaveSize) -> Byte]
  BY <1>1 DEF IInv, TypeOK, Byte
<1>3. DecodeFaithful'
  BY <1>1 DEF IInv, TypeOK, DecodeFaithful
<1>4. QED
  BY <1>1, <1>2, <1>3 DEF IInv, TypeOK, HeldFaithful, BufferPhase

(* Encode fails with ENOMEM and stays, or builds the page-rounded buffer *)
(* holding the VMM's area.                                               *)
LEMMA EncodeStep ==
  ASSUME IInv, Encode
  PROVE  IInv'
<1>1. /\ pc = "edit"
      /\ UNCHANGED <<hv, xsave, filled, got, edited>>
  BY DEF Encode
<1>2. CASE ret' = "enomem" /\ UNCHANGED <<buf, pc>>
  BY <1>1, <1>2 DEF IInv, TypeOK, DecodeFaithful, HeldFaithful, BufferPhase
<1>3. CASE /\ buf' = XSaveEncode(xsave, BufferNew(XSaveBufferSize, HV_PAGE_SIZE))
           /\ ret' = "ok"
           /\ pc' = "hvset"
  <2> DEFINE b == BufferNew(XSaveBufferSize, HV_PAGE_SIZE)
  <2>1. /\ XSaveBufferSize \in Nat \ {0}
        /\ XSaveSize <= XSaveBufferSize
    BY PageRounding
  <2>2. /\ b = [live |-> TRUE, size |-> b.size, align |-> b.align, data |-> b.data]
        /\ b.size = XSaveBufferSize
        /\ b.align \in Nat \ {0}
        /\ b.data \in [Offsets(b.size) -> Byte]
    BY <2>1 DEF BufferNew, Byte
  <2>3. /\ IsBuffer(buf', Byte) /\ buf' # NoBuffer /\ buf'.size = b.size
        /\ \A k \in Offsets(XSaveSize) : buf'.data[k] = xsave[k]
    BY <1>3, <2>1, <2>2, EncodeShape DEF IInv, TypeOK
  <2>4. QED
    BY <1>1, <1>3, <2>1, <2>2, <2>3 DEF IInv, TypeOK, DecodeFaithful, HeldFaithful, BufferPhase
<1>4. QED
  BY <1>2, <1>3 DEF Encode

(* Set VP state takes the area from the buffer, which is then dropped. *)
LEMMA HvSetStep ==
  ASSUME IInv, HvSetXSave
  PROVE  IInv'
<1>1. /\ pc = "hvset" /\ pc' = "idle" /\ buf' = NoBuffer
      /\ hv' = [k \in Offsets(XSaveSize) |-> ReadByte(buf, k)]
      /\ UNCHANGED <<xsave, filled, got, edited, ret>>
  BY DEF HvSetXSave
<1>2. /\ buf.size \in Nat \ {0}
      /\ buf.data \in [Offsets(buf.size) -> Byte]
  BY <1>1, LiveBuffer DEF IInv, BufferPhase
<1>3. hv' \in [Offsets(XSaveSize) -> Byte]
  BY <1>1, <1>2 DEF ReadByte, Offsets, Byte
<1>4. IsBuffer(buf', Byte)
  BY <1>1 DEF IsBuffer
<1>5. QED
  BY <1>1, <1>3, <1>4 DEF IInv, TypeOK, DecodeFaithful, HeldFaithful, BufferPhase

(* IInv is inductive. *)
LEMMA NextIInv == IInv /\ [Next]_vars => IInv'
<1> SUFFICES ASSUME IInv, [Next]_vars PROVE IInv'
  OBVIOUS
<1>1. CASE \E size \in GetSizes : StartGet(size)
  BY <1>1, StartGetStep
<1>2. CASE HvGetXSave
  BY <1>2, HvGetStep
<1>3. CASE Decode
  BY <1>3, DecodeStep
<1>4. CASE \E k \in Offsets(XSaveSize), v \in Values : VmmWrite(k, v)
  BY <1>4, VmmWriteStep
<1>5. CASE Encode
  BY <1>5, EncodeStep
<1>6. CASE HvSetXSave
  BY <1>6, HvSetStep
<1>7. CASE UNCHANGED vars
  BY <1>7 DEF vars, IInv, TypeOK, DecodeFaithful, HeldFaithful, BufferPhase
<1>8. QED
  BY <1>1, <1>2, <1>3, <1>4, <1>5, <1>6, <1>7 DEF Next

(* In a state where the VMM is about to set, the buffer delivers its area. *)
LEMMA IInvSetDelivers == IInv => SetDeliversXSave
<1> SUFFICES ASSUME IInv, pc = "hvset", NEW k \in Offsets(XSaveSize)
             PROVE  ReadByte(buf, k) = xsave[k]
  BY DEF SetDeliversXSave
<1>1. XSaveSize <= buf.size /\ buf.data[k] = xsave[k] /\ buf.size \in Nat
  BY LiveBuffer DEF IInv, BufferPhase
<1>2. QED
  BY <1>1 DEF ReadByte, Offsets

(* Every reachable state satisfies the inductive invariant. *)
THEOREM Invariance == Spec => []IInv
BY InitIInv, NextIInv, PTL DEF Spec

(* The hypervisor's area, the transfer buffer, the VMM's XSave and the   *)
(* control state are well typed for every value of the constants.        *)
THEOREM TypeCorrect == Spec => []TypeOK
BY Invariance, PTL DEF IInv

(* For every area, page and get-buffer size, XSave::try_from of a buffer *)
(* the hypervisor filled gives the VMM the hypervisor's area: each byte  *)
(* the VMM has not written since is the byte the hypervisor held.        *)
THEOREM DecodeIsFaithful == Spec => []DecodeFaithful
BY Invariance, PTL DEF IInv

(* For every area size and every page size whose shift is no larger than *)
(* the page, Buffer::try_from(&xsave) followed by set VP state hands the *)
(* hypervisor exactly the VMM's XSave area, none of it left as the       *)
(* allocator had it.                                                     *)
THEOREM SetDeliversArea == Spec => []SetDeliversXSave
BY Invariance, IInvSetDelivers, PTL

(* A step from a reachable state restores the unedited bytes: only the  *)
(* set leaves "hvset", and it delivers the VMM's area (IInvSetDelivers),  *)
(* whose unedited bytes are the ones got (HeldFaithful).                  *)
LEMMA IInvRestores == IInv /\ [Next]_vars => [UneditedRestored]_vars
<1> SUFFICES ASSUME IInv, [Next]_vars, pc = "hvset", filled,
                    NEW k \in Offsets(XSaveSize) \ edited
             PROVE  hv'[k] = got[k] \/ UNCHANGED vars
  BY DEF UneditedRestored
<1>1. CASE HvSetXSave
  <2>1. hv'[k] = ReadByte(buf, k)
    BY <1>1 DEF HvSetXSave
  <2>2. ReadByte(buf, k) = xsave[k]
    BY IInvSetDelivers DEF SetDeliversXSave
  <2>3. xsave[k] = got[k]
    BY DEF IInv, HeldFaithful
  <2>4. QED
    BY <2>1, <2>2, <2>3
<1>2. CASE UNCHANGED vars
  BY <1>2
<1>3. QED
  BY <1>1, <1>2 DEF Next, StartGet, HvGetXSave, Decode, VmmWrite, Encode

(* Spec 8 for every value of the constants: a set that follows a filled  *)
(* get, decode, the VMM's writes and encode gives the hypervisor back    *)
(* every byte of its XSAVE area the VMM did not write, as it was got.    *)
THEOREM RestoresUnedited == Spec => SetRestoresUnedited
BY Invariance, IInvRestores, PTL DEF Spec, SetRestoresUnedited

-----------------------------------------------------------------------------
(* The refinement of XSaveTransfer.  Two more facts about decode are      *)
(* needed (GetPhase): the area got at the get is still the hypervisor's,  *)
(* and a buffer the hypervisor did not fill is smaller than the area and  *)
(* still as the allocator left it.  Then a decode is a whole Save or a    *)
(* ShortSave, a write a Write, a set a Restore, and every other step      *)
(* leaves both areas alone.                                               *)

LEMMA InitGetPhase == Init => GetPhase
BY DEF Init, GetPhase

(* GetPhase is kept by every step from a state satisfying IInv. *)
LEMMA NextGetPhase == IInv /\ GetPhase /\ [Next]_vars => GetPhase'
<1> SUFFICES ASSUME IInv, GetPhase, [Next]_vars PROVE GetPhase'
  OBVIOUS
<1>1. CASE \E size \in GetSizes : StartGet(size)
  <2>1. PICK size \in GetSizes : StartGet(size)
    BY <1>1
  <2>2. pc' = "hvget" /\ buf' = BufferNew(size, HV_PAGE_SIZE)
    BY <2>1 DEF StartGet
  <2>3. QED
    BY <2>2 DEF GetPhase, BufferNew
<1>2. CASE HvGetXSave
  <2>1. /\ pc = "hvget" /\ pc' = "decode"
        /\ got' = hv /\ hv' = hv
        /\ filled' = (XSaveSize <= buf.size)
        /\ ~filled' => buf' = buf
    BY <1>2 DEF HvGetXSave
  <2>2. buf.size \in Nat /\ \A k \in Offsets(buf.size) : buf.data[k] = Uninit
    BY <2>1, LiveBuffer DEF IInv, BufferPhase, GetPhase
  <2>3. ~filled' => buf'.size < XSaveSize
    <3>1. ~filled' => buf'.size = buf.size /\ ~(XSaveSize <= buf.size)
      BY <2>1, Zenon
    <3>2. ~(XSaveSize <= buf.size) => buf.size < XSaveSize
      BY <2>2
    <3>3. QED
      BY <3>1, <3>2
  <2>4. QED
    BY <2>1, <2>2, <2>3 DEF GetPhase
<1>3. CASE Decode
  BY <1>3 DEF Decode, GetPhase
<1>4. CASE \E k \in Offsets(XSaveSize), v \in Values : VmmWrite(k, v)
  BY <1>4 DEF VmmWrite, GetPhase
<1>5. CASE Encode
  BY <1>5 DEF Encode, GetPhase
<1>6. CASE HvSetXSave
  BY <1>6 DEF HvSetXSave, GetPhase
<1>7. CASE UNCHANGED vars
  BY <1>7 DEF vars, GetPhase
<1>8. QED
  BY <1>1, <1>2, <1>3, <1>4, <1>5, <1>6, <1>7 DEF Next

(* Every reachable state satisfies RefInv. *)
LEMMA RefInvariance == Spec => []RefInv
<1>1. Init => RefInv
  BY InitIInv, InitGetPhase DEF RefInv
<1>2. RefInv /\ [Next]_vars => RefInv'
  BY NextIInv, NextGetPhase DEF RefInv
<1>3. QED
  BY <1>1, <1>2, PTL DEF Spec

(* The initial state maps to an initial state of XSaveTransfer. *)
LEMMA InitRefines == Init => Transfer!Init
BY DEF Init, Transfer!Init, Transfer!AreaOffsets, XSaveDefault, Offsets

(* A decode that succeeds is a Save when the hypervisor filled the buffer *)
(* and a ShortSave of the buffer's size when it did not.                  *)
LEMMA DecodeRefines ==
  ASSUME RefInv, Decode
  PROVE  [Transfer!Next]_<<hv, xsave>>
<1>1. /\ pc = "decode" /\ hv' = hv
      /\ \/ xsave' = xsave
         \/ XSaveSize >= buf.size /\ xsave' = XSaveDecode(buf)
  BY DEF Decode
<1>2. /\ buf # NoBuffer
      /\ buf.size \in Nat \ {0}
      /\ buf.data \in [Offsets(buf.size) -> Byte]
      /\ hv \in [Offsets(XSaveSize) -> Byte]
  BY <1>1, LiveBuffer DEF RefInv, IInv, BufferPhase, TypeOK
<1>3. CASE xsave' = xsave
  BY <1>1, <1>3
<1>4. CASE XSaveSize >= buf.size /\ xsave' = XSaveDecode(buf) /\ filled
  <2>1. XSaveSize = buf.size /\ \A k \in Offsets(XSaveSize) : buf.data[k] = hv[k]
    BY <1>1, <1>2, <1>4 DEF RefInv, IInv, BufferPhase, GetPhase
  <2>2. xsave' = hv
    BY <1>2, <1>4, <2>1 DEF XSaveDecode, Offsets
  <2>3. QED
    BY <1>1, <2>2 DEF Transfer!Next, Transfer!Save
<1>5. CASE XSaveSize >= buf.size /\ xsave' = XSaveDecode(buf) /\ ~filled
  <2>1. /\ buf.size < XSaveSize
        /\ \A k \in Offsets(buf.size) : buf.data[k] = Uninit
    BY <1>1, <1>5 DEF RefInv, GetPhase
  <2>2. buf.size \in 1 .. (XSaveSize - 1)
    BY <1>2, <2>1
  <2>3. xsave' = [k \in Transfer!AreaOffsets |-> IF k < buf.size THEN Uninit ELSE 0]
    BY <1>2, <1>5, <2>1 DEF XSaveDecode, XSaveDefault, Offsets, Transfer!AreaOffsets
  <2>4. Transfer!ShortSave(buf.size)
    BY <1>1, <2>3 DEF Transfer!ShortSave
  <2>5. QED
    BY <2>2, <2>4 DEF Transfer!Next
<1>6. QED
  BY <1>1, <1>3, <1>4, <1>5

(* The set is a Restore: the hypervisor receives the VMM's area whole. *)
LEMMA SetRefines ==
  ASSUME RefInv, HvSetXSave
  PROVE  Transfer!Restore
<1>1. /\ pc = "hvset" /\ xsave' = xsave
      /\ hv' = [k \in Offsets(XSaveSize) |-> ReadByte(buf, k)]
  BY DEF HvSetXSave
<1>2. \A k \in Offsets(XSaveSize) : ReadByte(buf, k) = xsave[k]
  BY <1>1, IInvSetDelivers DEF RefInv, SetDeliversXSave
<1>3. xsave \in [Offsets(XSaveSize) -> Byte]
  BY DEF RefInv, IInv, TypeOK
<1>4. hv' = xsave
  BY <1>1, <1>2, <1>3
<1>5. QED
  BY <1>1, <1>4 DEF Transfer!Restore

(* Every step from a reachable state is a step of XSaveTransfer on the   *)
(* two areas, or leaves both unchanged.                                   *)
LEMMA NextRefines == RefInv /\ [Next]_vars => [Transfer!Next]_<<hv, xsave>>
<1> SUFFICES ASSUME RefInv, [Next]_vars PROVE [Transfer!Next]_<<hv, xsave>>
  OBVIOUS
<1>1. CASE \E size \in GetSizes : StartGet(size)
  BY <1>1 DEF StartGet
<1>2. CASE HvGetXSave
  BY <1>2 DEF HvGetXSave
<1>3. CASE Decode
  BY <1>3, DecodeRefines
<1>4. CASE \E k \in Offsets(XSaveSize), v \in Values : VmmWrite(k, v)
  <2>1. PICK k \in Offsets(XSaveSize), v \in Values : VmmWrite(k, v)
    BY <1>4
  <2>2. Transfer!Write(k, v)
    BY <2>1 DEF VmmWrite, Transfer!Write
  <2>3. k \in Transfer!AreaOffsets
    BY DEF Offsets, Transfer!AreaOffsets
  <2>4. QED
    BY <2>2, <2>3 DEF Transfer!Next
<1>5. CASE Encode
  BY <1>5 DEF Encode
<1>6. CASE HvSetXSave
  BY <1>6, SetRefines DEF Transfer!Next
<1>7. CASE UNCHANGED vars
  BY <1>7 DEF vars
<1>8. QED
  BY <1>1, <1>2, <1>3, <1>4, <1>5, <1>6, <1>7 DEF Next

(* For every area, page and get-buffer size, the codec implements         *)
(* XSaveTransfer: get and decode, the VMM's writes, and encode and set    *)
(* move the XSAVE area whole between the hypervisor and the VMM's XSave, *)
(* one step at a time, and a decode of a buffer the hypervisor refused to *)
(* fill gives only the allocator's bytes and zeros.                        *)
THEOREM Refinement == Spec => TransferRefined
BY RefInvariance, InitRefines, NextRefines, PTL DEF Spec, TransferRefined, Transfer!Spec

=============================================================================
