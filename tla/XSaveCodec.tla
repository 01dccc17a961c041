------------------------------ MODULE XSaveCodec ------------------------------
(***************************************************************************)
(* The XSAVE codec of regs.rs: TryFrom<Buffer> for XSave (decode) copies a *)
(* transfer Buffer into the fixed 4096-byte XSave area, and               *)
(* TryFrom<&XSave> for Buffer (encode) copies the area into a fresh       *)
(* page-rounded Buffer.  The codec is driven the way a VMM uses it: get   *)
(* the XSAVE state of a VP into a Buffer of the size it chose, decode,    *)
(* write bytes of the area, encode and set the state back.  The           *)
(* hypervisor is the environment, modelled from the interface the spec    *)
(* describes: get fills the first XSaveSize bytes of a buffer that can    *)
(* hold them and fails otherwise; set takes the first XSaveSize bytes.    *)
(***************************************************************************)
EXTENDS Naturals, FiniteSets, Buffer

CONSTANTS
  XSaveSize,         \* size_of_val(&XSave.buffer) (4096)
  HV_PAGE_SIZE,      \* the hypervisor page size (4096)
  HV_HYP_PAGE_SHIFT, \* log2 of the hypervisor page size (12)
  GetSizes,          \* sizes of the Buffers a VMM allocates for a get
  Values,            \* byte values the VMM writes
  MaxEdits           \* byte writes per decoded state

ASSUME XSaveAssumption ==
  /\ XSaveSize \in Nat \ {0}
  /\ HV_PAGE_SIZE \in Nat \ {0}
  /\ HV_HYP_PAGE_SHIFT \in Nat
  /\ 2 ^ HV_HYP_PAGE_SHIFT \in 1 .. HV_PAGE_SIZE   \* 4096 = 2^12 in the bindings
  /\ GetSizes \subseteq Nat \ {0}
  /\ Values \subseteq 0 .. 255
  /\ MaxEdits \in Nat

(* XSave::default(): the zeroed area. *)
XSaveDefault == [k \in Offsets(XSaveSize) |-> 0]

(* Byte k of a buffer: what was written there, or what the allocator    *)
(* left past its end.                                                     *)
ReadByte(b, k) == IF k < b.size THEN b.data[k] ELSE Uninit

(* Mutant: decode copies one byte less than buf.size(). *)
XSaveDecodeShort(b) ==
  [k \in Offsets(XSaveSize) |-> IF k < b.size - 1 THEN b.data[k] ELSE XSaveDefault[k]]

(* Mutant: the area built from the buffer's bytes alone, without the     *)
(* zeroed default around them.                                            *)
XSaveDecodeNoDefault(b) == [k \in Offsets(b.size) |-> b.data[k]]

(* TryFrom<Buffer> for XSave, past its size check: copy buf.size() bytes  *)
(* from the buffer into the zeroed area.                                  *)
XSaveDecode(b) ==
  [k \in Offsets(XSaveSize) |-> IF k < b.size THEN b.data[k] ELSE XSaveDefault[k]]

(* Mutant: the page count rounded down instead of up. *)
XSaveBufferSizeTruncated ==
  (XSaveSize \div 2 ^ HV_HYP_PAGE_SHIFT) * HV_PAGE_SIZE

(* The Buffer encode allocates: num_pages * HV_PAGE_SIZE bytes with       *)
(* num_pages = (reg_size + HV_PAGE_SIZE - 1) >> HV_HYP_PAGE_SHIFT.        *)
XSaveBufferSize ==
  ((XSaveSize + HV_PAGE_SIZE - 1) \div 2 ^ HV_HYP_PAGE_SHIFT) * HV_PAGE_SIZE

(* Mutant: encode copies one byte less than the area. *)
XSaveEncodeShort(area, b) ==
  [b EXCEPT !.data = [k \in Offsets(b.size) |->
                        IF k < XSaveSize - 1 THEN area[k] ELSE b.data[k]]]

(* TryFrom<&XSave> for Buffer, past the allocation: copy the XSaveSize    *)
(* bytes of the area to the start of the buffer; the rest stays as the    *)
(* allocator left it.                                                     *)
XSaveEncode(area, b) ==
  [b EXCEPT !.data = [k \in Offsets(b.size) |->
                        IF k < XSaveSize THEN area[k] ELSE b.data[k]]]

-----------------------------------------------------------------------------
VARIABLES
  hv,      \* the hypervisor's XSAVE area of the VP
  buf,     \* the transfer Buffer the VMM holds
  xsave,   \* the VMM's XSave
  filled,  \* whether the hypervisor filled the buffer decode consumed
  got,     \* the area the hypervisor held at the last get
  edited,  \* the bytes the VMM has written since the last decode
  pc,      \* where the VMM is in the save / edit / restore cycle
  ret      \* what the last codec call returned

vars == <<hv, buf, xsave, filled, got, edited, pc, ret>>

(* Each byte of the area the hypervisor first holds is distinct from 0. *)
Init ==
  /\ hv = [k \in Offsets(XSaveSize) |-> k + 1]
  /\ buf = NoBuffer
  /\ xsave = XSaveDefault
  /\ filled = FALSE
  /\ got = hv
  /\ edited = {}
  /\ pc = "idle"
  /\ ret = "ok"

(* The VMM allocates a Buffer for get VP state. *)
StartGet(size) ==
  /\ pc = "idle"
  /\ buf' = BufferNew(size, HV_PAGE_SIZE)
  /\ pc' = "hvget"
  /\ UNCHANGED <<hv, xsave, filled, got, edited, ret>>

(* Get VP state: the hypervisor fills the buffer or fails; either way the *)
(* VMM goes on to decode what it holds.                                   *)
HvGetXSave ==
  /\ pc = "hvget"
  /\ filled' = (XSaveSize <= buf.size)
  /\ buf' = IF filled' THEN XSaveEncode(hv, buf) ELSE buf
  /\ got' = hv
  /\ pc' = "decode"
  /\ UNCHANGED <<hv, xsave, edited, ret>>

(* XSave::try_from(buf): EINVAL for a buffer larger than the area,        *)
(* otherwise the decoded area.  The Buffer is consumed.                   *)
Decode ==
  /\ pc = "decode"
  /\ \/ /\ XSaveSize < buf.size
        /\ ret' = "einval"
        /\ pc' = "idle"
        /\ UNCHANGED <<xsave, edited>>
     \/ /\ XSaveSize >= buf.size
        /\ xsave' = XSaveDecode(buf)
        /\ edited' = {}
        /\ ret' = "ok"
        /\ pc' = "edit"
  /\ buf' = NoBuffer
  /\ UNCHANGED <<hv, filled, got>>

(* The VMM writes one byte of the area. *)
VmmWrite(k, v) ==
  /\ pc = "edit"
  /\ Cardinality(edited) < MaxEdits
  /\ xsave' = [xsave EXCEPT ![k] = v]
  /\ edited' = edited \cup {k}
  /\ UNCHANGED <<hv, buf, filled, got, pc, ret>>

(* Buffer::try_from(&xsave): ENOMEM when the allocation fails, otherwise  *)
(* a fresh Buffer holding the area.                                       *)
Encode ==
  /\ pc = "edit"
  /\ \/ /\ ret' = "enomem"
        /\ UNCHANGED <<buf, pc>>
     \/ /\ buf' = XSaveEncode(xsave, BufferNew(XSaveBufferSize, HV_PAGE_SIZE))
        /\ ret' = "ok"
        /\ pc' = "hvset"
  /\ UNCHANGED <<hv, xsave, filled, got, edited>>

(* Set VP state: the hypervisor takes the area from the buffer, which the *)
(* VMM then drops.                                                        *)
HvSetXSave ==
  /\ pc = "hvset"
  /\ hv' = [k \in Offsets(XSaveSize) |-> ReadByte(buf, k)]
  /\ buf' = NoBuffer
  /\ pc' = "idle"
  /\ UNCHANGED <<xsave, filled, got, edited, ret>>

Next ==
  \/ \E size \in GetSizes : StartGet(size)
  \/ HvGetXSave
  \/ Decode
  \/ \E k \in Offsets(XSaveSize), v \in Values : VmmWrite(k, v)
  \/ Encode
  \/ HvSetXSave

Spec == Init /\ [][Next]_vars

-----------------------------------------------------------------------------
(* Properties. *)

Byte == Nat \cup {Uninit}

TypeOK ==
  /\ hv \in [Offsets(XSaveSize) -> Byte]
  /\ IsBuffer(buf, Byte)
  /\ xsave \in [Offsets(XSaveSize) -> Byte]
  /\ filled \in BOOLEAN
  /\ edited \subseteq Offsets(XSaveSize)
  /\ pc \in {"idle", "hvget", "decode", "edit", "hvset"}
  /\ ret \in {"ok", "einval", "enomem"}

(* Decoding a buffer the hypervisor filled gives the VMM the hypervisor's *)
(* XSAVE area: every byte the VMM has not written since is the byte the   *)
(* hypervisor held (the copy of buf.size() bytes and the size check of    *)
(* decode together).                                                      *)
DecodeFaithful ==
  pc = "edit" /\ filled => \A k \in Offsets(XSaveSize) \ edited : xsave[k] = got[k]

(* Encode then set hands the hypervisor exactly the VMM's XSave: the      *)
(* page-rounded buffer holds the whole area and every byte of it is the   *)
(* VMM's, none left as the allocator had it.                             *)
SetDeliversXSave ==
  pc = "hvset" => \A k \in Offsets(XSaveSize) : ReadByte(buf, k) = xsave[k]

(* Spec 8, idempotence of a save and restore: a set that follows a get   *)
(* the hypervisor filled, the decode, the VMM's writes and the encode     *)
(* gives the hypervisor back every byte of its area the VMM did not      *)
(* write, exactly as the hypervisor held it at the get.                   *)
UneditedRestored ==
  pc = "hvset" /\ filled => \A k \in Offsets(XSaveSize) \ edited : hv'[k] = got[k]
SetRestoresUnedited == [][UneditedRestored]_vars

(* The codec implements XSaveTransfer with the VMM's XSave as its area:   *)
(* every step of the get / decode / write / encode / set cycle is a whole  *)
(* save, a short-buffer decode, a one-byte write or a whole restore, or   *)
(* leaves both areas as they were.  Nothing half-copied, no allocator     *)
(* byte past a filled get and no byte of the encode buffer's tail ever    *)
(* reaches either area.                                                   *)
Transfer == INSTANCE XSaveTransfer WITH area <- xsave
TransferRefined == Transfer!Spec

(* Spec 7 (SizeMismatch): a buffer smaller than the structure decoded     *)
(* from it is rejected with an error and nothing is written; so a decode  *)
(* that succeeds consumed a buffer the hypervisor could fill whole.       *)
DecodeRejectsShortBuffer == pc = "edit" => filled

-----------------------------------------------------------------------------
(* The inductive strengthening of DecodeFaithful and SetDeliversXSave:    *)
(* what the transfer Buffer holds at each point of the cycle.  While the  *)
(* VMM holds a Buffer it is a live one; a buffer the hypervisor filled    *)
(* holds the area it got at its start; the buffer encode built holds the  *)
(* VMM's area at its start.                                               *)
BufferPhase ==
  /\ pc \in {"hvget", "decode", "hvset"} => buf # NoBuffer
  /\ pc = "decode" /\ filled =>
       /\ XSaveSize <= buf.size
       /\ \A k \in Offsets(XSaveSize) : buf.data[k] = got[k]
  /\ pc = "hvset" =>
       /\ XSaveSize <= buf.size
       /\ \A k \in Offsets(XSaveSize) : buf.data[k] = xsave[k]

(* Between encode and set the VMM's XSave still holds every byte of the  *)
(* filled get it has not written.                                         *)
HeldFaithful ==
  pc = "hvset" /\ filled => \A k \in Offsets(XSaveSize) \ edited : xsave[k] = got[k]

IInv == TypeOK /\ DecodeFaithful /\ HeldFaithful /\ BufferPhase

(* What decode finds after a get: the hypervisor's area has not changed  *)
(* since it was read, and a buffer the hypervisor did not fill holds only *)
(* the bytes the allocator left and is smaller than the area.             *)
GetPhase ==
  /\ pc = "decode" => got = hv
  /\ pc = "decode" /\ ~filled => buf.size < XSaveSize
  /\ pc = "hvget" \/ (pc = "decode" /\ ~filled) =>
       \A k \in Offsets(buf.size) : buf.data[k] = Uninit

RefInv == IInv /\ GetPhase

====
