----------------------------- MODULE SegmentCodec -----------------------------
(***************************************************************************)
(* The segment and table register codec of regs.rs: From conversions       *)
(* between the hypervisor's hv_x64_segment_register (base, limit, selector *)
(* and a 16-bit attribute word of bitfields) and the unpacked             *)
(* SegmentRegister (one u8 per attribute, plus unusable and padding), and  *)
(* between hv_x64_table_register (limit, base, 3-byte pad) and            *)
(* TableRegister.  They are driven the way a VMM uses them: get a segment  *)
(* and a table register of a VP, unpack them, write attributes, pack them  *)
(* and set them back.                                                      *)
(*                                                                         *)
(* The bindgen accessors are not in the repository; their layout is the    *)
(* hypervisor's attribute word: segment_type bits 0-3,                     *)
(* non_system_segment 4, descriptor_privilege_level 5-6, present 7,       *)
(* reserved 8-11, available 12, _long 13, _default 14, granularity 15.    *)
(* A getter returns the bits of its field; a setter keeps the low `width`  *)
(* bits of its argument and leaves the other bits of the word alone.       *)
(***************************************************************************)
EXTENDS Naturals, FiniteSets

CONSTANTS
  Values,    \* u8 values the VMM writes into attributes
  MaxEdits   \* attribute writes per unpacked register

ASSUME SegmentAssumption ==
  /\ Values \subseteq 0 .. 255
  /\ MaxEdits \in Nat

(* The attribute fields of SegmentRegister, and where each one's bitfield *)
(* lies in the hypervisor's attribute word.                               *)
Layout ==
  [type_ |-> [pos |-> 0, width |-> 4], s |-> [pos |-> 4, width |-> 1],
   dpl |-> [pos |-> 5, width |-> 2], present |-> [pos |-> 7, width |-> 1],
   avl |-> [pos |-> 12, width |-> 1], l |-> [pos |-> 13, width |-> 1],
   db |-> [pos |-> 14, width |-> 1], g |-> [pos |-> 15, width |-> 1]]
AttrFields == DOMAIN Layout

(* The bitfield getter: the width bits of w from bit pos. *)
GetBits(w, pos, width) == (w \div 2 ^ pos) % 2 ^ width

(* The bitfield setter: the low width bits of v replace those bits of w. *)
SetBits(w, pos, width, v) ==
  w - GetBits(w, pos, width) * 2 ^ pos + (v % 2 ^ width) * 2 ^ pos

(* Mutant: _long read into db and _default into l. *)
SegmentFromHvSwapLD(hv_reg) ==
  [f \in {"base", "limit", "selector", "unusable", "padding"} \cup AttrFields |->
     IF f \in {"base", "limit", "selector"} THEN hv_reg[f]
     ELSE IF f \in {"unusable", "padding"} THEN 0
     ELSE LET g == CASE f = "l" -> "db" [] f = "db" -> "l" [] OTHER -> f
          IN  GetBits(hv_reg.attributes, Layout[g].pos, Layout[g].width)]

(* From<hv_x64_segment_register> for SegmentRegister: base, limit and     *)
(* selector copied, unusable and padding 0, each attribute its bitfield.  *)
SegmentFromHv(hv_reg) ==
  [f \in {"base", "limit", "selector", "unusable", "padding"} \cup AttrFields |->
     IF f \in {"base", "limit", "selector"} THEN hv_reg[f]
     ELSE IF f \in {"unusable", "padding"} THEN 0
     ELSE GetBits(hv_reg.attributes, Layout[f].pos, Layout[f].width)]

(* The bindgen setter of field f, called with the value reg[f]. *)
SetAttr(w, reg, f) == SetBits(w, Layout[f].pos, Layout[f].width, reg[f])

(* The attribute word the eight setter calls build from the zero word of  *)
(* a default register, in the order of the code; Set is the setter.       *)
PackAttributes(reg, Set(_, _, _)) ==
  LET w1 == Set(0, reg, "type_")
      w2 == Set(w1, reg, "present")
      w3 == Set(w2, reg, "dpl")
      w4 == Set(w3, reg, "db")
      w5 == Set(w4, reg, "s")
      w6 == Set(w5, reg, "l")
      w7 == Set(w6, reg, "g")
  IN  Set(w7, reg, "avl")

(* Mutant: the setter of available left out. *)
SegmentToHvDropAvl(reg) ==
  [base |-> reg.base, limit |-> reg.limit, selector |-> reg.selector,
   attributes |-> PackAttributes(reg, LAMBDA w, r, f : IF f = "avl" THEN w ELSE SetAttr(w, r, f))]

(* Mutant: setters that add the value at the field's position unmasked. *)
SegmentToHvNoMask(reg) ==
  [base |-> reg.base, limit |-> reg.limit, selector |-> reg.selector,
   attributes |-> PackAttributes(reg, LAMBDA w, r, f : w + r[f] * 2 ^ Layout[f].pos)]

(* From<SegmentRegister> for hv_x64_segment_register: base, limit and     *)
(* selector copied into a default register, then each attribute set.      *)
SegmentToHv(reg) ==
  [base |-> reg.base, limit |-> reg.limit, selector |-> reg.selector,
   attributes |-> PackAttributes(reg, SetAttr)]

(* From<hv_x64_table_register> for TableRegister. *)
TableFromHv(hv_reg) == [base |-> hv_reg.base, limit |-> hv_reg.limit]

(* From<TableRegister> for hv_x64_table_register: the pad zeroed. *)
TableToHv(reg) == [limit |-> reg.limit, base |-> reg.base, pad |-> <<0, 0, 0>>]

-----------------------------------------------------------------------------
(* A VMM getting, editing and setting a segment and a table register. *)

VARIABLES
  hv,      \* the hypervisor's registers: [seg |-> ..., tab |-> ...]
  reg,     \* the VMM's SegmentRegister
  treg,    \* the VMM's TableRegister
  got,     \* the hypervisor's registers at the last get
  out,     \* the registers packed for the next set
  edited,  \* the attributes the VMM has written since the last get
  pc       \* "idle", "edit" or "hvset"

vars == <<hv, reg, treg, got, out, edited, pc>>

(* Attribute words whose reserved bits 8-11 are zero: every combination  *)
(* of the eight attributes, each at its bit position (bits 0, 4, 5, 7,    *)
(* 12, 13, 14 and 15).                                                    *)
Words ==
  {t + s * 16 + d * 32 + p * 128 + a * 4096 + l * 8192 + b * 16384 + g * 32768 :
     t \in 0 .. 15, s \in 0 .. 1, d \in 0 .. 3, p \in 0 .. 1,
     a \in 0 .. 1, l \in 0 .. 1, b \in 0 .. 1, g \in 0 .. 1}

(* The registers of a VP: base, limit and selector are plain copies in    *)
(* both directions, so one distinct value each shows a mixed-up field.    *)
HvRegs(w) ==
  [seg |-> [base |-> 7, limit |-> 8, selector |-> 9, attributes |-> w],
   tab |-> [limit |-> 6, base |-> 5, pad |-> <<0, 0, 0>>]]

Init ==
  /\ hv \in {HvRegs(w) : w \in Words}
  /\ reg = SegmentFromHv(HvRegs(0).seg)
  /\ treg = TableFromHv(HvRegs(0).tab)
  /\ got = hv
  /\ out = hv
  /\ edited = {}
  /\ pc = "idle"

(* The VMM gets the registers of the VP and unpacks them. *)
GetRegisters ==
  /\ pc = "idle"
  /\ reg' = SegmentFromHv(hv.seg)
  /\ treg' = TableFromHv(hv.tab)
  /\ got' = hv
  /\ edited' = {}
  /\ pc' = "edit"
  /\ UNCHANGED <<hv, out>>

(* The VMM writes one attribute (or unusable) of the SegmentRegister. *)
VmmWrite(f, v) ==
  /\ pc = "edit"
  /\ Cardinality(edited) < MaxEdits
  /\ reg' = [reg EXCEPT ![f] = v]
  /\ edited' = edited \cup {f}
  /\ UNCHANGED <<hv, treg, got, out, pc>>

(* The VMM packs the registers for a set. *)
PackRegisters ==
  /\ pc = "edit"
  /\ out' = [seg |-> SegmentToHv(reg), tab |-> TableToHv(treg)]
  /\ pc' = "hvset"
  /\ UNCHANGED <<hv, reg, treg, got, edited>>

(* Set the registers of the VP. *)
SetRegisters ==
  /\ pc = "hvset"
  /\ hv' = out
  /\ pc' = "idle"
  /\ UNCHANGED <<reg, treg, got, out, edited>>

Next ==
  \/ GetRegisters
  \/ \E f \in AttrFields \cup {"unusable"}, v \in Values : VmmWrite(f, v)
  \/ PackRegisters
  \/ SetRegisters

Spec == Init /\ [][Next]_vars

-----------------------------------------------------------------------------
(* Properties. *)

U8 == 0 .. 255

(* A u16 value. *)
IsU16(n) == n \in Nat /\ n <= 65535

TypeOK ==
  /\ IsU16(hv.seg.attributes)
  /\ IsU16(out.seg.attributes)
  /\ \A f \in AttrFields \cup {"unusable", "padding"} : reg[f] \in U8
  /\ edited \subseteq AttrFields \cup {"unusable"}
  /\ pc \in {"idle", "edit", "hvset"}

(* Every attribute of reg fits its bitfield. *)
ValidAttributes(r) == \A f \in AttrFields : r[f] < 2 ^ Layout[f].width

(* Spec 4.2, pack(unpack(y)) = y: registers the VMM got and did not       *)
(* change are packed back bit for bit, the attribute word, the copied     *)
(* fields and the zero table pad included, for every attribute word.      *)
SetRestoresRegisters ==
  pc = "hvset" /\ edited = {} => out = got

(* Spec 8, unpack(pack(x)) = x: a SegmentRegister whose attributes fit    *)
(* their bitfields, edited or not, comes back from its packed form with   *)
(* the same base, limit, selector and eight attributes.                   *)
PackedAttributesRoundTrip ==
  pc = "hvset" /\ ValidAttributes(reg) =>
    \A f \in AttrFields \cup {"base", "limit", "selector"} :
      SegmentFromHv(out.seg)[f] = reg[f]

(* The codec implements SegmentTransfer: read through the getters, the    *)
(* hypervisor's registers change only by a set that stores the VMM's      *)
(* registers, each attribute cut to its bitfield and none mixed with      *)
(* another; the VMM's registers change only by a get that copies the      *)
(* hypervisor's, or by one attribute write.  Packing, and writes of       *)
(* unusable, change neither.                                              *)
SegFields == {"base", "limit", "selector"} \cup AttrFields
Transfer == INSTANCE SegmentTransfer WITH
              hvseg <- [f \in SegFields |-> SegmentFromHv(hv.seg)[f]],
              vmmseg <- [f \in SegFields |-> reg[f]],
              hvtab <- TableFromHv(hv.tab),
              vmmtab <- treg
TransferRefined == Transfer!Spec

(* Spec 3 (SegmentRegister): round-tripping through the packed form       *)
(* reproduces all eleven attributes exactly, unusable and padding         *)
(* included.                                                               *)
AllAttributesRoundTrip ==
  pc = "hvset" /\ ValidAttributes(reg) => SegmentFromHv(out.seg) = reg

-----------------------------------------------------------------------------
(* The inductive strengthening the proofs rest on. *)

(* The registers a VP can hold: copied fields as given, any attribute     *)
(* word whose reserved bits are zero, the table pad zero.                 *)
HvStates == {HvRegs(w) : w \in Words}

(* What the VMM's registers keep of the last get: the copied fields, the *)
(* unwritten attributes, and the zero padding.                            *)
RegsFromGot ==
  /\ DOMAIN reg = {"base", "limit", "selector", "unusable", "padding"} \cup AttrFields
  /\ reg.base = got.seg.base /\ reg.limit = got.seg.limit /\ reg.selector = got.seg.selector
  /\ reg.padding = 0
  /\ treg = TableFromHv(got.tab)
  /\ pc \in {"edit", "hvset"} =>
       \A f \in AttrFields \ edited : reg[f] = SegmentFromHv(got.seg)[f]

(* Between pack and set, out is what the VMM's registers pack to. *)
PackedPhase == pc = "hvset" => out = [seg |-> SegmentToHv(reg), tab |-> TableToHv(treg)]

IInv ==
  /\ TypeOK
  /\ hv \in HvStates /\ got \in HvStates /\ out \in HvStates
  /\ RegsFromGot
  /\ PackedPhase

====
