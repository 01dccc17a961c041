------------------------- MODULE SegmentCodec_proofs -------------------------
(***************************************************************************)
(* Proofs about the segment and table register codec, for every set of    *)
(* values a VMM writes.  An attribute word with its reserved bits zero is  *)
(* a sum of eight digits, one per attribute at its bit position (Sum), and *)
(* the bitfield getters read those digits back (WordDigits, UnpackWord).   *)
(* Each bindgen setter is SetBits at a literal position (SetAttrValues);   *)
(* called on a word whose field is still zero it adds its digit, so the    *)
(* eight setter calls of From<SegmentRegister> build the sum of the        *)
(* attributes, each reduced to its width (PackSum).  From these the        *)
(* get/edit/pack/set cycle keeps the inductive invariant IInv, and the two *)
(* round-trip properties follow.                                           *)
(***************************************************************************)
EXTENDS SegmentCodec, TLAPS

USE SegmentAssumption

(* An attribute word from its eight digits, in the form Words uses. *)
Sum(t, s, d, p, a, l, b, g) ==
  t + s * 16 + d * 32 + p * 128 + a * 4096 + l * 8192 + b * 16384 + g * 32768

(* The digits of a SegmentRegister's attributes, each cut to its width. *)
Packed(sr) ==
  Sum(sr.type_ % 16, sr.s % 2, sr.dpl % 4, sr.present % 2,
      sr.avl % 2, sr.l % 2, sr.db % 2, sr.g % 2)

(* The bit positions and widths of the attribute fields. *)
LEMMA LayoutValues ==
  /\ Layout.type_ = [pos |-> 0, width |-> 4]
  /\ Layout.s = [pos |-> 4, width |-> 1]
  /\ Layout.dpl = [pos |-> 5, width |-> 2]
  /\ Layout.present = [pos |-> 7, width |-> 1]
  /\ Layout.avl = [pos |-> 12, width |-> 1]
  /\ Layout.l = [pos |-> 13, width |-> 1]
  /\ Layout.db = [pos |-> 14, width |-> 1]
  /\ Layout.g = [pos |-> 15, width |-> 1]
  /\ AttrFields = {"type_", "s", "dpl", "present", "avl", "l", "db", "g"}
BY DEF Layout, AttrFields

(* Every word of Words is a sum of in-range digits. *)
LEMMA WordsDigits ==
  ASSUME NEW w \in Words
  PROVE  \E t \in 0 .. 15, s \in 0 .. 1, d \in 0 .. 3, p \in 0 .. 1,
            a \in 0 .. 1, l \in 0 .. 1, b \in 0 .. 1, g \in 0 .. 1 :
            w = Sum(t, s, d, p, a, l, b, g)
BY SMT DEF Sum, Words

(* Each bindgen setter is SetBits at its field's position and width. *)
LEMMA SetAttrValues ==
  ASSUME NEW w, NEW sr
  PROVE  /\ SetAttr(w, sr, "type_") = SetBits(w, 0, 4, sr.type_)
         /\ SetAttr(w, sr, "present") = SetBits(w, 7, 1, sr.present)
         /\ SetAttr(w, sr, "dpl") = SetBits(w, 5, 2, sr.dpl)
         /\ SetAttr(w, sr, "db") = SetBits(w, 14, 1, sr.db)
         /\ SetAttr(w, sr, "s") = SetBits(w, 4, 1, sr.s)
         /\ SetAttr(w, sr, "l") = SetBits(w, 13, 1, sr.l)
         /\ SetAttr(w, sr, "g") = SetBits(w, 15, 1, sr.g)
         /\ SetAttr(w, sr, "avl") = SetBits(w, 12, 1, sr.avl)
BY LayoutValues DEF SetAttr

(* The eight setter calls of From<SegmentRegister>, in the code's order,  *)
(* build the sum of the attributes cut to their widths: each call finds   *)
(* its field still zero and adds its digit.                               *)
LEMMA PackSum ==
  ASSUME NEW sr, \A f \in AttrFields : sr[f] \in Nat
  PROVE  PackAttributes(sr, SetAttr) = Packed(sr)
<1> DEFINE t == sr.type_ % 16
<1> DEFINE s == sr.s % 2
<1> DEFINE d == sr.dpl % 4
<1> DEFINE p == sr.present % 2
<1> DEFINE a == sr.avl % 2
<1> DEFINE l == sr.l % 2
<1> DEFINE b == sr.db % 2
<1> DEFINE g == sr.g % 2
<1>0. /\ sr.type_ \in Nat /\ sr.s \in Nat /\ sr.dpl \in Nat /\ sr.present \in Nat
      /\ sr.avl \in Nat /\ sr.l \in Nat /\ sr.db \in Nat /\ sr.g \in Nat
  BY LayoutValues
<1>1. /\ t \in 0 .. 15 /\ s \in 0 .. 1 /\ d \in 0 .. 3 /\ p \in 0 .. 1
      /\ a \in 0 .. 1 /\ l \in 0 .. 1 /\ b \in 0 .. 1 /\ g \in 0 .. 1
  BY <1>0, SMT
<1>2. SetAttr(0, sr, "type_") = Sum(t, 0, 0, 0, 0, 0, 0, 0)
  <2>1. GetBits(0, 0, 4) = 0
    BY SMT DEF GetBits
  <2>2. QED
    BY <2>1, <1>0, SetAttrValues, SMT DEF SetBits, Sum
<1>3. SetAttr(Sum(t, 0, 0, 0, 0, 0, 0, 0), sr, "present") = Sum(t, 0, 0, p, 0, 0, 0, 0)
  <2>1. GetBits(Sum(t, 0, 0, 0, 0, 0, 0, 0), 7, 1) = 0
    BY <1>1, SMT DEF GetBits, Sum
  <2>2. QED
    BY <2>1, <1>0, SetAttrValues, SMT DEF SetBits, Sum
<1>4. SetAttr(Sum(t, 0, 0, p, 0, 0, 0, 0), sr, "dpl") = Sum(t, 0, d, p, 0, 0, 0, 0)
  <2>1. GetBits(Sum(t, 0, 0, p, 0, 0, 0, 0), 5, 2) = 0
    BY <1>1, SMT DEF GetBits, Sum
  <2>2. QED
    BY <2>1, <1>0, SetAttrValues, SMT DEF SetBits, Sum
<1>5. SetAttr(Sum(t, 0, d, p, 0, 0, 0, 0), sr, "db") = Sum(t, 0, d, p, 0, 0, b, 0)
  <2>1. GetBits(Sum(t, 0, d, p, 0, 0, 0, 0), 14, 1) = 0
    BY <1>1, SMT DEF GetBits, Sum
  <2>2. QED
    BY <2>1, <1>0, SetAttrValues, SMT DEF SetBits, Sum
<1>6. SetAttr(Sum(t, 0, d, p, 0, 0, b, 0), sr, "s") = Sum(t, s, d, p, 0, 0, b, 0)
  <2>1. GetBits(Sum(t, 0, d, p, 0, 0, b, 0), 4, 1) = 0
    BY <1>1, SMT DEF GetBits, Sum
  <2>2. QED
    BY <2>1, <1>0, SetAttrValues, SMT DEF SetBits, Sum
<1>7. SetAttr(Sum(t, s, d, p, 0, 0, b, 0), sr, "l") = Sum(t, s, d, p, 0, l, b, 0)
  <2>1. GetBits(Sum(t, s, d, p, 0, 0, b, 0), 13, 1) = 0
    BY <1>1, SMT DEF GetBits, Sum
  <2>2. QED
    BY <2>1, <1>0, SetAttrValues, SMT DEF SetBits, Sum
<1>8. SetAttr(Sum(t, s, d, p, 0, l, b, 0), sr, "g") = Sum(t, s, d, p, 0, l, b, g)
  <2>1. GetBits(Sum(t, s, d, p, 0, l, b, 0), 15, 1) = 0
    BY <1>1, SMT DEF GetBits, Sum
  <2>2. QED
    BY <2>1, <1>0, SetAttrValues, SMT DEF SetBits, Sum
<1>9. SetAttr(Sum(t, s, d, p, 0, l, b, g), sr, "avl") = Sum(t, s, d, p, a, l, b, g)
  <2>1. GetBits(Sum(t, s, d, p, 0, l, b, g), 12, 1) = 0
    BY <1>1, SMT DEF GetBits, Sum
  <2>2. QED
    BY <2>1, <1>0, SetAttrValues, SMT DEF SetBits, Sum
<1>10. QED
  BY <1>2, <1>3, <1>4, <1>5, <1>6, <1>7, <1>8, <1>9 DEF PackAttributes, Packed

(* Every word of Words is the sum of its own digits, each in range. *)
LEMMA WordDigits ==
  ASSUME NEW w \in Words
  PROVE  /\ GetBits(w, 0, 4) \in 0 .. 15 /\ GetBits(w, 4, 1) \in 0 .. 1
         /\ GetBits(w, 5, 2) \in 0 .. 3 /\ GetBits(w, 7, 1) \in 0 .. 1
         /\ GetBits(w, 12, 1) \in 0 .. 1 /\ GetBits(w, 13, 1) \in 0 .. 1
         /\ GetBits(w, 14, 1) \in 0 .. 1 /\ GetBits(w, 15, 1) \in 0 .. 1
         /\ w = Sum(GetBits(w, 0, 4), GetBits(w, 4, 1), GetBits(w, 5, 2), GetBits(w, 7, 1),
                    GetBits(w, 12, 1), GetBits(w, 13, 1), GetBits(w, 14, 1), GetBits(w, 15, 1))
<1>1. PICK t \in 0 .. 15, s \in 0 .. 1, d \in 0 .. 3, p \in 0 .. 1,
           a \in 0 .. 1, l \in 0 .. 1, b \in 0 .. 1, g \in 0 .. 1 :
             w = Sum(t, s, d, p, a, l, b, g)
  BY WordsDigits
<1>2. /\ GetBits(w, 0, 4) = t /\ GetBits(w, 4, 1) = s
      /\ GetBits(w, 5, 2) = d /\ GetBits(w, 7, 1) = p
      /\ GetBits(w, 12, 1) = a /\ GetBits(w, 13, 1) = l
      /\ GetBits(w, 14, 1) = b /\ GetBits(w, 15, 1) = g
  BY <1>1, SMT DEF GetBits, Sum
<1>3. QED
  BY <1>1, <1>2

(* Every word of Words is a u16. *)
LEMMA WordsU16 ==
  ASSUME NEW w \in Words
  PROVE  IsU16(w)
<1>1. PICK t \in 0 .. 15, s \in 0 .. 1, d \in 0 .. 3, p \in 0 .. 1,
           a \in 0 .. 1, l \in 0 .. 1, b \in 0 .. 1, g \in 0 .. 1 :
             w = Sum(t, s, d, p, a, l, b, g)
  BY WordsDigits
<1>2. QED
  BY <1>1, SMT DEF Sum, IsU16

(* The getters of From<hv_x64_segment_register> read each attribute from *)
(* its bitfield, and the copied fields are copied.                       *)
LEMMA UnpackFields ==
  ASSUME NEW x
  PROVE  LET r == SegmentFromHv(x)
         IN  /\ r.type_ = GetBits(x.attributes, 0, 4) /\ r.s = GetBits(x.attributes, 4, 1)
             /\ r.dpl = GetBits(x.attributes, 5, 2) /\ r.present = GetBits(x.attributes, 7, 1)
             /\ r.avl = GetBits(x.attributes, 12, 1) /\ r.l = GetBits(x.attributes, 13, 1)
             /\ r.db = GetBits(x.attributes, 14, 1) /\ r.g = GetBits(x.attributes, 15, 1)
             /\ r.base = x.base /\ r.limit = x.limit /\ r.selector = x.selector
             /\ r.unusable = 0 /\ r.padding = 0
             /\ DOMAIN r = {"base", "limit", "selector", "unusable", "padding"} \cup AttrFields
<1> DEFINE r == SegmentFromHv(x)
<1>1. \A f \in AttrFields : r[f] = GetBits(x.attributes, Layout[f].pos, Layout[f].width)
  BY LayoutValues DEF SegmentFromHv
<1>2. /\ r.type_ = GetBits(x.attributes, 0, 4) /\ r.s = GetBits(x.attributes, 4, 1)
      /\ r.dpl = GetBits(x.attributes, 5, 2) /\ r.present = GetBits(x.attributes, 7, 1)
      /\ r.avl = GetBits(x.attributes, 12, 1) /\ r.l = GetBits(x.attributes, 13, 1)
      /\ r.db = GetBits(x.attributes, 14, 1) /\ r.g = GetBits(x.attributes, 15, 1)
  BY <1>1, LayoutValues
<1>3. /\ r.base = x.base /\ r.limit = x.limit /\ r.selector = x.selector
      /\ r.unusable = 0 /\ r.padding = 0
      /\ DOMAIN r = {"base", "limit", "selector", "unusable", "padding"} \cup AttrFields
  BY DEF SegmentFromHv
<1>4. QED
  BY <1>2, <1>3

(* Unpacking a word of Words gives in-range attributes whose sum is the   *)
(* word.                                                                  *)
LEMMA UnpackWord ==
  ASSUME NEW x, x.attributes \in Words
  PROVE  LET r == SegmentFromHv(x)
         IN  /\ r.type_ \in 0 .. 15 /\ r.s \in 0 .. 1 /\ r.dpl \in 0 .. 3
             /\ r.present \in 0 .. 1 /\ r.avl \in 0 .. 1 /\ r.l \in 0 .. 1
             /\ r.db \in 0 .. 1 /\ r.g \in 0 .. 1
             /\ x.attributes = Sum(r.type_, r.s, r.dpl, r.present, r.avl, r.l, r.db, r.g)
BY WordDigits, UnpackFields

(* The digits of a register whose attributes are naturals form a word of *)
(* Words.                                                                 *)
LEMMA PackedInWords ==
  ASSUME NEW sr, \A f \in AttrFields : sr[f] \in Nat
  PROVE  Packed(sr) \in Words
<1>1. /\ sr.type_ \in Nat /\ sr.s \in Nat /\ sr.dpl \in Nat /\ sr.present \in Nat
      /\ sr.avl \in Nat /\ sr.l \in Nat /\ sr.db \in Nat /\ sr.g \in Nat
  BY LayoutValues
<1>2. /\ sr.type_ % 16 \in 0 .. 15 /\ sr.s % 2 \in 0 .. 1 /\ sr.dpl % 4 \in 0 .. 3
      /\ sr.present % 2 \in 0 .. 1 /\ sr.avl % 2 \in 0 .. 1 /\ sr.l % 2 \in 0 .. 1
      /\ sr.db % 2 \in 0 .. 1 /\ sr.g % 2 \in 0 .. 1
  BY <1>1, SMT
<1>3. \A t \in 0 .. 15, s \in 0 .. 1, d \in 0 .. 3, p \in 0 .. 1,
         a \in 0 .. 1, l \in 0 .. 1, b \in 0 .. 1, g \in 0 .. 1 :
         Sum(t, s, d, p, a, l, b, g) \in Words
  BY SMT DEF Sum, Words
<1>4. QED
  BY <1>2, <1>3, Zenon DEF Packed

(* Spec 4.2, pack(unpack(y)) = y: the setters put back every attribute    *)
(* word whose reserved bits are zero.                                     *)
LEMMA PackUnpack ==
  ASSUME NEW x, x.attributes \in Words
  PROVE  PackAttributes(SegmentFromHv(x), SetAttr) = x.attributes
<1> DEFINE r == SegmentFromHv(x)
<1>1. /\ r.type_ \in 0 .. 15 /\ r.s \in 0 .. 1 /\ r.dpl \in 0 .. 3
      /\ r.present \in 0 .. 1 /\ r.avl \in 0 .. 1 /\ r.l \in 0 .. 1
      /\ r.db \in 0 .. 1 /\ r.g \in 0 .. 1
      /\ x.attributes = Sum(r.type_, r.s, r.dpl, r.present, r.avl, r.l, r.db, r.g)
  BY UnpackWord
<1>2. \A f \in AttrFields : r[f] \in Nat
  BY <1>1, LayoutValues
<1>3. Packed(r) = x.attributes
  BY <1>1, SMT DEF Packed
<1>4. QED
  BY <1>2, <1>3, PackSum

(* The getters read back each attribute of a register whose attributes *)
(* are in range from the sum of its attributes.                          *)
LEMMA SumDigits ==
  ASSUME NEW sr,
         sr.type_ \in 0 .. 15, sr.s \in 0 .. 1, sr.dpl \in 0 .. 3, sr.present \in 0 .. 1,
         sr.avl \in 0 .. 1, sr.l \in 0 .. 1, sr.db \in 0 .. 1, sr.g \in 0 .. 1
  PROVE  GetBits(Sum(sr.type_, sr.s, sr.dpl, sr.present, sr.avl, sr.l, sr.db, sr.g), 0, 4) = sr.type_
         /\ GetBits(Sum(sr.type_, sr.s, sr.dpl, sr.present, sr.avl, sr.l, sr.db, sr.g), 4, 1) = sr.s
         /\ GetBits(Sum(sr.type_, sr.s, sr.dpl, sr.present, sr.avl, sr.l, sr.db, sr.g), 5, 2) = sr.dpl
         /\ GetBits(Sum(sr.type_, sr.s, sr.dpl, sr.present, sr.avl, sr.l, sr.db, sr.g), 7, 1) = sr.present
         /\ GetBits(Sum(sr.type_, sr.s, sr.dpl, sr.present, sr.avl, sr.l, sr.db, sr.g), 12, 1) = sr.avl
         /\ GetBits(Sum(sr.type_, sr.s, sr.dpl, sr.present, sr.avl, sr.l, sr.db, sr.g), 13, 1) = sr.l
         /\ GetBits(Sum(sr.type_, sr.s, sr.dpl, sr.present, sr.avl, sr.l, sr.db, sr.g), 14, 1) = sr.db
         /\ GetBits(Sum(sr.type_, sr.s, sr.dpl, sr.present, sr.avl, sr.l, sr.db, sr.g), 15, 1) = sr.g
<1>1. PICK t \in 0 .. 15, s \in 0 .. 1, d \in 0 .. 3, p \in 0 .. 1,
           a \in 0 .. 1, l \in 0 .. 1, b \in 0 .. 1, g \in 0 .. 1 :
             /\ t = sr.type_ /\ s = sr.s /\ d = sr.dpl /\ p = sr.present
             /\ a = sr.avl /\ l = sr.l /\ b = sr.db /\ g = sr.g
  OBVIOUS
<1>2. /\ GetBits(Sum(t, s, d, p, a, l, b, g), 0, 4) = t /\ GetBits(Sum(t, s, d, p, a, l, b, g), 4, 1) = s
      /\ GetBits(Sum(t, s, d, p, a, l, b, g), 5, 2) = d /\ GetBits(Sum(t, s, d, p, a, l, b, g), 7, 1) = p
  BY SMT DEF GetBits, Sum
<1>3. /\ GetBits(Sum(t, s, d, p, a, l, b, g), 12, 1) = a /\ GetBits(Sum(t, s, d, p, a, l, b, g), 13, 1) = l
      /\ GetBits(Sum(t, s, d, p, a, l, b, g), 14, 1) = b /\ GetBits(Sum(t, s, d, p, a, l, b, g), 15, 1) = g
  BY SMT DEF GetBits, Sum
<1>4. QED
  BY <1>1, <1>2, <1>3

(* Spec 8, unpack(pack(x)) = x: every attribute that fits its bitfield    *)
(* comes back from the packed word.                                       *)
LEMMA UnpackPack ==
  ASSUME NEW sr, \A f \in AttrFields : sr[f] \in Nat, ValidAttributes(sr)
  PROVE  \A f \in AttrFields : SegmentFromHv(SegmentToHv(sr))[f] = sr[f]
<1> DEFINE y == SegmentToHv(sr)
<1> DEFINE r == SegmentFromHv(y)
<1>1. /\ sr.type_ \in 0 .. 15 /\ sr.s \in 0 .. 1 /\ sr.dpl \in 0 .. 3
      /\ sr.present \in 0 .. 1 /\ sr.avl \in 0 .. 1 /\ sr.l \in 0 .. 1
      /\ sr.db \in 0 .. 1 /\ sr.g \in 0 .. 1
  <2>1. /\ sr.type_ < 2 ^ 4 /\ sr.s < 2 ^ 1 /\ sr.dpl < 2 ^ 2 /\ sr.present < 2 ^ 1
        /\ sr.avl < 2 ^ 1 /\ sr.l < 2 ^ 1 /\ sr.db < 2 ^ 1 /\ sr.g < 2 ^ 1
    <3>1. /\ sr.type_ < 2 ^ Layout.type_.width /\ sr.s < 2 ^ Layout.s.width
          /\ sr.dpl < 2 ^ Layout.dpl.width /\ sr.present < 2 ^ Layout.present.width
          /\ sr.avl < 2 ^ Layout.avl.width /\ sr.l < 2 ^ Layout.l.width
          /\ sr.db < 2 ^ Layout.db.width /\ sr.g < 2 ^ Layout.g.width
      BY LayoutValues, Zenon DEF ValidAttributes
    <3>2. /\ Layout.type_.width = 4 /\ Layout.s.width = 1 /\ Layout.dpl.width = 2
          /\ Layout.present.width = 1 /\ Layout.avl.width = 1 /\ Layout.l.width = 1
          /\ Layout.db.width = 1 /\ Layout.g.width = 1
      BY LayoutValues
    <3>3. QED
      BY <3>1, <3>2, Zenon
  <2>2. /\ sr.type_ \in Nat /\ sr.s \in Nat /\ sr.dpl \in Nat /\ sr.present \in Nat
        /\ sr.avl \in Nat /\ sr.l \in Nat /\ sr.db \in Nat /\ sr.g \in Nat
    BY LayoutValues
  <2>3. QED
    BY <2>1, <2>2, SMT
<1>2. y.attributes = Sum(sr.type_, sr.s, sr.dpl, sr.present, sr.avl, sr.l, sr.db, sr.g)
  <2>1. y.attributes = Packed(sr)
    BY PackSum DEF SegmentToHv
  <2>2. Packed(sr) = Sum(sr.type_, sr.s, sr.dpl, sr.present, sr.avl, sr.l, sr.db, sr.g)
    BY <1>1, SMT DEF Packed
  <2>3. QED
    BY <2>1, <2>2
<1>3. /\ r.type_ = GetBits(y.attributes, 0, 4) /\ r.s = GetBits(y.attributes, 4, 1)
      /\ r.dpl = GetBits(y.attributes, 5, 2) /\ r.present = GetBits(y.attributes, 7, 1)
      /\ r.avl = GetBits(y.attributes, 12, 1) /\ r.l = GetBits(y.attributes, 13, 1)
      /\ r.db = GetBits(y.attributes, 14, 1) /\ r.g = GetBits(y.attributes, 15, 1)
  BY UnpackFields
<1>4. /\ r.type_ = sr.type_ /\ r.s = sr.s /\ r.dpl = sr.dpl /\ r.present = sr.present
      /\ r.avl = sr.avl /\ r.l = sr.l /\ r.db = sr.db /\ r.g = sr.g
  BY <1>1, <1>2, <1>3, SumDigits
<1>5. QED
  BY <1>4, LayoutValues

-----------------------------------------------------------------------------
(* The get/edit/pack/set cycle keeps IInv. *)

(* The VMM's unpacked register of a VP's register: its attributes are the *)
(* word's digits, so each is a u8, and its copied fields are the VP's.    *)
LEMMA UnpackHv ==
  ASSUME NEW x \in HvStates
  PROVE  LET r == SegmentFromHv(x.seg)
         IN  /\ \A f \in AttrFields \cup {"unusable", "padding"} : r[f] \in U8
             /\ DOMAIN r = {"base", "limit", "selector", "unusable", "padding"} \cup AttrFields
             /\ r.base = x.seg.base /\ r.limit = x.seg.limit /\ r.selector = x.seg.selector
             /\ r.padding = 0
<1>1. PICK w \in Words : x = HvRegs(w)
  BY DEF HvStates
<1> DEFINE r == SegmentFromHv(x.seg)
<1>2. /\ r.type_ \in 0 .. 15 /\ r.s \in 0 .. 1 /\ r.dpl \in 0 .. 3
      /\ r.present \in 0 .. 1 /\ r.avl \in 0 .. 1 /\ r.l \in 0 .. 1
      /\ r.db \in 0 .. 1 /\ r.g \in 0 .. 1
  BY <1>1, UnpackWord DEF HvRegs
<1>3. /\ r.base = x.seg.base /\ r.limit = x.seg.limit /\ r.selector = x.seg.selector
      /\ r.unusable = 0 /\ r.padding = 0
      /\ DOMAIN r = {"base", "limit", "selector", "unusable", "padding"} \cup AttrFields
  BY UnpackFields
<1>4. \A f \in AttrFields \cup {"unusable", "padding"} : r[f] \in U8
  BY <1>2, <1>3, LayoutValues, SMT DEF U8
<1>5. QED
  BY <1>3, <1>4

(* The registers the VMM packs are registers a VP can hold. *)
LEMMA PackInHvStates ==
  ASSUME NEW sr, NEW treg0, NEW x \in HvStates,
         \A f \in AttrFields : sr[f] \in Nat,
         sr.base = x.seg.base, sr.limit = x.seg.limit, sr.selector = x.seg.selector,
         treg0 = TableFromHv(x.tab)
  PROVE  [seg |-> SegmentToHv(sr), tab |-> TableToHv(treg0)] \in HvStates
<1>1. PICK w \in Words : x = HvRegs(w)
  BY DEF HvStates
<1>2. PackAttributes(sr, SetAttr) \in Words
  <2>1. PackAttributes(sr, SetAttr) = Packed(sr)
    BY PackSum
  <2>2. QED
    BY <2>1, PackedInWords
<1>3. [seg |-> SegmentToHv(sr), tab |-> TableToHv(treg0)] = HvRegs(PackAttributes(sr, SetAttr))
  BY <1>1 DEF SegmentToHv, TableToHv, TableFromHv, HvRegs
<1>4. QED
  BY <1>2, <1>3 DEF HvStates

LEMMA InitIInv == Init => IInv
<1> SUFFICES ASSUME Init PROVE IInv
  OBVIOUS
<1>1. hv \in HvStates /\ got \in HvStates /\ out \in HvStates
  BY DEF Init, HvStates
<1>2. HvRegs(0) \in HvStates
  <2>1. 0 \in Words
    BY SMT DEF Words
  <2>2. QED
    BY <2>1 DEF HvStates
<1>3. IsU16(hv.seg.attributes) /\ IsU16(out.seg.attributes)
  BY <1>1, WordsU16 DEF HvStates, HvRegs
<1>4. TypeOK
  BY <1>2, <1>3, UnpackHv DEF Init, TypeOK
<1>5. RegsFromGot
  <2>1. got.seg.base = 7 /\ got.seg.limit = 8 /\ got.seg.selector = 9
        /\ got.tab = HvRegs(0).tab
    BY <1>1 DEF HvStates, HvRegs
  <2>2. LET r == SegmentFromHv(HvRegs(0).seg)
        IN  /\ DOMAIN r = {"base", "limit", "selector", "unusable", "padding"} \cup AttrFields
            /\ r.base = 7 /\ r.limit = 8 /\ r.selector = 9 /\ r.padding = 0
    <3>1. HvRegs(0).seg.base = 7 /\ HvRegs(0).seg.limit = 8 /\ HvRegs(0).seg.selector = 9
      BY DEF HvRegs
    <3>2. QED
      BY <3>1, UnpackFields
  <2>3. QED
    BY <2>1, <2>2 DEF Init, RegsFromGot
<1>6. QED
  BY <1>1, <1>4, <1>5 DEF IInv, PackedPhase, Init

LEMMA GetStep ==
  ASSUME IInv, GetRegisters
  PROVE  IInv'
<1>1. /\ \A f \in AttrFields \cup {"unusable", "padding"} : reg'[f] \in U8
      /\ DOMAIN reg' = {"base", "limit", "selector", "unusable", "padding"} \cup AttrFields
      /\ reg'.base = got'.seg.base /\ reg'.limit = got'.seg.limit
      /\ reg'.selector = got'.seg.selector /\ reg'.padding = 0
  BY UnpackHv DEF GetRegisters, IInv
<1>2. TypeOK'
  BY <1>1 DEF GetRegisters, IInv, TypeOK
<1>3. RegsFromGot'
  BY <1>1 DEF GetRegisters, RegsFromGot
<1>4. QED
  BY <1>2, <1>3 DEF GetRegisters, IInv, PackedPhase

LEMMA WriteStep ==
  ASSUME IInv, NEW f \in AttrFields \cup {"unusable"}, NEW v \in Values, VmmWrite(f, v)
  PROVE  IInv'
<1>1. /\ f \in DOMAIN reg
      /\ f \notin {"base", "limit", "selector", "padding"}
      /\ v \in U8
  BY LayoutValues DEF IInv, RegsFromGot, U8
<1>2. TypeOK'
  BY <1>1 DEF VmmWrite, IInv, TypeOK
<1>3. RegsFromGot'
  BY <1>1 DEF VmmWrite, IInv, RegsFromGot
<1>4. QED
  BY <1>2, <1>3 DEF VmmWrite, IInv, PackedPhase

LEMMA PackStep ==
  ASSUME IInv, PackRegisters
  PROVE  IInv'
<1>1. \A f \in AttrFields : reg[f] \in Nat
  BY DEF IInv, TypeOK, U8
<1>2. out' \in HvStates
  BY <1>1, PackInHvStates DEF PackRegisters, IInv, RegsFromGot
<1>3. IsU16(out'.seg.attributes)
  BY <1>2, WordsU16 DEF HvStates, HvRegs
<1>4. QED
  BY <1>2, <1>3 DEF PackRegisters, IInv, TypeOK, RegsFromGot, PackedPhase

LEMMA SetStep ==
  ASSUME IInv, SetRegisters
  PROVE  IInv'
BY DEF SetRegisters, IInv, TypeOK, RegsFromGot, PackedPhase

LEMMA NextIInv == IInv /\ [Next]_vars => IInv'
<1> SUFFICES ASSUME IInv, [Next]_vars PROVE IInv'
  OBVIOUS
<1>1. CASE GetRegisters
  BY <1>1, GetStep
<1>2. CASE \E f \in AttrFields \cup {"unusable"}, v \in Values : VmmWrite(f, v)
  BY <1>2, WriteStep
<1>3. CASE PackRegisters
  BY <1>3, PackStep
<1>4. CASE SetRegisters
  BY <1>4, SetStep
<1>5. CASE UNCHANGED vars
  BY <1>5 DEF vars, IInv, TypeOK, RegsFromGot, PackedPhase, HvStates
<1>6. QED
  BY <1>1, <1>2, <1>3, <1>4, <1>5 DEF Next

(* Every reachable state of the get/edit/pack/set cycle satisfies IInv. *)
THEOREM Invariance == Spec => []IInv
BY InitIInv, NextIInv, PTL DEF Spec

-----------------------------------------------------------------------------
(* The properties the segment_codec run checks, for every set of values. *)

LEMMA IInvRestores == IInv => SetRestoresRegisters
<1> SUFFICES ASSUME IInv, pc = "hvset", edited = {} PROVE out = got
  BY DEF SetRestoresRegisters
<1>1. PICK w \in Words : got = HvRegs(w)
  BY DEF IInv, HvStates
<1> DEFINE r == SegmentFromHv(got.seg)
<1>3. /\ r.type_ \in 0 .. 15 /\ r.s \in 0 .. 1 /\ r.dpl \in 0 .. 3
      /\ r.present \in 0 .. 1 /\ r.avl \in 0 .. 1 /\ r.l \in 0 .. 1
      /\ r.db \in 0 .. 1 /\ r.g \in 0 .. 1
      /\ w = Sum(r.type_, r.s, r.dpl, r.present, r.avl, r.l, r.db, r.g)
  BY <1>1, UnpackWord DEF HvRegs
<1>4. \A f \in AttrFields : reg[f] = r[f]
  BY DEF IInv, RegsFromGot
<1>5. /\ reg.type_ = r.type_ /\ reg.s = r.s /\ reg.dpl = r.dpl /\ reg.present = r.present
      /\ reg.avl = r.avl /\ reg.l = r.l /\ reg.db = r.db /\ reg.g = r.g
  BY <1>4, LayoutValues
<1>6. PackAttributes(reg, SetAttr) = w
  <2>1. \A f \in AttrFields : reg[f] \in Nat
    BY <1>3, <1>5, LayoutValues
  <2>2. Packed(reg) = w
    BY <1>3, <1>5, SMT DEF Packed
  <2>3. QED
    BY <2>1, <2>2, PackSum
<1>7. QED
  BY <1>1, <1>6 DEF IInv, PackedPhase, RegsFromGot, SegmentToHv, TableToHv, TableFromHv, HvRegs

LEMMA IInvRoundTrip == IInv => PackedAttributesRoundTrip
<1> SUFFICES ASSUME IInv, pc = "hvset", ValidAttributes(reg),
                    NEW f \in AttrFields \cup {"base", "limit", "selector"}
             PROVE  SegmentFromHv(out.seg)[f] = reg[f]
  BY DEF PackedAttributesRoundTrip
<1>1. out.seg = SegmentToHv(reg)
  BY DEF IInv, PackedPhase
<1>2. CASE f \in AttrFields
  <2>1. \A g \in AttrFields : reg[g] \in Nat
    BY DEF IInv, TypeOK, U8
  <2>2. QED
    BY <1>1, <1>2, <2>1, UnpackPack
<1>3. CASE f \in {"base", "limit", "selector"}
  BY <1>1, <1>3 DEF SegmentFromHv, SegmentToHv
<1>4. QED
  BY <1>2, <1>3

(* Every reachable state is well typed: the attribute words the VP and   *)
(* the packed registers hold are u16 values and every attribute the VMM  *)
(* holds is a u8, whatever u8 values it writes.                           *)
THEOREM TypeCorrect == Spec => []TypeOK
BY Invariance, PTL DEF IInv

(* Spec 4.2, pack(unpack(y)) = y: whatever attribute word a VP holds      *)
(* (reserved bits zero), a get, unpack, pack and set that the VMM does    *)
(* not edit hands the VP back exactly the registers it had, for every    *)
(* set of values the VMM may write in other cycles.                       *)
THEOREM RestoresRegisters == Spec => []SetRestoresRegisters
BY Invariance, IInvRestores, PTL

(* Spec 8, unpack(pack(x)) = x: every attribute the VMM holds that fits   *)
(* its bitfield, edited or unpacked, is read back unchanged from the      *)
(* word the eight setters pack, and so are base, limit and selector.      *)
THEOREM AttributesRoundTrip == Spec => []PackedAttributesRoundTrip
BY Invariance, IInvRoundTrip, PTL

-----------------------------------------------------------------------------
(* The refinement of SegmentTransfer.  Read through the getters, the      *)
(* packed word of any register whose attributes are naturals holds each   *)
(* attribute cut to its width (UnpackPackTruncates); a set stores that    *)
(* word, so it is SegmentTransfer's Set.  A get is its Get, an attribute  *)
(* write its Write, and packing or writing unusable moves nothing it      *)
(* sees.                                                                  *)

(* The attribute fields of the abstraction are the codec's. *)
LEMMA WidthValues ==
  /\ DOMAIN Transfer!Width = AttrFields
  /\ Transfer!Fields = SegFields
  /\ Transfer!Width.type_ = 4 /\ Transfer!Width.s = 1 /\ Transfer!Width.dpl = 2
  /\ Transfer!Width.present = 1 /\ Transfer!Width.avl = 1 /\ Transfer!Width.l = 1
  /\ Transfer!Width.db = 1 /\ Transfer!Width.g = 1
BY LayoutValues DEF Transfer!Width, Transfer!Fields, Transfer!Copied, SegFields

(* A register whose attributes lie in their digit ranges fits the        *)
(* bitfields of the abstraction.                                          *)
LEMMA FitsDigits ==
  ASSUME NEW r,
         r.type_ \in 0 .. 15, r.s \in 0 .. 1, r.dpl \in 0 .. 3, r.present \in 0 .. 1,
         r.avl \in 0 .. 1, r.l \in 0 .. 1, r.db \in 0 .. 1, r.g \in 0 .. 1
  PROVE  Transfer!Fits(r)
<1> SUFFICES ASSUME NEW f \in AttrFields PROVE r[f] < 2 ^ Transfer!Width[f]
  BY WidthValues DEF Transfer!Fits
<1>1. f \in {"type_", "s", "dpl", "present", "avl", "l", "db", "g"}
  BY LayoutValues
<1>2. 2 ^ 4 = 16 /\ 2 ^ 2 = 4 /\ 2 ^ 1 = 2
  BY SMT
<1>3. /\ r.type_ < 16 /\ r.s < 2 /\ r.dpl < 4 /\ r.present < 2
      /\ r.avl < 2 /\ r.l < 2 /\ r.db < 2 /\ r.g < 2
  BY SMT
<1>4. QED
  BY <1>1, <1>2, <1>3, WidthValues, Zenon

(* Spec 8 for any attribute values: unpacking what the setters packed    *)
(* gives back the copied fields and each attribute cut to its width.     *)
LEMMA UnpackPackTruncates ==
  ASSUME NEW sr, \A f \in AttrFields : sr[f] \in Nat
  PROVE  LET r == SegmentFromHv(SegmentToHv(sr))
         IN  /\ r.type_ = sr.type_ % 16 /\ r.s = sr.s % 2 /\ r.dpl = sr.dpl % 4
             /\ r.present = sr.present % 2 /\ r.avl = sr.avl % 2 /\ r.l = sr.l % 2
             /\ r.db = sr.db % 2 /\ r.g = sr.g % 2
             /\ r.base = sr.base /\ r.limit = sr.limit /\ r.selector = sr.selector
<1> DEFINE y == SegmentToHv(sr)
<1> DEFINE r == SegmentFromHv(y)
<1> DEFINE tr == [type_ |-> sr.type_ % 16, s |-> sr.s % 2, dpl |-> sr.dpl % 4,
                  present |-> sr.present % 2, avl |-> sr.avl % 2, l |-> sr.l % 2,
                  db |-> sr.db % 2, g |-> sr.g % 2]
<1>1. /\ sr.type_ \in Nat /\ sr.s \in Nat /\ sr.dpl \in Nat /\ sr.present \in Nat
      /\ sr.avl \in Nat /\ sr.l \in Nat /\ sr.db \in Nat /\ sr.g \in Nat
  BY LayoutValues
<1>2. /\ tr.type_ \in 0 .. 15 /\ tr.s \in 0 .. 1 /\ tr.dpl \in 0 .. 3 /\ tr.present \in 0 .. 1
      /\ tr.avl \in 0 .. 1 /\ tr.l \in 0 .. 1 /\ tr.db \in 0 .. 1 /\ tr.g \in 0 .. 1
  BY <1>1, SMT
<1>3. y.attributes = Sum(tr.type_, tr.s, tr.dpl, tr.present, tr.avl, tr.l, tr.db, tr.g)
  <2>1. y.attributes = Packed(sr)
    BY PackSum DEF SegmentToHv
  <2>2. QED
    BY <2>1 DEF Packed
<1>4. /\ r.type_ = GetBits(y.attributes, 0, 4) /\ r.s = GetBits(y.attributes, 4, 1)
      /\ r.dpl = GetBits(y.attributes, 5, 2) /\ r.present = GetBits(y.attributes, 7, 1)
      /\ r.avl = GetBits(y.attributes, 12, 1) /\ r.l = GetBits(y.attributes, 13, 1)
      /\ r.db = GetBits(y.attributes, 14, 1) /\ r.g = GetBits(y.attributes, 15, 1)
      /\ r.base = y.base /\ r.limit = y.limit /\ r.selector = y.selector
  BY UnpackFields
<1> HIDE DEF tr
<1>5. /\ r.type_ = tr.type_ /\ r.s = tr.s /\ r.dpl = tr.dpl /\ r.present = tr.present
      /\ r.avl = tr.avl /\ r.l = tr.l /\ r.db = tr.db /\ r.g = tr.g
  BY <1>2, <1>3, <1>4, SumDigits
<1> USE DEF tr
<1>6. y.base = sr.base /\ y.limit = sr.limit /\ y.selector = sr.selector
  BY DEF SegmentToHv
<1>7. QED
  BY <1>4, <1>5, <1>6

(* The initial state maps to an initial state of SegmentTransfer. *)
LEMMA InitRefines == Init => Transfer!Init
<1> SUFFICES ASSUME Init PROVE Transfer!Init
  OBVIOUS
<1>1. PICK w \in Words : hv = HvRegs(w)
  BY DEF Init
<1>2. 0 \in Words
  BY SMT DEF Words
<1>3. ASSUME NEW x \in Words
      PROVE  LET r == SegmentFromHv(HvRegs(x).seg)
             IN  /\ [f \in SegFields |-> r[f]] \in [Transfer!Fields -> Nat]
                 /\ Transfer!Fits([f \in SegFields |-> r[f]])
  <2> DEFINE r == SegmentFromHv(HvRegs(x).seg)
  <2>1. /\ r.type_ \in 0 .. 15 /\ r.s \in 0 .. 1 /\ r.dpl \in 0 .. 3
        /\ r.present \in 0 .. 1 /\ r.avl \in 0 .. 1 /\ r.l \in 0 .. 1
        /\ r.db \in 0 .. 1 /\ r.g \in 0 .. 1
        /\ r.base = 7 /\ r.limit = 8 /\ r.selector = 9
    BY UnpackWord, UnpackFields DEF HvRegs
  <2>2. [f \in SegFields |-> r[f]] \in [Transfer!Fields -> Nat]
    BY <2>1, WidthValues, LayoutValues DEF SegFields
  <2>3. Transfer!Fits([f \in SegFields |-> r[f]])
    BY <2>1, FitsDigits, LayoutValues DEF SegFields
  <2>4. QED
    BY <2>2, <2>3
<1>4. /\ TableFromHv(hv.tab) \in [{"base", "limit"} -> Nat]
      /\ treg \in [{"base", "limit"} -> Nat]
  BY <1>1 DEF Init, TableFromHv, HvRegs
<1>5. QED
  BY <1>1, <1>2, <1>3, <1>4 DEF Init, Transfer!Init

(* A set of packed registers is SegmentTransfer's Set. *)
LEMMA SetRefines ==
  ASSUME IInv, SetRegisters
  PROVE  Transfer!Set
<1>1. /\ hv' = [seg |-> SegmentToHv(reg), tab |-> TableToHv(treg)]
      /\ UNCHANGED <<reg, treg>>
  BY DEF SetRegisters, IInv, PackedPhase
<1>2. \A f \in AttrFields : reg[f] \in Nat
  BY DEF IInv, TypeOK, U8
<1> DEFINE r == SegmentFromHv(SegmentToHv(reg))
<1>3. /\ r.type_ = reg.type_ % 16 /\ r.s = reg.s % 2 /\ r.dpl = reg.dpl % 4
      /\ r.present = reg.present % 2 /\ r.avl = reg.avl % 2 /\ r.l = reg.l % 2
      /\ r.db = reg.db % 2 /\ r.g = reg.g % 2
      /\ r.base = reg.base /\ r.limit = reg.limit /\ r.selector = reg.selector
  BY <1>2, UnpackPackTruncates
<1>4. [f \in SegFields |-> r[f]]
        = [f \in Transfer!Fields |->
             IF f \in Transfer!Copied THEN [g \in SegFields |-> reg[g]][f]
             ELSE [g \in SegFields |-> reg[g]][f] % 2 ^ Transfer!Width[f]]
  <2>1. SegFields = {"base", "limit", "selector", "type_", "s", "dpl", "present",
                     "avl", "l", "db", "g"}
    BY LayoutValues DEF SegFields
  <2>2. 2 ^ 4 = 16 /\ 2 ^ 2 = 4 /\ 2 ^ 1 = 2
    BY SMT
  <2>3. Transfer!Copied = {"base", "limit", "selector"}
    BY DEF Transfer!Copied
  <2>4. \A f \in SegFields :
          r[f] = IF f \in Transfer!Copied THEN reg[f] ELSE reg[f] % 2 ^ Transfer!Width[f]
    BY <1>3, <2>1, <2>2, <2>3, WidthValues, Zenon
  <2>5. QED
    BY <2>4, WidthValues, Zenon
<1>5. TableFromHv(TableToHv(treg)) = treg
  BY DEF IInv, RegsFromGot, TableFromHv, TableToHv
<1>6. QED
  BY <1>1, <1>4, <1>5 DEF Transfer!Set

(* Every step from a reachable state is a step of SegmentTransfer on the *)
(* registers as the getters read them, or leaves them unchanged.          *)
LEMMA NextRefines ==
  IInv /\ [Next]_vars =>
    [Transfer!Next]_<<[f \in SegFields |-> SegmentFromHv(hv.seg)[f]],
                      [f \in SegFields |-> reg[f]], TableFromHv(hv.tab), treg>>
<1> SUFFICES ASSUME IInv, [Next]_vars
             PROVE  [Transfer!Next]_<<[f \in SegFields |-> SegmentFromHv(hv.seg)[f]],
                                      [f \in SegFields |-> reg[f]], TableFromHv(hv.tab), treg>>
  OBVIOUS
<1>1. CASE GetRegisters
  BY <1>1 DEF GetRegisters, Transfer!Next, Transfer!Get
<1>2. CASE \E f \in AttrFields \cup {"unusable"}, v \in Values : VmmWrite(f, v)
  <2>1. PICK f \in AttrFields \cup {"unusable"}, v \in Values : VmmWrite(f, v)
    BY <1>2
  <2>2. /\ reg' = [reg EXCEPT ![f] = v]
        /\ UNCHANGED <<hv, treg>>
        /\ SegFields \subseteq DOMAIN reg
    BY <2>1 DEF VmmWrite, IInv, RegsFromGot, SegFields
  <2>3. CASE f = "unusable"
    <3>1. "unusable" \notin SegFields
      BY LayoutValues DEF SegFields
    <3>2. QED
      BY <2>2, <2>3, <3>1
  <2>4. CASE f \in AttrFields
    <3>1. [g \in SegFields |-> reg'[g]] = [[g \in SegFields |-> reg[g]] EXCEPT ![f] = v]
      BY <2>2, <2>4 DEF SegFields
    <3>2. f \in DOMAIN Transfer!Width
      BY <2>4, WidthValues
    <3>3. QED
      BY <2>2, <3>1, <3>2 DEF Transfer!Next, Transfer!Write
  <2>5. QED
    BY <2>3, <2>4
<1>3. CASE PackRegisters
  BY <1>3 DEF PackRegisters
<1>4. CASE SetRegisters
  BY <1>4, SetRefines DEF Transfer!Next
<1>5. CASE UNCHANGED vars
  BY <1>5 DEF vars
<1>6. QED
  BY <1>1, <1>2, <1>3, <1>4, <1>5 DEF Next

(* For every set of values a VMM may write, the codec implements          *)
(* SegmentTransfer: read through the getters, a set hands the hypervisor  *)
(* exactly the VMM's base, limit, selector and attributes, each cut to    *)
(* its bitfield, and the VMM's table register; a get hands the VMM the     *)
(* hypervisor's registers; nothing else moves either side.               *)
THEOREM Refinement == Spec => TransferRefined
BY Invariance, InitRefines, NextRefines, PTL DEF Spec, TransferRefined, Transfer!Spec

=============================================================================
