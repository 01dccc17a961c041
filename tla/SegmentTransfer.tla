--------------------------- MODULE SegmentTransfer ---------------------------
(***************************************************************************)
(* What the segment and table register codec promises a VMM that gets,    *)
(* edits and sets the registers of a VP (spec 3, 4.2 and 8), with the     *)
(* packed attribute word abstracted away.  A segment register is its      *)
(* base, limit, selector and eight attributes; a table register its base  *)
(* and limit.  A get hands the VMM the hypervisor's registers whole; a    *)
(* VMM write changes one attribute; a set hands the hypervisor the VMM's  *)
(* registers whole, each attribute cut to the width of its bitfield.      *)
(* unusable and padding have no place in the hypervisor's register, so    *)
(* the abstraction has none either.                                       *)
(***************************************************************************)
EXTENDS Naturals

CONSTANT Values   \* u8 values the VMM writes into attributes

VARIABLES
  hvseg,   \* the hypervisor's segment register
  vmmseg,  \* the VMM's SegmentRegister
  hvtab,   \* the hypervisor's table register
  vmmtab   \* the VMM's TableRegister

(* The bit width of each attribute of the hypervisor's register. *)
Width ==
  [type_ |-> 4, s |-> 1, dpl |-> 2, present |-> 1,
   avl |-> 1, l |-> 1, db |-> 1, g |-> 1]
Copied == {"base", "limit", "selector"}
Fields == Copied \cup DOMAIN Width

(* Every attribute of r fits its bitfield. *)
Fits(r) == \A f \in DOMAIN Width : r[f] < 2 ^ Width[f]

Init ==
  /\ hvseg \in {r \in [Fields -> Nat] : Fits(r)}
  /\ vmmseg \in [Fields -> Nat]
  /\ hvtab \in [{"base", "limit"} -> Nat]
  /\ vmmtab \in [{"base", "limit"} -> Nat]

(* Get the registers of the VP and unpack them. *)
Get ==
  /\ vmmseg' = hvseg
  /\ vmmtab' = hvtab
  /\ UNCHANGED <<hvseg, hvtab>>

(* The VMM writes attribute f. *)
Write(f, v) ==
  /\ vmmseg' = [vmmseg EXCEPT ![f] = v]
  /\ UNCHANGED <<hvseg, hvtab, vmmtab>>

(* Pack the registers and set them: each attribute keeps the low bits    *)
(* its bitfield holds.                                                    *)
Set ==
  /\ hvseg' = [f \in Fields |-> IF f \in Copied THEN vmmseg[f]
                                ELSE vmmseg[f] % 2 ^ Width[f]]
  /\ hvtab' = vmmtab
  /\ UNCHANGED <<vmmseg, vmmtab>>

Next ==
  \/ Get
  \/ \E f \in DOMAIN Width, v \in Values : Write(f, v)
  \/ Set

Spec == Init /\ [][Next]_<<hvseg, vmmseg, hvtab, vmmtab>>

=============================================================================
