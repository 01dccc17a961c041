---------------------------- MODULE XSaveTransfer ----------------------------
(***************************************************************************)
(* What the XSAVE codec promises a VMM that saves, edits and restores the *)
(* XSAVE state of a VP (spec 4.3 and 8), with the Buffers, page rounding   *)
(* and copies abstracted away.  There are two areas: the hypervisor's     *)
(* (hv) and the VMM's XSave (area).  A get and decode moves the           *)
(* hypervisor's area to the VMM whole, in one step; a set moves the VMM's *)
(* area to the hypervisor whole; a VMM write changes one byte.            *)
(*                                                                         *)
(* XSave::try_from accepts a buffer smaller than the area (the finding of *)
(* the xsave_short_buffer run), so the abstraction keeps that outcome as  *)
(* an action of its own: a decode of an n-byte buffer the hypervisor      *)
(* refused to fill gives n bytes the allocator left and zeros past them.  *)
(* It never gives the VMM bytes of the hypervisor's area out of place.    *)
(***************************************************************************)
EXTENDS Naturals

CONSTANTS
  XSaveSize,  \* bytes of the XSAVE area
  Values,     \* byte values the VMM writes
  Uninit      \* a byte nobody has written

VARIABLES
  hv,    \* the hypervisor's XSAVE area of the VP
  area   \* the VMM's XSave

AreaOffsets == 0 .. (XSaveSize - 1)

(* The VMM starts from XSave::default(); the hypervisor holds any area. *)
Init ==
  /\ hv \in [AreaOffsets -> Nat]
  /\ area = [k \in AreaOffsets |-> 0]

(* Get into a buffer the hypervisor fills, then decode: the VMM holds the *)
(* hypervisor's area.                                                      *)
Save ==
  /\ area' = hv
  /\ UNCHANGED hv

(* Get into a buffer of n < XSaveSize bytes, which the hypervisor leaves   *)
(* as allocated, then decode: the n bytes the allocator left, then zeros. *)
ShortSave(n) ==
  /\ area' = [k \in AreaOffsets |-> IF k < n THEN Uninit ELSE 0]
  /\ UNCHANGED hv

(* The VMM writes byte k of its area. *)
Write(k, v) ==
  /\ area' = [area EXCEPT ![k] = v]
  /\ UNCHANGED hv

(* Encode and set: the hypervisor holds the VMM's area. *)
Restore ==
  /\ hv' = area
  /\ UNCHANGED area

Next ==
  \/ Save
  \/ \E n \in 1 .. (XSaveSize - 1) : ShortSave(n)
  \/ \E k \in AreaOffsets, v \in Values : Write(k, v)
  \/ Restore

Spec == Init /\ [][Next]_<<hv, area>>

=============================================================================
