-------------------------- MODULE LapicCodec_proofs --------------------------
(***************************************************************************)
(* Proofs about the LAPIC codec, for every page size, page shift, record  *)
(* size, vector width and choice of get-buffer sizes LapicAssumption      *)
(* allows.                                                                 *)
(*                                                                         *)
(* TryFrom<&LapicState> for Buffer allocates num_pages * HV_PAGE_SIZE      *)
(* bytes and writes the whole hv_local_interrupt_controller_state at its  *)
(* start.  Encode is the only step that enters "hvset", and it does so    *)
(* with that Buffer; nothing changes the Buffer again before the set      *)
(* (EncodePhase).  The page-rounded size covers the record because the    *)
(* page shift is no larger than the page (RoundedPagesCover).             *)
(*                                                                         *)
(* What decode computes (the register file and the PPR) is defined by     *)
(* recursion over the NW vector words; that is induction over data and    *)
(* stays with TLC (PprIsHighestInService, RoundTrip).                     *)
(***************************************************************************)
EXTENDS LapicCodec, PageArithmetic, TLAPS

USE LapicAssumption

(* The Buffer encode allocates is a natural number of bytes that holds   *)
(* the record.                                                            *)
LEMMA BufferCovers == EncodeBufferSize \in Nat /\ HvStateSize <= EncodeBufferSize
BY RoundedPagesCover DEF EncodeBufferSize

LEMMA InitPhase == Init => EncodePhase
BY DEF Init, EncodePhase, NoBuf

LEMMA StartGetStep ==
  ASSUME EncodePhase, NEW size \in GetSizes, StartGet(size)
  PROVE  EncodePhase'
BY DEF EncodePhase, StartGet

LEMMA HvGetStep ==
  ASSUME EncodePhase, HvGetLapic
  PROVE  EncodePhase'
BY DEF EncodePhase, HvGetLapic

LEMMA DecodeStep ==
  ASSUME EncodePhase, Decode
  PROVE  EncodePhase'
BY DEF EncodePhase, Decode, NoBuf

LEMMA VmmWriteStep ==
  ASSUME EncodePhase, NEW s \in EditSlots, NEW v \in Values, VmmWrite(s, v)
  PROVE  EncodePhase'
BY DEF EncodePhase, VmmWrite

(* Encode either fails with ENOMEM and stays in "edit", or enters "hvset" *)
(* with the page-rounded Buffer.                                          *)
LEMMA EncodeStep ==
  ASSUME EncodePhase, Encode
  PROVE  EncodePhase'
<1>1. CASE ret' = "enomem" /\ UNCHANGED <<buf, pc>>
  BY <1>1 DEF EncodePhase, Encode
<1>2. CASE buf' = [size |-> EncodeBufferSize, rec |-> LapicEncode(regs)] /\ pc' = "hvset"
  BY <1>2, BufferCovers DEF EncodePhase
<1>3. QED
  BY <1>1, <1>2 DEF Encode

LEMMA HvSetStep ==
  ASSUME EncodePhase, HvSetLapic
  PROVE  EncodePhase'
BY DEF EncodePhase, HvSetLapic, NoBuf

LEMMA NextPhase == EncodePhase /\ [Next]_vars => EncodePhase'
<1> SUFFICES ASSUME EncodePhase, [Next]_vars PROVE EncodePhase'
  OBVIOUS
<1>1. CASE \E size \in GetSizes : StartGet(size)
  BY <1>1, StartGetStep
<1>2. CASE HvGetLapic
  BY <1>2, HvGetStep
<1>3. CASE Decode
  BY <1>3, DecodeStep
<1>4. CASE \E s \in EditSlots, v \in Values : VmmWrite(s, v)
  BY <1>4, VmmWriteStep
<1>5. CASE Encode
  BY <1>5, EncodeStep
<1>6. CASE HvSetLapic
  BY <1>6, HvSetStep
<1>7. CASE UNCHANGED vars
  BY <1>7 DEF EncodePhase, vars
<1>8. QED
  BY <1>1, <1>2, <1>3, <1>4, <1>5, <1>6, <1>7 DEF Next

(* Every reachable state satisfies EncodePhase. *)
THEOREM PhaseInvariance == Spec => []EncodePhase
BY InitPhase, NextPhase, PTL DEF Spec

(* For every page size, page shift and record size the assumption allows, *)
(* the Buffer TryFrom<&LapicState> for Buffer hands to set LAPIC state   *)
(* holds the whole record: the write of *hv_state never runs past the     *)
(* allocation.                                                             *)
THEOREM EncodeAlwaysFits == Spec => []EncodeFits
<1>1. EncodePhase => EncodeFits
  BY BufferCovers DEF EncodePhase, EncodeFits
<1>2. QED
  BY <1>1, PhaseInvariance, PTL

=============================================================================
