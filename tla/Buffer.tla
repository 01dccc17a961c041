------------------------------- MODULE Buffer -------------------------------
(***************************************************************************)
(* The raw aligned buffer of regs.rs (struct Buffer): an owned region of   *)
(* `size` bytes aligned to `align`, used as the transfer medium to and     *)
(* from the hypervisor.  A buffer value is a record                        *)
(*                                                                         *)
(*    [live |-> BOOLEAN, size |-> n, align |-> a, data |-> [0..n-1 -> b]]  *)
(*                                                                         *)
(* `live` is FALSE once the owner has dropped the buffer.  Bytes are       *)
(* abstract: the modules that use Buffer choose the byte values, and the   *)
(* model value Uninit stands for a byte of memory nobody has written yet:  *)
(* std::alloc::alloc does not initialise what it returns, so reading such  *)
(* a byte yields whatever the allocator left there.                        *)
(***************************************************************************)
EXTENDS Naturals

CONSTANT Uninit

(* Byte offsets 0 .. n-1 of a region of n bytes. *)
Offsets(n) == 0 .. (n - 1)

(* Buffer::new(size, align) when the allocator succeeds: a live region of  *)
(* exactly `size` bytes, none of them initialised.                         *)
BufferNew(size, align) ==
  [live |-> TRUE, size |-> size, align |-> align,
   data |-> [k \in Offsets(size) |-> Uninit]]

(* What is left of a buffer after Drop::drop: no memory at all. *)
NoBuffer == [live |-> FALSE, size |-> 0, align |-> 0, data |-> [k \in {} |-> Uninit]]

(* Buffer::size: the size of the layout it was allocated with. *)
BufferSize(b) == b.size

(* Buffer::zero_out_buf: write_bytes(buf, 0, size()). *)
ZeroOutBuf(b) == [b EXCEPT !.data = [k \in Offsets(b.size) |-> 0]]

(* b is a buffer value whose bytes are drawn from the set Byte. *)
IsBuffer(b, Byte) ==
  \/ b = NoBuffer
  \/ /\ b.live = TRUE
     /\ b.size \in Nat \ {0}
     /\ b.align \in Nat \ {0}
     /\ b.data \in [Offsets(b.size) -> Byte]
     /\ b = [live |-> b.live, size |-> b.size, align |-> b.align, data |-> b.data]

=============================================================================
