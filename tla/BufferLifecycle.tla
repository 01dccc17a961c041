--------------------------- MODULE BufferLifecycle ---------------------------
(***************************************************************************)
(* The lifecycle of struct Buffer of regs.rs against the global allocator. *)
(* The allocator's state is the set of blocks it has handed out and the    *)
(* layout each was allocated with; a client holds Buffer values, each a    *)
(* pointer and a layout (both pub fields), and may call every public       *)
(* operation on them: Buffer::new, dealloc, zero_out_buf, assignment to    *)
(* the pub layout or buf field, a Buffer built by a struct literal from    *)
(* the pub fields, and dropping the value (Drop::drop, which calls         *)
(* dealloc).  size() only reads and is not a step.                         *)
(*                                                                         *)
(* Memory operations the Rust abstract machine leaves undefined (freeing a *)
(* block twice or with another layout, writing a freed block or past the   *)
(* end of one) end the model in a state that records which one happened:   *)
(* after undefined behaviour nothing about the program is known.  A        *)
(* zero-size request, also undefined for GlobalAlloc::alloc, is modelled by *)
(* what the system allocator does with it: it returns null or a block.     *)
(***************************************************************************)
EXTENDS Naturals, Sequences

CONSTANTS
  Addr,        \* the addresses of the blocks the allocator can hand out
  Null,        \* the null pointer
  Sizes,       \* sizes a client may pass to Buffer::new
  Aligns,      \* alignments a client may pass to Buffer::new
  MaxBuffers   \* how many Buffer::new calls a behaviour makes at most

ASSUME LifecycleAssumption ==
  /\ Null \notin Addr
  /\ Sizes \subseteq Nat /\ Sizes # {}
  /\ Aligns \subseteq Nat /\ Aligns # {}
  /\ MaxBuffers \in Nat

(* Layout::from_size_align succeeds when align is a power of two; sizes   *)
(* close to isize::MAX, the other way it can fail, are out of reach here.  *)
PowerOfTwo(n) == \E k \in 0 .. n : 2 ^ k = n
ValidLayout(size, align) == PowerOfTwo(align)

Layouts == [size : Sizes, align : Aligns]

(* The values of type std::alloc::Layout: only these can be assigned to a *)
(* Buffer's layout field or put in a struct literal.                       *)
ValidLayouts == {l \in Layouts : ValidLayout(l.size, l.align)}

VARIABLES
  used,       \* used[a]: the allocator has handed block a out
  layoutOf,   \* layoutOf[a]: the layout block a was allocated with
  zeroed,     \* zeroed[a]: block a has been zero-filled since it was allocated
  bufs,       \* the Buffer values created so far, in order of creation
  result,     \* what the last Buffer::new returned
  ub,         \* the undefined behaviour that has happened, or "none"
  panicked    \* a Buffer::new call has panicked

vars == <<used, layoutOf, zeroed, bufs, result, ub, panicked>>

UBKinds == {"none", "double_free", "mismatched_layout", "use_after_free",
            "out_of_bounds_write"}

(* The client still owns Buffer h: it has not been dropped. *)
Live(h) == ~bufs[h].dropped

Running == ub = "none" /\ ~panicked

Init ==
  /\ used = [a \in Addr |-> FALSE]
  /\ layoutOf = [a \in Addr |-> CHOOSE l \in Layouts : TRUE]
  /\ zeroed = [a \in Addr |-> FALSE]
  /\ bufs = << >>
  /\ result = "none"
  /\ ub = "none"
  /\ panicked = FALSE

-----------------------------------------------------------------------------
(* The operations of Buffer. *)

(* Mutant: Buffer::new without the is_null check: a null allocation is   *)
(* wrapped in a Buffer as if it had succeeded.                            *)
NewNoNullCheck(size, align) ==
  /\ Running
  /\ Len(bufs) < MaxBuffers
  /\ \/ /\ ~ValidLayout(size, align)
        /\ panicked' = TRUE
        /\ UNCHANGED <<used, layoutOf, zeroed, bufs, result, ub>>
     \/ /\ ValidLayout(size, align)
        /\ bufs' = Append(bufs, [ptr |-> Null, layout |-> [size |-> size, align |-> align],
                                 dropped |-> FALSE])
        /\ result' = "ok"
        /\ UNCHANGED <<used, layoutOf, zeroed, ub, panicked>>
     \/ /\ ValidLayout(size, align)
        /\ \E a \in Addr :
              /\ ~used[a]
              /\ used' = [used EXCEPT ![a] = TRUE]
              /\ layoutOf' = [layoutOf EXCEPT ![a] = [size |-> size, align |-> align]]
              /\ zeroed' = [zeroed EXCEPT ![a] = FALSE]
              /\ bufs' = Append(bufs, [ptr |-> a, layout |-> [size |-> size, align |-> align],
                                       dropped |-> FALSE])
        /\ result' = "ok"
        /\ UNCHANGED <<ub, panicked>>

(* Buffer::new(size, align): Layout::from_size_align(size, align).unwrap() *)
(* panics on an invalid layout; std::alloc::alloc returns null (ENOMEM,   *)
(* returned as an error) or a block not in use.                            *)
New(size, align) ==
  /\ Running
  /\ Len(bufs) < MaxBuffers
  /\ \/ /\ ~ValidLayout(size, align)
        /\ panicked' = TRUE
        /\ UNCHANGED <<used, layoutOf, zeroed, bufs, result, ub>>
     \/ /\ ValidLayout(size, align)
        /\ result' = "enomem"
        /\ UNCHANGED <<used, layoutOf, zeroed, bufs, ub, panicked>>
     \/ /\ ValidLayout(size, align)
        /\ \E a \in Addr :
              /\ ~used[a]
              /\ used' = [used EXCEPT ![a] = TRUE]
              /\ layoutOf' = [layoutOf EXCEPT ![a] = [size |-> size, align |-> align]]
              /\ zeroed' = [zeroed EXCEPT ![a] = FALSE]
              /\ bufs' = Append(bufs, [ptr |-> a, layout |-> [size |-> size, align |-> align],
                                       dropped |-> FALSE])
        /\ result' = "ok"
        /\ UNCHANGED <<ub, panicked>>

(* The body of Buffer::dealloc: std::alloc::dealloc(self.buf, self.layout). *)
(* Freeing a block not in use, or with another layout than it was          *)
(* allocated with, is undefined.                                            *)
dealloc(h) ==
  LET b == bufs[h]
  IN  \/ /\ ~used[b.ptr]
         /\ ub' = "double_free"
         /\ UNCHANGED used
      \/ /\ used[b.ptr]
         /\ layoutOf[b.ptr] # b.layout
         /\ ub' = "mismatched_layout"
         /\ UNCHANGED used
      \/ /\ used[b.ptr]
         /\ layoutOf[b.ptr] = b.layout
         /\ used' = [used EXCEPT ![b.ptr] = FALSE]
         /\ UNCHANGED ub

(* The client calls the public Buffer::dealloc and keeps the Buffer. *)
Dealloc(h) ==
  /\ Running
  /\ Live(h)
  /\ dealloc(h)
  /\ UNCHANGED <<layoutOf, zeroed, bufs, result, panicked>>

(* Mutant: a Drop that forgets to call dealloc. *)
DropNoDealloc(h) ==
  /\ Running
  /\ Live(h)
  /\ bufs' = [bufs EXCEPT ![h].dropped = TRUE]
  /\ UNCHANGED <<used, layoutOf, zeroed, result, ub, panicked>>

(* Mutant: dealloc runs but the Buffer stays usable, as when the memory is *)
(* freed and the value kept (the pub dealloc used as a destructor).       *)
DropKeepsBuffer(h) ==
  /\ Running
  /\ Live(h)
  /\ dealloc(h)
  /\ UNCHANGED <<layoutOf, zeroed, bufs, result, panicked>>

(* The Buffer goes out of scope: Drop::drop calls dealloc. *)
Drop(h) ==
  /\ Running
  /\ Live(h)
  /\ dealloc(h)
  /\ bufs' = [bufs EXCEPT ![h].dropped = TRUE]
  /\ UNCHANGED <<layoutOf, zeroed, result, panicked>>

(* Mutant: zero_out_buf writes size() + 1 bytes. *)
ZeroOutOverrun(h) ==
  LET b == bufs[h]
  IN  /\ Running
      /\ Live(h)
      /\ \/ /\ ~used[b.ptr]
            /\ ub' = "use_after_free"
            /\ UNCHANGED zeroed
         \/ /\ used[b.ptr]
            /\ b.layout.size + 1 > layoutOf[b.ptr].size
            /\ ub' = "out_of_bounds_write"
            /\ UNCHANGED zeroed
         \/ /\ used[b.ptr]
            /\ b.layout.size + 1 <= layoutOf[b.ptr].size
            /\ zeroed' = [zeroed EXCEPT ![b.ptr] = TRUE]
            /\ UNCHANGED ub
      /\ UNCHANGED <<used, layoutOf, bufs, result, panicked>>

(* Buffer::zero_out_buf: write_bytes(self.buf, 0, self.size()), with size *)
(* taken from self.layout.  Writing a freed block, or more bytes than the *)
(* block has, is undefined.                                                 *)
ZeroOutBuf(h) ==
  LET b == bufs[h]
  IN  /\ Running
      /\ Live(h)
      /\ \/ /\ ~used[b.ptr]
            /\ ub' = "use_after_free"
            /\ UNCHANGED zeroed
         \/ /\ used[b.ptr]
            /\ b.layout.size > layoutOf[b.ptr].size
            /\ ub' = "out_of_bounds_write"
            /\ UNCHANGED zeroed
         \/ /\ used[b.ptr]
            /\ b.layout.size <= layoutOf[b.ptr].size
            /\ zeroed' = [zeroed EXCEPT ![b.ptr] = TRUE]
            /\ UNCHANGED ub
      /\ UNCHANGED <<used, layoutOf, bufs, result, panicked>>

(* The client assigns the pub field layout of a Buffer it owns. *)
SetLayout(h, l) ==
  /\ Running
  /\ Live(h)
  /\ bufs' = [bufs EXCEPT ![h].layout = l]
  /\ UNCHANGED <<used, layoutOf, zeroed, result, ub, panicked>>

(* The client assigns the pub field buf of a Buffer it owns, here a       *)
(* pointer to one of the allocator's blocks (another Buffer's included).  *)
SetBuf(h, a) ==
  /\ Running
  /\ Live(h)
  /\ bufs' = [bufs EXCEPT ![h].ptr = a]
  /\ UNCHANGED <<used, layoutOf, zeroed, result, ub, panicked>>

(* The client builds Buffer { layout, buf } from the pub fields: a Buffer *)
(* that Drop will free, whatever block it points at.                       *)
Construct(a, l) ==
  /\ Running
  /\ Len(bufs) < MaxBuffers
  /\ bufs' = Append(bufs, [ptr |-> a, layout |-> l, dropped |-> FALSE])
  /\ UNCHANGED <<used, layoutOf, zeroed, result, ub, panicked>>

(* The way regs.rs itself uses a Buffer: create it, fill it, let it drop. *)
OwnUseNext ==
  \/ \E size \in Sizes, align \in Aligns : New(size, align)
  \/ \E h \in DOMAIN bufs : ZeroOutBuf(h) \/ Drop(h)

(* Everything the public interface of Buffer lets a client do. *)
Next ==
  \/ OwnUseNext
  \/ \E h \in DOMAIN bufs : Dealloc(h)
  \/ \E h \in DOMAIN bufs, l \in ValidLayouts : SetLayout(h, l)
  \/ \E h \in DOMAIN bufs, a \in Addr : SetBuf(h, a)
  \/ \E a \in Addr, l \in ValidLayouts : Construct(a, l)

OwnUseSpec == Init /\ [][OwnUseNext]_vars
Spec == Init /\ [][Next]_vars

-----------------------------------------------------------------------------
(* Properties. *)

TypeOK ==
  /\ used \in [Addr -> BOOLEAN]
  /\ layoutOf \in [Addr -> Layouts]
  /\ zeroed \in [Addr -> BOOLEAN]
  /\ bufs \in Seq([ptr : Addr, layout : Layouts, dropped : BOOLEAN])
  /\ Len(bufs) <= MaxBuffers
  /\ result \in {"none", "ok", "enomem"}
  /\ ub \in UBKinds
  /\ panicked \in BOOLEAN

(* No sequence of Buffer::new, zero_out_buf and drops, in any order and    *)
(* with the allocator reusing freed blocks, frees a block twice or with a  *)
(* layout it was not allocated with, or writes a freed block or past the   *)
(* end of one (spec 4.1: deallocation exactly once, with the same layout). *)
NoUndefinedBehaviour == ub = "none"

(* Every Buffer the client still owns points at a block in use, allocated *)
(* with the layout the Buffer records, and no two owned Buffers share a    *)
(* block: the Buffer is the single owner of its allocation.                *)
ExclusiveOwnership ==
  /\ \A h \in DOMAIN bufs :
        Live(h) => used[bufs[h].ptr] /\ layoutOf[bufs[h].ptr] = bufs[h].layout
  /\ \A h1, h2 \in DOMAIN bufs :
        Live(h1) /\ Live(h2) /\ h1 # h2 => bufs[h1].ptr # bufs[h2].ptr

(* Until undefined behaviour happens, every block the allocator has       *)
(* handed out is still reachable from a Buffer the client owns, so some   *)
(* Drop will free it (spec 4.1: deallocation occurs exactly once,          *)
(* automatically, when the owner releases the buffer).                     *)
NoLeak ==
  ub = "none" =>
    \A a \in Addr : used[a] => \E h \in DOMAIN bufs : Live(h) /\ bufs[h].ptr = a

DeallocWithOwnLayout == ub # "mismatched_layout"

-----------------------------------------------------------------------------
(* The invariants the proofs establish for the way regs.rs uses a Buffer, *)
(* each inductive as it stands.                                            *)
OwnUseInv == TypeOK /\ NoUndefinedBehaviour /\ ExclusiveOwnership
LeakInv == TypeOK /\ NoLeak

=============================================================================
