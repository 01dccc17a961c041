------------------------ MODULE BufferLifecycle_proofs ------------------------
(***************************************************************************)
(* Proofs about the lifecycle of Buffer, for every set of addresses,      *)
(* sizes and alignments and every bound on Buffer::new calls.             *)
(*                                                                         *)
(* Used the way regs.rs uses it (new, zero_out_buf, drop), a Buffer the   *)
(* client owns always points at a block in use with the layout it          *)
(* records, and no two owned Buffers share a block (ExclusiveOwnership).  *)
(* That is what makes Drop's dealloc and zero_out_buf defined: the block  *)
(* they touch is in use and has the layout they pass.  Freeing only ever  *)
(* removes the block of the Buffer being dropped, and a new block goes to  *)
(* a new Buffer, so no block is left without an owner (NoLeak).            *)
(***************************************************************************)
EXTENDS BufferLifecycle, TLAPS

USE LifecycleAssumption

Buf == [ptr : Addr, layout : Layouts, dropped : BOOLEAN]

(* The layout Buffer::new records is one of the layouts. *)
LEMMA LayoutType ==
  \A size \in Sizes, align \in Aligns : [size |-> size, align |-> align] \in Layouts
BY DEF Layouts

(* The initial state: nothing allocated, no Buffer, no undefined          *)
(* behaviour.                                                               *)
LEMMA InitTypeOK == Init => TypeOK
<1> SUFFICES ASSUME Init PROVE TypeOK
  OBVIOUS
<1>1. \E l \in Layouts : TRUE
  <2>1. PICK sz \in Sizes : TRUE
    OBVIOUS
  <2>2. PICK al \in Aligns : TRUE
    OBVIOUS
  <2>3. QED
    BY <2>1, <2>2, LayoutType
<1>2. layoutOf \in [Addr -> Layouts]
  BY <1>1 DEF Init
<1>3. bufs \in Seq([ptr : Addr, layout : Layouts, dropped : BOOLEAN]) /\ Len(bufs) <= MaxBuffers
  BY DEF Init
<1>4. QED
  BY <1>2, <1>3 DEF Init, TypeOK, UBKinds

(* Appending a Buffer to the sequence of Buffers keeps the old ones at    *)
(* their places and puts the new one last.                                 *)
LEMMA AppendFacts ==
  ASSUME NEW s \in Seq(Buf), NEW r \in Buf
  PROVE  /\ Append(s, r) \in Seq(Buf)
         /\ Len(Append(s, r)) = Len(s) + 1
         /\ DOMAIN Append(s, r) = DOMAIN s \cup {Len(s) + 1}
         /\ Len(s) + 1 \notin DOMAIN s
         /\ \A h \in DOMAIN s : Append(s, r)[h] = s[h]
         /\ Append(s, r)[Len(s) + 1] = r
OBVIOUS

(* The initial state satisfies the own-use invariant. *)
LEMMA InitOwnUse == Init => OwnUseInv
BY InitTypeOK DEF Init, OwnUseInv, NoUndefinedBehaviour, ExclusiveOwnership

(* A step that leaves the allocator and the Buffers as they were keeps    *)
(* ExclusiveOwnership.                                                      *)
LEMMA OwnershipFrame ==
  ASSUME ExclusiveOwnership, UNCHANGED <<used, layoutOf, bufs>>
  PROVE  ExclusiveOwnership'
BY DEF ExclusiveOwnership, Live

(* Buffer::new panics, fails with ENOMEM, or hands out a block not in use *)
(* that therefore no owned Buffer points at.                               *)
LEMMA NewOwnUse ==
  ASSUME OwnUseInv, NEW size \in Sizes, NEW align \in Aligns, New(size, align)
  PROVE  OwnUseInv'
<1>1. /\ Len(bufs) < MaxBuffers
      /\ bufs \in Seq(Buf)
  BY DEF New, OwnUseInv, TypeOK, Buf
<1>2. CASE /\ ~ValidLayout(size, align)
           /\ panicked' = TRUE
           /\ UNCHANGED <<used, layoutOf, zeroed, bufs, result, ub>>
  BY <1>2, OwnershipFrame DEF OwnUseInv, TypeOK, NoUndefinedBehaviour
<1>3. CASE /\ ValidLayout(size, align)
           /\ result' = "enomem"
           /\ UNCHANGED <<used, layoutOf, zeroed, bufs, ub, panicked>>
  BY <1>3, OwnershipFrame DEF OwnUseInv, TypeOK, NoUndefinedBehaviour
<1>4. CASE /\ ValidLayout(size, align)
           /\ \E a \in Addr :
                 /\ ~used[a]
                 /\ used' = [used EXCEPT ![a] = TRUE]
                 /\ layoutOf' = [layoutOf EXCEPT ![a] = [size |-> size, align |-> align]]
                 /\ zeroed' = [zeroed EXCEPT ![a] = FALSE]
                 /\ bufs' = Append(bufs, [ptr |-> a, layout |-> [size |-> size, align |-> align],
                                          dropped |-> FALSE])
           /\ result' = "ok"
           /\ UNCHANGED <<ub, panicked>>
  <2>1. PICK a \in Addr :
           /\ ~used[a]
           /\ used' = [used EXCEPT ![a] = TRUE]
           /\ layoutOf' = [layoutOf EXCEPT ![a] = [size |-> size, align |-> align]]
           /\ zeroed' = [zeroed EXCEPT ![a] = FALSE]
           /\ bufs' = Append(bufs, [ptr |-> a, layout |-> [size |-> size, align |-> align],
                                    dropped |-> FALSE])
    BY <1>4
  <2> DEFINE l == [size |-> size, align |-> align]
  <2> DEFINE r == [ptr |-> a, layout |-> l, dropped |-> FALSE]
  <2> DEFINE n == Len(bufs) + 1
  <2>2. l \in Layouts /\ r \in Buf
    BY LayoutType DEF Buf
  <2>3. /\ bufs' \in Seq(Buf)
        /\ Len(bufs') = n
        /\ DOMAIN bufs' = DOMAIN bufs \cup {n}
        /\ n \notin DOMAIN bufs
        /\ \A h \in DOMAIN bufs : bufs'[h] = bufs[h]
        /\ bufs'[n] = r
    BY <1>1, <2>1, <2>2, AppendFacts
  <2>4. \A h \in DOMAIN bufs : Live(h) => bufs[h].ptr # a
    BY <2>1 DEF OwnUseInv, ExclusiveOwnership
  <2>5. TypeOK'
    BY <1>1, <1>4, <2>1, <2>2, <2>3 DEF OwnUseInv, TypeOK, Buf
  <2>6. ExclusiveOwnership'
    <3>1. \A h \in DOMAIN bufs' :
             Live(h)' => used'[bufs'[h].ptr] /\ layoutOf'[bufs'[h].ptr] = bufs'[h].layout
      <4> SUFFICES ASSUME NEW h \in DOMAIN bufs', Live(h)'
                   PROVE  used'[bufs'[h].ptr] /\ layoutOf'[bufs'[h].ptr] = bufs'[h].layout
        OBVIOUS
      <4>1. CASE h \in DOMAIN bufs
        <5>0. bufs'[h] = bufs[h]
          BY <2>3, <4>1
        <5>1. Live(h)
          BY <5>0 DEF Live
        <5>2. bufs[h] \in Buf
          BY <1>1, <4>1
        <5>4. bufs[h].ptr \in Addr /\ bufs[h].ptr # a
          BY <2>4, <4>1, <5>1, <5>2 DEF Buf
        <5>3. QED
          BY <2>1, <4>1, <5>0, <5>1, <5>4 DEF OwnUseInv, ExclusiveOwnership, TypeOK
      <4>2. CASE h = n
        BY <2>1, <2>3, <4>2 DEF OwnUseInv, TypeOK
      <4>3. QED
        BY <2>3, <4>1, <4>2
    <3>2. \A h1, h2 \in DOMAIN bufs' :
             Live(h1)' /\ Live(h2)' /\ h1 # h2 => bufs'[h1].ptr # bufs'[h2].ptr
      <4> SUFFICES ASSUME NEW h1 \in DOMAIN bufs', NEW h2 \in DOMAIN bufs',
                          Live(h1)', Live(h2)', h1 # h2
                   PROVE  bufs'[h1].ptr # bufs'[h2].ptr
        OBVIOUS
      <4>1. CASE h1 \in DOMAIN bufs /\ h2 \in DOMAIN bufs
        BY <2>3, <4>1 DEF OwnUseInv, ExclusiveOwnership, Live
      <4>2. CASE h1 \in DOMAIN bufs /\ h2 = n
        BY <2>3, <2>4, <4>2 DEF Live
      <4>3. CASE h1 = n /\ h2 \in DOMAIN bufs
        BY <2>3, <2>4, <4>3 DEF Live
      <4>4. QED
        BY <2>3, <4>1, <4>2, <4>3
    <3>3. QED
      BY <3>1, <3>2 DEF ExclusiveOwnership
  <2>7. QED
    BY <1>4, <2>5, <2>6 DEF OwnUseInv, NoUndefinedBehaviour
<1>5. QED
  BY <1>2, <1>3, <1>4 DEF New

(* An owned Buffer's block is in use with the Buffer's layout, so Drop's  *)
(* dealloc takes its defined branch: it frees exactly that block, which no *)
(* other owned Buffer points at.                                            *)
LEMMA DropOwnUse ==
  ASSUME OwnUseInv, NEW h \in DOMAIN bufs, Drop(h)
  PROVE  OwnUseInv'
<1> DEFINE p == bufs[h].ptr
<1>1. /\ bufs \in Seq(Buf)
      /\ bufs[h] \in Buf
      /\ Live(h)
      /\ used[p] /\ layoutOf[p] = bufs[h].layout
  <2>1. bufs \in Seq(Buf)
    BY DEF OwnUseInv, TypeOK, Buf
  <2>2. bufs[h] \in Buf
    BY <2>1
  <2>3. Live(h)
    BY DEF Drop
  <2>4. used[p] /\ layoutOf[p] = bufs[h].layout
    BY <2>3 DEF OwnUseInv, ExclusiveOwnership
  <2>5. QED
    BY <2>1, <2>2, <2>3, <2>4
<1>2. /\ used' = [used EXCEPT ![p] = FALSE]
      /\ ub' = ub
      /\ bufs' = [bufs EXCEPT ![h].dropped = TRUE]
      /\ UNCHANGED <<layoutOf, zeroed, result, panicked>>
  BY <1>1 DEF Drop, dealloc
<1>3. /\ DOMAIN bufs' = DOMAIN bufs
      /\ ~Live(h)'
      /\ \A g \in DOMAIN bufs : g # h => bufs'[g] = bufs[g]
      /\ bufs'[h].ptr = p /\ bufs'[h].layout = bufs[h].layout
  BY <1>1, <1>2 DEF Live, Buf
<1>4. \A g \in DOMAIN bufs : g # h /\ Live(g) => bufs[g].ptr # p
  BY <1>1 DEF OwnUseInv, ExclusiveOwnership
<1>5. TypeOK'
  <2>1. bufs' \in Seq(Buf)
    <3>1. [bufs[h] EXCEPT !.dropped = TRUE] \in Buf
      BY <1>1 DEF Buf
    <3>2. QED
      BY <1>1, <1>2, <3>1
  <2>2. QED
    BY <1>1, <1>2, <2>1 DEF OwnUseInv, TypeOK, Buf
<1>6. ExclusiveOwnership'
  <2>1. \A g \in DOMAIN bufs' :
           Live(g)' => used'[bufs'[g].ptr] /\ layoutOf'[bufs'[g].ptr] = bufs'[g].layout
    <3> SUFFICES ASSUME NEW g \in DOMAIN bufs', Live(g)'
                 PROVE  used'[bufs'[g].ptr] /\ layoutOf'[bufs'[g].ptr] = bufs'[g].layout
      OBVIOUS
    <3>1. g # h /\ g \in DOMAIN bufs /\ bufs'[g] = bufs[g] /\ Live(g)
      BY <1>3 DEF Live
    <3>2. bufs[g] \in Buf
      BY <1>1, <3>1
    <3>3. bufs[g].ptr # p /\ bufs[g].ptr \in Addr
      BY <1>4, <3>1, <3>2 DEF Buf
    <3>4. QED
      BY <1>2, <3>1, <3>3 DEF OwnUseInv, ExclusiveOwnership, TypeOK
  <2>2. \A g1, g2 \in DOMAIN bufs' :
           Live(g1)' /\ Live(g2)' /\ g1 # g2 => bufs'[g1].ptr # bufs'[g2].ptr
    <3> SUFFICES ASSUME NEW g1 \in DOMAIN bufs', NEW g2 \in DOMAIN bufs',
                        Live(g1)', Live(g2)', g1 # g2
                 PROVE  bufs'[g1].ptr # bufs'[g2].ptr
      OBVIOUS
    <3>1. g1 # h /\ g2 # h /\ g1 \in DOMAIN bufs /\ g2 \in DOMAIN bufs
      BY <1>3
    <3>2. bufs'[g1] = bufs[g1] /\ bufs'[g2] = bufs[g2] /\ Live(g1) /\ Live(g2)
      BY <1>3, <3>1 DEF Live
    <3>3. QED
      BY <3>1, <3>2 DEF OwnUseInv, ExclusiveOwnership
  <2>3. QED
    BY <2>1, <2>2 DEF ExclusiveOwnership
<1>7. QED
  BY <1>2, <1>5, <1>6 DEF OwnUseInv, NoUndefinedBehaviour

(* An owned Buffer's block is in use and exactly as large as the Buffer   *)
(* says, so zero_out_buf writes inside it.                                  *)
LEMMA ZeroOwnUse ==
  ASSUME OwnUseInv, NEW h \in DOMAIN bufs, ZeroOutBuf(h)
  PROVE  OwnUseInv'
<1> DEFINE p == bufs[h].ptr
<1>1. /\ bufs[h] \in Buf
      /\ used[p] /\ layoutOf[p] = bufs[h].layout
  <2>1. bufs \in Seq(Buf)
    BY DEF OwnUseInv, TypeOK, Buf
  <2>2. Live(h)
    BY DEF ZeroOutBuf
  <2>3. QED
    BY <2>1, <2>2 DEF OwnUseInv, ExclusiveOwnership
<1>2. bufs[h].layout.size \in Nat
  BY <1>1 DEF Buf, Layouts
<1>3. /\ zeroed' = [zeroed EXCEPT ![p] = TRUE]
      /\ ub' = ub
      /\ UNCHANGED <<used, layoutOf, bufs, result, panicked>>
  BY <1>1, <1>2 DEF ZeroOutBuf
<1>4. QED
  BY <1>1, <1>3, OwnershipFrame DEF OwnUseInv, TypeOK, NoUndefinedBehaviour, Buf

(* The own-use invariant is inductive. *)
LEMMA NextOwnUse == OwnUseInv /\ [OwnUseNext]_vars => OwnUseInv'
<1> SUFFICES ASSUME OwnUseInv, [OwnUseNext]_vars PROVE OwnUseInv'
  OBVIOUS
<1>1. CASE \E size \in Sizes, align \in Aligns : New(size, align)
  BY <1>1, NewOwnUse
<1>2. CASE \E h \in DOMAIN bufs : ZeroOutBuf(h) \/ Drop(h)
  BY <1>2, ZeroOwnUse, DropOwnUse
<1>3. CASE UNCHANGED vars
  BY <1>3 DEF vars, OwnUseInv, TypeOK, NoUndefinedBehaviour, ExclusiveOwnership, Live
<1>4. QED
  BY <1>1, <1>2, <1>3 DEF OwnUseNext

(* Used the way regs.rs uses it, Buffer's state is well typed for every   *)
(* set of addresses, sizes and alignments and every bound on Buffer::new. *)
THEOREM OwnUseTypeCorrect == OwnUseSpec => []TypeOK
<1>1. OwnUseSpec => []OwnUseInv
  BY InitOwnUse, NextOwnUse, PTL DEF OwnUseSpec
<1>2. QED
  BY <1>1, PTL DEF OwnUseInv

(* Used the way regs.rs uses it (new, zero_out_buf, drop, in any order   *)
(* and with the allocator reusing freed blocks), Buffer never frees a     *)
(* block twice or with another layout and never writes a freed block or   *)
(* past the end of one.                                                    *)
THEOREM OwnUseDefined == OwnUseSpec => []NoUndefinedBehaviour
<1>1. OwnUseSpec => []OwnUseInv
  BY InitOwnUse, NextOwnUse, PTL DEF OwnUseSpec
<1>2. QED
  BY <1>1, PTL DEF OwnUseInv

(* Used the way regs.rs uses it, every owned Buffer is the single owner  *)
(* of a block in use with the layout it records.                          *)
THEOREM OwnUseExclusive == OwnUseSpec => []ExclusiveOwnership
<1>1. OwnUseSpec => []OwnUseInv
  BY InitOwnUse, NextOwnUse, PTL DEF OwnUseSpec
<1>2. QED
  BY <1>1, PTL DEF OwnUseInv

-----------------------------------------------------------------------------
(* NoLeak for the way regs.rs uses a Buffer. *)

(* A step that only frees blocks and keeps every Buffer's pointer and     *)
(* ownership keeps NoLeak.                                                  *)
LEMMA LeakFrame ==
  ASSUME NoLeak, ub' = ub,
         \A x \in Addr : used'[x] => used[x],
         DOMAIN bufs' = DOMAIN bufs,
         \A g \in DOMAIN bufs : bufs'[g].ptr = bufs[g].ptr /\ bufs'[g].dropped = bufs[g].dropped
  PROVE  NoLeak'
BY DEF NoLeak, Live

(* The body of dealloc either records undefined behaviour or frees one    *)
(* block; it never allocates.                                               *)
LEMMA DeallocEffect ==
  ASSUME TypeOK, NEW h \in DOMAIN bufs, dealloc(h)
  PROVE  /\ ub' \in UBKinds
         /\ used' \in [Addr -> BOOLEAN]
         /\ ub' = ub => \A x \in Addr : used'[x] => used[x]
<1>1. bufs[h].ptr \in Addr
  <2>1. bufs \in Seq(Buf)
    BY DEF TypeOK, Buf
  <2>2. bufs[h] \in Buf
    BY <2>1
  <2>3. QED
    BY <2>2 DEF Buf
<1>2. QED
  BY <1>1 DEF dealloc, TypeOK, UBKinds

(* The initial state satisfies the leak invariant. *)
LEMMA InitLeak == Init => LeakInv
BY InitTypeOK DEF Init, LeakInv, NoLeak

(* Buffer::new hands the new block to a new owned Buffer. *)
LEMMA NewLeak ==
  ASSUME LeakInv, NEW size \in Sizes, NEW align \in Aligns, New(size, align)
  PROVE  LeakInv'
<1>1. /\ Len(bufs) < MaxBuffers
      /\ bufs \in Seq(Buf)
  BY DEF New, LeakInv, TypeOK, Buf
<1>2. CASE UNCHANGED <<used, bufs, ub>>
  <2>1. TypeOK'
    BY <1>2 DEF New, LeakInv, TypeOK
  <2>2. NoLeak'
    BY <1>2, LeakFrame DEF LeakInv
  <2>3. QED
    BY <2>1, <2>2 DEF LeakInv
<1>3. CASE /\ ValidLayout(size, align)
           /\ \E a \in Addr :
                 /\ ~used[a]
                 /\ used' = [used EXCEPT ![a] = TRUE]
                 /\ layoutOf' = [layoutOf EXCEPT ![a] = [size |-> size, align |-> align]]
                 /\ zeroed' = [zeroed EXCEPT ![a] = FALSE]
                 /\ bufs' = Append(bufs, [ptr |-> a, layout |-> [size |-> size, align |-> align],
                                          dropped |-> FALSE])
           /\ result' = "ok"
           /\ UNCHANGED <<ub, panicked>>
  <2>1. PICK a \in Addr :
           /\ used' = [used EXCEPT ![a] = TRUE]
           /\ layoutOf' = [layoutOf EXCEPT ![a] = [size |-> size, align |-> align]]
           /\ zeroed' = [zeroed EXCEPT ![a] = FALSE]
           /\ bufs' = Append(bufs, [ptr |-> a, layout |-> [size |-> size, align |-> align],
                                    dropped |-> FALSE])
    BY <1>3
  <2> DEFINE r == [ptr |-> a, layout |-> [size |-> size, align |-> align], dropped |-> FALSE]
  <2> DEFINE n == Len(bufs) + 1
  <2>2. r \in Buf
    BY LayoutType DEF Buf
  <2>3. /\ bufs' \in Seq(Buf)
        /\ Len(bufs') = n
        /\ DOMAIN bufs' = DOMAIN bufs \cup {n}
        /\ \A h \in DOMAIN bufs : bufs'[h] = bufs[h]
        /\ bufs'[n] = r
    BY <1>1, <2>1, <2>2, AppendFacts
  <2>4. TypeOK'
    BY <1>1, <1>3, <2>1, <2>3, LayoutType DEF LeakInv, TypeOK, Buf
  <2>5. NoLeak'
    <3> SUFFICES ASSUME ub' = "none", NEW x \in Addr, used'[x]
                 PROVE  \E h \in DOMAIN bufs' : Live(h)' /\ bufs'[h].ptr = x
      BY DEF NoLeak
    <3>1. CASE x = a
      BY <2>3, <3>1 DEF Live
    <3>2. CASE x # a
      <4>1. used[x] /\ ub = "none"
        BY <1>3, <2>1, <3>2 DEF LeakInv, TypeOK
      <4>2. PICK h \in DOMAIN bufs : Live(h) /\ bufs[h].ptr = x
        BY <4>1 DEF LeakInv, NoLeak
      <4>3. QED
        BY <2>3, <4>2 DEF Live
    <3>3. QED
      BY <3>1, <3>2
  <2>6. QED
    BY <2>4, <2>5 DEF LeakInv
<1>4. QED
  BY <1>2, <1>3 DEF New

(* Drop frees the Buffer's block, or does something undefined; a block    *)
(* it frees is no other Buffer's to keep.                                   *)
LEMMA DropLeak ==
  ASSUME LeakInv, NEW h \in DOMAIN bufs, Drop(h)
  PROVE  LeakInv'
<1> DEFINE p == bufs[h].ptr
<1>1. /\ bufs \in Seq(Buf)
      /\ bufs[h] \in Buf
  <2>1. bufs \in Seq(Buf)
    BY DEF LeakInv, TypeOK, Buf
  <2>2. QED
    BY <2>1
<1>2. /\ ub' \in UBKinds
      /\ used' \in [Addr -> BOOLEAN]
      /\ bufs' = [bufs EXCEPT ![h].dropped = TRUE]
      /\ UNCHANGED <<layoutOf, zeroed, result, panicked>>
  BY DeallocEffect DEF Drop, LeakInv
<1>3. /\ DOMAIN bufs' = DOMAIN bufs
      /\ \A g \in DOMAIN bufs : g # h => bufs'[g] = bufs[g]
  BY <1>1, <1>2
<1>4. TypeOK'
  <2>1. [bufs[h] EXCEPT !.dropped = TRUE] \in Buf
    BY <1>1 DEF Buf
  <2>2. bufs' \in Seq(Buf)
    BY <1>1, <1>2, <2>1
  <2>3. QED
    BY <1>2, <2>2 DEF LeakInv, TypeOK, Buf
<1>5. NoLeak'
  <2>1. CASE ub' = ub
    <3>1. used' = [used EXCEPT ![p] = FALSE]
      BY <2>1 DEF Drop, Running, dealloc
    <3> SUFFICES ASSUME ub' = "none", NEW x \in Addr, used'[x]
                 PROVE  \E g \in DOMAIN bufs' : Live(g)' /\ bufs'[g].ptr = x
      BY DEF NoLeak
    <3>2. x # p /\ used[x] /\ ub = "none"
      BY <2>1, <3>1 DEF LeakInv, TypeOK
    <3>3. PICK g \in DOMAIN bufs : Live(g) /\ bufs[g].ptr = x
      BY <3>2 DEF LeakInv, NoLeak
    <3>4. g # h
      BY <3>2, <3>3
    <3>5. QED
      BY <1>3, <3>3, <3>4 DEF Live
  <2>2. CASE ub' # ub
    BY <2>2 DEF Drop, Running, NoLeak
  <2>3. QED
    BY <2>1, <2>2
<1>6. QED
  BY <1>4, <1>5 DEF LeakInv

(* zero_out_buf touches neither the allocator's blocks nor the Buffers. *)
LEMMA ZeroLeak ==
  ASSUME LeakInv, NEW h \in DOMAIN bufs, ZeroOutBuf(h)
  PROVE  LeakInv'
<1>1. /\ UNCHANGED <<used, layoutOf, bufs, result, panicked>>
      /\ ub = "none"
      /\ ub' \in UBKinds
      /\ zeroed' \in [Addr -> BOOLEAN]
  <2>1. bufs[h].ptr \in Addr
    <3>1. bufs \in Seq(Buf)
      BY DEF LeakInv, TypeOK, Buf
    <3>2. bufs[h] \in Buf
      BY <3>1
    <3>3. QED
      BY <3>2 DEF Buf
  <2>2. QED
    BY <2>1 DEF ZeroOutBuf, Running, LeakInv, TypeOK, UBKinds
<1>2. NoLeak'
  <2>1. CASE ub' = ub
    BY <1>1, <2>1, LeakFrame DEF LeakInv
  <2>2. CASE ub' # ub
    BY <1>1, <2>2 DEF NoLeak
  <2>3. QED
    BY <2>1, <2>2
<1>3. QED
  BY <1>1, <1>2 DEF LeakInv, TypeOK

(* The leak invariant is inductive for the way regs.rs uses a Buffer. *)
LEMMA NextLeak == LeakInv /\ [OwnUseNext]_vars => LeakInv'
<1> SUFFICES ASSUME LeakInv, [OwnUseNext]_vars PROVE LeakInv'
  OBVIOUS
<1>1. CASE \E size \in Sizes, align \in Aligns : New(size, align)
  BY <1>1, NewLeak
<1>2. CASE \E h \in DOMAIN bufs : ZeroOutBuf(h) \/ Drop(h)
  BY <1>2, ZeroLeak, DropLeak
<1>3. CASE UNCHANGED vars
  BY <1>3 DEF vars, LeakInv, TypeOK, NoLeak, Live
<1>4. QED
  BY <1>1, <1>2, <1>3 DEF OwnUseNext

(* Used the way regs.rs uses it (new, zero_out_buf, drop, in any order),  *)
(* until undefined behaviour happens every block the allocator has handed *)
(* out belongs to a Buffer the client still owns, so Drop frees it: no    *)
(* Buffer leaks its allocation, for every instance size.  Under the whole *)
(* public interface this fails (assigning the pub buf field orphans a      *)
(* block), which the buffer_pointer_reassign run shows.                   *)
THEOREM OwnUseNeverLeaks == OwnUseSpec => []NoLeak
<1>1. OwnUseSpec => []LeakInv
  BY InitLeak, NextLeak, PTL DEF OwnUseSpec
<1>2. QED
  BY <1>1, PTL DEF LeakInv

=============================================================================
