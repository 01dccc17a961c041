--------------------------- MODULE VpStateTransfer ---------------------------
(***************************************************************************)
(* What the VP-state directory promises its user, with buffers, offsets    *)
(* and bytes left out: the directory holds one value per component, the   *)
(* hypervisor holds one per component, and a save or a restore moves one  *)
(* component from one side to the other whole and in a single step.       *)
(* Nothing else ever changes either side.                                  *)
(***************************************************************************)
CONSTANTS
  Comp,     \* the component indices
  DirInit,  \* the directory a VMM starts from (AllVpStateComponents::default)
  HvInit    \* the components the hypervisor holds at the start

VARIABLES
  dir,      \* the directory's value of each component
  hv        \* the hypervisor's value of each component

vars == <<dir, hv>>

Init == dir = DirInit /\ hv = HvInit

(* Save component i: the directory takes the hypervisor's value. *)
Save(i) == dir' = [dir EXCEPT ![i] = hv[i]] /\ hv' = hv

(* Restore component i: the hypervisor takes the directory's value. *)
Restore(i) == hv' = [hv EXCEPT ![i] = dir[i]] /\ dir' = dir

Next == \E i \in Comp : Save(i) \/ Restore(i)

Spec == Init /\ [][Next]_vars

=============================================================================
