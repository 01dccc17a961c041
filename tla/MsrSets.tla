------------------------------- MODULE MsrSets -------------------------------
(***************************************************************************)
(* The MSR side of regs.rs: msr_to_hv_reg_name, which resolves an MSR     *)
(* index to the hypervisor's register name, and                           *)
(* get_partition_supported_msrs, which builds the ordered list of MSRs a  *)
(* VP must synchronise from its negotiated features.  A VMM builds the    *)
(* list once and resolves its entries one by one before it issues the     *)
(* get / set of the registers; the list's order is the layout of the MSR  *)
(* transfer.                                                               *)
(*                                                                         *)
(* An MSR index is a u32; TLC's integers are signed 32-bit, so an index is *)
(* written as the pair <<high 16 bits, low 16 bits>>.  A hypervisor        *)
(* register name is the suffix of its hv_register_name_* constant.         *)
(***************************************************************************)
EXTENDS Naturals, Sequences, FiniteSets, TLC

(* The feature bits get_partition_supported_msrs tests, one per block. *)
Flags == {"cet_ss_support", "rdtscp_support", "xsave_supervisor_support",
          "access_synic_regs", "access_partition_reference_tsc",
          "access_hypercall_regs"}

(* The architectural MSR index constants of regs.rs. *)
MsrValue ==
  [IA32_MSR_TSC |-> <<0, \h0010>>, IA32_MSR_EFER |-> <<\hC000, \h0080>>,
   IA32_MSR_KERNEL_GS_BASE |-> <<\hC000, \h0102>>, IA32_MSR_APIC_BASE |-> <<0, \h001B>>,
   IA32_MSR_PAT |-> <<0, \h0277>>, IA32_MSR_SYSENTER_CS |-> <<0, \h0174>>,
   IA32_MSR_SYSENTER_ESP |-> <<0, \h0175>>, IA32_MSR_SYSENTER_EIP |-> <<0, \h0176>>,
   IA32_MSR_STAR |-> <<\hC000, \h0081>>, IA32_MSR_LSTAR |-> <<\hC000, \h0082>>,
   IA32_MSR_CSTAR |-> <<\hC000, \h0083>>, IA32_MSR_SFMASK |-> <<\hC000, \h0084>>,
   IA32_MSR_MTRR_CAP |-> <<0, \h00FE>>, IA32_MSR_MTRR_DEF_TYPE |-> <<0, \h02FF>>,
   IA32_MSR_MTRR_PHYSBASE0 |-> <<0, \h0200>>, IA32_MSR_MTRR_PHYSMASK0 |-> <<0, \h0201>>,
   IA32_MSR_MTRR_PHYSBASE1 |-> <<0, \h0202>>, IA32_MSR_MTRR_PHYSMASK1 |-> <<0, \h0203>>,
   IA32_MSR_MTRR_PHYSBASE2 |-> <<0, \h0204>>, IA32_MSR_MTRR_PHYSMASK2 |-> <<0, \h0205>>,
   IA32_MSR_MTRR_PHYSBASE3 |-> <<0, \h0206>>, IA32_MSR_MTRR_PHYSMASK3 |-> <<0, \h0207>>,
   IA32_MSR_MTRR_PHYSBASE4 |-> <<0, \h0208>>, IA32_MSR_MTRR_PHYSMASK4 |-> <<0, \h0209>>,
   IA32_MSR_MTRR_PHYSBASE5 |-> <<0, \h020A>>, IA32_MSR_MTRR_PHYSMASK5 |-> <<0, \h020B>>,
   IA32_MSR_MTRR_PHYSBASE6 |-> <<0, \h020C>>, IA32_MSR_MTRR_PHYSMASK6 |-> <<0, \h020D>>,
   IA32_MSR_MTRR_PHYSBASE7 |-> <<0, \h020E>>, IA32_MSR_MTRR_PHYSMASK7 |-> <<0, \h020F>>,
   IA32_MSR_MTRR_FIX64K_00000 |-> <<0, \h0250>>, IA32_MSR_MTRR_FIX16K_80000 |-> <<0, \h0258>>,
   IA32_MSR_MTRR_FIX16K_A0000 |-> <<0, \h0259>>, IA32_MSR_MTRR_FIX4K_C0000 |-> <<0, \h0268>>,
   IA32_MSR_MTRR_FIX4K_C8000 |-> <<0, \h0269>>, IA32_MSR_MTRR_FIX4K_D0000 |-> <<0, \h026A>>,
   IA32_MSR_MTRR_FIX4K_D8000 |-> <<0, \h026B>>, IA32_MSR_MTRR_FIX4K_E0000 |-> <<0, \h026C>>,
   IA32_MSR_MTRR_FIX4K_E8000 |-> <<0, \h026D>>, IA32_MSR_MTRR_FIX4K_F0000 |-> <<0, \h026E>>,
   IA32_MSR_MTRR_FIX4K_F8000 |-> <<0, \h026F>>, IA32_MSR_TSC_AUX |-> <<\hC000, \h0103>>,
   IA32_MSR_BNDCFGS |-> <<0, \h0D90>>, IA32_MSR_DEBUG_CTL |-> <<0, \h01D9>>,
   IA32_MSR_SPEC_CTRL |-> <<0, \h0048>>, IA32_MSR_TSC_ADJUST |-> <<0, \h003B>>,
   IA32_MSR_MISC_ENABLE |-> <<0, \h01A0>>, MSR_IA32_SSP |-> <<0, \h07A0>>,
   MSR_IA32_U_CET |-> <<0, \h06A0>>, MSR_IA32_S_CET |-> <<0, \h06A2>>,
   MSR_IA32_PL0_SSP |-> <<0, \h06A4>>, MSR_IA32_PL1_SSP |-> <<0, \h06A5>>,
   MSR_IA32_PL2_SSP |-> <<0, \h06A6>>, MSR_IA32_PL3_SSP |-> <<0, \h06A7>>,
   MSR_IA32_INTERRUPT_SSP_TABLE_ADDR |-> <<0, \h06A8>>,
   MSR_IA32_REGISTER_U_XSS |-> <<\h0008, \h008B>>]

(* The Hyper-V synthetic MSR constants regs.rs takes from the bindings.  *)
HvMsrValue ==
  [s \in {"HV_X64_MSR_SINT" \o ToString(n) : n \in 0 .. 15} |->
     <<\h4000, \h0090 + (CHOOSE n \in 0 .. 15 : s = "HV_X64_MSR_SINT" \o ToString(n))>>]
  @@ [HV_X64_MSR_GUEST_OS_ID |-> <<\h4000, \h0000>>,
      HV_X64_MSR_REFERENCE_TSC |-> <<\h4000, \h0021>>,
      HV_X64_MSR_SCONTROL |-> <<\h4000, \h0080>>, HV_X64_MSR_SIEFP |-> <<\h4000, \h0082>>,
      HV_X64_MSR_SIMP |-> <<\h4000, \h0083>>, HV_X64_MSR_EOM |-> <<\h4000, \h0084>>]

(* Every MSR constant regs.rs names, with its index. *)
Value == MsrValue @@ HvMsrValue

(* The arms of the match in msr_to_hv_reg_name, in order: an MSR constant *)
(* and the register name it resolves to.                                  *)
Arms ==
  <<
   <<"IA32_MSR_TSC", "HV_X64_REGISTER_TSC">>, <<"IA32_MSR_EFER", "HV_X64_REGISTER_EFER">>,
   <<"IA32_MSR_KERNEL_GS_BASE", "HV_X64_REGISTER_KERNEL_GS_BASE">>, <<"IA32_MSR_APIC_BASE", "HV_X64_REGISTER_APIC_BASE">>,
   <<"IA32_MSR_PAT", "HV_X64_REGISTER_PAT">>, <<"IA32_MSR_SYSENTER_CS", "HV_X64_REGISTER_SYSENTER_CS">>,
   <<"IA32_MSR_SYSENTER_ESP", "HV_X64_REGISTER_SYSENTER_ESP">>, <<"IA32_MSR_SYSENTER_EIP", "HV_X64_REGISTER_SYSENTER_EIP">>,
   <<"IA32_MSR_STAR", "HV_X64_REGISTER_STAR">>, <<"IA32_MSR_LSTAR", "HV_X64_REGISTER_LSTAR">>,
   <<"IA32_MSR_CSTAR", "HV_X64_REGISTER_CSTAR">>, <<"IA32_MSR_SFMASK", "HV_X64_REGISTER_SFMASK">>,
   <<"IA32_MSR_MTRR_CAP", "HV_X64_REGISTER_MSR_MTRR_CAP">>, <<"IA32_MSR_MTRR_DEF_TYPE", "HV_X64_REGISTER_MSR_MTRR_DEF_TYPE">>,
   <<"IA32_MSR_MTRR_PHYSBASE0", "HV_X64_REGISTER_MSR_MTRR_PHYS_BASE0">>, <<"IA32_MSR_MTRR_PHYSMASK0", "HV_X64_REGISTER_MSR_MTRR_PHYS_MASK0">>,
   <<"IA32_MSR_MTRR_PHYSBASE1", "HV_X64_REGISTER_MSR_MTRR_PHYS_BASE1">>, <<"IA32_MSR_MTRR_PHYSMASK1", "HV_X64_REGISTER_MSR_MTRR_PHYS_MASK1">>,
   <<"IA32_MSR_MTRR_PHYSBASE2", "HV_X64_REGISTER_MSR_MTRR_PHYS_BASE2">>, <<"IA32_MSR_MTRR_PHYSMASK2", "HV_X64_REGISTER_MSR_MTRR_PHYS_MASK2">>,
   <<"IA32_MSR_MTRR_PHYSBASE3", "HV_X64_REGISTER_MSR_MTRR_PHYS_BASE3">>, <<"IA32_MSR_MTRR_PHYSMASK3", "HV_X64_REGISTER_MSR_MTRR_PHYS_MASK3">>,
   <<"IA32_MSR_MTRR_PHYSBASE4", "HV_X64_REGISTER_MSR_MTRR_PHYS_BASE4">>, <<"IA32_MSR_MTRR_PHYSMASK4", "HV_X64_REGISTER_MSR_MTRR_PHYS_MASK4">>,
   <<"IA32_MSR_MTRR_PHYSBASE5", "HV_X64_REGISTER_MSR_MTRR_PHYS_BASE5">>, <<"IA32_MSR_MTRR_PHYSMASK5", "HV_X64_REGISTER_MSR_MTRR_PHYS_MASK5">>,
   <<"IA32_MSR_MTRR_PHYSBASE6", "HV_X64_REGISTER_MSR_MTRR_PHYS_BASE6">>, <<"IA32_MSR_MTRR_PHYSMASK6", "HV_X64_REGISTER_MSR_MTRR_PHYS_MASK6">>,
   <<"IA32_MSR_MTRR_PHYSBASE7", "HV_X64_REGISTER_MSR_MTRR_PHYS_BASE7">>, <<"IA32_MSR_MTRR_PHYSMASK7", "HV_X64_REGISTER_MSR_MTRR_PHYS_MASK7">>,
   <<"IA32_MSR_MTRR_FIX64K_00000", "HV_X64_REGISTER_MSR_MTRR_FIX64K00000">>, <<"IA32_MSR_MTRR_FIX16K_80000", "HV_X64_REGISTER_MSR_MTRR_FIX16K80000">>,
   <<"IA32_MSR_MTRR_FIX16K_A0000", "HV_X64_REGISTER_MSR_MTRR_FIX16KA0000">>, <<"IA32_MSR_MTRR_FIX4K_C0000", "HV_X64_REGISTER_MSR_MTRR_FIX4KC0000">>,
   <<"IA32_MSR_MTRR_FIX4K_C8000", "HV_X64_REGISTER_MSR_MTRR_FIX4KC8000">>, <<"IA32_MSR_MTRR_FIX4K_D0000", "HV_X64_REGISTER_MSR_MTRR_FIX4KD0000">>,
   <<"IA32_MSR_MTRR_FIX4K_D8000", "HV_X64_REGISTER_MSR_MTRR_FIX4KD8000">>, <<"IA32_MSR_MTRR_FIX4K_E0000", "HV_X64_REGISTER_MSR_MTRR_FIX4KE0000">>,
   <<"IA32_MSR_MTRR_FIX4K_E8000", "HV_X64_REGISTER_MSR_MTRR_FIX4KE8000">>, <<"IA32_MSR_MTRR_FIX4K_F0000", "HV_X64_REGISTER_MSR_MTRR_FIX4KF0000">>,
   <<"IA32_MSR_MTRR_FIX4K_F8000", "HV_X64_REGISTER_MSR_MTRR_FIX4KF8000">>, <<"IA32_MSR_TSC_AUX", "HV_X64_REGISTER_TSC_AUX">>,
   <<"IA32_MSR_BNDCFGS", "HV_X64_REGISTER_BNDCFGS">>, <<"IA32_MSR_DEBUG_CTL", "HV_X64_REGISTER_DEBUG_CTL">>,
   <<"IA32_MSR_TSC_ADJUST", "HV_X64_REGISTER_TSC_ADJUST">>, <<"IA32_MSR_SPEC_CTRL", "HV_X64_REGISTER_SPEC_CTRL">>,
   <<"HV_X64_MSR_GUEST_OS_ID", "HV_REGISTER_GUEST_OS_ID">>, <<"HV_X64_MSR_SINT0", "HV_REGISTER_SINT0">>,
   <<"HV_X64_MSR_SINT1", "HV_REGISTER_SINT1">>, <<"HV_X64_MSR_SINT2", "HV_REGISTER_SINT2">>,
   <<"HV_X64_MSR_SINT3", "HV_REGISTER_SINT3">>, <<"HV_X64_MSR_SINT4", "HV_REGISTER_SINT4">>,
   <<"HV_X64_MSR_SINT5", "HV_REGISTER_SINT5">>, <<"HV_X64_MSR_SINT6", "HV_REGISTER_SINT6">>,
   <<"HV_X64_MSR_SINT7", "HV_REGISTER_SINT7">>, <<"HV_X64_MSR_SINT8", "HV_REGISTER_SINT8">>,
   <<"HV_X64_MSR_SINT9", "HV_REGISTER_SINT9">>, <<"HV_X64_MSR_SINT10", "HV_REGISTER_SINT10">>,
   <<"HV_X64_MSR_SINT11", "HV_REGISTER_SINT11">>, <<"HV_X64_MSR_SINT12", "HV_REGISTER_SINT12">>,
   <<"HV_X64_MSR_SINT13", "HV_REGISTER_SINT13">>, <<"HV_X64_MSR_SINT14", "HV_REGISTER_SINT14">>,
   <<"HV_X64_MSR_SINT15", "HV_REGISTER_SINT15">>, <<"IA32_MSR_MISC_ENABLE", "HV_X64_REGISTER_MSR_IA32_MISC_ENABLE">>,
   <<"HV_X64_MSR_SCONTROL", "HV_REGISTER_SCONTROL">>, <<"HV_X64_MSR_SIEFP", "HV_REGISTER_SIEFP">>,
   <<"HV_X64_MSR_SIMP", "HV_REGISTER_SIMP">>, <<"HV_X64_MSR_REFERENCE_TSC", "HV_REGISTER_REFERENCE_TSC">>,
   <<"HV_X64_MSR_EOM", "HV_REGISTER_EOM">>, <<"MSR_IA32_REGISTER_U_XSS", "HV_X64_REGISTER_U_XSS">>,
   <<"MSR_IA32_U_CET", "HV_X64_REGISTER_U_CET">>, <<"MSR_IA32_S_CET", "HV_X64_REGISTER_S_CET">>,
   <<"MSR_IA32_SSP", "HV_X64_REGISTER_SSP">>, <<"MSR_IA32_PL0_SSP", "HV_X64_REGISTER_PL0_SSP">>,
   <<"MSR_IA32_PL1_SSP", "HV_X64_REGISTER_PL1_SSP">>, <<"MSR_IA32_PL2_SSP", "HV_X64_REGISTER_PL2_SSP">>,
   <<"MSR_IA32_PL3_SSP", "HV_X64_REGISTER_PL3_SSP">>,
   <<"MSR_IA32_INTERRUPT_SSP_TABLE_ADDR", "HV_X64_REGISTER_INTERRUPT_SSP_TABLE_ADDR">>
  >>

(* A register name is a c_uint; the model numbers the names of the arms. *)
RegId(name) == CHOOSE i \in 1 .. Len(Arms) : Arms[i][2] = name
RegIds == 1 .. Len(Arms)

(* The Result<c_uint, &str> msr_to_hv_reg_name returns. *)
Ok(reg) == [ok |-> TRUE, reg |-> reg]
Err == [ok |-> FALSE, reg |-> 0]

(* The index of the first arm whose constant equals msr, if any. *)
FirstArm(arms, msr) ==
  LET hits == {i \in 1 .. Len(arms) : Value[arms[i][1]] = msr}
  IN  IF hits = {} THEN 0 ELSE CHOOSE i \in hits : \A j \in hits : i <= j

(* Mutant: the EOM arm left out of the match. *)
ResolverMissingEom(msr) ==
  LET arms == SelectSeq(Arms, LAMBDA a : a[1] # "HV_X64_MSR_EOM")
  IN  IF FirstArm(arms, msr) = 0 THEN Err ELSE Ok(RegId(arms[FirstArm(arms, msr)][2]))

(* Mutant: a copy-and-paste slip, PHYSMASK3 resolved to PHYS_BASE3. *)
ResolverCopyPaste(msr) ==
  LET arms == [Arms EXCEPT ![22] = <<"IA32_MSR_MTRR_PHYSMASK3",
                                     "HV_X64_REGISTER_MSR_MTRR_PHYS_BASE3">>]
  IN  IF FirstArm(arms, msr) = 0 THEN Err ELSE Ok(RegId(arms[FirstArm(arms, msr)][2]))

(* Mutant: an unknown index falls through to Ok(0) instead of Err. *)
ResolverDefaultOk(msr) ==
  IF FirstArm(Arms, msr) = 0 THEN Ok(0) ELSE Ok(RegId(Arms[FirstArm(Arms, msr)][2]))

(* msr_to_hv_reg_name: the first arm matching msr, or the error. *)
msr_to_hv_reg_name(msr) ==
  IF FirstArm(Arms, msr) = 0 THEN Err ELSE Ok(RegId(Arms[FirstArm(Arms, msr)][2]))

(* The static MSR tables, as sequences of constants. *)
MSRS_SYNIC ==
  [n \in 1 .. 16 |-> "HV_X64_MSR_SINT" \o ToString(n - 1)]
  \o <<"HV_X64_MSR_SCONTROL", "HV_X64_MSR_SIEFP", "HV_X64_MSR_SIMP">>

MSRS_COMMON ==
  <<"IA32_MSR_TSC", "IA32_MSR_EFER", "IA32_MSR_KERNEL_GS_BASE", "IA32_MSR_APIC_BASE",
    "IA32_MSR_PAT", "IA32_MSR_SYSENTER_CS", "IA32_MSR_SYSENTER_ESP",
    "IA32_MSR_SYSENTER_EIP", "IA32_MSR_STAR", "IA32_MSR_LSTAR", "IA32_MSR_CSTAR",
    "IA32_MSR_SFMASK", "IA32_MSR_MTRR_DEF_TYPE">>
  \o [n \in 1 .. 16 |-> "IA32_MSR_MTRR_PHYS" \o (IF n % 2 = 1 THEN "BASE" ELSE "MASK")
                         \o ToString((n - 1) \div 2)]
  \o <<"IA32_MSR_MTRR_FIX64K_00000", "IA32_MSR_MTRR_FIX16K_80000",
       "IA32_MSR_MTRR_FIX16K_A0000", "IA32_MSR_MTRR_FIX4K_C0000",
       "IA32_MSR_MTRR_FIX4K_C8000", "IA32_MSR_MTRR_FIX4K_D0000",
       "IA32_MSR_MTRR_FIX4K_D8000", "IA32_MSR_MTRR_FIX4K_E0000",
       "IA32_MSR_MTRR_FIX4K_E8000", "IA32_MSR_MTRR_FIX4K_F0000",
       "IA32_MSR_MTRR_FIX4K_F8000", "IA32_MSR_DEBUG_CTL", "HV_X64_MSR_EOM">>

MSRS_CET_SS ==
  <<"MSR_IA32_U_CET", "MSR_IA32_S_CET", "MSR_IA32_SSP", "MSR_IA32_PL0_SSP",
    "MSR_IA32_PL1_SSP", "MSR_IA32_PL2_SSP", "MSR_IA32_PL3_SSP",
    "MSR_IA32_INTERRUPT_SSP_TABLE_ADDR">>

(* The indices of a table of constants. *)
Indices(t) == [n \in 1 .. Len(t) |-> Value[t[n]]]

(* The block of MSRs a feature bit adds, when it is set. *)
If(features, flag, block) == IF flag \in features THEN Indices(block) ELSE << >>

(* get_partition_supported_msrs: the common block, then each feature-gated *)
(* block in a fixed order.                                                 *)
get_partition_supported_msrs(features) ==
  Indices(MSRS_COMMON)
  \o If(features, "cet_ss_support", MSRS_CET_SS)
  \o If(features, "rdtscp_support", <<"IA32_MSR_TSC_AUX">>)
  \o If(features, "xsave_supervisor_support", <<"MSR_IA32_REGISTER_U_XSS">>)
  \o If(features, "access_synic_regs", MSRS_SYNIC)
  \o If(features, "access_partition_reference_tsc", <<"HV_X64_MSR_REFERENCE_TSC">>)
  \o If(features, "access_hypercall_regs", <<"HV_X64_MSR_GUEST_OS_ID">>)

-----------------------------------------------------------------------------
(* A VMM building the MSR list of a VP and resolving its entries, and     *)
(* resolving the indices of the guest's own MSR accesses.                 *)

CONSTANT ProbeMsrs   \* MSR indices a guest reads or writes

VARIABLES
  features,  \* the VP's negotiated feature bits
  msrs,      \* the list get_partition_supported_msrs returned
  names,     \* what resolving each of its first Len(names) entries returned
  pc,        \* "build", "resolve" or "done"
  probe      \* what resolving the last guest access returned (Err before any)

vars == <<features, msrs, names, pc, probe>>

Init ==
  /\ features \in SUBSET Flags
  /\ msrs = << >>
  /\ names = << >>
  /\ pc = "build"
  /\ probe = Err

(* The VMM computes the list of MSRs to synchronise. *)
Build ==
  /\ pc = "build"
  /\ msrs' = get_partition_supported_msrs(features)
  /\ pc' = IF msrs' = << >> THEN "done" ELSE "resolve"
  /\ UNCHANGED <<features, names, probe>>

(* The VMM resolves the next entry of the list. *)
ResolveNext ==
  /\ pc = "resolve"
  /\ names' = Append(names, msr_to_hv_reg_name(msrs[Len(names) + 1]))
  /\ pc' = IF Len(names') = Len(msrs) THEN "done" ELSE "resolve"
  /\ UNCHANGED <<features, msrs, probe>>

(* The VMM resolves the index of an MSR the guest accessed. *)
ResolveGuestAccess(m) ==
  /\ probe' = msr_to_hv_reg_name(m)
  /\ UNCHANGED <<features, msrs, names, pc>>

Next ==
  \/ Build
  \/ ResolveNext
  \/ \E m \in ProbeMsrs : ResolveGuestAccess(m)

Spec == Init /\ [][Next]_vars

-----------------------------------------------------------------------------
(* Properties. *)

TypeOK ==
  /\ features \subseteq Flags
  /\ msrs \in Seq({Value[c] : c \in DOMAIN Value})
  /\ names \in Seq({Ok(r) : r \in RegIds} \cup {Err})
  /\ pc \in {"build", "resolve", "done"}
  /\ probe \in {Ok(r) : r \in RegIds} \cup {Err}

(* Whatever features a VP has, every MSR get_partition_supported_msrs     *)
(* lists is one msr_to_hv_reg_name resolves: the tables and the match     *)
(* agree, so syncing the list never meets an unsupported index.          *)
ListResolves == \A i \in 1 .. Len(names) : names[i] # Err

(* Whatever features a VP has, the entries of its MSR list resolve to     *)
(* pairwise distinct hypervisor registers: no MSR is listed twice and no  *)
(* two arms of the match name the same register, so no slot of the MSR    *)
(* transfer overwrites another's register.                                *)
DistinctRegisters ==
  \A i, j \in 1 .. Len(names) : i # j => names[i] # names[j]

====
