--------------------------- MODULE PageArithmetic ---------------------------
(***************************************************************************)
(* The page rounding of regs.rs.  The codecs that hand the hypervisor a    *)
(* Buffer (TryFrom<&LapicState> for Buffer, TryFrom<&XSave> for Buffer)    *)
(* allocate num_pages * HV_PAGE_SIZE bytes for a record of size S, with    *)
(*   num_pages = (S + HV_PAGE_SIZE - 1) >> HV_HYP_PAGE_SHIFT.              *)
(* The shift divides by Q = 2^HV_HYP_PAGE_SHIFT, the multiplication is by  *)
(* P = HV_PAGE_SIZE; the bindings make them equal (4096 = 2^12).  The      *)
(* allocation covers the record whenever Q <= P.                           *)
(***************************************************************************)
EXTENDS Naturals, TLAPS

(* Rounding S up over a divisor Q no larger than the page P and paying P *)
(* per unit covers S: with q = (S + P - 1) \div Q, q * Q > S + P - 1 - Q  *)
(* >= S - 1, and multiplying by P >= Q instead of Q only adds.            *)
LEMMA RoundedUnitsCover ==
  ASSUME NEW S \in Nat, NEW P \in Nat \ {0}, NEW Q \in 1 .. P
  PROVE  /\ ((S + P - 1) \div Q) * P \in Nat
         /\ S <= ((S + P - 1) \div Q) * P
<1>1. PICK q \in Nat : q = (S + P - 1) \div Q
  OBVIOUS
<1>2. q * Q <= S + P - 1 /\ S + P - 1 < q * Q + Q
  BY <1>1
<1>3. S <= q * Q
  BY <1>2
<1>4. q * Q <= q * P
  <2>1. P - Q \in Nat
    OBVIOUS
  <2>2. q * (P - Q) \in Nat
    BY <2>1
  <2>3. q * P = q * Q + q * (P - Q)
    OBVIOUS
  <2>4. QED
    BY <2>2, <2>3
<1>5. QED
  BY <1>1, <1>3, <1>4

(* The page-rounded size the codecs allocate is a natural number no       *)
(* smaller than the record, when the shift's unit 2^k is at most a page.  *)
LEMMA RoundedPagesCover ==
  ASSUME NEW S \in Nat, NEW P \in Nat \ {0}, NEW k \in Nat, 2 ^ k \in 1 .. P
  PROVE  /\ ((S + P - 1) \div 2 ^ k) * P \in Nat
         /\ S <= ((S + P - 1) \div 2 ^ k) * P
BY RoundedUnitsCover

=============================================================================
