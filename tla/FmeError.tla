------------------------------ MODULE FmeError ------------------------------
(***************************************************************************)
(* The global error registers of the FME (fme-error.c).  Errors set bits   *)
(* of fme_err, pcie0_err and pcie1_err; fme_first_err and fme_next_err     *)
(* record the first and the second error register that was triggered.      *)
(* A user reads a register and writes the value back to clear it: the file *)
(* "clear" for fme_err together with the first and next records, the files *)
(* "pcie0_errors" and "pcie1_errors" for the other two.                    *)
(*                                                                         *)
(* The registers are hardware: a masked bit is not captured, writing 1     *)
(* clears a bit.  Errs are the error bits inside FME_ERROR0_MASK (0xFF)    *)
(* and the equal masks of the PCIe registers, HighErrs those outside: they *)
(* are never masked and never written back.  MBP is the bit that           *)
(* FME_ERROR0_MASK_DEFAULT keeps masked.                                   *)
(***************************************************************************)
EXTENDS Integers, FiniteSets

CONSTANTS Users, Errs, HighErrs, MBP, PcieRegs, NONE

FmeErr == "fme_err"
Regs   == {FmeErr} \cup PcieRegs

\* FME_ERROR0_MASK, FME_PCIE0_ERROR_MASK, FME_PCIE1_ERROR_MASK
Maskable == Errs \cup {MBP}

VARIABLES err, mask,          \* per register
          first, next,        \* records: <<register, error>> or NONE
          inject,             \* ras_error_inj
          lock,               \* owner of pdata->lock
          pc, reg, val,       \* per user: place, file and value written
          curErr, curFirst, curNext   \* per user: the values read

hw    == <<err, first, next>>
local == <<pc, reg, val, curErr, curFirst, curNext>>
vars  == <<hw, mask, inject, lock, local>>

\* The mask of a register at rest: fme_error_enable and the end of each store.
DefaultMask(r) == IF r = FmeErr THEN {MBP} ELSE {}

Init ==
  /\ err = [r \in Regs |-> {}]
  /\ mask = [r \in Regs |-> DefaultMask(r)]
  /\ first = NONE /\ next = NONE
  /\ inject = 0
  /\ lock = NONE
  /\ pc = [u \in Users |-> "idle"]
  /\ reg = [u \in Users |-> FmeErr]
  /\ val = [u \in Users |-> {}]
  /\ curErr = [u \in Users |-> {}]
  /\ curFirst = [u \in Users |-> NONE]
  /\ curNext = [u \in Users |-> NONE]

\* An error is captured, and recorded as the first or the next one.
HwError(r, e) ==
  /\ e \notin err[r] \cup mask[r]
  /\ err' = [err EXCEPT ![r] = @ \cup {e}]
  /\ first' = IF first = NONE THEN <<r, e>> ELSE first
  /\ next' = IF first # NONE /\ next = NONE THEN <<r, e>> ELSE next
  /\ UNCHANGED <<mask, inject, lock, local>>

----------------------------------------------------------------------------
(* The sysfs files *)

\* inject_error_store: values of more than three bits are refused.
InjectError(u, data) ==
  /\ pc[u] = "idle" /\ lock = NONE
  /\ data <= 7
  /\ inject' = data
  /\ UNCHANGED <<hw, mask, lock, local>>

Shown(u, r) ==
  /\ pc[u] = "idle"
  /\ reg' = [reg EXCEPT ![u] = r]
  /\ val' = [val EXCEPT ![u] = err[r]]
  /\ UNCHANGED <<hw, mask, inject, lock, pc, curErr, curFirst, curNext>>

\* errors_show: read without the lock, to be written to "clear" later.
ErrorsShow(u) == Shown(u, FmeErr)

\* pcie0_errors_show, pcie1_errors_show
PcieErrorsShow(u) == \E r \in PcieRegs : Shown(u, r)

Goto(u, from, to) ==
  /\ pc[u] = from
  /\ pc' = [pc EXCEPT ![u] = to]

Locked(u, masked) ==
  /\ lock = NONE
  /\ Goto(u, "idle", "read")
  /\ lock' = u
  /\ mask' = [mask EXCEPT ![reg[u]] = masked]
  /\ UNCHANGED <<hw, inject, reg, val, curErr, curFirst, curNext>>

\* Mutant: the errors are not masked.
ClearStoreUnmasked(u) == reg[u] = FmeErr /\ Locked(u, DefaultMask(FmeErr))

\* clear_store locks and masks the errors of fme_err.
ClearStore(u) == reg[u] = FmeErr /\ Locked(u, Maskable)

\* pcie0_errors_store, pcie1_errors_store: the same steps on their register,
\* without the records.
PcieStore(u) == reg[u] \in PcieRegs /\ Locked(u, Maskable)

\* Mutant: whatever the register holds is cleared.
ReadAlways(u) ==
  /\ Goto(u, "read", IF reg[u] = FmeErr THEN "first" ELSE "write")
  /\ curErr' = [curErr EXCEPT ![u] = err[reg[u]]]
  /\ UNCHANGED <<hw, mask, inject, lock, reg, val, curFirst, curNext>>

\* -EBUSY unless the register still is what the user read.
Read(u) ==
  LET e == err[reg[u]]
  IN /\ Goto(u, "read", IF val[u] # e THEN "unmask"
                        ELSE IF reg[u] = FmeErr THEN "first" ELSE "write")
     /\ curErr' = [curErr EXCEPT ![u] = e]
     /\ UNCHANGED <<hw, mask, inject, lock, reg, val, curFirst, curNext>>

ReadFirst(u) ==
  /\ Goto(u, "first", "next")
  /\ curFirst' = [curFirst EXCEPT ![u] = first]
  /\ UNCHANGED <<hw, mask, inject, lock, reg, val, curErr, curNext>>

ReadNext(u) ==
  /\ Goto(u, "next", "write")
  /\ curNext' = [curNext EXCEPT ![u] = next]
  /\ UNCHANGED <<hw, mask, inject, lock, reg, val, curErr, curFirst>>

\* The maskable bits of the value read are written back.
WriteError(u) ==
  /\ Goto(u, "write", IF reg[u] = FmeErr THEN "write_first" ELSE "unmask")
  /\ err' = [err EXCEPT ![reg[u]] = @ \ (curErr[u] \cap Maskable)]
  /\ UNCHANGED <<first, next, mask, inject, lock, reg, val, curErr,
                 curFirst, curNext>>

\* Writing the bits read to a record clears it if it still holds them.
WriteFirst(u) ==
  /\ Goto(u, "write_first", "write_next")
  /\ first' = IF first = curFirst[u] THEN NONE ELSE first
  /\ UNCHANGED <<err, next, mask, inject, lock, reg, val, curErr, curFirst,
                 curNext>>

WriteNext(u) ==
  /\ Goto(u, "write_next", "unmask")
  /\ next' = IF next = curNext[u] THEN NONE ELSE next
  /\ UNCHANGED <<err, first, mask, inject, lock, reg, val, curErr, curFirst,
                 curNext>>

Left(u, m) ==
  /\ Goto(u, "unmask", "idle")
  /\ mask' = [mask EXCEPT ![reg[u]] = m]
  /\ lock' = NONE
  /\ reg' = [reg EXCEPT ![u] = FmeErr]
  /\ val' = [val EXCEPT ![u] = {}]
  /\ curErr' = [curErr EXCEPT ![u] = {}]
  /\ curFirst' = [curFirst EXCEPT ![u] = NONE]
  /\ curNext' = [curNext EXCEPT ![u] = NONE]
  /\ UNCHANGED <<hw, inject>>

\* -EBUSY and success alike restore the mask and unlock.
Return(u) == Left(u, DefaultMask(reg[u]))

Next ==
  \/ \E r \in Regs, e \in Maskable \cup HighErrs : HwError(r, e)
  \/ \E u \in Users :
       \/ \E data \in {0, 7, 8} : InjectError(u, data)
       \/ ErrorsShow(u) \/ PcieErrorsShow(u)
       \/ ClearStore(u) \/ PcieStore(u) \/ Read(u) \/ ReadFirst(u) \/ ReadNext(u)
       \/ WriteError(u) \/ WriteFirst(u) \/ WriteNext(u) \/ Return(u)

Spec == Init /\ [][Next]_vars

----------------------------------------------------------------------------
(* Properties *)

\* An error leaves one of the three registers only when the value a user
\* wrote to that register's file names it, whatever other users clear and
\* whatever errors arrive meanwhile.
Acknowledged ==
  \A r \in DOMAIN err : \A e \in err[r] : e \notin err'[r] =>
    \E u \in Users : pc[u] = "write" /\ reg[u] = r /\ e \in val[u]

\* The record of the first error, while no clear is running: if an error of
\* fme_err that a clear can clear is pending there is a record, and a record of
\* an error of fme_err names one that is pending.  A clear never drops the
\* record of an error that arrives while it runs, nor keeps that of an error it
\* has cleared.
FirstErrorKept ==
  lock = NONE =>
     /\ first = NONE => err[FmeErr] \cap Maskable = {}
     /\ \A e \in Maskable \cup HighErrs : first = <<FmeErr, e>> => e \in err[FmeErr]

\* Stronger, and false: whatever error is pending, the record names a pending
\* one.  clear_store drops the record of an error it cannot clear, one of
\* HighErrs or of a PCIe register, and the PCIe stores leave the record of the
\* error they clear.
FirstErrorComplete ==
  (lock = NONE /\ \E r \in Regs : err[r] # {}) =>
     /\ first # NONE
     /\ first[2] \in err[first[1]]

\* Whenever the lock is free each register captures all its errors but MBP,
\* also after a clear that was refused with -EBUSY.
MasksRestored ==
  lock = NONE => \A r \in DOMAIN mask : mask[r] = DefaultMask(r)
=============================================================================
