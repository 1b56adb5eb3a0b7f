----------------------------- MODULE PortError -----------------------------
(***************************************************************************)
(* The error registers of a port (afu-error.c): errors the AFU causes set  *)
(* bits of port_error, the first of them that has a bit in                 *)
(* port_first_error as well is latched there, and a user who has read      *)
(* "errors" writes that value to "clear".                                  *)
(*                                                                         *)
(* The registers are hardware.  A bit of port_error is cleared by writing  *)
(* 1 to it, and a bit set in error_mask is not captured.  The two errors   *)
(* "AFU MMIO RD/WR received while PORT is in reset" (ResetErrs) arise only *)
(* while the soft reset is held, and PORT_ERR_MASK does not cover them.  A *)
(* partial reconfiguration disables the port on its own account.           *)
(***************************************************************************)
EXTENDS Integers, FiniteSets

CONSTANTS Users,        \* processes that read "errors" and write "clear"
          MaskedErrs,   \* errors with a bit in PORT_ERR_MASK
          ResetErrs,    \* mmio_rd_whilerst, mmio_wr_whilerst
          FirstErrs,    \* errors with a bit in port_first_error
          NONE

Errs == MaskedErrs \cup ResetErrs

VARIABLES error, first, mask,      \* port_error, port_first_error, error_mask
          ap6,                     \* status.power_state is AP6
          disable_count, sftrst,
          prHeld,                  \* a reconfiguration has disabled the port
          lock,                    \* owner of pdata->lock
          pc, val,                 \* per user: place in clear, value written
          cur                      \* per user: register value read last

regs  == <<error, first, mask>>
reset == <<disable_count, sftrst>>
local == <<pc, val, cur>>
vars  == <<regs, ap6, reset, prHeld, lock, local>>

\* port_err_init leaves every error unmasked.
Init ==
  /\ error = {} /\ first = {} /\ mask = {}
  /\ ap6 = FALSE
  /\ disable_count = 0 /\ sftrst = FALSE /\ prHeld = FALSE
  /\ lock = NONE
  /\ pc = [u \in Users |-> "idle"]
  /\ val = [u \in Users |-> {}]
  /\ cur = [u \in Users |-> {}]

\* __fpga_port_disable: only the first caller sets the soft reset.
PortDisable ==
  /\ disable_count' = disable_count + 1
  /\ sftrst' = (sftrst \/ disable_count = 0)

\* __fpga_port_enable: only the last one clears it.
PortEnable ==
  /\ disable_count' = disable_count - 1
  /\ sftrst' = (sftrst /\ disable_count # 1)

----------------------------------------------------------------------------
(* Hardware *)

\* The AFU runs into an error.
HwError(e) ==
  /\ e \notin error \cup mask
  /\ e \in ResetErrs => sftrst
  /\ error' = error \cup {e}
  /\ first' = IF first = {} THEN {e} \cap FirstErrs ELSE first
  /\ UNCHANGED <<mask, ap6, reset, prHeld, lock, local>>

PowerState ==
  /\ ap6' = ~ap6
  /\ UNCHANGED <<regs, reset, prHeld, lock, local>>

----------------------------------------------------------------------------
(* A reconfiguration: fpga_port_disable and fpga_port_enable take the lock *)
(* for the call only.                                                      *)

PrDisable ==
  /\ lock = NONE /\ ~prHeld
  /\ prHeld' = TRUE
  /\ PortDisable
  /\ UNCHANGED <<regs, ap6, lock, local>>

PrEnable ==
  /\ lock = NONE /\ prHeld
  /\ prHeld' = FALSE
  /\ PortEnable
  /\ UNCHANGED <<regs, ap6, lock, local>>

----------------------------------------------------------------------------
(* The sysfs files "errors" and "clear" *)

\* errors_show, without the lock; the user will write what it read.
ErrorsShow(u) ==
  /\ pc[u] = "idle"
  /\ val' = [val EXCEPT ![u] = error]
  /\ UNCHANGED <<regs, ap6, reset, prHeld, lock, pc, cur>>

Goto(u, from, to) ==
  /\ pc[u] = from
  /\ pc' = [pc EXCEPT ![u] = to]

\* clear_store, port_err_clear: refused in AP6, otherwise the port is halted.
ClearBegin(u) ==
  /\ lock = NONE /\ ~ap6
  /\ Goto(u, "idle", "mask")
  /\ lock' = u
  /\ PortDisable
  /\ UNCHANGED <<regs, ap6, prHeld, val, cur>>

\* Mutant: nothing is masked.
MaskNothing(u) ==
  /\ Goto(u, "mask", "read")
  /\ UNCHANGED <<regs, ap6, reset, prHeld, lock, val, cur>>

\* port_err_mask(dev, true)
MaskAll(u) ==
  /\ Goto(u, "mask", "read")
  /\ mask' = MaskedErrs
  /\ UNCHANGED <<error, first, ap6, reset, prHeld, lock, val, cur>>

\* The errors are compared with the ones the user names.
ReadError(u) ==
  /\ Goto(u, "read", IF error = val[u] THEN "write" ELSE "unmask")
  /\ cur' = [cur EXCEPT ![u] = error]
  /\ UNCHANGED <<regs, ap6, reset, prHeld, lock, val>>

WriteError(u) ==
  /\ Goto(u, "write", "read_first")
  /\ error' = error \ cur[u]
  /\ UNCHANGED <<first, mask, ap6, reset, prHeld, lock, val, cur>>

ReadFirst(u) ==
  /\ Goto(u, "read_first", "write_first")
  /\ cur' = [cur EXCEPT ![u] = first]
  /\ UNCHANGED <<regs, ap6, reset, prHeld, lock, val>>

WriteFirst(u) ==
  /\ Goto(u, "write_first", "unmask")
  /\ first' = first \ cur[u]
  /\ UNCHANGED <<error, mask, ap6, reset, prHeld, lock, val, cur>>

\* Both ways out unmask the errors, enable the port and unlock.
Unmask(u) ==
  /\ Goto(u, "unmask", "enable")
  /\ mask' = {}
  /\ UNCHANGED <<error, first, ap6, reset, prHeld, lock, val, cur>>

End(u) ==
  /\ Goto(u, "enable", "idle")
  /\ lock' = NONE
  /\ val' = [val EXCEPT ![u] = {}]
  /\ cur' = [cur EXCEPT ![u] = {}]
  /\ PortEnable
  /\ UNCHANGED <<regs, ap6, prHeld>>

Clear(u) ==
  \/ ClearBegin(u) \/ MaskAll(u) \/ ReadError(u) \/ WriteError(u)
  \/ ReadFirst(u) \/ WriteFirst(u) \/ Unmask(u) \/ End(u)

Next ==
  \/ \E e \in Errs : HwError(e)
  \/ PowerState
  \/ PrDisable \/ PrEnable
  \/ \E u \in Users : ErrorsShow(u) \/ Clear(u)

Spec == Init /\ [][Next]_vars

----------------------------------------------------------------------------
(* Properties *)

\* Whenever no clear is running, the error in port_first_error is one of those
\* pending in port_error, and there is one if an error that belongs there is
\* pending: clearing the two registers one after the other drops no record of
\* an error that stays.  The errors that port_err_mask cannot hold back while
\* the clear has the port in reset are excepted.
FirstErrorKept ==
  lock = NONE => /\ first \subseteq error
                 /\ first = {} => error \cap FirstErrs \subseteq ResetErrs

\* "Set PORT Error mask to all 1 to mask errors", the comment of
\* port_err_clear: the same without the exception.
FirstErrorComplete ==
  lock = NONE /\ first = {} => error \cap FirstErrs = {}

\* Whenever the lock is free every error is captured again, whichever way the
\* clear ended, and the port is in reset exactly while a reconfiguration
\* holds it there.
PortRestored ==
  lock = NONE => mask = {} /\ sftrst = prHeld
=============================================================================
