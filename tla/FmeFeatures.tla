---------------------------- MODULE FmeFeatures ----------------------------
(***************************************************************************)
(* The drivers of the FME's features.  They share no register, so each     *)
(* behaviour exercises one of them while the others rest: `part' names it, *)
(* and for the error registers and the monitors also which of them the FME *)
(* has.                                                                    *)
(***************************************************************************)
EXTENDS FmePr

CONSTANTS
    Threads,                    \* Users of the three modules
    ErrSetups, MBP,             \* of FmeError: its Errs, HighErrs, PcieRegs
    MonSets, Events, Objs, ROOT,   \* of FmePerf: MonSets are choices of Mons
    Values,                     \* of FmeThresholds
    NONE

\* The values stored are bytes.
ASSUME FmeAssumption ==
    /\ NONE \notin Threads /\ ROOT \in Objs
    /\ Values \subseteq 0 .. 255
    /\ \A s \in ErrSetups :
         /\ s.pcie \subseteq {"pcie0_err", "pcie1_err"}
         /\ \A e \in s.errs \cup s.high \cup {MBP} : NONE # <<"fme_err", e>>

VARIABLES
    part,
    errBits, mask, first, next, inject, errLock, errPc, errReg, val, curErr,
    curFirst, curNext,
    perfCtl, ctr, ctr1, perfLock, perfOp, frozen, counted,
    thrReg, enable, lockBit, lock, op, stored

errVars  == <<errBits, mask, first, next, inject, errLock, errPc, errReg, val,
              curErr, curFirst, curNext>>
perfVars == <<perfCtl, ctr, ctr1, perfLock, perfOp, frozen, counted>>
thrVars  == <<thrReg, enable, lockBit, lock, op, stored>>
allVars  == <<part, vars, errVars, perfVars, thrVars>>

Err(s) == INSTANCE FmeError WITH
    Users <- Threads, Errs <- s.errs, HighErrs <- s.high, PcieRegs <- s.pcie,
    err <- errBits, lock <- errLock, pc <- errPc, reg <- errReg

Perf(Mons) == INSTANCE FmePerf WITH
    Users <- Threads, ctl <- perfCtl, lock <- perfLock, op <- perfOp

Thr == INSTANCE FmeThresholds WITH Users <- Threads, reg <- thrReg

Parts == {<<"pr">>, <<"thresholds">>} \cup {<<"errors", s>> : s \in ErrSetups}
            \cup {<<"perf", M>> : M \in MonSets}

FmeInit ==
    /\ part \in Parts
    /\ Init
    /\ \E s \in ErrSetups :
         Err(s)!Init /\ (part[1] = "errors" => part = <<"errors", s>>)
    /\ \E M \in MonSets :
         Perf(M)!Init /\ (part[1] = "perf" => part = <<"perf", M>>)
    /\ Thr!Init

PrNext == part = <<"pr">> /\ Next
ErrNext == \E s \in ErrSetups : part = <<"errors", s>> /\ Err(s)!Next
PerfNext == \E M \in MonSets : part = <<"perf", M>> /\ Perf(M)!Next
ThrNext == part = <<"thresholds">> /\ Thr!Next

FmeNext ==
    \/ PrNext /\ UNCHANGED <<part, errVars, perfVars, thrVars>>
    \/ ErrNext /\ UNCHANGED <<part, vars, perfVars, thrVars>>
    \/ PerfNext /\ UNCHANGED <<part, vars, errVars, thrVars>>
    \/ ThrNext /\ UNCHANGED <<part, vars, errVars, perfVars>>

\* The fairness of each part, as its own FairSpec states it.
Fairness ==
    /\ WF_vars(part = <<"pr">> /\ Driver)
    /\ \A M \in MonSets, u \in Threads :
         WF_perfVars(part = <<"perf", M>> /\ Perf(M)!Step(u))

FmeSpec == FmeInit /\ [][FmeNext]_allVars /\ Fairness

----------------------------------------------------------------------------
(* Properties, made of those stated and explained in the module of each    *)
(* part; PrSafe and ImplementsService are those of FmePr.                  *)

\* Clearing the errors of the FME never loses the record of an error that
\* arrives meanwhile nor leaves that of an error it has cleared, as long as the
\* error is one it can clear; and a store that is refused leaves no error masked.
FmeErrorsRight ==
    \A s \in ErrSetups : part = <<"errors", s>> =>
      Err(s)!FirstErrorKept /\ Err(s)!MasksRestored

\* An error disappears only if a value some user wrote names it.
OnlyAcknowledged ==
    [][\A s \in ErrSetups : part = <<"errors", s>> => Err(s)!Acknowledged]_errVars

\* A counter that is shown is that of the event and of the object asked for,
\* and readers, freezing and enabling never undo one another's register write.
\* Of the two counters that make up a cache counter this is claimed of the
\* first; the second may be late, but no other reader has selected an event.
CountersRight ==
    \A M \in MonSets : part = <<"perf", M>> =>
      Perf(M)!RightEvent /\ Perf(M)!CountedObject /\ Perf(M)!NoLostUpdate

\* Every threshold reads back as the last value stored with success.
AsStored == Thr!AsStored

\* Every PR comes back and pdata->lock is released after every access to a
\* monitor, whatever the hardware does: each wait is bounded.
CallsReturn == PrReturns /\ \A M \in MonSets : Perf(M)!LockReleased
============================================================================
