--------------------------- MODULE PortFeatures ----------------------------
(***************************************************************************)
(* What the driver of a port offers besides DMA: regions to map, interrupt *)
(* vectors and the error registers.  They share no state, so a behaviour   *)
(* exercises one of them while the others rest: `part' names it.           *)
(***************************************************************************)
EXTENDS AfuRegions, FiniteSets

CONSTANTS Users, MaskedErrs, ResetErrs, FirstErrs,   \* of PortError
          NumUint, NumErr, Evts, MaxU,   \* of MsixVectors
          NONE

\* An error feature with vectors, or the UINT feature, may be missing; the
\* numbers of vectors are values of a u32.
ASSUME FeatureAssumption ==
    /\ NumUint \in Nat /\ NumErr \in Nat
    /\ MaxU \in Nat \ {0} /\ NumUint <= MaxU /\ NumErr <= MaxU
    /\ NONE \notin Users /\ NONE \notin Evts

VARIABLES
    part,
    error, first, mask, ap6, disable_count, sftrst, prHeld, lock, pc, val, cur,
    trigger, named, irqArg, running, refs, fdOpen, opens, call

regVars == <<regions, region_cur_offset, maps>>
errVars == <<error, first, mask, ap6, disable_count, sftrst, prHeld, lock, pc,
             val, cur>>
irqVars == <<trigger, named, irqArg, running, refs, fdOpen, opens, call>>
allVars == <<part, regVars, errVars, irqVars>>

Err == INSTANCE PortError

Irq == INSTANCE MsixVectors WITH NULL <- NONE

FeatInit ==
    /\ part \in {"regions", "errors", "irqs"}
    /\ Init /\ Err!Init /\ Irq!Init

FeatNext ==
    \/ part = "regions" /\ Next /\ UNCHANGED <<part, errVars, irqVars>>
    \/ part = "errors" /\ Err!Next /\ UNCHANGED <<part, regVars, irqVars>>
    \/ part = "irqs" /\ Irq!Next /\ UNCHANGED <<part, regVars, errVars>>

\* The fairness of MsixVectors.
FeatSpec ==
    /\ FeatInit /\ [][FeatNext]_allVars
    /\ WF_irqVars(part = "irqs" /\ Irq!CallStep)
    /\ \A v \in Irq!Vectors : WF_irqVars(part = "irqs" /\ Irq!Signal(v))

----------------------------------------------------------------------------
(* Properties, made of those stated and explained in the module of each part;  *)
(* MapsItsRegion is that of AfuRegions.                                        *)

\* Clearing port_error and port_first_error one by one drops no record of an
\* error that stays, other than of an access while the port is in reset; after
\* a clear, refused or not, all errors are captured and the port is in reset
\* only if a reconfiguration holds it there.
PortErrorsRight == Err!FirstErrorKept /\ Err!PortRestored

\* A handler never signals an eventfd that has been released, and no failure of
\* SET_IRQ leaks a reference or leaves half a vector.
EventfdsRight == Irq!SignalAlive /\ Irq!Accounted

\* SET_IRQ ties its block of vectors or unties a prefix of it, and no other;
\* nothing is tied once the device is closed for the last time.
VectorsRight == Irq!BlockOutcome /\ Irq!NothingTiedWhenClosed

\* Every call that ties or unties vectors returns, interrupts or not.
CallReturns == Irq!CallReturns
============================================================================
