------------------------------- MODULE MCFme -------------------------------
(* FmeFeatures with small sets; a part that rests does so in one state.    *)
EXTENDS FmeFeatures

CONSTANTS p1, e1, e2, h1, ev1

\* Errors of the FME alone, with one that no mask has, and with those of a PCIe
\* register.
MCErrSetups == {[errs |-> {e1, e2}, high |-> {}, pcie |-> {}],
                [errs |-> {e1}, high |-> {h1}, pcie |-> {}],
                [errs |-> {e1}, high |-> {}, pcie |-> {"pcie0_err"}]}

MCInit ==
    /\ FmeInit
    /\ part[1] # "pr" => port = p1
    /\ part[1] # "errors" => DOMAIN errBits = {"fme_err"}
    /\ part[1] # "perf" => DOMAIN ctr = {"fab"} /\ ctr1 = ev1
    /\ part[1] # "thresholds" => ~lockBit

MCSpec == MCInit /\ [][FmeNext]_allVars /\ Fairness
============================================================================
