------------------------------ MODULE MCBoard ------------------------------
(* Board with small sets; the part that rests does so in one state, and    *)
(* one thread meets a BMC that runs its boot loader.                       *)
EXTENDS Board

CONSTANTS t1, t2

Xact(n) == [name |-> "xact", rxlen |-> n]
FewOps == {Xact(3), [name |-> "sdr"]}

\* One thread with every operation, records shorter than a chunk and of the
\* full size; two threads that fetch records and send messages; a slow BMC.
MCSetups ==
    {[threads |-> {t1}, lens |-> <<2, 6>>, late |-> FALSE,
      ops |-> FewOps \cup {Xact(2), [name |-> "sensors"]}],
     [threads |-> {t1, t2}, lens |-> <<4>>, late |-> FALSE, ops |-> FewOps],
     [threads |-> {t1}, lens |-> <<4>>, late |-> TRUE, ops |-> {[name |-> "sdr"]}]}

MCInit ==
    /\ Init
    /\ part = <<"pll">> => active = "main" /\ DOMAIN op = {t1, PROBE}
    /\ DOMAIN op = {t1, t2, PROBE} => active = "main"

MCSpec == MCInit /\ [][Next]_vars /\ Fairness
============================================================================
