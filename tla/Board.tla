------------------------------- MODULE Board -------------------------------
(***************************************************************************)
(* The drivers of the card's management controller (BMC) and user clock    *)
(* (IOPLL).  They share no register, so each behaviour exercises one of    *)
(* them while the other rests: `part' names it, and for the BMC also the   *)
(* callers, what they call, the records the BMC has and whether it may be  *)
(* late.                                                                   *)
(***************************************************************************)
EXTENDS Integers, Sequences

CONSTANTS
    BmcSetups,                  \* of BmcMailbox: its Threads, Ops, RecordLens
                                \* and TimeOuts
    PROBE, Base, MAX_PACKET_SIZE, SDR_CHUNK_SIZE, SdrSize, MaxPolls,
    Users, Configs, OLD,        \* of Iopll
    MaxBmcCalls, MaxPllCalls, NONE

VARIABLES
    part,
    life, destroyed, mutex, op, reply, tx, sdrs, num_sdr, calls,
    result, request, rcount, response, lo, hi, bmc, active,
    bound, want, pllMutex, todo, waiting, seq, status, got, store,
    done, pllCalls, synced, cmd, sts, pll, cal, clock

bmcVars == <<life, destroyed, mutex, op, reply, tx, sdrs, num_sdr,
             calls, result, request, rcount, response, lo, hi, bmc, active>>
pllVars == <<bound, want, pllMutex, todo, waiting, seq, status, got,
             store, done, pllCalls, synced, cmd, sts, pll, cal, clock>>
vars    == <<part, bmcVars, pllVars>>

Bmc(s) == INSTANCE BmcMailbox WITH
    Threads <- s.threads, Ops <- s.ops, RecordLens <- s.lens,
    TimeOuts <- s.late, MaxCalls <- MaxBmcCalls

Pll == INSTANCE Iopll WITH
    MaxCalls <- MaxPllCalls, mutex <- pllMutex, calls <- pllCalls

\* The requests the driver sends to the BMC.
Requests ==
    [k : {"raw"}, n : Nat] \cup [k : {"sensor"}, sdr : Nat \X Nat]
    \cup [k : {"sdr"}, rec : Nat, off : Nat, cnt : Nat]
    \cup [k : {"version", "jump", "count"}]

\* A record fits its struct, and the chunks that are asked for cover it; NONE
\* is no work of the BMC.
ASSUME BoardAssumption ==
    /\ NONE \notin Users
    /\ NONE \notin [q : Requests, at : {"count"}]
    /\ Base \in Nat /\ Base > 1
    /\ SdrSize \in Nat /\ SDR_CHUNK_SIZE \in Nat \ {0}
    /\ \A s \in BmcSetups :
         /\ NONE \notin s.threads \cup {PROBE} /\ PROBE \notin s.threads
         /\ s.lens \in Seq(1 .. SdrSize) /\ s.late \in BOOLEAN
         /\ \A o \in s.ops : o.name \in {"xact", "sensors", "sdr"}
         /\ SdrSize <= SDR_CHUNK_SIZE * Bmc(s)!Loops

Parts == {<<"pll">>} \cup {<<"bmc", s>> : s \in BmcSetups}

Init ==
    /\ part \in Parts
    /\ \E s \in BmcSetups :
         Bmc(s)!Init /\ (part[1] = "bmc" => part = <<"bmc", s>>)
    /\ Pll!Init

BmcNext == \E s \in BmcSetups : part = <<"bmc", s>> /\ Bmc(s)!Next
PllNext == part = <<"pll">> /\ Pll!Next

Next ==
    \/ BmcNext /\ UNCHANGED <<part, pllVars>>
    \/ PllNext /\ UNCHANGED <<part, bmcVars>>

\* The fairness of each part, as its own FairSpec states it; of the BMC's,
\* where it may be late, since nothing is said of the other setups' liveness.
LateSetups == {s \in BmcSetups : s.late}

Fairness ==
    /\ \A s \in LateSetups :
         /\ WF_bmcVars(part = <<"bmc", s>> /\ Bmc(s)!Bus)
         /\ WF_bmcVars(part = <<"bmc", s>> /\ Bmc(s)!ProbeEnd)
         /\ \A t \in Bmc(s)!All :
              /\ WF_bmcVars(part = <<"bmc", s>> /\ Bmc(s)!Ends(t))
              /\ SF_bmcVars(part = <<"bmc", s>> /\ Bmc(s)!SendBegin(t))
    /\ WF_pllVars(part = <<"pll">> /\ Pll!Driver)
    /\ \A u \in Users : SF_pllVars(part = <<"pll">> /\ Pll!Lock(u))

Spec == Init /\ [][Next]_vars /\ Fairness

-----------------------------------------------------------------------------
(* Properties, made of those stated and explained in the module of each    *)
(* part.                                                                   *)

\* If no transaction with the BMC times out, each gets the whole answer to its
\* own request, and what avmmi_get_sdr has read of the sensor records is right:
\* all of them, or those before the one it failed at, are in full, and nothing
\* but zeros is in place of what it did not read.
AnswersRight ==
    \A s \in BmcSetups : part = <<"bmc", s>> /\ ~s.late =>
        Bmc(s)!AnswersMatch /\ Bmc(s)!SdrsRight

\* A frequency stored with success is in every register of the PLL.
StoreApplied == Pll!StoreApplied

\* Every handler returns, however slow the BMC or the PLL is.
CallsReturn ==
    /\ \A s \in LateSetups : \A t \in Bmc(s)!All :
         LET called == part = <<"bmc", s>> /\ op[t] # NONE IN called ~> ~called
    /\ Pll!CallReturns
=============================================================================
