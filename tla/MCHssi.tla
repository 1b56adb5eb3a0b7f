------------------------------- MODULE MCHssi -------------------------------
(***************************************************************************)
(* Instances of Hssi: `part' says which operations threads call and what   *)
(* the hardware does.                                                      *)
(***************************************************************************)
EXTENDS Integers, Sequences

CONSTANTS t1, t2, NONE

VARIABLES
    part,
    mutex, want, op, todo, wait, val, got, polls, err, cache, done, calls,
    removed, late, missed, ctrl, ack, data, nios, slave, nacks

hssiVars == <<mutex, want, op, todo, wait, val, got, polls, err, cache, done,
              calls, removed, late, missed, ctrl, ack, data, nios, slave, nacks>>
vars     == <<part, hssiVars>>

\* Two channels with two parameters; bytes of two bits.
NioOps == {[name |-> "config", speed |-> 10], [name |-> "config", speed |-> 40],
           [name |-> "qsfp0", speed |-> 40], [name |-> "qsfp0", speed |-> 7],
           [name |-> "tune_store", chan |-> 0, parm |-> 1, value |-> {0, 1}],
           [name |-> "tune_store", chan |-> 1, parm |-> 0, value |-> {1}],
           [name |-> "tune_show"]}
DfeOps == {[name |-> "dfe_store"], [name |-> "dfe_show"]}
EepromOps == {[name |-> "board_id"], [name |-> "eeprom"]}
Tune == [name |-> "tune_store", chan |-> 0, parm |-> 0, value |-> {0}]

Nio == INSTANCE Hssi WITH
    Threads <- {t1, t2}, Ops <- NioOps, ChanMax <- 1, ParmMax <- 1,
    ByteBits <- 2, SerialLen <- 2, EepromLen <- 4, TimeOuts <- FALSE,
    MaxCalls <- 2, MaxPolls <- 1, MaxNacks <- 0
Dfe == INSTANCE Hssi WITH
    Threads <- {t1, t2}, Ops <- DfeOps, ChanMax <- 1, ParmMax <- 1,
    ByteBits <- 2, SerialLen <- 2, EepromLen <- 4, TimeOuts <- FALSE,
    MaxCalls <- 2, MaxPolls <- 1, MaxNacks <- 0
\* The EEPROM is busy once.
Eeprom == INSTANCE Hssi WITH
    Threads <- {t1, t2}, Ops <- EepromOps, ChanMax <- 1, ParmMax <- 1,
    ByteBits <- 2, SerialLen <- 2, EepromLen <- 4, TimeOuts <- FALSE,
    MaxCalls <- 2, MaxPolls <- 1, MaxNacks <- 1
\* The Nios is late at any command of a thread that reads the EEPROM.
Late == INSTANCE Hssi WITH
    Threads <- {t1}, Ops <- {[name |-> "board_id"]}, ChanMax <- 1, ParmMax <- 1,
    ByteBits <- 2, SerialLen <- 2, EepromLen <- 4, TimeOuts <- TRUE,
    MaxCalls <- 2, MaxPolls <- 1, MaxNacks <- 0
\* The Nios is late at any command: of two threads, and of an adaptation.
Slow == INSTANCE Hssi WITH
    Threads <- {t1, t2}, Ops <- {Tune, [name |-> "dfe_show"]}, ChanMax <- 0,
    ParmMax <- 0, ByteBits <- 2, SerialLen <- 2, EepromLen <- 4, TimeOuts <- TRUE,
    MaxCalls <- 2, MaxPolls <- 1, MaxNacks <- 0
Adapt == INSTANCE Hssi WITH
    Threads <- {t1}, Ops <- {Tune, [name |-> "dfe_store"]}, ChanMax <- 0,
    ParmMax <- 0, ByteBits <- 2, SerialLen <- 2, EepromLen <- 4, TimeOuts <- TRUE,
    MaxCalls <- 2, MaxPolls <- 1, MaxNacks <- 0

SlowNios == part \in {"slow", "adapt"}

Init ==
    /\ part \in {"nios", "dfe", "eeprom", "late", "slow", "adapt"}
    /\ IF SlowNios THEN Slow!Init ELSE Nio!Init

Next ==
    /\ UNCHANGED part
    /\ \/ part = "nios" /\ Nio!Next
       \/ part = "dfe" /\ Dfe!Next
       \/ part = "eeprom" /\ Eeprom!Next
       \/ part = "late" /\ Late!Next
       \/ part = "slow" /\ Slow!Next
       \/ part = "adapt" /\ Adapt!Next

\* The fairness of Hssi!FairSpec.
Spec ==
    /\ Init /\ [][Next]_vars
    /\ WF_hssiVars(SlowNios /\ Slow!Driver)
    /\ \A t \in {t1, t2} : SF_hssiVars(SlowNios /\ Slow!Lock(t))

-----------------------------------------------------------------------------
(* Properties, stated and explained in Hssi.                               *)

\* An operation that succeeds has done its whole effect.
SuccessMeansDone == IF SlowNios THEN Slow!SuccessMeansDone
                    ELSE Nio!SuccessMeansDone

\* What a handler caches for good is what the EEPROM holds, also after attempts
\* that were given up in the middle of a byte, unless a wait of the handler itself
\* timed out; and as long as no wait has, the I2C bus goes back to the card's
\* controller after every handler.
EepromRight == [][\A name \in DOMAIN cache :
                    Nio!CachedRight(name) /\ Nio!BusGivenBack']_vars

\* Every handler returns, however slow the Nios is, unless a failed read of
\* dfe_kickstart has kept the mutex.
CallReturns == SlowNios => Slow!CallReturns
=============================================================================
