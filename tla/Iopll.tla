------------------------------- MODULE Iopll -------------------------------
(***************************************************************************)
(* The user clock of a port (intel-fpga-pac-iopll.c): storing a frequency  *)
(* programs the registers of the PLL one by one, resets it and has it      *)
(* calibrated; showing it measures the two clocks.  A command register     *)
(* carries one access with a sequence number of two bits, and the access   *)
(* is done when the status register shows the same number.                 *)
(*                                                                         *)
(* A PLL register holds the configuration it was written from (a member of *)
(* Configs), the calibration request a set of bits.  A frequency is the    *)
(* contents the PLL registers had when the PLL was reset.                  *)
(*                                                                         *)
(* The machine behind the command register (external) performs an access   *)
(* whose number differs from the one it shows.  While it is in reset it    *)
(* shows number zero.                                                      *)
(***************************************************************************)
EXTENDS Integers, Sequences

CONSTANTS
    Users,        \* threads inside the attribute
    Configs,      \* configurations stored
    OLD,          \* the one the PLL came with
    MaxCalls,     \* bound: calls
    NONE

VARIABLES
    bound,        \* the driver is bound
    want,         \* what a thread calls, or NONE
    mutex,        \* holder of iopll_mutex
    todo,         \* what the holder has yet to do
    waiting,      \* it polls the status register
    seq, status, got, \* its local variables
    store,        \* history of its call: whether all accesses before it had
                  \* been acknowledged
    done,         \* the call that returned last
    calls,
    synced,       \* history: no access has timed out since the last reset
    cmd, sts,     \* command and status register
    pll, cal,     \* registers of the PLL, and its calibration
    clock         \* the PLL registers as of the reset

drvVars == <<todo, waiting, seq, status, got, store>>
hwVars  == <<cmd, sts, pll, cal, clock>>
vars    == <<bound, want, mutex, drvVars, done, calls, synced, hwVars>>

RequestBit == 6

Write(addrs) == [i \in DOMAIN addrs |-> [k |-> "write", a |-> addrs[i]]]

iopll_m_write  == Write(<<"m_high", "m_low", "m_bypass", "m_duty">>)
iopll_n_write  == Write(<<"n_high", "n_low", "n_bypass_cp1">>)
iopll_c0_write == Write(<<"c0_high", "c0_low", "c0_bypass", "c0_duty">>)
iopll_c1_write == Write(<<"c1_high", "c1_low", "c1_bypass", "c1_duty">>)

iopll_set_freq ==
    iopll_m_write \o iopll_n_write \o iopll_c0_write \o iopll_c1_write
    \o Write(<<"cp2", "lf_rc">>)

Registers == {iopll_set_freq[i].a : i \in DOMAIN iopll_set_freq}

iopll_reset == << [k |-> "reset"] >>

iopll_calibrate ==
    << [k |-> "read", a |-> "request"], [k |-> "request", a |-> "request"],
       [k |-> "write", a |-> "enable"] >>

Store == iopll_set_freq \o iopll_reset \o iopll_calibrate
Show  == << [k |-> "measure"], [k |-> "measure"] >>

Init ==
    /\ bound = FALSE /\ want = [u \in Users |-> NONE]
    /\ mutex = NONE /\ todo = <<>> /\ waiting = FALSE
    /\ seq = 0 /\ status = {} /\ got = <<>> /\ store = FALSE
    /\ done = NONE /\ calls = 0 /\ synced = TRUE
    /\ cmd = NONE /\ sts = [seq |-> 0, data |-> {}]
    /\ pll = [a \in Registers |-> OLD] /\ cal = {0} /\ clock = pll

-----------------------------------------------------------------------------
(* The machine                                                             *)

HwAccess ==
    /\ cmd # NONE /\ cmd.seq # sts.seq
    /\ sts' = [seq |-> cmd.seq, data |-> IF cmd.k = "read" THEN cal ELSE {}]
    /\ pll' = IF cmd.k = "write" /\ cmd.a \in Registers
              THEN [pll EXCEPT ![cmd.a] = cmd.data] ELSE pll
    /\ cal' = CASE cmd.k = "request" -> cmd.data
                [] cmd.a = "enable" -> cal \ {RequestBit}
                [] OTHER -> cal
    /\ UNCHANGED <<bound, want, mutex, drvVars, done, calls, synced, cmd, clock>>

-----------------------------------------------------------------------------
(* The driver                                                              *)

Probe ==
    /\ ~bound /\ calls = 0
    /\ bound' = TRUE
    /\ UNCHANGED <<want, mutex, drvVars, done, calls, synced, hwVars>>

\* Removing the attribute waits for the threads inside it; then the mutex is
\* destroyed.
RemoveDriver ==
    /\ bound /\ \A u \in Users : want[u] = NONE
    /\ bound' = FALSE
    /\ UNCHANGED <<want, mutex, drvVars, done, calls, synced, hwVars>>

\* frequency_show, or frequency_store of a valid configuration
Call(u, c) ==
    /\ bound /\ want[u] = NONE /\ calls < MaxCalls
    /\ want' = [want EXCEPT ![u] = c]
    /\ calls' = calls + 1
    /\ UNCHANGED <<bound, mutex, drvVars, done, synced, hwVars>>

\* Mutant: sequence numbers start with zero.
StartZero == 0
Start == 1

Lock(u) ==
    /\ want[u] # NONE /\ mutex = NONE
    /\ mutex' = u
    /\ todo' = IF want[u].k = "store" THEN Store ELSE Show
    /\ seq' = Start /\ status' = {} /\ got' = <<>> /\ store' = synced
    /\ waiting' = FALSE
    /\ UNCHANGED <<bound, want, done, calls, synced, hwVars>>

Holds == mutex # NONE
At(kinds) == Holds /\ todo # <<>> /\ Head(todo).k \in kinds

\* The call returns, and gives up what it has not done yet.
Leave(ok) ==
    /\ done' = [c |-> want[mutex], ok |-> ok, store |-> store, got |-> got']
    /\ want' = [want EXCEPT ![mutex] = NONE]
    /\ mutex' = NONE /\ todo' = <<>> /\ waiting' = FALSE
    /\ UNCHANGED <<bound, seq, status, store, calls>>

\* iopll_write and iopll_read: the command is written ...
Issue ==
    /\ At({"write", "read", "request"}) /\ ~waiting
    /\ cmd' = [k |-> Head(todo).k, a |-> Head(todo).a, seq |-> seq % 4,
               data |-> IF Head(todo).k = "request" THEN status \cup {RequestBit}
                        ELSE want[mutex].cfg]
    /\ waiting' = TRUE
    /\ UNCHANGED <<bound, want, mutex, todo, seq, status, got, store, done,
                   calls, synced, sts, pll, cal, clock>>

\* ... and its number awaited, ...
Acknowledged(s) == sts.seq = s % 4

Ack ==
    /\ Holds /\ waiting /\ Acknowledged(seq)
    /\ status' = IF Head(todo).k = "read" THEN sts.data ELSE status
    /\ seq' = seq + 1
    /\ todo' = Tail(todo) /\ waiting' = FALSE
    /\ UNCHANGED <<bound, want, mutex, got, store, done, calls, synced, hwVars>>

\* ... for a second.
Timeout ==
    /\ Holds /\ waiting /\ ~Acknowledged(seq)
    /\ synced' = FALSE
    /\ got' = got
    /\ Leave(FALSE)
    /\ UNCHANGED hwVars

\* iopll_reset, with the delays that let the machine and the PLL see it; the
\* PLL may not lock.
Reset ==
    /\ At({"reset"})
    /\ cmd' = NONE
    /\ sts' = [seq |-> 0, data |-> {}]
    /\ clock' = pll
    /\ synced' = TRUE
    /\ got' = got
    /\ UNCHANGED <<pll, cal>>
    /\ \/ /\ todo' = Tail(todo)
          /\ UNCHANGED <<bound, want, mutex, waiting, seq, status, store, done,
                         calls>>
       \/ Leave(FALSE)

\* iopll_read_freq: one clock is selected and measured, if the PLL is locked.
Measure ==
    /\ At({"measure"})
    /\ \/ /\ got' = Append(got, clock)
          /\ todo' = Tail(todo)
          /\ UNCHANGED <<bound, want, mutex, waiting, seq, status, store, done,
                         calls>>
       \/ got' = got /\ Leave(FALSE)
    /\ UNCHANGED <<synced, hwVars>>

Return ==
    /\ Holds /\ todo = <<>>
    /\ got' = got
    /\ Leave(TRUE)
    /\ UNCHANGED <<synced, hwVars>>

Driver == Issue \/ Ack \/ Timeout \/ Reset \/ Measure \/ Return

Calls == [k : {"store"}, cfg : Configs] \cup {[k |-> "show", cfg |-> NONE]}

Next ==
    \/ HwAccess \/ Driver \/ Probe \/ RemoveDriver
    \/ \E u \in Users : Lock(u) \/ \E c \in Calls : Call(u, c)

Spec == Init /\ [][Next]_vars

\* The thread that holds the mutex runs, and the mutex is handed to waiters.
\* Nothing is asked of the machine.
FairSpec == Spec /\ WF_vars(Driver) /\ \A u \in Users : SF_vars(Lock(u))

-----------------------------------------------------------------------------
(* Properties                                                              *)

\* A store that returns success has written every register of the PLL and
\* reset the PLL with them, if no access was left unacknowledged when it
\* began; one store that comes as far as the reset is enough to make up for
\* accesses that timed out.
StoreApplied ==
    done # NONE /\ done.c.k = "store" /\ done.ok /\ done.store /\ ~Holds =>
        clock = [a \in Registers |-> done.c.cfg]

\* Every call returns, also when the machine is dead.
CallReturns == \A u \in Users : (want[u] # NONE) ~> (want[u] = NONE)
=============================================================================
