-------------------------------- MODULE Hssi --------------------------------
(***************************************************************************)
(* The HSSI driver of the PAC card (intel-fpga-pac-hssi.c): handlers of    *)
(* sysfs files, serialised by bus_mutex, send commands to the Nios         *)
(* controller through a mailbox of one control and one status register.    *)
(* HssiOps has the handlers' command sequences; this module runs them.     *)
(*                                                                         *)
(* External: the Nios, which serves a command when it sees one and clears  *)
(* its acknowledgement when it sees none; the SerDes; and the EEPROM, an   *)
(* I2C device that may be busy (it then does not acknowledge).             *)
(***************************************************************************)
EXTENDS HssiOps

CONSTANTS
    Threads,
    Ops,          \* the operations threads call
    TimeOuts,     \* whether the Nios may be later than the poll time-out
    MaxCalls,     \* bound: calls
    MaxPolls,     \* DFE_KICKSTART_TO_MS / DFE_KICKSTART_INTERVAL_MS
    MaxNacks,     \* bound: how often the EEPROM is busy
    NONE

VARIABLES
    mutex,        \* holder of bus_mutex
    want,         \* operation a thread waits for the mutex with
    op, todo, wait, val, got, polls, err, \* the running operation
    cache,        \* serial_number and eeprom, NONE if not in data_flags
    done,         \* the operation that returned last, and whether it succeeded
    calls, removed,
    late,         \* history: a wait for the acknowledgement timed out
    missed,       \* history: one of the running operation did
    ctrl, ack, data,      \* control and status register
    nios, slave, nacks    \* the controller, the EEPROM

drvVars == <<op, todo, wait, val, got, polls, err, cache, done, late,
             missed>>
hwVars  == <<ctrl, ack, data, nios, slave, nacks>>
vars == <<mutex, want, calls, removed, drvVars, hwVars>>

Chans == 0..ChanMax
SerdesRegs == 1..ADP_DFE_TAP

Init ==
    /\ mutex = NONE /\ want = [t \in Threads |-> NONE]
    /\ op = NONE /\ todo = <<>> /\ wait = "none" /\ val = {} /\ got = <<>>
    /\ polls = 0 /\ err = FALSE
    /\ cache = [board_id |-> NONE, eeprom |-> NONE]
    /\ done = [op |-> NONE, ok |-> FALSE]
    /\ calls = 0 /\ removed = FALSE
    /\ late = FALSE /\ missed = FALSE
    /\ ctrl = NONE /\ ack = FALSE /\ data = {}
    /\ nios = [arg |-> [i \in 0..3 |-> IF i < 2 THEN 0 ELSE {}], mode |-> 0, up |-> FALSE,
               eq |-> [c \in Chans |-> [p \in 0..ParmMax |-> {}]],
               result |-> {}, laddr |-> "", ldin |-> {}, rame |-> ALIGNMENT_EN,
               rwr |-> {}, rrd |-> {}, pdin |-> {}, prst |-> {},
               serdes |-> [c \in Chans |-> [r \in SerdesRegs |->
                   IF r = TX_RX_CAL_STATUS THEN {} ELSE 0..7]],
               adapted |-> {}, i2c_ctl |-> {3, 10}, lines |-> <<1, 1>>]
    /\ slave = [st |-> "off", what |-> "dev", cnt |-> 0, sh |-> 0, dev |-> 0,
                ptr |-> 0, pull |-> FALSE, ackd |-> 0, scl |-> 1, sda |-> 1]
    /\ nacks = 0

-----------------------------------------------------------------------------
(* The EEPROM: a serial number device and a memory device.                 *)

Mem(dev, i) == (3 * dev + i) % 2^ByteBits
Wire(s, sda) == IF s.pull THEN 0 ELSE sda
DriveBit(s, k) == [s EXCEPT !.cnt = k,
    !.pull = (Mem(s.dev, s.ptr) \div 2^(ByteBits - 1 - k)) % 2 = 0]

SclRises(s, bit) ==
    IF s.st = "recv" /\ s.cnt < ByteBits
    THEN [s EXCEPT !.sh = 2 * @ + bit, !.cnt = @ + 1]
    ELSE IF s.st = "send" /\ s.cnt = ByteBits THEN [s EXCEPT !.ackd = bit]
    ELSE s

\* A byte was received: take it and acknowledge, or do not.
Received(s, nack) ==
    IF nack \/ (s.what = "dev" /\ s.sh \div 2 \notin {0, 1})
    THEN [s EXCEPT !.st = "off"]
    ELSE [s EXCEPT !.cnt = ByteBits + 1, !.pull = TRUE,
            !.dev = IF s.what = "dev" THEN s.sh \div 2 ELSE @,
            !.ptr = IF s.what = "word" THEN s.sh ELSE @]

SclFalls(s, nack) ==
    CASE s.st = "recv" /\ s.cnt = ByteBits -> Received(s, nack)
      [] s.st = "recv" /\ s.cnt = ByteBits + 1 ->
            IF s.what = "dev" /\ s.sh % 2 = 1
            THEN DriveBit([s EXCEPT !.st = "send"], 0)
            ELSE [s EXCEPT !.what = "word", !.cnt = 0, !.sh = 0,
                           !.pull = FALSE]
      [] s.st = "send" /\ s.cnt < ByteBits - 1 -> DriveBit(s, s.cnt + 1)
      [] s.st = "send" /\ s.cnt = ByteBits - 1 ->
            [s EXCEPT !.cnt = ByteBits, !.pull = FALSE]
      [] s.st = "send" /\ s.cnt = ByteBits ->
            IF s.ackd = 0
            THEN DriveBit([s EXCEPT !.ptr = (@ + 1) % 2^ByteBits], 0)
            ELSE [s EXCEPT !.st = "off"]
      [] OTHER -> s

SetLines(s, scl, sda, nack) ==
    LET t == [s EXCEPT !.scl = scl, !.sda = sda]
        before == Wire(s, s.sda)
        after == Wire(s, sda)
    IN  CASE s.scl = 1 /\ scl = 1 /\ before = 1 /\ after = 0 ->
                [t EXCEPT !.st = "recv", !.what = "dev", !.cnt = 0, !.sh = 0]
          [] s.scl = 1 /\ scl = 1 /\ before = 0 /\ after = 1 ->
                [t EXCEPT !.st = "off"]
          [] s.scl = 0 /\ scl = 1 -> SclRises(t, after)
          [] s.scl = 1 /\ scl = 0 -> SclFalls(t, nack)
          [] OTHER -> t

-----------------------------------------------------------------------------
(* The Nios.                                                               *)

SoftFn(n, fn) ==
    CASE fn = "mode" -> [n EXCEPT !.mode = n.arg[0], !.up = FALSE]
      [] fn = "init" -> [n EXCEPT !.up = TRUE]
      [] n.arg[0] \notin Chans \/ n.arg[1] \notin 0..ParmMax -> n
      [] fn = "eq_write" -> [n EXCEPT !.eq[n.arg[0]][n.arg[1]] = n.arg[2]]
      [] fn = "eq_read" -> [n EXCEPT !.result = n.eq[n.arg[0]][n.arg[1]]]

\* A command to the SerDes; requesting adaptation makes it busy.
Serdes(n, cmd) ==
    LET on == {<<chan, reg>> \in Chans \X SerdesRegs :
                  SerdesCmd(HSSI_DO_READ, chan, reg) = cmd
                  \/ SerdesCmd(HSSI_DO_WRITE, chan, reg) = cmd}
        chan == (CHOOSE x \in on : TRUE)[1]
        reg == (CHOOSE x \in on : TRUE)[2]
        m == [n EXCEPT !.serdes[chan][reg] = n.rwr]
    IN  CASE on = {} -> n
          [] on # {} /\ HSSI_DO_READ \in cmd ->
                [n EXCEPT !.rrd = n.serdes[chan][reg]]
          [] OTHER ->
                IF reg = AVMM_ARB_CTRL /\ 6 \in m.serdes[chan][ADAPT_TRIG_REQUEST]
                THEN [m EXCEPT !.serdes[chan][TX_RX_CAL_STATUS] = {2}]
                ELSE m

LocalBus(n, addr) ==
    CASE addr = "rame" -> [n EXCEPT !.rame = n.ldin]
      [] addr = "recon_wr" -> [n EXCEPT !.rwr = n.ldin]
      [] addr = "recon_cmd" -> Serdes(n, n.ldin)

ArgNo == [a \in {"arg0", "arg1", "arg2", "arg3"} |->
            CASE a = "arg0" -> 0 [] a = "arg1" -> 1
              [] a = "arg2" -> 2 [] a = "arg3" -> 3]

\* FPGA_I2C_MASTER_L: while it is set the FPGA does not drive the lines.
MasterLines(n) == IF 10 \in n.i2c_ctl THEN <<1, 1>> ELSE n.lines

NiosWrite(n, a, d) ==
    CASE a \in DOMAIN ArgNo -> [n EXCEPT !.arg[ArgNo[a]] = d]
      [] a = "fn" -> SoftFn(n, d)
      [] a = "l_din" -> [n EXCEPT !.ldin = d]
      [] a = "l_cmd" -> IF d[1] = "write" THEN LocalBus(n, d[2])
                        ELSE [n EXCEPT !.laddr = d[2]]
      [] a = "p_din" -> [n EXCEPT !.pdin = d]
      [] a = "p_cmd" -> IF d[1] = "write" THEN [n EXCEPT !.prst = n.pdin] ELSE n
      [] a = "i2c_ctl" -> [n EXCEPT !.i2c_ctl = d]
      [] a = "i2c" -> [n EXCEPT !.lines = d]
      [] OTHER -> n

NiosRead(n, s, a) ==
    CASE a = "result" -> n.result
      [] a = "l_dout" -> n.rrd
      [] a = "i2c_ctl" -> n.i2c_ctl
      [] a = "i2c" -> IF Wire(s, s.sda) = 0 THEN {} ELSE {0}

HwServe ==
    /\ ctrl # NONE /\ ~ack
    /\ ack' = TRUE
    /\ IF ctrl.k = "rd"
       THEN /\ data' = NiosRead(nios, slave, ctrl.a)
            /\ UNCHANGED <<nios, slave, nacks>>
       ELSE /\ data' = {}
            /\ nios' = NiosWrite(nios, ctrl.a, ctrl.d)
            /\ \E nack \in IF nacks < MaxNacks THEN BOOLEAN ELSE {FALSE} :
                  LET l == MasterLines(nios')
                  IN  /\ slave' = SetLines(slave, l[1], l[2], nack)
                      /\ nacks' = nacks + (IF nack THEN 1 ELSE 0)
    /\ UNCHANGED <<mutex, want, calls, removed, drvVars, ctrl>>

HwClear ==
    /\ ctrl = NONE /\ ack
    /\ ack' = FALSE
    /\ UNCHANGED <<mutex, want, calls, removed, drvVars, ctrl, data, nios,
                   slave, nacks>>

HwAdapted(chan) ==
    /\ 2 \in nios.serdes[chan][TX_RX_CAL_STATUS]
    /\ nios' = [nios EXCEPT !.serdes[chan][TX_RX_CAL_STATUS] = {},
                            !.adapted = @ \cup {chan}]
    /\ UNCHANGED <<mutex, want, calls, removed, drvVars, ctrl, ack, data,
                   slave, nacks>>

-----------------------------------------------------------------------------
(* The handlers.                                                           *)

Program(o) ==
    CASE o.name = "config" ->
            IF o.speed = 10 THEN SetMode10WithReset ELSE SetMode40WithReset
      [] o.name = "qsfp0" -> SetMode(o.speed)
      [] o.name = "tune_store" -> NiosFn("eq_write", o.chan, o.parm, o.value)
      [] o.name = "tune_show" -> TuneShow
      [] o.name = "dfe_store" -> DfeStore
      [] o.name = "dfe_show" -> DfeShow
      [] o.name = "board_id" -> BoardRead(SerialDev, SerialWord, SerialLen)
      [] o.name = "eeprom" -> BoardRead(EepromDev, 0, EepromLen)

\* An argument no handler accepts is refused before or under the mutex; no
\* command is sent either way.
Refused(o) ==
    \/ o.name \in {"config", "qsfp0"} /\ o.speed \notin {10, 40}
    \/ o.name = "tune_store" /\ (o.chan > ChanMax \/ o.parm > ParmMax)

Call(t, o) ==
    /\ ~removed /\ calls < MaxCalls /\ want[t] = NONE
    /\ want' = [want EXCEPT ![t] = o]
    /\ calls' = calls + 1
    /\ UNCHANGED <<mutex, removed, drvVars, hwVars>>

Cached(o) == o.name \in DOMAIN cache /\ cache[o.name] # NONE

Lock(t) ==
    /\ want[t] # NONE /\ mutex = NONE
    /\ mutex' = t
    /\ op' = want[t]
    /\ todo' = IF Refused(want[t]) \/ Cached(want[t]) THEN <<>>
               ELSE Program(want[t])
    /\ err' = Refused(want[t])
    /\ wait' = "none" /\ got' = <<>> /\ polls' = 0
    /\ done' = [op |-> NONE, ok |-> FALSE]
    /\ missed' = FALSE
    /\ UNCHANGED <<want, calls, removed, val, cache, late, hwVars>>

\* mutex_unlock and return; data_flags tells that the data is cached.
Return(t) ==
    /\ mutex = t /\ op # NONE /\ todo = <<>>
    /\ mutex' = NONE
    /\ want' = [want EXCEPT ![t] = NONE]
    /\ op' = NONE
    /\ done' = [op |-> op, ok |-> ~err]
    /\ cache' = IF op.name \in DOMAIN cache /\ ~err /\ ~Cached(op)
                THEN [cache EXCEPT ![op.name] = BytesOf(got)] ELSE cache
    /\ UNCHANGED <<calls, removed, todo, wait, val, got, polls, err, late,
                   missed, hwVars>>

\* What an error at the next item does.
Fail ==
    LET out == Head(todo).out
        next == SelectInSeq(todo, LAMBDA x : x.out # out)
    IN  /\ wait' = "none"
        /\ IF out \in {"main", "leak"} THEN todo' = <<>>
           ELSE todo' = IF next = 0 THEN <<>> ELSE SubSeq(todo, next, Len(todo))
        /\ err' = (err \/ out # "quiet")
        /\ IF out = "leak"
           THEN /\ want' = [want EXCEPT ![mutex] = NONE]
                /\ op' = NONE /\ done' = [op |-> op, ok |-> FALSE]
           ELSE UNCHANGED <<want, op, done>>

\* hssi_eth_ctrl_write
Request ==
    /\ todo # <<>> /\ wait = "none" /\ Head(todo).k \in {"wr", "rd", "mw"}
    /\ ctrl' = IF Head(todo).k # "mw" THEN Head(todo)
               ELSE [Head(todo) EXCEPT
                       !.d = (val \ Head(todo).d[1]) \cup Head(todo).d[2]]
    /\ wait' = "set"
    /\ UNCHANGED <<mutex, want, calls, removed, op, todo, val, got, polls, err,
                   cache, done, late, missed, ack, data, nios, slave, nacks>>

\* The data is read and the request withdrawn.
AckSet ==
    /\ wait = "set" /\ ack
    /\ val' = IF Head(todo).k = "rd" THEN data ELSE val
    /\ ctrl' = NONE
    /\ wait' = "clear"
    /\ UNCHANGED <<mutex, want, calls, removed, op, todo, got, polls, err,
                   cache, done, late, missed, ack, data, nios, slave, nacks>>

AckClear ==
    /\ wait = "clear" /\ ~ack
    /\ wait' = "none" /\ todo' = Tail(todo)
    /\ UNCHANGED <<mutex, want, calls, removed, op, val, got, polls, err,
                   cache, done, late, missed, hwVars>>

AckTimeout ==
    /\ TimeOuts
    /\ (wait = "set" /\ ~ack) \/ (wait = "clear" /\ ack)
    /\ late' = TRUE /\ missed' = TRUE
    /\ Fail
    /\ UNCHANGED <<mutex, calls, removed, val, got, polls, cache, hwVars>>

\* A bit, or the result of a soft function, is kept.
Keep ==
    /\ todo # <<>> /\ Head(todo).k = "keep"
    /\ got' = Append(got, val)
    /\ todo' = Tail(todo)
    /\ UNCHANGED <<mutex, want, calls, removed, op, wait, val, polls, err,
                   cache, done, late, missed, hwVars>>

\* The acknowledge bit of the EEPROM must be clear.
CheckAck ==
    /\ todo # <<>> /\ Head(todo).k = "ack"
    /\ IF 0 \notin val
       THEN todo' = Tail(todo) /\ UNCHANGED <<want, op, wait, err, done>>
       ELSE Fail
    /\ UNCHANGED <<mutex, calls, removed, val, got, polls, cache, late, missed,
                   hwVars>>

\* Mutant: the polls are not counted.
PollForever ==
    /\ todo # <<>> /\ Head(todo).k = "poll"
    /\ todo' = IF 2 \in val THEN Head(todo).d \o todo ELSE Tail(todo)
    /\ UNCHANGED <<mutex, want, calls, removed, op, wait, val, got, polls, err,
                   cache, done, late, missed, hwVars>>

\* poll_adaptation_complete
Poll ==
    /\ todo # <<>> /\ Head(todo).k = "poll"
    /\ IF 2 \in val /\ polls >= MaxPolls
       THEN Fail /\ polls' = 0
       ELSE /\ todo' = IF 2 \in val THEN Head(todo).d \o todo ELSE Tail(todo)
            /\ polls' = IF 2 \in val THEN polls + 1 ELSE 0
            /\ UNCHANGED <<want, op, wait, err, done>>
    /\ UNCHANGED <<mutex, calls, removed, val, got, cache, late, missed,
                   hwVars>>

\* intel_pac_hssi_remove: removing the files waits for running handlers.
RemoveDriver ==
    /\ ~removed /\ \A t \in Threads : want[t] = NONE
    /\ removed' = TRUE
    /\ UNCHANGED <<mutex, want, calls, drvVars, hwVars>>

Driver == Request \/ AckSet \/ AckClear \/ AckTimeout
          \/ Keep \/ CheckAck \/ Poll
          \/ \E t \in Threads : Return(t)
Nios == HwServe \/ HwClear \/ \E chan \in Chans : HwAdapted(chan)

Next ==
    \/ Driver \/ Nios \/ RemoveDriver
    \/ \E t \in Threads : Lock(t) \/ \E o \in Ops : Call(t, o)

Spec == Init /\ [][Next]_vars

\* The handler that holds the mutex runs, and the mutex is fair.  Nothing is
\* asked of the Nios: every wait is bounded.
FairSpec == Spec /\ WF_vars(Driver) /\ \A t \in Threads : SF_vars(Lock(t))

-----------------------------------------------------------------------------
\* What an operation promises to have done.
Effect(o) ==
    CASE o.name \in {"config", "qsfp0"} ->
            /\ nios.mode = o.speed /\ nios.up
            /\ nios.rame = ALIGNMENT_EN
            /\ o.name = "config" => nios.prst = {}
      [] o.name = "tune_store" -> nios.eq[o.chan][o.parm] = o.value
      [] o.name = "tune_show" ->
            \A c \in Chans, p \in 0..ParmMax :
                got[c * (ParmMax + 1) + p + 1] = nios.eq[c][p]
      [] o.name = "dfe_store" ->
            /\ nios.adapted = Chans
            /\ \A c \in Chans, i \in DOMAIN Adaptation :
                 nios.serdes[c][i] =
                     ((0..7) \ Adaptation[i][1]) \cup Adaptation[i][2]
      [] OTHER -> TRUE

(* An operation that returns success has done in the controller what it    *)
(* promises, whatever other threads called meanwhile, unless the Nios was  *)
(* late once (the mailbox then may be one command off).                    *)
SuccessMeansDone == done.ok /\ ~late => Effect(done.op)

\* What the EEPROM holds under the name of a file.
Content(name) ==
    IF name = "board_id"
    THEN [i \in 1..SerialLen |-> Mem(1, SerialWord + i - 1)]
    ELSE [i \in 1..EepromLen |-> Mem(0, i - 1)]

(* What a handler caches for good is what the EEPROM holds, also when      *)
(* earlier attempts were given up in the middle of a byte, because the     *)
(* EEPROM or the Nios did not answer.  An attempt in which a wait timed    *)
(* out itself is excepted: hssi_board_read drops the errors of             *)
(* hssi_i2c_enable, and then reads a bus it does not drive.                *)
CachedRight(name) ==
    cache'[name] # cache[name] => missed \/ cache'[name] = Content(name)

(* Stronger, and false for that reason.                                    *)
CacheRight == \A name \in DOMAIN cache : cache[name] \in {NONE, Content(name)}

(* A handler that reads the EEPROM gives the I2C bus back to the card's    *)
(* controller and leaves the other bits of the LED register alone, also    *)
(* when the EEPROM does not answer, as long as the Nios was never late.    *)
BusGivenBack == mutex = NONE /\ ~late => nios.i2c_ctl = {3, 10}

\* dfe_kickstart_show failed and returned without mutex_unlock.
Leaked ==
    /\ mutex # NONE /\ op = NONE
    /\ done.op # NONE /\ done.op.name = "dfe_show" /\ ~done.ok

(* Every call returns, however slow the Nios is, unless a failed read of   *)
(* dfe_kickstart has kept the mutex, for which it waits then for ever.     *)
CallReturns ==
    \A t \in Threads : (want[t] # NONE) ~> (want[t] = NONE \/ Leaked)

(* mutex_destroy(&hssi->bus_mutex) in intel_pac_hssi_remove: the mutex is  *)
(* not held when the driver goes.                                          *)
DestroyedUnlocked == removed => mutex = NONE

=============================================================================
