------------------------------ MODULE HssiOps ------------------------------
(***************************************************************************)
(* The functions of intel-fpga-pac-hssi.c as sequences of commands to the  *)
(* Nios controller.  What a function does next never depends on the data   *)
(* it reads, except where it checks an I2C acknowledge bit, polls for the  *)
(* end of an adaptation, or writes back what it read under a mask; these   *)
(* are items of their own.  A value that can be read back is the set of    *)
(* its bits.                                                               *)
(*                                                                         *)
(* The field out of an item says what an error does there: "main" ends the *)
(* operation, "quiet" skips the rest of a function whose error the caller  *)
(* ignores, "body" goes on to hssi_i2c_disable and fails, and "leak" ends  *)
(* the operation without mutex_unlock.                                     *)
(***************************************************************************)
EXTENDS Integers, Sequences, SequencesExt

CONSTANTS
    ChanMax, ParmMax,     \* HSSI_CHAN_MAX, HSSI_PARM_MAX
    ByteBits,             \* bits of an I2C byte
    SerialLen, EepromLen  \* lengths in bytes

Item(k, a, d) == [k |-> k, a |-> a, d |-> d, out |-> "main"]
Labelled(items, out) == [i \in DOMAIN items |-> [items[i] EXCEPT !.out = out]]
Times(items, n) == FlattenSeq([i \in 1..n |-> items])

CmdWrite(a, d) == <<Item("wr", a, d)>>
CmdRead(a) == <<Item("rd", a, <<>>)>>
\* Writes what was read last, with the bits of mask replaced by those of bits.
MaskedWrite(a, mask, bits) == <<Item("mw", a, <<mask, bits \cap mask>>)>>

\* NIOS_MAC_RX_ALIGNMENT_EN and NIOS_PRMGMT_ASYNC_RST
ALIGNMENT_EN == {0}
ASYNC_RST == {1}

-----------------------------------------------------------------------------
(* Soft functions of the Nios, and its local and PR management busses.     *)

NiosFn(fn, arg0, arg1, arg2) ==
    CmdWrite("arg0", arg0) \o CmdWrite("arg1", arg1) \o CmdWrite("arg2", arg2)
    \o CmdWrite("arg3", {}) \o CmdWrite("fn", fn) \o CmdRead("result")

AuxWrite(cmd, din, addr, item) ==
    <<[item EXCEPT !.a = din]>> \o CmdWrite(cmd, <<"write", addr>>)
    \o CmdWrite(cmd, <<"off", "">>)

LocalWrite(addr, data) == AuxWrite("l_cmd", "l_din", addr, Item("wr", "", data))

LocalRead(addr) == CmdWrite("l_cmd", <<"off", addr>>) \o CmdRead("l_dout")

PrmgmtWrite(data) == AuxWrite("p_cmd", "p_din", "rst", Item("wr", "", data))

SetMode(mode) ==
    LocalWrite("rame", ASYNC_RST)
    \o NiosFn("mode", mode, 0, {})
    \o NiosFn("init", 0, 0, {})
    \o LocalWrite("rame", {}) \o LocalWrite("rame", ALIGNMENT_EN)

\* PR_TX_RST_BIT, PR_RX_RST_BIT and PR_CSR_RST_BIT are bits 0, 1 and 2.
SetMode10WithReset ==
    PrmgmtWrite({0, 1, 2}) \o SetMode(10)
    \o PrmgmtWrite({1, 2}) \o PrmgmtWrite({2}) \o PrmgmtWrite({})

\* PR_40G_MAC_CORE_RST and PR_40G_MAC_CSR_RST are bits 0 and 1.
SetMode40WithReset ==
    PrmgmtWrite({0, 1}) \o SetMode(40) \o PrmgmtWrite({})

-----------------------------------------------------------------------------
(* The SerDes registers, behind a command register of the local bus.       *)

\* (chan << 10) | addr with the bit HSSI_DO_READ or HSSI_DO_WRITE; channels
\* and registers are numbers above those of bits.
HSSI_DO_WRITE == 16
HSSI_DO_READ  == 17
SerdesCmd(do, chan, reg) == {do, 100 + reg, 200 + chan}

ReadSerdes(chan, reg) ==
    LocalWrite("recon_cmd", SerdesCmd(HSSI_DO_READ, chan, reg)) \o LocalRead("recon_rd")

\* Mutant: the register is not read first.
WriteSerdesBlind(chan, reg, mask, bits) ==
    LocalWrite("recon_wr", bits \cap mask)
    \o LocalWrite("recon_cmd", SerdesCmd(HSSI_DO_WRITE, chan, reg))

WriteSerdes(chan, reg, mask, bits) ==
    ReadSerdes(chan, reg)
    \o AuxWrite("l_cmd", "l_din", "recon_wr", MaskedWrite("", mask, bits)[1])
    \o LocalWrite("recon_cmd", SerdesCmd(HSSI_DO_WRITE, chan, reg))

\* SerDes registers, numbered in the order they are first written.
ADAPT_TRIG_REQUEST == 13
AVMM_ARB_CTRL == 14
TX_RX_CAL_STATUS == 15
TEST_MUX == 16
ADP_STATUS_SEL == 17
ADP_DFE_TAP == 18

\* What prep_adaptation and trigger_adaptation write into register i: the
\* mask and the bits.
Adaptation == <<
    <<{1, 2, 3}, {1, 2, 3}>>,      \* PDB_FXTAP_EN
    <<0..4, 0..4>>,                \* DFE_FXTAP_EN
    <<{7}, {}>>,                   \* CTLE_EN
    <<{0, 2, 4}, {}>>,             \* DFE_FXTAP_BYPASS
    <<{0}, {}>>,                   \* VREF_BYPASS
    <<{0}, {0}>>,                  \* VGA_BYPASS_SEL
    <<{0}, {0}>>,                  \* CTLE_EQZ_1S_BYPASS
    <<{0}, {0}>>,                  \* CTLE_EQZ_4S_BYPASS
    <<5..7, {}>>,                  \* CTLE_ADAPT_CYCLE
    <<0..3, {}>>,                  \* DFE_MODE
    <<{5}, {}>>,                   \* SEL_FXTAP_DEC
    <<{4}, {4}>>,                  \* ADAPT_CTRL
    <<{6}, {6}>>,                  \* ADAPT_TRIG_REQUEST
    <<{0}, {0}>> >>                \* AVMM_ARB_CTRL

AdaptChan(chan) ==
    FlattenSeq([i \in DOMAIN Adaptation |->
        WriteSerdes(chan, i, Adaptation[i][1], Adaptation[i][2])])

\* The item "poll" repeats the read while AVMM_BUSY is set.
PollAdaptation(chan) ==
    LET read == ReadSerdes(chan, TX_RX_CAL_STATUS)
    IN  read \o <<Item("poll", "", read)>>

ReadTap(chan, sel) ==
    WriteSerdes(chan, ADP_STATUS_SEL, 0..5, sel)
    \o ReadSerdes(chan, ADP_DFE_TAP)

PerChan(Items(_)) == FlattenSeq([c \in 1..ChanMax + 1 |-> Items(c - 1)])

DfeStore == PerChan(LAMBDA chan : AdaptChan(chan) \o PollAdaptation(chan))

DfeShow == PerChan(LAMBDA chan :
    Labelled(WriteSerdes(chan, TEST_MUX, 1..4, {1, 2, 4}), "leak")
    \o ReadTap(chan, 1..4) \o ReadTap(chan, 0..4) \o ReadTap(chan, {5}))

TuneShow == PerChan(LAMBDA chan :
    FlattenSeq([p \in 1..ParmMax + 1 |->
        NiosFn("eq_read", chan, p - 1, {}) \o <<Item("keep", "", <<>>)>>]))

-----------------------------------------------------------------------------
(* The I2C bus of the EEPROM, driven bit by bit.                           *)

I2cEnable == CmdRead("i2c_ctl") \o MaskedWrite("i2c_ctl", {10}, {})

Lines(scl, sda) == CmdWrite("i2c", <<scl, sda>>)

I2cDisable == Lines(1, 1) \o CmdRead("i2c_ctl")
              \o MaskedWrite("i2c_ctl", {10}, {10})

I2cStart == Lines(1, 1) \o Lines(1, 0) \o Lines(0, 0)
I2cStop  == Lines(1, 0) \o Lines(1, 1) \o Lines(0, 1)
RdBeat   == Lines(0, 1) \o Lines(1, 1) \o CmdRead("i2c") \o Lines(0, 1)
WrBeat(bit) == Lines(0, bit) \o Lines(1, bit) \o Lines(0, bit)

RdByte == Times(RdBeat \o <<Item("keep", "", <<>>)>>, ByteBits)
WrByte(byte) == FlattenSeq([i \in 1..ByteBits |->
                    WrBeat((byte \div 2^(ByteBits - i)) % 2)])

\* I2C_RESET_CYCLE_CNT is one more than the bits of a byte.
I2cReset == I2cStart \o Times(RdBeat, ByteBits + 1) \o I2cStart \o I2cStop

\* Mutant: bytes are not acknowledged.
ReadDevNoAck(device, addr, len) ==
    LET addressed(byte) == WrByte(byte) \o RdBeat \o <<Item("ack", "", <<>>)>>
    IN  I2cStart \o addressed(device) \o addressed(addr) \o I2cStop
        \o I2cStart \o addressed(device + 1)
        \o Times(RdByte, len)
        \o I2cStop

ReadDev(device, addr, len) ==
    LET addressed(byte) == WrByte(byte) \o RdBeat \o <<Item("ack", "", <<>>)>>
    IN  I2cStart \o addressed(device) \o addressed(addr) \o I2cStop
        \o I2cStart \o addressed(device + 1)
        \o FlattenSeq([i \in 1..len |->
               RdByte \o (IF i < len THEN WrBeat(0) ELSE <<>>)])
        \o I2cStop

\* The device addresses, with the bit that says read left clear.
EepromDev == 0
SerialDev == 2
SerialWord == 2

BoardRead(device, addr, len) ==
    Labelled(I2cEnable, "quiet")
    \o Labelled(I2cReset \o ReadDev(device, addr, len), "body")
    \o Labelled(I2cDisable, "quiet")

\* Bits, most significant first, as bytes.
BytesOf(bits) ==
    [b \in 1..(Len(bits) \div ByteBits) |->
        FoldLeft(LAMBDA acc, bit : 2 * acc + (IF 0 \in bit THEN 1 ELSE 0), 0,
                 SubSeq(bits, (b - 1) * ByteBits + 1, b * ByteBits))]

=============================================================================
