------------------------------ MODULE NorFlash ------------------------------
(***************************************************************************)
(* Reading, programming and erasing the card's configuration flash:        *)
(* spi-nor.c on the ASMI Parallel II controller of altera-asmip2.c.  An    *)
(* MTD call holds the locks of the flash and of the bus and is a sequence  *)
(* of flash commands.  The controller sends each from a FIFO and waits for *)
(* the FIFO to drain, or to hold the answer; that wait may time out.       *)
(*                                                                         *)
(* External: the flash.  It ignores what it gets while it is busy, and a   *)
(* program or erase command without the write enable latch; it clears bits *)
(* when it programs, and an address that runs over the end of a page wraps *)
(* to its start.  A byte is the set of its one bits.                       *)
(***************************************************************************)
EXTENDS Integers, Sequences, FiniteSetsExt

CONSTANTS
    Threads,
    Chips,           \* kinds of flash (struct flash_info and the real mode)
    Calls,           \* MTD calls the threads make
    FifoDepth,       \* QSPI_FIFO_DEPTH
    AddrBase,        \* values of one byte of an address
    Faults,          \* waits that may fail: "data", "reg", "busy"
    MaxCalls,        \* bound: calls
    NONE

VARIABLES
    chip,            \* kind of the flash
    mem,             \* its bytes
    wel, busy, mode4,\* write enable latch, WIP, 4-byte address mode
    nor,             \* struct spi_nor and mtd_info after the scan
    lock,            \* nor->lock and q->bus_mutex: their holder
    th,              \* a thread's call with its local variables
    ncalls,
    life, destroyed

flash == <<chip, mem, wel, busy, mode4>>
vars == <<flash, nor, lock, th, ncalls, life, destroyed>>

Bits == {0, 1}
Size(c) == c.page * c.pages
PowOf2(n) == \E k \in 0..n : n = 2^k
Power(n) == CHOOSE k \in 0..n : 2^k <= n /\ n < 2^(k + 1)

\* s3an_nor_scan: an S3AN flash is in the power-of-two mode, with smaller
\* pages, or in the default mode.
S3anDefault(c) == c.s3an /\ ~PowOf2(c.page)

Init ==
    /\ chip \in Chips
    /\ mem \in {[a \in 0 .. Size(chip) - 1 |-> b] : b \in {Bits, {}}}
    /\ wel = FALSE /\ busy = FALSE /\ mode4 = FALSE
    /\ nor = NONE /\ lock = NONE /\ th = [t \in Threads |-> NONE]
    /\ ncalls = 0 /\ life = "none" /\ destroyed = FALSE

-----------------------------------------------------------------------------
(* The flash.                                                              *)

\* The byte an address means.  An S3AN flash in its default mode numbers the
\* bytes of a page from a power of two on.
Linear(a) == LET span == 2^(Power(chip.page) + 1)
             IN  IF S3anDefault(chip)
                 THEN ((a \div span) * chip.page) + (a % span) ELSE a

\* Four address bytes come to a flash that takes three: the last is data.
Decoded(a) == LET sent == a % AddrBase^nor.width
                  full == IF nor.width = 4 /\ ~mode4 /\ ~nor.op4
                          THEN sent \div AddrBase ELSE sent
              IN  Linear(full) % Size(chip)

\* Programming data at a, in its page.
Programmed(a, data) ==
    LET page == Decoded(a) - (Decoded(a) % chip.page)
        place(i) == page + ((Decoded(a) + i - 1) % chip.page)
    IN  [x \in DOMAIN mem |->
            mem[x] \cap {b \in Bits : \A i \in DOMAIN data :
                             place(i) = x => b \in data[i]}]

\* Erasing the sector of n bytes that a is in.
Erased(a, n) ==
    LET start == a - (a % n)
    IN  [x \in DOMAIN mem |-> IF x \in start .. start + n - 1 THEN Bits
                               ELSE mem[x]]

\* A program or erase command that arrives.
Modify(m) ==
    IF wel /\ ~busy THEN mem' = m /\ busy' = TRUE /\ wel' = FALSE
    ELSE UNCHANGED <<mem, busy, wel>>

FlashReady == busy /\ busy' = FALSE
              /\ UNCHANGED <<chip, mem, wel, mode4, nor, lock, th, ncalls, life,
                             destroyed>>

-----------------------------------------------------------------------------
(* Probe: altera_asmip2_create and spi_nor_scan.                           *)

MayFail(f) == IF f \in Faults THEN BOOLEAN ELSE {FALSE}

AddrWidth(c) == IF c.width # 0 THEN c.width
                ELSE IF Size(c) > AddrBase^3 THEN 4 ELSE 3

\* spi_nor_set_4byte_opcodes: opcodes that take four address bytes.
Opcodes4(c) == c.op4

\* spi_nor_scan
Scanned(c) ==
    [width |-> AddrWidth(c), op4 |-> Opcodes4(c),
     page |-> c.page, size |-> Size(c), erasesize |-> c.sector * c.page,
     s3an |-> S3anDefault(c),
     chipErase |-> ~(c.s3an \/ c.noChipErase)]

\* set_4byte: the flash is put into 4-byte mode.
Set4byte(n) == n.width = 4 /\ chip.width = 0 /\ ~n.op4

\* The id is read; a flash that needs it is put into 4-byte mode, and the
\* result of that is not looked at.
Probe ==
    /\ life = "none"
    /\ \E idFails, en4Fails \in MayFail("reg") :
          /\ nor' = IF idFails THEN NONE ELSE Scanned(chip)
          /\ mode4' = (~idFails /\ Set4byte(Scanned(chip)) /\ ~en4Fails)
          /\ life' = IF idFails THEN "failed" ELSE "up"
    /\ UNCHANGED <<chip, mem, wel, busy, lock, th, ncalls, destroyed>>

\* altera_asmip2_remove: mutex_destroy, then the MTD is unregistered.
RemoveDriver ==
    /\ life = "up"
    /\ life' = "gone" /\ destroyed' = TRUE
    /\ UNCHANGED <<flash, nor, lock, th, ncalls>>

-----------------------------------------------------------------------------
(* MTD calls.                                                              *)

\* spi_nor_lock_and_prep.  An erase of no whole number of sectors is refused
\* before; where it begins is not looked at.  (lost: the flash cannot have
\* taken a command of this call; idle: it was ready at the end.)
Call(t, c) ==
    /\ life = "up" /\ th[t] = NONE /\ lock = NONE /\ ncalls < MaxCalls
    /\ c.addr + c.len <= nor.size
    /\ c.k = "erase" => c.len % nor.erasesize = 0
    /\ ncalls' = ncalls + 1
    /\ lock' = t
    /\ th' = [th EXCEPT ![t] = [c |-> c, i |-> 0, retlen |-> 0, n |-> 0,
                                 buf |-> <<>>, before |-> mem, after |-> mem,
                                 lost |-> FALSE, idle |-> FALSE, ret |-> 1,
                                 at |-> IF c.k = "read" THEN "cmd" ELSE "wren"]]
    /\ UNCHANGED <<flash, nor, life, destroyed>>

\* Data of a write: its bytes differ from their neighbours.
Data(c) == [i \in 1..c.len |-> {(i + c.d) % 2}]

Unlock(t, r) ==
    /\ lock' = NONE
    /\ th' = [th EXCEPT ![t] = [r EXCEPT !.at = "done", !.after = mem',
                                          !.idle = ~busy']]

\* spi_nor_s3an_addr_convert
S3anAddr(a) ==
    IF nor.s3an
    THEN ((a \div nor.page) * 2^(Power(nor.page) + 1)) + (a % nor.page)
    ELSE a

\* altera_asmip2_read: as much as the FIFO holds; nothing on a time-out.
ReadCmd(t) ==
    LET r == th[t]
        n == Min({r.c.len - r.i, FifoDepth})
        a == S3anAddr(r.c.addr + r.i)
    IN  /\ r # NONE /\ r.c.k = "read" /\ r.at = "cmd"
        /\ UNCHANGED <<flash, nor, ncalls, life, destroyed>>
        /\ \E fails \in MayFail("data") :
              IF fails THEN Unlock(t, [r EXCEPT !.ret = -1])
              ELSE LET got == [r EXCEPT !.i = @ + n, !.retlen = @ + n,
                                 !.lost = @ \/ busy,
                                 !.buf = @ \o [j \in 1..n |-> IF busy THEN {}
                                     ELSE mem[(Decoded(a) + j - 1)
                                                % Size(chip)]]]
                   IN  IF got.i = r.c.len THEN Unlock(t, [got EXCEPT !.ret = 0])
                       ELSE th' = [th EXCEPT ![t] = got] /\ UNCHANGED lock

\* write_enable, whose result is not looked at.  A command that timed out may
\* have been sent.
WriteEnable(t) ==
    /\ th[t] # NONE /\ th[t].at = "wren"
    /\ \E unsent \in MayFail("reg") :
          /\ wel' = (wel \/ ~(unsent \/ busy))
          /\ th' = [th EXCEPT ![t].at = "cmd", ![t].lost = @ \/ unsent \/ busy]
    /\ UNCHANGED <<chip, mem, busy, mode4, nor, lock, ncalls, life, destroyed>>

PageRemain(a, left) == Min({nor.page - (a % nor.page), left})

\* altera_asmip2_write: what fits the FIFO with opcode and address; a
\* time-out counts as nothing written, though some may have been.
WriteCmd(t) ==
    LET r == th[t]
        a == r.c.addr + r.i
        remain == PageRemain(a, r.c.len - r.i)
        n == Min({remain, FifoDepth - (nor.width + 1)})
    IN  /\ r # NONE /\ r.c.k = "write" /\ r.at = "cmd"
        /\ \E fails \in MayFail("data") :
              /\ \/ Modify(Programmed(S3anAddr(a),
                                      SubSeq(Data(r.c), r.i + 1, r.i + n)))
                 \/ fails /\ UNCHANGED <<mem, wel, busy>>
              /\ th' = [th EXCEPT ![t].at = "wait",
                                  ![t].n = IF fails THEN 0 ELSE n]
        /\ UNCHANGED <<chip, mode4, nor, lock, ncalls, life, destroyed>>

\* The whole chip, or one sector; here too a command that timed out may have
\* been sent.
Whole(r) == r.c.len = nor.size /\ nor.chipErase

EraseCmd(t) ==
    LET r == th[t]
        a == S3anAddr(r.c.addr + r.i)
    IN  /\ r # NONE /\ r.c.k = "erase" /\ r.at = "cmd"
        /\ \E fails \in MayFail("reg") :
              /\ \/ Modify(IF Whole(r) THEN Erased(0, Size(chip))
                           ELSE Erased(Decoded(a), nor.erasesize))
                 \/ fails /\ UNCHANGED <<mem, wel, busy>>
              /\ IF fails THEN Unlock(t, [r EXCEPT !.ret = -1])
                 ELSE /\ th' = [th EXCEPT ![t].at = "wait",
                                 ![t].n = IF Whole(r) THEN r.c.len
                                          ELSE nor.erasesize]
                      /\ UNCHANGED lock
        /\ UNCHANGED <<chip, mode4, nor, ncalls, life, destroyed>>

\* Mutant: the status is not read.
NotBusyAlways == TRUE
NotBusy == ~busy

\* The time-out, or the status cannot be read.
GivesUp == Faults \cap {"busy", "reg"} # {}

\* spi_nor_wait_till_ready, and what the loops of write and erase do then.
\* write_disable ends an erase.
WaitReady(t) ==
    LET r == th[t]
        next == [r EXCEPT !.i = @ + r.n,
                          !.retlen = IF r.c.k = "write" THEN @ + r.n ELSE @]
        short == r.c.k = "write" /\ r.n # PageRemain(r.c.addr + r.i,
                                                     r.c.len - r.i)
    IN  /\ r # NONE /\ r.at = "wait"
        /\ UNCHANGED <<chip, mem, busy, mode4, nor, ncalls, life, destroyed>>
        /\ \/ /\ NotBusy
              /\ IF short THEN Unlock(t, [next EXCEPT !.ret = -1])
                 ELSE IF next.i = r.c.len THEN Unlock(t, [next EXCEPT !.ret = 0])
                 ELSE /\ th' = [th EXCEPT ![t] = [next EXCEPT !.at = "wren"]]
                      /\ UNCHANGED lock
           \/ /\ GivesUp
              /\ Unlock(t, [r EXCEPT !.ret = -1])
        /\ wel' = IF r.c.k = "erase" /\ th'[t].ret = 0 THEN FALSE ELSE wel

Return(t) ==
    /\ th[t] # NONE /\ th[t].at = "done"
    /\ th' = [th EXCEPT ![t] = NONE]
    /\ UNCHANGED <<flash, nor, lock, ncalls, life, destroyed>>

Step(t) == ReadCmd(t) \/ WriteEnable(t) \/ WriteCmd(t) \/ EraseCmd(t)
           \/ WaitReady(t) \/ Return(t)

Next ==
    \/ Probe \/ RemoveDriver \/ FlashReady
    \/ \E t \in Threads : Step(t) \/ \E c \in Calls : Call(t, c)

Spec == Init /\ [][Next]_vars

\* The flash need not become ready; the waits are bounded.
FairSpec == Spec /\ \A t \in Threads : WF_vars(Step(t))

-----------------------------------------------------------------------------
Done(t) == th[t] # NONE /\ th[t].at = "done"

\* The first n bytes a call is to change.  An erase changes whole sectors, from
\* the one it begins in on.
Span(r, n) ==
    LET from == IF r.c.k = "erase" THEN r.c.addr - (r.c.addr % nor.erasesize)
                ELSE r.c.addr
    IN  from .. from + n - 1

\* What a call makes of the flash.
Wanted(r, n) ==
    [x \in DOMAIN r.before |->
        IF x \notin Span(r, n) THEN r.before[x]
        ELSE IF r.c.k = "erase" THEN Bits
        ELSE r.before[x] \cap Data(r.c)[x - r.c.addr + 1]]

(* spi_nor_read, spi_nor_write and spi_nor_erase do what they return: a    *)
(* success means the whole range, and a ready flash; a failed write or     *)
(* read at least the bytes it counts in retlen; and no call changes a byte *)
(* outside its range.  Two exceptions.  An erase that begins inside a      *)
(* sector erases that sector from its start and as much less at the end.   *)
(* And a call one of whose write enables was not sent, which is not        *)
(* noticed, or that found the flash busy, because the wait of an earlier   *)
(* one was given up, is only known to change nothing outside its range.    *)
CallsDoWhatTheySay ==
    \A t \in Threads : Done(t) =>
        LET r == th[t]
        IN  /\ \A x \in DOMAIN mem \ Span(r, r.c.len) :
                  r.after[x] = r.before[x]
            /\ r.ret = 0 /\ r.c.k # "read" => r.idle
            /\ ~r.lost =>
                 /\ r.ret = 0 => r.idle
                 /\ r.ret = 0 /\ r.c.k # "read" =>
                       r.after = Wanted(r, r.c.len)
                 /\ r.c.k = "read" => \A i \in 1..r.retlen :
                                        r.buf[i] = r.after[r.c.addr + i - 1]
                 /\ r.ret = 0 /\ r.c.k # "erase" => r.retlen = r.c.len
                 /\ r.c.k = "write" => \A x \in Span(r, r.retlen) :
                                         r.after[x] = Wanted(r, r.c.len)[x]

(* Stronger, and false.  spi_nor_erase: "Return an error is there is a     *)
(* problem erasing."                                                       *)
EraseReported ==
    \A t \in Threads : Done(t) /\ th[t].c.k = "erase" /\ th[t].ret = 0 =>
        \A x \in th[t].c.addr .. th[t].c.addr + th[t].c.len - 1 :
            th[t].after[x] = Bits

(* Every call returns although the flash may stay busy for ever.           *)
CallsReturn == \A t \in Threads : (th[t] # NONE) ~> (th[t] = NONE)

(* altera_asmip2_remove, mutex_destroy(&q->bus_mutex): nobody holds it.    *)
DestroyedUnlocked == destroyed => lock = NONE

=============================================================================
