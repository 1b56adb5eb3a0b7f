----------------------------- MODULE XspiFlash ------------------------------
(***************************************************************************)
(* xbflash: writing a bitstream into the card's two configuration flashes  *)
(* (xspi.cpp, flasher.cpp, xbflash.cpp).  An MCS file is parsed into       *)
(* records, a guard that makes the FPGA fall back to its golden image is   *)
(* put in front of the bitstream, the sub-sectors are erased, the records  *)
(* programmed a half page at a time, and the guard is removed.  The power  *)
(* may fail at any moment, and the tool may be run again.                  *)
(*                                                                         *)
(* A file is a sequence of lines; a byte is named by its address in the    *)
(* file.  Sizes are scaled down.  External: the flashes.  Each is busy for *)
(* a while with a command; a cell that is programmed but was not erased is *)
(* spoilt, as is what a power failure interrupts.                          *)
(***************************************************************************)
EXTENDS Integers, Sequences, SequencesExt, FiniteSetsExt

CONSTANTS
    Files,         \* the files flash 0 and flash 1 may get
    WRITE_DATA_SIZE, PageSize,
    SubSector,     \* 0x1000, also BITSTREAM_GUARD_SIZE
    ElaSize,       \* 64K: what one extended address covers
    ExtSize,       \* 16M: what three address bytes cover
    MAX_NUM_SECTORS,
    MaxRuns,       \* bound: runs of the tool
    PowerFails,    \* whether the power may fail
    NONE

VARIABLES
    files,         \* the file of each flash
    phase,         \* "idle", "run", "ok", "failed", "down"
    slave_index,
    todo,          \* commands still to be given to each flash
    selected_sector,
    mem, ext, busy,\* the flashes: cells, extended address, command
    runs,
    renewing       \* flashes whose guard is being written anew: see RenewsGuard

flashes == <<mem, ext, busy>>
vars == <<files, phase, slave_index, todo, selected_sector, flashes, runs, renewing>>

Slaves == {0, 1}
FF == <<"FF", 0>>        \* an erased cell
OLD == <<"old", 0>>      \* a cell of what was there before
BAD == <<"bad", 0>>
GUARD == <<"guard", 0>>  \* a byte of BITSTREAM_GUARD
Byte(a) == <<"new", a>>

-----------------------------------------------------------------------------
(* Parsing: xclUpgradeFirmwareXSpi.                                        *)

NewRecord == [start |-> 0, end |-> 0, count |-> 0, pos |-> 0]

\* What a line does to the state of the parser.  err: the line is refused,
\* or fails an assertion.
ParseLine(p, l) ==
    CASE p.err \/ p.eof -> p
      [] l.t = "data" ->
           LET r == p.rec
               moved == l.addr # r.count + (r.start % ElaSize)
               off == IF moved THEN l.addr ELSE 0
           IN  [p EXCEPT !.n = @ + 1, 
                  !.err = moved /\ (r.count # 0 \/ r.start = 0),
                  !.rec = [r EXCEPT !.start = @ + off, !.count = @ + l.len,
                                    !.end = @ + off + l.len]]
      [] l.t = "eof" ->
           IF p.open THEN [p EXCEPT !.n = @ + 1, !.eof = TRUE,
                                    !.list = Append(@, p.rec)]
           ELSE [p EXCEPT !.n = @ + 1]
      [] l.t = "ela" ->
           [p EXCEPT !.n = @ + 1, !.open = TRUE,
              !.list = IF p.open THEN Append(@, p.rec) ELSE @,
              !.rec = [start |-> l.addr * ElaSize, end |-> l.addr * ElaSize,
                       count |-> 0, pos |-> p.n + 2]]

\* A file without an end line loses its last record.
Parse(f) ==
    FoldLeft(ParseLine, [err |-> FALSE, eof |-> FALSE, open |-> FALSE, n |-> 0,
                         rec |-> NewRecord, list |-> <<>>], f.lines)

\* recordList.front(): of an empty list, the list's size in the build.
StartLoc(f) == IF Parse(f).list = <<>> THEN 0 ELSE Parse(f).list[1].start

\* After an empty last line was read the stream fails, unless an end line
\* stopped the reading before.
Readable(f) == Parse(f).eof \/ ~f.newline

-----------------------------------------------------------------------------
(* The commands of programXSpi.                                            *)

Erase(a) == [c |-> "erase", addr |-> a, data |-> <<>>]
Write(a, d) == [c |-> "write", addr |-> a, data |-> d]
Throw == [c |-> "throw", addr |-> 0, data |-> <<>>]

Shift(f) == IF StartLoc(f) = 0 THEN 0 ELSE SubSector

\* Mutant: j <= i->mEndAddress.
EraseRecordInclusive(r, shift) ==
    LET n == (r.count \div SubSector) + 1
    IN  [i \in 1..n |-> Erase(r.start + shift + (i - 1) * SubSector)]

\* The sub-sectors of a record are erased from its start on.
EraseRecord(r, shift) ==
    LET n == (r.count + SubSector - 1) \div SubSector
    IN  [i \in 1..n |-> Erase(r.start + shift + (i - 1) * SubSector)]

\* Bytes of a data line.
Bytes(base, l) == [i \in 1..l.len |-> Byte(base + l.addr + i - 1)]

\* Lines fill the buffer; what does not fit it any more is dropped.  A full
\* buffer is a page to write.
FillPage(b, l) ==
    LET room == WRITE_DATA_SIZE - Len(b.buf)
        take == IF l.len < room THEN l.len ELSE room
        buf == b.buf \o SubSeq(Bytes(b.base, l), 1, take)
    IN  IF Len(buf) = WRITE_DATA_SIZE
        THEN [b EXCEPT !.buf = <<>>, !.pages = Append(@, buf)]
        ELSE [b EXCEPT !.buf = buf]

\* The last page is filled up with FF.
Padded(buf) == [i \in 1..WRITE_DATA_SIZE |-> IF i <= Len(buf) THEN buf[i] ELSE FF]

DataLines(f, r) ==
    LET upto(k) == SubSeq(f.lines, r.pos, r.pos + k - 1)
        n == CHOOSE k \in 0 .. Len(f.lines) :
               FoldLeft(LAMBDA s, l : s + l.len, 0, upto(k)) = r.count
    IN  upto(n)

ProgramRecord(f, r, shift) ==
    LET base == (r.start \div ElaSize) * ElaSize
        b == FoldLeft(FillPage, [base |-> base, buf |-> <<>>, pages |-> <<>>],
                      DataLines(f, r))
        pages == IF b.buf = <<>> THEN b.pages
                 ELSE Append(b.pages, Padded(b.buf))
    IN  [i \in 1..Len(pages) |->
            Write(r.start + shift + (i - 1) * WRITE_DATA_SIZE, pages[i])]

\* writeBitstreamGuard: dummy words stay in front of the instructions.
WriteGuard(a) ==
    << Erase(a),
       Write(a + WRITE_DATA_SIZE, [i \in 1..WRITE_DATA_SIZE |->
                                      IF i = 1 THEN GUARD ELSE FF]) >>

Concat(seqs) == FoldLeft(LAMBDA x, y : x \o y, <<>>, seqs)

\* Mutant: the guard is removed before the records are programmed.
CommandsGuardEarly(f) ==
    LET list == Parse(f).list
        loc == StartLoc(f)
        guarded == loc # 0
    IN  (IF guarded THEN WriteGuard(loc) ELSE <<>>)
        \o Concat([i \in 1..Len(list) |-> EraseRecord(list[i], Shift(f))])
        \o (IF guarded THEN <<Erase(loc)>> ELSE <<>>)
        \o Concat([i \in 1..Len(list) |-> ProgramRecord(f, list[i], Shift(f))])

\* programXSpi.  An unreadable file throws when its first record is read.
Commands(f) ==
    LET list == Parse(f).list
        loc == StartLoc(f)
        guarded == loc # 0
    IN  (IF guarded THEN WriteGuard(loc) ELSE <<>>)
        \o Concat([i \in 1..Len(list) |-> EraseRecord(list[i], Shift(f))])
        \o (IF list # <<>> /\ ~Readable(f) THEN <<Throw>> ELSE
            Concat([i \in 1..Len(list) |-> ProgramRecord(f, list[i], Shift(f))]))
        \o (IF guarded THEN <<Erase(loc)>> ELSE <<>>)

\* What the tool makes of a file; a bad one ends the run.
Plan(f) == IF f = NONE THEN <<>>
           ELSE IF Parse(f).err THEN <<Throw>> ELSE Commands(f)

-----------------------------------------------------------------------------
(* The flashes.                                                            *)

Cells == 0 .. ExtSize * MAX_NUM_SECTORS - 1

\* The cells a command touches: a sub-sector, or bytes that wrap in a page.
Touched(cmd) ==
    IF cmd.c = "erase"
    THEN LET s == cmd.addr - (cmd.addr % SubSector) IN s .. s + SubSector - 1
    ELSE LET p == cmd.addr - (cmd.addr % PageSize)
         IN  {p + ((cmd.addr + i - 1) % PageSize) : i \in 1..WRITE_DATA_SIZE}

Done(m, cmd) ==
    IF cmd = NONE THEN m
    ELSE LET touched == Touched(cmd)
             at(a) == cmd.data[((a - cmd.addr) % PageSize) + 1]
         IN  [a \in Cells |->
                IF a \notin touched THEN m[a]
                ELSE IF cmd.c = "erase" THEN FF
                ELSE IF at(a) = FF THEN m[a]
                ELSE IF m[a] = FF THEN at(a) ELSE BAD]

\* What is in the flash if the power fails now.
Interrupted(m, cmd) ==
    IF cmd = NONE THEN m
    ELSE LET touched == Touched(cmd)
         IN  [a \in Cells |-> IF a \in touched THEN BAD ELSE m[a]]

FlashReady(s) ==
    /\ busy[s] # NONE
    /\ mem' = [mem EXCEPT ![s] = Done(@, busy[s])]
    /\ busy' = [busy EXCEPT ![s] = NONE]
    /\ renewing' = IF GUARD \in Range(busy[s].data) THEN renewing \ {s}
                   ELSE renewing
    /\ UNCHANGED <<files, phase, slave_index, todo, selected_sector, ext, runs>>

-----------------------------------------------------------------------------
(* The tool.                                                               *)

\* What was flashed before has the same place, without a guard.
OldFlash(f) ==
    LET guard == IF f # NONE /\ Shift(f) # 0 THEN Touched(Erase(StartLoc(f)))
                 ELSE {}
    IN  [a \in Cells |-> IF a \in guard THEN FF ELSE OLD]

Nothing == [s \in Slaves |-> <<>>]

Init ==
    /\ files \in {g \in [Slaves -> Files \cup {NONE}] : g[0] # NONE}
    /\ phase = "idle" /\ slave_index = 0 /\ todo = Nothing /\ selected_sector = -1
    /\ mem = [s \in Slaves |-> OldFlash(files[s])]
    /\ ext \in [Slaves -> {0, 1}] /\ busy = [s \in Slaves |-> NONE]
    /\ runs = 0 /\ renewing = {}

\* main, Flasher::upgradeFirmware, xclUpgradeFirmware2.  (The file of flash 1
\* is parsed later; nothing changes it.)
RunTool ==
    /\ phase \in {"idle", "failed", "ok"} /\ runs < MaxRuns
    /\ runs' = runs + 1
    /\ phase' = "run" /\ slave_index' = 0 /\ selected_sector' = -1
    /\ todo' = [s \in Slaves |-> Plan(files[s])]
    /\ UNCHANGED <<files, flashes, renewing>>

\* Flash 1 after flash 0.
NextFlash ==
    /\ phase = "run" /\ todo[0] = <<>> /\ slave_index = 0 /\ files[1] # NONE
    /\ slave_index' = 1 /\ selected_sector' = -1
    /\ UNCHANGED <<files, phase, todo, flashes, runs, renewing>>

Finish ==
    /\ phase = "run" /\ todo = Nothing
    /\ slave_index = 1 \/ files[1] = NONE
    /\ phase' = "ok"
    /\ UNCHANGED <<files, slave_index, todo, selected_sector, flashes, runs,
                   renewing>>

\* setSector: the extended address register is written when it changes.
SetSector(s, sector) ==
    /\ sector < MAX_NUM_SECTORS
    /\ ext' = IF sector = selected_sector THEN ext
              ELSE [ext EXCEPT ![s] = sector]
    /\ selected_sector' = sector

\* writeBitstreamGuard comes to erase the place of the guard while the flash
\* holds neither the old bitstream nor the new one, but what an interrupted run
\* left.  (Recorded for GuardProtects.)
RenewsGuard(s) ==
    /\ Len(todo[s]) > 1 /\ GUARD \in Range(todo[s][2].data)
    /\ LET writes == {cmd \in Range(todo[s]) : cmd.c = "write"} \ {todo[s][2]}
           cells == UNION {{<<w.addr + i - 1, w.data[i]>> :
                              i \in {j \in DOMAIN w.data : w.data[j] # FF}} :
                             w \in writes}
           inside == {c \in cells : c[1] \in Cells}
       IN  /\ \E c \in inside : mem[s][c[1]] # OLD
           /\ \E c \in inside : mem[s][c[1]] # c[2]

\* sectorErase and writePage: wait until the flash is ready, select the
\* sector, enable writing, give the command with three address bytes.
Command ==
    LET s == slave_index
        cmd == Head(todo[s])
    IN  /\ phase = "run" /\ todo[s] # <<>>
        /\ cmd # Throw /\ busy[s] = NONE
        /\ SetSector(s, cmd.addr \div ExtSize)
        /\ busy' = [busy EXCEPT ![s] =
              [cmd EXCEPT !.addr = ext'[s] * ExtSize + (@ % ExtSize)]]
        /\ todo' = [todo EXCEPT ![s] = Tail(@)]
        /\ renewing' = IF RenewsGuard(s) THEN renewing \cup {s} ELSE renewing
        /\ UNCHANGED <<files, phase, slave_index, mem, runs>>

\* Mutant: isFlashReady does not give up.
GivesUpNever == phase = "run" /\ FALSE
GivesUp == phase = "run"

\* The file is bad, the controller cannot be prepared, the flash is not ready
\* in time, the address is too high, or the controller reports an error, which
\* it may also do after the last command.
Fail ==
    /\ GivesUp
    /\ phase' = "failed" /\ todo' = Nothing
    /\ UNCHANGED <<files, slave_index, selected_sector, flashes, runs, renewing>>

PowerFail ==
    /\ PowerFails /\ phase # "down"
    /\ phase' = "down" /\ todo' = Nothing
    /\ mem' = [s \in Slaves |-> Interrupted(mem[s], busy[s])]
    /\ busy' = [s \in Slaves |-> NONE] /\ ext' = [s \in Slaves |-> 0]
    /\ UNCHANGED <<files, slave_index, selected_sector, runs, renewing>>

Boot ==
    /\ phase = "down" /\ runs < MaxRuns
    /\ phase' = "idle"
    /\ UNCHANGED <<files, slave_index, todo, selected_sector, flashes, runs,
                   renewing>>

Tool == NextFlash \/ Finish \/ Command \/ Fail
Next == RunTool \/ Tool \/ PowerFail \/ Boot \/ \E s \in Slaves : FlashReady(s)

Spec == Init /\ [][Next]_vars

\* The tool runs.  Nothing is asked of the flashes, for isFlashReady gives up;
\* that each of its transfers returns is TransferReturns of XspiTransfer, which
\* needs a SPI core that shifts.
FairSpec == Spec /\ WF_vars(Tool)

-----------------------------------------------------------------------------
Usable(f) == f # NONE /\ ~Parse(f).err

\* All data bytes of a file, by their address.
Content(f) ==
    UNION {{l.base + l.addr + i - 1 : i \in 1..l.len} :
             l \in {x \in Range(f.lines) : x.t = "data"}}

NewComplete(f, m) ==
    LET shift == Shift(f)
    IN  \A a \in Content(f) : a + shift \in Cells /\ m[a + shift] = Byte(a)
OldIntact(f, m) ==
    LET shift == Shift(f)
    IN  \A a \in Content(f) : a + shift \in Cells => m[a + shift] = OLD

Guarded(f, m) == m[StartLoc(f) + WRITE_DATA_SIZE] = GUARD

Protected(s) ==
    LET f == files[s]
        m == Interrupted(mem[s], busy[s])
    IN  Usable(f) /\ StartLoc(f) # 0 =>
            Guarded(f, m) \/ OldIntact(f, m) \/ NewComplete(f, m)

(* "Bitstream guard protects from partially programmed bitstreams": if the *)
(* power fails now, the FPGA finds the guard, or a complete bitstream, the *)
(* old or the new one.  One exception: a run that finds what an            *)
(* interrupted one left erases the old guard before it writes the new one, *)
(* and until that is written nothing protects.                             *)
GuardProtects == \A s \in Slaves \ renewing : Protected(s)

(* Stronger, and false: the same without the exception.                    *)
AlwaysProtected == \A s \in Slaves : Protected(s)

(* "XBFlash completed succesfully": every byte of both files is in its     *)
(* flash and no guard is left, once the flashes are ready.                 *)
SuccessMeansFlashed ==
    phase = "ok" => \A s \in {x \in Slaves : files[x] # NONE} :
        LET f == files[s]
            m == Done(mem[s], busy[s])
        IN  NewComplete(f, m) /\ (StartLoc(f) # 0 => ~Guarded(f, m))

(* The golden image and whatever else is in the flash survives: only       *)
(* sub-sectors of the guard and of the records are ever erased or          *)
(* programmed.                                                             *)
OthersUntouched ==
    \A s \in Slaves : Usable(files[s]) =>
        LET f == files[s]
            shift == Shift(f)
            own == UNION {Touched(Erase(a + shift)) : a \in Content(f)}
                   \cup Touched(Erase(StartLoc(f)))
            m == Interrupted(mem[s], busy[s])
        IN  \A a \in Cells \ own : m[a] = OLD

(* "Erase any subsectors in address range": no cell is programmed that was *)
(* not erased.                                                             *)
EraseCovers ==
    \A s \in Slaves :
        LET m == Done(mem[s], busy[s]) IN \A a \in Cells : m[a] # BAD

(* "Cleared bitstream guard. Bitstream now active."                        *)
ActiveWhenReported == phase = "ok" => \A s \in Slaves : busy[s] = NONE

(* A run ends although the flash may never be ready, given that each SPI   *)
(* transfer does (TransferReturns).                                        *)
RunEnds == (phase = "run") ~> (phase # "run")

=============================================================================
