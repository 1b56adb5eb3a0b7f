# A TLA+ verification of the OPAE FPGA driver stack for Xilinx cards

This directory specifies and checks the stateful parts of the repository's FPGA
driver stack: the OPAE kernel drivers (release 1.3.0-2, ported to Xilinx cards),
the Xilinx HWICAP driver and the flash programmer. Paths below are relative to
`src/`; `D` stands for `sw/OPAE/driver/opae-intel-fpga-driver-1.3.0-2`, `I` for
`D/drivers/fpga/intel` and `X` for `sw/FME_xilinx_driver`.

## 1. The system

A card has one FPGA management engine (FME) and up to four ports. A port gives
user programs access to one accelerated function unit (AFU). The PCIe driver
walks the card's device feature list and creates one platform device for the
FME and one for each port; the FME and AFU drivers bind to them, initialise the
features the list names, and offer a character device each. Beside them stand
drivers for what else is on a card: the HSSI link, the user clock, the board
management controller (BMC), the configuration flash. On Xilinx cards partial
reconfiguration (PR) also goes through a driver of its own, which feeds the
HWICAP core, and the flash is written by a user program, `xbflash`.

| Part | Source | Module |
|---|---|---|
| files, use counts, port reset, PR locking, release and assign, SR-IOV, removal | `D/include/feature-dev.h`, `I/feature-dev.c`, `I/pcie.c`, `I/afu.c`, `I/fme-main.c`, `I/fme-pr.c` | `PortLifecycle` |
| DMA regions and umsg of a port | `I/dma-region.c`, `I/afu.c` | `AfuDma` |
| MMIO regions and mmap | `I/region.c`, `I/afu.c` | `AfuRegions` |
| port errors | `I/afu-error.c` | `PortError` |
| interrupt vectors tied to eventfds | `I/feature-dev.c`, `I/afu.c`, `I/afu-error.c` | `MsixVectors` |
| walk of the feature list, devices and ids | `I/pcie.c` | `FeatureList` |
| probe and remove of the drivers, init and uinit of every feature | `I/feature-dev.c`, `I/afu.c`, `I/fme-main.c` and the feature files | `FeatureInit` |
| PR engine and FPGA manager | `I/fme-pr.c`, `D/drivers/fpga/fpga-mgr.c` | `FmePr`, abstractly `PrService` |
| FME errors | `I/fme-error.c` | `FmeError` |
| performance monitors | `I/fme-iperf.c`, `I/fme-dperf.c` | `FmePerf` |
| thermal and power thresholds | `I/fme-main.c` | `FmeThresholds` |
| HSSI link, its tuning and EEPROM | `I/intel-fpga-pac-hssi.c` | `HssiOps`, `Hssi` |
| user clock | `I/intel-fpga-pac-iopll.c` | `Iopll` |
| BMC mailbox | `D/drivers/misc/avmmi-bmc.c` | `BmcMailbox` |
| flash calls and controller | `D/drivers/mtd/spi-nor/spi-nor.c`, `altera-asmip2.c` | `NorFlash` |
| flash block protection | `D/drivers/mtd/spi-nor/spi-nor.c` | `NorLock` |
| flash programmer | `X/app_pcie_qspi/xbflash/xspi.cpp`, `flasher.cpp`, `xbflash.cpp` | `XspiFlash`, `XspiTransfer` |
| HWICAP download | `X/drv_pcie_hwicap/pcie.c` | `HwIcap` |

What is hard about it:

* *Many users of one port.* Files are opened shared or exclusively, by several
  processes, while the FME releases the port, reconfigures it, assigns it back
  or the card is removed.
* *Several mutexes*, taken in nested fashion by PR, release, assign, SR-IOV and
  removal, and by attributes that are removed while threads are inside them.
* *Late calls and late answers.* An open that found the device before it was
  deleted; a removal that stops waiting after 10 ms; acknowledgements of a
  mailbox that come after the driver gave up.
* *Half-done work.* Any allocation, registration, pin, copy or command may fail
  after others succeeded; power may fail between two flash commands.
* *Hardware that moves meanwhile.* Errors raised while they are cleared, credits
  returned while data is pushed, counters that follow their selection later.

`PROJECT.json` lists the hazards with the line where each bites, the map from
definitions to source lines, and the status of every component.

## 2. The modules

Every module has its state as variables, one action per operation or step, and
an environment of its own for the hardware and the kernel, marked external in
the map. Common conventions: a section under a mutex is one step unless
hardware or another actor can act within it; a call refused before it changed
anything is no step; a poll that times out does so only while the awaited value
is absent; a thread is at a named place of its handler (`pc`, `at`, or the
rest of its commands, `todo`). `Mutant` definitions are plausible bugs; each
is wired to one property of one run, which it must break.

**PortLifecycle.** One card with its FME and `Ports`. A *handle* is an open
file with the thread that works on it; `pc[h]` is where that thread is. The
other actors are the writer of a port's error-clear file, SR-IOV configuration,
the hardware and the removal. `open_count`, `excl_open`, `unplug`, `pid_list`
and `private` are those of `struct feature_platform_data`; `ctl` holds
`disable_count` and the port control register; `plock`, `flock` and `dlock` are
the locks of a port, of the FME and of `drvdata`; `held` is what users of a port
have set up. An open is three steps (device found, use counted, process noted)
because removal and release come between them.

**AfuDma.** Addresses count pages. `Buffers` is the set of (iova, length) that
`dma_map_page` may give: disjoint with an IOMMU, possibly nested without. The
red-black tree is its regions and, per region, those on the way to the root;
after an insertion or a removal it is any search tree, of which the red-black
trees are some (up to three regions the difference does not matter to a search
of disjoint regions). A map is pin, add under the lock, copy out; an unmap is
remove under the lock, then unpin. Pages are charged to the process that maps
and given back by whoever unmaps or closes; one with `CAP_IPC_LOCK` may exceed
its limit, one that exits has no `mm` any more. 64-bit sums are taken modulo
`AddrSpace`. `PortLifecycle` sees all this as one resource that the last
close drops; `LastCloseCleans` is what entitles it to.

**AfuRegions.** Regions laid out one after the other in the offset space of the
device file, and `mmap` against them.

**PortError, FmeError.** Registers whose bits hardware sets at any time and
masks hold back, and users who read a value and write it back to clear it, the
port being held in reset meanwhile. Some errors no mask of the driver covers:
those a port raises in reset (`ResetErrs`), those of `fme_err` above the eighth
(`HighErrs`).

**MsixVectors.** A block of vectors is tied to eventfds one by one, with the
loop back on an error, while handlers run and users close their descriptors.

**FeatureList.** Cards with lists of headers, good and bad; the walk, the device
being assembled, what a failure at any allocation undoes, two cards at a time.

**FeatureInit.** For every feature of both drivers the resources its init
acquires in order, those it gives back on a failure, and those its uinit
returns; probe, the loops over the features, remove, and threads that enter
attributes meanwhile.

**PrService, FmePr.** `PrService` says what the owner of a port is promised: a
PR that succeeds leaves exactly its image; one that fails leaves unknown
content; nothing else changes the port. `FmePr` has the ioctl, the manager's
states and the handshake with the engine, and implements it
(`ImplementsService`, with the image of a port under a running PR mapped to
`UNKNOWN`).

**FmePerf, FmeThresholds.** Read-modify-write of shared registers by threads;
counters follow their selection with a delay; seven-bit fields.

**HssiOps, Hssi.** `HssiOps` gives every sysfs handler as its sequence of
commands to the Nios, down to the bits of the I2C bus; `Hssi` runs them through
the mailbox.

**BmcMailbox, Iopll.** A mailbox with byte counts that are read while they are
written, with probes that fail at each of their steps and a removal in two steps
between which files are still open; a command register with a two-bit sequence
number.

**NorFlash, NorLock.** MTD calls as sequences of flash commands through a FIFO,
on flashes of several kinds, where a command that timed out may have been sent
or not; `stm_lock` and `stm_unlock` on the BP and TB bits.

**XspiFlash, XspiTransfer.** The parse of an MCS file, the guard in front of the
bitstream, erase, program and activation on two flashes, with power failing at
any moment and runs after that; below it the transfer through FIFOs shorter than
a page.

**HwIcap.** The header parser, the gates, the busy flag, the FIFO, the status.

**PortFeatures, FmeFeatures, Board.** Components that share no state, composed
for any values of their constants: the regions, errors and vectors of a port;
PR, errors, monitors and thresholds of the FME; BMC and user clock. Both the
runs and the proofs are about these compositions (section 3 says how they
work).

## 3. The runs

Components that share no state are checked together: a composition declares
the variables of several, and a variable `part`, chosen in `Init` and never
changed, says which of them a behaviour exercises while the others rest in an
initial state. A part may also name an instance: the same component with other
constants. Every behaviour of every instance is explored; nothing is lost, since
the parts do not interact. Components that do interact (files, reset, PR,
release, removal) are one module. `MCPortFeatures`, `MCFme` and `MCBoard` only
give small values to the constants of `PortFeatures`, `FmeFeatures` and `Board`;
`MCFeatures`, `MCHssi` and `MCFlash`, about which nothing is proved, are
compositions themselves.

| Run | Module, config | Instances | Shows |
|---|---|---|---|
| `port` | `MCPortLifecycle`, `Port.cfg` | 2 ports, 3 files, failures | a PR stays in reset, `disable_count` is exact, exclusive use is exclusive, released ports are unused and counted |
| `port_remove` | `MCPortLifecycle`, `PortLive.cfg` | 1 port, 2 files, removal, fairness | open files have their AFU unless the removal stopped waiting; nothing outlives the last close; calls and removal end |
| `afu_dma` | `MCAfuDma`, `AfuDma.cfg` | 3 disjoint buffers, 2 files, 2 processes, one privileged, failures | pins, charge, search and umsg base are right |
| `port_features` | `MCPortFeatures`, `PortFeatures.cfg` | 3 regions of sizes around a page; 2 users and errors with and without a mask; 3 vectors and 2 eventfds | a mapping shows its region; no error record is lost by a clear, but of errors in reset; eventfds are neither leaked nor signalled after release; vectors tied as the call says; calls return |
| `fme` | `MCFme`, `Fme.cfg` | 2 PRs on 2 ports; 2 users of errors, monitors and thresholds; errors outside the masks, PCIe errors | `FmePr` implements `PrService`; credits and errors; no lost register update; counters of the right event; calls return |
| `features` | `MCFeatures`, `Features.cfg` | 1 card with 9 layouts, 2 cards with 2; 4 kinds of devices, one an FME with its error feature in use | devices and ids as described; a failed or undone probe leaves nothing; removal ends, or is in the one deadlock of section 5 |
| `hssi` | `MCHssi`, `Hssi.cfg` | 2 threads on link, DFE and a busy EEPROM; a late Nios while the EEPROM is read, tuned, shown, adapted | success means done; only the EEPROM's content is cached, unless the attempt itself timed out, and the bus is given back; handlers return, unless a failed read kept the mutex |
| `board` | `MCBoard`, `Board.cfg` | BMC with 1 and 2 threads, slow BMC, failing probes, removal; 2 users of the clock | each request gets its own whole answer; sensor records are in full up to the one that failed; a stored clock is applied; handlers return |
| `flash` | `MCFlash`, `Flash.cfg` | 5 kinds of flashes, 2 threads, late flash; protection of 8 units and, with TB, of 128; `xbflash` once with 6 files and 3 times with one; transfers; HWICAP | calls do what they return; the guard protects but while it is renewed; only the files' sub-sectors change; transfers and downloads complete; all end |

A property of a composition is made of those stated and explained in the
component modules. Where the code breaks a promise in a known case, the case is
in the run and the property names it as its exception; section 5 lists the
stronger statement that fails.

Three runs end in a violation of something the repository asserts:

| Run | Said | Done |
|---|---|---|
| `remove_assign_race` | "the port should be unregistered first", `WARN_ON` (`I/pcie.c:144`) | an FME file assigns a port behind the removal |
| `umsg_base_lost` | `WARN_ON(!dma_region)` (`I/afu.c:681`) | with nested buffers (no IOMMU) a rotation of the tree hides the region; the base register stays set |
| `hwicap_busy` | `BUG_ON(lro->axi_gate_frozen)` (`X/drv_pcie_hwicap/pcie.c:88`) | two ioctls pass the busy flag together |

*Bounds.* Two ports make the port loops go round; three files are an exclusive
opener, a competitor and an FME file at once. Three regions are the smallest
tree that rotates; `AddrSpace` lies just above the last buffer, so that sums
wrap; `MaxCharge` lets a privileged process exceed `LockLimit`. In `afu_dma` umsgs
are used only by a process that is alone with the port and correctly charged
(`Apart`): charges and umsgs share nothing but the tree. Bytes, pages, FIFOs and
address bytes are scaled down so that every boundary (below, at, above) is met;
ranges of the protection with 128 units begin and end at `Edges` around its
ends, halves and quarters. `MaxCalls`, `MaxPr`, `MaxTransfers` are two or three,
so that a call finds what an earlier one left; `MaxRuns` is three where a run of
`xbflash` meets an interrupted one, and one where all files are tried on both
flashes. The slow BMC is asked for sensor records only, and the two threads of
`board` meet a BMC that runs its main application. `MaxPolls`, `MaxDelay`,
`MaxShort`, `MaxNacks` and `MaxLateAssign` cap counters that a repeated failure
would raise for ever. `port` uses one process: a file closed by another process
than opened it leaves its `pid_list` entry, and the list grows without bound.
`SYMMETRY` is used only in runs without liveness: of ports and handles
in `port`, of handles in `afu_dma`.

*Deadlock* is checked in `afu_dma`, `fme` and the violation run that has no
natural end. The others may stop: call budgets are spent, the card is gone, a
probe ends in an oops, the removal of the FME's errors waits for ever, and with
failures a thread may die with a port's lock held (section 5).

*Fairness.* Threads inside a call run (weak fairness of their steps). Where a
thread waits for a mutex others use, strong fairness: a Linux mutex hands over to
the longest waiter. An interrupt handler that runs comes to its end
(`MsixVectors`), a thread inside an attribute leaves it (`FeatureInit`), the SPI
core shifts what is in its FIFO (`XspiTransfer`, which polls without a limit).
Nothing is asked of users, of the Nios, the BMC, the PLL, the PR engine, the
flash or the HWICAP: the drivers' waits on them are bounded, which is what the
liveness properties show. For `xbflash` they show it given that its SPI transfers
return, which takes the core's shifting. They except a removal that stopped
waiting for users (`timedout`), after which the last close fails with its lock
held; the deadlock of `global_error_uinit` (`Stuck`); and the mutex that a failed
read of `dfe_kickstart` keeps (`Leaked`).

## 4. The proofs

Each theorem follows from an inductive invariant, named below. "For any" means
for every value of the constants that satisfies the assumptions listed at the end
of this section.

*PortLifecycleProofs*, for any ports, files, processes and flags: `TypeCorrect`,
`DisableIsBalanced`, `PrStaysInReset`. `DisableBalanced` is not inductive alone:
it counts holders by where threads are, so the proof needs that a thread inside
a reset has that port's lock and that only the holder of the FME lock is inside a
PR (`Shape`). The invariant `IInv` is `TypeOK /\ Shape /\ DisableBalanced`; that
a PR runs in reset follows.

*PortUseProofs, PortReleaseProofs*, for the same: `UseInvariance`,
`ExclusiveAlone`, `ReleasedAlwaysAccounted`, and where nothing fails
(`~MayFail`) `FilesHaveTheirAfu` and `LastCloseCleansPort`. Exclusive use rests
on a count, on a flag and on nobody opening meanwhile, so `UInv`, defined in
`PortInvariants`, has to say what `open_count` counts while an open, a last
close, a release, an assign and the removal are half done:

* `CountInv`: the files of a device, without one whose last close has given its
  use back and still resets the port, and with the use that a release keeps;
* `ExclInv`, `ReleasedInv`: `excl_open` is set while an exclusive file is open or
  a port is released, unless the device is unplugged, and then the file is alone
  and the released port has no file;
* `RemoveInv`: a port that the removal is done with is unplugged and has no file,
  unless the removal stopped waiting for it;
* `ProbeInv`, `VfInv`: which ports are registered during a release and an
  assign, and that `released_port_num` counts the others, of which the VFs are
  some;
* `LockInv`: `drvdata->lock` and the ports' locks are held by exactly those
  inside the sections they protect.

The first of the two modules has the steps of files, the second those of release,
assign, SR-IOV and removal. `FilesHaveTheirAfu` adds `AfuThere` (a registered port
has its AFU), which a probe that fails breaks; `LastCloseCleansPort` adds
`LastClears`, which an `afu_open` that runs out of memory breaks. Section 5 says
what happens then: the premise `~MayFail` cannot be dropped.

*AfuDmaProofs*, for any buffers, processes and number of regions, any search
tree, and with all failures: `PinsAlwaysCover`. The invariant adds only types;
each step adds to a frame's references at least what it adds to its users. When
no two buffers overlap (`BuffersDisjoint`): `BaseAlwaysFound`, `FindIsComplete`,
`LastCloseAlwaysCleans`. The heart is `FindsContainer`: with disjoint regions the
region of an address lies on the side of every node on its way down that the
search turns to. The invariant adds to types that the base address lies in a
marked region; the last close needs it, since it clears the base only if it
finds the region. `umsg_base_lost` shows that the assumption
cannot be dropped.

*PortFeaturesProofs*, one invariant per part:

* `RegionsDisjoint` and `MappingsShowTheirRegion`, for every page size and any
  regions: a mapping shows the memory of the region whose offset it was given
  and nothing behind it. `RegInv` adds that offsets are whole pages and that all
  regions end below the next free offset.
* `PortErrorsAlwaysRight`, for any errors and users. `ErrInv` says that only the
  owner of the lock is inside a clear, that clear and reconfiguration each hold
  the port in reset once, and that from masking to unmasking the registers are
  what the clear has read of them, but for errors in `ResetErrs`, which the
  mask lacks; the property excepts their records (section 5).
* `EventfdsAlwaysRight`, `VectorsAlwaysRight`, for any numbers of vectors, any
  eventfds and a failure at any step of `SET_IRQ`. `IrqInv` relates trigger,
  name and argument of every line, with exceptions for the one being worked on
  (`LineInv`); says whose argument a running handler has (`RunInv`); counts the
  references of an eventfd by descriptor, ties and the one in hand (`RefInv`);
  and tells how far a block is tied, or untied after a failure (`BlockInv`), and
  what a last close has still to untie (`ClosedInv`).

*FmeFeaturesProofs*, for any threads, values, monitors, events and errors:

* `ThresholdsAsStored`. A store writes back all fields of its register; `ThrInv`
  says that what the thread in a store has read is still what the register holds.
* `CountersAlwaysRight`. `PerfInv` says what the thread with the lock knows of
  the control register at each point of its call, and that a counter it is about
  to sample has followed its selection. Of the two registers that make up a cache
  counter this is said of the first, the only one the driver looks at
  (section 5).
* `FmeErrorsAlwaysRight` and the action property `ErrorsOnlyAcknowledged`.
  `ErrInv` says which register is masked and that a value compared is still in
  it (`MaskInv`), that a record a clear has found is still there when it drops it
  (`ClearInv`), and that otherwise the record of an error of `fme_err` names a
  pending one (`RecordInv`). Errors outside the masks and of PCIe registers are
  included; that they have a record is not claimed, for a clear drops it
  (section 5).

*BoardProofs*:

* `StoresAlwaysApplied`, for any threads and frequencies and however late the
  PLL's machine is. An acknowledgement is recognised by a sequence number of two
  bits. `PllInv` follows a store access by access (`SuffixInv`, `ContentInv`);
  between accesses the machine shows the number of the last one
  (`HandshakeInv`), and since a store makes 20 accesses, a multiple of four, it
  shows zero when nobody stores (`RestInv`), so the first access of the next
  store, number one, is not taken for done. A store that begins while an access
  is unacknowledged is excepted, as `StoreApplied` states.
* `AnswersAlwaysRight`, for any threads, operations, records and chunk sizes,
  with a BMC that does not answer after the driver gave up (`~late`; with a late
  one it is false, section 5). `BusInv` gives the stages of a transaction:
  asked, working, counting, ready; the count is two bytes that are written and
  read one by one, so a count seen once may be half of one, but one seen twice
  is whole. `ReplyInv`, `OpInv` and `SdrInv` carry the answer to the caller and
  say of a fetch that all records before the current one are in full, the chunks
  before the current one in place, and of the buffer, which a failed probe does
  without, that every byte is the BMC's or still zero (`Room`, `Clean`, `Uses`).
  A fetch may end at a refused chunk; that it never does is not claimed
  (section 5). That a count seen twice is whole needs
  the guard of `ReadLow`: the BMC writes both bytes within two polls (section 6).

*FmePrProofs*, for any ports, PRs, word, image and FIFO sizes: `PrIsSafe` and
`PrImplementsService`, the refinement of `PrService` by `FmePr`. The mapping
shows a port's content only while no PR runs on it and its last one succeeded.
The difficulty is an engine that goes on with a PR the driver gave up, and a
control register the driver reads, changes and writes back while the engine
changes it. The invariant says that a port the engine is loading, or may start
to load, is never one whose content is known (`EngineInv`); that what was read
of the register loses no start request and names no such port (`StaleInv`);
that from the start request on FIFO and port together hold exactly the words
pushed, all of this PR, and the count is what is left (`PhaseInv`); and that
errors seen meanwhile are this PR's (`ErrInv`). A PR's begin and end then map to
steps of `PrService`, every other step to none. What the engine does is the
model's assumption on hardware (section 6).

Assumed are the `ASSUME`s of `PortLifecycle`, `AfuDma`, `AfuRegions`, `FmePr`,
`PortFeatures`, `FmeFeatures` and `Board`. The markers (`NONE`, `UNKNOWN`,
`SYSFS`...) differ from the values they are used beside. Ports, files of the DMA
module and buffers are finite; buffers end below the end of the address space;
there are fewer than 32 umsgs; pages have a positive size and regions start on
their boundaries; PR words have at least one byte. Numbers of vectors are `u32`
values and thresholds are stored as bytes, as the fields of the code are. Of the
BMC: a byte has at least two values, records fit `struct full_sensor_record`,
and `SdrSize <= SDR_CHUNK_SIZE * Loops`, that is, the chunks that
`avmmi_get_one_sdr` asks for cover a record; in the code 80 bytes, chunks of 20
and five rounds.

Only model-checked:

* `AllReturn`, `CallReturns`, `CallsReturn`, `RemoveReturns`, `AllEnd`: liveness
  under fairness is beyond the prover.
* `PagesAccounted`: a sum over a set of regions, which takes an induction over
  finite sets with an operator parameter.
* `SuccessMeansDone`, `EepromRight`: a handler is a sequence of commands that
  `HssiOps` computes with the operators of `SequencesExt`; what it does follows
  by induction over that sequence.
* `MtdCallsRight`, `GuardProtects`, `FlashedExactly`, `TransferComplete`,
  `DownloadRight`, `OnlyRange`: they compare whole contents with programs over
  pages, records or words, again by induction over data, or compute with powers
  of two.
* `DevicesRight`, `NothingLeft`: the layouts of cards and the resources of
  features are tables; the properties say something of these tables, for which
  TLC goes through all of them.

## 5. What does not hold

The modules state more than the runs check. The following follow from the code
as modelled; TLC shows each with the constants named, in an instance of the
module. Statements of a comment or document:

| Property | Said at | Because |
|---|---|---|
| `PortLifecycle!ResetAcknowledged` | `I/feature-dev.c:304`, polls for the acknowledgement | the poll is commented out |
| `AfuDma!UmsgConfirmed` | `I/afu.c:550`, polls `init_complete` | the poll is commented out |
| `AfuDma!FindComplete`, nested buffers | `I/dma-region.c:239`, finds the containing region | the search turns right past it |
| `AfuDma!ChargeNeverShort`, 2 processes | `I/dma-region.c:60`, `WARN_ON_ONCE` | one process gives back what another was charged |
| `FeatureList!AfuSizeOfPort`, `DevicesAsDescribed`, 2 cards | `I/pcie.c:721`, size read from the port | it is kept in a static table that probes share |
| `FeatureList!ResetsRelatedPort` | `I/pcie.c:885`, "reset related port" | `enable_port_uafu` runs before the result of `parse_feature_port` is looked at |
| `FeatureList!InsideBar` | `I/pcie.c:1073`, region too small | unsigned difference at `I/pcie.c:737` |
| `FeatureInit!RemoveReturns` without `Stuck`, FME with the error feature | `D/dkms-preinst.sh:3`, `rmmod` in sequence | attributes are removed under the lock their stores take (`I/fme-error.c:395`) |
| `PortError!FirstErrorComplete`, `ResetErrs # {}` | `I/afu-error.c:60`, "mask to all 1" | the mask lacks the errors raised in reset |
| `FmeError!FirstErrorComplete`, with PCIe errors or `HighErrs` | `D/include/feature-dev.h:1028`, register triggered first | a clear drops the record of an error it cannot clear; a PCIe store leaves that of one it has cleared |
| `FmePr!EnabledAfterPr` | `I/fme-pr.c:399`, "after PR finished" | a timed-out engine still writes |
| `FmePr!StatusZero` | `D/include/uapi/linux/intel-fpga-mod.h:257`, status otherwise zero | early errors copy the caller's value back |
| `FmePerf!CacheEvents` | `I/fme-iperf.c:154`, checks the counter registers | only the first of the two that are added is checked |
| `BmcMailbox!AnswersMatch`, `TimeOuts` | `avmmi-bmc.c:197`, one transaction at a time | a late answer goes to the next caller |
| `DestroyedUnlocked` of `BmcMailbox`, `NorFlash`, `Hssi` | `mutex_destroy` | the mutex is destroyed before its users are stopped; in `Hssi` an error return keeps it (`intel-fpga-pac-hssi.c:1106`) |
| `Hssi!CacheRight`, a wait of the attempt times out | `intel-fpga-pac-hssi.c:23`, "serial number cached" | the result of `hssi_i2c_enable` is dropped; zeros read from a bus not driven are cached |
| `NorFlash!EraseReported`, unaligned erase or late flash | `spi-nor.c:514`, returns an error | only the length is checked, and the flash erases from the start of the sector (`:526`); the result of `write_enable` is ignored |
| `NorLock!LockKeepsLocked`, `UnlockLocksNothing`, with TB | `spi-nor.c:753`, `:841` | only the BP bits are compared |
| `NorLock!RemainsLocked`, `LogSize = 7` | `spi-nor.c:803`, remains locked | 1/128 of the flash has no BP value |
| `NorLock!LockCovers` | `spi-nor.c:718`, ends up locked | the length is rounded down, 0 returned |
| `XspiFlash!AlwaysProtected`, `MaxRuns = 2` | `xspi.cpp:749`, guard protects | the old guard is erased before the new one is written (`:756`) |
| `XspiFlash!EraseCovers`, unaligned start | `xspi.cpp`, "Erase any subsectors in address range" | the last sub-sector may be missed |
| `XspiFlash!SuccessMeansFlashed`, file cut off | `xspi.cpp`, "Bitstream now active" | the end line is not asked for |
| `XspiFlash!ActiveWhenReported` | the same message | the last erase is not awaited |

Other observations, about which no document says anything:

* With failures, an open may find the device of a port whose re-assignment then
  fails in `afu_probe`; its last close dereferences the null private data with
  `pdata->lock` held (`I/afu.c:1040`), and whoever needs the lock hangs. The same
  happens after a removal that stopped waiting after 10 ms. `FileHasAfu` and
  `NothingOutlivesLastClose` are therefore checked without failures.
* `afu_open` that runs out of memory while the only other file closes leaves
  that file's DMA and interrupts behind (`I/afu.c:992`).
* A short pin frees the array of pages but not the pages: two error labels of
  `afu_dma_pin_pages` are swapped (`I/dma-region.c:102`).
* A second umsg base address without clearing the first leaves the first region
  marked until the last close (`I/afu.c:665`). Removal waits for a released port
  until the time-out, because the release itself holds its count.
* An FME file used after the removal finds no driver data (`I/fme-main.c:1098`).
* `FME_ERROR0_MASK` (0xFF) covers 8 of the register's error bits.
* A port with an AFU whose header could not be set up is reset all the same,
  through a null address (`I/pcie.c:889`): the probe ends in an oops, with what it
  had set up.
* `sdr_show` and `avmmi_probe` drop the result of `avmmi_get_sdr`
  (`avmmi-bmc.c:464`, `:840`): the records after one that could not be read are
  zeros, although the read succeeds (`BmcMailbox!SdrsComplete`).
* `avmmi_probe` returns 0 after a failed allocation that it has undone
  (`avmmi-bmc.c:837`); the removal then deregisters the device a second time.
* A read of `dfe_kickstart` that fails keeps the mutex
  (`intel-fpga-pac-hssi.c:1106`), and every later handler hangs.
* `finalTransfer` that refilled the FIFO before the last byte was shifted would
  lose a byte in the full receive FIFO and wait for it for ever (`xspi.cpp:1061`,
  `XspiTransfer!AlwaysReturns`); reading the FIFO out over PCIe lasts longer.
* A failing `SET_IRQ` unties every vector of the block before the failing one.
* After a timed-out store, the user clock's status may be stale until a store
  reaches the PLL's reset.
* HWICAP: `bitstream_ioctl` returns 0 whatever happened; after ENOMEM or a
  time-out the status stays `DOWNLOADING`, for which the test program waits; the
  copy of `length` words after the header reads past the file; after a time-out
  the core may go on with the gates open.

## 6. Assumptions and what is not modelled

Taken from the kernel: SR-IOV configuration and removal exclude each other;
removing an attribute waits for the threads inside it; `mmap` ranges fit file
offsets; `free_irq` waits for a running handler; `rb_insert_color` and
`rb_erase` leave a search tree. Taken from hardware: AFU regions start on page
boundaries; a flash ignores the bits of an address below its sectors when it
erases; the port's first error is latched if it has a bit in `port_first_error`;
the ASMI FIFO is empty at the end of a command; a reset of the PR engine drops
its request and its FIFO, it starts no load while in reset, drops the request
when it is done, and raises errors of the image it is loading; the BMC writes
the second byte of its count before the driver has polled twice.

Within the modelled parts, files that only show a register, user-clock pass
through, logging, memory barriers and reference counts of the kernel are left
out. `afu_dma_region_destroy` is one step; its walk over nodes just erased is
not modelled at the level of pointers. SST byte programming and the quad-enable
sequences of flashes are left out.

Not modelled: the QEMU-HDL co-simulation and the PCIe-to-AXI bridge (RTL, at the
level of clock cycles), the PF CSR block and Ethernet generator (vendor
templates), the HLS adder (a pure function), the HWICAP user program (one thread
on the same FIFO), sample programs, kernel backports, the cut-down copy of the
driver, PCIe simulation models and build scripts. `PROJECT.json` gives the
reason for each.
