# Sidekick64: a verification development

Sidekick64 is bare-metal C++ (on the Circle library) that turns a Raspberry Pi into a
cartridge for the C64: a menu, program launcher, cartridges (EasyFlash, freezers, GeoRAM),
sound emulation, and a network client. There is no operating system. One core runs a *main
loop* per "kernel" (menu, launcher, EasyFlash, ...), and a *fast interrupt* (FIQ) preempts it
in every cycle of the C64 bus to answer what the 6510 does there. Nothing locks anything: the
two sides talk through a handful of volatile flags, and the C64 itself is a third process, with
its own program, that can be halted by pulling its DMA line. That is where this code is hard to
get right and nearly impossible to test, and that is what this development is about.

## 1. The system

| part | state it keeps | operations | talks to | module |
|---|---|---|---|---|
| menu kernel (`kernel_menu.cpp`) | `updateMenu`, `doneWithHandling`, `lastChar`, `releaseDMA`, the screen-transfer pointers, wire detection, `disableCart`, `launchKernel` | `FIQHandler` per bus cycle; `Run`; `handleNetwork`; `activateCart` / `deactivateCart` | C64 client over IO2 and the DMA/NMI lines; screens; network | `MenuBus` |
| C64 client (`C64Side/rpimenu.c`) | its program counter, the screen memory, the NMI flag | boot and detection, `updateScreen`, `wireDetection`, key loop, NMI handler | menu kernel | `MenuBus` |
| screens (`c64screen.cpp`) | menu page, cursor, `c64screen` | `handleC64`, `renderC64`, `printSKTPScreen` | menu kernel, network | `MenuBus`, `SidekickNet` |
| network (`net.cpp`) | queued actions, download buffer and names, SKTP session and page, refresh timer, reboot and return requests, modem buffers | `handleQueuedNetworkAction`, `checkFor...Download`, `prepareLaunchOfUpload`, `handleModemEmulation`, ... | web server, screens, launcher | `SidekickNet`, `SwiftLink` |
| web server (`webserver.cpp`) | none of its own | `GetContent` | network; runs as a cooperative task wherever the main task yields | `SidekickNet` |
| launcher (`kernel_launch.cpp`, `launch.h`, `C64Side/cart*.a`) | transfer state, SwiftLink registers | `KernelLaunchRun`, its FIQ handler, the loader on the C64 | network, C64 | `RamKernel`, `SwiftLink` |
| EasyFlash (`kernel_ef.cpp`, `crt.cpp`) | banks, flash image, EAPI state, "modified" flag | FIQ handler, main loop that saves the image; reading and writing of CRT files | C64, SD card | `EasyFlash`, `CRTFile` |
| GMOD2 (`kernel_ef.cpp`, `Vice/m93c86.cpp`) | bank, EEPROM: memory, shift register, command, write enable | FIQ handler, main loop that saves the EEPROM | C64, SD card | `GMOD2` |
| GeoRAM (`kernel_rkl.cpp`) | pages, page register, "save" flag | FIQ handler, main loop that saves the image | C64, SD card, launcher code | `RamKernel` |
| freezers (`kernel_ar.cpp`, `_fc3`, `_kcs`, `_ssnap5`) | lines, mode, count of writes, freeze and debounce state | FIQ handler per cycle, reset callback | C64 | `Freezer` |
| SID/FM emulation (`kernel_sid.cpp`) | clock, ring buffer of register writes, reset state | FIQ handler writes, main loop consumes | C64, sound, latch | `SIDKernel`, `SIDPlayer` |
| latch (`latch.h`), displays | output latch, ring buffer of display commands, `renderDone` | main loop queues, FIQ sends | all kernels | `Latch` |
| generic cartridges, KERNAL replacement | a ROM image | FIQ handlers | C64 | - |
| Sidekick264 | the same structure for C16/Plus4 | | | - |

PROJECT.json lists every part, also those that are left out, with the reason.

What is hard, in order of how much depends on it:

1. the three-way handshake of client, FIQ and main loop (keys, screen, halting, NMI);
2. network work that is queued by one task and done by another, several passes later, through
   shared buffers and flags;
3. images (flash, GeoRAM) that are saved while the C64 may go on writing them;
4. byte streams between an interrupt and a main loop: modem bytes, SID writes, display commands;
5. deciding from bus cycles alone what the processor does: freezing, loading a program.

The hazards of PROJECT.json give each of these at its line.

## 2. Modules

In all of them one action is either one cycle of the C64 together with the FIQ handler's whole
reaction to it (which is atomic, because the FIQ is never preempted), or one access of the main loop
to state it shares with the handler. A read-modify-write of the main loop is two actions where the
handler writes the same variable.

### MenuBus: client, FIQ handler and main loop of the menu

Where two stores of the main loop follow each other directly (`doneWithHandling = 1; updateMenu = 0`)
at most `MaxBurst` cycles fit between them.

| model | code |
|---|---|
| `mpc` and the actions of `MainLoop` | `CKernelMenu::Run` 659-815, `handleNetwork` 514-571, the loop of `main` around it |
| `cpc` and the actions of `Client` | `main`, `updateScreen`, `wireDetection` of `rpimenu.c`, the NMI handler of `rpimenu_sub.s` |
| `Serving` | the early return of the handler (832), and whether the FIQ is enabled |
| `Ask`, `HaltIfAsked`, `CountDown` | the reactions to IO2 writes (929-994), the release of DMA (1024-1030) |
| `fiqOn` | `enableFIQInterrupt` / `disableFIQInterrupt` (518, 557, 635-638, 759-766, 789-797, exit) |
| `nmiLow`, `keepNMILow`, `PullNMI` | `CLR_GPIO( bNMI )` (767, 798, 807) and its release (696-700) |
| `screenTransfer`, `CopyCell`, `screen` | the transfer pointers; one cell stands for a byte of screen, colour or charset |
| `HandleC64` | `handleC64`: any decision it can come to (nothing, launch, leave for BASIC) |
| `owed` | history: the key that has been sent and not handled |

`WithNet` is the compile-time switch `WITH_NET`. It changes the protocol: without it the FIQ
stays enabled for as long as the menu runs; with it, network work and timed refreshes run with the
FIQ disabled while the C64 goes on.

`MenuService` is the abstract specification of the build without network: the page that was drawn last, the page a waiting client
shows, and the key it has typed. `Type`, `Answer`, `Show` and `Restart` are its steps; there is no bus, no interrupt and no flag in it.
`ServesMenu` is the refinement: `shown` is the client's screen while it polls for keys, `page` the
kernel's `menuScreen`, `key` the key the client has in its hands or has sent and nobody has handled (`ServiceKey`).

An access that is not served (FIQ disabled, or returning at once) is *lost*: the client goes on, and
reads give open bus. A client that executes open bus is `jammed`. `kernalOff` is the bit in `latchD`, `kernalAway` the pin of
the latch, which gets it with the next cycle of the VIC (`OutputLatch`).

The client runs with interrupts enabled (`rpimenu_sub.s` 118), also in `wireDetection`, between whose two stores the KERNAL is
replaced. Any interrupt may come there, of the timer or by RESTORE, and finds no vector: the client has `crashed`
(`CrashingInterrupt`, `Boot`). A crashed C64 makes no access in the model; only a reset helps. The main loop blinks its LEDs through the same `latchD`, read
in `BlinkLoad` and written in `BlinkStore`, and may put back a bit that the handler has changed between them (`raced`).

There are two resets. `Button` is that of the cartridge (`activateCart`), which a standing request hides, because the handler
returns before it looks. `C64Reset` is any other (`kernel_menu.cpp` 837-843): the handler counts its cycles and nothing more, so that a request, a
halt and the latch stay, and the key the client sent before is still handled.

### SidekickNet: the network side

One action is the code between two points where the main task may yield; at the yield points
(`YieldPoints`) the web server's task may run. `at` is the kernel that runs, `pc` where its main task
is in `handleNetwork`, `modem` whether a SwiftLink cable is configured, and unlocked by a first pass of the launcher. `KernelFor` is
`getCSDBDownloadLaunchType`, which goes by the name and extension the last download has left, for the upload page too. Payloads are pairs of an origin and a type, so that it can be told whether the
bytes in `prgDataLaunch` belong to the name in `m_CSDBDownloadFilename`. HTTP, DNS and NTP either
succeed or fail. The user may press any key at any time the menu accepts one.

`SidekickNet` and `MenuBus` meet in `handleNetwork`: `MenuBus` has it as one action with the
FIQ disabled (`HandleWithNetwork`, `PollNetwork`), `SidekickNet` opens that action into its
steps and abstracts the bus to `fiqOn` and `disableCart`. Connecting at boot
(`NET_CONNECT_ON_BOOT`), the kernel update over HTTP and the upload of screen frames are left out;
the modem is the next module.

### SwiftLink: the modem of the launcher

A terminal program on the C64 (`Look`, `ReadStatus`, `ReadData`, `WriteData`, `WriteCommand`:
registers `$DE00`-`$DE02`, `kernel_launch.cpp` 590-690), the main loop of `KernelLaunchRun`
(`LoopHead` to `Input`, 300-480) and `handleModemEmulation` of `net.cpp`, which the loop calls in two
ways: *silently* with the FIQ enabled (`SilentModem`, `EmptyLength`, `EmptyPos`), or with the FIQ disabled
while the C64 is halted by the access that asked for it (`Serve`, `Modem`, `Remote`). A byte is its
number in the order of sending; what it means to the command interpreter is its kind. `owedIn` and
`owedOut` are history: what each side has still to get. Resets, uploads (which end the launcher) and
visits of the upload page (which turn the modem off) come at any time. `UseWLAN` is `usesWLAN()`: only without it does the
loop count the delay after which a look at the status halts the C64 for the network (`kernel_launch.cpp` 327, 620).

### EasyFlash: flash commands and the saving of the image

Three parties again: the EAPI driver on the C64 (`eapi-sk64.s`) that sends a command byte by byte to
`$DE0A`, the FIQ handler that executes it, and the main loop that writes the modified image back into
the CRT file, either when the C64 looks off (the loop has made 10000 rounds without a cycle of the
6510) or on the way to the menu (reset held down). A save copies packet by packet while the
handler may go on.

| model | code |
|---|---|
| `Receive`, `Command`, `Parameter`, `Execute` | `eapiReceiveByte` (`kernel_ef.cpp` 198-252) |
| `ExecWrite`, `ExecErase` | `eapiWriteFlash`, `eapiEraseSector` (169-196) |
| `Halt`, `CountDown`, `dmaLow` | halting by DMA on each access to `$DE00` and `$DE0A`, and its release |
| `ResetCycle`, `InitEF` | the reset as the handler notices it (1770-1784, 291-349) |
| `DriverBank`, `DriverSend`, `DriverReply` | `sendCommand` of the driver (340-369) |
| `TestForJump` ... `ClearModified` | the main loop (741-782) with `writeChanges2CRTFile` inlined |
| `missed` | history: packets that changed after the save under way had copied them |

A byte is two bits, one byte stands for the 8 kB of a bank in one chip, and an address is its high
byte. Banks without a packet in the file are part of the flash, but there is no place in the file to
save them to ("simply go through and replace bank contents", `crt.cpp` 445): what is written there is
not promised to anybody. An image that was launched from memory has no file at all; a save of it ends
in a panic (`halted`).

Assumed: the card works; a reset lasts longer than the three cycles the handler wants to see; and
`OffCount` rounds of the main loop take longer than a cycle (the guard of `ReadCount`): a C64 that is
on always clears the count in time.

### CRTFile: reading an image and writing it back

`parseCRTInMemory` and `writeChanges2CRTFile` (`crt.cpp`) each go through the packets of a file with a
cursor of their own. `EasyFlash` has the second of them step by step against the FIQ handler; `CRTFile` has
both of them against the file, with the C64 off while the file is patched.

| model | code |
|---|---|
| `ReadChip` with `ReadLow`, `ReadHigh`, `ReadLowOnly` | the loop of `parseCRTInMemory` (303-438) |
| `Launch`, `ReadEnd`, `HasEapi` | its beginning and end, and the replacement of the EAPI (`kernel_ef.cpp` 487-516) |
| `PatchChip` with `PatchLow`, `PatchHigh` | the loop of `writeChanges2CRTFile` (526-607) |
| `BeginSave`, `CreateFile`, `WriteFile` | reading the file, `FA_CREATE_ALWAYS`, writing it |
| `PlaceAt`, `At`, `Image` | what a file means: where the C64 sees which part of which packet, written without a cursor |
| `image`, `saved`, `layout` | history: the expected flash, the same at the last save, the file as it was |

A file is a sequence of cells, each a header or 4 kB, so that a cursor that is off by a packet or half of one reads
data as a header, as the code does. The types of cartridge are three: EasyFlash, those that only use the
low bank, and all others. The permutation of the bytes in a chip is the same for both sides and left out. The flash is
not erased before a file is read; the EAPI of the image is replaced, and saved with it. Power may fail at any step;
only between `CreateFile` and `WriteFile` is the file lost.

### GMOD2: a serial EEPROM

The one cartridge beside the EasyFlash that keeps what a program writes. `chip` is the state of `m93c86.cpp`, and
`readData`, `writeSelect`, `writeClock` its functions, with `ShiftIn`, `AddressIn`, `WordIn` for what happens at the third,
fifth, thirteenth and twenty-ninth bit; `ProgramWrites`, `ProgramReads`, `GMOD2ResetCycle` are the handler
(`kernel_ef.cpp` 880-963); `TestForJump` and `LooksOff` the two places where the main loop calls `writeFile`
(`BeginWriteFile` to `Close`); `Launch` is `KernelEFRun` up to its loop. The program on the C64 is external: for a call it makes
the accesses that the chip's comments ask for, with the clock low before it deselects. It is a state machine of its own:
`step` is its next access (`Written` says which, `AfterWrite` what follows), `clocked` how many of the `CommandBits` of its `call` it has sent,
`got` and `polled` what it has read. `want` is history: the
EEPROM as the program has reason to expect it. An address, like a word, is a sequence of bits, so that nothing has
to be computed from one. The saving copies one half after the other into a buffer; the file is whole when it is closed (`Close`).

The static variables of the chip outlive a reset, a launch and the kernel. `stale` notes that a call was cut in a way
that matters: while the clock was high. The promise excepts two more states: before the first launch the chip is empty, whatever the
file holds (`ff`), and the erasing of a word has no end to be polled for (`BusyOnce`). Assumed, as for the EasyFlash: a reset lasts longer than three cycles, and only a C64 that is off
lets the loop go round 10000 times.

### RamKernel: launching a program, and the GeoRAM

`kernel_rkl.cpp` first serves a loader, then is a GeoRAM. The loader's actions (`High` to `Disable`)
follow the assembly of `C64Side/cart.a`, or `cart_ultimax.a` when the KERNAL is replaced (`hasKernal`),
access by access; the split of a program at `$A000` (`SizeBelow`, `SizeAbove`) keeps the width of its
unsigned arithmetic; bytes beyond the file are `Junk`. `Button`, `CountDown`, `ResetCycle` are the FIQ
handler; `BeginSave`, `SavePage`, `EndSave` are the saving of the image by the main loop, page by page,
while the handler goes on. A reset at any point starts the loader again, with the registers of the
transfer as they were. The loader stores with the I/O area mapped (`StoreByte`): there a byte goes to the chips instead of the RAM, in
IO1 it restarts the transfer, and at `$DF00` it may switch the cartridge off under the loader (`crashed`).

### SIDPlayer and SIDKernel: a ring buffer between an interrupt and a synthesiser

`SIDPlayer` is the abstract specification: a clock, the cycles the emulation has come to, and a queue
of pending writes; each write is applied exactly at its cycle. `SIDKernel` is the code: read and
write indices of the ring buffer, the time stamps in its slots, the chunks the emulation is cut into,
and the non-atomic restart after a reset (`StartClock`, `Start`, `PrepareReset`, `Restart`).
`PlaysAtTheirCycle` is the refinement: `pending` is what is between the two indices while the kernel
plays, and there is nothing before and after. The ring buffer has no check for being full, so that the
abstract player says what happens: the write that fills it up empties it. `overflown` is history: it says so until the emulation starts anew.

The C64 is held in reset by the user (`resetLow`) or by the latch (`latchReset`): a program that plays a PSID asks for that with two writes
(`CodeCycle`). The main loop's other write of the latch, which may undo it, is allowed at every round of the loop, more often than the code has it.

### Latch: the output latch and the display queue

`LoadCount`/`putI2CCommand` and `LoadLatch`/`StoreLatch` are the two halves of a read-modify-write of
the main loop (`latch.h` 126-180, 298-310), `LatchCycle` the FIQ handler (`prepareOutputLatch` and
`outputLatch`), which takes one command, skips those that change nothing, and starts both counts
anew when there is none. An OLED gets whole frames with a handshake (`renderDone`), a TFT gets
regions whenever the queue is empty. `shown` is what the display has clocked in, `raced` which of the
two kinds of read-modify-write the handler has come into.

### Freezer: four cartridges that recognise an NMI by counting writes

One module for Action Replay, Final Cartridge III, KCS Power Cartridge and Super Snapshot 5, whose
handlers differ in a few places (`type`). A cycle of the processor is one of eight kinds of access
(`cpu.todo`); `Decode` is the processor that takes the next instruction, an interrupt, or an NMI when
an edge is latched. `Counted`, `Registered`, `Pressed`, `Frozen` are what the handlers do in a cycle,
composed by `ServeCycle`, `PressCycle`, `FreezeCycle`, `QuietCycle`; `callbackReset` is `initAR` etc.,
statement by statement. The models show differences that matter: three of the cartridges restart the
count at the press, the Action Replay does not; `initAR` does not raise NMI; KCS and Super Snapshot go to
Ultimax mode with the press, under whatever program runs; a button that is held is accepted again after 500000 cycles. `Served` tells which
reads the ROM answers: an Action Replay and a Super Snapshot only while they are active, whatever the lines say. The count of writes stops at `Many`, a
bound of the model (the code counts on).

## 3. Runs

| run | shows |
|---|---|
| `menu` (`MCMenuBus.cfg`) | without network: the kernel, its client and the bus implement `MenuService` (`ServesMenu`: what a waiting client shows is the page drawn last, whole); no key is lost or handled twice, through resets of both kinds; detection reports the wires that are there; the KERNAL is away only in the window named above (`NeverJammed`); under fairness every key is handled and the C64 always gets its bus back (`NobodyWaits`) |
| `menu_net` (`MCMenuBusNet.cfg`) | what remains with the network code: halting as long as it should and no longer (`Halting`); nothing is served while a page is drawn, and NMI is released (`RefreshInOrder`) |
| `net` (`MCSidekickNet.cfg`) | with WLAN (the main task yields in every pass): a payload that has the buffer for itself is launched by the kernel for its type and saved under its own name (`SoloPayload`); a typed key is sent, and not replaced by a refresh (`UserKeyKept`); uploads get launched, reboots happen, attempts to connect end, no key stays in the queue, unless the launcher serves a SwiftLink cable (`RequestsEnd`) |
| `net_hang` | violation: the browser hangs on an error text |
| `ef` (`MCEasyFlash.cfg`) | commands stay in step with the driver across resets and power cycles and do what the driver documents; all that is written before the last save copies it is in the file; a C64 that stays off gets its image saved and every call returns (`EverythingEnds`) |
| `swift` (`MCSwiftLink.cfg`) | both byte streams arrive in order, each byte once (`StreamsInOrder`), but for bytes of value 0 and one race named below; no halt of the C64 lasts, and a byte that is offered with an NMI gets read (`NobodyWaits`) |
| `ram` (`MCRamKernel.cfg`) | a program that the loaders can cope with (`Loadable`) starts whole, after resets too, and none of them crashes the loader; the GeoRAM is saved as it was at one time, and nothing but raced writes is missing in it (`GeoRAMSaved`); the halted C64 and the loader get on (`NobodyWaits`) |
| `sid` (`MCSIDKernel.cfg`) | the kernel implements `SIDPlayer`; what is written is applied at last, unless the ring has filled up; a reset, by the user or by a PSID, takes effect (`NothingPends`) |
| `latch` (`MCLatch.cfg`) | the display clocks in the bits of a frame, unless the handler came into one of the two races; a frame that was drawn gets output, and completely (`FramesGetOutput`) |
| `freezer` (`MCFreezer.cfg`) | the handler's flag for Ultimax mode agrees with the lines, and the vector of the button's NMI comes from the freezer (`MemoryServed`); the freeze is completed only while the processor enters that NMI, an Action Replay or Final Cartridge exchanges the memory only then or by a register, and every press leads to it (`FreezesOnPress`) |
| `crt` (`MCCRTFile.cfg`) | the flash of a running cartridge is what the C64 sees of the file, and what was written since, also after saves, power cuts and reading again (`FlashIsImage`); a save leaves every packet where it was, and a file that could be read can be read again (`FileIsWhole`) |
| `gmod2` (`MCGMOD2.cfg`) | each call to the EEPROM does what it should, at its last bit, nothing else changes it, what is read is what was written, and a write is busy once (`CallsHaveEffect`); who goes to the menu has the EEPROM saved; a program that polls goes on, and a C64 that stays off gets its EEPROM saved (`EverythingEnds`) |

Properties that have two sides are one formula with named parts: `Halting` is `HaltArmed`
and `HaltedWhileHandled`, `NobodyWaits` two leads-to formulas, and so on; the parts are defined next to it.

**Bounds.** Every bound is a constant with a name.
`menu`: two keys and two pages (enough to tell an old from a new one), two cells (a
transfer can be cut between them), a countdown of 3 with bursts of 2 (the burst is
shorter than the countdown, as in the code: `NUM_DMA_CYCLES` is 10 and the burst a few
nanoseconds). `menu_net`: one key, one page and one cell, and no wires, because its properties do not compare
keys or pages nor look at the detection; a countdown of 2 with bursts of 1. `net`: one type of payload, for the EasyFlash kernel,
while the upload page and the local files are programs for the launcher, so that a stale type makes a difference (an upload and a download are told apart), one key, a refresh
timeout of one tick, so that the liveness graph stays small; in the model the refresh timer stops one past the timeout, where the code only
compares it. `net_hang`: two types and a timeout of 0 as well. `ef`: four banks in
two sectors, a file with two packets in different sectors and chips, two calls of the driver (one whose
effect is being saved, one that comes in between), erasing of a sector, of a bank that begins none and
of one that does not exist; 1 round stands for the 10000 and 2 cycles for `NUM_DMA_CYCLES`. `swift`: a
command of two characters that dials with a byte for the remote end behind it, and one that is edited; one
byte from the remote end, which may be a zero; one disturbance (a reset or an upload); delays of 1,
`NMIDelay` 2 so that it is a delay at all; no WLAN, which has one delay more. `ram`: pages of 3 bytes in a memory of 34, the system area and the staging below and from 7, the split at 23, the I/O area from
26 to 29, and all programs of chosen addresses and sizes around each of the boundaries (page, split, I/O area, end of memory); one reset,
one press, one write, two pages of GeoRAM (one that has been copied, one that has not). `sid`: three slots and three
writes, so that the buffer overflows, chunks of up to three cycles, a clock of five; one reset, short or long.
`latch`: seven slots and frames of two bits, whose six commands fill it; a second frame, and one
change of the latch by the main loop. `freezer`: one reset; instructions and interrupts are unbounded, the count of
writes stops at 4 (it is compared with 3), and the reset counter has the four values that are told apart.
`crt`: two banks, and all files of one or two packets (a packet and one behind it, for the same place or another), of 4, 8 and
16 kB (`MaxPackets` also bounds the length of the files, `MaxCells`); two writes and a power cut, so that a file is saved twice or read again after a save. EasyFlash images
have packets of 8 and 16 kB, as usual ones have (see below for others).
`gmod2`: addresses of 3 bits, so that the fifth bit of a command is not its last (10 in the chip), words of 2;
three calls (such as enable, write, read) out of the seven commands, addresses in both halves, among them the last one, behind which reading
goes on with the first, and one reset or power cut.
The counters of `MenuBus` need no bound: the code bounds them itself.

**Deadlock.** The `menu` runs check it. In the others the system ends: with a reboot, a return to the
menu, a panic, or because the bounded program and user have done all they can.

**Fairness.** The main loop executes, the 6510 executes while it is not halted, a cycle of the C64 raises its
interrupt: these are clocks, not choices, so weak fairness of each is what the hardware does. Nobody
owes a key, a button, a reset, an upload or a byte. In particular:
`MenuBus`: also the VIC fetches; no interrupt and no reset is owed, so that after a crash the properties promise what the main loop alone does. `SidekickNet`: every request is answered or fails (Circle's
HTTP client has timeouts), the loop counts up to its periodic pass, and the reboot
timer expires; `RebootHappens` and `ConnectEnds` exclude a user who repeats the request
forever, since each repetition starts the wait again. The launcher counts `netDelay` down to its look at the requests only as long as no SwiftLink cable is
unlocked (`NetDelayCounts`, `kernel_launch.cpp` 307-342); from then on it looks only when the program on the C64 talks to its modem (`SwiftLinkPass`), which
is not fair. `RequestsEnd` excepts this (`Unattended`). `EasyFlash`: the main loop spins (interrupts are
masked but pending, so that `wfi` does not wait). `SwiftLink`: an NMI that is pending is taken, and a
terminal that has begun to look for a byte goes on; the remote end owes nothing, so `HaltEnds` excepts a
launcher that waits in its first receive. `RamKernel`: the loader runs, and nobody holds
reset for ever. `SIDKernel`: a loader that is not disturbed comes to its end. `Latch`: the visualisation
need not draw, but what it has drawn is put. `Freezer`: the processor goes on. `GMOD2`: the program, the reset and the main loop go on.

### What the models show that is no run

Some things the code does contradict no text of the repository, or leave nothing to be stated. They are in the
models, and excused in the properties where these would otherwise fail:

* Network build: a key that is sent while a timed refresh renders with the FIQ disabled is lost
  (`kernel_menu.cpp` 759; hence `NoKeyLost` is a property of `menu` only).
* Network build: a refresh may also come while the C64 copies the screen. Its reads are not served while the page is drawn, and what it has
  copied is of two pages until it copies again (`ServesMenu` is a property of `menu` only).
* An interrupt or a reset of the C64 between the two stores of `wireDetection` finds no KERNAL, and the C64 crashes; `latchSetClear` of the main loop may
  undo either store's effect on the latch (`latch.h` 134-138): then the KERNAL stays away after the detection until the next one, or comes back in the middle of it.
* After a launch from the BASIC prompt `disableCart` is still set, and the menu waits with the FIQ disabled for
  a button only the FIQ handler can see (635).
* Two payloads that overlap in time may be mixed: the name of one with the bytes of the other; a
  download that is not to be stored is dropped if another answer arrives first. `SoloPayload` is what is left.
* A download that is given up, or is not to be stored, leaves its name and extension (`net.cpp` 1049-1050, 1202-1208), and opening the
  upload page does not reset them (1606-1616): its program is then launched by the kernel for that extension (748), such as the EasyFlash's for
  a `.prg`. `SoloPayload` excepts exactly this (`NameLeft`).
* With a SwiftLink cable unlocked, a request for a return or a reboot may stand as long as the program on the C64 does not use the modem.
* A request to return to the menu that was made at the BASIC prompt ends the next program.
* The EAPI answers OK to a write that would need a bit to go from 0 to 1.
* SwiftLink: a byte the terminal writes between the main loop's test and its emptying of the buffer is lost
  (`net.cpp` 1671), and bytes of value 0 never reach it. After a reset with the SwiftLink enabled the
  launch code is not served.
* SID: the release of a reset during the delay of the start-up is forgotten. A ring buffer that overflows looks empty (1559), and the writes in it are lost:
  the player says so, and `NothingPends` excepts it.
* Latch: the main loop may write back a latch the handler has changed (`latch.h` 136), or a count it has
  reset (170, 303).
* Programs around `$A000` (`kernel_rkl.cpp` 250, `kernel_launch.cpp` 200): `cart_ultimax.a` asks only for the part below, so
  that with a replaced KERNAL a longer program is cut off and started; a program that begins at `$A000` has no page
  below it, and both loaders, which count down before they test, then copy 256 pages; the size above counts the two bytes of the load
  address, so that its last page may wrap behind `$FFFF`. A program from above `$A000` is stored where it goes with `$01` as `$37` (`cart.a` 213-224):
  what reaches `$D000`-`$DFFF` gets into the chips, restarts the transfer, or switches off the cartridge under the loader. `Loadable` says which programs are left for `ProgramWhole`.
* CRT files: a packet of an EasyFlash of less than 8 kB is read (`crt.cpp` 371-432), but a save puts 8 kB there
  (556-601): over the header of the next packet. `Shapes` of the run has none for the types that are saved.
* GMOD2: a reset while the clock is high spoils the next instruction. The handler passes the clock on only while the EEPROM is
  selected and does not deselect it on reset (`kernel_ef.cpp` 932-958); `m93c86.cpp` (130) then keeps the bits of the
  cut instruction. This is `stale`. After the erasing of a word the chip is never busy nor ready (135-139 have no
  `CMDERASE`): `BusyOnce` and `CallsEnd` except it. While the C64 is off its file is written in every round, modified
  or not (751-760).
* GMOD2: writing is enabled until a program disables it, also after a power cycle of the C64, and a write that is not enabled
  never gets ready.
* Action Replay: a reset during a freeze leaves NMI low, so that the next press makes no edge.
* Super Snapshot: a press switches it on; a program that switches it off again before the processor takes the NMI (`kernel_ssnap5.cpp` 342) is
  frozen all the same (393-399), with the lines in Ultimax mode and nobody to answer the vector. `MemoryServed` excepts it.

## 4. Proofs

Proved by TLAPS, for every value of the constants that satisfies the named assumptions of the modules.

Each invariant that a run checks is strengthened until every step keeps it; the strengthened ones
were model-checked before they were proved. `TLC` shows them on the bounds of section 3, the theorems
for all.

### MenuBusProofs

Assumed (`MenuBus.tla`): the two build switches are Boolean, `NoKey` is not a key, the screen has a cell, and a
burst is shorter than the DMA countdown.

`TypeCorrect` needs one more fact to be inductive: a cell is left while a transfer is under way (`CellLeft`). Then
`HandshakeInv`: in which places of the main loop the FIQ is disabled, which places imply that the client's
request is still standing, and that a countdown that runs between the two stores that end a request cannot
end before the second of them (this is the timing assumption). From it follow, for both builds,
`HaltIsArmed`, `RequestHalts` and both together, `HaltsAsItShould`; `RenderingIsExclusive` and
`NMIIsReleased`, and both together, `RefreshesInOrder` (it does not say what a client sees that copies meanwhile). For the build without network `NoNetInv` adds who waits for whom and which key is owed,
and `ScreenInv` how much of which page has been copied; from them come `NoKeyIsLost`,
`KeysAreHandledOnce`, `ScreenIsFresh` and `ClientNeverJams`. `DetectionInv` says what each access of the wire detection
finds of the one before it, and that the result stays until the main loop looks at it: with a key waiting the handler returns
at once, so that no later cycle is counted (`DetectionIsRight`). Each layer is proved with the help of those before it.

`KernelServesMenu` is the refinement: without network every step of kernel, client and bus is a step of `MenuService`, or none.
Most change neither screen nor key; `Show` is the injected call behind a transfer (`CallInjected`), after which the client polls for keys: all cells are copied (`ScreenInv`) and the
key has been handled (`NoNetInv`). `Answer` is the main loop's `Handle`, `Restart` a reset or the NMI. `ClientInv` adds that the
dummy keypresses of the start, which carry no key, are over when the user can type.

### EasyFlashProofs

Assumed (`EasyFlash.tla`): there are banks, sectors are whole numbers of banks, packets of the file lie in banks that exist, and
contents, programs and counts are what their names say.

The types are not inductive: only bytes get into the flash because the handler counts the bytes of a command
exactly as the driver does. `InStep` says so: a C64 that does not run has no call; a handler that has seen
the reset is between commands; while the driver sets its bank, nothing has been sent. Hence `TypeCorrect` and
`DriverStaysInStep`. `NothingElseLost` rests on `LossInv`: a flash that is not in the file has the
"modified" flag set or a save under way, and what this save has copied is current but for `missed`.
`CommandsHaveEffect` rests on `BankSet` (the bank register is the driver's bank) and on lemmas of division
that relate a bank to its sector.

### RingProofs

The two rings between the FIQ handler and a main loop: `SIDKernel`, where the handler writes and the main loop reads,
and `Latch`, where it is the other way round. They share nothing; the names of each are such that one module can extend both.

Of the abstract player, and then of the kernel: waiting writes are in ascending order, none is overdue, and each is applied at its cycle
(`PlayerInvariant`, `NoWriteOverdue`, `AppliedAtItsCycle`), for a buffer of any size.

The kernel implements it (`KernelImplementsPlayer`), from `RingAssumption`: sizes and bounds are
numbers, the ring has a slot, and a chunk a cycle. Lemmas without division say what is between the indices and
that a write appends (`WriteAppends`) and an application takes the head (`ApplyTakesHead`). The emulation
does not pass a write because none is due when a chunk begins (`NoneDue`) and the cycle the main loop has
read is in the past (`KnownCycles`): what the handler writes meanwhile is later. As each step of the kernel is one
of the player, or none, the player's own invariant is instantiated and used for the kernel's: that the head of the
ring has not been passed, and that the writes are in ascending order, is proved once.

Of the latch is assumed (`Latch.tla`): the ring has a slot, a frame with its three commands for each bit fits in it with a slot to spare,
and the two displays are different.

`Queue`: the commands between the two indices and those the main loop has left are together the rest of the frame. `LinesOLED` and
`LinesTFT`: how many commands have been taken says what is on SDA and SCL, and which bits the display has clocked in.
The two differ in what the handler skips: for the OLED an SDA equal to the last one it was given, for the TFT whatever changes
nothing; a rising SCL is never among what is skipped, so that the handler does not get past a bit. `OrderOK` holds as long as nothing has raced;
a raced count (only a TFT's) or latch ends what can be promised. Hence `BitsStayInOrder` and `FramesAreWhole`, which are the two safety parts of
`FramesGetOutput`, and `LatchTypeCorrect`.

### CartridgeProofs

`RamKernel` and `Freezer`, one after the other, which share nothing either.

Assumed for the first (`RamKernel.tla`): the memory map (`MemoryAssumption`: there is a page, the zero page and more lie below the
programs, the staged part with a page to spare lies below the split, and the arithmetic of the code is
wide enough for two memories; the I/O area lies in it, above the split by a page at least, `IOAssumption`), programs in the memory with at least one byte behind their load address, a GeoRAM of at
least one page.

`TransferInv` says for each place of the loader what the registers hold: which byte comes next, how many pages
have been asked for, what is staged. It is needed because a byte is fetched an access before it is read, and because a
reset leaves the registers as they are: whatever they are, `Start` sets them. `PlacedInv` says which bytes are in
their place, the upper part first, and that the lower part, copied in whole pages, does not damage it: its last page may
reach beyond the part, but what it writes there are the bytes of the file that belong there. A program that is `Loadable` never has its low part in the I/O area, so that
no store restarts the transfer. From the two follow
`TypeCorrect` (the offset is in the buffer because the pages are) and `ProgramStartsWhole`. `SaveInv` says that pages
that have been copied are those of the GeoRAM or raced, and that the DMA line is low from the press to the end of the
saving; hence `GeoRAMIsSaved`. Lemmas on remainders (`NoWrap`, `PagesCover`) and on the split (`SplitFacts`) carry the arithmetic,
among it the unsigned one of `SizeBelow` and `SizeAbove`.

For the freezers only the number of resets is assumed to be a number (`ResetsAssumption`). `FreezerInv` says that the processor is at one of
the cycles of an instruction, with at most two writes left, or of the entry of an interrupt (`Processor`), and that the handler has
counted the writes it has seen in a row (`InARow`). A press starts the count anew, or finds what an Action Replay had counted; so until
the processor takes the NMI the count is below three (`BeforeEntry`), then each push adds one (`InEntry`), and the freeze comes with the third, before the vector is
read. The NMI is not lost on the way: the line stays low (Action Replay, Final Cartridge), or is driven high all the time
and makes no other edge (`LineLow`). The flag for Ultimax mode is set together with the lines by every operation, and by the statements of an
initialisation one after the other (`ModeKept`). Hence `FreezerTypes`, `MemoryIsServed` and `FreezesOnlyAtEntry`, which is
the safety part of `FreezesOnPress`: the freeze is completed only at a push; that KCS and Super Snapshot switch to Ultimax mode at the press is not excluded.

### GMOD2Proofs

Assumed (`GMOD2.tla`): an address has more than two bits, a word more than one, and the calls have one of the seven operations, an address and a word.

A chip that gets one bit at a time holds nothing that could be compared with a call before its last bit. `CallInv` therefore says
what each access finds: while a call is sent, the shift register has exactly the bits the program has sent, and the command
is what these say after the third and the fifth of them (`Sending`, `Heard`); while a word is read, the number of bits that were asked for says
at which word the chip is, and where in it (`Receiving`, `At`); a write that was deselected is busy, then ready, each for one
read (`Ending`, `Polling`); and between calls nothing of the last one is left that would get into the next (`Quiet`). With it, the chip stores what
the program wants, and both change with the same bit (`BitTaken`). A reset or a power cut comes between any two accesses: the next
call selects the chip with the clock low, which clears the register, unless the call was cut with the clock high (`stale`, after which only the
types are promised). Hence `GMOD2TypeCorrect`, where the bound on the shift register needs that no bit is taken behind the longest command,
and `CallsDoWhatTheySay`. `EEPROMIsSaved` does not depend on what the calls mean: `SavingInv` says that the half, and then the whole,
that a save has copied is the EEPROM, unless a write raced with it.

TLC showed `CallInv` to be an invariant for two calls and two disturbances before it was proved. It found two states that the
property had not thought of, both beyond the bounds of the run: a loss of power before a launch (the chip is
empty, the file is not), and what an erased word leaves to be polled.

### SwiftLinkProofs

Assumed (`SwiftLink.tla`): bounds and delays are numbers, and the script consists of kinds of bytes.

`InOK`: what the terminal is still owed is the byte that is offered followed by what is unread in the input buffer. `OutOK`: the
same for the modem and the output buffer, but for the bytes that the one race loses; in the middle of the emptying
(`emptyLength`, `emptyPos`) the position may be behind the end of the buffer, and nowhere else. Most actions leave all buffers alone;
they are treated together (`Quiet`). Hence `StreamsStayInOrder` and `TypeCorrect`.

### CRTFileProofs

Assumed (`CRTFile.tla`): there are banks, and the packets of each type of file are those that the two passes are
written for (`ShapesAssumption`): of an EasyFlash 8 kB or, at `$8000`, 16 kB; of others, which are only read, also 4 kB,
`$B000` and `$F000` being second halves. Other lengths exist in `crt.cpp` only in so far as its cursor gets lost.

Files are all sequences of packets one behind the other (`FillsFile` says it of each header, without recursion, so that
nothing has to be proved by induction). The argument is the same for both passes: the cursor is at a header or at the end
(`AtHeader`), and of the positions before it the flash (`ParseOK`), or the copy (`PatchOK`), has what it should. A later
packet hides an earlier one at the same place, so that `ParseOK` speaks of the last position seen (`IsLast`), while in
`PatchOK` all of them get the contents of the flash. `SavedOK` is what a power cut needs: an image that is not modified is the
saved one, but for the EAPI that is replaced on every reading. Hence `FlashHoldsImage`, `FileStaysWhole` and `TypeCorrect`.

### SidekickNetProofs

Assumed (`SidekickNet.tla`): the key of a refresh is none of the user's, refresh times are numbers, and a payload can be told from
the local file, from the upload page and from none (`PayloadsAssumption`). The theorems hold for all file types and refresh times, also for a time of 0 and
for several types together, which the run leaves out. `LaunchesByName` says that the kernel is that of the name.

`TypeCorrect` is inductive with its groups of variables taken one by one. `SoloInv` says, as long as no two payloads have been on their way at the same
time, that there is at most one, that a download is at one stage only (requested, ready, to be saved, to be launched), and that name, path and buffer are its own from the
stage on that sets them. It is needed because the stages are flags that different tasks set in different passes: `PayloadIsItself` looks only at the last two
of them. `KeyInv` says that the network is not lost, that an address stays on the screen until its download is fetched, and that a key which still waits
when the screen is drawn waits for such a download. Hence `TypedKeyIsKept`: a refresh is queued only by drawing a page, without
a look at the queue (`net.cpp` 726-740), and while a key of the user waits no page is drawn.

### Only model-checked

Liveness: `NobodyWaits`, `EverythingEnds`, `RequestsEnd`, `NothingPends`, that a press leads to a freeze (in `FreezesOnPress`), `FrameEnds` (the third part of
`FramesGetOutput`) and the others; the prover has no rule for fairness and ENABLED.
Every safety property of a run is proved; `FrameShown` and `FrameWhole`, and `FreezesOnlyAtEntry`, are the safety parts of properties whose other part is liveness.

## 5. Plan

Done: the modules of section 2 with their runs, and the proofs of section 4. Next, in this order:

1. An abstract flash chip that `EasyFlash` implements, and two queues that `SwiftLink` implements.
2. The other cartridges of `kernel_ef.cpp`.
3. The cursor of the browser and of the menu pages (`handleC64` with its data), the settings.
4. The Sidekick264 kernels.

## 6. Not modelled

* Sound synthesis and graphics: numerical, output only.
* SD card and Circle internals: outside of the repository.
* Vendored code (reSID, psid64, disk2easyflash, FM and SoundFont synthesis, the OLED driver): more
  than half of the lines of `src/`, and not this project's logic. The share of lines the models
  stand for is small for that reason, and because pictures, fonts and tables of the boards are sources too.
* Key translation, menu layout, settings and directory scan: data and sequential file reading.
* Generic and C128 cartridges and the KERNAL replacement: a read is answered from a fixed image, with no
  state that two parties share. The C128 loader is a variant of the modelled one.
* `kernel_georam.cpp` (the GeoRAM of `RamKernel` without a launcher), `kernel_sid8.cpp` and
  `kernel_sid264.cpp` (variants of the modelled loop); a GeoRAM of size 0.
* The flush functions of the latch, which run with the FIQ disabled, and its pacing.
* The memory configuration of the EasyFlash, reads of its ROM and the handlers of the other CRT types of `kernel_ef.cpp`
  (of their files, `CRTFile` has the reading). The caps of the size of a CRT file, and `checkCRTFile`.
* Sidekick264: a second machine of the same structure.
* Analogue timing of the bus, beyond the ordering assumptions named above, and
  undefined behaviour of the page buffer that `updateSktpScreenContent` leaves on its stack.
