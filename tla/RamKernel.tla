------------------------------ MODULE RamKernel ------------------------------
(***************************************************************************)
(* The GeoRAM kernel (kernel_rkl.cpp): it launches a program, which a      *)
(* loader in the cartridge ROM (C64Side/cart.a, with a replaced KERNAL     *)
(* cart_ultimax.a) fetches byte by byte through IO1, and is a GeoRAM from  *)
(* then on, whose image the main loop saves when the button is pressed and *)
(* when the C64 is held in reset for the menu.  The other kernels launch   *)
(* programs with the same code (kernel_launch.cpp, launch.h).              *)
(*                                                                         *)
(* A byte of the program is its index in the file.  The bytes the buffer   *)
(* holds beyond the file are Junk.                                         *)
(***************************************************************************)
EXTENDS Naturals

CONSTANTS
  Page,           \* bytes of a page (256)
  MemSize,        \* bytes the C64 can address (65536)
  SplitAddr,      \* $a000, from which on the BASIC ROM lies over the RAM
  StageAddr,      \* $2000, where the loader puts what belongs above
  SystemTop,      \* the zero page, the stack and the loader lie below it
  IOBase, IO1Base, IO2Base, IOEnd,  \* $d000, $de00, $df00, $e000
  U32,            \* 2^32
  Programs,       \* bound: programs to launch, a load address and a file size
  GeoPages,       \* pages of the GeoRAM
  DMACycles,      \* NUM_DMA_CYCLES
  MaxResets, MaxPresses, MaxWrites  \* bounds: what the user and the program do

ASSUME MemoryAssumption ==
  /\ {Page, MemSize, SplitAddr, StageAddr, SystemTop, U32} \subseteq Nat
  /\ 0 < Page /\ Page + 3 < SystemTop /\ SystemTop <= StageAddr
  /\ StageAddr + (MemSize - SplitAddr) + Page + 2 <= SplitAddr
  /\ SplitAddr < MemSize /\ 2 * MemSize < U32
ASSUME IOAssumption ==
  /\ {IOBase, IO1Base, IO2Base, IOEnd} \subseteq Nat
  /\ SplitAddr + Page <= IOBase /\ IOBase <= IO1Base /\ IO1Base + 2 < IO2Base
  /\ IO2Base < IOEnd /\ IOEnd <= MemSize
ASSUME ProgramsAssumption ==
  \A p \in Programs :
    /\ p.start \in SystemTop .. MemSize - 1 /\ p.size \in Nat
    /\ p.size > 2 /\ p.start + p.size - 2 <= MemSize
ASSUME GeoAssumption ==
  /\ GeoPages \in Nat \ {0} /\ DMACycles \in Nat \ {0}
  /\ {MaxResets, MaxPresses, MaxWrites} \subseteq Nat

VARIABLES
  prog,             \* the program to launch, if there is one
  hasKernal,        \* the KERNAL is replaced: the loader of cart_ultimax.a
  \* the FIQ handler's
  attached,         \* it is connected
  disableCart, currentOfs, transferPart,
  fetched,          \* forceReadLaunch
  reg,              \* registers of the GeoRAM: the selected page
  geo,              \* pages of the GeoRAM
  saveRAM, releaseDMA, dmaLow,
  \* the main loop's
  pc,               \* wait, button, exit, gone
  copied,           \* pages that have been copied into the file
  image, file,      \* the file as it is being written, and the last one written
  \* the C64
  reset,            \* no, short, seen, long
  loader,           \* what it executes
  pages, dest, count, mem,
  \* bounds and history
  resets, presses, writes,
  racy,             \* pages written after they were copied by a save
  disturbed         \* a reset has released DMA since the save was asked for

choiceVars == <<prog, hasKernal>>
transferVars == <<currentOfs, transferPart, fetched>>
dmaVars == <<saveRAM, releaseDMA, dmaLow>>
geoVars == <<reg, geo, writes, racy>>
saveVars == <<pc, copied, image, file>>
c64Vars == <<reset, loader, pages, dest, count, mem>>
vars == <<choiceVars, attached, disableCart, transferVars, geoVars, dmaVars, saveVars,
          c64Vars, resets, presses, disturbed>>

Junk == MemSize                        \* no index of a file
Empty == MemSize + 1                   \* RAM the loader has not written
NoAddress == MemSize
NoProgram == [start |-> 0, size |-> 0]
launchPrg == prog # NoProgram
----------------------------------------------------------------------------
(* How the program is split *)

\* u32 arithmetic; the load address of what follows the two bytes of it
SizeBelow(p) ==
  LET below == (SplitAddr + U32 - p.start) % U32 IN
  IF below > p.size - 2 THEN p.size - 2 ELSE below

\* (the size of a file includes its load address)
SizeAbove(p) ==
  IF (SplitAddr + U32 - p.start) % U32 > p.size - 2 THEN 0 ELSE p.size - SizeBelow(p)

\* Mutant: a page that is not full is not counted
FullPages(n) == n \div Page

PagesOf(n) == (n + Page - 1) \div Page

PagesFit(n) == n * Page <= MemSize

PrgData(i) == IF i < prog.size THEN i ELSE Junk
----------------------------------------------------------------------------
(* The C64: the loader and the program it has loaded *)

Runs == reset = "no" /\ ~dmaLow
LaunchServed == attached /\ launchPrg /\ ~disableCart
GeoServed == attached /\ (launchPrg => disableCart)

\* the transfer is (re)started by a write to IO1
Start(part) ==
  /\ transferPart' = part
  /\ currentOfs' = IF part = 1 THEN SizeBelow(prog) + 2 ELSE 0
  /\ fetched' = PrgData(currentOfs')

\* $DE01 is the number of pages of the part, $DE00 the byte fetched last time
ReadPages ==
  /\ pages' = PagesOf(IF transferPart = 1 THEN SizeAbove(prog) ELSE SizeBelow(prog))
  /\ fetched' = PrgData(currentOfs)
  /\ UNCHANGED <<currentOfs, transferPart>>
ReadByte ==
  /\ currentOfs' = currentOfs + 1
  /\ fetched' = PrgData(currentOfs')
  /\ UNCHANGED transferPart

LoaderStep(from) ==
  /\ LaunchServed /\ Runs /\ loader = from
  /\ UNCHANGED <<choiceVars, attached, geoVars, dmaVars, saveVars, reset, resets, presses,
                 disturbed>>

\* the C64 boots: the ROM of the cartridge, or BASIC and the program on its own
Boot ==
  /\ loader = "boot" /\ Runs /\ attached
  /\ loader' = IF ~launchPrg THEN "run" ELSE IF hasKernal THEN "low" ELSE "high"
  /\ UNCHANGED <<choiceVars, attached, disableCart, transferVars, geoVars, dmaVars, saveVars,
                 reset, pages, dest, count, mem, resets, presses, disturbed>>

High ==
  /\ LoaderStep("high")
  /\ Start(1)
  /\ loader' = "highPages"
  /\ UNCHANGED <<disableCart, pages, dest, count, mem>>

HighPages ==
  /\ LoaderStep("highPages")
  /\ ReadPages
  /\ count' = 0
  /\ loader' = IF pages' = 0 THEN "low" ELSE "stage"
  /\ UNCHANGED <<disableCart, dest, mem>>

Stage ==
  /\ LoaderStep("stage")
  /\ ReadByte
  /\ mem' = [mem EXCEPT ![StageAddr + count] = fetched]
  /\ count' = count + 1
  /\ loader' = IF count' = pages * Page THEN "copyHigh" ELSE "stage"
  /\ UNCHANGED <<disableCart, pages, dest>>

\* with all ROMs off; the addresses wrap at the end of the memory
CopyHigh ==
  /\ LoaderStep("copyHigh")
  /\ LET n == pages * Page IN
     /\ mem' = [a \in 0 .. MemSize - 1 |->
                  LET i == (a + MemSize - SplitAddr) % MemSize IN
                  IF i < n THEN mem[StageAddr + i] ELSE mem[a]]
     /\ loader' = IF SplitAddr + n > MemSize THEN "crashed" ELSE "low"
  /\ UNCHANGED <<disableCart, transferVars, pages, dest, count>>

Low ==
  /\ LoaderStep("low")
  /\ Start(0)
  /\ loader' = "lowPages"
  /\ UNCHANGED <<disableCart, pages, dest, count, mem>>

LowPages ==
  /\ LoaderStep("lowPages")
  /\ ReadPages
  /\ count' = 0
  /\ loader' = "addressLow"
  /\ UNCHANGED <<disableCart, dest, mem>>

AddressLow ==
  /\ LoaderStep("addressLow")
  /\ ReadByte
  /\ dest' = IF fetched = 0 THEN prog.start ELSE NoAddress
  /\ loader' = "addressHigh"
  /\ UNCHANGED <<disableCart, pages, count, mem>>

AddressHigh ==
  /\ LoaderStep("addressHigh")
  /\ ReadByte
  /\ dest' = IF fetched = 1 THEN dest ELSE NoAddress
  /\ loader' = "copy"
  /\ UNCHANGED <<disableCart, pages, count, mem>>

\* what the loader stores goes to the I/O area where that is mapped ($01 is $37):
\* in IO1 it restarts the transfer, and a byte 123 at $DF00 ends it
StoreByte(to) ==
  \/ /\ to \notin IOBase .. IOEnd - 1
     /\ ReadByte
     /\ mem' = [mem EXCEPT ![to] = fetched]
     /\ UNCHANGED disableCart
  \/ /\ to \in IO1Base .. IO2Base - 1
     /\ Start(IF to = IO1Base + 2 THEN 1 ELSE 0)
     /\ UNCHANGED <<mem, disableCart>>
  \/ /\ to \in IOBase .. IO1Base - 1 \cup IO2Base .. IOEnd - 1
     /\ ReadByte
     /\ disableCart' \in {FALSE, to = IO2Base}
     /\ UNCHANGED mem

\* the pages are counted after they are copied: 0 of them are 256
Copy ==
  /\ LoaderStep("copy")
  /\ count' = count + 1
  /\ LET to == (dest + count) % MemSize IN
     /\ StoreByte(to)
     /\ loader' = IF dest = NoAddress \/ to < SystemTop \/ disableCart' THEN "crashed"
                  ELSE IF count' = pages * Page THEN "end" ELSE "copy"
  /\ UNCHANGED <<pages, dest>>

\* the number of pages is asked for again, to set the end of the program
End ==
  /\ LoaderStep("end")
  /\ Start(0)
  /\ loader' = "disable"
  /\ UNCHANGED <<disableCart, pages, dest, count, mem>>

\* 123 is written to $DF00 and the program starts
Disable ==
  /\ LoaderStep("disable")
  /\ disableCart' = TRUE
  /\ loader' = "run"
  /\ UNCHANGED <<transferVars, pages, dest, count, mem>>

\* the program selects a page of the GeoRAM and writes to it
ProgramStep ==
  /\ GeoServed /\ Runs /\ loader = "run"
  /\ UNCHANGED <<choiceVars, attached, disableCart, transferVars, dmaVars, saveVars, c64Vars,
                 resets, presses, disturbed>>

\* Mutant: the register is not masked
SelectUnmasked ==
  /\ ProgramStep
  /\ \E d \in 0 .. GeoPages : reg' = d
  /\ UNCHANGED <<geo, writes, racy>>

\* the register is masked by the size
Select ==
  /\ ProgramStep
  /\ \E d \in 0 .. GeoPages : reg' = d % GeoPages
  /\ UNCHANGED <<geo, writes, racy>>

Saving == pc \in {"button", "exit"}

Write ==
  /\ ProgramStep /\ writes < MaxWrites
  /\ writes' = writes + 1
  /\ geo' = [geo EXCEPT ![reg] = writes']
  /\ racy' = IF Saving /\ reg < copied THEN racy \cup {reg} ELSE racy
  /\ UNCHANGED reg
----------------------------------------------------------------------------
(* The FIQ handler in any cycle *)

\* while it launches, and while it sees the reset, the handler goes no further
EveryCycle == GeoServed /\ (launchPrg => reset \in {"no", "short"})

\* a cycle with the button pressed
Button ==
  /\ EveryCycle /\ presses < MaxPresses
  /\ presses' = presses + 1
  /\ saveRAM' = TRUE
  /\ releaseDMA' = DMACycles
  /\ dmaLow' = TRUE
  /\ disturbed' = (IF saveRAM THEN disturbed ELSE FALSE)
  /\ UNCHANGED <<choiceVars, attached, disableCart, transferVars, geoVars, saveVars, c64Vars,
                 resets>>

\* Mutant: the C64 is resumed although the image is being saved
CountDownEarly ==
  /\ EveryCycle
  /\ releaseDMA > 0
  /\ releaseDMA' = releaseDMA - 1
  /\ dmaLow' = (dmaLow /\ releaseDMA' # 0)
  /\ UNCHANGED <<saveRAM, choiceVars, attached, disableCart, transferVars, geoVars, saveVars,
                 c64Vars, resets, presses, disturbed>>

\* the C64 stays halted until the image is saved, and for some cycles more
CountDown ==
  /\ EveryCycle
  /\ ~saveRAM /\ releaseDMA > 0
  /\ releaseDMA' = releaseDMA - 1
  /\ dmaLow' = (dmaLow /\ releaseDMA' # 0)
  /\ UNCHANGED <<saveRAM, choiceVars, attached, disableCart, transferVars, geoVars, saveVars,
                 c64Vars, resets, presses, disturbed>>

\* the user presses reset
PressReset ==
  /\ reset = "no" /\ resets < MaxResets /\ pc # "gone"
  /\ resets' = resets + 1
  /\ reset' = "short"
  /\ loader' = "boot"
  /\ mem' = [a \in 0 .. MemSize - 1 |-> Empty]
  /\ UNCHANGED <<choiceVars, attached, disableCart, transferVars, geoVars, dmaVars, saveVars,
                 pages, dest, count, presses, disturbed>>

\* resetCounter > 3: the program will be launched again
ResetCycle ==
  /\ attached /\ reset = "short"
  /\ reset' = "seen"
  /\ IF launchPrg
     THEN disableCart' = FALSE /\ dmaLow' = FALSE /\ disturbed' = TRUE
     ELSE UNCHANGED <<disableCart, dmaLow, disturbed>>
  /\ UNCHANGED <<choiceVars, attached, transferVars, geoVars, saveRAM, releaseDMA, saveVars,
                 loader, pages, dest, count, mem, resets, presses>>

\* resetCounter > 500000
HoldReset ==
  /\ attached /\ reset = "seen"
  /\ reset' = "long"
  /\ UNCHANGED <<choiceVars, attached, disableCart, transferVars, geoVars, dmaVars, saveVars,
                 loader, pages, dest, count, mem, resets, presses, disturbed>>

ReleaseReset ==
  /\ reset \in {"seen", "long"}
  /\ reset' = "no"
  /\ UNCHANGED <<choiceVars, attached, disableCart, transferVars, geoVars, dmaVars, saveVars,
                 loader, pages, dest, count, mem, resets, presses, disturbed>>
----------------------------------------------------------------------------
(* The main loop *)

MainStep == UNCHANGED <<choiceVars, disableCart, transferVars, reg, geo, writes, c64Vars,
                        releaseDMA, resets, presses, disturbed>>

\* TEST_FOR_JUMP_TO_MAINMENU_CB, and the button
BeginSave ==
  /\ pc = "wait"
  /\ \/ reset = "long" /\ pc' = "exit"
     \/ reset # "long" /\ saveRAM /\ pc' = "button"
  /\ copied' = 0 /\ racy' = {}
  /\ UNCHANGED <<attached, saveRAM, dmaLow, image, file>>
  /\ MainStep

\* the file is written while the FIQ handler goes on
SavePage ==
  /\ Saving /\ copied < GeoPages
  /\ image' = [image EXCEPT ![copied] = geo[copied]]
  /\ copied' = copied + 1
  /\ UNCHANGED <<pc, attached, saveRAM, dmaLow, racy, file>>
  /\ MainStep

\* Mutant: the request to save stays
EndSaveAsked ==
  /\ Saving /\ copied = GeoPages
  /\ file' = image
  /\ IF pc = "exit"
     THEN pc' = "gone" /\ attached' = FALSE /\ dmaLow' = FALSE
     ELSE pc' = "wait" /\ UNCHANGED <<attached, dmaLow>>
  /\ UNCHANGED <<saveRAM, copied, racy, image>>
  /\ MainStep

\* CKernelMenu::Run sets the DMA line again
EndSave ==
  /\ Saving /\ copied = GeoPages
  /\ file' = image
  /\ IF pc = "exit"
     THEN pc' = "gone" /\ attached' = FALSE /\ dmaLow' = FALSE /\ UNCHANGED saveRAM
     ELSE pc' = "wait" /\ saveRAM' = FALSE /\ UNCHANGED <<attached, dmaLow>>
  /\ UNCHANGED <<copied, racy, image>>
  /\ MainStep

Init ==
  /\ prog \in Programs \cup {NoProgram} /\ hasKernal \in BOOLEAN
  /\ attached = TRUE /\ disableCart = FALSE
  /\ currentOfs = 0 /\ transferPart = 1 /\ fetched = Junk
  /\ reg = 0 /\ geo = [p \in 0 .. GeoPages - 1 |-> 0]
  /\ saveRAM = FALSE /\ releaseDMA = 0 /\ dmaLow = FALSE
  /\ pc = "wait" /\ copied = 0 /\ image = geo /\ file = geo
  /\ reset = "no" /\ loader = "boot"
  /\ pages = 0 /\ dest = NoAddress /\ count = 0
  /\ mem = [a \in 0 .. MemSize - 1 |-> Empty]
  /\ resets = 0 /\ presses = 0 /\ writes = 0
  /\ racy = {} /\ disturbed = FALSE

Loader ==
  \/ Boot \/ High \/ HighPages \/ Stage \/ CopyHigh \/ Low \/ LowPages \/ AddressLow
  \/ AddressHigh \/ Copy \/ End \/ Disable
FIQ == Button \/ CountDown \/ ResetCycle \/ HoldReset
MainLoop == BeginSave \/ SavePage \/ EndSave

Next == Loader \/ Select \/ Write \/ FIQ \/ MainLoop \/ PressReset \/ ReleaseReset

\* the loader and the main loop run, cycles go by, nobody holds reset for ever
Fairness ==
  /\ WF_vars(Loader) /\ WF_vars(MainLoop) /\ WF_vars(CountDown)
  /\ WF_vars(ResetCycle) /\ WF_vars(ReleaseReset)

Spec == Init /\ [][Next]_vars /\ Fairness
----------------------------------------------------------------------------
(* Properties *)

\* Every variable keeps its type: no byte is fetched from behind the buffer of
\* 64 KB, and what is staged stays below the BASIC ROM, for every program and
\* wherever the transfer is begun again.
TypeOK ==
  /\ prog \in Programs \cup {NoProgram}
  /\ {hasKernal, attached, disableCart, saveRAM, dmaLow, disturbed}
       \subseteq BOOLEAN
  /\ currentOfs \in 0 .. MemSize - 1 /\ transferPart \in {0, 1}
  /\ fetched \in 0 .. MemSize
  /\ reg \in 0 .. GeoPages - 1
  /\ geo \in [0 .. GeoPages - 1 -> 0 .. MaxWrites]
  /\ {image, file} \subseteq [0 .. GeoPages - 1 -> 0 .. MaxWrites]
  /\ releaseDMA \in 0 .. DMACycles
  /\ pc \in {"wait", "button", "exit", "gone"} /\ copied \in 0 .. GeoPages
  /\ reset \in {"no", "short", "seen", "long"}
  /\ loader \in {"boot", "high", "highPages", "stage", "copyHigh", "low", "lowPages",
                 "addressLow", "addressHigh", "copy", "end", "disable", "run", "crashed"}
  /\ pages \in Nat /\ PagesFit(pages)
  /\ dest \in 0 .. MemSize /\ count \in 0 .. MemSize
  /\ loader = "stage" => StageAddr + count < SplitAddr
  /\ mem \in [0 .. MemSize - 1 -> 0 .. Empty]
  /\ racy \subseteq 0 .. GeoPages - 1

Whole == \A i \in 2 .. prog.size - 1 : mem[prog.start + i - 2] = i

\* programs that the split and the loaders can cope with: one that begins at
\* $A000 has no page below it, the two bytes too many may wrap behind the end
\* of the memory, one that begins above $A000 is stored into the I/O area, if it
\* gets there, and the loader for a replaced KERNAL leaves the upper part
Loadable(p) ==
  /\ p.start # SplitAddr
  /\ SplitAddr + PagesOf(SizeAbove(p)) * Page <= MemSize
  /\ p.start + PagesOf(SizeBelow(p)) * Page <= MemSize
  /\ p.start + PagesOf(SizeBelow(p)) * Page <= IOBase \/ p.start >= IOEnd
  /\ hasKernal => SizeAbove(p) = 0 \/ p.start + p.size - 2 <= SplitAddr

\* What starts is the program of the file, every byte at its address, for
\* every load address and size the split can cope with, and after a reset at
\* any point of the transfer.
ProgramWhole ==
  launchPrg /\ Loadable(prog) => loader # "crashed" /\ (loader = "run" => Whole)

\* The GeoRAM that is saved because of the button is one the program has left
\* at one point of time: it is halted until the file is written, but for a
\* reset in the meantime.
SavedAtOnce == ~disturbed /\ pc = "button" => racy = {}

\* Nothing that was written to the GeoRAM before its page was copied is missing
\* in the file when the kernel ends.
OnlyRacedWritesLost ==
  pc = "gone" => \A p \in 0 .. GeoPages - 1 : file[p] = geo[p] \/ p \in racy

\* The file is a memory the program has left at some time, up to the writes a
\* reset lets happen while it is written.
GeoRAMSaved == SavedAtOnce /\ OnlyRacedWritesLost

\* A C64 that the button has halted is resumed.
C64Resumes == dmaLow ~> ~dmaLow

\* A C64 that is not reset gets to the program.
ProgramStarts ==
  (loader = "boot" /\ (launchPrg => Loadable(prog)))
    ~> (loader = "run" \/ reset # "no" \/ pc = "gone")

\* Nobody waits for ever: not the halted C64, not the loader.
NobodyWaits == C64Resumes /\ ProgramStarts
=============================================================================
