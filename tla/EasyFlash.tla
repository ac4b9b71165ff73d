------------------------------ MODULE EasyFlash ------------------------------
(***************************************************************************)
(* The EasyFlash cartridge (kernel_ef.cpp) between three parties: the EAPI *)
(* driver on the C64 (eapi-sk64.s), which programs the flash by commands   *)
(* sent byte by byte to $DE0A; the FIQ handler, which executes them; and   *)
(* the main loop, which writes a modified image back into its CRT file     *)
(* (crt.cpp) when the C64 has been turned off or leaves for the menu.      *)
(*                                                                         *)
(* Each bank has two chips of 8 kB, L at $8000 and H at $A000/$E000.  One  *)
(* byte stands for the contents of a bank in one chip (a byte outside of   *)
(* the area into which KernelEFRun copies the driver), and two bits for a  *)
(* byte.  The addresses are reduced to their high byte, which selects the  *)
(* chip.  The card does not fail, and a reset lasts longer than the 3      *)
(* cycles the handler needs to notice it.                                  *)
(***************************************************************************)
EXTENDS Naturals, Sequences

CONSTANTS
  NumBanks,       \* EASYFLASH_BANKS
  SectorBanks,    \* banks of an erase sector (8)
  Packets,        \* <<bank, chip>> of the CHIP packets, as they follow in the file
  Contents,       \* what a packet of the file may hold
  Stale,          \* what may be left in the pool of an earlier cartridge
  ProgramBanks, EraseBanks, Values,  \* what the program selects, erases and writes
  OffCount,       \* rounds of the main loop after which the C64 counts as off (10000)
  NumDmaCycles,   \* NUM_DMA_CYCLES
  MaxCalls        \* bound: calls of the driver

Banks == 0 .. NumBanks - 1
Chips == {"L", "H"}
Erased == 3
Byte == 0 .. Erased
PacketSet == {Packets[i] : i \in DOMAIN Packets}

\* bitwise and of two bytes of two bits
And(a, b) == (a % 2) * (b % 2) + 2 * ((a \div 2) * (b \div 2))

INIT_EAPI == 240
WRITE_FLASH == 241
ERASE_SECTOR == 242
OK == 0
WRITE_ERROR == 241

ASSUME BanksAssumption == NumBanks \in Nat \ {0} /\ SectorBanks \in Nat \ {0}
ASSUME SectorsAssumption == NumBanks % SectorBanks = 0
ASSUME PacketsAssumption == Packets \in Seq(Banks \X Chips)
ASSUME ContentsAssumption == Contents \subseteq Byte /\ Stale \subseteq Byte
ASSUME ProgramAssumption ==
  ProgramBanks \subseteq Banks /\ EraseBanks \subseteq Nat /\ Values \subseteq Byte
ASSUME CountsAssumption == OffCount \in Nat /\ NumDmaCycles \in Nat \ {0, 1}

VARIABLES
  \* the FIQ handler's
  flash, reg0, eapiState, eapiBufferIn,
  reply,          \* the unread byte of eapiBufferOut, if any
  eapiCRTModified, mainloopCount, releaseDMA,
  dmaLow,         \* the DMA line: the 6510 is halted
  \* the main loop's
  pc,             \* where it is
  count,          \* register: mainloopCount before its increment
  leaving,        \* writeChanges2CRTFile was called on the way to the menu
  pos, rawCRT,    \* the packet to patch next; the buffer
  \* the card
  onCard,         \* the cartridge was read from the file FILENAME
  file,           \* contents of its packets
  \* the C64 and its program
  c64,            \* run, reset, off
  resetSeen,      \* resetCounter has fired
  heldLong,       \* resetCounter2 > 500000 and c64CycleCount > 2000000
  cpu,            \* idle, or the next access of the driver: bank, send, reply
  call,           \* arguments of the driver's current call
  sent,           \* bytes of the command that have been sent
  shadow,         \* EAPI_SHADOW_BANK
  calls,          \* calls so far
  \* history
  missed          \* packets changed after the save that is under way has copied them

eapiVars == <<eapiState, eapiBufferIn, reply>>
flashVars == <<flash, eapiCRTModified, missed>>
saveVars == <<leaving, pos, rawCRT>>
cardVars == <<onCard, file>>
dmaVars == <<releaseDMA, dmaLow>>
driverVars == <<cpu, call, sent, shadow, calls>>
lineVars == <<c64, resetSeen, heldLong>>
vars == <<reg0, eapiVars, flashVars, mainloopCount, dmaVars, pc, count, saveVars,
          cardVars, lineVars, driverVars>>
----------------------------------------------------------------------------
(* The FIQ handler *)

\* the interrupt is connected and the Pi has not panicked
Attached == pc \notin {"returned", "halted"}

\* packet p is behind the copying of the save, or no save will follow any more
CopiedAlready(p) ==
  \/ pc \in {"clear", "leave"}
  \/ pc = "patch" /\ \E i \in 1 .. pos - 1 : Packets[i] = p

\* a cycle of the 6510: it shows that the C64 is on, and counts down the halt
CPUCycle ==
  /\ Attached /\ c64 # "off"
  /\ mainloopCount' = 0

CountDown ==
  /\ releaseDMA' = IF releaseDMA > 0 THEN releaseDMA - 1 ELSE 0
  /\ dmaLow' = (dmaLow /\ releaseDMA # 1)

\* Mutant: a halt whose countdown is not started
HaltUncounted ==
  /\ releaseDMA' = 0
  /\ dmaLow' = TRUE

\* the C64 is halted while the bank is prefetched, beginning with this cycle
Halt ==
  /\ releaseDMA' = NumDmaCycles - 1
  /\ dmaLow' = TRUE

\* eapiWriteFlash clears bits of the selected bank
Programmed(hi, value) ==
  LET p == <<reg0, IF hi < 224 THEN "L" ELSE "H">>
  IN  [flash EXCEPT ![p] = And(@, value)]

\* eapiEraseSector sets all bits of a sector in one chip
SectorInvalid(bank) == bank >= NumBanks \/ bank % SectorBanks # 0

\* Mutant: $A000 is taken for the low chip
EraseChipA000(hi) == IF hi >= 224 THEN "H" ELSE "L"

EraseChip(hi) == IF hi # 128 THEN "H" ELSE "L"

Wiped(bank, hi) ==
  [p \in Banks \X Chips |->
     IF p[1] \in bank .. bank + SectorBanks - 1 /\ p[2] = EraseChip(hi)
     THEN Erased ELSE flash[p]]

Change(newFlash) ==
  /\ flash' = newFlash
  /\ missed' = missed \cup {p \in PacketSet : newFlash[p] # flash[p] /\ CopiedAlready(p)}

ExecWrite(hi, value) ==
  /\ Change(Programmed(hi, value))
  /\ reply' = <<OK>>

ExecErase(hi, bank) ==
  IF SectorInvalid(bank)
  THEN reply' = <<WRITE_ERROR>> /\ UNCHANGED <<flash, missed>>
  ELSE reply' = <<OK>> /\ Change(Wiped(bank, hi))

\* Mutant: only a write marks the image as modified
ExecuteUnmarked(in) ==
  /\ eapiState' = "main"
  /\ eapiCRTModified' = (eapiCRTModified \/ eapiState = "write")
  /\ IF eapiState = "write" THEN ExecWrite(in[2], in[3]) ELSE ExecErase(in[2], in[3])

Execute(in) ==
  /\ eapiState' = "main"
  /\ eapiCRTModified' = TRUE
  /\ IF eapiState = "write" THEN ExecWrite(in[2], in[3]) ELSE ExecErase(in[2], in[3])

\* eapiReceiveByte: a command, or one of its three parameters (the buffer is
\* dead between commands, and empty here)
Command(d) ==
  /\ eapiState' = CASE d = WRITE_FLASH -> "write" [] d = ERASE_SECTOR -> "erase"
                    [] OTHER -> "main"
  /\ eapiBufferIn' = <<>>
  /\ reply' = IF d = INIT_EAPI THEN <<OK>> ELSE reply
  /\ UNCHANGED flashVars

\* Mutant: a command is executed one byte late
ParameterLate(d) ==
  LET in == Append(eapiBufferIn, d)
  IN  IF Len(in) = 4
      THEN eapiBufferIn' = <<>> /\ Execute(in)
      ELSE eapiBufferIn' = in /\ UNCHANGED <<eapiState, reply, flashVars>>

Parameter(d) ==
  LET in == Append(eapiBufferIn, d)
  IN  IF Len(in) = 3
      THEN eapiBufferIn' = <<>> /\ Execute(in)
      ELSE eapiBufferIn' = in /\ UNCHANGED <<eapiState, reply, flashVars>>

Receive(d) == IF eapiState = "main" THEN Command(d) ELSE Parameter(d)

\* Mutant: a reset leaves a half-sent command as it is
InitEFKeepsCommand ==
  /\ reg0' = 0
  /\ reply' = <<>>
  /\ releaseDMA' = 0 /\ dmaLow' = FALSE
  /\ UNCHANGED <<eapiState, eapiBufferIn>>

\* initEF, as called by the handler when it notices a reset
InitEF ==
  /\ reg0' = 0
  /\ eapiState' = "main" /\ eapiBufferIn' = <<>> /\ reply' = <<>>
  /\ releaseDMA' = 0 /\ dmaLow' = FALSE
----------------------------------------------------------------------------
(* The C64: the program and its driver *)

NoCall == [cmd |-> INIT_EAPI, hi |-> 0, val |-> 0]
Writes == [cmd : {WRITE_FLASH}, hi : {128, 224}, val : Values]
Erases == [cmd : {ERASE_SECTOR}, hi : {128, 160, 224}, val : EraseBanks]

\* the bytes of a command; the low byte of the address is 0
Request ==
  IF call.cmd = INIT_EAPI THEN <<INIT_EAPI>> ELSE <<call.cmd, 0, call.hi, call.val>>

EndOfCall == cpu' = "idle" /\ call' = NoCall /\ sent' = 0

Runs == CPUCycle /\ c64 = "run" /\ ~dmaLow

\* any access that does not concern the flash
OtherCycle ==
  /\ CPUCycle /\ CountDown
  /\ UNCHANGED <<reg0, eapiVars, flashVars, pc, count, saveVars, cardVars, lineVars, driverVars>>

\* the program selects a bank itself, or by EAPISetBank
SelectBank(b) ==
  /\ Runs /\ cpu = "idle"
  /\ reg0' = b % NumBanks /\ Halt
  /\ shadow' \in {shadow, b}
  /\ UNCHANGED <<eapiVars, flashVars, pc, count, saveVars, cardVars, lineVars, cpu, call, sent,
                 calls>>

\* EAPIInit, EAPIWriteFlash, EAPIEraseSector are called
Call(c) ==
  /\ Runs /\ cpu = "idle" /\ calls < MaxCalls
  /\ calls' = calls + 1
  /\ call' = c /\ sent' = 0
  /\ cpu' = IF c.cmd = INIT_EAPI THEN "send" ELSE "bank"
  /\ CountDown
  /\ UNCHANGED <<reg0, eapiVars, flashVars, pc, count, saveVars, cardVars, lineVars, shadow>>

DriverBank ==
  /\ Runs /\ cpu = "bank"
  /\ reg0' = shadow % NumBanks /\ Halt
  /\ cpu' = "send"
  /\ UNCHANGED <<eapiVars, flashVars, pc, count, saveVars, cardVars, lineVars, call, sent, shadow,
                 calls>>

DriverSend ==
  /\ Runs /\ cpu = "send"
  /\ Receive(Request[sent + 1]) /\ Halt
  /\ sent' = sent + 1
  /\ cpu' = IF sent' = Len(Request) THEN "reply" ELSE "send"
  /\ UNCHANGED <<reg0, pc, count, saveVars, cardVars, lineVars, call, shadow, calls>>

DriverReply ==
  /\ Runs /\ cpu = "reply"
  /\ reply' = <<>>
  /\ CountDown
  /\ EndOfCall
  /\ UNCHANGED <<reg0, eapiState, eapiBufferIn, flashVars, pc, count, saveVars, cardVars, lineVars,
                 shadow, calls>>

Driver == DriverBank \/ DriverSend \/ DriverReply

\* the user
PowerOff ==
  /\ Attached /\ c64 # "off"
  /\ c64' = "off" /\ EndOfCall
  /\ UNCHANGED <<reg0, eapiVars, flashVars, mainloopCount, dmaVars, pc, count, saveVars, cardVars,
                 resetSeen, heldLong, shadow, calls>>

\* the reset button, or the reset circuit after turning the C64 on
Reset ==
  /\ Attached /\ c64 # "reset"
  /\ c64' = "reset" /\ resetSeen' = FALSE /\ EndOfCall
  /\ UNCHANGED <<reg0, eapiVars, flashVars, mainloopCount, dmaVars, pc, count, saveVars, cardVars,
                 heldLong, shadow, calls>>

\* the handler has counted more than 3 cycles of the reset; with the second
\* button pressed it also clears the RAM that holds the driver
ResetCycle ==
  /\ CPUCycle /\ c64 = "reset" /\ ~resetSeen
  /\ resetSeen' = TRUE
  /\ InitEF
  /\ shadow' \in {shadow, 0}
  /\ UNCHANGED <<flashVars, pc, count, saveVars, cardVars, c64, heldLong, cpu, call, sent, calls>>

HoldReset ==
  /\ CPUCycle /\ c64 = "reset" /\ resetSeen /\ ~heldLong
  /\ heldLong' = TRUE
  /\ CountDown
  /\ UNCHANGED <<reg0, eapiVars, flashVars, pc, count, saveVars, cardVars, c64, resetSeen, driverVars>>

ReleaseReset ==
  /\ CPUCycle /\ c64 = "reset" /\ resetSeen
  /\ c64' = "run" /\ heldLong' = FALSE
  /\ CountDown
  /\ UNCHANGED <<reg0, eapiVars, flashVars, pc, count, saveVars, cardVars, resetSeen, driverVars>>
----------------------------------------------------------------------------
(* The main loop *)

mainUnchanged == <<reg0, eapiVars, flash, dmaVars, lineVars, driverVars, onCard>>

\* TEST_FOR_JUMP_TO_MAINMENU2FIQs_CB
TestForJump ==
  /\ pc = "test"
  /\ leaving' = heldLong
  /\ pc' = IF ~heldLong THEN "count" ELSE IF eapiCRTModified THEN "open" ELSE "leave"
  /\ UNCHANGED <<mainUnchanged, eapiCRTModified, missed, mainloopCount, count, pos, rawCRT, file>>

\* mainloopCount++ reads and writes; the handler may come in between.  OffCount
\* rounds take longer than a cycle, so a C64 that runs clears the count before
ReadCount ==
  /\ pc = "count"
  /\ c64 # "off" => mainloopCount # OffCount
  /\ count' = mainloopCount
  /\ pc' = "store"
  /\ UNCHANGED <<mainUnchanged, eapiCRTModified, missed, mainloopCount, saveVars, file>>

LooksOff == count > OffCount

StoreCount ==
  /\ pc = "store"
  /\ mainloopCount' = IF LooksOff THEN count ELSE count + 1
  /\ count' = 0
  /\ pc' = IF LooksOff /\ eapiCRTModified THEN "open" ELSE "test"
  /\ UNCHANGED <<mainUnchanged, eapiCRTModified, missed, saveVars, file>>

\* writeChanges2CRTFile: read the file, replace the packets, write it back
SaveOpen ==
  /\ pc = "open"
  /\ IF onCard THEN pc' = "patch" /\ pos' = 1 /\ rawCRT' = file
               ELSE pc' = "halted" /\ UNCHANGED <<pos, rawCRT>>
  /\ UNCHANGED <<mainUnchanged, eapiCRTModified, missed, mainloopCount, count, leaving, file>>

SavePatch ==
  /\ pc = "patch" /\ pos <= Len(Packets)
  /\ LET p == Packets[pos]
     IN  rawCRT' = [rawCRT EXCEPT ![p] = flash[p]] /\ missed' = missed \ {p}
  /\ pos' = pos + 1
  /\ UNCHANGED <<mainUnchanged, eapiCRTModified, mainloopCount, pc, count, leaving, file>>

SaveWrite ==
  /\ pc = "patch" /\ pos > Len(Packets)
  /\ file' = rawCRT /\ pos' = 1
  /\ pc' = IF leaving THEN "leave" ELSE "clear"
  /\ UNCHANGED <<mainUnchanged, eapiCRTModified, missed, mainloopCount, count, leaving, rawCRT>>

ClearModified ==
  /\ pc = "clear"
  /\ eapiCRTModified' = FALSE
  /\ pc' = "test"
  /\ UNCHANGED <<mainUnchanged, missed, mainloopCount, count, saveVars, file>>

Return ==
  /\ pc = "leave"
  /\ pc' = "returned"
  /\ UNCHANGED <<mainUnchanged, eapiCRTModified, missed, mainloopCount, count, saveVars, file>>

MainLoop ==
  TestForJump \/ ReadCount \/ StoreCount \/ SaveOpen \/ SavePatch \/ SaveWrite \/ ClearModified
  \/ Return
----------------------------------------------------------------------------
\* readCRTFile or parseCRTInMemory into the pool, which is not cleared; initEF
Init ==
  /\ onCard \in BOOLEAN
  /\ file \in [PacketSet -> Contents]
  /\ \E old \in Stale :
       flash = [p \in Banks \X Chips |-> IF p \in PacketSet THEN file[p] ELSE old]
  /\ reg0 = 0 /\ eapiState = "main" /\ eapiBufferIn = <<>> /\ reply = <<>>
  /\ eapiCRTModified = FALSE /\ mainloopCount = 0 /\ releaseDMA = 0 /\ dmaLow = FALSE
  /\ pc = "test" /\ count = 0 /\ leaving = FALSE /\ pos = 1 /\ rawCRT = file
  /\ c64 = "run" /\ resetSeen = FALSE /\ heldLong = FALSE
  /\ cpu = "idle" /\ call = NoCall /\ sent = 0 /\ shadow = 0 /\ calls = 0
  /\ missed = {}

Program ==
  \/ \E b \in ProgramBanks : SelectBank(b)
  \/ \E c \in Writes \cup Erases \cup {NoCall} : Call(c)
  \/ Driver

User == PowerOff \/ Reset \/ ResetCycle \/ HoldReset \/ ReleaseReset

Next == Program \/ User \/ OtherCycle \/ MainLoop

\* the main loop spins (a pending interrupt always ends its wfi), the clock of
\* a C64 that is on ticks, and its program executes when it is not halted
Fairness == WF_vars(MainLoop) /\ WF_vars(OtherCycle) /\ WF_vars(Driver)

Spec == Init /\ [][Next]_vars /\ Fairness
----------------------------------------------------------------------------
(* Properties *)

\* Every variable has its type: bank and count registers stay in range, and the
\* command buffer, whose index only a complete command resets, never overflows
\* (eapiReceiveByte, kernel_ef.cpp:219-221).
TypeOK ==
  /\ flash \in [Banks \X Chips -> Byte]
  /\ reg0 \in Banks /\ eapiState \in {"main", "write", "erase"}
  /\ eapiBufferIn \in Seq(Nat) /\ Len(eapiBufferIn) <= 2
  /\ reply \in {<<>>, <<OK>>, <<WRITE_ERROR>>}
  /\ eapiCRTModified \in BOOLEAN /\ mainloopCount \in 0 .. OffCount + 1
  /\ releaseDMA \in 0 .. NumDmaCycles - 1 /\ dmaLow \in BOOLEAN
  /\ pc \in {"test", "count", "store", "open", "patch", "clear", "leave", "returned", "halted"}
  /\ count \in 0 .. OffCount + 1 /\ leaving \in BOOLEAN
  /\ pos \in 1 .. Len(Packets) + 1 /\ rawCRT \in [PacketSet -> Byte]
  /\ onCard \in BOOLEAN /\ file \in [PacketSet -> Byte]
  /\ c64 \in {"run", "reset", "off"} /\ resetSeen \in BOOLEAN /\ heldLong \in BOOLEAN
  /\ cpu \in {"idle", "bank", "send", "reply"}
  /\ call \in Writes \cup Erases \cup {NoCall}
  /\ sent \in 0 .. 4 /\ shadow \in Banks /\ calls \in Nat
  /\ missed \subseteq PacketSet

\* Whenever the program runs, the handler's state machine is exactly where the
\* driver's sequence of bytes is, whatever resets and power cycles cut earlier
\* commands short (eapiState, eapiBufCountIn against eapi-sk64.s:340-354).
DriverInStep ==
  c64 = "run" =>
    IF cpu = "send" /\ sent > 0
    THEN /\ eapiState = IF call.cmd = WRITE_FLASH THEN "write" ELSE "erase"
         /\ eapiBufferIn = SubSeq(Request, 2, sent)
    ELSE eapiState = "main"

\* A call does in the flash what the driver documents (eapi-sk64.s:261-339),
\* once, with its last byte, in the bank it has set last, and tells an invalid
\* sector; nothing else changes the flash.
Asked ==
  LET LowChip == call.hi \in {128, 144}
      Hit(p) == /\ p[2] = IF LowChip THEN "L" ELSE "H"
                /\ IF call.cmd = WRITE_FLASH THEN p[1] = shadow
                   ELSE p[1] \div SectorBanks = call.val \div SectorBanks
  IN  [p \in Banks \X Chips |->
         IF ~Hit(p) THEN flash[p]
         ELSE IF call.cmd = WRITE_FLASH THEN And(flash[p], call.val) ELSE Erased]

AskedWrongly ==
  call.cmd = ERASE_SECTOR /\ call.val \notin {s * SectorBanks : s \in 0 .. NumBanks \div SectorBanks - 1}

CommandHasEffect ==
  [][IF cpu = "send" /\ cpu' = "reply" /\ call.cmd # INIT_EAPI
     THEN IF AskedWrongly THEN flash' = flash /\ reply' = <<WRITE_ERROR>>
                          ELSE flash' = Asked /\ reply' = <<OK>>
     ELSE flash' = flash]_vars

\* When the image counts as unmodified, and when the cartridge has been left for
\* the menu, the file holds every packet as it is in the flash, except those
\* the C64 has changed after the last save had copied them.
OnlyRacedWritesLost ==
  onCard /\ (~eapiCRTModified \/ pc = "returned") =>
    \A p \in PacketSet : file[p] = flash[p] \/ p \in missed

\* A modified image of a C64 that stays off gets saved (kernel_ef.cpp:750-763).
SavedWhenOff ==
  (onCard /\ eapiCRTModified /\ c64 = "off")
    ~> (~eapiCRTModified \/ c64 # "off" \/ pc = "returned")

\* A call of the driver returns, unless the Pi has left the cartridge: the C64
\* gets its bus back after every access that halts it.
CallReturns == (cpu # "idle") ~> (cpu = "idle" \/ ~Attached)

\* Everybody gets what he waits for: the program its call, and a C64 that was
\* turned off its image on the card.
EverythingEnds == CallReturns /\ SavedWhenOff
=============================================================================
