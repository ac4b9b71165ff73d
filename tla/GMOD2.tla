--------------------------------- MODULE GMOD2 ---------------------------------
(***************************************************************************)
(* The GMOD2 cartridge: its EEPROM (Vice/m93c86.cpp), which a program on   *)
(* the C64 drives bit by bit through one register, the FIQ handler of that *)
(* register, and the main loop that saves the EEPROM (kernel_ef.cpp).      *)
(*                                                                         *)
(* One action is an access of the program with the handler's reaction, or  *)
(* a step of the main loop.  An EEPROM is a function from addresses to     *)
(* words; both are sequences of bits, the most significant one first.      *)
(***************************************************************************)
EXTENDS Integers, Sequences

CONSTANTS
  AddressBits,      \* of a word; 10
  WordBits,         \* 16
  Calls,            \* what the program may ask of the EEPROM
  MaxCalls, MaxDisturbances  \* bounds; the latter of resets and power cuts

ASSUME SizeAssumption ==
  /\ AddressBits \in Nat /\ AddressBits > 2      \* the fifth bit is not the last
  /\ WordBits \in Nat /\ WordBits > 1 /\ {MaxCalls, MaxDisturbances} \subseteq Nat

Bit == {0, 1}
Ones(n) == [i \in 1 .. n |-> 1]
Zeros(n) == [i \in 1 .. n |-> 0]
Addresses == [1 .. AddressBits -> Bit]
PastEnd == <<>>             \* the address behind the last one
\* the address behind a, or the first one
Following(a) ==
  [i \in 1 .. AddressBits |->
     IF \A j \in i + 1 .. AddressBits : a[j] = 1 THEN 1 - a[i] ELSE a[i]]
Word == [1 .. WordBits -> Bit]
Filled(word) == [a \in Addresses |-> word]
NoFile == <<>>
NoCall == [op |-> "none"]

ASSUME CallsAssumption ==
  \A c \in Calls :
    /\ c.op \in {"WRITE", "READ", "ERASE", "WEN", "WDS", "ERAL", "WRAL"}
    /\ c.address \in Addresses /\ c.word \in Word

VARIABLES
  chip,       \* the static variables of m93c86.cpp
  reg0, lines,  \* bank and memory configuration
  mpc,        \* main loop: waits, or where it saves, or the menu
  leaving,    \* it saves on the way to the menu
  lower,      \* what of the EEPROM it has read so far, the lower half or all of it
  eepromFile, \* on the card: what it holds when it is closed, nothing before that
  ff,         \* initEF has not run
  power,      \* of the C64: on, reset, held (reset for long), off
  call, step, clocked,  \* of the program: what it asks for, its next access, bits sent
  got, polled,  \* bits read from the EEPROM, and what it answered to be ready
  want,       \* history: what the program has reason to expect
  stale,      \* history: a call was cut while its clock was high
  raceSeen,   \* history: the EEPROM changed while it was saved
  calls, disturbances  \* bounds

cartVars == <<reg0, lines>>
writeVars == <<mpc, leaving, lower, eepromFile, ff>>
programVars == <<call, step, clocked, got, polled>>
gmod2Vars == <<chip, cartVars, writeVars, power, programVars, want, stale, raceSeen,
               calls, disturbances>>
----------------------------------------------------------------------------
(* m93c86.cpp: functions of the chip's state *)

InitialChip ==
  [cs |-> 0, clock |-> 0, dataIn |-> 0, dataOut |-> 0, shift |-> <<>>, outCount |-> 0,
   command |-> "none", address |-> Zeros(AddressBits), enabled |-> FALSE, mem |-> Filled(Zeros(WordBits))]

\* A bit read from the chip, and the chip after that.
readData(ch) ==
  IF ch.command = "ISBUSY" THEN <<0, [ch EXCEPT !.command = "ISREADY"]>>
  ELSE IF ch.command = "ISREADY" THEN <<1, [ch EXCEPT !.command = "none"]>>
  ELSE <<ch.dataOut, ch>>

\* Mutant: no busy state after a write
writeSelectSilent(ch, value) ==
  [ch EXCEPT
     !.cs = value,
     !.shift = IF ch.cs = 0 /\ value = 1 /\ ch.clock = 0 THEN <<>> ELSE @,
     !.command = IF value = 0 THEN "none" ELSE @]

writeSelect(ch, value) ==
  [ch EXCEPT
     !.cs = value,
     !.shift = IF ch.cs = 0 /\ value = 1 /\ ch.clock = 0 THEN <<>> ELSE @,
     !.command =
       CASE ch.cs = 1 /\ value = 0 /\ @ \in {"WRITE", "WRAL", "ERAL"} -> "ISBUSY"
         [] value = 0 /\ @ \in {"READ", "READDUMMY", "READDATA"} -> "none"
         [] OTHER -> @]

BeginOutput(ch) ==
  [ch EXCEPT !.dataOut = ch.mem[ch.address][1], !.outCount = 1, !.command = "READDATA"]

\* Mutant: the output is not begun anew
ContinueOutputPast(ch) ==
  [ch EXCEPT !.dataOut = ch.mem[ch.address][ch.outCount + 1], !.outCount = @ + 1]

\* The shift register of the output is what is left of the word.
ContinueOutput(ch) ==
  LET out == [ch EXCEPT !.dataOut = ch.mem[ch.address][ch.outCount + 1]]
  IN IF ch.outCount + 1 = WordBits
     THEN [out EXCEPT !.outCount = 0, !.address = Following(@)]
     ELSE [out EXCEPT !.outCount = @ + 1]

Opcode(bits) ==
  CASE bits = <<0, 0>> -> "CMD00" [] bits = <<0, 1>> -> "WRITE"
    [] bits = <<1, 0>> -> "READ" [] bits = <<1, 1>> -> "ERASE"
Opcode00(bits) ==
  CASE bits = <<0, 0>> -> "WDS" [] bits = <<0, 1>> -> "WRAL"
    [] bits = <<1, 0>> -> "ERAL" [] bits = <<1, 1>> -> "WEN"

Refused(ch) == [ch EXCEPT !.command = "none"]

\* The whole address is in.
AddressIn(ch, bits) ==
  LET a == SubSeq(bits, 4, 3 + AddressBits)
      done == [ch EXCEPT !.shift = <<>>]
  IN CASE ch.command = "READ" -> [done EXCEPT !.command = "READDUMMY", !.address = a]
       [] ch.command = "WDS" -> [done EXCEPT !.command = "none", !.enabled = FALSE]
       [] ch.command = "WEN" -> [done EXCEPT !.command = "none", !.enabled = TRUE]
       [] ch.command \in {"ERASE", "ERAL"} /\ ~ch.enabled -> Refused(done)
       [] ch.command = "ERASE" /\ ch.enabled ->
            [done EXCEPT !.address = a, !.mem[a] = Ones(WordBits)]
       [] ch.command = "ERAL" /\ ch.enabled -> [done EXCEPT !.mem = Filled(Ones(WordBits))]
       [] OTHER -> [ch EXCEPT !.shift = bits]

\* Mutant: the address is taken at the wrong end
WordInLate(ch, bits) ==
  LET a == SubSeq(bits, 5, 4 + AddressBits)
      word == SubSeq(bits, 4 + AddressBits, Len(bits))
      done == [ch EXCEPT !.shift = <<>>]
  IN CASE ch.command \in {"WRITE", "WRAL"} /\ ~ch.enabled -> Refused(done)
       [] ch.command = "WRITE" /\ ch.enabled -> [done EXCEPT !.address = a, !.mem[a] = word]
       [] ch.command = "WRAL" /\ ch.enabled ->
            [done EXCEPT !.address = PastEnd, !.mem = Filled(word)]
       [] OTHER -> [ch EXCEPT !.shift = bits]

\* The word behind it is in, too.
WordIn(ch, bits) ==
  LET a == SubSeq(bits, 4, 3 + AddressBits)
      word == SubSeq(bits, 4 + AddressBits, Len(bits))
      done == [ch EXCEPT !.shift = <<>>]
  IN CASE ch.command \in {"WRITE", "WRAL"} /\ ~ch.enabled -> Refused(done)
       [] ch.command = "WRITE" /\ ch.enabled -> [done EXCEPT !.address = a, !.mem[a] = word]
       [] ch.command = "WRAL" /\ ch.enabled ->
            [done EXCEPT !.address = PastEnd, !.mem = Filled(word)]
       [] OTHER -> [ch EXCEPT !.shift = bits]

\* Beyond the longest command no bit is looked at, until the register is cleared.
BitIn(ch, bits) ==
  LET n == Len(bits) IN
  CASE n = 1 -> [ch EXCEPT !.shift = IF ch.dataIn = 0 THEN <<>> ELSE bits]
    [] n = 3 -> [ch EXCEPT !.shift = bits, !.command = Opcode(SubSeq(bits, 2, 3))]
    [] n = 5 /\ ch.command = "CMD00" ->
         LET op == Opcode00(SubSeq(bits, 4, 5)) IN
         [ch EXCEPT !.shift = bits, !.command = op, !.enabled = @ \/ op = "WEN"]
    [] n = 3 + AddressBits -> AddressIn(ch, bits)
    [] n = 3 + AddressBits + WordBits -> WordIn(ch, bits)
    [] n > 3 + AddressBits + WordBits -> ch
    [] OTHER -> [ch EXCEPT !.shift = bits]

ShiftIn(ch) == BitIn(ch, Append(ch.shift, ch.dataIn))

writeClock(ch, value) ==
  LET next == IF ch.cs = 0 \/ value = 0 \/ ch.clock = 1 THEN ch
              ELSE CASE ch.command = "READDUMMY" -> BeginOutput(ch)
                     [] ch.command = "READDATA" -> ContinueOutput(ch)
                     [] OTHER -> ShiftIn(ch)
  IN [next EXCEPT !.clock = value]
----------------------------------------------------------------------------
(* The program on the C64: what it writes to $DE00 for a call *)

Put(select, bit, clk) == [cs |-> select, data |-> bit, clock |-> clk]
Deselect == Put(0, 0, 0)

\* The opcode, and for those without one what is in the place of the address.
Code(op) ==
  CASE op = "WRITE" -> <<0, 1>> [] op = "READ" -> <<1, 0>> [] op = "ERASE" -> <<1, 1>>
    [] OTHER -> <<0, 0>>
Subcode(op) ==
  CASE op = "WEN" -> <<1, 1>> [] op = "WDS" -> <<0, 0>>
    [] op = "ERAL" -> <<1, 0>> [] OTHER -> <<0, 1>>
AddressPart(c) == IF Code(c.op) = <<0, 0>> THEN Subcode(c.op) \o Zeros(AddressBits - 2)
                                          ELSE c.address
WordPart(c) == IF c.op \in {"WRITE", "WRAL"} THEN c.word ELSE <<>>
CommandBits(c) == <<1>> \o Code(c.op) \o AddressPart(c) \o WordPart(c)

\* The write enable works with its fifth bit, all others with the last.
WorksAt(c) == IF c.op = "WEN" THEN 5 ELSE Len(CommandBits(c))

\* The access of each step; bits are sent, and asked for, with the clock low and high.
Writing == {"begin", "select", "low", "high", "readLow", "readHigh", "end", "deselect",
            "reselect", "last"}
Written ==
  CASE step \in {"begin", "deselect", "last"} -> Deselect
    [] step = "low" -> Put(1, CommandBits(call)[clocked + 1], 0)
    [] step = "high" -> Put(1, CommandBits(call)[clocked + 1], 1)
    [] step = "readHigh" -> Put(1, 0, 1)
    [] OTHER -> Put(1, 0, 0)

\* A program polls if it has reason to expect that something is written.
Polls == call.op \in {"WRITE", "ERASE", "ERAL", "WRAL"} /\ want.enabled
Over == step = "last" \/ (step = "deselect" /\ ~Polls)

AfterWrite ==
  CASE step = "begin" -> "select"
    [] step = "select" -> "low"
    [] step = "low" -> "high"
    [] step = "high" -> IF clocked + 1 < Len(CommandBits(call)) THEN "low"
                        ELSE IF call.op = "READ" THEN "readLow" ELSE "end"
    [] step = "readLow" -> "readHigh"
    [] step = "readHigh" -> "get"
    [] step = "end" -> "deselect"
    [] step = "deselect" -> "reselect"
    [] step = "reselect" -> "poll"

Begin(c, first) ==
  call' = c /\ step' = first /\ clocked' = 0 /\ got' = <<>> /\ polled' = <<>>
Idle == Begin(NoCall, "idle")

\* What a call is documented to do to an EEPROM.
Effect(c, w) ==
  CASE c.op = "WEN" -> [w EXCEPT !.enabled = TRUE]
    [] c.op = "WDS" -> [w EXCEPT !.enabled = FALSE]
    [] c.op = "WRITE" /\ w.enabled -> [w EXCEPT !.mem[c.address] = c.word]
    [] c.op = "ERASE" /\ w.enabled -> [w EXCEPT !.mem[c.address] = Ones(WordBits)]
    [] c.op = "WRAL" /\ w.enabled -> [w EXCEPT !.mem = Filled(c.word)]
    [] c.op = "ERAL" /\ w.enabled -> [w EXCEPT !.mem = Filled(Ones(WordBits))]
    [] OTHER -> w
----------------------------------------------------------------------------
Contents(f) == IF f = NoFile THEN Filled(Zeros(WordBits)) ELSE f

GMOD2Init ==
  /\ chip = InitialChip /\ reg0 = 0 /\ lines = "8K"
  /\ mpc = "menu" /\ leaving = FALSE /\ lower = NoFile
  /\ eepromFile = NoFile /\ ff = TRUE
  /\ power = "on" /\ call = NoCall /\ step = "idle" /\ clocked = 0
  /\ got = <<>> /\ polled = <<>>
  /\ want = [mem |-> Contents(eepromFile), enabled |-> FALSE]
  /\ stale = FALSE /\ raceSeen = FALSE
  /\ calls = 0 /\ disturbances = 0

Serves == mpc # "menu"      \* the FIQ handler is connected
Running == power = "on" /\ Serves
WritingFile == mpc \in {"upper", "close"}

\* The program asks the next thing of the EEPROM.
Ask(c) ==
  /\ Running /\ call = NoCall /\ calls < MaxCalls
  /\ Begin(c, "begin")
  /\ calls' = calls + 1
  /\ UNCHANGED <<chip, cartVars, writeVars, power, want, stale, raceSeen, disturbances>>

Configuration(access) == IF access.cs = 0 THEN "8K" ELSE "off"

\* KernelEFFIQHandler_GMOD2 for a write to $DE00; clock and data are bits of the bank, too
HandlerWrites(access) ==
  LET selected == writeSelect(chip, access.cs)
  IN chip' = IF access.cs = 0 THEN selected
             ELSE writeClock([selected EXCEPT !.dataIn = access.data], access.clock)

NextAccess == /\ Running
              /\ UNCHANGED <<writeVars, power, stale, calls, disturbances>>

ProgramWrites ==
  /\ NextAccess /\ step \in Writing
  /\ HandlerWrites(Written)
  /\ lines' = Configuration(Written)
  /\ reg0' = 32 * Written.clock + 16 * Written.data
  /\ IF Over THEN Idle
     ELSE /\ step' = AfterWrite /\ clocked' = IF step = "high" THEN clocked + 1 ELSE clocked
          /\ UNCHANGED <<call, got, polled>>
  /\ want' = IF step = "high" /\ clocked + 1 = WorksAt(call) THEN Effect(call, want) ELSE want
  /\ raceSeen' = (raceSeen \/ (WritingFile /\ chip'.mem # chip.mem))

\* ... and for a read: the chip is asked only if it is selected
HandlerReads == IF chip.cs = 1 THEN readData(chip) ELSE <<0, chip>>

\* Two words are read; polling goes on until the EEPROM is ready.
ProgramReads ==
  /\ NextAccess
  /\ chip' = HandlerReads[2]
  /\ LET bit == HandlerReads[1] IN
     \/ /\ step = "get" /\ got' = Append(got, bit)
        /\ step' = IF Len(got') = 2 * WordBits THEN "end" ELSE "readLow"
        /\ UNCHANGED polled
     \/ /\ step = "poll" /\ polled' = IF Len(polled) < 2 THEN Append(polled, bit) ELSE polled
        /\ step' = IF bit = 0 THEN "poll" ELSE "last"
        /\ UNCHANGED got
  /\ UNCHANGED <<call, clocked, cartVars, want, raceSeen>>

\* The chip may be left in the middle of a command.
Cut == /\ Idle
       /\ stale' = (stale \/ (chip.clock = 1 /\ chip.shift # <<>>))

Disturbance == disturbances < MaxDisturbances /\ disturbances' = disturbances + 1

BeginC64Reset ==
  /\ Running /\ Disturbance /\ power' = "reset" /\ Cut
  /\ UNCHANGED <<chip, cartVars, writeVars, want, raceSeen, calls>>

\* The handler sees more than three cycles of a reset: only the bank is reset.
GMOD2ResetCycle ==
  /\ power = "reset" /\ Serves /\ lines' = "8K" /\ reg0' = 0
  /\ \E next \in {"on", "held"} : power' = next
  /\ UNCHANGED <<chip, writeVars, programVars, want, stale, raceSeen, calls, disturbances>>

EndC64Reset ==
  /\ power = "held" /\ Serves /\ power' = "on"
  /\ UNCHANGED <<chip, cartVars, writeVars, programVars, want, stale, raceSeen, calls,
                 disturbances>>

TurnOff ==
  /\ Running /\ Disturbance /\ power' = "off" /\ Cut
  /\ UNCHANGED <<chip, cartVars, writeVars, want, raceSeen, calls>>

\* A C64 that is turned on begins with a reset.
TurnOn ==
  /\ power = "off" /\ Serves /\ power' = "reset"
  /\ UNCHANGED <<chip, cartVars, writeVars, programVars, want, stale, raceSeen, calls,
                 disturbances>>

User == BeginC64Reset \/ EndC64Reset \/ TurnOff \/ TurnOn
----------------------------------------------------------------------------
(* The main loop *)

\* writeFile begins: the file is created anew.
BeginWriteFile(isLeaving) ==
  /\ mpc = "loop" /\ mpc' = "lower"
  /\ leaving' = isLeaving /\ eepromFile' = NoFile
  /\ UNCHANGED <<chip, cartVars, lower, ff, power, programVars, want, stale, raceSeen, calls,
                 disturbances>>

\* Mutant: the way to the menu does not save
TestForJumpUnsaved ==
  /\ mpc = "loop" /\ power = "held" /\ mpc' = "menu" /\ power' = "on"
  /\ UNCHANGED <<chip, cartVars, leaving, lower, eepromFile, ff, programVars, want, stale, raceSeen,
                 calls, disturbances>>

\* TEST_FOR_JUMP_TO_MAINMENU2FIQs_CB
TestForJump == power = "held" /\ BeginWriteFile(TRUE)

\* Only a C64 that is off has no cycle while the loop goes round 10000 times.
LooksOff == power = "off" /\ BeginWriteFile(FALSE)

Below(a) == a[1] = 0

WriteLower ==
  /\ mpc = "lower" /\ mpc' = "upper"
  /\ lower' = chip.mem /\ raceSeen' = FALSE
  /\ UNCHANGED <<chip, cartVars, leaving, eepromFile, ff, power, programVars, want, stale, calls,
                 disturbances>>

WriteUpper ==
  /\ mpc = "upper" /\ mpc' = "close"
  /\ lower' = [a \in Addresses |-> IF Below(a) THEN lower[a] ELSE chip.mem[a]]
  /\ UNCHANGED <<chip, cartVars, leaving, eepromFile, ff, power, programVars, want, stale, raceSeen, calls,
                 disturbances>>

\* The file is closed, and only now it is whole; on the way to the menu the handler is
\* disconnected.
Close ==
  /\ mpc = "close" /\ mpc' = (IF leaving THEN "menu" ELSE "loop")
  /\ eepromFile' = lower /\ lower' = NoFile
  /\ IF leaving THEN Cut /\ power' = "on" ELSE UNCHANGED <<programVars, stale, power>>
  /\ UNCHANGED <<chip, cartVars, leaving, ff, want, raceSeen, calls, disturbances>>

\* KernelEFRun until the C64 is released: the chip is deselected only the first time.
Launch ==
  /\ mpc = "menu" /\ mpc' = "loop"
  /\ chip' = [(IF ff THEN writeSelect(chip, 0) ELSE chip) EXCEPT !.mem = Contents(eepromFile)]
  /\ want' = [want EXCEPT !.mem = Contents(eepromFile)]
  /\ ff' = FALSE /\ reg0' = 0 /\ lines' = "8K" /\ leaving' = FALSE
  /\ UNCHANGED <<lower, eepromFile, power, programVars, stale, raceSeen, calls, disturbances>>

\* The Pi loses power, and with it all but the file; there is no promise for the rest.
PowerLoss ==
  /\ Serves /\ Disturbance
  /\ chip' = InitialChip /\ mpc' = "menu" /\ lower' = NoFile /\ ff' = TRUE
  /\ power' = "on" /\ Idle
  /\ want' = [mem |-> Contents(eepromFile), enabled |-> FALSE]
  /\ stale' = FALSE /\ raceSeen' = FALSE
  /\ UNCHANGED <<cartVars, leaving, eepromFile, calls>>

SavingLoop == TestForJump \/ LooksOff \/ WriteLower \/ WriteUpper \/ Close
ProgramAccess == ProgramWrites \/ ProgramReads

GMOD2Next ==
  \/ \E c \in Calls : Ask(c)
  \/ ProgramAccess \/ GMOD2ResetCycle \/ User \/ SavingLoop \/ Launch \/ PowerLoss

\* The C64 and the main loop run; nobody owes anything else.
GMOD2Fairness ==
  WF_gmod2Vars(SavingLoop) /\ WF_gmod2Vars(ProgramAccess) /\ WF_gmod2Vars(GMOD2ResetCycle)

GMOD2Spec == GMOD2Init /\ [][GMOD2Next]_gmod2Vars /\ GMOD2Fairness
----------------------------------------------------------------------------
(* Properties *)

Memories == [Addresses -> Word]
Commands == {"none", "CMD00", "WRITE", "READ", "ERASE", "WEN", "WDS", "ERAL", "WRAL",
             "READDUMMY", "READDATA", "ISBUSY", "ISREADY"}
ChipTypes ==
  /\ chip.cs \in Bit /\ chip.clock \in Bit /\ chip.dataIn \in Bit /\ chip.dataOut \in Bit
  /\ chip.command \in Commands /\ chip.shift \in Seq(Bit)
  /\ chip.address \in Addresses \cup {PastEnd} /\ chip.enabled \in BOOLEAN
  /\ chip.mem \in Memories

\* The chip, the board, the file, the program and what it expects keep their types; the
\* shift register does not outgrow an instruction, nor the output a word.
GMOD2TypeOK ==
  /\ ChipTypes
  /\ Len(chip.shift) < 4 + AddressBits + WordBits /\ chip.outCount \in 0 .. WordBits - 1
  /\ reg0 \in 0 .. 63 /\ lines \in {"8K", "off"} /\ power \in {"on", "reset", "held", "off"}
  /\ mpc \in {"menu", "loop", "lower", "upper", "close"}
  /\ eepromFile \in Memories \cup {NoFile} /\ (mpc \in {"upper", "close"} => lower \in Memories)
  /\ call \in Calls \cup {NoCall} /\ step \in {"idle", "get", "poll"} \cup Writing
  /\ clocked \in Nat /\ got \in Seq(Bit) /\ polled \in Seq(Bit)
  /\ want.mem \in Memories /\ want.enabled \in BOOLEAN

\* Each call does what the data sheet says, at its last bit, to its own word, and nothing
\* else changes the EEPROM; not even calls that were cut by a reset or a C64 turned off,
\* unless the clock was high (m93c86.cpp, kernel_ef.cpp:917-943).  Before the first launch
\* the chip is empty.
AsWanted == chip.enabled = want.enabled /\ (ff \/ chip.mem = want.mem)

\* The bits a program reads are those of the word it asks for, and of the next one.
ReadsBack ==
  call.op = "READ" =>
    \A i \in DOMAIN got :
      got[i] = (want.mem[call.address] \o want.mem[Following(call.address)])[i]

\* The falling edge of CS after a command that writes "then signals busy state", and "the
\* software will see one busy state for one read" (m93c86.cpp:133, 99).  (That the write
\* itself "kicks off on falling edge on CS" is not so: it is done at the last bit.)  The
\* erasing of a single word is missing there (135-139).
BusyOnce == call.op # "ERASE" => polled \in {<<>>, <<0>>, <<0, 1>>}

\* All three, as long as no call has been cut while the clock was high.
CallsHaveEffect == stale \/ (AsWanted /\ ReadsBack /\ BusyOnce)

\* Who comes back to the menu has the EEPROM in the file as it was at last, unless a
\* program went on to write it while it was being saved.
SavedForMenu == mpc = "menu" => Contents(eepromFile) = chip.mem \/ raceSeen \/ ff

\* A program that waits for the EEPROM to be ready goes on (but for an erased word).
CallsEnd == (call.op \notin {"none", "ERASE"} /\ ~stale) ~> (call = NoCall \/ stale)

\* A C64 that stays off gets its EEPROM saved.
OffIsSaved == (power = "off" /\ Serves) ~> (power # "off" \/ eepromFile = chip.mem \/ ~Serves)

\* Both: the program goes on, and the saving gets done (kernel_ef.cpp:741-782).
EverythingEnds == CallsEnd /\ OffIsSaved
=============================================================================
