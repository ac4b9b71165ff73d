---------------------------- MODULE EasyFlashProofs ----------------------------
(***************************************************************************)
(* Theorems about EasyFlash, for all numbers of banks, cartridge files,    *)
(* programs and countdowns.  First the types, which hold only together     *)
(* with the driver and the handler being in step (IInv); then what the     *)
(* file holds (LossInv); then what a command does to the flash (Effect).   *)
(***************************************************************************)
EXTENDS EasyFlash, SequenceTheorems, TLAPS

\* The parameters of a command, as far as they have been sent.
LEMMA SentParameters ==
  ASSUME NEW s \in Seq(Nat), NEW n \in Nat, 1 <= n, n < Len(s)
  PROVE  /\ SubSeq(s, 2, 1) = <<>>
         /\ SubSeq(s, 2, n) \in Seq(Nat) /\ Len(SubSeq(s, 2, n)) = n - 1
         /\ SubSeq(s, 2, n + 1) = Append(SubSeq(s, 2, n), s[n + 1])
  <1>1. SubSeq(s, 2, 1) = <<>>
    BY SubSeqEmpty
  <1>2. SubSeq(s, 2, n) \in Seq(Nat) /\ Len(SubSeq(s, 2, n)) = n - 1
    BY SubSeqProperties
  <1>3. SubSeq(s, 2, n + 1) = Append(SubSeq(s, 2, n), s[n + 1])
    BY SubSeqRecursiveSecond
  <1> QED
    BY <1>1, <1>2, <1>3

\* What is left of a request after its command.
LEMMA ThreeParameters ==
  ASSUME NEW s \in Seq(Nat), Len(s) = 4
  PROVE  SubSeq(s, 2, 4)[2] = s[3] /\ SubSeq(s, 2, 4)[3] = s[4]
  <1>1. \A i \in 2 .. 4 : s[i] \in Nat
    <2> TAKE i \in 2 .. 4
    <2>1. i \in 1 .. Len(s)
      OBVIOUS
    <2> QED
      BY <2>1, ElementOfSeq
  <1>2. \A i \in 1 .. 3 : SubSeq(s, 2, 4)[i] = s[2 + i - 1]
    BY <1>1, SubSeqProperties
  <1> QED
    BY <1>2

\* and of two bytes is a byte.
LEMMA AndByte == ASSUME NEW a \in Byte, NEW b \in Byte PROVE And(a, b) \in Byte
  <1>1. a \in {0, 1, 2, 3} /\ b \in {0, 1, 2, 3}
    BY DEF Byte, Erased
  <1>2. (a % 2) \in {0, 1} /\ (b % 2) \in {0, 1} /\ (a \div 2) \in {0, 1} /\ (b \div 2) \in {0, 1}
    BY <1>1
  <1>3. (a % 2) * (b % 2) \in {0, 1} /\ (a \div 2) * (b \div 2) \in {0, 1}
    BY <1>2
  <1> QED
    BY <1>3 DEF And, Byte, Erased

-----------------------------------------------------------------------------
(* Types, and the driver and the handler in step *)

Flags ==
  /\ eapiCRTModified \in BOOLEAN /\ dmaLow \in BOOLEAN /\ leaving \in BOOLEAN
  /\ onCard \in BOOLEAN /\ resetSeen \in BOOLEAN /\ heldLong \in BOOLEAN

FlashTypes ==
  /\ flash \in [Banks \X Chips -> Byte]
  /\ missed \subseteq PacketSet

CommandTypes ==
  /\ eapiState \in {"main", "write", "erase"}
  /\ eapiBufferIn \in Seq(Nat) /\ Len(eapiBufferIn) <= 2
  /\ reply \in {<<>>, <<OK>>, <<WRITE_ERROR>>}

DriverTypes ==
  /\ c64 \in {"run", "reset", "off"}
  /\ cpu \in {"idle", "bank", "send", "reply"}
  /\ call \in Writes \cup Erases \cup {NoCall}
  /\ sent \in 0 .. 4 /\ shadow \in Banks /\ calls \in Nat

BusTypes == reg0 \in Banks /\ releaseDMA \in 0 .. NumDmaCycles - 1

SaveTypes ==
  /\ mainloopCount \in 0 .. OffCount + 1 /\ count \in 0 .. OffCount + 1
  /\ pc \in {"test", "count", "store", "open", "patch", "clear", "leave", "returned", "halted"}
  /\ pos \in 1 .. Len(Packets) + 1
  /\ rawCRT \in [PacketSet -> Byte] /\ file \in [PacketSet -> Byte]

\* The parts of the type invariant.
LEMMA TypeParts ==
  TypeOK <=> Flags /\ FlashTypes /\ CommandTypes /\ DriverTypes /\ BusTypes /\ SaveTypes
  BY DEF TypeOK, Flags, FlashTypes, CommandTypes, DriverTypes, BusTypes, SaveTypes

\* The types are not inductive: that only bytes get into the flash depends on the
\* handler counting the bytes of a command as the driver does.  In step they
\* stay because a C64 that is reset has no call, and its handler no command.
InStep ==
  /\ c64 # "run" => cpu = "idle"
  /\ c64 = "reset" /\ resetSeen => eapiState = "main"
  /\ cpu = "bank" => sent = 0
  /\ cpu = "send" => sent < Len(Request)
  /\ DriverInStep

IInv == TypeOK /\ InStep

\* What the file holds packets of is in the flash.
LEMMA PacketsInFlash == PacketSet \subseteq Banks \X Chips
  BY PacketsAssumption DEF PacketSet

\* A call is one to write, to erase or to initialise.
LEMMA RequestParts ==
  ASSUME DriverTypes
  PROVE  /\ Request \in Seq(Nat)
         /\ call.cmd = INIT_EAPI => Len(Request) = 1 /\ Request[1] = INIT_EAPI
         /\ call.cmd # INIT_EAPI =>
              /\ call.cmd \in {WRITE_FLASH, ERASE_SECTOR}
              /\ Len(Request) = 4
              /\ Request[1] = call.cmd /\ Request[2] = 0
              /\ Request[3] = call.hi /\ Request[4] = call.val
              /\ call.hi \in {128, 160, 224} /\ call.val \in Nat
              /\ call.cmd = WRITE_FLASH => call.val \in Byte /\ call.hi \in {128, 224}
  <1>1. /\ call.cmd \in {INIT_EAPI, WRITE_FLASH, ERASE_SECTOR}
        /\ call.hi \in Nat /\ call.val \in Nat
        /\ call.cmd # INIT_EAPI => call.hi \in {128, 160, 224}
        /\ call.cmd = WRITE_FLASH => call.val \in Byte /\ call.hi \in {128, 224}
    <2>1. CASE call \in Writes
      <3>1. call.cmd = WRITE_FLASH /\ call.hi \in {128, 224} /\ call.val \in Values
        BY <2>1 DEF Writes
      <3>2. Values \subseteq Byte /\ Byte \subseteq Nat
        BY ProgramAssumption DEF Byte, Erased
      <3>3. call.cmd \in {INIT_EAPI, WRITE_FLASH, ERASE_SECTOR} /\ call.cmd # INIT_EAPI
        BY <3>1 DEF WRITE_FLASH, INIT_EAPI, ERASE_SECTOR
      <3>4. call.hi \in {128, 160, 224}
        BY <3>1
      <3>5. call.hi \in Nat
        BY <3>4
      <3>6. call.val \in Byte /\ call.val \in Nat
        <4>1. call.val \in Values
          BY <3>1
        <4>2. call.val \in Byte
          BY <4>1, <3>2, Zenon
        <4> QED
          BY <4>2, <3>2, Zenon
      <3> QED
        BY <3>1, <3>3, <3>4, <3>5, <3>6
    <2>2. CASE call \in Erases
      <3>1. call.cmd = ERASE_SECTOR /\ call.hi \in {128, 160, 224} /\ call.val \in EraseBanks
        BY <2>2 DEF Erases
      <3>2. call.val \in Nat
        <4>1. call.val \in EraseBanks
          BY <3>1
        <4>2. EraseBanks \subseteq Nat
          BY ProgramAssumption
        <4> QED
          BY <4>1, <4>2, Zenon
      <3>3. call.cmd \in {INIT_EAPI, WRITE_FLASH, ERASE_SECTOR} /\ call.cmd # WRITE_FLASH
        BY <3>1 DEF WRITE_FLASH, INIT_EAPI, ERASE_SECTOR
      <3>4. call.hi \in Nat
        BY <3>1
      <3> QED
        BY <3>1, <3>2, <3>3, <3>4
    <2>3. CASE call = NoCall
      BY <2>3 DEF NoCall, WRITE_FLASH, INIT_EAPI, ERASE_SECTOR
    <2>4. call \in Writes \/ call \in Erases \/ call = NoCall
      BY DriverTypes DEF DriverTypes
    <2> QED
      BY <2>1, <2>2, <2>3, <2>4
  <1>2. CASE call.cmd = INIT_EAPI
    BY <1>2 DEF Request, INIT_EAPI
  <1>3. CASE call.cmd # INIT_EAPI
    <2>1. Request = <<call.cmd, 0, call.hi, call.val>>
      BY <1>3 DEF Request
    <2>2. call.cmd \in Nat
      BY <1>1 DEF WRITE_FLASH, INIT_EAPI, ERASE_SECTOR
    <2> QED
      BY <1>1, <1>3, <2>1, <2>2
  <1> QED
    BY <1>2, <1>3

\* Initially the types hold and nothing is under way.
LEMMA InitInv == Init => IInv
  <1> SUFFICES ASSUME Init PROVE IInv
    OBVIOUS
  <1>1. Flags
    BY Zenon DEF Init, Flags
  <1>2. FlashTypes
    <2>1. PICK old \in Stale :
            flash = [p \in Banks \X Chips |-> IF p \in PacketSet THEN file[p] ELSE old]
      BY DEF Init
    <2>2. old \in Byte /\ \A p \in PacketSet : file[p] \in Byte
      BY ContentsAssumption DEF Init
    <2> QED
      BY <2>1, <2>2 DEF Init, FlashTypes
  <1>3. CommandTypes
    BY DEF Init, CommandTypes
  <1>4. DriverTypes
    BY BanksAssumption DEF Init, DriverTypes, Banks
  <1>5. BusTypes
    BY BanksAssumption, CountsAssumption DEF Init, BusTypes, Banks
  <1>6. SaveTypes
    BY CountsAssumption, ContentsAssumption, PacketsAssumption DEF Init, SaveTypes
  <1>7. InStep
    BY DEF Init, InStep, DriverInStep
  <1> QED
    BY <1>1, <1>2, <1>3, <1>4, <1>5, <1>6, <1>7, TypeParts DEF IInv

\* The flags stay Boolean.
LEMMA FlagsKept == ASSUME Flags, [Next]_vars PROVE Flags'
  <1>1. CASE \E b \in ProgramBanks : SelectBank(b)
    BY <1>1, Zenon DEF SelectBank, Halt, flashVars, lineVars, saveVars, cardVars, Flags
  <1>2. CASE \E c \in Writes \cup Erases \cup {NoCall} : Call(c)
    BY <1>2, Zenon DEF Call, CountDown, flashVars, lineVars, saveVars, cardVars, Flags
  <1>3. CASE DriverBank
    BY <1>3, Zenon DEF DriverBank, Halt, flashVars, lineVars, saveVars, cardVars, Flags
  <1>4. CASE DriverSend
    <2>1. eapiCRTModified' \in BOOLEAN
      BY <1>4, Zenon DEF DriverSend, Receive, Command, Parameter, Execute, flashVars, Flags
    <2> QED
      BY <1>4, <2>1, Zenon DEF DriverSend, Halt, lineVars, saveVars, cardVars, Flags
  <1>5. CASE DriverReply
    BY <1>5, Zenon DEF DriverReply, CountDown, flashVars, lineVars, saveVars, cardVars, Flags
  <1>6. CASE PowerOff \/ Reset
    BY <1>6, Zenon DEF PowerOff, Reset, dmaVars, flashVars, saveVars, cardVars, Flags
  <1>7. CASE ResetCycle \/ HoldReset \/ ReleaseReset
    BY <1>7, Zenon DEF ResetCycle, InitEF, HoldReset, ReleaseReset, CountDown, flashVars,
       saveVars, cardVars, Flags
  <1>8. CASE OtherCycle
    BY <1>8, Zenon DEF OtherCycle, CountDown, flashVars, lineVars, saveVars, cardVars, Flags
  <1>9. CASE TestForJump
    BY <1>9, Zenon DEF TestForJump, mainUnchanged, dmaVars, lineVars, Flags
  <1>10. CASE ReadCount \/ StoreCount \/ SavePatch \/ SaveWrite \/ ClearModified \/ Return
    BY <1>10, Zenon DEF ReadCount, StoreCount, SavePatch, SaveWrite, ClearModified, Return,
       mainUnchanged, dmaVars, lineVars, saveVars, Flags
  <1>11. CASE SaveOpen
    BY <1>11, Zenon DEF SaveOpen, mainUnchanged, dmaVars, lineVars, Flags
  <1>12. CASE UNCHANGED vars
    BY <1>12, Zenon DEF vars, dmaVars, flashVars, lineVars, saveVars, cardVars, Flags
  <1> QED
    BY <1>1, <1>2, <1>3, <1>4, <1>5, <1>6, <1>7, <1>8, <1>9, <1>10, <1>11, <1>12
    DEF Next, Program, Driver, User, MainLoop

\* The save and the halt of the C64 in a cycle of the 6510.
LEMMA CycleTypes ==
  ASSUME SaveTypes, CPUCycle, UNCHANGED <<count, pc, pos, rawCRT, file>>
  PROVE  SaveTypes'
  BY CountsAssumption DEF SaveTypes, CPUCycle

\* The countdown of the DMA line, and an access that halts.
LEMMA CountDownTypes == ASSUME BusTypes, CountDown, reg0' \in Banks PROVE BusTypes'
  BY CountsAssumption DEF BusTypes, CountDown

\* An access to a register halts the C64 and keeps the types of the bus.
LEMMA HaltTypes == ASSUME Halt, reg0' \in Banks PROVE BusTypes'
  BY CountsAssumption DEF BusTypes, Halt

\* The bank register is masked.
LEMMA BankInRange == ASSUME NEW b \in Nat PROVE b % NumBanks \in Banks
  BY BanksAssumption DEF Banks

\* What the commands make of the flash.
LEMMA ProgrammedType ==
  ASSUME FlashTypes, reg0 \in Banks, NEW hi \in Nat, NEW value \in Byte
  PROVE  Programmed(hi, value) \in [Banks \X Chips -> Byte]
  <1> DEFINE p == <<reg0, IF hi < 224 THEN "L" ELSE "H">>
  <1>1. p \in Banks \X Chips
    BY DEF Chips
  <1>2. flash[p] \in Byte /\ And(flash[p], value) \in Byte
    BY <1>1, AndByte DEF FlashTypes
  <1> QED
    BY <1>1, <1>2 DEF Programmed, FlashTypes

\* Erasing a sector leaves bytes, and so does storing such a flash.
LEMMA WipedType ==
  ASSUME FlashTypes, NEW hi, NEW bank
  PROVE  Wiped(bank, hi) \in [Banks \X Chips -> Byte]
  <1>1. Erased \in Byte
    BY DEF Erased, Byte
  <1> QED
    BY <1>1 DEF Wiped, FlashTypes

\* A flash of bytes is a flash of bytes after a command has changed it.
LEMMA ChangeTypes ==
  ASSUME FlashTypes, NEW f \in [Banks \X Chips -> Byte], Change(f)
  PROVE  FlashTypes'
  BY DEF FlashTypes, Change, PacketSet

\* A byte of a command: its first, one of its parameters, or the last.
LEMMA FirstByte ==
  ASSUME IInv, DriverSend, sent = 0
  PROVE  /\ eapiState = "main" /\ Command(call.cmd)
         /\ call.cmd = INIT_EAPI => cpu' = "reply"
         /\ call.cmd # INIT_EAPI => cpu' = "send"
         /\ sent' = 1 /\ UNCHANGED <<call, c64, flash, missed>>
  <1>1. DriverTypes /\ InStep
    BY TypeParts DEF IInv
  <1>2. c64 = "run" /\ cpu = "send" /\ eapiState = "main"
    BY <1>1 DEF DriverSend, InStep, DriverInStep
  <1>3. Request[1] = call.cmd /\ Len(Request) = IF call.cmd = INIT_EAPI THEN 1 ELSE 4
    BY <1>1, RequestParts
  <1> QED
    BY <1>2, <1>3 DEF DriverSend, Receive, Command, flashVars, lineVars

\* The byte the driver sends after the first one is the parameter the handler waits
\* for; the last one makes the driver wait for the reply.
LEMMA NextByte ==
  ASSUME IInv, DriverSend, sent # 0
  PROVE  /\ call.cmd # INIT_EAPI /\ sent \in 1 .. 3 /\ sent' = sent + 1
         /\ eapiState = IF call.cmd = WRITE_FLASH THEN "write" ELSE "erase"
         /\ Append(eapiBufferIn, Request[sent + 1]) = SubSeq(Request, 2, sent + 1)
         /\ SubSeq(Request, 2, sent + 1) \in Seq(Nat)
         /\ Len(SubSeq(Request, 2, sent + 1)) = sent
         /\ Parameter(Request[sent + 1])
         /\ cpu' = IF sent = 3 THEN "reply" ELSE "send"
         /\ UNCHANGED <<call, c64>>
  <1>1. DriverTypes /\ InStep
    BY TypeParts DEF IInv
  <1>2. cpu = "send" /\ c64 = "run" /\ sent \in 1 .. 4 /\ sent < Len(Request)
    BY <1>1 DEF DriverSend, InStep, DriverTypes, Runs
  <1>3. call.cmd # INIT_EAPI /\ Len(Request) = 4 /\ Request \in Seq(Nat)
        /\ call.cmd \in {WRITE_FLASH, ERASE_SECTOR}
    <2>1. Request \in Seq(Nat) /\ (call.cmd = INIT_EAPI => Len(Request) = 1)
      BY <1>1, RequestParts
    <2>2. sent \in 1 .. 4 /\ ~(sent < 1)
      BY <1>2
    <2>3. ~(sent < Len(Request) /\ Len(Request) = 1)
      BY <2>2
    <2>4. call.cmd # INIT_EAPI
      BY <1>2, <2>1, <2>3, Zenon
    <2> QED
      BY <1>1, <2>1, <2>4, RequestParts
  <1>4. sent \in 1 .. 3
    BY <1>2, <1>3
  <1>5. /\ eapiState = IF call.cmd = WRITE_FLASH THEN "write" ELSE "erase"
        /\ eapiBufferIn = SubSeq(Request, 2, sent)
    BY <1>1, <1>2 DEF InStep, DriverInStep
  <1>6. /\ SubSeq(Request, 2, sent + 1) = Append(eapiBufferIn, Request[sent + 1])
        /\ SubSeq(Request, 2, sent) \in Seq(Nat) /\ Len(SubSeq(Request, 2, sent)) = sent - 1
        /\ Request[sent + 1] \in Nat
    <2>1. sent \in Nat /\ 1 <= sent /\ sent < Len(Request) /\ sent + 1 \in 1 .. Len(Request)
      BY <1>3, <1>4
    <2>2. /\ SubSeq(Request, 2, sent + 1) = Append(SubSeq(Request, 2, sent), Request[sent + 1])
          /\ SubSeq(Request, 2, sent) \in Seq(Nat)
          /\ Len(SubSeq(Request, 2, sent)) = sent - 1
      BY <1>3, <2>1, SentParameters
    <2>3. Request[sent + 1] \in Nat
      BY <1>3, <2>1, ElementOfSeq
    <2> QED
      BY <1>5, <2>2, <2>3
  <1>7. /\ SubSeq(Request, 2, sent + 1) \in Seq(Nat)
        /\ Len(SubSeq(Request, 2, sent + 1)) = sent
    BY <1>4, <1>5, <1>6
  <1>8. Parameter(Request[sent + 1])
    BY <1>5 DEF DriverSend, Receive
  <1>9. /\ sent' = sent + 1 /\ cpu' = (IF sent = 3 THEN "reply" ELSE "send")
        /\ UNCHANGED <<call, c64>>
    BY <1>3, <1>4 DEF DriverSend, lineVars
  <1> QED
    BY <1>3, <1>4, <1>5, <1>6, <1>7, <1>8, <1>9

\* In the middle of a call driver and handler have counted alike.
LEMMA SendingInStep ==
  ASSUME cpu' = "send", c64' = "run", sent' \in 1 .. 3, Len(Request') = 4,
         eapiState' = IF call'.cmd = WRITE_FLASH THEN "write" ELSE "erase",
         eapiBufferIn' = SubSeq(Request', 2, sent')
  PROVE  InStep'
  <1>1. sent' < Len(Request')
    OBVIOUS
  <1> QED
    BY <1>1 DEF InStep, DriverInStep

\* A byte of a command keeps the handler in step with the driver, and executes
\* the command with the last one.
LEMMA SendInStep ==
  ASSUME IInv, DriverSend
  PROVE  FlashTypes' /\ CommandTypes' /\ InStep'
  <1>1. /\ FlashTypes /\ CommandTypes /\ DriverTypes /\ BusTypes /\ InStep
        /\ c64 = "run"
    BY TypeParts DEF IInv, DriverSend, Runs
  <1>2. call' = call => Request' = Request
    BY DEF Request
  <1>3. CASE sent = 0
    <2>1. /\ Command(call.cmd) /\ sent' = 1 /\ UNCHANGED <<call, c64, flash, missed>>
          /\ call.cmd = INIT_EAPI => cpu' = "reply"
          /\ call.cmd # INIT_EAPI => cpu' = "send"
      BY <1>3, FirstByte
    <2>2. FlashTypes'
      BY <1>1, <2>1 DEF FlashTypes
    <2>3. CommandTypes'
      BY <1>1, <2>1 DEF CommandTypes, Command
    <2>4. CASE call.cmd = INIT_EAPI
      <3>1. eapiState' = "main" /\ cpu' = "reply" /\ c64' = "run"
        BY <1>1, <2>1, <2>4 DEF Command, INIT_EAPI, WRITE_FLASH, ERASE_SECTOR
      <3> QED
        BY <2>2, <2>3, <3>1 DEF InStep, DriverInStep
    <2>5. CASE call.cmd # INIT_EAPI
      <3>1. /\ call.cmd \in {WRITE_FLASH, ERASE_SECTOR} /\ Len(Request) = 4
        BY <1>1, <2>5, RequestParts
      <3>2. eapiState' = IF call.cmd = WRITE_FLASH THEN "write" ELSE "erase"
        BY <2>1, <3>1 DEF Command, INIT_EAPI, WRITE_FLASH, ERASE_SECTOR
      <3>3. SubSeq(Request, 2, 1) = <<>>
        BY SubSeqEmpty
      <3>4. eapiBufferIn' = SubSeq(Request, 2, 1)
        BY <2>1, <3>3 DEF Command
      <3>5. sent' = 1 /\ cpu' = "send" /\ call' = call /\ c64' = "run" /\ Request' = Request
        BY <1>1, <1>2, <2>1, <2>5
      <3> QED
        <4>1. /\ eapiState' = IF call'.cmd = WRITE_FLASH THEN "write" ELSE "erase"
              /\ Len(Request') = 4 /\ eapiBufferIn' = SubSeq(Request', 2, sent')
          BY <3>1, <3>2, <3>4, <3>5
        <4> QED
          BY <2>2, <2>3, <3>5, <4>1, SendingInStep
    <2> QED
      BY <2>4, <2>5
  <1>4. CASE sent # 0
    <2> DEFINE in == SubSeq(Request, 2, sent + 1)
    <2>1. /\ call.cmd # INIT_EAPI /\ sent \in 1 .. 3 /\ sent' = sent + 1
          /\ eapiState = IF call.cmd = WRITE_FLASH THEN "write" ELSE "erase"
          /\ Append(eapiBufferIn, Request[sent + 1]) = in
          /\ in \in Seq(Nat) /\ Len(in) = sent
          /\ Parameter(Request[sent + 1])
          /\ cpu' = IF sent = 3 THEN "reply" ELSE "send"
          /\ UNCHANGED <<call, c64>>
      BY <1>4, NextByte
    <2>2. /\ Len(Request) = 4 /\ Request \in Seq(Nat)
          /\ Request[3] = call.hi /\ Request[4] = call.val /\ call.hi \in {128, 160, 224}
          /\ call.cmd = WRITE_FLASH => call.val \in Byte
      BY <1>1, <2>1, RequestParts
    <2>3. Request' = Request
      BY <1>2, <2>1
    <2>4. CASE sent # 3
      <3>1. eapiBufferIn' = in /\ UNCHANGED <<eapiState, reply, flash, missed>>
        BY <2>1, <2>4 DEF Parameter, flashVars
      <3>2. sent' \in 2 .. 3 /\ cpu' = "send" /\ call' = call /\ c64' = "run"
        BY <1>1, <2>1, <2>4
      <3>3. FlashTypes'
        BY <1>1, <3>1 DEF FlashTypes
      <3>4. CommandTypes'
        BY <1>1, <2>1, <2>4, <3>1 DEF CommandTypes
      <3>5. InStep'
        <4>1. eapiState' = IF call'.cmd = WRITE_FLASH THEN "write" ELSE "erase"
          BY <2>1, <3>1, <3>2
        <4>2. eapiBufferIn' = SubSeq(Request', 2, sent') /\ Len(Request') = 4
          BY <2>1, <2>2, <2>3, <3>1
        <4> QED
          BY <3>2, <4>1, <4>2, SendingInStep
      <3> QED
        BY <3>3, <3>4, <3>5
    <2>5. CASE sent = 3
      <3>1. eapiBufferIn' = <<>> /\ Execute(in)
        BY <2>1, <2>5 DEF Parameter
      <3>2. in[2] = call.hi /\ in[3] = call.val
        BY <2>2, <2>5, ThreeParameters
      <3>3. CASE call.cmd = WRITE_FLASH
        <4>1. eapiState = "write" /\ call.val \in Byte /\ call.hi \in Nat
          BY <2>1, <2>2, <3>3
        <4>2. Change(Programmed(call.hi, call.val)) /\ reply' = <<OK>> /\ eapiState' = "main"
          BY <3>1, <3>2, <4>1 DEF Execute, ExecWrite
        <4>3. FlashTypes'
          BY <1>1, <4>1, <4>2, ProgrammedType, ChangeTypes DEF BusTypes
        <4> QED
          BY <1>1, <2>1, <2>5, <3>1, <4>2, <4>3 DEF CommandTypes, InStep, DriverInStep
      <3>4. CASE call.cmd # WRITE_FLASH
        <4>1. eapiState = "erase"
          BY <2>1, <3>4
        <4>2. ExecErase(call.hi, call.val) /\ eapiState' = "main"
          BY <3>1, <3>2, <4>1 DEF Execute
        <4>3. FlashTypes'
          <5>1. CASE SectorInvalid(call.val)
            BY <1>1, <4>2, <5>1 DEF ExecErase, FlashTypes
          <5>2. CASE ~SectorInvalid(call.val)
            BY <1>1, <4>2, <5>2, WipedType, ChangeTypes DEF ExecErase
          <5> QED
            BY <5>1, <5>2
        <4>4. reply' \in {<<OK>>, <<WRITE_ERROR>>}
          BY <4>2 DEF ExecErase
        <4> QED
          BY <1>1, <2>1, <2>5, <3>1, <4>2, <4>3, <4>4 DEF CommandTypes, InStep, DriverInStep
      <3> QED
        BY <3>3, <3>4
    <2> QED
      BY <2>4, <2>5
  <1> QED
    BY <1>3, <1>4

\* Every step keeps what the handler holds in its types.
LEMMA FlashNext ==
  ASSUME IInv, [Next]_vars
  PROVE  FlashTypes' /\ CommandTypes'
  <1> USE DEF FlashTypes, CommandTypes
  <1>1. FlashTypes /\ CommandTypes
    BY TypeParts DEF IInv
  <1>2. CASE DriverSend
    BY <1>2, SendInStep
  <1>3. CASE DriverReply
    BY <1>1, <1>3 DEF DriverReply, flashVars
  <1>4. CASE ResetCycle
    BY <1>1, <1>4 DEF ResetCycle, InitEF, flashVars
  <1>5. CASE SavePatch
    BY <1>1, <1>5 DEF SavePatch, mainUnchanged, eapiVars
  <1>6. CASE UNCHANGED <<flash, missed, eapiState, eapiBufferIn, reply>>
    BY <1>1, <1>6
  <1>7. ASSUME \/ \E b \in ProgramBanks : SelectBank(b)
               \/ \E c \in Writes \cup Erases \cup {NoCall} : Call(c)
               \/ DriverBank \/ PowerOff \/ Reset \/ HoldReset \/ ReleaseReset \/ OtherCycle
        PROVE  UNCHANGED <<flash, missed, eapiState, eapiBufferIn, reply>>
    BY <1>7, Zenon DEF SelectBank, Call, DriverBank, PowerOff, Reset, HoldReset, ReleaseReset,
       OtherCycle, eapiVars, flashVars
  <1>8. ASSUME TestForJump \/ ReadCount \/ StoreCount \/ SaveOpen \/ SaveWrite \/ ClearModified
               \/ Return \/ UNCHANGED vars
        PROVE  UNCHANGED <<flash, missed, eapiState, eapiBufferIn, reply>>
    BY <1>8, Zenon DEF TestForJump, ReadCount, StoreCount, SaveOpen, SaveWrite, ClearModified,
       Return, mainUnchanged, eapiVars, flashVars, vars
  <1> QED
    BY <1>2, <1>3, <1>4, <1>5, <1>6, <1>7, <1>8
    DEF Next, Program, Driver, User, MainLoop

\* Every step keeps the types of the C64 and its driver.
LEMMA DriverNext ==
  ASSUME IInv, [Next]_vars
  PROVE  DriverTypes'
  <1> USE DEF DriverTypes
  <1>1. DriverTypes /\ 0 \in Banks /\ NoCall \in Writes \cup Erases \cup {NoCall}
    BY TypeParts, BanksAssumption DEF IInv, Banks
  <1>2. CASE \E b \in ProgramBanks : SelectBank(b)
    BY <1>1, <1>2, ProgramAssumption DEF SelectBank, lineVars
  <1>3. CASE \E c \in Writes \cup Erases \cup {NoCall} : Call(c)
    BY <1>1, <1>3 DEF Call, lineVars
  <1>4. CASE DriverBank
    BY <1>1, <1>4 DEF DriverBank, lineVars
  <1>5. CASE DriverSend
    <2>1. sent' \in 0 .. 4
      <3>1. CASE sent = 0
        BY <1>5, <3>1 DEF DriverSend
      <3>2. CASE sent # 0
        BY <1>5, <3>2, NextByte
      <3> QED
        BY <3>1, <3>2
    <2> QED
      BY <1>1, <1>5, <2>1 DEF DriverSend, lineVars
  <1>6. CASE DriverReply \/ PowerOff \/ Reset
    BY <1>1, <1>6 DEF DriverReply, PowerOff, Reset, EndOfCall, lineVars
  <1>7. CASE ResetCycle \/ HoldReset \/ ReleaseReset
    BY <1>1, <1>7 DEF ResetCycle, HoldReset, ReleaseReset, driverVars
  <1>8. CASE UNCHANGED <<lineVars, driverVars>>
    BY <1>1, <1>8 DEF lineVars, driverVars
  <1>9. ASSUME OtherCycle \/ MainLoop \/ UNCHANGED vars
        PROVE  UNCHANGED <<lineVars, driverVars>>
    BY <1>9, Zenon DEF OtherCycle, MainLoop, TestForJump, ReadCount, StoreCount, SaveOpen,
       SavePatch, SaveWrite, ClearModified, Return, mainUnchanged, vars
  <1> QED
    BY <1>2, <1>3, <1>4, <1>5, <1>6, <1>7, <1>8, <1>9
    DEF Next, Program, Driver, User

\* Every step keeps the bank register and the countdown in their ranges.
LEMMA BusNext ==
  ASSUME IInv, [Next]_vars
  PROVE  BusTypes'
  <1>1. BusTypes /\ DriverTypes /\ Banks \subseteq Nat /\ 0 \in Banks
    BY TypeParts, BanksAssumption DEF IInv, Banks
  <1>2. CASE \E b \in ProgramBanks : SelectBank(b)
    <2>1. PICK b \in ProgramBanks : SelectBank(b)
      BY <1>2
    <2>2. b \in Banks
      BY ProgramAssumption
    <2>3. Halt /\ reg0' \in Banks
      BY <1>1, <2>1, <2>2, BankInRange DEF SelectBank
    <2> QED
      BY <2>3, HaltTypes
  <1>3. CASE DriverBank
    <2>1. Halt /\ reg0' \in Banks
      BY <1>1, <1>3, BankInRange DEF DriverBank, DriverTypes
    <2> QED
      BY <2>1, HaltTypes
  <1>4. CASE DriverSend
    <2>1. Halt /\ reg0' \in Banks
      BY <1>1, <1>4 DEF DriverSend, BusTypes
    <2> QED
      BY <2>1, HaltTypes
  <1>5. CASE (\E c \in Writes \cup Erases \cup {NoCall} : Call(c)) \/ DriverReply \/ OtherCycle
             \/ HoldReset \/ ReleaseReset
    <2>1. CountDown /\ reg0' = reg0
      BY <1>5, Zenon DEF Call, DriverReply, OtherCycle, HoldReset, ReleaseReset
    <2> QED
      BY <1>1, <2>1, CountDownTypes DEF BusTypes
  <1>6. CASE ResetCycle
    BY <1>1, <1>6, CountsAssumption DEF ResetCycle, InitEF, BusTypes
  <1>7. CASE PowerOff \/ Reset \/ MainLoop \/ UNCHANGED vars
    <2>1. UNCHANGED <<reg0, releaseDMA>>
      BY <1>7, Zenon DEF PowerOff, Reset, MainLoop, TestForJump, ReadCount, StoreCount, SaveOpen,
         SavePatch, SaveWrite, ClearModified, Return, mainUnchanged, dmaVars, vars
    <2> QED
      BY <1>1, <2>1 DEF BusTypes
  <1> QED
    BY <1>2, <1>3, <1>4, <1>5, <1>6, <1>7 DEF Next, Program, Driver, User

\* Every step keeps the types of the main loop and of what it saves.
LEMMA SaveNext ==
  ASSUME IInv, [Next]_vars
  PROVE  SaveTypes'
  <1>1. SaveTypes /\ FlashTypes
    BY TypeParts DEF IInv
  <1>2. CASE ReadCount
    BY <1>1, <1>2 DEF ReadCount, SaveTypes, saveVars
  <1>3. CASE StoreCount
    BY <1>1, <1>3, CountsAssumption DEF StoreCount, LooksOff, SaveTypes, saveVars
  <1>4. CASE TestForJump
    BY <1>1, <1>4 DEF TestForJump, SaveTypes
  <1>5. CASE SaveOpen
    <2>1. Len(Packets) \in Nat
      BY PacketsAssumption
    <2> QED
      BY <1>1, <1>5, <2>1 DEF SaveOpen, SaveTypes
  <1>6. CASE SavePatch
    <2>1. Len(Packets) \in Nat /\ pos + 1 \in 1 .. Len(Packets) + 1
      BY <1>1, <1>6, PacketsAssumption DEF SavePatch, SaveTypes
    <2>2. Packets[pos] \in Banks \X Chips
      BY <1>1, <1>6, PacketsAssumption DEF SavePatch, SaveTypes
    <2>3. rawCRT' \in [PacketSet -> Byte]
      BY <1>1, <1>6, <2>2 DEF SavePatch, SaveTypes, FlashTypes
    <2> QED
      BY <1>1, <1>6, <2>1, <2>3 DEF SavePatch, SaveTypes
  <1>7. CASE SaveWrite
    <2>1. Len(Packets) \in Nat
      BY PacketsAssumption
    <2> QED
      BY <1>1, <1>7, <2>1 DEF SaveWrite, SaveTypes
  <1>8. CASE ClearModified \/ Return
    BY <1>1, <1>8 DEF ClearModified, Return, SaveTypes, saveVars
  <1>9. CASE Program \/ ResetCycle \/ HoldReset \/ ReleaseReset \/ OtherCycle
    <2>1. CPUCycle /\ UNCHANGED <<count, pc, pos, rawCRT, file>>
      BY <1>9, Zenon DEF Program, Driver, SelectBank, Call, DriverBank, DriverSend, DriverReply,
         Runs, ResetCycle, HoldReset, ReleaseReset, OtherCycle, saveVars, cardVars
    <2> QED
      BY <1>1, <2>1, CycleTypes
  <1>10. CASE PowerOff \/ Reset \/ UNCHANGED vars
    <2>1. UNCHANGED <<mainloopCount, count, pc, pos, rawCRT, file>>
      BY <1>10, Zenon DEF PowerOff, Reset, saveVars, cardVars, vars
    <2> QED
      BY <1>1, <2>1 DEF SaveTypes
  <1> QED
    BY <1>2, <1>3, <1>4, <1>5, <1>6, <1>7, <1>8, <1>9, <1>10 DEF Next, User, MainLoop

\* Every step keeps the handler and the driver in step.
LEMMA InStepNext ==
  ASSUME IInv, [Next]_vars
  PROVE  InStep'
  <1>1. InStep /\ DriverTypes
    BY TypeParts DEF IInv
  <1>2. CASE DriverSend
    BY <1>2, SendInStep
  <1>3. CASE \E b \in ProgramBanks : SelectBank(b)
    <2>1. /\ c64 = "run" /\ cpu = "idle"
          /\ UNCHANGED <<c64, cpu, eapiState>>
      BY <1>3, Zenon DEF SelectBank, Runs, lineVars, eapiVars
    <2> QED
      BY <1>1, <2>1 DEF InStep, DriverInStep
  <1>4. CASE \E c \in Writes \cup Erases \cup {NoCall} : Call(c)
    <2>1. PICK c \in Writes \cup Erases \cup {NoCall} : Call(c)
      BY <1>4
    <2>2. /\ c64' = "run" /\ cpu' \in {"bank", "send"} /\ sent' = 0 /\ eapiState' = "main"
      BY <1>1, <2>1 DEF Call, Runs, lineVars, eapiVars, InStep, DriverInStep
    <2>3. Len(Request') \in {1, 4}
      BY DEF Request
    <2> QED
      BY <2>2, <2>3 DEF InStep, DriverInStep
  <1>5. CASE DriverBank
    <2>1. /\ c64' = "run" /\ cpu' = "send" /\ sent' = 0 /\ eapiState' = "main"
          /\ call' = call
      BY <1>1, <1>5 DEF DriverBank, Runs, lineVars, eapiVars, InStep, DriverInStep
    <2>2. Len(Request') \in {1, 4}
      BY DEF Request
    <2> QED
      BY <2>1, <2>2 DEF InStep, DriverInStep
  <1>6. CASE DriverReply
    <2>1. c64' = "run" /\ cpu' = "idle" /\ eapiState' = "main"
      BY <1>1, <1>6 DEF DriverReply, Runs, EndOfCall, lineVars, InStep, DriverInStep
    <2> QED
      BY <2>1 DEF InStep, DriverInStep
  <1>7. CASE PowerOff \/ Reset
    <2>1. cpu' = "idle" /\ (c64' = "off" \/ (c64' = "reset" /\ ~resetSeen'))
      BY <1>7, Zenon DEF PowerOff, Reset, EndOfCall
    <2> QED
      BY <2>1 DEF InStep, DriverInStep
  <1>8. CASE ResetCycle
    <2>1. cpu' = "idle" /\ c64' = "reset" /\ eapiState' = "main"
      BY <1>1, <1>8 DEF ResetCycle, InitEF, InStep
    <2> QED
      BY <2>1 DEF InStep, DriverInStep
  <1>9. CASE HoldReset \/ ReleaseReset
    <2>1. cpu' = "idle" /\ eapiState' = "main" /\ c64' \in {"reset", "run"}
      BY <1>1, <1>9 DEF HoldReset, ReleaseReset, driverVars, eapiVars, InStep
    <2> QED
      BY <2>1 DEF InStep, DriverInStep
  <1>10. CASE OtherCycle \/ MainLoop \/ UNCHANGED vars
    <2>1. UNCHANGED <<c64, resetSeen, cpu, call, sent, eapiState, eapiBufferIn>>
      BY <1>10, Zenon DEF OtherCycle, MainLoop, TestForJump, ReadCount, StoreCount, SaveOpen,
         SavePatch, SaveWrite, ClearModified, Return, mainUnchanged, eapiVars, lineVars,
         driverVars, vars
    <2>2. Request' = Request
      BY <2>1 DEF Request
    <2> QED
      BY <1>1, <2>1, <2>2 DEF InStep, DriverInStep
  <1> QED
    BY <1>2, <1>3, <1>4, <1>5, <1>6, <1>7, <1>8, <1>9, <1>10 DEF Next, Program, Driver, User

\* Every variable keeps its type, and the driver and the handler stay in step.
THEOREM InStepAlways == Spec => []IInv
  <1>1. IInv /\ [Next]_vars => IInv'
    <2> SUFFICES ASSUME IInv, [Next]_vars PROVE IInv'
      OBVIOUS
    <2>1. Flags
      BY TypeParts DEF IInv
    <2>2. /\ Flags' /\ FlashTypes' /\ CommandTypes' /\ DriverTypes' /\ BusTypes' /\ SaveTypes'
          /\ InStep'
      BY <2>1, FlagsKept, FlashNext, DriverNext, BusNext, SaveNext, InStepNext
    <2>3. TypeOK'
      BY <2>2 DEF TypeOK, Flags, FlashTypes, CommandTypes, DriverTypes, BusTypes, SaveTypes
    <2> QED
      BY <2>2, <2>3 DEF IInv
  <1> QED
    BY <1>1, InitInv, PTL DEF Spec

\* Bank and count registers stay in range, only bytes get into the flash, and the
\* command buffer of eapiReceiveByte (kernel_ef.cpp:219-221) never overflows.
THEOREM TypeCorrect == Spec => []TypeOK
  <1>1. IInv => TypeOK
    BY DEF IInv
  <1> QED
    BY <1>1, InStepAlways, PTL

\* Whatever resets and power cycles cut commands short, the handler's state machine
\* is where the driver's sequence of bytes is whenever the program runs.
THEOREM DriverStaysInStep == Spec => []DriverInStep
  <1>1. IInv => DriverInStep
    BY DEF IInv, InStep
  <1> QED
    BY <1>1, InStepAlways, PTL

-----------------------------------------------------------------------------
(* What the file holds *)

Saved == \A p \in PacketSet : file[p] = flash[p] \/ p \in missed

CopiedSoFar ==
  \A i \in 1 .. pos - 1 : rawCRT[Packets[i]] = flash[Packets[i]] \/ Packets[i] \in missed

\* The flag is set while a save is under way, and cleared only after it; what has
\* been copied is up to date but for the packets that changed since.
LossInv ==
  /\ pc \in {"open", "patch", "clear"} => eapiCRTModified
  /\ onCard /\ (~eapiCRTModified \/ pc \in {"clear", "leave", "returned"}) => Saved
  /\ pc = "patch" => CopiedSoFar

\* The flash changes only by commands, which mark the image as modified.
LEMMA SendChanges ==
  ASSUME DriverSend
  PROVE  \/ UNCHANGED <<flash, missed, eapiCRTModified>>
         \/ eapiCRTModified' = TRUE /\ UNCHANGED <<flash, missed>>
         \/ eapiCRTModified' = TRUE /\ Change(flash')
  <1>1. CASE eapiState = "main"
    BY <1>1 DEF DriverSend, Receive, Command, flashVars
  <1>2. CASE eapiState # "main"
    <2>1. UNCHANGED flashVars \/ \E in : Execute(in)
      BY <1>2 DEF DriverSend, Receive, Parameter
    <2>2. ASSUME NEW in, Execute(in)
          PROVE  eapiCRTModified' = TRUE /\ (UNCHANGED <<flash, missed>> \/ Change(flash'))
      BY <2>2 DEF Execute, ExecWrite, ExecErase, Change
    <2> QED
      BY <2>1, <2>2 DEF flashVars
  <1> QED
    BY <1>1, <1>2

\* Every step keeps what the save under way will have copied.
LEMMA LossNext ==
  ASSUME IInv, LossInv, [Next]_vars
  PROVE  LossInv'
  <1> USE DEF LossInv, Saved, CopiedSoFar
  <1>1. SaveTypes /\ FlashTypes /\ Flags /\ Len(Packets) \in Nat
    BY TypeParts, PacketsAssumption DEF IInv
  <1>2. CASE UNCHANGED <<flash, missed, eapiCRTModified, pc, pos, rawCRT, file, onCard>>
    BY <1>2
  <1>3. CASE DriverSend
    <2>1. /\ UNCHANGED <<pc, pos, rawCRT, file, onCard>>
          /\ pc \notin {"returned", "halted"}
      BY <1>3 DEF DriverSend, Runs, CPUCycle, Attached, saveVars, cardVars
    <2>2. CASE UNCHANGED <<flash, missed, eapiCRTModified>>
      BY <1>2, <2>1, <2>2
    <2>3. CASE eapiCRTModified' = TRUE /\ UNCHANGED <<flash, missed>>
      BY <2>1, <2>3
    <2>4. CASE eapiCRTModified' = TRUE /\ Change(flash')
      <3>1. missed' = missed \cup {p \in PacketSet : flash'[p] # flash[p] /\ CopiedAlready(p)}
        BY <2>4 DEF Change
      <3>2. CASE pc \in {"clear", "leave"}
        <4>1. \A p \in PacketSet : flash'[p] = flash[p] \/ p \in missed'
          BY <3>1, <3>2 DEF CopiedAlready
        <4> QED
          BY <2>1, <2>4, <3>1, <3>2, <4>1
      <3>3. CASE pc = "patch"
        <4>1. ASSUME NEW i \in 1 .. pos - 1
              PROVE  rawCRT'[Packets[i]] = flash'[Packets[i]] \/ Packets[i] \in missed'
          <5>1. CopiedAlready(Packets[i])
            BY <3>3 DEF CopiedAlready
          <5>2. Packets[i] \in PacketSet
            BY <1>1 DEF SaveTypes, PacketSet
          <5> QED
            BY <2>1, <3>1, <3>3, <5>1, <5>2
        <4> QED
          BY <2>1, <2>4, <3>3, <4>1
      <3>4. CASE pc \notin {"clear", "leave", "patch"}
        BY <2>1, <2>4, <3>4
      <3> QED
        BY <3>2, <3>3, <3>4
    <2> QED
      BY <1>3, <2>2, <2>3, <2>4, SendChanges
  <1>4. CASE TestForJump
    BY <1>4 DEF TestForJump, mainUnchanged
  <1>5. CASE StoreCount
    BY <1>5 DEF StoreCount, LooksOff, mainUnchanged, saveVars
  <1>6. CASE SaveOpen
    BY <1>6 DEF SaveOpen, mainUnchanged
  <1>7. CASE SavePatch
    <2> DEFINE q == Packets[pos]
    <2>1. /\ pc = "patch" /\ pos' = pos + 1 /\ pos \in 1 .. Len(Packets)
          /\ rawCRT' = [rawCRT EXCEPT ![q] = flash[q]] /\ missed' = missed \ {q}
          /\ UNCHANGED <<pc, eapiCRTModified, flash, file, onCard>>
      BY <1>1, <1>7 DEF SavePatch, mainUnchanged, SaveTypes
    <2>2. eapiCRTModified
      BY <2>1
    <2>3. ASSUME NEW i \in 1 .. pos' - 1
          PROVE  rawCRT'[Packets[i]] = flash'[Packets[i]] \/ Packets[i] \in missed'
      <3>1. i \in 1 .. pos /\ Packets[i] \in PacketSet
        BY <1>1, <2>1, <2>3 DEF SaveTypes, PacketSet
      <3>2. CASE Packets[i] = q
        BY <1>1, <2>1, <3>1, <3>2 DEF SaveTypes
      <3>3. CASE Packets[i] # q
        <4>1. i \in 1 .. pos - 1
          BY <2>1, <3>1, <3>3
        <4> QED
          BY <1>1, <2>1, <3>1, <3>3, <4>1 DEF SaveTypes
      <3> QED
        BY <3>2, <3>3
    <2> QED
      BY <2>1, <2>2, <2>3
  <1>8. CASE SaveWrite
    <2>1. /\ pc = "patch" /\ pos = Len(Packets) + 1 /\ file' = rawCRT /\ pc' \in {"leave", "clear"}
          /\ UNCHANGED <<eapiCRTModified, missed, flash, onCard>>
      BY <1>1, <1>8 DEF SaveWrite, mainUnchanged, SaveTypes
    <2>2. \A p \in PacketSet : \E i \in 1 .. pos - 1 : p = Packets[i]
      BY <1>1, <2>1, PacketsAssumption DEF PacketSet
    <2>3. \A p \in PacketSet : file'[p] = flash[p] \/ p \in missed
      BY <2>1, <2>2
    <2> QED
      BY <2>1, <2>3
  <1>9. CASE ClearModified
    BY <1>9 DEF ClearModified, mainUnchanged, saveVars
  <1>10. CASE Return
    BY <1>10 DEF Return, mainUnchanged, saveVars
  <1>11. ASSUME \/ \E b \in ProgramBanks : SelectBank(b)
                \/ \E c \in Writes \cup Erases \cup {NoCall} : Call(c)
                \/ DriverBank \/ DriverReply \/ PowerOff \/ Reset \/ ResetCycle \/ HoldReset
                \/ ReleaseReset \/ OtherCycle
         PROVE  UNCHANGED <<flash, missed, eapiCRTModified, pc, pos, rawCRT, file, onCard>>
    BY <1>11, Zenon DEF SelectBank, Call, DriverBank, DriverReply, PowerOff, Reset, ResetCycle,
       HoldReset, ReleaseReset, OtherCycle, flashVars, saveVars, cardVars
  <1>12. ASSUME UNCHANGED vars
         PROVE  UNCHANGED <<flash, missed, eapiCRTModified, pc, pos, rawCRT, file, onCard>>
    BY <1>12, Zenon DEF flashVars, saveVars, cardVars, vars
  <1>13. CASE ReadCount
    BY <1>13 DEF ReadCount, mainUnchanged, saveVars
  <1> QED
    BY <1>2, <1>3, <1>4, <1>5, <1>6, <1>7, <1>8, <1>9, <1>10, <1>11, <1>12,
    <1>13
    DEF Next, Program, Driver, User, MainLoop

\* A save and the flash commands of a running C64, whatever their order: the file
\* holds all that was written before the last save had copied it.
THEOREM NothingElseLost == Spec => []OnlyRacedWritesLost
  <1>1. Init => LossInv
    <2> SUFFICES ASSUME Init PROVE LossInv
      OBVIOUS
    <2>1. \A p \in PacketSet : file[p] = flash[p]
      BY PacketsInFlash DEF Init
    <2> QED
      BY <2>1 DEF Init, LossInv, Saved
  <1>2. IInv /\ LossInv /\ [Next]_vars => LossInv'
    BY LossNext
  <1>3. LossInv => OnlyRacedWritesLost
    BY DEF LossInv, OnlyRacedWritesLost, Saved
  <1> QED
    BY <1>1, <1>2, <1>3, InStepAlways, PTL DEF Spec

-----------------------------------------------------------------------------
(* What a command does *)

\* The driver has set the bank of the call.
BankSet == cpu = "send" /\ call.cmd # INIT_EAPI => reg0 = shadow

\* Every step keeps the bank the driver has set.
LEMMA BankSetNext ==
  ASSUME IInv, BankSet, [Next]_vars
  PROVE  BankSet'
  <1> USE DEF BankSet
  <1>1. shadow \in Banks
    BY TypeParts DEF IInv, DriverTypes
  <1>2. CASE \E b \in ProgramBanks : SelectBank(b)
    BY <1>2 DEF SelectBank
  <1>3. CASE \E c \in Writes \cup Erases \cup {NoCall} : Call(c)
    BY <1>3 DEF Call
  <1>4. CASE DriverBank
    <2>1. shadow % NumBanks = shadow
      BY <1>1, BanksAssumption DEF Banks
    <2> QED
      BY <1>4, <2>1 DEF DriverBank
  <1>5. CASE DriverSend
    BY <1>5 DEF DriverSend
  <1>6. CASE DriverReply \/ PowerOff \/ Reset
    BY <1>6 DEF DriverReply, PowerOff, Reset, EndOfCall
  <1>7. CASE ResetCycle
    <2>1. cpu' = "idle"
      BY <1>7 DEF ResetCycle, IInv, InStep
    <2> QED
      BY <2>1
  <1>8. CASE UNCHANGED <<reg0, driverVars>>
    BY <1>8 DEF driverVars
  <1>9. ASSUME HoldReset \/ ReleaseReset \/ OtherCycle \/ MainLoop \/ UNCHANGED vars
        PROVE  UNCHANGED <<reg0, driverVars>>
    BY <1>9, Zenon DEF HoldReset, ReleaseReset, OtherCycle, MainLoop, TestForJump, ReadCount,
       StoreCount, SaveOpen, SavePatch, SaveWrite, ClearModified, Return, mainUnchanged, vars
  <1> QED
    BY <1>2, <1>3, <1>4, <1>5, <1>6, <1>7, <1>8, <1>9 DEF Next, Program, Driver, User

\* Division of a bank by the size of a sector.
LEMMA Divided ==
  ASSUME NEW a \in Nat, NEW s \in Nat \ {0}
  PROVE  a = s * (a \div s) + (a % s) /\ a % s \in 0 .. s - 1 /\ a \div s \in Nat
  OBVIOUS

\* The sector of a bank, and the last bank of a sector.
LEMMA DividedOnce ==
  ASSUME NEW q \in Nat, NEW r \in Nat, NEW s \in Nat \ {0}, r < s
  PROVE  (s * q + r) \div s = q /\ (s * q + r) % s = r
  OBVIOUS

\* A sector ends where the next one begins.
LEMMA WholeSectors ==
  ASSUME NEW a \in Nat, NEW b \in Nat, NEW s \in Nat \ {0}, a < b
  PROVE  s * a + s <= s * b
  OBVIOUS

\* The banks that the handler takes for the beginning of a sector are those that are.
LEMMA SectorBegins ==
  ASSUME NEW b \in Nat
  PROVE  SectorInvalid(b) <=> b \notin {s * SectorBanks : s \in 0 .. NumBanks \div SectorBanks - 1}
  <1> DEFINE S == SectorBanks
             n == NumBanks \div S
  <1>1. S \in Nat \ {0} /\ NumBanks \in Nat /\ NumBanks = S * n /\ n \in Nat
    BY BanksAssumption, SectorsAssumption, Divided
  <1> HIDE DEF S, n
  <1>2. ASSUME b < NumBanks, b % S = 0
        PROVE  \E s \in 0 .. n - 1 : b = s * S
    <2>1. b = S * (b \div S) /\ b \div S \in Nat
      BY <1>1, <1>2, Divided
    <2>2. ~(n <= b \div S)
      <3>1. CASE n = b \div S
        BY <1>1, <1>2, <2>1, <3>1
      <3>2. CASE n < b \div S
        <4>1. S * n + S <= S * (b \div S)
          BY <1>1, <2>1, <3>2, WholeSectors
        <4>2. S * n \in Nat
          BY <1>1
        <4> QED
          BY <1>1, <1>2, <2>1, <4>1, <4>2
      <3> QED
        BY <1>1, <2>1, <3>1, <3>2
    <2>3. b \div S \in 0 .. n - 1 /\ b = (b \div S) * S
      BY <1>1, <2>1, <2>2
    <2> QED
      BY <2>3
  <1>3. ASSUME NEW s \in 0 .. n - 1, b = s * S
        PROVE  b < NumBanks /\ b % S = 0
    <2>1. s \in Nat /\ s < n /\ b = S * s + 0
      BY <1>1, <1>3
    <2>2. b % S = 0
      BY <1>1, <2>1, DividedOnce
    <2>3. S * s + S <= S * n
      BY <1>1, <2>1, WholeSectors
    <2> QED
      BY <1>1, <2>1, <2>2, <2>3
  <1>4. SectorInvalid(b) <=> ~(b < NumBanks /\ b % S = 0)
    BY <1>1 DEF SectorInvalid, S
  <1>5. b \in {s * S : s \in 0 .. n - 1} <=> \E s \in 0 .. n - 1 : b = s * S
    OBVIOUS
  <1> QED
    BY <1>2, <1>3, <1>4, <1>5 DEF S, n

\* A sector is the banks from its beginning on.
LEMMA SectorContains ==
  ASSUME NEW b \in Nat, b % SectorBanks = 0, NEW a \in Nat
  PROVE  a \in b .. b + SectorBanks - 1 <=> a \div SectorBanks = b \div SectorBanks
  <1> DEFINE S == SectorBanks
  <1>1. S \in Nat \ {0}
    BY BanksAssumption
  <1> HIDE DEF S
  <1>2. /\ b = S * (b \div S) /\ b \div S \in Nat
        /\ a = S * (a \div S) + (a % S) /\ a \div S \in Nat /\ a % S \in 0 .. S - 1
    BY <1>1, Divided DEF S
  <1>3. ASSUME a \in b .. b + S - 1
        PROVE  a \div S = b \div S
    <2>1. PICK r \in 0 .. S - 1 : a = S * (b \div S) + r
      <3>1. a - b \in 0 .. S - 1 /\ a = b + (a - b)
        BY <1>1, <1>3
      <3> QED
        BY <1>2, <3>1
    <2> DEFINE q == b \div S
    <2>2. q \in Nat /\ r \in Nat /\ r < S /\ a = S * q + r
      BY <1>1, <1>2, <2>1
    <2> HIDE DEF q
    <2>3. a \div S = q
      BY <1>1, <2>2, DividedOnce
    <2> QED
      BY <2>3 DEF q
  <1>4. ASSUME a \div S = b \div S
        PROVE  a \in b .. b + S - 1
    BY <1>1, <1>2, <1>4
  <1> QED
    BY <1>3, <1>4 DEF S

Effect ==
  IF cpu = "send" /\ cpu' = "reply" /\ call.cmd # INIT_EAPI
  THEN IF AskedWrongly THEN flash' = flash /\ reply' = <<WRITE_ERROR>>
                       ELSE flash' = Asked /\ reply' = <<OK>>
  ELSE flash' = flash

\* The last byte of a write programs the byte of the driver's bank.
LEMMA WriteEffect ==
  ASSUME IInv, BankSet, call.cmd = WRITE_FLASH, call.hi \in {128, 224}, cpu = "send"
  PROVE  Programmed(call.hi, call.val) = Asked /\ ~AskedWrongly
  <1>1. reg0 = shadow /\ flash \in [Banks \X Chips -> Byte] /\ shadow \in Banks
    BY TypeParts DEF BankSet, IInv, FlashTypes, DriverTypes, WRITE_FLASH, INIT_EAPI
  <1> DEFINE c == IF call.hi < 224 THEN "L" ELSE "H"
  <1>2. c = (IF call.hi \in {128, 144} THEN "L" ELSE "H") /\ c \in Chips
    BY DEF Chips
  <1> HIDE DEF c
  <1>3. Programmed(call.hi, call.val) =
          [p \in Banks \X Chips |-> IF p = <<shadow, c>> THEN And(flash[p], call.val) ELSE flash[p]]
    BY <1>1 DEF Programmed, c
  <1>4. Asked = [p \in Banks \X Chips |->
                   IF p[2] = c /\ p[1] = shadow THEN And(flash[p], call.val) ELSE flash[p]]
    BY <1>2 DEF Asked
  <1>5. Programmed(call.hi, call.val) = Asked
    <2>1. \A p \in Banks \X Chips : p = <<shadow, c>> <=> p[2] = c /\ p[1] = shadow
      OBVIOUS
    <2> QED
      BY <1>3, <1>4, <2>1
  <1>6. ~AskedWrongly
    BY DEF AskedWrongly, WRITE_FLASH, ERASE_SECTOR
  <1> QED
    BY <1>5, <1>6

\* The last byte of an erase sets the sector to ones, if it is one.
LEMMA EraseEffect ==
  ASSUME IInv, call.cmd = ERASE_SECTOR, call.val \in Nat, call.hi \in {128, 160, 224}
  PROVE  /\ AskedWrongly <=> SectorInvalid(call.val)
         /\ ~SectorInvalid(call.val) => Wiped(call.val, call.hi) = Asked
  <1>1. AskedWrongly <=> SectorInvalid(call.val)
    BY SectorBegins DEF AskedWrongly
  <1>2. ASSUME ~SectorInvalid(call.val)
        PROVE  Wiped(call.val, call.hi) = Asked
    <2>1. EraseChip(call.hi) = IF call.hi \in {128, 144} THEN "L" ELSE "H"
      BY DEF EraseChip
    <2>2. call.val % SectorBanks = 0 /\ Banks \subseteq Nat
      BY <1>2 DEF SectorInvalid, Banks
    <2>3. \A p \in Banks \X Chips :
            p[1] \in call.val .. call.val + SectorBanks - 1
              <=> p[1] \div SectorBanks = call.val \div SectorBanks
      <3> TAKE p \in Banks \X Chips
      <3>1. p[1] \in Nat
        BY <2>2
      <3> QED
        BY <2>2, <3>1, SectorContains
    <2>4. call.cmd # WRITE_FLASH
      BY DEF WRITE_FLASH, ERASE_SECTOR
    <2> QED
      BY <2>1, <2>3, <2>4 DEF Wiped, Asked
  <1> QED
    BY <1>1, <1>2

\* A byte the driver sends changes the flash as its call asks for, or not at all.
LEMMA SendEffect ==
  ASSUME IInv, BankSet, DriverSend
  PROVE  Effect
  <1>1. DriverTypes /\ cpu = "send"
    BY TypeParts DEF IInv, DriverSend
  <1>2. CASE sent = 0
    <2>1. flash' = flash /\ (call.cmd # INIT_EAPI => cpu' = "send")
      BY <1>2, FirstByte
    <2> QED
      BY <2>1 DEF Effect
  <1>3. CASE sent # 0
    <2> DEFINE in == SubSeq(Request, 2, sent + 1)
    <2>1. /\ call.cmd # INIT_EAPI /\ sent \in 1 .. 3
          /\ eapiState = IF call.cmd = WRITE_FLASH THEN "write" ELSE "erase"
          /\ Append(eapiBufferIn, Request[sent + 1]) = in /\ Len(in) = sent
          /\ Parameter(Request[sent + 1])
          /\ cpu' = IF sent = 3 THEN "reply" ELSE "send"
      BY <1>3, NextByte
    <2>2. /\ Len(Request) = 4 /\ Request \in Seq(Nat)
          /\ Request[3] = call.hi /\ Request[4] = call.val
          /\ call.cmd \in {WRITE_FLASH, ERASE_SECTOR}
          /\ call.hi \in {128, 160, 224} /\ call.val \in Nat
          /\ call.cmd = WRITE_FLASH => call.hi \in {128, 224}
      BY <1>1, <2>1, RequestParts
    <2>3. CASE sent # 3
      BY <2>1, <2>3 DEF Parameter, flashVars, Effect
    <2>4. CASE sent = 3
      <3>1. Execute(in) /\ in[2] = call.hi /\ in[3] = call.val /\ cpu' = "reply"
        BY <2>1, <2>2, <2>4, ThreeParameters DEF Parameter
      <3>2. CASE call.cmd = WRITE_FLASH
        <4>1. flash' = Programmed(call.hi, call.val) /\ reply' = <<OK>>
          BY <2>1, <3>1, <3>2 DEF Execute, ExecWrite, Change
        <4>2. Programmed(call.hi, call.val) = Asked /\ ~AskedWrongly
          BY <1>1, <2>2, <3>2, WriteEffect
        <4> QED
          BY <1>1, <2>1, <3>1, <4>1, <4>2 DEF Effect
      <3>3. CASE call.cmd = ERASE_SECTOR
        <4>1. ExecErase(call.hi, call.val)
          BY <2>1, <3>1, <3>3 DEF Execute, WRITE_FLASH, ERASE_SECTOR
        <4>2. /\ AskedWrongly <=> SectorInvalid(call.val)
              /\ ~SectorInvalid(call.val) => Wiped(call.val, call.hi) = Asked
          BY <2>2, <3>3, EraseEffect
        <4> QED
          BY <1>1, <2>1, <3>1, <4>1, <4>2 DEF Effect, ExecErase, Change
      <3> QED
        BY <2>2, <3>2, <3>3
    <2> QED
      BY <2>3, <2>4
  <1> QED
    BY <1>2, <1>3

\* A call does in the flash what the driver documents (eapi-sk64.s:261-339), with
\* its last byte, in the bank it has set, and nothing else changes the flash.
THEOREM CommandsHaveEffect == Spec => CommandHasEffect
  <1>1. Init => BankSet
    BY DEF Init, BankSet
  <1>2. IInv /\ BankSet /\ [Next]_vars => BankSet'
    BY BankSetNext
  <1>3. IInv /\ BankSet /\ [Next]_vars => [Effect]_vars
    <2> SUFFICES ASSUME IInv, BankSet, Next PROVE Effect
      OBVIOUS
    <2>1. CASE DriverSend
      BY <2>1, SendEffect
    <2>2. CASE ~DriverSend
      <3>1. flash' = flash /\ ~(cpu = "send" /\ cpu' = "reply")
        <4>1. CASE Program
          BY <2>2, <4>1 DEF Program, Driver, SelectBank, Call, DriverBank, DriverReply, EndOfCall,
             flashVars
        <4>2. CASE User
          BY <4>2 DEF User, PowerOff, Reset, ResetCycle, HoldReset, ReleaseReset, EndOfCall,
             flashVars, driverVars
        <4>3. CASE OtherCycle \/ MainLoop
          <5>1. UNCHANGED <<flash, cpu>>
            BY <4>3, Zenon DEF OtherCycle, MainLoop, TestForJump, ReadCount, StoreCount, SaveOpen,
               SavePatch, SaveWrite, ClearModified, Return, mainUnchanged, flashVars, driverVars
          <5> QED
            BY <5>1
        <4> QED
          BY <4>1, <4>2, <4>3 DEF Next
      <3> QED
        BY <3>1 DEF Effect
    <2> QED
      BY <2>1, <2>2
  <1> QED
    BY <1>1, <1>2, <1>3, InStepAlways, PTL DEF Spec, CommandHasEffect, Effect
=============================================================================
