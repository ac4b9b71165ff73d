-------------------------------- MODULE CRTFile --------------------------------
(***************************************************************************)
(* Reading a CRT file into the flash, and writing the flash back into the  *)
(* file (crt.cpp), packet by packet as a cursor goes through the file, and *)
(* what kernel_ef.cpp does between the two.                                *)
(*                                                                         *)
(* The file is a sequence of cells: a cell is the header of a packet or    *)
(* 4 kB.  Addresses of the C64 and lengths are in 4 kB as well.  The flash *)
(* is kept by bank, chip and half of the chip; the order of the bytes in   *)
(* it is the same for reading and writing, and left out.  The header of    *)
(* the file is its type.  That the C64 goes on while the file is patched   *)
(* is in EasyFlash; here it is off.                                        *)
(***************************************************************************)
EXTENDS Integers, Sequences, FiniteSets

CONSTANTS
  NumBanks,      \* of the flash
  Shapes,        \* type |-> addresses and lengths its packets may have
  MaxPackets,    \* bound: in a file
  MaxWrites, MaxLosses  \* bounds: what the program does, and power cuts

EasyFlash == "EasyFlash"
LowOnly == "LowOnly"    \* MagicDesk and others that only use the low bank
Plain == "Plain"        \* an ordinary cartridge, or another type

ASSUME BoundsAssumption ==
  /\ NumBanks \in Nat \ {0} /\ {MaxPackets, MaxWrites, MaxLosses} \subseteq Nat
  /\ DOMAIN Shapes \subseteq {EasyFlash, LowOnly, Plain}

\* The packets that the passes are written for: 8 kB of a ROM or 16 kB of both, in a
\* file that is only read also 4 kB of one, $F000 and $B000 being its second half.
ASSUME ShapesAssumption ==
  \A t \in DOMAIN Shapes :
    /\ t = EasyFlash => Shapes[t] \subseteq ({8} \X {2, 4}) \cup ({10, 14} \X {2})
    /\ t = LowOnly => Shapes[t] \subseteq {8, 10, 14} \X {1, 2}
    /\ t = Plain => Shapes[t] \subseteq
                     ({8} \X {1, 2, 4}) \cup ({10, 14} \X {2}) \cup ({11, 15} \X {1})

VARIABLES
  type, file,      \* on the card
  eapi,            \* the image has an EAPI driver
  pc,
  crt,             \* cursor in the file or in the copy of it that is patched
  rawCRT,          \* that copy
  flash, romLH, nBanks,
  modified,        \* eapiCRTModified
  image, saved,    \* history: what the flash should hold, and the file
  layout,          \* history: the file as it was, with its headers
  writes, losses   \* bounds

cartVars == <<flash, romLH, nBanks>>
cardVars == <<type, file, eapi>>
historyVars == <<image, saved, layout>>
vars == <<cardVars, pc, crt, rawCRT, cartVars, modified, historyVars, writes, losses>>

Banks == 0 .. NumBanks - 1
Chips == {"L", "H"}
Places == Banks \X Chips \X {1, 2}

Header(bank, adr, length) == [bank |-> bank, adr |-> adr, length |-> length]
IsHeader(cell) == "bank" \in DOMAIN cell
Data(origin, number) == [origin |-> origin, number |-> number]
Nothing == Data("nothing", 0)
EapiCode == Data("eapi", 0)
EapiPlace == <<0, "H", 2>>

Headers(t) == {Header(b, s[1], s[2]) : b \in Banks, s \in Shapes[t]}
MaxCells == 5 * MaxPackets

\* n cells with the packets h, by where their headers are
Cells(n, h) == [p \in 1 .. n |-> IF p \in DOMAIN h THEN h[p] ELSE Data("file", p)]

\* one packet follows the other, from the first cell to the last
FillsFile(n, h) ==
  /\ 1 \in DOMAIN h
  /\ \A p \in DOMAIN h :
       /\ p + 1 + h[p].length \in DOMAIN h \cup {n + 1}
       /\ DOMAIN h \cap (p + 1 .. p + h[p].length) = {}

Packets(t, n) ==
  UNION {[at -> Headers(t)] : at \in {S \in SUBSET (1 .. n) : Cardinality(S) <= MaxPackets}}
Files(t) ==
  UNION {{Cells(n, h) : h \in {k \in Packets(t, n) : FillsFile(n, k)}} : n \in 1 .. MaxCells}
----------------------------------------------------------------------------
(* What a file means: where the C64 sees the cells of a packet.  The chips *)
(* are the ROMs at $8000 and at $A000 or $E000; a type that only uses the  *)
(* low bank has no other.                                                  *)

PlaceAt(t, h, i) ==
  LET adr == h.adr + i - 1
      chip == IF t = LowOnly \/ adr \in {8, 9} THEN "L" ELSE "H"
  IN <<h.bank, chip, 1 + (adr % 2)>>

\* positions in a file that are seen at a place: a later packet hides others
At(t, f, place) ==
  {p \in DOMAIN f : \E q \in 1 .. p - 1 :
     /\ IsHeader(f[q]) /\ p - q <= f[q].length
     /\ PlaceAt(t, f[q], p - q) = place}
Covered(t, f) == {place \in Places : At(t, f, place) # {}}
Image(t, f) == [place \in Covered(t, f) |->
                  f[CHOOSE p \in At(t, f, place) : \A q \in At(t, f, place) : q <= p]]
----------------------------------------------------------------------------
Init ==
  /\ type \in DOMAIN Shapes /\ file \in Files(type) /\ eapi \in BOOLEAN
  /\ pc = "menu" /\ crt = 1 /\ rawCRT = <<>>
  /\ flash = [place \in Places |-> Nothing] /\ romLH = {} /\ nBanks = 0
  /\ modified = FALSE
  /\ image = Image(type, file) /\ saved = image /\ layout = file
  /\ writes = 0 /\ losses = 0

Goto(at) == pc' = at
Halt == Goto("halted")      \* a panic
Higher(a, b) == IF a > b THEN a ELSE b
Lower(a, b) == IF a < b THEN a ELSE b

\* A cell of the file, also beyond the end of it.
CellAt(f, p) == IF p \in DOMAIN f THEN f[p] ELSE Nothing

\* n cells from a position on go to the halves of a chip, from a half on.
IntoChip(fl, bank, chip, first, from, n) ==
  [place \in Places |->
     IF place[1] = bank /\ place[2] = chip /\ place[3] \in first .. first + n - 1
     THEN CellAt(file, from + place[3] - first) ELSE fl[place]]

\* a packet at $8000, which may go on at $A000
ReadLow(h) ==
  LET low == Lower(2, h.length)
      high == IF h.length > 2 THEN Lower(2, h.length - 2) ELSE 0
  IN /\ flash' = IntoChip(IntoChip(flash, h.bank, "L", 1, crt + 1, low),
                          h.bank, "H", 1, crt + 1 + low, high)
     /\ romLH' = romLH \union {"L"} \union (IF h.length > 2 THEN {"H"} ELSE {})
     /\ crt' = crt + 1 + low + high

\* Mutant: the offset is not looked at
ReadHighWhole(h) ==
  /\ flash' = IntoChip(flash, h.bank, "H", 1, crt + 1, 2)
  /\ romLH' = romLH \union {"H"}
  /\ crt' = crt + 1 + 2

\* a packet at any other address
ReadHigh(h) ==
  LET ofs == IF h.adr \in {15, 11} THEN 1 ELSE 0
  IN /\ flash' = IntoChip(flash, h.bank, "H", 1 + ofs, crt + 1, 2 - ofs)
     /\ romLH' = romLH \union {"H"}
     /\ crt' = crt + 1 + 2 - ofs

\* whatever its address is
ReadLowOnly(h) ==
  LET low == Lower(2, h.length)
  IN /\ flash' = IntoChip(flash, h.bank, "L", 1, crt + 1, low)
     /\ romLH' = {"L"}
     /\ crt' = crt + 1 + low

ReadUnchanged == UNCHANGED <<cardVars, rawCRT, modified, historyVars, writes, losses>>

\* Mutant: the banks of the cartridge before are counted too
LaunchKeepsCount ==
  /\ pc = "menu"
  /\ IF file = <<>> THEN Halt ELSE Goto("parse")
  /\ crt' = 1 /\ romLH' = {"L", "H"}
  /\ UNCHANGED <<cardVars, rawCRT, flash, nBanks, modified, historyVars, writes, losses>>

\* The flash is not erased: what was in it before stays where the file has nothing.
Launch ==
  /\ pc = "menu"
  /\ IF file = <<>> THEN Halt ELSE Goto("parse")
  /\ crt' = 1 /\ nBanks' = 0
  /\ romLH' = CASE type = EasyFlash -> {"L", "H"}
                [] type = LowOnly -> {"L"}
                [] type = Plain -> {}
  /\ UNCHANGED <<cardVars, rawCRT, flash, modified, historyVars, writes, losses>>

\* parseCRTInMemory
ReadChip ==
  /\ pc = "parse" /\ crt <= Len(file)
  /\ LET h == file[crt] IN
     IF IsHeader(h)
     THEN /\ CASE type = LowOnly -> ReadLowOnly(h)
               [] type # LowOnly /\ h.adr = 8 -> ReadLow(h)
               [] OTHER -> ReadHigh(h)
          /\ nBanks' = Higher(nBanks, h.bank)
          /\ UNCHANGED pc
     ELSE Halt /\ UNCHANGED <<crt, cartVars>>
  /\ ReadUnchanged

\* "EAPI in EF CRT?"; where it looks, the flash of a LowOnly is laid out otherwise.
HasEapi == /\ type # LowOnly
           /\ \/ flash[EapiPlace].origin = "file" /\ eapi
              \/ flash[EapiPlace] = EapiCode

\* The end of the parsing, and CKernelEF::Run: the EAPI of the image is replaced.
ReadEnd ==
  /\ pc = "parse" /\ crt > Len(file) /\ Goto("run")
  /\ nBanks' = nBanks + 1
  /\ modified' = FALSE
  /\ IF HasEapi
     THEN /\ flash' = [flash EXCEPT ![EapiPlace] = EapiCode]
          /\ image' = [place \in DOMAIN image |->
                         IF place = EapiPlace THEN EapiCode ELSE image[place]]
     ELSE UNCHANGED <<flash, image>>
  /\ UNCHANGED <<crt, romLH, cardVars, rawCRT, saved, layout, writes, losses>>

\* A program changes the flash by the EAPI.
Write ==
  /\ pc = "run" /\ type = EasyFlash /\ writes < MaxWrites
  /\ writes' = writes + 1
  /\ \E place \in Places :
       LET data == Data("C64", writes') IN
       /\ flash' = [flash EXCEPT ![place] = data]
       /\ image' = [p \in DOMAIN image |-> IF p = place THEN data ELSE image[p]]
  /\ modified' = TRUE
  /\ UNCHANGED <<pc, crt, romLH, nBanks, cardVars, rawCRT, saved, layout, losses>>

\* writeChanges2CRTFile: the file is read again.  It can only be an EasyFlash.
BeginSave ==
  /\ pc = "run" /\ modified /\ Goto("patch")
  /\ rawCRT' = file /\ crt' = 1
  /\ UNCHANGED <<cardVars, cartVars, modified, historyVars, writes, losses>>

\* Cells replace others, but not beyond the end of what will be written.
Patched(raw, from, cells) ==
  [p \in DOMAIN raw |-> IF p - from + 1 \in DOMAIN cells THEN cells[p - from + 1]
                                                         ELSE raw[p]]
InChip(bank, chip) == <<flash[<<bank, chip, 1>>], flash[<<bank, chip, 2>>]>>

\* Mutant: the high half of a packet of 16 kB is skipped
PatchLowHalf(h) ==
  /\ rawCRT' = Patched(rawCRT, crt + 1, InChip(h.bank, "L"))
  /\ crt' = crt + 1 + Higher(2, h.length)

PatchLow(h) ==
  LET low == Patched(rawCRT, crt + 1, InChip(h.bank, "L"))
  IN IF h.length > 2
     THEN /\ rawCRT' = Patched(low, crt + 3, InChip(h.bank, "H"))
          /\ crt' = crt + 1 + h.length
     ELSE rawCRT' = low /\ crt' = crt + 3

PatchHigh(h) ==
  /\ rawCRT' = Patched(rawCRT, crt + 1, InChip(h.bank, "H"))
  /\ crt' = crt + 3

PatchChip ==
  /\ pc = "patch" /\ crt <= Len(rawCRT)
  /\ LET h == rawCRT[crt] IN
     IF IsHeader(h)
     THEN /\ IF h.adr = 8 THEN PatchLow(h) ELSE PatchHigh(h)
          /\ UNCHANGED pc
     ELSE Halt /\ UNCHANGED <<rawCRT, crt>>
  /\ UNCHANGED <<cardVars, cartVars, modified, historyVars, writes, losses>>

\* The file is created anew, so that there is nothing in it until it is written.
CreateFile ==
  /\ pc = "patch" /\ crt > Len(rawCRT) /\ Goto("write")
  /\ file' = <<>>
  /\ UNCHANGED <<type, eapi, crt, rawCRT, cartVars, modified, historyVars, writes, losses>>

WriteFile ==
  /\ pc = "write" /\ Goto("run")
  /\ file' = rawCRT
  /\ modified' = FALSE
  /\ saved' = image
  /\ UNCHANGED <<type, eapi, crt, rawCRT, cartVars, image, layout, writes, losses>>

\* The way to the menu saves first what has been modified.
ToMenu ==
  /\ pc = "run" /\ ~modified /\ Goto("menu")
  /\ UNCHANGED <<cardVars, crt, rawCRT, cartVars, modified, historyVars, writes, losses>>

PowerLoss ==
  /\ pc \notin {"menu", "halted"} /\ losses < MaxLosses
  /\ losses' = losses + 1
  /\ Goto("menu")
  /\ flash' = [place \in Places |-> Nothing]
  /\ modified' = FALSE /\ image' = saved
  /\ UNCHANGED <<cardVars, crt, rawCRT, romLH, nBanks, saved, layout, writes>>

Next ==
  \/ Launch \/ ReadChip \/ ReadEnd \/ Write
  \/ BeginSave \/ PatchChip \/ CreateFile \/ WriteFile
  \/ ToMenu \/ PowerLoss

Spec == Init /\ [][Next]_vars
----------------------------------------------------------------------------
(* Properties *)

TypeOK ==
  /\ type \in DOMAIN Shapes /\ eapi \in BOOLEAN
  /\ pc \in {"menu", "parse", "run", "patch", "write", "halted"}
  /\ crt \in Nat \ {0}
  /\ DOMAIN flash = Places /\ romLH \subseteq Chips /\ nBanks \in 0 .. NumBanks
  /\ modified \in BOOLEAN
  /\ DOMAIN saved = DOMAIN image /\ DOMAIN image \subseteq Places
  /\ writes \in 0 .. MaxWrites /\ losses \in 0 .. MaxLosses

\* A cartridge that runs has in its flash what the C64 sees of the file, wherever the
\* packets are in it, and what it has written since; also after the file was saved
\* and read again.  No chip and no bank that has contents is left unserved
\* (parseCRTInMemory).
FlashIsImage ==
  pc = "run" => /\ \A place \in DOMAIN image : flash[place] = image[place]
                /\ \A place \in DOMAIN image : place[1] < nBanks /\ place[2] \in romLH

\* After any number of saves the file has its packets where they were, and in them the
\* contents of the flash at the last save; unless power was lost while it was
\* written.
PacketsKept ==
  file # <<>> =>
    /\ Len(file) = Len(layout)
    /\ \A p \in DOMAIN layout : IsHeader(layout[p]) => file[p] = layout[p]
    /\ Image(type, file) = saved

\* A file that could be read does not halt the Pi when it is saved, nor when it is
\* read again.
HaltsOnlyWithoutFile == pc = "halted" => file = <<>>

\* "read file, simply go through and replace bank contents" (crt.cpp:444): both.
FileIsWhole == PacketsKept /\ HaltsOnlyWithoutFile
=============================================================================
