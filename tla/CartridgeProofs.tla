---------------------------- MODULE CartridgeProofs ----------------------------
(***************************************************************************)
(* The kernels that are a cartridge with its registers: first the launcher *)
(* and the GeoRAM of RamKernel, for every memory map, size of a page, set  *)
(* of programs and number of resets, presses and writes; then the Freezer  *)
(* cartridges, for any number of resets.                                   *)
(*                                                                         *)
(* The argument for the loader: what it has fetched is the byte of the     *)
(* file at the current offset, and each of its loops has put a prefix of   *)
(* its part in place.  The bytes the lower part copies too many, up to the *)
(* end of its last page, are those the upper part begins with, so that     *)
(* they do no harm.  The argument for the Freezers is with them.           *)
(***************************************************************************)
EXTENDS RamKernel, Freezer, TLAPS

(* What the loader knows at each of its steps *)

Fetching(ofs) == currentOfs = ofs /\ fetched = PrgData(ofs)

\* bytes of the upper part that are in the staging area
Staged(n) ==
  \A j \in 0 .. n - 1 : mem[StageAddr + j] = PrgData(SizeBelow(prog) + 2 + j)

\* bytes at their address: of the lower part, and all above it
LowDone(n) == \A i \in 2 .. prog.size - 1 : i < 2 + n => mem[prog.start + i - 2] = i
HighDone == \A i \in SizeBelow(prog) + 2 .. prog.size - 1 : mem[prog.start + i - 2] = i

\* n bytes of the lower part are stored, and none in the I/O area
Clear(n) == prog.start + n <= IOBase \/ prog.start >= IOEnd

TransferInv ==
  /\ loader = "highPages" => transferPart = 1 /\ Fetching(SizeBelow(prog) + 2)
  /\ loader \in {"stage", "copyHigh"} => pages = PagesOf(SizeAbove(prog)) /\ Staged(count)
  /\ loader = "stage" =>
       count < pages * Page /\ Fetching(SizeBelow(prog) + 2 + count)
  /\ loader = "copyHigh" => count = pages * Page
  /\ loader = "lowPages" => transferPart = 0 /\ Fetching(0)
  /\ loader \in {"addressLow", "addressHigh", "copy"} => pages = PagesOf(SizeBelow(prog))
  /\ loader = "addressLow" => count = 0 /\ Fetching(0)
  /\ loader = "addressHigh" => count = 0 /\ Fetching(1) /\ dest = prog.start
  /\ loader = "copy" =>
       /\ dest = prog.start /\ prog.start + count <= MemSize
       /\ count < pages * Page \/ pages = 0
       /\ \/ currentOfs <= 2 + count
          \/ prog.start >= SplitAddr /\ currentOfs <= MemSize - SplitAddr + 2 + count
       /\ Clear(count) => Fetching(2 + count) /\ LowDone(count)

PlacedInv ==
  Loadable(prog) =>
    /\ loader # "crashed"
    /\ loader \in {"low", "lowPages", "addressLow", "addressHigh", "copy"} => HighDone
    /\ loader \in {"end", "disable", "run"} => Whole

LoaderInv ==
  /\ ~launchPrg => loader \in {"boot", "run"}
  /\ launchPrg => TransferInv /\ PlacedInv

(* The image: a page that has been copied is the one of the GeoRAM, or one *)
(* of those written since; the halted C64 does not write any.              *)
CopiedPages(f) == \A p \in 0 .. copied - 1 : f[p] = geo[p] \/ p \in racy

SaveInv ==
  /\ pc = "gone" => ~attached /\ copied = GeoPages /\ CopiedPages(file)
  /\ Saving => CopiedPages(image)
  /\ pc = "button" => saveRAM
  /\ saveRAM /\ ~disturbed /\ pc # "gone" => dmaLow
  /\ ~disturbed /\ pc = "button" => racy = {}

IInv == TypeOK /\ writes \in 0 .. MaxWrites /\ LoaderInv /\ SaveInv
----------------------------------------------------------------------------
(* Arithmetic of the split and of the pages *)

\* A remainder by subtraction.
LEMMA NoWrap ==
  ASSUME NEW n \in Nat, NEW x \in 0 .. 2 * n - 1
  PROVE  x % n = IF x < n THEN x ELSE x - n
  OBVIOUS

\* Pages are counted so that the last one need not be full.
LEMMA PagesCover ==
  ASSUME NEW n \in Nat
  PROVE  /\ PagesOf(n) \in Nat /\ PagesOf(n) * Page \in Nat
         /\ n <= PagesOf(n) * Page /\ PagesOf(n) * Page < n + Page
         /\ PagesOf(n) = 0 <=> n = 0
  <1>1. Page \in Nat /\ 0 < Page
    BY MemoryAssumption
  <1> DEFINE m == n + Page - 1
  <1>2. m \in Nat /\ PagesOf(n) = m \div Page
    BY <1>1 DEF PagesOf
  <1>3. PagesOf(n) \in Nat
    BY <1>1, <1>2
  <1>4. /\ PagesOf(n) * Page <= m
        /\ m < PagesOf(n) * Page + Page
    BY <1>1, <1>2, Z3
  <1>5. PagesOf(n) * Page \in Nat
    BY <1>1, <1>3
  <1>6. PagesOf(n) = 0 => PagesOf(n) * Page = 0
    BY <1>1
  <1>7. n = 0 => PagesOf(n) = 0
    <2> SUFFICES ASSUME n = 0, PagesOf(n) > 0 PROVE FALSE
      BY <1>3
    <2>1. PagesOf(n) * Page >= Page
      BY <1>1, <1>3
    <2> QED
      BY <1>1, <1>4, <1>5, <2>1
  <1> QED
    BY <1>1, <1>3, <1>4, <1>5, <1>6, <1>7

\* A program is split at SplitAddr, if it lies on both sides of it (or begins there);
\* the size of the upper part is two too large.
LEMMA SplitFacts ==
  ASSUME NEW p \in Programs
  PROVE  /\ p.start \in SystemTop .. MemSize - 1 /\ p.size \in Nat /\ p.size > 2
         /\ p.start + p.size - 2 <= MemSize
         /\ SizeBelow(p) \in 0 .. p.size - 2 /\ SizeAbove(p) \in Nat
         /\ SizeBelow(p) = 0 => p.start = SplitAddr
         /\ SizeAbove(p) = 0 => SizeBelow(p) = p.size - 2
         /\ SizeAbove(p) # 0 => /\ p.start <= SplitAddr
                                /\ SizeBelow(p) = SplitAddr - p.start
                                /\ SizeAbove(p) = p.size - SizeBelow(p)
         /\ p.start <= SplitAddr => p.start + SizeBelow(p) <= SplitAddr
  <1> USE MemoryAssumption, ProgramsAssumption
  <1>1. /\ p.start \in SystemTop .. MemSize - 1 /\ p.size \in Nat /\ p.size > 2
        /\ p.start + p.size - 2 <= MemSize
    OBVIOUS
  <1> DEFINE x == SplitAddr + U32 - p.start
             below == x % U32
  <1>2. x \in 0 .. 2 * U32 - 1 /\ U32 \in Nat
    BY <1>1
  <1>3. below = IF x < U32 THEN x ELSE x - U32
    <2> HIDE DEF x
    <2> QED BY <1>2, NoWrap
  <1>4. CASE p.start <= SplitAddr
    <2>1. below = SplitAddr - p.start
      BY <1>1, <1>3, <1>4
    <2>2. SizeBelow(p) = IF SplitAddr - p.start > p.size - 2 THEN p.size - 2
                         ELSE SplitAddr - p.start
      BY <2>1 DEF SizeBelow
    <2>3. SizeAbove(p) = IF SplitAddr - p.start > p.size - 2 THEN 0
                         ELSE p.size - SizeBelow(p)
      BY <2>1 DEF SizeAbove
    <2> HIDE DEF below
    <2> QED
      BY <1>1, <1>4, <2>2, <2>3
  <1>5. CASE p.start > SplitAddr
    <2>1. below > p.size - 2
      BY <1>1, <1>3, <1>5
    <2>2. SizeBelow(p) = p.size - 2 /\ SizeAbove(p) = 0
      BY <2>1 DEF SizeBelow, SizeAbove
    <2> HIDE DEF x, below
    <2> QED
      BY <1>1, <1>5, <2>2
  <1> QED
    BY <1>1, <1>4, <1>5

\* What the memory map gives the loader.
LEMMA MapFacts ==
  /\ Page \in Nat /\ MemSize \in Nat /\ SplitAddr \in Nat /\ StageAddr \in Nat
  /\ SystemTop \in Nat
  /\ 0 < Page /\ Page + 3 < SystemTop /\ SystemTop <= StageAddr
  /\ StageAddr + (MemSize - SplitAddr) + Page + 2 <= SplitAddr /\ SplitAddr < MemSize
  BY MemoryAssumption

\* What is known of the program while there is one, and of its pages.
LEMMA ProgramFacts ==
  ASSUME TypeOK, launchPrg
  PROVE  /\ prog.start \in SystemTop .. MemSize - 1 /\ prog.size \in Nat
         /\ prog.size > 2 /\ prog.start + prog.size - 2 <= MemSize
         /\ SizeBelow(prog) \in 0 .. prog.size - 2 /\ SizeAbove(prog) \in Nat
         /\ SizeBelow(prog) = 0 => prog.start = SplitAddr
         /\ SizeAbove(prog) = 0 => SizeBelow(prog) = prog.size - 2
         /\ SizeAbove(prog) # 0 => /\ prog.start <= SplitAddr
                                   /\ SizeBelow(prog) = SplitAddr - prog.start
                                   /\ SizeAbove(prog) = prog.size - SizeBelow(prog)
         /\ prog.start <= SplitAddr => prog.start + SizeBelow(prog) <= SplitAddr
  <1>1. prog \in Programs
    BY DEF TypeOK, launchPrg
  <1> QED
    BY <1>1, SplitFacts

\* Pages of a program: they hold it, and only the last is not full.
LEMMA PageFacts ==
  ASSUME TypeOK, launchPrg
  PROVE  /\ PagesOf(SizeBelow(prog)) \in Nat /\ PagesOf(SizeBelow(prog)) * Page \in Nat
         /\ SizeBelow(prog) <= PagesOf(SizeBelow(prog)) * Page
         /\ PagesOf(SizeBelow(prog)) = 0 <=> SizeBelow(prog) = 0
         /\ PagesOf(SizeAbove(prog)) \in Nat /\ PagesOf(SizeAbove(prog)) * Page \in Nat
         /\ SizeAbove(prog) <= PagesOf(SizeAbove(prog)) * Page
         /\ PagesOf(SizeAbove(prog)) * Page < SizeAbove(prog) + Page
         /\ PagesOf(SizeAbove(prog)) = 0 <=> SizeAbove(prog) = 0
         /\ PagesFit(PagesOf(SizeBelow(prog))) /\ PagesFit(PagesOf(SizeAbove(prog)))
         /\ PagesOf(SizeBelow(prog)) * Page < SizeBelow(prog) + Page
         /\ StageAddr + PagesOf(SizeAbove(prog)) * Page <= SplitAddr
  <1>1. SizeBelow(prog) \in Nat /\ SizeAbove(prog) \in Nat
    BY ProgramFacts
  <1> DEFINE low == PagesOf(SizeBelow(prog)) * Page
             high == PagesOf(SizeAbove(prog)) * Page
  <1>2. low \in Nat /\ high \in Nat
    BY <1>1, PagesCover
  <1>3. low < SizeBelow(prog) + Page /\ high < SizeAbove(prog) + Page
    BY <1>1, PagesCover
  <1>4. SizeAbove(prog) = 0 => high = 0
    <2>1. SizeAbove(prog) = 0 => PagesOf(SizeAbove(prog)) = 0
      BY <1>1, PagesCover
    <2> QED
      BY <2>1, MapFacts
  <1> HIDE DEF low, high
  <1>5. low <= MemSize
    BY <1>1, <1>2, <1>3, ProgramFacts, MapFacts
  <1>6. StageAddr + high <= SplitAddr
    <2>1. CASE SizeAbove(prog) = 0
      BY <1>4, <2>1, MapFacts
    <2>2. CASE SizeAbove(prog) # 0
      <3>1. SizeAbove(prog) <= MemSize - SplitAddr + 2
        BY <2>2, ProgramFacts, MapFacts
      <3> QED
        BY <1>1, <1>2, <1>3, <3>1, MapFacts
    <2> QED
      BY <2>1, <2>2
  <1>7. high <= MemSize
    BY <1>2, <1>6, MapFacts
  <1> QED
    BY <1>1, <1>3, <1>5, <1>6, <1>7, PagesCover DEF low, high, PagesFit

\* What is fetched is a byte, and the first two of a program are its load address.
LEMMA FetchFacts ==
  ASSUME TypeOK, launchPrg, NEW i \in Nat
  PROVE  /\ PrgData(i) \in 0 .. MemSize /\ PrgData(0) = 0 /\ PrgData(1) = 1
         /\ i < prog.size => PrgData(i) = i
  <1>1. prog.size \in Nat /\ 2 < prog.size /\ prog.size <= MemSize
    BY ProgramFacts, MapFacts
  <1> QED
    BY <1>1, MapFacts DEF PrgData, Junk
----------------------------------------------------------------------------
\* The invariant holds when the kernel has been started.
THEOREM InitIInv == Init => IInv
  <1> SUFFICES ASSUME Init PROVE IInv
    OBVIOUS
  <1> USE MapFacts, GeoAssumption DEF Init
  <1>1. TypeOK
    <2>1. geo \in [0 .. GeoPages - 1 -> 0 .. MaxWrites]
      OBVIOUS
    <2>2. mem \in [0 .. MemSize - 1 -> 0 .. Empty]
      BY DEF Empty
    <2>3. /\ currentOfs \in 0 .. MemSize - 1 /\ fetched \in 0 .. MemSize
          /\ dest \in 0 .. MemSize
      BY DEF Junk, NoAddress
    <2>4. {hasKernal, attached, disableCart, saveRAM, dmaLow, disturbed} \subseteq BOOLEAN
      OBVIOUS
    <2>5. /\ {image, file} \subseteq [0 .. GeoPages - 1 -> 0 .. MaxWrites]
          /\ racy \subseteq 0 .. GeoPages - 1
      BY <2>1
    <2>6. /\ reg \in 0 .. GeoPages - 1 /\ copied \in 0 .. GeoPages
          /\ releaseDMA \in 0 .. DMACycles /\ pages \in Nat /\ count \in 0 .. MemSize
          /\ PagesFit(pages)
      BY DEF PagesFit
    <2> QED
      BY <2>1, <2>2, <2>3, <2>4, <2>5, <2>6 DEF TypeOK
  <1>2. LoaderInv
    BY DEF LoaderInv, TransferInv, PlacedInv
  <1>3. SaveInv
    BY DEF SaveInv, CopiedPages, Saving
  <1> QED
    BY <1>1, <1>2, <1>3 DEF IInv

(* The loader changes nothing that the image depends on. *)
LEMMA LoaderKeepsImage ==
  ASSUME IInv, UNCHANGED <<attached, geoVars, dmaVars, saveVars, disturbed>>
  PROVE  SaveInv'
  BY DEF IInv, SaveInv, Saving, CopiedPages, geoVars, dmaVars, saveVars

\* The C64 starts the loader, again too: nothing has been transferred.
LEMMA BootKeeps == ASSUME IInv, Boot PROVE IInv'
  <1>1. TypeOK'
    BY DEF IInv, Boot, TypeOK, choiceVars, transferVars, geoVars, dmaVars, saveVars
  <1>2. LoaderInv'
    <2>1. launchPrg' = launchPrg /\ prog' = prog /\ hasKernal' = hasKernal
      BY DEF Boot, launchPrg, choiceVars
    <2>2. CASE ~launchPrg
      BY <2>1, <2>2 DEF Boot, LoaderInv
    <2>3. CASE launchPrg
      <3>1. loader' \in {"low", "high"} /\ (loader' = "low" => hasKernal)
        BY <2>3 DEF Boot
      <3>2. TransferInv'
        BY <3>1 DEF TransferInv
      <3>3. ASSUME Loadable(prog), hasKernal PROVE HighDone'
        <4>1. SizeBelow(prog)' = SizeBelow(prog)
          BY <2>1 DEF SizeBelow
        <4>2. SizeBelow(prog) \in Nat /\ prog.size \in Nat /\ prog.start \in Nat
          BY <2>3, ProgramFacts, MapFacts DEF IInv
        <4>3. SizeBelow(prog) >= prog.size - 2
          <5>1. CASE SizeAbove(prog) = 0
            BY <2>3, <5>1, ProgramFacts DEF IInv
          <5>2. CASE SizeAbove(prog) # 0
            BY <2>3, <3>3, <5>2, ProgramFacts, MapFacts DEF IInv, Loadable
          <5> QED
            BY <5>1, <5>2
        <4> QED
          BY <2>1, <4>1, <4>2, <4>3 DEF HighDone
      <3>4. PlacedInv'
        BY <2>1, <3>1, <3>3 DEF PlacedInv, Loadable, SizeBelow, SizeAbove, PagesOf
      <3> QED
        BY <2>1, <2>3, <3>2, <3>4 DEF LoaderInv
    <2> QED
      BY <2>2, <2>3
  <1>3. SaveInv'
    BY LoaderKeepsImage DEF Boot, saveVars, dmaVars, geoVars
  <1> QED
    BY <1>1, <1>2, <1>3 DEF IInv, Boot, geoVars
(* Every step of the loader leaves the program and the image alone. *)
LEMMA LoaderStepFacts ==
  ASSUME IInv, NEW from, LoaderStep(from)
  PROVE  /\ TypeOK /\ launchPrg /\ launchPrg' /\ TransferInv /\ PlacedInv
         /\ loader = from /\ writes' \in 0 .. MaxWrites /\ SaveInv'
         /\ prog' = prog /\ hasKernal' = hasKernal /\ Loadable(prog)' = Loadable(prog)
         /\ SizeBelow(prog)' = SizeBelow(prog) /\ SizeAbove(prog)' = SizeAbove(prog)
         /\ PagesOf(SizeBelow(prog))' = PagesOf(SizeBelow(prog))
         /\ PagesOf(SizeAbove(prog))' = PagesOf(SizeAbove(prog))
  <1>1. prog' = prog /\ hasKernal' = hasKernal /\ launchPrg /\ loader = from
    BY DEF LoaderStep, choiceVars, LaunchServed
  <1>2. SaveInv'
    BY LoaderKeepsImage DEF LoaderStep
  <1>3. writes' \in 0 .. MaxWrites
    BY DEF LoaderStep, geoVars, IInv
  <1>4. /\ SizeBelow(prog)' = SizeBelow(prog) /\ SizeAbove(prog)' = SizeAbove(prog)
        /\ Loadable(prog)' = Loadable(prog) /\ launchPrg'
        /\ PagesOf(SizeBelow(prog))' = PagesOf(SizeBelow(prog))
        /\ PagesOf(SizeAbove(prog))' = PagesOf(SizeAbove(prog))
    BY <1>1 DEF SizeBelow, SizeAbove, Loadable, launchPrg, PagesOf
  <1> QED
    BY <1>1, <1>2, <1>3, <1>4 DEF IInv, LoaderInv

\* A step of the loader keeps the types if what it changes has its own.
LEMMA LoaderKeepsTypes ==
  ASSUME TypeOK, NEW from, LoaderStep(from),
         disableCart' \in BOOLEAN, currentOfs' \in 0 .. MemSize - 1,
         transferPart' \in {0, 1}, fetched' \in 0 .. MemSize,
         loader' \in {"high", "highPages", "stage", "copyHigh", "low", "lowPages",
                      "addressLow", "addressHigh", "copy", "end", "disable", "run", "crashed"},
         pages' \in Nat, PagesFit(pages'),
         dest' \in 0 .. MemSize, count' \in 0 .. MemSize,
         loader' = "stage" => StageAddr + count' < SplitAddr,
         mem' \in [0 .. MemSize - 1 -> 0 .. Empty]
  PROVE  TypeOK'
  BY DEF TypeOK, LoaderStep, choiceVars, geoVars, dmaVars, saveVars, Empty

\* The invariant after a step of the loader is what the loader knows then.
LEMMA LoaderKeeps ==
  ASSUME IInv, NEW from, LoaderStep(from), TypeOK', TransferInv', PlacedInv'
  PROVE  IInv'
  BY LoaderStepFacts DEF IInv, LoaderInv

\* The loader asks for the part at $A000 and above.
LEMMA HighKeeps == ASSUME IInv, High PROVE IInv'
  <1>1. LoaderStep("high")
    BY DEF High
  <1>2. TypeOK /\ launchPrg /\ prog' = prog /\ SizeBelow(prog)' = SizeBelow(prog)
    BY <1>1, LoaderStepFacts
  <1>3. SizeBelow(prog) + 2 \in 0 .. MemSize - 1
    BY <1>2, ProgramFacts, MapFacts
  <1>4. PrgData(SizeBelow(prog) + 2) \in 0 .. MemSize
    BY <1>2, <1>3, FetchFacts, MapFacts
  <1>5. /\ transferPart' = 1 /\ currentOfs' = SizeBelow(prog) + 2 /\ loader' = "highPages"
        /\ fetched' = PrgData(SizeBelow(prog) + 2)
        /\ UNCHANGED <<disableCart, pages, dest, count, mem>>
    BY DEF High, Start, PrgData
  <1>6. TypeOK'
    <2>1. currentOfs' \in 0 .. MemSize - 1
      BY <1>3, <1>5, MapFacts
    <2> QED
      BY <1>1, <1>2, <1>4, <1>5, <2>1, LoaderKeepsTypes DEF TypeOK
  <1>7. TransferInv'
    BY <1>2, <1>5 DEF TransferInv, Fetching, PrgData
  <1>8. PlacedInv'
    BY <1>5 DEF PlacedInv
  <1> QED
    BY <1>1, <1>6, <1>7, <1>8, LoaderKeeps

\* It reads how many pages that are.
LEMMA HighPagesKeeps == ASSUME IInv, HighPages PROVE IInv'
  <1>1. LoaderStep("highPages")
    BY DEF HighPages
  <1>2. /\ TypeOK /\ launchPrg /\ prog' = prog /\ Loadable(prog)' = Loadable(prog)
        /\ SizeBelow(prog)' = SizeBelow(prog) /\ SizeAbove(prog)' = SizeAbove(prog)
        /\ PagesOf(SizeAbove(prog))' = PagesOf(SizeAbove(prog))
        /\ transferPart = 1 /\ currentOfs = SizeBelow(prog) + 2
    BY <1>1, LoaderStepFacts DEF TransferInv, Fetching
  <1>3. /\ pages' = PagesOf(SizeAbove(prog)) /\ count' = 0
        /\ currentOfs' = SizeBelow(prog) + 2 /\ fetched' = PrgData(SizeBelow(prog) + 2)
        /\ loader' = (IF pages' = 0 THEN "low" ELSE "stage")
        /\ UNCHANGED <<transferPart, disableCart, dest, mem>>
    BY <1>2 DEF HighPages, ReadPages
  <1>4. SizeBelow(prog) \in Nat /\ SizeBelow(prog) + 2 \in 0 .. MemSize
    BY <1>2, ProgramFacts, MapFacts
  <1>5. PrgData(SizeBelow(prog) + 2) \in 0 .. MemSize
    BY <1>2, <1>4, FetchFacts, MapFacts
  <1>6. /\ pages' \in Nat /\ (pages' = 0 <=> SizeAbove(prog) = 0)
        /\ PagesFit(pages')
    BY <1>2, <1>3, PageFacts
  <1>7. TypeOK'
    <2>1. StageAddr + count' < SplitAddr /\ count' \in 0 .. MemSize
      BY <1>3, MapFacts
    <2> QED
      BY <1>1, <1>2, <1>3, <1>5, <1>6, <2>1, LoaderKeepsTypes DEF TypeOK
  <1>8. TransferInv'
    <2>1. loader' = "stage" => count' < pages' * Page
      BY <1>3, <1>6, MapFacts
    <2> QED
      BY <1>2, <1>3, <1>4, <2>1, MapFacts DEF TransferInv, Fetching, Staged, PrgData
  <1>9. PlacedInv'
    <2>1. loader' = "low" => SizeBelow(prog) = prog.size - 2
      BY <1>2, <1>3, <1>6, ProgramFacts
    <2>2. loader' = "low" => HighDone'
      BY <1>2, <2>1, ProgramFacts, MapFacts DEF HighDone
    <2> QED
      BY <1>3, <2>2 DEF PlacedInv
  <1> QED
    BY <1>1, <1>7, <1>8, <1>9, LoaderKeeps
\* It copies a byte of that part behind itself.
LEMMA StageKeeps == ASSUME IInv, Stage PROVE IInv'
  <1> DEFINE low == SizeBelow(prog)
             n == pages * Page
  <1>1. LoaderStep("stage")
    BY DEF Stage
  <1>2. /\ TypeOK /\ launchPrg /\ prog' = prog /\ Loadable(prog)' = Loadable(prog)
        /\ SizeBelow(prog)' = low /\ SizeAbove(prog)' = SizeAbove(prog)
        /\ PagesOf(SizeAbove(prog))' = PagesOf(SizeAbove(prog))
        /\ pages = PagesOf(SizeAbove(prog)) /\ Staged(count) /\ count < n
        /\ currentOfs = low + 2 + count /\ fetched = PrgData(low + 2 + count)
    BY <1>1, LoaderStepFacts DEF TransferInv, Fetching
  <1>0. low \in Nat /\ count \in Nat /\ SizeAbove(prog) \in Nat
    BY <1>2, ProgramFacts DEF TypeOK
  <1>4. n \in Nat /\ n < SizeAbove(prog) + Page /\ SizeAbove(prog) # 0
    <2>1. n \in Nat /\ n < SizeAbove(prog) + Page
      BY <1>2, PageFacts
    <2>2. pages = 0 => n = 0
      BY MapFacts
    <2>3. n # 0
      BY <1>0, <1>2, <2>1
    <2> HIDE DEF n
    <2> QED
      BY <1>2, <2>1, <2>2, <2>3, PageFacts
  <1> HIDE DEF low, n
  <1>3. /\ currentOfs' = low + 3 + count /\ fetched' = PrgData(low + 3 + count)
        /\ mem' = [mem EXCEPT ![StageAddr + count] = fetched]
        /\ count' = count + 1
        /\ loader' = (IF count' = n THEN "copyHigh" ELSE "stage")
        /\ UNCHANGED <<transferPart, disableCart, pages, dest>>
    <2>1. currentOfs' = low + 3 + count
      BY <1>0, <1>2 DEF Stage, ReadByte
    <2> QED
      BY <2>1, <1>2 DEF Stage, ReadByte, PrgData, n
  <1>5. /\ low + SizeAbove(prog) = prog.size /\ prog.size <= MemSize
        /\ SizeAbove(prog) <= MemSize - SplitAddr + 2
    BY <1>2, <1>4, ProgramFacts, MapFacts DEF low
  <1>6. low + 3 + count \in Nat
    BY <1>0
  <1>7. StageAddr + count \in 0 .. MemSize - 1
    BY <1>0, <1>2, <1>4, <1>5, MapFacts
  <1>8. TypeOK'
    <2>1. fetched' \in 0 .. MemSize /\ fetched \in 0 .. Empty
      <3>1. fetched \in 0 .. MemSize
        BY <1>2 DEF TypeOK
      <3> QED
        BY <1>2, <1>3, <1>6, <3>1, FetchFacts, MapFacts DEF Empty
    <2>2. currentOfs' \in 0 .. MemSize - 1
      <3>1. prog.size <= MemSize + 2 - SystemTop
        BY <1>2, ProgramFacts, MapFacts
      <3> QED
        BY <1>0, <1>2, <1>3, <1>4, <1>5, <3>1, ProgramFacts, MapFacts
    <2>3. mem' \in [0 .. MemSize - 1 -> 0 .. Empty]
      BY <1>2, <1>3, <2>1 DEF TypeOK
    <2>4. count' \in 0 .. MemSize /\ (loader' = "stage" => StageAddr + count' < SplitAddr)
      <3>1. StageAddr + n <= SplitAddr
        BY <1>2, PageFacts DEF n
      <3> QED
        BY <1>0, <1>2, <1>3, <1>4, <3>1, MapFacts
    <2>5. pages' \in Nat /\ PagesFit(pages')
      BY <1>2, <1>3 DEF TypeOK
    <2> QED
      BY <1>1, <1>2, <1>3, <2>1, <2>2, <2>3, <2>4, <2>5, LoaderKeepsTypes DEF TypeOK
  <1>9. Staged(count)'
    <2> SUFFICES ASSUME NEW j \in 0 .. count
                 PROVE  mem'[StageAddr + j] = PrgData(low + 2 + j)
      BY <1>0, <1>2, <1>3 DEF Staged, PrgData, low
    <2>1. mem \in [0 .. MemSize - 1 -> 0 .. Empty]
      BY <1>2 DEF TypeOK
    <2>2. CASE j = count
      BY <1>2, <1>3, <1>7, <2>1, <2>2
    <2>3. CASE j < count
      <3>1. mem[StageAddr + j] = PrgData(low + 2 + j)
        BY <1>0, <1>2, <2>3 DEF Staged, low
      <3>2. StageAddr + j # StageAddr + count /\ StageAddr + j \in 0 .. MemSize - 1
        BY <1>0, <1>7, <2>3, MapFacts
      <3> QED
        BY <1>3, <3>1, <3>2, <2>1
    <2> QED
      BY <1>0, <2>2, <2>3
  <1>10. TransferInv'
    <2>1. loader' = "stage" => count' < n
      BY <1>0, <1>2, <1>3, <1>4
    <2>2. low + 2 + count' = low + 3 + count
      BY <1>0, <1>3
    <2>3. Fetching(low + 2 + count)'
      BY <1>2, <1>3, <2>2 DEF Fetching, PrgData, low
    <2> QED
      BY <1>2, <1>3, <1>9, <2>1, <2>3 DEF TransferInv, n, low
  <1>11. PlacedInv'
    BY <1>3 DEF PlacedInv
  <1> QED
    BY <1>1, <1>8, <1>10, <1>11, LoaderKeeps
\* It copies the staged bytes to where they belong.
LEMMA CopyHighKeeps == ASSUME IInv, CopyHigh PROVE IInv'
  <1> DEFINE low == SizeBelow(prog)
             n == pages * Page
             from(a) == (a + MemSize - SplitAddr) % MemSize
  <1>1. LoaderStep("copyHigh")
    BY DEF CopyHigh
  <1>2. /\ TypeOK /\ launchPrg /\ prog' = prog /\ Loadable(prog)' = Loadable(prog)
        /\ low' = low /\ pages = PagesOf(SizeAbove(prog)) /\ Staged(n)
    BY <1>1, LoaderStepFacts DEF TransferInv
  <1>3. /\ mem' = [a \in 0 .. MemSize - 1 |->
                     IF from(a) < n THEN mem[StageAddr + from(a)] ELSE mem[a]]
        /\ loader' = (IF SplitAddr + n > MemSize THEN "crashed" ELSE "low")
        /\ UNCHANGED <<disableCart, transferVars, pages, dest, count>>
    BY DEF CopyHigh
  <1>4. n \in Nat /\ n < SizeAbove(prog) + Page /\ SizeAbove(prog) <= n
    BY <1>2, PageFacts
  <1>5. SizeAbove(prog) \in Nat /\ SizeAbove(prog) <= MemSize - SplitAddr + 2 /\ low \in Nat
    BY <1>2, ProgramFacts, MapFacts
  <1> HIDE DEF n
  <1>6. ASSUME NEW a \in 0 .. MemSize - 1
        PROVE  from(a) = IF a < SplitAddr THEN a + MemSize - SplitAddr ELSE a - SplitAddr
    <2> DEFINE x == a + MemSize - SplitAddr
    <2>1. x \in 0 .. 2 * MemSize - 1
      BY MapFacts
    <2>2. x % MemSize = IF x < MemSize THEN x ELSE x - MemSize
      <3> HIDE DEF x
      <3> QED BY <2>1, NoWrap, MapFacts
    <2> QED
      BY <2>2, MapFacts
  <1> HIDE DEF from
  <1>7. TypeOK'
    <2>1. ASSUME NEW a \in 0 .. MemSize - 1, from(a) < n
          PROVE  StageAddr + from(a) \in 0 .. MemSize - 1
      BY <1>4, <1>5, <1>6, <2>1, MapFacts
    <2>2. mem' \in [0 .. MemSize - 1 -> 0 .. Empty]
      BY <1>2, <1>3, <2>1 DEF TypeOK
    <2> QED
      BY <1>1, <1>2, <1>3, <2>2, LoaderKeepsTypes DEF TypeOK, transferVars
  <1>8. TransferInv'
    BY <1>3 DEF TransferInv
  <1>9. PlacedInv'
    <2>1. Loadable(prog) => loader' = "low"
      <3>1. Loadable(prog) => SplitAddr + n <= MemSize
        BY <1>2 DEF Loadable, n
      <3> QED
        BY <1>3, <1>4, <3>1, MapFacts
    <2>2. ASSUME NEW i \in low + 2 .. prog.size - 1
          PROVE  mem'[prog.start + i - 2] = i
      <3> DEFINE a == prog.start + i - 2
                 j == i - low - 2
      <3>1. /\ a \in 0 .. MemSize - 1 /\ a = SplitAddr + j /\ j \in Nat
            /\ j < SizeAbove(prog) /\ i \in Nat /\ low + 2 + j = i
        BY <1>2, <1>5, <2>2, ProgramFacts, MapFacts
      <3> HIDE DEF a, j
      <3>2. from(a) = j
        BY <1>6, <3>1, MapFacts
      <3>3. j < n
        BY <1>4, <1>5, <3>1
      <3>4. mem'[a] = mem[StageAddr + j]
        BY <1>3, <3>1, <3>2, <3>3
      <3>5. mem[StageAddr + j] = PrgData(i)
        BY <1>2, <1>4, <3>1, <3>3 DEF Staged
      <3>6. PrgData(i) = i
        BY <1>2, <1>5, <2>2, FetchFacts, ProgramFacts
      <3> QED
        BY <3>4, <3>5, <3>6 DEF a
    <2>3. HighDone'
      BY <1>2, <2>2 DEF HighDone
    <2> QED
      BY <1>2, <1>3, <2>1, <2>3 DEF PlacedInv
  <1> QED
    BY <1>1, <1>7, <1>8, <1>9, LoaderKeeps

\* It asks for the part below $A000.
LEMMA LowKeeps == ASSUME IInv, Low PROVE IInv'
  <1>1. LoaderStep("low")
    BY DEF Low
  <1>2. /\ TypeOK /\ launchPrg /\ prog' = prog /\ PlacedInv
        /\ SizeBelow(prog)' = SizeBelow(prog) /\ Loadable(prog)' = Loadable(prog)
        /\ loader = "low"
    BY <1>1, LoaderStepFacts
  <1>3. /\ transferPart' = 0 /\ currentOfs' = 0 /\ fetched' = PrgData(0)
        /\ loader' = "lowPages" /\ UNCHANGED <<disableCart, pages, dest, count, mem>>
    BY DEF Low, Start, PrgData
  <1>4. PrgData(0) \in 0 .. MemSize /\ 0 \in 0 .. MemSize - 1
    BY <1>2, FetchFacts, MapFacts
  <1>5. TypeOK'
    BY <1>1, <1>2, <1>3, <1>4, LoaderKeepsTypes DEF TypeOK
  <1>6. TransferInv'
    BY <1>2, <1>3 DEF TransferInv, Fetching, PrgData
  <1>7. PlacedInv'
    BY <1>2, <1>3 DEF PlacedInv, HighDone
  <1> QED
    BY <1>1, <1>5, <1>6, <1>7, LoaderKeeps

\* It reads how many pages that are.
LEMMA LowPagesKeeps == ASSUME IInv, LowPages PROVE IInv'
  <1>1. LoaderStep("lowPages")
    BY DEF LowPages
  <1>2. /\ TypeOK /\ launchPrg /\ prog' = prog /\ PlacedInv
        /\ SizeBelow(prog)' = SizeBelow(prog) /\ Loadable(prog)' = Loadable(prog)
        /\ PagesOf(SizeBelow(prog))' = PagesOf(SizeBelow(prog))
        /\ loader = "lowPages" /\ transferPart = 0 /\ currentOfs = 0
    BY <1>1, LoaderStepFacts DEF TransferInv, Fetching
  <1>3. /\ pages' = PagesOf(SizeBelow(prog)) /\ count' = 0
        /\ currentOfs' = 0 /\ fetched' = PrgData(0) /\ loader' = "addressLow"
        /\ UNCHANGED <<transferPart, disableCart, dest, mem>>
    BY <1>2 DEF LowPages, ReadPages
  <1>4. /\ PrgData(0) \in 0 .. MemSize /\ pages' \in Nat /\ PagesFit(pages')
        /\ count' \in 0 .. MemSize
    BY <1>2, <1>3, FetchFacts, PageFacts, MapFacts
  <1>5. TypeOK'
    BY <1>1, <1>2, <1>3, <1>4, LoaderKeepsTypes DEF TypeOK
  <1>6. TransferInv'
    BY <1>2, <1>3 DEF TransferInv, Fetching, PrgData
  <1>7. PlacedInv'
    BY <1>2, <1>3 DEF PlacedInv, HighDone
  <1> QED
    BY <1>1, <1>5, <1>6, <1>7, LoaderKeeps

\* It reads the low byte of the load address.
LEMMA AddressLowKeeps == ASSUME IInv, AddressLow PROVE IInv'
  <1>1. LoaderStep("addressLow")
    BY DEF AddressLow
  <1>2. /\ TypeOK /\ launchPrg /\ prog' = prog /\ PlacedInv
        /\ SizeBelow(prog)' = SizeBelow(prog) /\ Loadable(prog)' = Loadable(prog)
        /\ PagesOf(SizeBelow(prog))' = PagesOf(SizeBelow(prog))
        /\ loader = "addressLow" /\ pages = PagesOf(SizeBelow(prog))
        /\ count = 0 /\ currentOfs = 0 /\ fetched = PrgData(0)
    BY <1>1, LoaderStepFacts DEF TransferInv, Fetching
  <1>3. PrgData(0) = 0 /\ PrgData(1) \in 0 .. MemSize
    BY <1>2, FetchFacts
  <1>4. /\ currentOfs' = 1 /\ fetched' = PrgData(1) /\ dest' = prog.start
        /\ loader' = "addressHigh" /\ UNCHANGED <<transferPart, disableCart, pages, count, mem>>
    BY <1>2, <1>3 DEF AddressLow, ReadByte, PrgData
  <1>5. TypeOK'
    <2>1. currentOfs' \in 0 .. MemSize - 1 /\ dest' \in 0 .. MemSize
      BY <1>2, <1>4, MapFacts, ProgramFacts
    <2> QED
      BY <1>1, <1>2, <1>3, <1>4, <2>1, LoaderKeepsTypes DEF TypeOK
  <1>6. TransferInv'
    BY <1>2, <1>4 DEF TransferInv, Fetching, PrgData
  <1>7. PlacedInv'
    BY <1>2, <1>4 DEF PlacedInv, HighDone
  <1> QED
    BY <1>1, <1>5, <1>6, <1>7, LoaderKeeps
\* It reads the high byte, and the address is complete.
LEMMA AddressHighKeeps == ASSUME IInv, AddressHigh PROVE IInv'
  <1>1. LoaderStep("addressHigh")
    BY DEF AddressHigh
  <1>2. /\ TypeOK /\ launchPrg /\ prog' = prog /\ PlacedInv
        /\ SizeBelow(prog)' = SizeBelow(prog) /\ Loadable(prog)' = Loadable(prog)
        /\ PagesOf(SizeBelow(prog))' = PagesOf(SizeBelow(prog))
        /\ loader = "addressHigh" /\ pages = PagesOf(SizeBelow(prog))
        /\ count = 0 /\ currentOfs = 1 /\ fetched = PrgData(1) /\ dest = prog.start
    BY <1>1, LoaderStepFacts DEF TransferInv, Fetching
  <1>3. PrgData(1) = 1 /\ PrgData(2) \in 0 .. MemSize
    BY <1>2, FetchFacts
  <1>4. /\ currentOfs' = 2 /\ fetched' = PrgData(2) /\ dest' = prog.start
        /\ loader' = "copy" /\ UNCHANGED <<transferPart, disableCart, pages, count, mem>>
    BY <1>2, <1>3 DEF AddressHigh, ReadByte, PrgData
  <1>5. TypeOK'
    <2>1. currentOfs' \in 0 .. MemSize - 1 /\ dest' \in 0 .. MemSize
      BY <1>2, <1>4, MapFacts, ProgramFacts
    <2> QED
      BY <1>1, <1>2, <1>3, <1>4, <2>1, LoaderKeepsTypes DEF TypeOK
  <1>6. TransferInv'
    <2>1. prog.start + 0 <= MemSize /\ prog.size \in Nat
      BY <1>2, ProgramFacts, MapFacts
    <2>2. LowDone(0)'
      BY <1>2, <2>1 DEF LowDone
    <2>3. 0 < pages * Page \/ pages = 0
      BY <1>2, PageFacts, MapFacts
    <2> QED
      BY <1>2, <1>4, <2>1, <2>2, <2>3 DEF TransferInv, Fetching, PrgData
  <1>7. PlacedInv'
    BY <1>2, <1>4 DEF PlacedInv, HighDone
  <1> QED
    BY <1>1, <1>5, <1>6, <1>7, LoaderKeeps

(* What is copied to an address above the lower part is what belongs there *)
(* anyway.                                                                 *)
LEMMA CopyKeeps == ASSUME IInv, Copy PROVE IInv'
  <1> DEFINE low == SizeBelow(prog)
             n == pages * Page
             to == (prog.start + count) % MemSize
             io == IOBase .. IOEnd - 1
  <1>1. LoaderStep("copy")
    BY DEF Copy
  <1>2. /\ TypeOK /\ launchPrg /\ prog' = prog /\ PlacedInv
        /\ low' = low /\ Loadable(prog)' = Loadable(prog)
        /\ PagesOf(low)' = PagesOf(low) /\ pages = PagesOf(low)
        /\ loader = "copy" /\ dest = prog.start /\ prog.start + count <= MemSize
        /\ count < n \/ pages = 0
        /\ \/ currentOfs <= 2 + count
           \/ prog.start >= SplitAddr /\ currentOfs <= MemSize - SplitAddr + 2 + count
        /\ Clear(count) => Fetching(2 + count) /\ LowDone(count)
    BY <1>1, LoaderStepFacts DEF TransferInv
  <1>3. /\ prog.start \in SystemTop .. MemSize - 1 /\ prog.size \in Nat /\ prog.size > 2
        /\ prog.start + prog.size - 2 <= MemSize /\ low \in 0 .. prog.size - 2
        /\ low = 0 => prog.start = SplitAddr
    BY <1>2, ProgramFacts, MapFacts
  <1>4. /\ count \in Nat /\ n \in Nat /\ low <= n /\ n < low + Page
        /\ currentOfs \in Nat /\ (pages = 0 <=> low = 0)
    BY <1>2, PageFacts DEF TypeOK
  <1> HIDE DEF low, n
  <1>5. /\ count' = count + 1 /\ StoreByte(to)
        /\ loader' = (IF to < SystemTop \/ disableCart' THEN "crashed"
                      ELSE IF count' = n THEN "end" ELSE "copy")
        /\ UNCHANGED <<pages, dest>>
    <2>1. dest # NoAddress
      BY <1>2, <1>3, MapFacts DEF NoAddress
    <2> QED
      BY <1>2, <2>1 DEF Copy, n
  <1>6. to = IF prog.start + count < MemSize THEN prog.start + count ELSE 0
    <2> DEFINE x == prog.start + count
    <2>1. x \in 0 .. 2 * MemSize - 1 /\ x <= MemSize
      BY <1>2, <1>3, <1>4, MapFacts
    <2>2. x % MemSize = IF x < MemSize THEN x ELSE x - MemSize
      <3> HIDE DEF x
      <3> QED BY <2>1, NoWrap, MapFacts
    <2> QED
      BY <2>1, <2>2, MapFacts
  <1> HIDE DEF to
  <1>7. loader' # "crashed" => prog.start + count < MemSize /\ to = prog.start + count
    BY <1>5, <1>6, MapFacts
  \* a store to I/O: a program that begins above $A000, as IOAssumption has it
  <1>8. to \in io => prog.start >= SplitAddr
    <2> SUFFICES ASSUME to \in io, prog.start < SplitAddr PROVE FALSE
      BY <1>3, MapFacts
    <2>1. low # 0 /\ count < n
      BY <1>2, <1>3, <1>4, MapFacts
    <2>2. prog.start + low <= SplitAddr
      BY <1>2, <1>3, ProgramFacts, MapFacts DEF low
    <2> QED
      BY <1>2, <1>3, <1>4, <1>6, <2>1, <2>2, MapFacts, IOAssumption
  \* what the store does to the transfer
  <1>9. /\ transferPart' \in {0, 1} /\ disableCart' \in BOOLEAN
        /\ \/ currentOfs' = currentOfs + 1
           \/ prog.start >= SplitAddr /\ currentOfs' \in {0, low + 2}
        /\ fetched' = PrgData(currentOfs')
        /\ mem' = [mem EXCEPT ![to] = fetched] \/ UNCHANGED mem
    <2>1. ASSUME ReadByte PROVE /\ transferPart' \in {0, 1} /\ currentOfs' = currentOfs + 1
                               /\ fetched' = PrgData(currentOfs')
      BY <1>2, <2>1 DEF ReadByte, TypeOK, PrgData
    <2>2. ASSUME NEW part \in {0, 1}, Start(part)
          PROVE  /\ transferPart' \in {0, 1} /\ currentOfs' \in {0, low + 2}
                 /\ fetched' = PrgData(currentOfs')
      BY <1>2, <2>2 DEF Start, low, PrgData
    <2>3. CASE to \notin io /\ ReadByte /\ mem' = [mem EXCEPT ![to] = fetched]
               /\ UNCHANGED disableCart
      BY <1>2, <2>1, <2>3 DEF TypeOK
    <2>4. CASE /\ to \in IO1Base .. IO2Base - 1 /\ UNCHANGED <<mem, disableCart>>
               /\ Start(IF to = IO1Base + 2 THEN 1 ELSE 0)
      <3>1. to \in io
        BY <2>4, IOAssumption
      <3> QED
        BY <1>2, <1>8, <2>2, <2>4, <3>1 DEF TypeOK
    <2>5. CASE ReadByte /\ disableCart' \in {FALSE, to = IO2Base} /\ UNCHANGED mem
      BY <2>1, <2>5
    <2> QED
      BY <1>5, <2>3, <2>4, <2>5 DEF StoreByte
  <1>10. /\ currentOfs' \in Nat /\ count' \in Nat
         /\ \/ currentOfs' <= 2 + count'
            \/ prog.start >= SplitAddr /\ currentOfs' <= MemSize - SplitAddr + 2 + count'
    <2>1. CASE currentOfs' = currentOfs + 1
      BY <1>2, <1>4, <1>5, <2>1, MapFacts
    <2>2. CASE prog.start >= SplitAddr /\ currentOfs' \in {0, low + 2}
      <3>1. low <= MemSize - SplitAddr
        BY <1>3, <2>2, MapFacts
      <3> QED
        BY <1>3, <1>4, <1>5, <2>2, <3>1, MapFacts
    <2> QED
      BY <1>9, <2>1, <2>2
  <1>11. currentOfs' \in 0 .. MemSize - 1
    BY <1>2, <1>3, <1>4, <1>5, <1>10, MapFacts
  <1>12. TypeOK'
    <2>1. fetched' \in 0 .. MemSize /\ fetched \in 0 .. Empty
      <3>1. fetched \in 0 .. MemSize
        BY <1>2 DEF TypeOK
      <3> QED
        BY <1>2, <1>9, <1>11, <3>1, FetchFacts, MapFacts DEF Empty
    <2>2. count' \in 0 .. MemSize
      BY <1>2, <1>3, <1>4, <1>5, MapFacts
    <2>3. mem' \in [0 .. MemSize - 1 -> 0 .. Empty]
      BY <1>2, <1>9, <2>1 DEF TypeOK
    <2>4. pages' \in Nat /\ PagesFit(pages')
      BY <1>2, <1>5 DEF TypeOK
    <2> QED
      BY <1>1, <1>2, <1>5, <1>9, <1>11, <2>1, <2>2, <2>3, <2>4, LoaderKeepsTypes DEF TypeOK
  \* a byte that does not go to I/O is the next one of the program
  <1>13. ASSUME loader' # "crashed", Clear(count')
         PROVE  /\ Clear(count) /\ fetched = PrgData(2 + count) /\ LowDone(count)
                /\ currentOfs' = 3 + count /\ mem' = [mem EXCEPT ![to] = fetched]
    <2>1. Clear(count) /\ to \notin io
      BY <1>2, <1>3, <1>4, <1>5, <1>7, <1>13, MapFacts, IOAssumption DEF Clear
    <2>2. /\ to \notin IO1Base .. IO2Base - 1
          /\ to \notin IOBase .. IO1Base - 1 \cup IO2Base .. IOEnd - 1
      BY <2>1, IOAssumption
    <2>3. ReadByte /\ mem' = [mem EXCEPT ![to] = fetched]
      BY <1>5, <2>2 DEF StoreByte
    <2> QED
      BY <1>2, <1>4, <2>1, <2>3 DEF ReadByte, Fetching
  <1>14. ASSUME loader' # "crashed", Clear(count'), NEW i \in 2 .. prog.size - 1,
                i = 2 + count \/ mem[prog.start + i - 2] = i
         PROVE  mem'[prog.start + i - 2] = i
    <2>1. mem \in [0 .. MemSize - 1 -> 0 .. Empty]
      BY <1>2 DEF TypeOK
    <2>2. prog.start + i - 2 \in 0 .. MemSize - 1
      BY <1>3, MapFacts
    <2>3. CASE i = 2 + count
      <3>1. fetched = i
        BY <1>2, <1>3, <1>4, <1>13, <1>14, <2>3, FetchFacts
      <3>2. to = prog.start + i - 2
        BY <1>3, <1>4, <1>7, <1>14, <2>3, MapFacts
      <3> QED
        BY <1>13, <1>14, <2>1, <2>2, <3>1, <3>2
    <2>4. CASE i # 2 + count
      <3>1. to # prog.start + i - 2
        BY <1>3, <1>4, <1>7, <1>14, <2>4, MapFacts
      <3> QED
        BY <1>13, <1>14, <2>1, <2>2, <2>4, <3>1
    <2> QED
      BY <2>3, <2>4
  <1>15. loader' # "crashed" /\ Clear(count') => LowDone(count)'
    <2> SUFFICES ASSUME loader' # "crashed", Clear(count'), NEW i \in 2 .. prog.size - 1,
                        i < 3 + count
                 PROVE  mem'[prog.start + i - 2] = i
      BY <1>2, <1>4, <1>5 DEF LowDone
    <2>1. i = 2 + count \/ i < 2 + count
      BY <1>3, <1>4
    <2>2. i < 2 + count => mem[prog.start + i - 2] = i
      BY <1>13 DEF LowDone
    <2> QED
      BY <1>14, <2>1, <2>2
  <1>16. TransferInv'
    <2>1. loader' = "copy" => prog.start + count' <= MemSize
      BY <1>3, <1>4, <1>5, <1>7, MapFacts
    <2>2. 2 + count' = 3 + count
      BY <1>4, <1>5
    <2>3. loader' = "copy" => count' < n \/ pages = 0
      BY <1>2, <1>4, <1>5
    <2>4. loader' = "copy" /\ Clear(count)' => Fetching(2 + count)' /\ LowDone(count)'
      <3> SUFFICES ASSUME loader' = "copy", Clear(count')
                   PROVE  Fetching(2 + count)' /\ LowDone(count)'
        BY <1>2 DEF Clear
      <3>1. currentOfs' = 2 + count'
        BY <1>13, <2>2
      <3>2. fetched' = PrgData(2 + count')
        BY <1>9, <3>1
      <3> QED
        BY <1>2, <1>15, <3>1, <3>2 DEF Fetching, PrgData
    <2> QED
      BY <1>2, <1>5, <1>10, <2>1, <2>3, <2>4 DEF TransferInv, n, low
  <1>17. PlacedInv'
    <2> SUFFICES ASSUME Loadable(prog)
                 PROVE  /\ loader' # "crashed"
                        /\ loader' = "copy" => HighDone'
                        /\ loader' = "end" => Whole'
      BY <1>2, <1>5 DEF PlacedInv
    <2>1. /\ HighDone /\ low # 0 /\ count < n /\ prog.start + n <= MemSize
          /\ prog.start + n <= IOBase \/ prog.start >= IOEnd
      BY <1>2, <1>3, <1>4 DEF PlacedInv, Loadable, n, low
    <2>2. to = prog.start + count /\ to \notin io /\ Clear(count')
      BY <1>3, <1>4, <1>5, <1>6, <2>1, MapFacts, IOAssumption DEF Clear
    <2>3. loader' # "crashed"
      <3>1. /\ to \notin IO1Base .. IO2Base - 1
            /\ to \notin IOBase .. IO1Base - 1 \cup IO2Base .. IOEnd - 1
        BY <2>2, IOAssumption
      <3>2. UNCHANGED disableCart /\ ~disableCart
        BY <1>1, <1>5, <3>1 DEF StoreByte, LoaderStep, LaunchServed
      <3> QED
        BY <1>3, <1>4, <1>5, <2>2, <3>2, MapFacts
    <2>4. HighDone'
      <3> SUFFICES ASSUME NEW i \in low + 2 .. prog.size - 1
                   PROVE  mem'[prog.start + i - 2] = i
        BY <1>2 DEF HighDone, low
      <3>1. i \in 2 .. prog.size - 1
        BY <1>3
      <3>2. mem[prog.start + i - 2] = i
        BY <2>1 DEF HighDone, low
      <3> QED
        BY <1>14, <2>2, <2>3, <3>1, <3>2
    <2>5. ASSUME loader' = "end", NEW i \in 2 .. prog.size - 1
          PROVE  mem'[prog.start + i - 2] = i
      <3>1. CASE i < 2 + count'
        BY <1>2, <1>15, <2>2, <2>3, <3>1 DEF LowDone
      <3>2. CASE i >= 2 + count'
        <4>1. i \in low + 2 .. prog.size - 1
          BY <1>3, <1>4, <1>5, <2>5, <3>2
        <4> QED
          BY <1>2, <2>4, <4>1 DEF HighDone, low
      <3> QED
        BY <1>4, <1>5, <3>1, <3>2
    <2> QED
      BY <1>2, <1>5, <2>3, <2>4, <2>5 DEF Whole
  <1> QED
    BY <1>1, <1>12, <1>16, <1>17, LoaderKeeps

\* It asks for the number of pages again, which restarts a transfer that is over.
LEMMA EndKeeps == ASSUME IInv, End PROVE IInv'
  <1>1. LoaderStep("end")
    BY DEF End
  <1>2. /\ TypeOK /\ launchPrg /\ prog' = prog /\ PlacedInv
        /\ Loadable(prog)' = Loadable(prog) /\ loader = "end"
    BY <1>1, LoaderStepFacts
  <1>3. /\ transferPart' = 0 /\ currentOfs' = 0 /\ fetched' = PrgData(0)
        /\ loader' = "disable" /\ UNCHANGED <<disableCart, pages, dest, count, mem>>
    BY DEF End, Start, PrgData
  <1>4. PrgData(0) \in 0 .. MemSize /\ 0 \in 0 .. MemSize - 1
    BY <1>2, FetchFacts, MapFacts
  <1>5. TypeOK'
    BY <1>1, <1>2, <1>3, <1>4, LoaderKeepsTypes DEF TypeOK
  <1>6. TransferInv'
    BY <1>3 DEF TransferInv
  <1>7. PlacedInv'
    BY <1>2, <1>3 DEF PlacedInv, Whole
  <1> QED
    BY <1>1, <1>5, <1>6, <1>7, LoaderKeeps

\* It writes 123, which switches the launch code off and starts the program.
LEMMA DisableKeeps == ASSUME IInv, Disable PROVE IInv'
  <1>1. LoaderStep("disable")
    BY DEF Disable
  <1>2. /\ TypeOK /\ prog' = prog /\ PlacedInv /\ Loadable(prog)' = Loadable(prog)
        /\ loader = "disable"
    BY <1>1, LoaderStepFacts
  <1>3. /\ disableCart' = TRUE /\ loader' = "run"
        /\ UNCHANGED <<currentOfs, transferPart, fetched, pages, dest, count, mem>>
    BY DEF Disable, transferVars
  <1>4. TypeOK'
    BY <1>1, <1>2, <1>3, LoaderKeepsTypes DEF TypeOK
  <1>5. TransferInv'
    BY <1>3 DEF TransferInv
  <1>6. PlacedInv'
    BY <1>2, <1>3 DEF PlacedInv, Whole
  <1> QED
    BY <1>1, <1>4, <1>5, <1>6, LoaderKeeps
----------------------------------------------------------------------------
(* Everybody else leaves what the loader relies on alone. *)

\* What the loader knows stays when nothing of it changes.
LEMMA OthersKeepLoader ==
  ASSUME LoaderInv, UNCHANGED <<choiceVars, transferVars, loader, pages, dest, count, mem>>
  PROVE  LoaderInv'
  <1>1. /\ UNCHANGED <<prog, hasKernal, currentOfs, transferPart, fetched, loader, pages,
                       dest, count, mem>>
        /\ launchPrg' = launchPrg
    BY DEF choiceVars, transferVars, launchPrg
  <1>2. TransferInv => TransferInv'
    BY <1>1 DEF TransferInv, Fetching, Staged, LowDone, PrgData, SizeBelow, SizeAbove, PagesOf,
              Clear
  <1>3. Loadable(prog)' = Loadable(prog)
    BY <1>1 DEF Loadable, SizeBelow, SizeAbove, PagesOf
  <1>4. PlacedInv => PlacedInv'
    BY <1>1, <1>3 DEF PlacedInv, HighDone, Whole, SizeBelow
  <1> QED
    BY <1>1, <1>2, <1>4 DEF LoaderInv

\* A program selects a page of the GeoRAM.
LEMMA SelectKeeps == ASSUME IInv, Select PROVE IInv'
  <1>1. LoaderInv'
    BY OthersKeepLoader DEF IInv, Select, ProgramStep, c64Vars
  <1>2. SaveInv'
    BY DEF IInv, Select, ProgramStep, SaveInv, Saving, CopiedPages, saveVars, dmaVars
  <1>3. reg' \in 0 .. GeoPages - 1
    BY GeoAssumption DEF Select
  <1>4. TypeOK'
    BY <1>3 DEF IInv, TypeOK, Select, ProgramStep, choiceVars, transferVars, dmaVars,
                saveVars, c64Vars, Empty
  <1> QED
    BY <1>1, <1>2, <1>4 DEF IInv, Select

\* A write to a page that has been copied is noted; the C64 runs when it writes.
LEMMA WriteKeeps == ASSUME IInv, Write PROVE IInv'
  <1>1. LoaderInv'
    BY OthersKeepLoader DEF IInv, Write, ProgramStep, c64Vars
  <1>2. /\ TypeOK /\ SaveInv /\ attached /\ ~dmaLow /\ writes < MaxWrites
        /\ geo' = [geo EXCEPT ![reg] = writes'] /\ writes' = writes + 1
        /\ racy' = IF Saving /\ reg < copied THEN racy \cup {reg} ELSE racy
        /\ UNCHANGED <<reg, prog, hasKernal, attached, disableCart, currentOfs, transferPart,
                       fetched, saveRAM, releaseDMA, dmaLow, pc, copied, image, file,
                       reset, loader, pages, dest, count, mem, resets, presses, disturbed>>
    BY DEF IInv, Write, ProgramStep, choiceVars, transferVars, dmaVars, saveVars, c64Vars,
           Runs, GeoServed
  <1>3. writes' \in 0 .. MaxWrites
    BY <1>2, GeoAssumption DEF IInv
  <1>4. /\ geo \in [0 .. GeoPages - 1 -> 0 .. MaxWrites] /\ reg \in 0 .. GeoPages - 1
        /\ copied \in 0 .. GeoPages
    BY <1>2 DEF TypeOK
  <1>5. geo' \in [0 .. GeoPages - 1 -> 0 .. MaxWrites] /\ racy' \subseteq 0 .. GeoPages - 1
    BY <1>2, <1>3, <1>4 DEF TypeOK
  <1>6. TypeOK'
    BY <1>2, <1>5 DEF TypeOK, Empty
  <1>7. SaveInv'
    <2>1. pc # "gone" /\ (pc = "button" => disturbed)
      BY <1>2 DEF SaveInv
    <2>2. ASSUME Saving, NEW p \in 0 .. copied - 1
          PROVE  image[p] = geo'[p] \/ p \in racy'
      <3>1. p \in 0 .. GeoPages - 1 /\ p < copied
        BY <1>4, <2>2, GeoAssumption
      <3>2. image[p] = geo[p] \/ p \in racy
        BY <1>2, <2>2 DEF SaveInv, CopiedPages
      <3> QED
        BY <1>2, <1>4, <2>2, <3>1, <3>2
    <2> QED
      BY <1>2, <2>1, <2>2 DEF SaveInv, Saving, CopiedPages
  <1> QED
    BY <1>1, <1>3, <1>6, <1>7 DEF IInv

\* The button asks for the saving and halts the C64 at once.
LEMMA ButtonKeeps == ASSUME IInv, Button PROVE IInv'
  <1>1. LoaderInv'
    BY OthersKeepLoader DEF IInv, Button, c64Vars
  <1>2. SaveInv'
    BY DEF IInv, Button, SaveInv, Saving, CopiedPages, saveVars, geoVars, EveryCycle, GeoServed
  <1>3. TypeOK'
    <2>1. releaseDMA' \in 0 .. DMACycles
      BY GeoAssumption DEF Button
    <2>2. disturbed' \in BOOLEAN
      <3>1. disturbed \in BOOLEAN
        BY DEF IInv, TypeOK
      <3> QED
        BY <3>1 DEF Button
    <2> QED
      BY <2>1, <2>2 DEF IInv, TypeOK, Button, choiceVars, transferVars, geoVars, saveVars, c64Vars,
                  Empty
  <1> QED
    BY <1>1, <1>2, <1>3 DEF IInv, Button, geoVars

\* The handler counts down to the release, and not while the image is to be saved.
LEMMA CountDownKeeps == ASSUME IInv, CountDown PROVE IInv'
  <1>1. LoaderInv'
    BY OthersKeepLoader DEF IInv, CountDown, c64Vars
  <1>2. SaveInv'
    BY DEF IInv, CountDown, SaveInv, Saving, CopiedPages, saveVars, geoVars
  <1>3. releaseDMA' \in 0 .. DMACycles /\ dmaLow' \in BOOLEAN
    BY GeoAssumption DEF IInv, TypeOK, CountDown
  <1>4. TypeOK'
    BY <1>3 DEF IInv, TypeOK, CountDown, choiceVars, transferVars, geoVars, saveVars, c64Vars,
                Empty
  <1> QED
    BY <1>1, <1>2, <1>4 DEF IInv, CountDown, geoVars

\* A reset that is seen releases DMA, of which "disturbed" tells.
LEMMA ResetCycleKeeps == ASSUME IInv, ResetCycle PROVE IInv'
  <1>1. LoaderInv'
    BY OthersKeepLoader DEF IInv, ResetCycle
  <1>2. SaveInv'
    BY DEF IInv, ResetCycle, SaveInv, Saving, CopiedPages, saveVars, geoVars
  <1>3. TypeOK'
    BY DEF IInv, TypeOK, ResetCycle, choiceVars, transferVars, geoVars, saveVars, Empty
  <1> QED
    BY <1>1, <1>2, <1>3 DEF IInv, ResetCycle, geoVars

\* Reset is held and released.
LEMMA ResetLineKeeps == ASSUME IInv, HoldReset \/ ReleaseReset PROVE IInv'
  <1>1. LoaderInv'
    BY OthersKeepLoader DEF IInv, HoldReset, ReleaseReset
  <1>2. SaveInv'
    BY DEF IInv, HoldReset, ReleaseReset, SaveInv, Saving, CopiedPages, saveVars, geoVars,
           dmaVars
  <1>3. TypeOK'
    BY DEF IInv, TypeOK, HoldReset, ReleaseReset, choiceVars, transferVars, geoVars, dmaVars,
           saveVars, Empty
  <1> QED
    BY <1>1, <1>2, <1>3 DEF IInv, HoldReset, ReleaseReset, geoVars

\* A reset begins the launch anew, with nothing of the program in memory.
LEMMA PressResetKeeps == ASSUME IInv, PressReset PROVE IInv'
  <1>1. LoaderInv'
    <2>1. loader' = "boot" /\ launchPrg' = launchPrg
      BY DEF PressReset, launchPrg, choiceVars
    <2> QED
      BY <2>1 DEF LoaderInv, TransferInv, PlacedInv
  <1>2. SaveInv'
    BY DEF IInv, PressReset, SaveInv, Saving, CopiedPages, saveVars, geoVars, dmaVars
  <1>3. mem' \in [0 .. MemSize - 1 -> 0 .. Empty]
    BY MapFacts DEF PressReset, Empty
  <1>4. TypeOK'
    BY <1>3 DEF IInv, TypeOK, PressReset, choiceVars, transferVars, geoVars, dmaVars, saveVars,
                Empty
  <1> QED
    BY <1>1, <1>2, <1>4 DEF IInv, PressReset, geoVars

\* The saving begins with no page copied.
LEMMA BeginSaveKeeps == ASSUME IInv, BeginSave PROVE IInv'
  <1>1. LoaderInv'
    BY OthersKeepLoader DEF IInv, BeginSave, MainStep, c64Vars
  <1>2. SaveInv'
    BY DEF IInv, BeginSave, MainStep, SaveInv, Saving, CopiedPages
  <1>3. TypeOK'
    <2>1. copied' \in 0 .. GeoPages
      BY GeoAssumption DEF BeginSave
    <2> QED
      BY <2>1 DEF IInv, TypeOK, BeginSave, MainStep, choiceVars, transferVars, c64Vars, Empty
  <1> QED
    BY <1>1, <1>2, <1>3 DEF IInv, BeginSave, MainStep

\* It copies a page as it is now.
LEMMA SavePageKeeps == ASSUME IInv, SavePage PROVE IInv'
  <1>1. LoaderInv'
    BY OthersKeepLoader DEF IInv, SavePage, MainStep, c64Vars
  <1>2. /\ TypeOK /\ SaveInv /\ Saving /\ copied < GeoPages
        /\ image' = [image EXCEPT ![copied] = geo[copied]] /\ copied' = copied + 1
        /\ UNCHANGED <<prog, hasKernal, attached, disableCart, currentOfs, transferPart,
                       fetched, reg, geo, saveRAM, releaseDMA, dmaLow, pc, file, reset, loader,
                       pages, dest, count, mem, presses, resets, writes, racy, disturbed>>
    BY DEF IInv, SavePage, MainStep, choiceVars, transferVars, c64Vars
  <1>3. /\ geo \in [0 .. GeoPages - 1 -> 0 .. MaxWrites]
        /\ image \in [0 .. GeoPages - 1 -> 0 .. MaxWrites] /\ copied \in 0 .. GeoPages - 1
    <2>1. copied \in 0 .. GeoPages
      BY <1>2 DEF TypeOK
    <2>2. copied \in 0 .. GeoPages - 1
      BY <1>2, <2>1, GeoAssumption
    <2> QED
      BY <1>2, <2>2 DEF TypeOK
  <1>4. TypeOK'
    <2>1. copied' \in 0 .. GeoPages /\ image' \in [0 .. GeoPages - 1 -> 0 .. MaxWrites]
      BY <1>2, <1>3, GeoAssumption
    <2> QED
      BY <1>2, <2>1 DEF TypeOK, Empty
  <1>5. SaveInv'
    <2>1. ASSUME NEW p \in 0 .. copied PROVE image'[p] = geo[p] \/ p \in racy
      <3>1. p = copied \/ p \in 0 .. copied - 1
        BY <1>3
      <3>2. p \in 0 .. copied - 1 => image[p] = geo[p] \/ p \in racy
        BY <1>2 DEF SaveInv, CopiedPages
      <3> QED
        BY <1>2, <1>3, <3>1, <3>2, GeoAssumption
    <2>2. 0 .. copied' - 1 = 0 .. copied
      BY <1>2, <1>3
    <2> QED
      BY <1>2, <2>1, <2>2 DEF SaveInv, Saving, CopiedPages
  <1> QED
    BY <1>1, <1>2, <1>4, <1>5 DEF IInv

\* The image is complete when it is written.
LEMMA EndSaveKeeps == ASSUME IInv, EndSave PROVE IInv'
  <1>1. LoaderInv'
    BY OthersKeepLoader DEF IInv, EndSave, MainStep, c64Vars
  <1>2. SaveInv'
    BY DEF IInv, EndSave, MainStep, SaveInv, Saving, CopiedPages
  <1>3. TypeOK'
    BY DEF IInv, TypeOK, EndSave, MainStep, choiceVars, transferVars, c64Vars, Empty
  <1> QED
    BY <1>1, <1>2, <1>3 DEF IInv, EndSave, MainStep

\* Nothing happens.
LEMMA StutterKeeps == ASSUME IInv, UNCHANGED vars PROVE IInv'
  <1>1. UNCHANGED <<choiceVars, attached, disableCart, transferVars, geoVars, dmaVars,
                    saveVars, c64Vars, disturbed>>
    BY DEF vars
  <1>2. LoaderInv'
    BY <1>1, OthersKeepLoader DEF IInv, c64Vars
  <1>3. SaveInv'
    BY <1>1, LoaderKeepsImage
  <1>4. TypeOK'
    BY <1>1 DEF IInv, TypeOK, choiceVars, transferVars, geoVars, dmaVars, saveVars, c64Vars,
                Empty
  <1> QED
    BY <1>1, <1>2, <1>3, <1>4 DEF IInv, geoVars
----------------------------------------------------------------------------
\* The invariant of launcher and GeoRAM (kernel_rkl.cpp): at each of its steps the
\* loader has put a prefix of its part in place, and a page that was copied into the
\* image is as it is or noted as written since.
THEOREM KernelInvariant == Spec => []IInv
  <1>1. ASSUME IInv, Next PROVE IInv'
    <2>1. CASE Loader
      BY <1>1, <2>1, BootKeeps, HighKeeps, HighPagesKeeps, StageKeeps, CopyHighKeeps, LowKeeps,
         LowPagesKeeps, AddressLowKeeps, AddressHighKeeps, CopyKeeps, EndKeeps,
         DisableKeeps DEF Loader
    <2>2. CASE Select \/ Write
      BY <1>1, <2>2, SelectKeeps, WriteKeeps
    <2>3. CASE FIQ
      BY <1>1, <2>3, ButtonKeeps, CountDownKeeps, ResetCycleKeeps, ResetLineKeeps DEF FIQ
    <2>4. CASE MainLoop
      BY <1>1, <2>4, BeginSaveKeeps, SavePageKeeps, EndSaveKeeps DEF MainLoop
    <2>5. CASE PressReset \/ ReleaseReset
      BY <1>1, <2>5, PressResetKeeps, ResetLineKeeps
    <2> QED
      BY <1>1, <2>1, <2>2, <2>3, <2>4, <2>5 DEF Next
  <1>2. IInv /\ [Next]_vars => IInv'
    BY <1>1, StutterKeeps
  <1> QED
    BY <1>2, InitIInv, PTL DEF Spec

\* The types of kernel_rkl.cpp: the offset stays in the buffer of the program, and the
\* loader in the memory, wherever a reset begins the transfer anew.
THEOREM TypeCorrect == Spec => []TypeOK
  <1>1. IInv => TypeOK
    BY DEF IInv
  <1> QED
    BY <1>1, KernelInvariant, PTL

\* What the loader (C64Side/cart.a, cart_ultimax.a) starts is the program of the file,
\* for every load address and size the split can cope with and every size of a page.
THEOREM ProgramStartsWhole == Spec => []ProgramWhole
  <1>1. IInv => ProgramWhole
    BY DEF IInv, LoaderInv, PlacedInv, ProgramWhole
  <1> QED
    BY <1>1, KernelInvariant, PTL

\* The image saved by kernel_rkl.cpp is the GeoRAM as it was when the button was pressed,
\* and lacks none but raced writes when the kernel ends, whatever its size.
THEOREM GeoRAMIsSaved == Spec => []GeoRAMSaved
  <1>1. ASSUME IInv PROVE GeoRAMSaved
    <2>1. SavedAtOnce
      BY <1>1 DEF IInv, SaveInv, SavedAtOnce
    <2>2. OnlyRacedWritesLost
      BY <1>1 DEF IInv, SaveInv, OnlyRacedWritesLost, CopiedPages
    <2> QED
      BY <2>1, <2>2 DEF GeoRAMSaved
  <1> QED
    BY <1>1, KernelInvariant, PTL

-----------------------------------------------------------------------------
(***************************************************************************)
(* The freezers.                                                           *)
(*                                                                         *)
(* The argument: the processor is at one of the cycles of an instruction,  *)
(* or of the entry of an interrupt.  A press that is expected to freeze    *)
(* starts the count anew or finds what it had counted; an instruction has  *)
(* at most two writes left, so that until the processor takes the NMI the  *)
(* count is below three, and then each of the three pushes adds one: the   *)
(* freeze comes with the last, and the vector is read after it.  The NMI   *)
(* is not lost before, because the line stays low, or is driven high all   *)
(* the time and makes no other edge.  The flag of Ultimax mode is set with *)
(* the lines by every operation of the handler, and by the statements of   *)
(* the initialisation together.                                            *)
(***************************************************************************)
(* The state of the handler *)

\* the flag of Ultimax mode agrees with the lines
Types == {AR, FC3, KCS, SS5}
Matches(s) == Visible(s) => (s.ultimax <=> UltimaxLines(s))
SameMode(s, t) ==
  /\ t.exrom = s.exrom /\ t.game = s.game /\ t.active = s.active /\ t.ultimax = s.ultimax
SameButton(s, t) == t.armed = s.armed /\ t.debounce = s.debounce

\* The four types are told apart.
LEMMA FourTypes ==
  /\ AR # FC3 /\ AR # KCS /\ AR # SS5
  /\ FC3 # KCS /\ FC3 # SS5 /\ KCS # SS5
  BY DEF AR, FC3, KCS, SS5

\* The flag goes on to agree with the lines if neither changes.
LEMMA SameModeMatches ==
  ASSUME NEW s, NEW t, SameMode(s, t), Matches(s), type \in Types
  PROVE  Matches(t)
  BY Zenon DEF SameMode, Matches, Visible, UltimaxLines, Types, AR,
     FC3, KCS, SS5

\* Counting changes the count only.
LEMMA CountedIs ==
  ASSUME NEW s \in Carts, NEW c
  PROVE  /\ Counted(s, c) \in Carts
         /\ SameMode(s, Counted(s, c)) /\ SameButton(s, Counted(s, c))
         /\ Counted(s, c).nmi = s.nmi
         /\ Writes(c) =>
              Counted(s, c).count =
                IF s.count < Many THEN s.count + 1 ELSE s.count
         /\ ~Writes(c) =>
                Counted(s, c).count = 0 \/ (type # AR /\ Served(s, c)
                /\ Counted(s, c).count = s.count)
<1>1. Counted(s, c) \in Carts
  BY SMT DEF Counted, Carts, Many
<1>2. \/ Counted(s, c) = s
      \/ \E n : Counted(s, c) = [s EXCEPT !.count = n]
  <2>1. CASE type # AR /\ Served(s, c)
    BY <2>1 DEF Counted
  <2>2. CASE ~(type # AR /\ Served(s, c))
    BY <2>2, Zenon DEF Counted
  <2> QED
    BY <2>1, <2>2
<1>3. SameMode(s, Counted(s, c)) /\ SameButton(s, Counted(s, c))
      /\ Counted(s, c).nmi = s.nmi
  BY <1>2, Zenon DEF SameMode, SameButton, Carts
<1>4. Writes(c) =>
          Counted(s, c).count = IF s.count < Many THEN s.count + 1 ELSE s.count
  BY SMT DEF Counted, Served, Writes, Carts
<1>5. ~Writes(c) =>
          Counted(s, c).count = 0 \/ (type # AR /\ Served(s, c)
          /\ Counted(s, c).count = s.count)
  BY SMT DEF Counted, Carts
<1> QED
  BY <1>1, <1>3, <1>4, <1>5

\* The register sets the flag as it sets the lines.
LEMMA RegisteredIs ==
  ASSUME type \in Types, NEW s \in Carts, NEW v \in Values
  PROVE  LET t == Registered(s, v) IN
         /\ t \in Carts /\ t.count = s.count /\ SameButton(s, t)
         /\ Matches(t)
         /\ type # FC3 /\ s.nmi => t.nmi
<1> DEFINE t == Registered(s, v)
<1> SUFFICES /\ t \in Carts /\ t.count = s.count /\ SameButton(s, t)
             /\ Matches(t)
             /\ type # FC3 /\ s.nmi => t.nmi
  OBVIOUS
<1>1. CASE type = AR
  <2>1. t = [s EXCEPT !.exrom = v.exrom, !.game = v.game, !.nmi = @ \/ v.nmi,
                      !.active = @ /\ ~v.off,
                      !.ultimax = v.exrom /\ ~v.game /\ s.active /\ ~v.off]
    BY <1>1, Zenon DEF Registered, AR, FC3, KCS, SS5
  <2> HIDE DEF t
  <2>2. t \in Carts
    BY <2>1, ZenonT(60) DEF Carts, Values
  <2>3. /\ t.exrom = v.exrom /\ t.game = v.game /\ t.nmi = (s.nmi \/ v.nmi)
        /\ t.active = (s.active /\ ~v.off)
        /\ t.ultimax = (v.exrom /\ ~v.game /\ s.active /\ ~v.off)
        /\ t.count = s.count /\ t.armed = s.armed /\ t.debounce = s.debounce
    BY <2>1, Zenon DEF Carts
  <2>4. Matches(t)
    BY <1>1, <2>3, Zenon DEF Matches, Visible, UltimaxLines, Carts,
       Values, AR, FC3, KCS, SS5
  <2> QED
    BY <2>2, <2>3, <2>4, Zenon DEF SameButton
<1>2. CASE type = FC3
  <2>1. t = [s EXCEPT !.exrom = v.exrom, !.game = v.game, !.nmi = v.nmi,
                      !.active = ~v.off, !.ultimax = v.exrom /\ ~v.game]
    BY <1>2, Zenon DEF Registered, AR, FC3, KCS, SS5
  <2> HIDE DEF t
  <2>2. t \in Carts
    BY <2>1, ZenonT(60) DEF Carts, Values
  <2>3. /\ t.exrom = v.exrom /\ t.game = v.game
        /\ t.ultimax = (v.exrom /\ ~v.game)
        /\ t.count = s.count /\ t.armed = s.armed /\ t.debounce = s.debounce
    BY <2>1, Zenon DEF Carts
  <2> QED
    BY <1>2, <2>2, <2>3, Zenon DEF SameButton, Matches, UltimaxLines
<1>3. CASE type = KCS
  <2>1. t = [s EXCEPT !.exrom = v.exrom, !.game = v.game, !.nmi = TRUE,
                      !.ultimax = v.exrom /\ ~v.game]
    BY <1>3, Zenon DEF Registered, AR, FC3, KCS, SS5
  <2> HIDE DEF t
  <2>2. t \in Carts
    BY <2>1, ZenonT(60) DEF Carts, Values
  <2>3. /\ t.exrom = v.exrom /\ t.game = v.game /\ t.nmi
        /\ t.ultimax = (v.exrom /\ ~v.game)
        /\ t.count = s.count /\ t.armed = s.armed /\ t.debounce = s.debounce
    BY <2>1, Zenon DEF Carts
  <2> QED
    BY <1>3, <2>2, <2>3, Zenon DEF SameButton, Matches, UltimaxLines
<1>4. CASE type = SS5
  <2>1. t = [s EXCEPT !.exrom = v.exrom, !.game = v.game, !.nmi = TRUE,
                      !.active = ~v.off,
                      !.ultimax = v.exrom /\ ~v.game /\ ~v.off]
    BY <1>4, Zenon DEF Registered, AR, FC3, KCS, SS5
  <2> HIDE DEF t
  <2>2. t \in Carts
    BY <2>1, ZenonT(60) DEF Carts, Values
  <2>3. /\ t.exrom = v.exrom /\ t.game = v.game /\ t.nmi /\ t.active = ~v.off
        /\ t.ultimax = (v.exrom /\ ~v.game /\ ~v.off)
        /\ t.count = s.count /\ t.armed = s.armed /\ t.debounce = s.debounce
    BY <2>1, Zenon DEF Carts
  <2>4. Matches(t)
    BY <1>4, <2>3, Zenon DEF Matches, Visible, UltimaxLines, Carts,
       Values, AR, FC3, KCS, SS5
  <2> QED
    BY <2>2, <2>3, <2>4, Zenon DEF SameButton
<1> QED
  BY <1>1, <1>2, <1>3, <1>4 DEF Types

\* What an access makes of the register.
LEMMA WithRegisterIs ==
  ASSUME type \in Types, NEW s \in Carts, NEW c, NEW t \in WithRegister(s, c)
  PROVE  /\ t \in Carts /\ t.count = s.count /\ SameButton(s, t)
         /\ Matches(s) => Matches(t)
         /\ type # FC3 /\ s.nmi => t.nmi
         /\ c \notin {"register", "mode"} => t = s
<1>1. CASE c \in {"register", "mode"} /\ Visible(s)
  <2>1. PICK v \in ValuesOf(c) : t = Registered(s, v)
    BY <1>1 DEF WithRegister
  <2>2. v \in Values
    <3>1. (c = "mode") \in BOOLEAN
      OBVIOUS
    <3> QED
      BY <2>1, <3>1, Zenon DEF ValuesOf, Values
  <2> QED
    BY <1>1, <2>1, <2>2, RegisteredIs
<1>2. CASE ~(c \in {"register", "mode"} /\ Visible(s))
  BY <1>2 DEF WithRegister, SameButton
<1> QED
  BY <1>1, <1>2

\* What the button does.
LEMMA PressedIs ==
  ASSUME type \in Types, NEW s \in Carts
  PROVE  LET t == Pressed(s) IN
         /\ t \in Carts
         /\ t.armed /\ t.debounce /\ ~t.nmi
         /\ t.count = IF type = AR THEN s.count ELSE 0
         /\ Matches(s) => Matches(t)
         /\ type \in {KCS, SS5} => t.ultimax /\ UltimaxLines(t)
         /\ type \in {AR, FC3} => SameMode(s, t)
<1> DEFINE t == Pressed(s)
<1> SUFFICES /\ t \in Carts
             /\ t.armed /\ t.debounce /\ ~t.nmi
             /\ t.count = IF type = AR THEN s.count ELSE 0
             /\ Matches(s) => Matches(t)
             /\ type \in {KCS, SS5} => t.ultimax /\ UltimaxLines(t)
             /\ type \in {AR, FC3} => SameMode(s, t)
  OBVIOUS
<1>1. CASE type \in {AR, FC3}
  <2>1. t = [s EXCEPT !.armed = TRUE, !.debounce = TRUE, !.nmi = FALSE,
                      !.count = IF type = AR THEN s.count ELSE 0]
    <3>1. CASE type = AR
      <4>1. t = [s EXCEPT !.armed = TRUE, !.debounce = TRUE, !.nmi = FALSE]
        BY <3>1, Zenon DEF Pressed, AR, FC3
      <4> QED
        BY <3>1, <4>1, Zenon DEF Carts
    <3>2. CASE type = FC3
      BY <3>2, Zenon DEF Pressed, AR, FC3
    <3> QED
      BY <1>1, <3>1, <3>2
  <2> HIDE DEF t
  <2>2. 0 \in 0 .. Many
    BY SMT DEF Many
  <2>3. t \in Carts
    BY <2>1, <2>2, Zenon DEF Carts
  <2>4. /\ t.armed /\ t.debounce /\ ~t.nmi
        /\ t.count = IF type = AR THEN s.count ELSE 0
        /\ SameMode(s, t)
    BY <2>1, Zenon DEF Carts, SameMode
  <2>5. type \notin {KCS, SS5}
    BY <1>1, FourTypes
  <2> QED
    BY <2>3, <2>4, <2>5, SameModeMatches
<1>2. CASE type \in {KCS, SS5}
  <2>1. t = [s EXCEPT !.armed = TRUE, !.debounce = TRUE, !.nmi = FALSE, !.count = 0,
                      !.exrom = TRUE, !.game = FALSE, !.ultimax = TRUE, !.active = TRUE]
    BY <1>2, Zenon DEF Pressed, AR, FC3, KCS, SS5
  <2> HIDE DEF t
  <2>2. 0 \in 0 .. Many
    BY SMT DEF Many
  <2>3. t \in Carts
    BY <2>1, <2>2, Zenon DEF Carts
  <2>4. /\ t.armed /\ t.debounce /\ ~t.nmi
        /\ t.count = 0 /\ t.ultimax /\ t.exrom /\ ~t.game
    BY <2>1, Zenon DEF Carts
  <2> QED
    BY <1>2, <2>3, <2>4, FourTypes, Zenon DEF Matches, UltimaxLines
<1> QED
  BY <1>1, <1>2 DEF Types

\* What the freeze does.
LEMMA FrozenIs ==
  ASSUME type \in Types, NEW s \in Carts
  PROVE  LET t == Frozen(s) IN
         /\ t \in Carts
         /\ ~t.armed /\ t.debounce = s.debounce /\ t.count = s.count
         /\ t.nmi = s.nmi \/ (type = AR /\ t.nmi)
         /\ t.ultimax /\ UltimaxLines(t)
<1> DEFINE t == Frozen(s)
<1> SUFFICES /\ t \in Carts
             /\ ~t.armed /\ t.debounce = s.debounce /\ t.count = s.count
             /\ t.nmi = s.nmi \/ (type = AR /\ t.nmi)
             /\ t.ultimax /\ UltimaxLines(t)
  OBVIOUS
<1>1. CASE type = AR
  <2>1. t = [s EXCEPT !.exrom = TRUE, !.game = FALSE, !.nmi = TRUE,
                      !.active = TRUE, !.ultimax = TRUE, !.armed = FALSE]
    BY <1>1, Zenon DEF Frozen, AR
  <2> HIDE DEF t
  <2> QED
    BY <1>1, <2>1, Zenon DEF Carts, UltimaxLines
<1>2. CASE type # AR
  <2>1. t = [s EXCEPT !.exrom = TRUE, !.game = FALSE, !.ultimax = TRUE, !.armed = FALSE]
    BY <1>2, Zenon DEF Frozen
  <2> HIDE DEF t
  <2> QED
    BY <2>1, Zenon DEF Carts, UltimaxLines
<1> QED
  BY <1>1, <1>2

\* The end of the debouncing, which does not come before the processor has taken the NMI.
LEMMA DebouncedIs ==
  ASSUME type \in Types, NEW s \in Carts, NEW d \in Debounced(s)
  PROVE  /\ d \in Carts /\ d.count = s.count /\ d.armed = s.armed /\ d.nmi = s.nmi
         /\ SameMode(s, d)
         /\ "button" \in {latched, cpu.kind} => d = s
         /\ d.debounce => s.debounce
<1>1. CASE d = s
  BY <1>1 DEF SameMode
<1>2. CASE d = [s EXCEPT !.debounce = FALSE] /\ "button" \notin {latched, cpu.kind}
  BY <1>2, Zenon DEF Carts, SameMode
<1> QED
  BY <1>1, <1>2 DEF Debounced

\* The statements of initAR, initFC3, initKCS, initSS5.
LEMMA StatementIs ==
  ASSUME type \in Types, NEW s \in Carts, main \in {"mode", "lines", "debounce", "arm"}
  PROVE  LET t == WithStatement(s) IN
         /\ t \in Carts
         /\ main = "mode" => (t.ultimax <=> type = SS5)
         /\ main = "lines" =>
              /\ type # AR => t.ultimax = s.ultimax
              /\ type = AR => ~t.ultimax
              /\ UltimaxLines(t) <=> type = SS5
              /\ ~t.exrom <=> type # SS5
         /\ main \in {"debounce", "arm"} => SameMode(s, t)
         /\ main # "debounce" => t.count = s.count
         /\ main = "debounce" => t.count = 0
         /\ type = AR => t.nmi = s.nmi
         /\ type = FC3 /\ t.nmi => s.nmi
<1> DEFINE t == WithStatement(s)
<1>1. CASE main = "mode"
  <2>1. t = [s EXCEPT !.active = TRUE, !.ultimax = (type = SS5)]
    BY <1>1, Zenon DEF WithStatement, WithMode
  <2> HIDE DEF t
  <2>2. t \in Carts /\ (t.ultimax <=> type = SS5) /\ t.count = s.count
        /\ t.nmi = s.nmi
    BY <2>1, Zenon DEF Carts
  <2> QED
    BY <1>1, <2>2 DEF t
<1>2. CASE main = "lines"
  <2>1. t = WithLines(s)
    BY <1>2, Zenon DEF WithStatement
  <2>2. CASE type = AR
    <3>1. t = [s EXCEPT !.exrom = FALSE, !.game = TRUE, !.ultimax = FALSE]
      BY <2>1, <2>2, Zenon DEF WithLines, AR, FC3, KCS,
         SS5
    <3> HIDE DEF t
    <3>2. t \in Carts /\ ~t.ultimax /\ ~UltimaxLines(t) /\ ~t.exrom
          /\ t.count = s.count /\ t.nmi = s.nmi
      BY <3>1, Zenon DEF Carts, UltimaxLines
    <3> QED
      BY <1>2, <2>2, <3>2, FourTypes DEF t
  <2>3. CASE type = FC3
    <3>1. t = [s EXCEPT !.exrom = FALSE, !.game = FALSE, !.nmi = FALSE]
      BY <2>1, <2>3, Zenon DEF WithLines, AR, FC3, KCS,
         SS5
    <3> HIDE DEF t
    <3>2. t \in Carts /\ t.ultimax = s.ultimax /\ ~UltimaxLines(t) /\ ~t.exrom
          /\ t.count = s.count /\ ~t.nmi
      BY <3>1, Zenon DEF Carts, UltimaxLines
    <3> QED
      BY <1>2, <2>3, <3>2, FourTypes DEF t
  <2>4. CASE type = KCS
    <3>1. t = [s EXCEPT !.exrom = FALSE, !.game = FALSE, !.nmi = TRUE]
      BY <2>1, <2>4, Zenon DEF WithLines, AR, FC3, KCS,
         SS5
    <3> HIDE DEF t
    <3>2. t \in Carts /\ t.ultimax = s.ultimax /\ ~UltimaxLines(t) /\ ~t.exrom
          /\ t.count = s.count
      BY <3>1, Zenon DEF Carts, UltimaxLines
    <3> QED
      BY <1>2, <2>4, <3>2, FourTypes DEF t
  <2>5. CASE type = SS5
    <3>1. t = [s EXCEPT !.exrom = TRUE, !.game = FALSE, !.nmi = TRUE]
      BY <2>1, <2>5, Zenon DEF WithLines, AR, FC3, KCS,
         SS5
    <3> HIDE DEF t
    <3>2. t \in Carts /\ t.ultimax = s.ultimax /\ UltimaxLines(t) /\ t.exrom
          /\ t.count = s.count
      BY <3>1, Zenon DEF Carts, UltimaxLines
    <3> QED
      BY <1>2, <2>5, <3>2, FourTypes DEF t
  <2> QED
    BY <2>2, <2>3, <2>4, <2>5 DEF Types
<1>3. CASE main = "debounce"
  <2>1. t = [s EXCEPT !.count = 0, !.debounce = FALSE]
    BY <1>3, Zenon DEF WithStatement
  <2> HIDE DEF t
  <2>2. 0 \in 0 .. Many
    BY SMT DEF Many
  <2>3. t \in Carts /\ SameMode(s, t) /\ t.count = 0 /\ t.nmi = s.nmi
    BY <2>1, <2>2, Zenon DEF Carts, SameMode
  <2> QED
    BY <1>3, <2>3 DEF t
<1>4. CASE main = "arm"
  <2>1. t = [s EXCEPT !.armed = FALSE]
    BY <1>4, Zenon DEF WithStatement
  <2> HIDE DEF t
  <2>3. t \in Carts /\ SameMode(s, t) /\ t.count = s.count /\ t.nmi = s.nmi
    BY <2>1, Zenon DEF Carts, SameMode
  <2> QED
    BY <1>4, <2>3 DEF t
<1> QED
  BY <1>1, <1>2, <1>3, <1>4

-----------------------------------------------------------------------------
(* The cycles left of an instruction or of an interrupt.                   *)

\* The first cycle and the others.
LEMMA OfOne ==
  ASSUME NEW a
  PROVE  Head(<<a>>) = a /\ Tail(<<a>>) = <<>> /\ <<a>> # <<>>
  BY SMT
\* The first of two cycles, and the others.
LEMMA OfTwo ==
  ASSUME NEW a, NEW b
  PROVE  /\ Head(<<a, b>>) = a /\ Tail(<<a, b>>) = <<b>> /\ <<a, b>> # <<>>
         /\ Len(<<a, b>>) = 2 /\ <<a, b>>[2] = b
  BY SMT
\* The first of three cycles, and the others.
LEMMA OfThree ==
  ASSUME NEW a, NEW b, NEW c
  PROVE  /\ Head(<<a, b, c>>) = a /\ Tail(<<a, b, c>>) = <<b, c>> /\ <<a, b, c>> # <<>>
         /\ Len(<<a, b, c>>) = 3 /\ <<a, b, c>>[2] = b
  BY SMT
\* The first of four cycles, and the others.
LEMMA OfFour ==
  ASSUME NEW a, NEW b, NEW c, NEW d
  PROVE  /\ Head(<<a, b, c, d>>) = a /\ Tail(<<a, b, c, d>>) = <<b, c, d>>
         /\ <<a, b, c, d>> # <<>> /\ Len(<<a, b, c, d>>) = 4 /\ <<a, b, c, d>>[2] = b
  BY SMT
\* The first of five cycles, and the others.
LEMMA OfFive ==
  ASSUME NEW a, NEW b, NEW c, NEW d, NEW e
  PROVE  /\ Head(<<a, b, c, d, e>>) = a /\ Tail(<<a, b, c, d, e>>) = <<b, c, d, e>>
         /\ <<a, b, c, d, e>> # <<>>
  BY SMT

\* An instruction begins with a read.
LEMMA ProgramBegins ==
  ASSUME NEW x \in Fetches, NEW p \in Program(x)
  PROVE  p \in TwoWrites \cup OneWrite \cup NoWrite /\ p # <<>> /\ ~Writes(Head(p))
  BY SMT DEF Program, Fetches, Writing, Reading, TwoWrites, OneWrite, NoWrite,
     Writes

\* By the writes that are left an instruction is one of three.
LEMMA ProgramsApart ==
  ASSUME NEW t
  PROVE  /\ ~(t \in TwoWrites /\ t \in OneWrite)
         /\ ~(t \in TwoWrites /\ t \in NoWrite)
         /\ ~(t \in OneWrite /\ t \in NoWrite)
  BY SMT DEF Fetches, Writing, Reading, TwoWrites, OneWrite, NoWrite

\* One cycle of an instruction.
LEMMA ProgramGoesOn ==
  ASSUME NEW t \in TwoWrites \cup OneWrite \cup NoWrite, t # <<>>
  PROVE  /\ Head(t) \notin {"push", "vector"}
         /\ Tail(t) \in TwoWrites \cup OneWrite \cup NoWrite
         /\ t \in TwoWrites => Tail(t) \in IF Writes(Head(t)) THEN OneWrite ELSE TwoWrites
         /\ t \in OneWrite => Tail(t) \in IF Writes(Head(t)) THEN NoWrite ELSE OneWrite
         /\ t \in NoWrite => Tail(t) \in NoWrite /\ ~Writes(Head(t))
         /\ Head(t) \in {"register", "mode"} => Tail(t) = <<>>
<1> DEFINE Claim ==
         /\ Head(t) \notin {"push", "vector"}
         /\ Tail(t) \in TwoWrites \cup OneWrite \cup NoWrite
         /\ t \in TwoWrites => Tail(t) \in IF Writes(Head(t)) THEN OneWrite ELSE TwoWrites
         /\ t \in OneWrite => Tail(t) \in IF Writes(Head(t)) THEN NoWrite ELSE OneWrite
         /\ t \in NoWrite => Tail(t) \in NoWrite /\ ~Writes(Head(t))
         /\ Head(t) \in {"register", "mode"} => Tail(t) = <<>>
<1> SUFFICES Claim
  OBVIOUS
<1>1. CASE t \in TwoWrites
  <2>1. t \notin OneWrite /\ t \notin NoWrite
    BY <1>1, ProgramsApart
  <2>2. CASE \E x \in Fetches : t = <<x, "read", "write", "write">>
    <3>1. Head(t) \in Fetches /\ Tail(t) = <<"read", "write", "write">>
      BY <2>2, OfFour
    <3> QED
      BY <2>1, <3>1 DEF Fetches, TwoWrites, Writes
  <2>3. CASE t = <<"read", "write", "write">>
    <3>1. Head(t) = "read" /\ Tail(t) = <<"write", "write">>
      BY <2>3, OfThree
    <3> QED
      BY <2>1, <3>1 DEF TwoWrites, Writes
  <2>4. CASE t = <<"write", "write">>
    <3>1. Head(t) = "write" /\ Tail(t) = <<"write">>
      BY <2>4, OfTwo
    <3> QED
      BY <2>1, <3>1 DEF OneWrite, Writes, Writing
  <2> QED
    BY <1>1, <2>2, <2>3, <2>4 DEF TwoWrites
<1>2. CASE t \in OneWrite
  <2>1. t \notin TwoWrites /\ t \notin NoWrite
    BY <1>2, ProgramsApart
  <2>2. CASE \E x \in Fetches, c \in Writing : t = <<x, c>>
    <3>1. Head(t) \in Fetches /\ \E c \in Writing : Tail(t) = <<c>>
      BY <2>2, OfTwo
    <3>2. Tail(t) \in OneWrite
      BY <3>1 DEF OneWrite
    <3> QED
      BY <2>1, <3>1, <3>2 DEF Fetches, Writes
  <2>3. CASE \E c \in Writing : t = <<c>>
    <3>1. Head(t) \in Writing /\ Tail(t) = <<>>
      BY <2>3, OfOne
    <3>2. Tail(t) \in NoWrite
      BY <3>1 DEF NoWrite
    <3> QED
      BY <2>1, <3>1, <3>2 DEF Writing, Writes
  <2> QED
    BY <1>2, <2>2, <2>3 DEF OneWrite
<1>3. CASE t \in NoWrite
  <2>1. t \notin TwoWrites /\ t \notin OneWrite
    BY <1>3, ProgramsApart
  <2>2. CASE \E x \in Fetches, c \in Reading : t = <<x, c>>
    <3>1. Head(t) \in Fetches /\ \E c \in Reading : Tail(t) = <<c>>
      BY <2>2, OfTwo
    <3>2. Tail(t) \in NoWrite
      BY <3>1 DEF NoWrite
    <3> QED
      BY <2>1, <3>1, <3>2 DEF Fetches, Writes
  <2>3. CASE \E c \in Reading : t = <<c>>
    <3>1. Head(t) \in Reading /\ Tail(t) = <<>>
      BY <2>3, OfOne
    <3>2. Tail(t) \in NoWrite
      BY <3>1 DEF NoWrite
    <3> QED
      BY <2>1, <3>1, <3>2 DEF Reading, Writes
  <2> QED
    BY <1>3, <2>2, <2>3 DEF NoWrite
<1> QED
  BY <1>1, <1>2, <1>3

\* One cycle of the entry of an interrupt.
LEMMA EntryGoesOn ==
  /\ \A t \in Entries : t # <<>> /\ Head(t) \in Fetches /\ Tail(t) = ThreePushes
  /\ ThreePushes # <<>> /\ Head(ThreePushes) = "push" /\ Tail(ThreePushes) = TwoPushes
  /\ Len(ThreePushes) = 4 /\ ThreePushes[2] = "push"
  /\ TwoPushes # <<>> /\ Head(TwoPushes) = "push" /\ Tail(TwoPushes) = OnePush
  /\ Len(TwoPushes) = 3 /\ TwoPushes[2] = "push"
  /\ OnePush # <<>> /\ Head(OnePush) = "push" /\ Tail(OnePush) = Vector
  /\ Len(OnePush) = 2 /\ OnePush[2] = "vector"
  /\ Vector # <<>> /\ Head(Vector) = "vector" /\ Tail(Vector) = <<>>
<1>1. \A t \in Entries : t # <<>> /\ Head(t) \in Fetches /\ Tail(t) = ThreePushes
  <2> SUFFICES ASSUME NEW x \in Fetches
               PROVE  Entry(x) # <<>> /\ Head(Entry(x)) = x
                      /\ Tail(Entry(x)) = ThreePushes
    BY DEF Entries
  <2> QED
    BY OfFive DEF Entry, ThreePushes
<1>2. /\ ThreePushes # <<>> /\ Head(ThreePushes) = "push" /\ Tail(ThreePushes) = TwoPushes
      /\ Len(ThreePushes) = 4 /\ ThreePushes[2] = "push"
  BY OfFour DEF ThreePushes, TwoPushes
<1>3. /\ TwoPushes # <<>> /\ Head(TwoPushes) = "push" /\ Tail(TwoPushes) = OnePush
      /\ Len(TwoPushes) = 3 /\ TwoPushes[2] = "push"
  BY OfThree DEF OnePush, TwoPushes
<1>4. /\ OnePush # <<>> /\ Head(OnePush) = "push" /\ Tail(OnePush) = Vector
      /\ Len(OnePush) = 2 /\ OnePush[2] = "vector"
  BY OfTwo DEF OnePush, Vector
<1>5. Vector # <<>> /\ Head(Vector) = "vector" /\ Tail(Vector) = <<>>
  BY OfOne DEF Vector
<1> QED
  BY <1>1, <1>2, <1>3, <1>4, <1>5

\* The cycles of an entry are told apart.
LEMMA EntriesApart ==
  /\ {ThreePushes, TwoPushes, OnePush, Vector} \cap Entries = {}
  /\ <<>> \notin Entries
  /\ ThreePushes # TwoPushes /\ ThreePushes # OnePush /\ ThreePushes # Vector
  /\ TwoPushes # OnePush /\ TwoPushes # Vector /\ OnePush # Vector
  BY SMT DEF Entries, Entry, Fetches, ThreePushes, TwoPushes, OnePush, Vector

-----------------------------------------------------------------------------
(* The invariants.                                                         *)

\* An Action Replay counts exactly the writes in a row, or, once its main loop has taken
\* back the count, fewer.
InARow ==
  type = AR =>
    /\ cart.count <= 3
    /\ AtProgram /\ cpu.todo # <<>> /\ Writes(Head(cpu.todo)) =>
         /\ cpu.todo \in TwoWrites => cart.count = 0
         /\ cpu.todo \in OneWrite => cart.count <= 1
    /\ cpu.kind # "program" =>
         /\ cpu.todo = ThreePushes => cart.count = 0
         /\ cpu.todo = TwoPushes => cart.count <= 1
         /\ cpu.todo = OnePush => cart.count <= 2

\* In a reset no edge comes with the last cycle.  Where NMI is not driven high all the
\* time, it is low from the press to the entry.
LineLow ==
  /\ resetLow => ~fresh
  /\ type \in {AR, FC3} =>
       /\ fresh => ~cart.nmi
       /\ cpu.kind # "program" /\ latched = "button"
            /\ cpu.todo \in Entries \cup {ThreePushes, TwoPushes, OnePush} => ~cart.nmi

\* The flag of Ultimax mode while the main loop initialises the cartridge, and after.
ModeKept ==
  ~raced =>
    /\ main = "loop" => Matches(cart)
    /\ type = AR /\ main \in {"debounce", "arm"} => ~cart.exrom /\ ~cart.ultimax
    /\ type # AR /\ main \in {"debounce", "arm", "lines"} =>
           (cart.ultimax <=> type = SS5)

\* A press that can be expected to freeze is on its way.
Waiting == latched = "button" /\ ~excused
\* The processor has not entered its NMI: it comes to the entry with few enough writes
\* counted, and the edge cannot be taken for another.
BeforeEntry ==
  Waiting =>
    /\ cart.armed
    /\ type # AR =>
         /\ fresh => cart.count = 0
         /\ AtProgram =>
              /\ cpu.todo \in NoWrite => cart.count <= 2
              /\ cpu.todo \in OneWrite => cart.count <= 1
              /\ cpu.todo \in TwoWrites => cart.count = 0
         /\ AtEntry /\ cpu.todo \in Entries \cup {Vector, <<>>} => cart.count = 0
    /\ cpu.kind # "program" =>
         /\ cpu.todo = ThreePushes => cart.count = 0
         /\ cpu.todo = TwoPushes => cart.count = 1
         /\ cpu.todo = OnePush => cart.count = 2
    /\ cpu.kind = "button" =>
         /\ cpu.todo \in {Vector, <<>>}
         /\ cpu.todo = Vector => cart.ultimax /\ UltimaxLines(cart)
    /\ type = FC3 => ~cart.nmi \/ (AtProgram /\ cpu.todo = <<>> /\ ~fresh)

\* It has entered the NMI: the pushes that are left are enough for the count, and
\* when they are over the cartridge is in Ultimax mode.
Entered == cpu.kind = "button" /\ latched # "button" /\ ~excused
InEntry ==
  Entered =>
    /\ cart.armed =>
         /\ cpu.todo \in Entries \cup {ThreePushes, TwoPushes, OnePush}
         /\ type # AR \/ cpu.todo \notin Entries => cart.count <= 2
         /\ cpu.todo = TwoPushes => cart.count >= 1
         /\ cpu.todo = OnePush => cart.count = 2
    /\ ~cart.armed /\ cpu.todo # <<>> => cart.ultimax /\ UltimaxLines(cart)

\* From a press until its NMI is over the button is debounced, and a cartridge that is armed
\* has its NMI on the way; the initialisation and a reset excuse.
Debouncing ==
  ~excused =>
    /\ main = "loop" /\ ~resetLow
    /\ "button" \in {latched, cpu.kind} => cart.debounce
    /\ cart.armed => "button" \in {latched, cpu.kind}

FreezerInv ==
  /\ FieldsOK /\ Processor /\ InARow /\ LineLow /\ ModeKept
  /\ BeforeEntry /\ InEntry /\ Debouncing

-----------------------------------------------------------------------------
(* What a cycle does.                                                      *)

\* The count after an access.
CountIs(c, n) ==
  /\ Writes(c) => n = IF cart.count < Many THEN cart.count + 1 ELSE cart.count
  /\ ~Writes(c) => n = 0 \/ (type # AR /\ Served(cart, c) /\ n = cart.count)

\* What a cycle that neither presses nor freezes keeps.
Keeps(c, t) ==
  /\ t \in Carts /\ CountIs(c, t.count)
  /\ t.armed = cart.armed
  /\ Matches(cart) => Matches(t)
  /\ type # FC3 /\ cart.nmi => t.nmi
  /\ c \notin {"register", "mode"} => SameMode(cart, t) /\ t.nmi = cart.nmi

\* The count and the register, with which every cycle begins.
LEMMA CountAndRegister ==
  ASSUME FieldsOK, NEW c, NEW t \in WithRegister(Counted(cart, c), c)
  PROVE  Keeps(c, t) /\ t.debounce = cart.debounce
<1> DEFINE s == Counted(cart, c)
<1>1. cart \in Carts /\ type \in Types
  BY DEF FieldsOK, Types
<1>2. /\ s \in Carts /\ SameMode(cart, s) /\ SameButton(cart, s) /\ s.nmi = cart.nmi
      /\ CountIs(c, s.count)
  BY <1>1, CountedIs DEF CountIs
<1>3. Matches(cart) => Matches(s)
  BY <1>1, <1>2, SameModeMatches
<1> HIDE DEF s
<1>4. /\ t \in Carts /\ t.count = s.count /\ SameButton(s, t)
      /\ Matches(s) => Matches(t)
      /\ type # FC3 /\ s.nmi => t.nmi
      /\ c \notin {"register", "mode"} => t = s
  BY <1>1, <1>2, WithRegisterIs DEF s
<1>5. t.armed = cart.armed /\ t.debounce = cart.debounce
  BY <1>2, <1>4 DEF SameButton
<1>6. c \notin {"register", "mode"} => SameMode(cart, t) /\ t.nmi = cart.nmi
  BY <1>2, <1>4
<1>7. type # FC3 /\ cart.nmi => t.nmi
  BY <1>2, <1>4
<1> QED
  BY <1>2, <1>3, <1>4, <1>5, <1>6, <1>7 DEF Keeps

\* A cycle in which memory, or the register, is served.
LEMMA ServeIs ==
  ASSUME FieldsOK, ServeCycle
  PROVE  Keeps(Access, cart') /\ cart'.debounce = cart.debounce
  BY CountAndRegister DEF ServeCycle

\* A cycle in which the button is seen.
LEMMA PressIs ==
  ASSUME FieldsOK, PressCycle
  PROVE  /\ cart' \in Carts /\ ~cart.debounce
         /\ cart'.armed /\ cart'.debounce /\ ~cart'.nmi
         /\ type = AR => CountIs(Access, cart'.count)
         /\ type # AR => cart'.count = 0
         /\ Matches(cart) => Matches(cart')
         /\ type \in {KCS, SS5} => cart'.ultimax /\ UltimaxLines(cart')
         /\ type \in {AR, FC3} /\ Access \notin {"register", "mode"} => SameMode(cart, cart')
<1>1. PICK t \in WithRegister(Counted(cart, Access), Access) :
             cart' = Pressed(t)
  BY DEF PressCycle
<1>2. Keeps(Access, t) /\ type \in Types
  BY <1>1, CountAndRegister DEF FieldsOK, Types
<1>3. ~cart.debounce
  <2>1. cart \in Carts
    BY DEF FieldsOK
  <2> QED
    BY <2>1, CountedIs DEF PressCycle, SameButton
<1>4. /\ cart' \in Carts
      /\ cart'.armed /\ cart'.debounce /\ ~cart'.nmi
      /\ cart'.count = IF type = AR THEN t.count ELSE 0
      /\ Matches(t) => Matches(cart')
      /\ type \in {KCS, SS5} => cart'.ultimax /\ UltimaxLines(cart')
      /\ type \in {AR, FC3} => SameMode(t, cart')
  BY <1>1, <1>2, PressedIs DEF Keeps
<1>5. Access \notin {"register", "mode"} => SameMode(cart, t)
  BY <1>2 DEF Keeps
<1> QED
  BY <1>2, <1>3, <1>4, <1>5 DEF Keeps, SameMode

\* A cycle with which the cartridge freezes.
LEMMA FreezeIs ==
  ASSUME FieldsOK, FreezeCycle
  PROVE  /\ cart' \in Carts /\ cart.armed
         /\ ~Ends(Counted(cart, Access), Access)
         /\ ~cart'.armed /\ cart'.count = 3 /\ CountIs(Access, 3)
         /\ cart'.nmi => cart.nmi \/ type = AR \/ Access \in {"register", "mode"}
         /\ type # FC3 /\ cart.nmi => cart'.nmi
         /\ type = AR => cart'.nmi
         /\ cart'.ultimax /\ UltimaxLines(cart')
         /\ cart'.debounce => cart.debounce
         /\ "button" \in {latched, cpu.kind} => cart'.debounce = cart.debounce
<1>1. PICK t \in WithRegister(Counted(cart, Access), Access),
           d \in Carts :
        d \in Debounced(t) /\ Ready(d) /\ cart' = Frozen(d)
  <2>1. \A t \in WithRegister(Counted(cart, Access), Access) :
          Debounced(t) \subseteq Carts
    BY CountAndRegister, DebouncedIs DEF Keeps, FieldsOK, Types
  <2> QED
    BY <2>1 DEF FreezeCycle
<1>2. Keeps(Access, t) /\ t.debounce = cart.debounce /\ type \in Types
  BY <1>1, CountAndRegister DEF FieldsOK, Types
<1>3. /\ d \in Carts /\ d.count = t.count /\ d.armed = t.armed /\ d.nmi = t.nmi
      /\ "button" \in {latched, cpu.kind} => d = t
      /\ d.debounce => t.debounce
  BY <1>1, <1>2, DebouncedIs DEF Keeps
<1>4. /\ cart' \in Carts
      /\ ~cart'.armed /\ cart'.debounce = d.debounce /\ cart'.count = d.count
      /\ cart'.nmi = d.nmi \/ (type = AR /\ cart'.nmi)
      /\ cart'.ultimax /\ UltimaxLines(cart')
  BY <1>1, <1>2, <1>3, FrozenIs
<1>5. d.armed /\ d.count = 3
  BY <1>1 DEF Ready
<1>6. type = AR => cart'.nmi
  BY <1>1, <1>3, <1>2, Zenon DEF Frozen, Carts
<1> QED
  BY <1>1, <1>2, <1>3, <1>4, <1>5, <1>6 DEF Keeps, FreezeCycle

\* Any other cycle.
LEMMA QuietIs ==
  ASSUME FieldsOK, QuietCycle
  PROVE  /\ Keeps(Access, cart') /\ ~(cart.armed /\ cart'.count = 3)
         /\ cart'.debounce => cart.debounce
         /\ "button" \in {latched, cpu.kind} => cart'.debounce = cart.debounce
<1>1. PICK t \in WithRegister(Counted(cart, Access), Access),
           d \in Carts :
        d \in Debounced(t) /\ ~Ready(d) /\ cart' = d
  <2>1. \A t \in WithRegister(Counted(cart, Access), Access) :
          Debounced(t) \subseteq Carts
    BY CountAndRegister, DebouncedIs DEF Keeps, FieldsOK, Types
  <2> QED
    BY <2>1 DEF QuietCycle
<1>2. Keeps(Access, t) /\ t.debounce = cart.debounce /\ type \in Types
  BY <1>1, CountAndRegister DEF FieldsOK, Types
<1>3. /\ d \in Carts /\ d.count = t.count /\ d.armed = t.armed /\ d.nmi = t.nmi
      /\ SameMode(t, d)
      /\ "button" \in {latched, cpu.kind} => d = t
      /\ d.debounce => t.debounce
  BY <1>1, <1>2, DebouncedIs DEF Keeps
<1>4. Matches(t) => Matches(d)
  BY <1>2, <1>3, SameModeMatches
<1>5. Access \notin {"register", "mode"} => SameMode(cart, d) /\ d.nmi = cart.nmi
  BY <1>2, <1>3 DEF Keeps, SameMode
<1> QED
  BY <1>1, <1>2, <1>3, <1>4, <1>5 DEF Keeps, Ready

\* The processor takes the interrupt it has begun for an NMI at the last push.
Taken == AtEntry /\ cpu.todo = OnePush /\ latched # "no"
Edge == cart.nmi /\ ~cart'.nmi

\* The accesses of the processor follow one another.
LEMMA ProcessorGoesOn ==
  ASSUME Processor, FieldsOK, ~resetLow, cpu.todo # <<>>, Advance
  PROVE  /\ AtProgram => AtProgram' /\ Access \notin {"push", "vector"}
         /\ AtEntry => AtEntry'
         /\ cpu'.todo = Tail(cpu.todo) /\ Access = Head(cpu.todo)
         /\ cpu'.kind = IF Taken THEN latched ELSE cpu.kind
         /\ fresh' <=> Edge
         /\ Edge => latched' = IF cart'.debounce /\ ~cart.debounce THEN "button" ELSE "line"
         /\ ~Edge => latched' = IF Taken THEN "no" ELSE latched
<1> DEFINE last == Access = "push" /\ cpu.todo[2] = "vector"
           taken == last /\ latched # "no"
<1>1. Access = Head(cpu.todo)
  BY DEF Access
<1>2. /\ cpu' = [todo |-> Tail(cpu.todo), kind |-> IF taken THEN latched ELSE cpu.kind]
      /\ fresh' = Edge
      /\ latched' = IF ~Edge THEN IF taken THEN "no" ELSE latched
                    ELSE IF cart'.debounce /\ ~cart.debounce THEN "button" ELSE "line"
  BY Zenon DEF Advance, Edge
<1>3. taken <=> Taken
  <2>1. CASE AtProgram
    <3>1. Access # "push" /\ ~AtEntry
      BY <1>1, <2>1, ProgramGoesOn DEF AtProgram, AtEntry
    <3> QED
      BY <3>1 DEF Taken
  <2>2. CASE AtEntry
    <3>1. CASE cpu.todo \in Entries
      BY <1>1, <2>2, <3>1, EntryGoesOn, EntriesApart DEF Taken, Fetches
    <3>2. CASE cpu.todo = ThreePushes
      BY <1>1, <2>2, <3>2, EntryGoesOn, EntriesApart DEF Taken
    <3>3. CASE cpu.todo = TwoPushes
      BY <1>1, <2>2, <3>3, EntryGoesOn, EntriesApart DEF Taken
    <3>4. CASE cpu.todo = OnePush
      BY <1>1, <2>2, <3>4, EntryGoesOn, EntriesApart DEF Taken
    <3>5. CASE cpu.todo = Vector
      BY <1>1, <2>2, <3>5, EntryGoesOn, EntriesApart DEF Taken
    <3> QED
      BY <2>2, <3>1, <3>2, <3>3, <3>4, <3>5 DEF AtEntry
  <2> QED
    BY <2>1, <2>2 DEF Processor
<1> HIDE DEF taken, last
<1>4. cpu'.todo = Tail(cpu.todo) /\ cpu'.kind = IF Taken THEN latched ELSE cpu.kind
  BY <1>2, <1>3
<1>5. AtProgram => AtProgram' /\ Access \notin {"push", "vector"}
  <2> SUFFICES ASSUME AtProgram PROVE AtProgram' /\ Access \notin {"push", "vector"}
    OBVIOUS
  <2>1. ~Taken
    BY DEF Taken, AtProgram, AtEntry
  <2> QED
    BY <1>1, <1>4, <2>1, ProgramGoesOn DEF AtProgram
<1>6. AtEntry => AtEntry'
  <2> SUFFICES ASSUME AtEntry PROVE AtEntry'
    OBVIOUS
  <2>1. Tail(cpu.todo) \in {ThreePushes, TwoPushes, OnePush, Vector, <<>>}
    BY EntryGoesOn DEF AtEntry
  <2>2. Taken => latched \in {"button", "line"}
    BY DEF Taken, FieldsOK
  <2> QED
    BY <1>4, <2>1, <2>2 DEF AtEntry
<1> QED
  BY <1>1, <1>2, <1>3, <1>4, <1>5, <1>6, Zenon

\* The next instruction or interrupt: an NMI if an edge waits that did not come with the
\* last cycle, and the instruction was none of an interrupt's entry.
NMITaken == latched # "no" /\ ~fresh /\ cpu.kind = "program"
\* The processor begins an instruction, or enters an interrupt or the NMI it has latched.
LEMMA DecodeIs ==
  ASSUME Decode
  PROVE  /\ cpu.todo = <<>> /\ ~resetLow
         /\ UNCHANGED <<type, cart, main, resetLow, fresh, excused, raced>>
         /\ \/ /\ NMITaken /\ cpu'.todo \in Entries /\ cpu'.kind = latched /\ latched' = "no"
            \/ /\ ~NMITaken /\ latched' = latched /\ AtProgram'
               /\ cpu'.todo # <<>> /\ ~Writes(Head(cpu'.todo))
            \/ /\ ~NMITaken /\ latched' = latched /\ cpu.kind = "program"
               /\ cpu'.kind = "irq" /\ cpu'.todo \in Entries
<1>1. Places \subseteq Fetches
  BY DEF Places, Fetches
<1>7. cpu.todo = <<>> /\ ~resetLow
      /\ UNCHANGED <<type, cart, main, resetLow, fresh, excused, raced>>
  BY Zenon DEF Decode, historyVars, userVars
<1>2. PICK x \in Fetches :
       IF NMITaken
       THEN cpu' = [todo |-> Entry(x), kind |-> latched] /\ latched' = "no"
       ELSE /\ \/ \E p \in Program(x) : cpu' = [todo |-> p, kind |-> "program"]
               \/ cpu.kind = "program" /\ cpu' = [todo |-> Entry(x), kind |-> "irq"]
            /\ UNCHANGED latched
  BY <1>1, Zenon DEF Decode, NMITaken
<1>3. Entry(x) \in Entries
  BY DEF Entries
<1>4. \A p \in Program(x) : p \in TwoWrites \cup OneWrite \cup NoWrite /\ p # <<>>
      /\ ~Writes(Head(p))
  BY ProgramBegins
<1>5. CASE NMITaken
  BY <1>2, <1>3, <1>5, <1>7
<1>6. CASE ~NMITaken
  <2>1. CASE \E p \in Program(x) : cpu' = [todo |-> p, kind |-> "program"]
    BY <1>2, <1>4, <1>6, <1>7, <2>1 DEF AtProgram
  <2>2. CASE cpu.kind = "program" /\ cpu' = [todo |-> Entry(x), kind |-> "irq"]
    BY <1>2, <1>3, <1>6, <1>7, <2>2
  <2> QED
    BY <1>2, <1>6, <2>1, <2>2
<1> QED
  BY <1>5, <1>6

\* The statements of the initialisation follow one another.
LEMMA StatementsFollow ==
  ASSUME type \in Types
  PROVE  /\ main = "loop" => NextStatement = "mode"
         /\ type = AR =>
              /\ main = "mode" => NextStatement = "lines"
              /\ main = "lines" => NextStatement = "debounce"
              /\ main = "debounce" => NextStatement = "arm"
              /\ main = "arm" => NextStatement = "loop"
         /\ type # AR =>
              /\ main = "mode" => NextStatement = "debounce"
              /\ main = "debounce" => NextStatement = "arm"
              /\ main = "arm" => NextStatement = "lines"
              /\ main = "lines" => NextStatement = "loop"
<1> DEFINE First(i) == i \in 1 .. Len(Statements) - 1 /\ Statements[i] = main
<1>1. ASSUME NEW i, First(i), \A j : First(j) => j = i
      PROVE  NextStatement = Statements[1 + i]
  <2>1. (CHOOSE j \in 1 .. Len(Statements) - 1 : Statements[j] = main) = i
    BY <1>1
  <2> QED
    BY <2>1 DEF NextStatement
<1>2. CASE type = AR
  <2>1. Statements = <<"loop", "mode", "lines", "debounce", "arm", "loop">>
    BY <1>2 DEF Statements
  <2>2. /\ Len(Statements) - 1 = 5
        /\ Statements[1] = "loop"
        /\ Statements[2] = "mode"
        /\ Statements[3] = "lines"
        /\ Statements[4] = "debounce"
        /\ Statements[5] = "arm"
        /\ Statements[6] = "loop"
    BY <2>1
  <2>8. 1 .. Len(Statements) - 1 = {1, 2, 3, 4, 5}
    <3>1. 1 .. 5 = {1, 2, 3, 4, 5}
      BY SMT
    <3> QED
      BY <2>2, <3>1, Zenon
  <2>9. \A j : First(j) <=> j \in {1, 2, 3, 4, 5} /\ Statements[j] = main
    BY <2>8
  <2> HIDE DEF First
  <2>3. main = "loop" => First(1) /\ \A j : First(j) => j = 1
    BY <2>2, <2>9
  <2>4. main = "mode" => First(2) /\ \A j : First(j) => j = 2
    BY <2>2, <2>9
  <2>5. main = "lines" => First(3) /\ \A j : First(j) => j = 3
    BY <2>2, <2>9
  <2>6. main = "debounce" => First(4) /\ \A j : First(j) => j = 4
    BY <2>2, <2>9
  <2>7. main = "arm" => First(5) /\ \A j : First(j) => j = 5
    BY <2>2, <2>9
  <2> QED
    BY <1>1, <1>2, <2>2, <2>3, <2>4, <2>5, <2>6, <2>7
<1>3. CASE type # AR
  <2>1. Statements = <<"loop", "mode", "debounce", "arm", "lines", "loop">>
    BY <1>3 DEF Statements
  <2>2. /\ Len(Statements) - 1 = 5
        /\ Statements[1] = "loop"
        /\ Statements[2] = "mode"
        /\ Statements[3] = "debounce"
        /\ Statements[4] = "arm"
        /\ Statements[5] = "lines"
        /\ Statements[6] = "loop"
    BY <2>1
  <2>8. 1 .. Len(Statements) - 1 = {1, 2, 3, 4, 5}
    <3>1. 1 .. 5 = {1, 2, 3, 4, 5}
      BY SMT
    <3> QED
      BY <2>2, <3>1, Zenon
  <2>9. \A j : First(j) <=> j \in {1, 2, 3, 4, 5} /\ Statements[j] = main
    BY <2>8
  <2> HIDE DEF First
  <2>3. main = "loop" => First(1) /\ \A j : First(j) => j = 1
    BY <2>2, <2>9
  <2>4. main = "mode" => First(2) /\ \A j : First(j) => j = 2
    BY <2>2, <2>9
  <2>5. main = "debounce" => First(3) /\ \A j : First(j) => j = 3
    BY <2>2, <2>9
  <2>6. main = "arm" => First(4) /\ \A j : First(j) => j = 4
    BY <2>2, <2>9
  <2>7. main = "lines" => First(5) /\ \A j : First(j) => j = 5
    BY <2>2, <2>9
  <2> QED
    BY <1>1, <1>3, <2>2, <2>3, <2>4, <2>5, <2>6, <2>7
<1> QED
  BY <1>2, <1>3

-----------------------------------------------------------------------------
(* The types, and the accesses of the processor.                           *)

\* The steps, those of the main loop that only change the history in one.
LEMMA NextIs ==
  ASSUME FreezerNext
  PROVE  \/ FIQHandler \/ Decode \/ callbackReset
         \/ /\ BeginReset \/ Leave
            /\ UNCHANGED <<type, freezerKernal, cart, resetLow, userResets, cpu, latched, fresh>>
            /\ UNCHANGED <<counter, pressed, released>>
            /\ main = "loop" /\ excused'
         \/ PressResetButton \/ ReleaseResetButton
  BY DEF FreezerNext, Run, BeginReset, Leave, resetVars,
     userVars, cpuVars

\* The cycles have in common what the counters, the processor and the history do.
LEMMA CycleIs ==
  ASSUME FieldsOK, FIQHandler
  PROVE  /\ Cycle /\ UpdateCounters /\ Advance
         /\ raced' = (raced \/ (main # "loop" /\ [cart' EXCEPT !.count = cart.count] # cart))
         /\ UNCHANGED <<type, freezerKernal, main, resetLow, userResets>>
         /\ cart' \in Carts
         /\ \/ ServeCycle /\ excused' = excused
            \/ /\ PressCycle
               /\ excused' = (resetLow \/ main # "loop" \/ ~cart.nmi \/ PushesForgotten
                              \/ (excused /\ cpu.kind = "button"))
            \/ FreezeCycle /\ excused' = excused
            \/ QuietCycle /\ excused' = excused
<1>1. CASE ServeCycle
  BY <1>1, ServeIs DEF ServeCycle, FIQStep, userVars, Keeps
<1>2. CASE PressCycle
  BY <1>2, PressIs DEF PressCycle, FIQStep, userVars
<1>3. CASE FreezeCycle
  BY <1>3, FreezeIs DEF FreezeCycle, FIQStep, userVars
<1>4. CASE QuietCycle
  BY <1>4, QuietIs DEF QuietCycle, FIQStep, userVars, Keeps
<1> QED
  BY <1>1, <1>2, <1>3, <1>4 DEF FIQHandler

\* Every step keeps the types, and the processor at one of its cycles.
LEMMA StepKeepsFields ==
  ASSUME MaxUserResets \in Nat, FieldsOK, Processor, FreezerNext
  PROVE  FieldsOK' /\ Processor'
<1> USE DEF Held, Long, Short
<1>1. CASE FIQHandler
  <2>1. /\ Cycle /\ UpdateCounters /\ Advance
        /\ UNCHANGED <<type, freezerKernal, main, resetLow, userResets>>
        /\ cart' \in Carts
    BY <1>1, CycleIs
  <2>2. raced' \in BOOLEAN
    BY <1>1, CycleIs
  <2>3. excused' \in BOOLEAN
    BY <1>1, CycleIs DEF FieldsOK
  <2>4. counter' \in 0 .. Held /\ pressed' \in BOOLEAN /\ released' \in BOOLEAN
    <3>1. counter' \in 0 .. Held
      BY <2>1, SMT DEF UpdateCounters, FieldsOK
    <3>2. (released \/ pressed) \in BOOLEAN
      BY Zenon
    <3> QED
      BY <2>1, <3>1, <3>2, Zenon DEF UpdateCounters
  <2>5. CASE resetLow
    BY <2>1, <2>2, <2>3, <2>4, <2>5 DEF FieldsOK, Advance, cpuVars,
       Processor, AtProgram, AtEntry
  <2>6. CASE ~resetLow
    <3>1. cpu.todo # <<>>
      BY <2>1, <2>6 DEF Cycle
    <3>2. /\ AtProgram => AtProgram'
          /\ AtEntry => AtEntry'
          /\ fresh' <=> Edge
          /\ Edge => latched' = IF cart'.debounce /\ ~cart.debounce THEN "button" ELSE "line"
          /\ ~Edge => latched' = IF Taken THEN "no" ELSE latched
      BY <2>1, <2>6, <3>1, ProcessorGoesOn
    <3>3. Processor'
      BY <3>2 DEF Processor
    <3>4. cpu'.kind \in {"program", "irq", "button", "line"}
      BY <3>3 DEF Processor, AtProgram, AtEntry
    <3>5. latched' \in {"no", "button", "line"}
      BY <3>2 DEF FieldsOK
    <3>6. fresh' \in BOOLEAN
      BY <2>1, <2>6 DEF Advance
    <3> QED
      BY <2>1, <2>2, <2>3, <2>4, <3>3, <3>4, <3>5, <3>6 DEF FieldsOK
  <2> QED
    BY <2>5, <2>6
<1>2. CASE Decode
  <2>1. /\ UNCHANGED <<type, freezerKernal, cart, main, counter, pressed, released>>
        /\ UNCHANGED <<resetLow, userResets, fresh, excused, raced>>
    BY <1>2, Zenon DEF Decode, resetVars, userVars, historyVars
  <2>2. Processor' /\ latched' \in {"no", latched}
        /\ cpu'.kind \in {"program", "irq", "button", "line"}
    BY <1>2, DecodeIs DEF NMITaken, Processor, AtProgram, AtEntry, FieldsOK
  <2> QED
    BY <2>1, <2>2 DEF FieldsOK
<1>3. CASE callbackReset
  <2>1. cart' = WithStatement(cart) /\ main \in {"mode", "lines", "debounce", "arm"}
    BY <1>3 DEF callbackReset, FieldsOK
  <2>2. cart' \in Carts
    BY <2>1, StatementIs DEF FieldsOK, Types
  <2>3. main' \in {"loop", "mode", "lines", "debounce", "arm", "menu"}
    BY <1>3, <2>1, StatementsFollow DEF callbackReset, FieldsOK, Types
  <2>4. counter' \in 0 .. Held /\ pressed' \in BOOLEAN /\ released' \in BOOLEAN
    <3>1. CASE main = "arm"
      <4>1. counter' = 0 /\ pressed' = FALSE /\ released' = FALSE
        BY <1>3, <3>1, Zenon DEF callbackReset
      <4>2. 0 \in 0 .. Held
        BY SMT
      <4> QED
        BY <4>1, <4>2, Zenon
    <3>2. CASE main # "arm"
      BY <1>3, <3>2, Zenon DEF callbackReset, FieldsOK, resetVars
    <3> QED
      BY <3>1, <3>2
  <2>5. latched' \in {"no", "button", "line"} /\ fresh' \in BOOLEAN
    BY <1>3 DEF callbackReset, FieldsOK
  <2>6. UNCHANGED <<type, freezerKernal, resetLow, userResets, cpu, raced>> /\ excused'
    BY <1>3 DEF callbackReset, userVars
  <2>7. excused' \in BOOLEAN
    BY <1>3 DEF callbackReset
  <2> QED
    BY <2>2, <2>3, <2>4, <2>5, <2>6, <2>7 DEF FieldsOK, Processor, AtProgram, AtEntry
<1>4. CASE BeginReset
  <2>1. main' = "mode"
    BY <1>4, StatementsFollow DEF BeginReset, FieldsOK, Types
  <2>2. /\ UNCHANGED <<type, freezerKernal, cart, resetLow, userResets, cpu, latched, fresh>>
        /\ UNCHANGED <<counter, pressed, released>>
        /\ excused' \in BOOLEAN /\ raced' \in BOOLEAN
    BY <1>4, Zenon DEF BeginReset, resetVars, userVars, cpuVars
  <2> QED
    BY <2>1, <2>2 DEF FieldsOK, Processor, AtProgram, AtEntry
<1>5. CASE Leave
  BY <1>5 DEF Leave, FieldsOK, Processor, AtProgram, AtEntry, resetVars,
     userVars, cpuVars
<1>6. CASE PressResetButton
  <2>1. userResets' \in 0 .. MaxUserResets
    BY <1>6 DEF PressResetButton, FieldsOK
  <2>2. cpu'.kind = "program" /\ cpu'.todo = <<>>
    BY <1>6 DEF PressResetButton
  <2>3. Processor'
    BY <2>2 DEF Processor, AtProgram, NoWrite
  <2>4. /\ UNCHANGED <<type, freezerKernal, cart, main, counter, pressed, released, raced>>
        /\ resetLow' = TRUE /\ latched' = "no" /\ fresh' = FALSE /\ excused' = TRUE
    BY <1>6, Zenon DEF PressResetButton, resetVars
  <2> QED
    BY <2>1, <2>2, <2>3, <2>4, Zenon DEF FieldsOK
<1>7. CASE ReleaseResetButton
  <2>1. /\ type' = type /\ freezerKernal' = freezerKernal /\ cart' = cart /\ main' = main
        /\ counter' = counter /\ pressed' = pressed /\ released' = released
        /\ userResets' = userResets
        /\ cpu' = cpu /\ latched' = latched /\ fresh' = fresh /\ excused' = excused
        /\ raced' = raced /\ resetLow' = FALSE
    BY <1>7, Zenon DEF ReleaseResetButton, resetVars, cpuVars,
       historyVars
  <2>2. Processor'
    BY <2>1 DEF Processor, AtProgram, AtEntry
  <2>3. resetLow' \in BOOLEAN
    BY <2>1
  <2>4. /\ type' \in {AR, FC3, KCS, SS5}
        /\ freezerKernal' \in BOOLEAN /\ cart' \in Carts
        /\ main' \in {"loop", "mode", "lines", "debounce", "arm", "menu"}
        /\ counter' \in 0 .. Held /\ pressed' \in BOOLEAN /\ released' \in BOOLEAN
    BY <2>1, Zenon DEF FieldsOK
  <2>5. /\ userResets' \in 0 .. MaxUserResets
        /\ cpu'.kind \in {"program", "irq", "button", "line"}
        /\ latched' \in {"no", "button", "line"} /\ fresh' \in BOOLEAN
        /\ excused' \in BOOLEAN /\ raced' \in BOOLEAN
    BY <2>1, Zenon DEF FieldsOK
  <2> QED
    BY <2>2, <2>3, <2>4, <2>5, Zenon DEF FieldsOK
<1> QED
  BY <1>1, <1>2, <1>3, <1>4, <1>5, <1>6, <1>7, NextIs

-----------------------------------------------------------------------------
(* The count of an Action Replay, the line NMI, and the mode.              *)

\* The count after a cycle.
LEMMA CycleCount ==
  ASSUME FieldsOK, FIQHandler
  PROVE  CountIs(Access, cart'.count) \/ (PressCycle /\ type # AR
         /\ cart'.count = 0)
<1>1. CASE ServeCycle
  BY <1>1, ServeIs DEF Keeps
<1>2. CASE PressCycle
  BY <1>2, PressIs
<1>3. CASE FreezeCycle
  BY <1>3, FreezeIs
<1>4. CASE QuietCycle
  BY <1>4, QuietIs DEF Keeps
<1> QED
  BY <1>1, <1>2, <1>3, <1>4 DEF FIQHandler

\* The count of an Action Replay does not run ahead of the writes.
LEMMA StepKeepsInARow ==
  ASSUME FieldsOK, Processor, InARow, FreezerNext
  PROVE  InARow'
<1> USE DEF Many
<1>1. CASE FIQHandler
  <2> SUFFICES ASSUME type = AR
               PROVE  /\ cart'.count <= 3
                      /\ AtProgram' /\ cpu'.todo # <<>> /\ Writes(Head(cpu'.todo)) =>
                           /\ cpu'.todo \in TwoWrites => cart'.count = 0
                           /\ cpu'.todo \in OneWrite => cart'.count <= 1
                      /\ cpu'.kind # "program" =>
                           /\ cpu'.todo = ThreePushes => cart'.count = 0
                           /\ cpu'.todo = TwoPushes => cart'.count <= 1
                           /\ cpu'.todo = OnePush => cart'.count <= 2
    BY <1>1, CycleIs DEF InARow, AtProgram
  <2>1. /\ Cycle /\ Advance
        /\ Writes(Access) =>
               cart'.count = IF cart.count < Many THEN cart.count + 1 ELSE cart.count
        /\ ~Writes(Access) => cart'.count = 0
        /\ cart.count \in 0 .. Many /\ cart'.count \in 0 .. Many
    BY <1>1, CycleIs, CycleCount DEF CountIs, FieldsOK, Carts
  <2>2. CASE resetLow
    <3>1. Access = "read"
      BY <2>2 DEF Access
    <3>2. cart'.count = 0
      BY <2>1, <3>1 DEF Writes
    <3> QED
      BY <3>2
  <2>3. CASE ~resetLow
    <3>1. cpu.todo # <<>>
      BY <2>1, <2>3 DEF Cycle
    <3>2. /\ AtProgram => AtProgram'
          /\ AtEntry => AtEntry'
          /\ cpu'.todo = Tail(cpu.todo) /\ Access = Head(cpu.todo)
      BY <2>1, <2>3, <3>1, ProcessorGoesOn
    <3>3. CASE AtProgram
      <4>1. /\ cpu.todo \in TwoWrites =>
                   cpu'.todo \in IF Writes(Access) THEN OneWrite ELSE TwoWrites
            /\ cpu.todo \in OneWrite =>
                   cpu'.todo \in IF Writes(Access) THEN NoWrite ELSE OneWrite
            /\ cpu.todo \in NoWrite => cpu'.todo \in NoWrite
            /\ cpu.todo \in TwoWrites \cup OneWrite \cup NoWrite
        BY <3>1, <3>2, <3>3, ProgramGoesOn DEF AtProgram
      <4>2. AtProgram' /\ cpu'.kind = "program"
        BY <3>2, <3>3 DEF AtProgram
      <4>3. /\ ~(cpu'.todo \in TwoWrites /\ cpu'.todo \in OneWrite)
            /\ ~(cpu'.todo \in TwoWrites /\ cpu'.todo \in NoWrite)
            /\ ~(cpu'.todo \in OneWrite /\ cpu'.todo \in NoWrite)
        BY ProgramsApart
      <4>4. CASE Writes(Access)
        <5>1. /\ cpu.todo \in TwoWrites => cart.count = 0
              /\ cpu.todo \in OneWrite => cart.count <= 1
          BY <3>1, <3>2, <3>3, <4>4 DEF InARow
        <5>2. cpu.todo \in TwoWrites \cup OneWrite
          BY <3>1, <3>2, <4>1, <4>4, ProgramGoesOn
        <5> QED
          BY <2>1, <4>1, <4>2, <4>3, <4>4, <5>1, <5>2
      <4>5. CASE ~Writes(Access)
        BY <2>1, <4>2, <4>5
      <4> QED
        BY <4>4, <4>5
    <3>4. CASE AtEntry
      <4>1. ~AtProgram' /\ cpu.kind # "program"
        BY <3>2, <3>4 DEF AtEntry, AtProgram
      <4>2. CASE cpu.todo \in Entries
        <5>1. Access \in Fetches /\ cpu'.todo = ThreePushes
          BY <3>2, <4>2, EntryGoesOn
        <5>2. cart'.count = 0
          BY <2>1, <5>1 DEF Fetches, Writes
        <5> QED
          BY <4>1, <5>1, <5>2, EntriesApart
      <4>3. CASE cpu.todo = ThreePushes
        <5>1. cart.count = 0
          BY <4>1, <4>3 DEF InARow
        <5>2. Writes(Access) /\ cpu'.todo = TwoPushes
          BY <3>2, <4>3, EntryGoesOn DEF Writes
        <5>3. cart'.count = 1
          BY <2>1, <5>1, <5>2
        <5> QED
          BY <4>1, <5>2, <5>3, EntriesApart
      <4>4. CASE cpu.todo = TwoPushes
        <5>1. cart.count <= 1
          BY <4>1, <4>4 DEF InARow
        <5>2. Writes(Access) /\ cpu'.todo = OnePush
          BY <3>2, <4>4, EntryGoesOn DEF Writes
        <5>3. cart'.count \in 0 .. 2
          BY <2>1, <5>1, <5>2
        <5> QED
          BY <4>1, <5>2, <5>3, EntriesApart
      <4>5. CASE cpu.todo = OnePush
        <5>1. cart.count <= 2
          BY <4>1, <4>5 DEF InARow
        <5> QED
          BY <2>1, <3>2, <4>1, <4>5, <5>1, EntryGoesOn, EntriesApart
      <4>6. CASE cpu.todo = Vector
        BY <2>1, <3>2, <4>1, <4>6, EntryGoesOn, EntriesApart DEF Writes
      <4> QED
        BY <3>1, <3>4, <4>2, <4>3, <4>4, <4>5, <4>6 DEF AtEntry
    <3> QED
      BY <3>3, <3>4 DEF Processor
  <2> QED
    BY <2>2, <2>3
<1>2. CASE Decode
  <2>1. UNCHANGED <<type, cart>>
    BY <1>2, DecodeIs
  <2>2. CASE cpu'.todo \in Entries /\ cpu'.kind # "program"
    BY <2>1, <2>2, EntriesApart DEF InARow, AtProgram
  <2>3. CASE AtProgram' /\ ~Writes(Head(cpu'.todo))
    BY <2>1, <2>3 DEF InARow, AtProgram
  <2> QED
    BY <1>2, <2>2, <2>3, DecodeIs DEF NMITaken, FieldsOK
<1>3. CASE callbackReset
  <2>1. main \in {"mode", "lines", "debounce", "arm"} /\ cart' = WithStatement(cart)
        /\ UNCHANGED <<type, cpu>>
    BY <1>3 DEF callbackReset, FieldsOK
  <2>2. cart'.count = cart.count \/ cart'.count = 0
    BY <2>1, StatementIs DEF FieldsOK, Types
  <2> QED
    BY <2>1, <2>2 DEF InARow, AtProgram
<1>4. CASE UNCHANGED <<type, cart, cpu>>
  BY <1>4 DEF InARow, AtProgram
<1>5. CASE PressResetButton
  BY <1>5, EntriesApart DEF PressResetButton, InARow, AtProgram
<1>6. CASE ReleaseResetButton
  BY <1>6 DEF ReleaseResetButton, cpuVars, InARow, AtProgram
<1> QED
  BY <1>1, <1>2, <1>3, <1>4, <1>5, <1>6, NextIs

\* Only the freeze takes NMI back, at the last push.
LEMMA StepKeepsLineLow ==
  ASSUME FieldsOK, Processor, InARow, LineLow, FreezerNext
  PROVE  LineLow'
<1> DEFINE AtPushes == cpu.todo \in Entries \cup {ThreePushes, TwoPushes, OnePush}
<1>1. CASE FIQHandler
  <2>1. /\ Cycle /\ Advance /\ UNCHANGED <<type, main, resetLow>>
        /\ cart' \in Carts
    BY <1>1, CycleIs
  <2>2. Access \notin {"register", "mode"} /\ cart'.nmi =>
          cart.nmi \/ (FreezeCycle /\ type = AR)
    <3>1. CASE ServeCycle
      BY <3>1, ServeIs DEF Keeps
    <3>2. CASE PressCycle
      BY <3>2, PressIs
    <3>3. CASE FreezeCycle
      BY <3>3, FreezeIs
    <3>4. CASE QuietCycle
      BY <3>4, QuietIs DEF Keeps
    <3> QED
      BY <1>1, <3>1, <3>2, <3>3, <3>4 DEF FIQHandler
  <2>3. FreezeCycle =>
            (Writes(Access) /\ cart.count = 2) \/ type # AR
    BY FreezeIs DEF CountIs, FieldsOK, Carts, Many
  <2>4. CASE resetLow
    <3>1. Access = "read" /\ ~Writes(Access)
      BY <2>4 DEF Access, Writes
    <3>2. UNCHANGED <<cpu, latched, fresh>>
      BY <2>1, <2>4 DEF Advance, cpuVars
    <3>3. cart'.nmi => cart.nmi
      BY <2>2, <2>3, <3>1
    <3> QED
      BY <2>1, <3>2, <3>3 DEF LineLow
  <2>5. CASE ~resetLow
    <3>1. cpu.todo # <<>>
      BY <2>1, <2>5 DEF Cycle
    <3>2. /\ AtProgram => AtProgram'
          /\ cpu'.todo = Tail(cpu.todo) /\ Access = Head(cpu.todo)
          /\ cpu'.kind = IF Taken THEN latched ELSE cpu.kind
          /\ fresh' <=> Edge
          /\ ~Edge => latched' = IF Taken THEN "no" ELSE latched
      BY <2>1, <2>5, <3>1, ProcessorGoesOn
    <3>3. fresh' => ~cart'.nmi
      BY <3>2 DEF Edge
    <3> SUFFICES ASSUME type \in {AR, FC3}, cpu'.kind # "program",
                        latched' = "button",
                        AtPushes', cart'.nmi
                 PROVE  FALSE
      BY <2>1, <2>5, <3>3 DEF LineLow
    <3>4. AtEntry /\ ~Edge /\ latched = "button" /\ cpu.kind # "program"
      BY <3>2 DEF Processor, AtProgram, AtEntry, Edge
    <3>5. CASE cpu.todo \in Entries \cup {ThreePushes, TwoPushes}
      <4>1. Access \notin {"register", "mode"} /\ ~(Writes(Access)
            /\ cart.count = 2 /\ type = AR)
        <5>1. CASE cpu.todo \in Entries
          BY <3>2, <5>1, EntryGoesOn DEF Fetches, Writes
        <5>2. CASE cpu.todo = ThreePushes
          BY <3>2, <3>4, <5>2, EntryGoesOn DEF InARow
        <5>3. CASE cpu.todo = TwoPushes
          <6>1. type = AR => cart.count <= 1
            BY <3>4, <5>3 DEF InARow
          <6>2. Access = "push"
            BY <3>2, <5>3, EntryGoesOn
          <6> QED
            BY <6>1, <6>2
        <5> QED
          BY <3>5, <5>1, <5>2, <5>3
      <4> QED
        BY <2>2, <2>3, <3>4, <3>5, <4>1 DEF LineLow
    <3>6. CASE cpu.todo \in {OnePush, Vector}
      <4>1. cpu'.todo \in {Vector, <<>>}
        BY <3>2, <3>6, EntryGoesOn
      <4>2. <<>> \notin {ThreePushes, TwoPushes, OnePush}
        BY EntryGoesOn
      <4> QED
        BY <4>1, <4>2, EntriesApart
    <3> QED
      BY <3>1, <3>4, <3>5, <3>6 DEF AtEntry
  <2> QED
    BY <2>4, <2>5
<1>2. CASE Decode
  <2>1. UNCHANGED <<type, cart, resetLow, fresh>>
    BY <1>2, DecodeIs
  <2>2. CASE latched' = "no" \/ AtProgram'
    BY <2>1, <2>2 DEF LineLow, AtProgram
  <2>3. CASE ~NMITaken /\ latched' = latched /\ cpu.kind = "program"
    BY <2>1, <2>3 DEF LineLow, NMITaken
  <2> QED
    BY <1>2, <2>2, <2>3, DecodeIs
<1>3. CASE callbackReset
  <2>1. main \in {"mode", "lines", "debounce", "arm"} /\ cart' = WithStatement(cart)
        /\ UNCHANGED <<type, cpu, resetLow>>
        /\ \/ cart.nmi /\ ~cart'.nmi /\ ~resetLow /\ latched' = "line" /\ fresh' = TRUE
           \/ UNCHANGED <<latched, fresh>>
    BY <1>3 DEF callbackReset, FieldsOK, userVars
  <2>2. type \in {AR, FC3} /\ cart'.nmi => cart.nmi
    BY <2>1, StatementIs DEF FieldsOK, Types
  <2> QED
    BY <2>1, <2>2 DEF LineLow
<1>4. CASE UNCHANGED <<type, cart, resetLow, cpu, latched, fresh>>
  BY <1>4 DEF LineLow
<1>5. CASE PressResetButton
  BY <1>5 DEF PressResetButton, LineLow
<1>6. CASE ReleaseResetButton
  BY <1>6 DEF ReleaseResetButton, cpuVars, LineLow
<1> QED
  BY <1>1, <1>2, <1>3, <1>4, <1>5, <1>6, NextIs

\* Outside of its initialisation the mode agrees with the lines.
LEMMA StepKeepsModeKept ==
  ASSUME FieldsOK, ModeKept, FreezerNext
  PROVE  ModeKept'
<1> SUFFICES ASSUME ~raced'
             PROVE  /\ main' = "loop" => Matches(cart)'
                    /\ type' = AR /\ main' \in {"debounce", "arm"} =>
                           ~cart'.exrom /\ ~cart'.ultimax
                    /\ type' # AR /\ main' \in {"debounce", "arm", "lines"} =>
                         (cart'.ultimax <=> type' = SS5)
  BY Zenon DEF ModeKept
<1>1. CASE FIQHandler
  <2>1. /\ UNCHANGED <<type, main>> /\ cart' \in Carts /\ cart \in Carts
        /\ raced' = (raced \/ (main # "loop" /\ [cart' EXCEPT !.count = cart.count] # cart))
    BY <1>1, CycleIs DEF FieldsOK
  <2>2. CASE main = "loop"
    <3>1. Matches(cart)
      BY <2>1, <2>2 DEF ModeKept
    <3>2. Matches(cart')
      <4>1. CASE ServeCycle
        BY <3>1, <4>1, ServeIs DEF Keeps
      <4>2. CASE PressCycle
        BY <3>1, <4>2, PressIs
      <4>3. CASE FreezeCycle
        BY <4>3, FreezeIs DEF Matches
      <4>4. CASE QuietCycle
        BY <3>1, <4>4, QuietIs DEF Keeps
      <4> QED
        BY <1>1, <4>1, <4>2, <4>3, <4>4 DEF FIQHandler
    <3>3. Matches(cart)'
      BY <2>1, <3>2, Zenon DEF Matches, Visible, UltimaxLines
    <3> QED
      BY <2>1, <2>2, <3>3
  <2>3. CASE main # "loop"
    <3>1. [cart' EXCEPT !.count = cart.count] = cart
      BY <2>1, <2>3
    <3>2. cart'.exrom = cart.exrom /\ cart'.ultimax = cart.ultimax
      BY <2>1, <3>1, Zenon DEF Carts
    <3> QED
      BY <2>1, <2>3, <3>2 DEF ModeKept
  <2> QED
    BY <2>2, <2>3
<1>2. CASE callbackReset
  <2> DEFINE t == WithStatement(cart)
  <2>1. /\ main \in {"mode", "lines", "debounce", "arm"} /\ cart' = t
        /\ UNCHANGED <<type, raced>> /\ main' = NextStatement /\ type \in Types
    BY <1>2, Zenon DEF callbackReset, FieldsOK, userVars, Types
  <2>2. /\ t \in Carts
        /\ main = "mode" => (t.ultimax <=> type = SS5)
        /\ main = "lines" =>
             /\ type # AR => t.ultimax = cart.ultimax
             /\ type = AR => ~t.ultimax
             /\ UltimaxLines(t) <=> type = SS5
             /\ ~t.exrom <=> type # SS5
        /\ main \in {"debounce", "arm"} => SameMode(cart, t)
    BY <2>1, StatementIs DEF FieldsOK
  <2> HIDE DEF t
  <2>3. CASE main = "mode"
    <3>1. main' = IF type = AR THEN "lines" ELSE "debounce"
      BY <2>1, <2>3, StatementsFollow
    <3> QED
      BY <2>1, <2>2, <2>3, <3>1
  <2>4. CASE main = "lines"
    <3>1. main' = IF type = AR THEN "debounce" ELSE "loop"
      BY <2>1, <2>4, StatementsFollow
    <3>2. CASE type = AR
      BY <2>1, <2>2, <2>4, <3>1, <3>2, FourTypes
    <3>3. CASE type # AR
      <4>1. t.ultimax <=> UltimaxLines(t)
        BY <2>1, <2>2, <2>4, <3>3, Zenon DEF ModeKept
      <4>2. Matches(cart)'
        BY <2>1, <4>1, Zenon DEF Matches, UltimaxLines
      <4> QED
        BY <3>1, <3>3, <4>2
    <3> QED
      BY <3>2, <3>3
  <2>5. CASE main = "debounce"
    <3>1. main' = "arm"
      BY <2>1, <2>5, StatementsFollow
    <3> QED
      BY <2>1, <2>2, <2>5, <3>1, Zenon DEF ModeKept, SameMode
  <2>6. CASE main = "arm"
    <3>1. main' = IF type = AR THEN "loop" ELSE "lines"
      BY <2>1, <2>6, StatementsFollow
    <3>2. CASE type = AR
      <4>1. ~t.exrom /\ ~t.ultimax
        BY <2>1, <2>2, <2>6, <3>2, Zenon DEF ModeKept, SameMode
      <4>2. Matches(cart)'
        BY <2>1, <4>1, Zenon DEF Matches, UltimaxLines
      <4> QED
        BY <2>1, <3>1, <3>2, <4>2
    <3>3. CASE type # AR
      <4>1. t.ultimax <=> type = SS5
        BY <2>1, <2>2, <2>6, <3>3, Zenon DEF ModeKept, SameMode
      <4> QED
        BY <2>1, <3>1, <3>3, <4>1
    <3> QED
      BY <3>2, <3>3
  <2> QED
    BY <2>1, <2>3, <2>4, <2>5, <2>6
<1>3. CASE BeginReset
  <2>1. main' = "mode"
    BY <1>3, StatementsFollow DEF BeginReset, FieldsOK, Types
  <2> QED
    BY <2>1
<1>4. CASE Leave
  BY <1>4 DEF Leave
<1>5. CASE UNCHANGED <<type, cart, main, raced>>
  <2>1. Matches(cart)' <=> Matches(cart)
    BY <1>5, Zenon DEF Matches, Visible, UltimaxLines
  <2> QED
    BY <1>5, <2>1 DEF ModeKept
<1>6. UNCHANGED <<type, cart, main, raced>> \/ FIQHandler \/ callbackReset
      \/ BeginReset \/ Leave
  <2>1. Decode => UNCHANGED <<type, cart, main, raced>>
    BY DecodeIs
  <2>2. PressResetButton => UNCHANGED <<type, cart, main, raced>>
    BY DEF PressResetButton
  <2>3. ReleaseResetButton => UNCHANGED <<type, cart, main, raced>>
    BY DEF ReleaseResetButton, historyVars
  <2> QED
    BY <2>1, <2>2, <2>3, NextIs
<1> QED
  BY <1>1, <1>2, <1>3, <1>4, <1>5, <1>6

-----------------------------------------------------------------------------
(* The button's NMI.                                                       *)

\* A freeze comes with a third write.
LEMMA FreezeWrites ==
  ASSUME FieldsOK, FreezeCycle
  PROVE  Writes(Access) /\ cart.count = 2
<1>1. cart \in Carts
  BY DEF FieldsOK
<1>2. /\ ~Ends(Counted(cart, Access), Access)
      /\ CountIs(Access, 3)
  BY FreezeIs
<1>3. type # AR /\ Served(cart, Access) =>
          Counted(cart, Access) = cart
  BY Zenon DEF Counted
<1>4. ~(type # AR /\ Served(cart, Access))
  BY <1>2, <1>3 DEF Ends
<1>5. Writes(Access)
  BY <1>2, <1>4 DEF CountIs
<1> QED
  BY <1>1, <1>2, <1>5, SMT DEF CountIs, Carts, Many

\* A push is not served.
LEMMA PushIsNotServed ==
  ASSUME ServeCycle
  PROVE  Access # "push"
  BY DEF ServeCycle, Ends, Served

\* A cycle after which a press is expected to freeze: it is the press, or none.
LEMMA ExpectedCycle ==
  ASSUME FieldsOK, Debouncing, FIQHandler, ~excused'
  PROVE  /\ ~resetLow /\ main = "loop" /\ cpu.todo # <<>> /\ Advance
         /\ UNCHANGED <<type, main, resetLow>>
         /\ \/ /\ PressCycle /\ cart.nmi /\ ~PushesForgotten
               /\ excused => cpu.kind # "button"
            \/ /\ ~excused /\ ServeCycle
            \/ /\ ~excused /\ FreezeCycle
            \/ /\ ~excused /\ QuietCycle
<1>1. /\ Cycle /\ Advance /\ UNCHANGED <<type, main, resetLow>>
      /\ \/ ServeCycle /\ excused' = excused
         \/ /\ PressCycle
            /\ excused' = (resetLow \/ main # "loop" \/ ~cart.nmi \/ PushesForgotten
                           \/ (excused /\ cpu.kind = "button"))
         \/ FreezeCycle /\ excused' = excused
         \/ QuietCycle /\ excused' = excused
  BY CycleIs
<1>2. \/ /\ PressCycle /\ cart.nmi /\ ~PushesForgotten /\ ~resetLow /\ main = "loop"
         /\ excused => cpu.kind # "button"
      \/ ~excused /\ ServeCycle
      \/ ~excused /\ FreezeCycle
      \/ ~excused /\ QuietCycle
  BY <1>1, Zenon
<1>3. ~resetLow /\ main = "loop"
  BY <1>2, Zenon DEF Debouncing
<1>4. cpu.todo # <<>>
  BY <1>1, <1>3 DEF Cycle
<1> QED
  BY <1>1, <1>2, <1>3, <1>4, Zenon

\* The edge of a press that is expected to freeze is not taken for another.
LEMMA NoOtherEdge ==
  ASSUME FieldsOK, BeforeEntry, Waiting, cpu.todo # <<>>,
         ServeCycle \/ FreezeCycle \/ QuietCycle
  PROVE  ~Edge
<1>1. type = FC3 => ~cart.nmi
  BY DEF BeforeEntry
<1>2. type # FC3 /\ cart.nmi => cart'.nmi
  <2>1. CASE ServeCycle
    BY <2>1, ServeIs DEF Keeps
  <2>2. CASE FreezeCycle
    BY <2>2, FreezeIs
  <2>3. CASE QuietCycle
    BY <2>3, QuietIs DEF Keeps
  <2> QED
    BY <2>1, <2>2, <2>3
<1> QED
  BY <1>1, <1>2 DEF Edge

\* A freeze does not come before the processor has entered the NMI.
LEMMA NotTooEarly ==
  ASSUME FieldsOK, Processor, InARow, BeforeEntry, Waiting, cpu.todo # <<>>, ~resetLow, ~Taken
  PROVE  ~FreezeCycle
<1> SUFFICES ASSUME Writes(Access), cart.count = 2
             PROVE  FALSE
  BY FreezeWrites
<1>1. Access = Head(cpu.todo)
  BY DEF Access
<1>2. CASE AtProgram
  <2>1. cpu.todo \in TwoWrites \cup OneWrite
    BY <1>1, <1>2, ProgramGoesOn DEF AtProgram
  <2>2. cpu.todo \in TwoWrites => cart.count = 0
    BY <1>1, <1>2 DEF InARow, BeforeEntry
  <2>3. cpu.todo \in OneWrite => cart.count <= 1
    BY <1>1, <1>2 DEF InARow, BeforeEntry
  <2> QED
    BY <2>1, <2>2, <2>3
<1>3. CASE AtEntry
  <2>1. cpu.kind # "program"
    BY <1>3 DEF AtEntry
  <2>2. CASE cpu.todo \in Entries
    BY <1>1, <2>2, EntryGoesOn DEF Fetches, Writes
  <2>3. CASE cpu.todo = ThreePushes
    BY <2>1, <2>3 DEF BeforeEntry
  <2>4. CASE cpu.todo = TwoPushes
    BY <2>1, <2>4 DEF BeforeEntry
  <2>5. CASE cpu.todo = OnePush
    BY <1>3, <2>5 DEF Taken, Waiting
  <2>6. CASE cpu.todo = Vector
    BY <1>1, <2>6, EntryGoesOn DEF Writes
  <2> QED
    BY <1>3, <2>2, <2>3, <2>4, <2>5, <2>6 DEF AtEntry
<1> QED
  BY <1>2, <1>3 DEF Processor

\* At the last push the freeze comes.
LEMMA NotTooLate ==
  ASSUME FieldsOK, Processor, cart.armed, cart.count = 2, cpu.todo # <<>>, ~resetLow,
         Access = "push", ServeCycle \/ FreezeCycle \/ QuietCycle
  PROVE  FreezeCycle
<1>1. ~ServeCycle
  BY PushIsNotServed
<1>2. ASSUME QuietCycle PROVE FALSE
  <2>1. CountIs(Access, cart'.count) /\ cart'.count # 3
    BY <1>2, QuietIs DEF Keeps
  <2> QED
    BY <2>1 DEF CountIs, Writes, Many
<1> QED
  BY <1>1, <1>2

\* A press that is expected to freeze is debounced until it has.
LEMMA StepKeepsDebouncing ==
  ASSUME FreezerInv, FreezerNext
  PROVE  Debouncing'
<1> SUFFICES ASSUME ~excused'
             PROVE  /\ main' = "loop" /\ ~resetLow'
                    /\ "button" \in {latched', cpu'.kind} => cart'.debounce
                    /\ cart'.armed => "button" \in {latched', cpu'.kind}
  BY Zenon DEF Debouncing
<1> USE DEF FreezerInv
<1>1. CASE FIQHandler
  <2>1. /\ ~resetLow /\ main = "loop" /\ cpu.todo # <<>> /\ Advance
        /\ UNCHANGED <<type, main, resetLow>>
    BY <1>1, ExpectedCycle
  <2>2. /\ Access = Head(cpu.todo)
        /\ cpu'.kind = IF Taken THEN latched ELSE cpu.kind
        /\ Edge => latched' = IF cart'.debounce /\ ~cart.debounce THEN "button" ELSE "line"
        /\ ~Edge => latched' = IF Taken THEN "no" ELSE latched
    BY <2>1, ProcessorGoesOn
  <2>3. CASE PressCycle /\ cart.nmi
    <3>1. cart'.debounce /\ ~cart.debounce /\ ~cart'.nmi
      BY <2>3, PressIs
    <3>2. latched' = "button"
      BY <2>2, <2>3, <3>1, Zenon DEF Edge
    <3> QED
      BY <2>1, <3>1, <3>2
  <2>4. CASE ~excused /\ (ServeCycle \/ FreezeCycle \/ QuietCycle)
    <3>1. /\ cart'.debounce => cart.debounce
          /\ "button" \in {latched, cpu.kind} => cart.debounce /\ cart'.debounce
      BY <2>4, ServeIs, FreezeIs, QuietIs DEF Debouncing
    <3>2. latched' = "button" => latched = "button"
      BY <2>2, <3>1
    <3>3. cpu'.kind = "button" => "button" \in {latched, cpu.kind}
      BY <2>2
    <3>4. ASSUME cart'.armed PROVE "button" \in {latched', cpu'.kind}
      <4>1. cart.armed /\ ~FreezeCycle /\ "button" \in {latched, cpu.kind}
        BY <2>4, <3>4, ServeIs, FreezeIs, QuietIs DEF Keeps, Debouncing
      <4>2. CASE latched = "button"
        <5>1. ~Edge
          BY <2>1, <2>4, <4>2, NoOtherEdge DEF Waiting
        <5> QED
          BY <2>2, <4>2, <5>1
      <4>3. CASE cpu.kind = "button" /\ latched # "button"
        <5>1. ~Taken
          <6> SUFFICES ASSUME Taken PROVE FALSE
            OBVIOUS
          <6>1. cpu.todo = OnePush /\ Access = "push"
            BY <2>2, EntryGoesOn DEF Taken
          <6>2. cart.count = 2
            BY <2>4, <4>1, <4>3, <6>1 DEF InEntry, Entered
          <6> QED
            BY <2>1, <2>4, <4>1, <6>1, <6>2, NotTooLate
        <5> QED
          BY <2>2, <4>3, <5>1
      <4> QED
        BY <4>1, <4>2, <4>3
    <3> QED
      BY <2>1, <3>1, <3>2, <3>3, <3>4
  <2> QED
    BY <1>1, <2>3, <2>4, ExpectedCycle
<1>2. CASE Decode
  <2>1. /\ cpu.todo = <<>> /\ UNCHANGED <<cart, main, resetLow, excused>>
        /\ \/ NMITaken /\ cpu'.kind = latched /\ latched' = "no"
           \/ latched' = latched /\ cpu'.kind \in {"program", "irq"}
    BY <1>2, DecodeIs DEF AtProgram
  <2>2. main = "loop" /\ ~resetLow
    BY <2>1 DEF Debouncing
  <2>3. "button" \in {latched', cpu'.kind} => latched = "button"
    BY <2>1
  <2>4. cart.armed => latched = "button"
    <3>1. <<>> \notin Entries \cup {ThreePushes, TwoPushes, OnePush}
      BY EntryGoesOn
    <3> QED
      BY <2>1, <3>1 DEF Debouncing, InEntry, Entered
  <2>5. latched = "button" => cart.debounce /\ "button" \in {latched', cpu'.kind}
    BY <2>1 DEF Debouncing
  <2> QED
    BY <2>1, <2>2, <2>3, <2>4, <2>5
<1>3. CASE callbackReset
  BY <1>3 DEF callbackReset
<1>4. CASE PressResetButton
  BY <1>4 DEF PressResetButton
<1>5. CASE ReleaseResetButton
  BY <1>5 DEF ReleaseResetButton, historyVars, Debouncing
<1> QED
  BY <1>1, <1>2, <1>3, <1>4, <1>5, NextIs

\* Until the processor takes the NMI, the count is small enough for its pushes.
LEMMA StepKeepsBeforeEntry ==
  ASSUME FreezerInv, FreezerNext
  PROVE  BeforeEntry'
<1> DEFINE Counts ==
             /\ type # AR =>
                  /\ fresh => cart.count = 0
                  /\ AtProgram =>
                       /\ cpu.todo \in NoWrite => cart.count <= 2
                       /\ cpu.todo \in OneWrite => cart.count <= 1
                       /\ cpu.todo \in TwoWrites => cart.count = 0
                  /\ AtEntry /\ cpu.todo \in Entries \cup {Vector, <<>>} => cart.count = 0
             /\ cpu.kind # "program" =>
                  /\ cpu.todo = ThreePushes => cart.count = 0
                  /\ cpu.todo = TwoPushes => cart.count = 1
                  /\ cpu.todo = OnePush => cart.count = 2
           InNMI ==
             cpu.kind = "button" =>
               /\ cpu.todo \in {Vector, <<>>}
               /\ cpu.todo = Vector => cart.ultimax /\ UltimaxLines(cart)
           LineIsLow == type = FC3 => ~cart.nmi \/ (AtProgram /\ cpu.todo = <<>> /\ ~fresh)
<1> SUFFICES ASSUME latched' = "button", ~excused'
             PROVE  cart'.armed /\ Counts' /\ InNMI' /\ LineIsLow'
  BY Zenon DEF BeforeEntry, Waiting
<1> USE DEF FreezerInv
<1>1. CASE FIQHandler
  <2>1. /\ ~resetLow /\ main = "loop" /\ cpu.todo # <<>> /\ Advance
        /\ UNCHANGED <<type, main, resetLow>>
        /\ cart.count \in 0 .. 4
    BY <1>1, ExpectedCycle DEF FieldsOK, Carts, Many
  <2>2. /\ AtProgram => AtProgram'
        /\ AtEntry => AtEntry'
        /\ cpu'.todo = Tail(cpu.todo) /\ Access = Head(cpu.todo)
        /\ cpu'.kind = IF Taken THEN latched ELSE cpu.kind
        /\ fresh' <=> Edge
        /\ Edge => latched' = IF cart'.debounce /\ ~cart.debounce THEN "button" ELSE "line"
        /\ ~Edge => latched' = IF Taken THEN "no" ELSE latched
    BY <2>1, ProcessorGoesOn
  <2>3. /\ AtProgram' <=> AtProgram
        /\ AtEntry' <=> AtEntry
        /\ AtProgram => cpu'.kind = "program"
        /\ AtEntry => cpu.kind # "program"
    BY <2>2 DEF Processor, AtProgram, AtEntry
  <2>4. AtEntry =>
          /\ cpu'.todo \notin Entries
          /\ cpu'.todo = ThreePushes => cpu.todo \in Entries
          /\ cpu'.todo = TwoPushes => cpu.todo = ThreePushes
          /\ cpu'.todo = OnePush => cpu.todo = TwoPushes
          /\ cpu'.todo = Vector => cpu.todo = OnePush
          /\ cpu'.todo = <<>> => cpu.todo = Vector
    <3> SUFFICES ASSUME AtEntry
                 PROVE /\ cpu'.todo \notin Entries
                       /\ cpu'.todo = ThreePushes => cpu.todo \in Entries
                       /\ cpu'.todo = TwoPushes => cpu.todo = ThreePushes
                       /\ cpu'.todo = OnePush => cpu.todo = TwoPushes
                       /\ cpu'.todo = Vector => cpu.todo = OnePush
                       /\ cpu'.todo = <<>> => cpu.todo = Vector
      OBVIOUS
    <3>1. <<>> \notin {ThreePushes, TwoPushes, OnePush, Vector}
      BY EntryGoesOn
    <3> QED
      BY <2>1, <2>2, <3>1, EntryGoesOn, EntriesApart DEF AtEntry
  <2>5. CASE PressCycle /\ cart.nmi /\ ~PushesForgotten
             /\ (excused => cpu.kind # "button")
    <3>1. /\ cart'.armed /\ cart'.debounce /\ ~cart.debounce /\ ~cart'.nmi
          /\ type # AR => cart'.count = 0
          /\ type = AR => CountIs(Access, cart'.count)
          /\ type \in {KCS, SS5} => cart'.ultimax /\ UltimaxLines(cart')
      BY <2>5, PressIs
    <3>2. LineIsLow'
      BY <2>1, <3>1
    <3>3. Counts'
      <4>1. ASSUME AtEntry, cpu'.todo = ThreePushes PROVE cart'.count = 0
        <5>1. ~Writes(Access)
          BY <2>2, <2>4, <4>1, EntryGoesOn DEF Fetches, Writes
        <5> QED
          BY <3>1, <5>1 DEF CountIs
      <4>2. ASSUME AtEntry, cpu'.todo = TwoPushes PROVE cart'.count = 1
        <5>1. Access = "push" /\ Len(cpu.todo) = 4
          BY <2>2, <2>4, <4>2, EntryGoesOn
        <5>2. cart'.count = 5 - Len(cpu.todo)
          BY <2>5, <5>1 DEF PushesForgotten
        <5> QED
          BY <5>1, <5>2
      <4>3. ASSUME AtEntry, cpu'.todo = OnePush PROVE cart'.count = 2
        <5>1. Access = "push" /\ Len(cpu.todo) = 3
          BY <2>2, <2>4, <4>3, EntryGoesOn
        <5>2. cart'.count = 5 - Len(cpu.todo)
          BY <2>5, <5>1 DEF PushesForgotten
        <5> QED
          BY <5>1, <5>2
      <4>4. cpu'.kind # "program" => AtEntry
        BY <2>3 DEF Processor
      <4> QED
        BY <2>1, <3>1, <4>1, <4>2, <4>3, <4>4
    <3>4. InNMI'
      <4> SUFFICES ASSUME cpu'.kind = "button" PROVE InNMI'
        OBVIOUS
      <4>1. cpu.kind # "button"
        BY <2>5, <3>1 DEF Debouncing
      <4>2. Taken /\ latched = "button"
        BY <2>2, <4>1
      <4>3. cpu'.todo = Vector /\ cpu.todo = OnePush /\ cpu.kind # "program"
        BY <2>2, <2>3, <4>2, EntryGoesOn DEF Taken
      <4>4. type \notin {AR, FC3}
        BY <2>5, <4>2, <4>3 DEF LineLow
      <4>5. type \in {KCS, SS5}
        BY <4>4 DEF FieldsOK
      <4>6. UltimaxLines(cart)'
        BY <3>1, <4>5, Zenon DEF UltimaxLines
      <4> QED
        BY <3>1, <4>3, <4>5, <4>6
    <3> QED
      BY <3>1, <3>2, <3>3, <3>4
  <2>6. CASE ~excused /\ (ServeCycle \/ FreezeCycle \/ QuietCycle)
    <3>1. cart'.debounce => cart.debounce
      BY <2>6, ServeIs, FreezeIs, QuietIs
    <3>2. latched = "button" /\ Waiting
      BY <2>2, <2>6, <3>1 DEF Waiting
    <3>3. ~Edge /\ ~Taken
      <4>1. ~Edge
        BY <2>1, <2>6, <3>2, NoOtherEdge
      <4> QED
        BY <2>2, <4>1
    <3>4. Keeps(Access, cart')
      BY <2>1, <2>6, <3>2, <3>3, NotTooEarly, ServeIs, QuietIs
    <3>5. cart.armed /\ Counts /\ InNMI /\ LineIsLow
      BY <3>2, Zenon DEF BeforeEntry
    <3>6. /\ cart'.armed = cart.armed
          /\ Writes(Access) =>
                 cart'.count = IF cart.count < 4 THEN cart.count + 1 ELSE cart.count
          /\ ~Writes(Access) =>
                 cart'.count = 0 \/ (type # AR /\ cart'.count = cart.count)
          /\ Access \notin {"register", "mode"} => cart'.nmi = cart.nmi
      BY <3>4 DEF Keeps, CountIs, Many
    <3>7. cpu'.kind = cpu.kind /\ ~fresh'
      BY <2>2, <3>3
    <3>8. ASSUME AtProgram
          PROVE  /\ type # AR =>
                      /\ cpu'.todo \in NoWrite => cart'.count <= 2
                      /\ cpu'.todo \in OneWrite => cart'.count <= 1
                      /\ cpu'.todo \in TwoWrites => cart'.count = 0
                 /\ Access \in {"register", "mode"} => cpu'.todo = <<>>
      <4>1. /\ cpu.todo \in TwoWrites =>
                   cpu'.todo \in IF Writes(Access) THEN OneWrite ELSE TwoWrites
            /\ cpu.todo \in OneWrite =>
                   cpu'.todo \in IF Writes(Access) THEN NoWrite ELSE OneWrite
            /\ cpu.todo \in NoWrite => cpu'.todo \in NoWrite /\ ~Writes(Access)
            /\ cpu.todo \in TwoWrites \cup OneWrite \cup NoWrite
            /\ Access \in {"register", "mode"} => cpu'.todo = <<>>
        BY <2>1, <2>2, <3>8, ProgramGoesOn DEF AtProgram
      <4>2. /\ ~(cpu'.todo \in TwoWrites /\ cpu'.todo \in OneWrite)
            /\ ~(cpu'.todo \in TwoWrites /\ cpu'.todo \in NoWrite)
            /\ ~(cpu'.todo \in OneWrite /\ cpu'.todo \in NoWrite)
        BY ProgramsApart
      <4>3. type # AR =>
              /\ cpu.todo \in NoWrite => cart.count <= 2
              /\ cpu.todo \in OneWrite => cart.count <= 1
              /\ cpu.todo \in TwoWrites => cart.count = 0
        BY <3>5, <3>8
      <4> HIDE DEF Counts, InNMI, LineIsLow
      <4> QED
        BY <2>1, <3>6, <4>1, <4>2, <4>3
    <3>9. ASSUME AtEntry, type # AR, cpu'.todo \in Entries \cup {Vector, <<>>}
          PROVE  cart'.count = 0
      <4>1. cpu.todo # OnePush
        BY <3>2, <3>3, <3>9 DEF Taken
      <4>2. cpu.todo = Vector
        BY <2>4, <3>9, <4>1
      <4>3. ~Writes(Access) /\ cart.count = 0
        BY <2>2, <3>5, <3>9, <4>2, EntryGoesOn DEF Writes
      <4> QED
        BY <3>6, <4>3
    <3>10. ASSUME AtEntry
           PROVE  /\ cpu'.todo = ThreePushes => cart'.count = 0
                  /\ cpu'.todo = TwoPushes => cart'.count = 1
                  /\ cpu'.todo = OnePush => cart'.count = 2
      <4>1. ASSUME cpu'.todo = ThreePushes PROVE cart'.count = 0
        <5>1. cpu.todo \in Entries /\ ~Writes(Access)
          BY <2>2, <2>4, <3>10, <4>1, EntryGoesOn DEF Fetches, Writes
        <5> QED
          BY <3>5, <3>6, <3>10, <5>1
      <4>2. ASSUME cpu'.todo = TwoPushes PROVE cart'.count = 1
        <5>1. cpu.todo = ThreePushes /\ Writes(Access)
          BY <2>2, <2>4, <3>10, <4>2, EntryGoesOn DEF Writes
        <5> QED
          BY <2>3, <3>5, <3>6, <3>10, <5>1
      <4>3. ASSUME cpu'.todo = OnePush PROVE cart'.count = 2
        <5>1. cpu.todo = TwoPushes /\ Writes(Access)
          BY <2>2, <2>4, <3>10, <4>3, EntryGoesOn DEF Writes
        <5> QED
          BY <2>3, <3>5, <3>6, <3>10, <5>1
      <4> QED
        BY <4>1, <4>2, <4>3
    <3>11. Counts'
      <4>1. cpu'.kind # "program" => AtEntry
        BY <2>3 DEF Processor
      <4> QED
        BY <2>1, <2>3, <3>7, <3>8, <3>9, <3>10, <4>1
    <3>12. InNMI'
      <4>1. ASSUME cpu.kind = "button" PROVE AtEntry /\ cpu.todo = Vector
        BY <2>1, <3>5, <4>1 DEF Processor, AtProgram
      <4>2. <<>> # Vector
        BY EntryGoesOn
      <4> QED
        BY <2>2, <3>7, <4>1, <4>2, EntryGoesOn
    <3>13. LineIsLow'
      <4>1. ASSUME type = FC3 PROVE ~cart.nmi
        BY <2>1, <3>5, <4>1
      <4>2. AtEntry => Access \notin {"register", "mode"}
        BY <2>1, <2>2, EntryGoesOn DEF AtEntry, Fetches
      <4> QED
        BY <2>1, <2>3, <3>6, <3>7, <3>8, <4>1, <4>2 DEF Processor
    <3> QED
      BY <3>5, <3>6, <3>11, <3>12, <3>13
  <2> QED
    BY <1>1, <2>5, <2>6, ExpectedCycle
<1>2. CASE Decode
  <2>1. /\ cpu.todo = <<>> /\ ~NMITaken /\ latched = "button" /\ Waiting
        /\ UNCHANGED <<type, cart, fresh>>
        /\ \/ AtProgram' /\ cpu'.todo # <<>>
           \/ cpu.kind = "program" /\ cpu'.kind = "irq" /\ cpu'.todo \in Entries
    BY <1>2, DecodeIs DEF Waiting
  <2>2. cart.armed /\ Counts /\ InNMI /\ LineIsLow
    BY <2>1, Zenon DEF BeforeEntry
  <2>3. fresh \/ AtEntry
    BY <2>1 DEF NMITaken, Processor, AtProgram
  <2>4. type # AR => cart.count = 0
    BY <2>1, <2>2, <2>3
  <2>5. type = FC3 => ~cart.nmi
    BY <2>1, <2>2, <2>3 DEF AtProgram, AtEntry
  <2>6. cpu'.kind # "button" /\
        (cpu'.kind # "program" => cpu'.todo \notin {ThreePushes, TwoPushes, OnePush})
    BY <2>1, EntriesApart DEF AtProgram
  <2> HIDE DEF Counts
  <2>7. Counts'
    BY <2>1, <2>4, <2>6 DEF Counts
  <2>8. InNMI' /\ LineIsLow'
    BY <2>1, <2>5, <2>6
  <2> QED
    BY <2>1, <2>2, <2>7, <2>8
<1>3. CASE callbackReset
  BY <1>3 DEF callbackReset
<1>4. CASE PressResetButton
  BY <1>4 DEF PressResetButton
<1>5. CASE ReleaseResetButton
  BY <1>5 DEF ReleaseResetButton, historyVars, Debouncing
<1> QED
  BY <1>1, <1>2, <1>3, <1>4, <1>5, NextIs

\* Once it has taken the NMI, the pushes that are left are enough for the freeze.
LEMMA StepKeepsInEntry ==
  ASSUME FreezerInv, FreezerNext
  PROVE  InEntry'
<1> DEFINE Ready3 ==
             /\ cart.armed =>
                  /\ cpu.todo \in Entries \cup {ThreePushes, TwoPushes, OnePush}
                  /\ type # AR \/ cpu.todo \notin Entries => cart.count <= 2
                  /\ cpu.todo = TwoPushes => cart.count >= 1
                  /\ cpu.todo = OnePush => cart.count = 2
             /\ ~cart.armed /\ cpu.todo # <<>> => cart.ultimax /\ UltimaxLines(cart)
<1> SUFFICES ASSUME cpu'.kind = "button", latched' # "button", ~excused'
             PROVE  Ready3'
  BY Zenon DEF InEntry, Entered
<1> USE DEF FreezerInv
<1>1. CASE FIQHandler
  <2>1. /\ ~resetLow /\ main = "loop" /\ cpu.todo # <<>> /\ Advance
        /\ UNCHANGED <<type, main, resetLow>>
        /\ cart.count \in 0 .. 4
    BY <1>1, ExpectedCycle DEF FieldsOK, Carts, Many
  <2>2. /\ AtProgram => AtProgram'
        /\ cpu'.todo = Tail(cpu.todo) /\ Access = Head(cpu.todo)
        /\ cpu'.kind = IF Taken THEN latched ELSE cpu.kind
        /\ Edge => latched' = IF cart'.debounce /\ ~cart.debounce THEN "button" ELSE "line"
    BY <2>1, ProcessorGoesOn
  <2>3. AtEntry /\ cpu.kind # "program"
    BY <2>2 DEF Processor, AtProgram, AtEntry
  <2>4. ~excused /\ (ServeCycle \/ FreezeCycle \/ QuietCycle)
    <3> SUFFICES ASSUME PressCycle, cart.nmi PROVE FALSE
      BY <1>1, ExpectedCycle
    <3>1. cart'.debounce /\ ~cart.debounce /\ ~cart'.nmi
      BY PressIs
    <3> QED
      BY <2>2, <3>1, Zenon DEF Edge
  <2>5. CASE FreezeCycle
    <3>1. ~cart'.armed /\ cart'.ultimax /\ UltimaxLines(cart')
      BY <2>5, FreezeIs
    <3>2. UltimaxLines(cart)'
      BY <3>1, Zenon DEF UltimaxLines
    <3> QED
      BY <3>1, <3>2
  <2>6. CASE ~FreezeCycle
    <3>1. Keeps(Access, cart')
      BY <2>4, <2>6, ServeIs, QuietIs
    <3>2. /\ cart'.armed = cart.armed
          /\ Writes(Access) =>
                 cart'.count = IF cart.count < 4 THEN cart.count + 1 ELSE cart.count
          /\ ~Writes(Access) =>
                 cart'.count = 0 \/ (type # AR /\ cart'.count = cart.count)
          /\ Access \notin {"register", "mode"} => SameMode(cart, cart')
      BY <3>1 DEF Keeps, CountIs, Many
    <3>3. ~(cart.armed /\ cart.count = 2 /\ Access = "push")
      BY <2>1, <2>4, <2>6, NotTooLate
    <3>4. ~(Taken /\ latched = "button")
      <4> SUFFICES ASSUME Taken, latched = "button" PROVE FALSE
        OBVIOUS
      <4>1. Waiting /\ cpu.todo = OnePush /\ Access = "push"
        BY <2>2, <2>4, EntryGoesOn DEF Waiting, Taken
      <4>2. cart.armed /\ cart.count = 2
        BY <2>3, <4>1 DEF BeforeEntry
      <4> QED
        BY <3>3, <4>1, <4>2
    <3>5. ~Taken /\ cpu.kind = "button"
      BY <2>2, <3>4
    <3>6. latched # "button"
      <4> SUFFICES ASSUME latched = "button" PROVE FALSE
        OBVIOUS
      <4>1. ~Edge
        BY <2>1, <2>4, NoOtherEdge DEF Waiting
      <4>2. latched' = IF Taken THEN "no" ELSE latched
        BY <2>1, <4>1, ProcessorGoesOn
      <4> QED
        BY <3>5, <4>2
    <3>7. Ready3
      BY <2>4, <3>5, <3>6, Zenon DEF InEntry, Entered
    <3>8. CASE cart.armed
      <4>2. cpu.todo \in Entries \cup {ThreePushes, TwoPushes, OnePush}
        BY <3>7, <3>8
      <4>3. CASE cpu.todo \in Entries
        <5>1. ~Writes(Access) /\ cpu'.todo = ThreePushes
          BY <2>2, <4>3, EntryGoesOn DEF Fetches, Writes
        <5>2. cart'.count <= 2
          BY <2>1, <3>2, <3>7, <3>8, <4>3, <5>1
        <5> QED
          BY <3>2, <3>8, <5>1, <5>2, EntriesApart
      <4>4. CASE cpu.todo = ThreePushes
        <5>1. Writes(Access) /\ Access = "push" /\ cpu'.todo = TwoPushes
          BY <2>2, <4>4, EntryGoesOn DEF Writes
        <5>2. cart.count <= 2
          BY <3>7, <3>8, <4>4, EntriesApart
        <5>3. cart'.count \in 1 .. 2
          BY <2>1, <3>2, <3>3, <3>8, <5>1, <5>2
        <5> QED
          BY <3>2, <3>8, <5>1, <5>3, EntriesApart
      <4>5. CASE cpu.todo = TwoPushes
        <5>1. Writes(Access) /\ Access = "push" /\ cpu'.todo = OnePush
          BY <2>2, <4>5, EntryGoesOn DEF Writes
        <5>2. cart.count <= 2 /\ cart.count >= 1
          BY <3>7, <3>8, <4>5, EntriesApart
        <5>3. cart'.count = 2
          BY <2>1, <3>2, <3>3, <3>8, <5>1, <5>2
        <5> QED
          BY <3>2, <3>8, <5>1, <5>3, EntriesApart
      <4>6. CASE cpu.todo = OnePush
        <5>1. Access = "push" /\ cart.count = 2
          BY <2>2, <3>7, <3>8, <4>6, EntryGoesOn
        <5> QED
          BY <3>3, <3>8, <5>1
      <4> QED
        BY <4>2, <4>3, <4>4, <4>5, <4>6
    <3>9. CASE ~cart.armed
      <4>1. Access \notin {"register", "mode"}
        BY <2>1, <2>2, <2>3, EntryGoesOn DEF AtEntry, Fetches
      <4>2. cart.ultimax /\ UltimaxLines(cart)
        BY <2>1, <3>7, <3>9
      <4>3. cart'.ultimax /\ UltimaxLines(cart)'
        BY <3>2, <4>1, <4>2, Zenon DEF SameMode, UltimaxLines
      <4> QED
        BY <3>2, <3>9, <4>3
    <3> QED
      BY <3>8, <3>9
  <2> QED
    BY <2>5, <2>6
<1>2. CASE Decode
  <2>1. /\ cpu.todo = <<>> /\ ~excused /\ UNCHANGED <<type, cart>>
        /\ NMITaken /\ cpu'.todo \in Entries /\ latched = "button"
    BY <1>2, DecodeIs DEF AtProgram
  <2>2. Waiting /\ AtProgram
    BY <2>1 DEF Waiting, NMITaken, Processor, AtEntry
  <2>3. cart.armed /\ (type # AR => cart.count <= 2)
    BY <2>1, <2>2 DEF BeforeEntry, NoWrite
  <2> QED
    BY <2>1, <2>3, EntriesApart
<1>3. CASE callbackReset
  BY <1>3 DEF callbackReset
<1>4. CASE PressResetButton
  BY <1>4 DEF PressResetButton
<1>5. CASE ReleaseResetButton
  BY <1>5 DEF ReleaseResetButton, historyVars, Debouncing
<1> QED
  BY <1>1, <1>2, <1>3, <1>4, <1>5, NextIs

\* Together the invariants are inductive.
LEMMA StepKeepsFreezerInv ==
  ASSUME MaxUserResets \in Nat, FreezerInv, [FreezerNext]_freezerVars
  PROVE  FreezerInv'
<1>1. CASE FreezerNext
  BY <1>1, StepKeepsFields, StepKeepsInARow, StepKeepsLineLow, StepKeepsModeKept,
     StepKeepsBeforeEntry, StepKeepsInEntry, StepKeepsDebouncing DEF FreezerInv
<1>2. CASE UNCHANGED freezerVars
  <2>1. /\ UNCHANGED <<type, freezerKernal, cart, main, counter, pressed, released>>
        /\ UNCHANGED <<resetLow, userResets, cpu, latched, fresh, excused, raced>>
    BY <1>2 DEF freezerVars, resetVars, userVars, cpuVars,
       historyVars
  <2>2. Matches(cart)' <=> Matches(cart)
    BY <2>1, Zenon DEF Matches, Visible, UltimaxLines
  <2>3. UltimaxLines(cart)' <=> UltimaxLines(cart)
    BY <2>1, Zenon DEF UltimaxLines
  <2>4. FieldsOK'
    BY <2>1 DEF FreezerInv, FieldsOK
  <2>5. ModeKept'
    BY <2>1, <2>2 DEF FreezerInv, ModeKept
  <2>6. AtProgram' <=> AtProgram
    BY <2>1 DEF AtProgram
  <2>7. AtEntry' <=> AtEntry
    BY <2>1 DEF AtEntry
  <2>8. InARow' /\ LineLow' /\ Debouncing' /\ Processor'
    BY <2>1, <2>6, <2>7 DEF FreezerInv, InARow, LineLow, Debouncing, Processor
  <2>9. BeforeEntry' /\ InEntry'
    BY <2>1, <2>3, <2>6, <2>7 DEF FreezerInv, BeforeEntry, InEntry, Waiting, Entered
  <2> QED
    BY <2>4, <2>5, <2>8, <2>9 DEF FreezerInv
<1> QED
  BY <1>1, <1>2

\* They hold as the cartridge has started.
LEMMA InitFreezerInv ==
  ASSUME MaxUserResets \in Nat, FreezerInit
  PROVE  FreezerInv
<1>1. /\ type \in {AR, FC3, KCS, SS5} /\ freezerKernal \in BOOLEAN
      /\ cart = [exrom |-> type = SS5, game |-> type = AR,
         nmi |-> type # FC3,
                 active |-> TRUE, ultimax |-> type = SS5, count |-> 0,
                 armed |-> FALSE, debounce |-> FALSE]
      /\ main = "loop" /\ counter = 0 /\ pressed = FALSE /\ released = FALSE
      /\ resetLow = FALSE /\ userResets = 0
      /\ cpu.todo = <<>> /\ cpu.kind = "program" /\ latched = "no" /\ fresh = FALSE
      /\ excused = TRUE /\ raced = FALSE
  BY DEF FreezerInit
<1>2. 0 \in 0 .. Many /\ 0 \in 0 .. Held /\ 0 \in 0 .. MaxUserResets
  BY SMT DEF Many, Held
<1>3. cart \in Carts
  BY <1>1, <1>2, Zenon DEF Carts
<1>4. FieldsOK
  <2>1. /\ main \in {"loop", "mode", "lines", "debounce", "arm", "menu"}
        /\ counter \in 0 .. Held /\ pressed \in BOOLEAN /\ released \in BOOLEAN
        /\ resetLow \in BOOLEAN /\ userResets \in 0 .. MaxUserResets
        /\ cpu.kind \in {"program", "irq", "button", "line"}
        /\ latched \in {"no", "button", "line"} /\ fresh \in BOOLEAN
        /\ excused \in BOOLEAN /\ raced \in BOOLEAN
    BY <1>1, <1>2
  <2> QED
    BY <1>1, <1>3, <2>1, Zenon DEF FieldsOK
<1>5. Processor
  BY <1>1 DEF Processor, AtProgram, NoWrite
<1>6. Matches(cart)
  <2>1. /\ cart.ultimax = (type = SS5) /\ cart.exrom = (type = SS5)
        /\ cart.game = (type = AR)
    BY <1>1, Zenon
  <2> QED
    BY <1>1, <2>1, FourTypes, Zenon DEF Matches, UltimaxLines
<1>7. ModeKept
  BY <1>1, <1>6 DEF ModeKept
<1>8. InARow /\ LineLow
  BY <1>1 DEF InARow, LineLow, AtProgram
<1>9. BeforeEntry /\ InEntry /\ Debouncing
  BY <1>1 DEF BeforeEntry, InEntry, Debouncing, Waiting, Entered
<1> QED
  BY <1>4, <1>5, <1>7, <1>8, <1>9 DEF FreezerInv

\* The freezers keep the invariant, with any number of resets.
THEOREM FreezerInvariant ==
  FreezerSpec => []FreezerInv
<1>1. FreezerInit => FreezerInv
  BY InitFreezerInv, ResetsAssumption
<1>2. FreezerInv /\ [FreezerNext]_freezerVars => FreezerInv'
  BY StepKeepsFreezerInv, ResetsAssumption
<1> QED
  BY <1>1, <1>2, PTL DEF FreezerSpec

\* Every field has its values, the processor is at an access of one of its instructions or
\* entries, and an Action Replay never counts more than three writes.
THEOREM FreezerTypes ==
  FreezerSpec => []FreezerTypeOK
<1>1. FreezerInv => FreezerTypeOK
  BY DEF FreezerInv, FreezerTypeOK, InARow
<1> QED
  BY <1>1, FreezerInvariant, PTL

\* The flag by which the handler knows Ultimax mode agrees with the lines, and the vector of
\* the NMI a press has caused is read from the ROM of the freezer.
THEOREM MemoryIsServed ==
  FreezerSpec => []MemoryServed
<1>1. ASSUME FreezerInv PROVE MemoryServed
  <2>1. FlagMatchesLines
    BY <1>1, Zenon DEF FreezerInv, ModeKept, Matches, FlagMatchesLines
  <2>2. ServedByFreezer
    <3> SUFFICES ASSUME cpu.todo = <<"vector">>, cpu.kind = "button", ~excused,
                        type = SS5 => cart.active
                 PROVE  Served(cart, "vector") /\ UltimaxLines(cart) /\ cart.ultimax
      BY DEF ServedByFreezer
    <3>1. cpu.todo = Vector
      BY DEF Vector
    <3> SUFFICES UltimaxLines(cart) /\ cart.ultimax
      <4>1. type \in Types
        BY <1>1 DEF FreezerInv, FieldsOK, Types
      <4>2. cart.ultimax /\ type \in {AR, SS5} => Visible(cart)
        BY <4>1, Zenon DEF Visible, Types, AR, FC3, KCS, SS5
      <4> QED
        BY <4>2 DEF Served
    <3>2. CASE latched = "button"
      BY <1>1, <3>1, <3>2 DEF FreezerInv, BeforeEntry, Waiting
    <3>3. CASE latched # "button"
      <4>1. cpu.todo \notin Entries \cup {ThreePushes, TwoPushes, OnePush} /\ cpu.todo # <<>>
        BY <3>1, EntriesApart, EntryGoesOn
      <4> QED
        BY <1>1, <3>3, <4>1 DEF FreezerInv, InEntry, Entered
    <3> QED
      BY <3>2, <3>3
  <2> QED
    BY <2>1, <2>2 DEF MemoryServed
<1>2. FreezerInv => MemoryServed
  BY <1>1
<1> QED
  BY <1>2, FreezerInvariant, PTL

\* The freeze is completed at a push, as the processor enters the NMI of the button, and
\* Action Replay and Final Cartridge exchange the memory with it, at no other access but a
\* write of their register.
THEOREM FreezesOnlyAtEntry ==
  FreezerSpec => FreezesAtEntry
<1> DEFINE AtEntryOnly == main = "loop" /\ cart' # cart /\ Exchanged =>
             excused \/ (Access = "push" /\ "button" \in {cpu.kind, cpu'.kind, latched})
<1>1. ASSUME FreezerInv, [FreezerNext]_freezerVars PROVE [AtEntryOnly]_freezerVars
  <2> USE DEF FreezerInv
  <2> SUFFICES ASSUME FreezerNext, main = "loop", cart' # cart, Exchanged, ~excused
               PROVE  Access = "push" /\ "button" \in {cpu.kind, cpu'.kind, latched}
    BY <1>1
  <2>2. FreezeCycle
    <3>1. ASSUME Keeps(Access, cart') PROVE FALSE
      BY <3>1 DEF Exchanged, Keeps, SameMode
    <3>2. ASSUME PressCycle PROVE FALSE
      BY <1>1, <3>2, PressIs DEF Exchanged, SameMode
    <3>3. ~ServeCycle /\ ~QuietCycle
      BY <1>1, <3>1, ServeIs, QuietIs
    <3>4. ~Decode
      BY DecodeIs
    <3>5. ~callbackReset
      BY DEF callbackReset
    <3>6. ~PressResetButton /\ ~ReleaseResetButton
      BY DEF PressResetButton, ReleaseResetButton
    <3> QED
      BY <3>2, <3>3, <3>4, <3>5, <3>6, NextIs DEF FIQHandler
  <2>1. "button" \in {cpu.kind, latched} /\ ~resetLow
    BY <1>1, <2>2, FreezeIs DEF Debouncing
  <2>3. Writes(Access) /\ cart.count = 2
    BY <1>1, <2>2, FreezeWrites
  <2>4. cpu.todo # <<>> /\ Access = Head(cpu.todo)
    BY <2>1, <2>2 DEF FreezeCycle, Cycle, Access
  <2>5. Access = "push"
    <3>1. CASE AtEntry
      BY <2>3, <2>4, <3>1, EntryGoesOn DEF AtEntry, Fetches, Writes
    <3>2. CASE AtProgram
      <4>1. Waiting
        BY <2>1, <3>2 DEF AtProgram, Waiting
      <4>2. ~Taken
        BY <3>2 DEF Taken, AtProgram, AtEntry
      <4> QED
        BY <1>1, <2>1, <2>2, <2>4, <4>1, <4>2, NotTooEarly
    <3> QED
      BY <1>1, <3>1, <3>2 DEF Processor
  <2> QED
    BY <2>1, <2>5
<1>2. FreezerInv /\ [FreezerNext]_freezerVars => [AtEntryOnly]_freezerVars
  BY <1>1
<1> QED
  BY <1>2, FreezerInvariant, PTL DEF FreezerSpec, FreezesAtEntry
=============================================================================
