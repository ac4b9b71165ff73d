----------------------------- MODULE CRTFileProofs -----------------------------
(***************************************************************************)
(* CRTFile for every number of banks, every file of packets that the code  *)
(* is written for, and any number of writes and losses of power.           *)
(*                                                                         *)
(* The argument: a pass through the file goes from header to header.  What *)
(* is behind the cursor of the reading pass is in the flash, the last cell *)
(* that is seen at a place being the one that is kept; what is behind the  *)
(* cursor of the patching pass is what the flash holds at the place where  *)
(* it is seen.  Neither pass changes where the headers are.  What the file *)
(* means is the last cell seen at each place, so that at the end of the    *)
(* reading the flash is the meaning of the file, and at the end of the     *)
(* patching the meaning of the file is the flash.                          *)
(***************************************************************************)
EXTENDS CRTFile, FiniteSetTheorems, SequenceTheorems, TLAPS

DataCells == [origin : {"file", "C64", "eapi", "nothing"}, number : Nat]

\* cells that are packets, each up to the next
Whole(t, f) ==
  /\ f \in Seq(Headers(t) \cup DataCells) /\ f # <<>>
  /\ IsHeader(f[1])
  /\ \A q \in 1 .. Len(f) : IsHeader(f[q]) =>
       /\ q + f[q].length <= Len(f)
       /\ \A i \in 1 .. f[q].length : ~IsHeader(f[q + i])
       /\ q + f[q].length < Len(f) => IsHeader(f[q + f[q].length + 1])

\* f has the packets of g
SameShape(f, g) ==
  /\ f \in Seq(Headers(type) \cup DataCells) /\ Len(f) = Len(g)
  /\ \A p \in 1 .. Len(g) :
       /\ IsHeader(f[p]) <=> IsHeader(g[p])
       /\ IsHeader(g[p]) => f[p] = g[p]

\* a position is a header, or the end
AtHeader(f, p) == p <= Len(f) + 1 /\ (p <= Len(f) => IsHeader(f[p]))

CardOK ==
  /\ Whole(type, layout)
  /\ file # <<>> => SameShape(file, layout) /\ saved = Image(type, file)
  /\ saved = [place \in Covered(type, layout) |-> saved[place]]
  /\ image = [place \in Covered(type, layout) |-> image[place]]
  /\ pc \in {"parse", "run", "patch"} => file # <<>>
  /\ pc = "halted" => file = <<>>

FlashOK == flash \in [Places -> DataCells]

\* an EAPI of the file that is replaced whenever it is read
Replaced(place) ==
  /\ place = EapiPlace /\ image[place] = EapiCode
  /\ type # LowOnly /\ saved[place].origin = "file" /\ eapi

SavedOK ==
  /\ modified => type = EasyFlash /\ pc \in {"run", "patch", "write"}
  /\ ~modified => \A place \in DOMAIN image : image[place] = saved[place] \/ Replaced(place)

\* what has been read of the file is in the flash
IsLast(m, S) == m \in S /\ \A p \in S : p <= m
Seen(place) == {p \in At(type, file, place) : p < crt}
InFlash(place) ==
  /\ place[1] <= nBanks /\ place[2] \in romLH
  /\ \E m \in Nat : IsLast(m, Seen(place)) /\ flash[place] = file[m]

ParseOK == pc = "parse" =>
  /\ AtHeader(file, crt) /\ nBanks < NumBanks
  /\ \A place \in Places : Seen(place) # {} => InFlash(place)

RunOK == pc \in {"run", "patch", "write"} =>
  \A place \in DOMAIN image :
    /\ flash[place] = image[place]
    /\ place[1] < nBanks /\ place[2] \in romLH
    /\ \E m \in Nat : IsLast(m, At(type, layout, place))

\* what has been patched is what is in the flash
PatchOK == pc \in {"patch", "write"} =>
  /\ type = EasyFlash
  /\ SameShape(rawCRT, layout) /\ AtHeader(layout, crt)
  /\ \A place \in Places : \A p \in At(type, layout, place) :
       p < crt => rawCRT[p] = flash[place]
  /\ pc = "write" => crt > Len(layout)

IInv == TypeOK /\ CardOK /\ FlashOK /\ SavedOK /\ ParseOK /\ RunOK /\ PatchOK
----------------------------------------------------------------------------
(* Cells and packets *)

\* Nothing but the header of a packet is one.
LEMMA DataIsNoHeader ==
  ASSUME NEW d \in DataCells
  PROVE  ~IsHeader(d)
  BY DEF DataCells, IsHeader

\* The header of a packet has a shape of its type.
LEMMA HeaderIsHeader ==
  ASSUME NEW t \in DOMAIN Shapes, NEW h \in Headers(t)
  PROVE  /\ IsHeader(h) /\ h.bank \in Banks
         /\ <<h.adr, h.length>> \in Shapes[t]
  <1>1. PICK b \in Banks, s \in Shapes[t] : h = Header(b, s[1], s[2])
    BY DEF Headers
  <1>2. h.bank = b /\ h.adr = s[1] /\ h.length = s[2]
    BY <1>1 DEF Header
  <1>3. IsHeader(h)
    BY <1>1 DEF Header, IsHeader
  <1>4. s = <<s[1], s[2]>>
    BY ShapesAssumption, BoundsAssumption DEF EasyFlash, LowOnly, Plain
  <1> QED
    BY <1>2, <1>3, <1>4

\* the packets that may be in a file
Expected(t, h) ==
  \/ t = LowOnly /\ h.adr \in {8, 10, 14} /\ h.length \in {1, 2}
  \/ t = Plain /\ h.adr = 8 /\ h.length = 1
  \/ t \in {EasyFlash, Plain} /\ h.adr = 8 /\ h.length \in {2, 4}
  \/ t \in {EasyFlash, Plain} /\ h.adr \in {10, 14} /\ h.length = 2
  \/ t = Plain /\ h.adr \in {11, 15} /\ h.length = 1

\* The headers of a file are of packets that its type may have.
LEMMA HeaderExpected ==
  ASSUME NEW t \in DOMAIN Shapes, NEW h \in Headers(t)
  PROVE  Expected(t, h)
  <1>1. <<h.adr, h.length>> \in Shapes[t]
    BY HeaderIsHeader
  <1>2. CASE t = EasyFlash
    <2>1. <<h.adr, h.length>> \in ({8} \X {2, 4}) \cup ({10, 14} \X {2})
      BY <1>1, <1>2, ShapesAssumption
    <2> QED
      BY <1>2, <2>1 DEF Expected
  <1>3. CASE t = LowOnly
    <2>1. <<h.adr, h.length>> \in {8, 10, 14} \X {1, 2}
      BY <1>1, <1>3, ShapesAssumption
    <2> QED
      BY <1>3, <2>1 DEF Expected
  <1>4. CASE t = Plain
    <2>1. <<h.adr, h.length>> \in ({8} \X {1, 2, 4}) \cup ({10, 14} \X {2}) \cup ({11, 15} \X {1})
      BY <1>1, <1>4, ShapesAssumption
    <2> QED
      BY <1>4, <2>1 DEF Expected
  <1> QED
    BY <1>2, <1>3, <1>4, BoundsAssumption

\* The C64 sees no two cells of a packet at one place, and a type that only uses the
\* low bank has nothing in the other.
LEMMA PlacesOfPacket ==
  ASSUME NEW t \in DOMAIN Shapes, NEW h \in Headers(t)
  PROVE  /\ h.length \in Nat \ {0}
         /\ \A i \in 1 .. h.length : PlaceAt(t, h, i) \in Places
         /\ \A i, j \in 1 .. h.length : PlaceAt(t, h, i) = PlaceAt(t, h, j) => i = j
         /\ t = LowOnly => \A i \in 1 .. h.length : PlaceAt(t, h, i)[2] = "L"
  <1>1. Expected(t, h) /\ h.bank \in Banks
    BY HeaderExpected, HeaderIsHeader
  <1>2. h.adr \in Nat /\ h.length \in {1, 2, 4}
    BY <1>1 DEF Expected
  <1>3. ASSUME NEW i \in 1 .. h.length
        PROVE  /\ PlaceAt(t, h, i)[1] = h.bank
               /\ PlaceAt(t, h, i)[2] = IF t = LowOnly \/ h.adr + i - 1 \in {8, 9} THEN "L" ELSE "H"
               /\ PlaceAt(t, h, i)[3] = 1 + ((h.adr + i - 1) % 2)
               /\ PlaceAt(t, h, i) \in Places
    <2>1. (h.adr + i - 1) % 2 \in {0, 1}
      BY <1>2
    <2> QED
      BY <1>1, <2>1 DEF PlaceAt, Places, Chips
  <1>4. ASSUME NEW i \in 1 .. h.length, NEW j \in 1 .. h.length,
               PlaceAt(t, h, i) = PlaceAt(t, h, j)
        PROVE  i = j
    <2>1. /\ (h.adr + i - 1) % 2 = (h.adr + j - 1) % 2
          /\ t # LowOnly => (h.adr + i - 1 \in {8, 9} <=> h.adr + j - 1 \in {8, 9})
      <3>1. /\ PlaceAt(t, h, i)[3] = 1 + ((h.adr + i - 1) % 2)
            /\ PlaceAt(t, h, j)[3] = 1 + ((h.adr + j - 1) % 2)
        BY <1>3
      <3>2. /\ PlaceAt(t, h, i)[2] = IF t = LowOnly \/ h.adr + i - 1 \in {8, 9} THEN "L" ELSE "H"
            /\ PlaceAt(t, h, j)[2] = IF t = LowOnly \/ h.adr + j - 1 \in {8, 9} THEN "L" ELSE "H"
        BY <1>3
      <3>3. (h.adr + i - 1) % 2 \in Nat /\ (h.adr + j - 1) % 2 \in Nat
        BY <1>2
      <3>4. 1 + ((h.adr + i - 1) % 2) = 1 + ((h.adr + j - 1) % 2)
        BY <1>4, <3>1
      <3> QED
        BY <1>4, <3>2, <3>3, <3>4
    <2>2. /\ 8 % 2 = 0 /\ 9 % 2 = 1 /\ 10 % 2 = 0 /\ 11 % 2 = 1 /\ 14 % 2 = 0 /\ 15 % 2 = 1
      OBVIOUS
    <2>3. CASE h.length = 1
      BY <2>3
    <2>4. CASE h.length = 2 /\ h.adr \in {8, 10, 14}
      BY <2>1, <2>2, <2>4
    <2>5. CASE h.length = 4 /\ h.adr = 8 /\ t # LowOnly
      BY <2>1, <2>2, <2>5
    <2> QED
      BY <1>1, <2>3, <2>4, <2>5 DEF Expected, EasyFlash, LowOnly, Plain
  <1>5. t = LowOnly => \A i \in 1 .. h.length : PlaceAt(t, h, i)[2] = "L"
    BY <1>3
  <1>6. h.length \in Nat \ {0}
    BY <1>2
  <1> QED
    BY <1>3, <1>4, <1>5, <1>6

\* What a cell of a file is.
LEMMA CellOfFile ==
  ASSUME NEW t \in DOMAIN Shapes, NEW f \in Seq(Headers(t) \cup DataCells),
         NEW p \in 1 .. Len(f)
  PROVE  /\ IsHeader(f[p]) => f[p] \in Headers(t) /\ f[p].length \in Nat \ {0}
         /\ ~IsHeader(f[p]) => f[p] \in DataCells
  <1>1. f[p] \in Headers(t) \cup DataCells
    OBVIOUS
  <1>2. CASE f[p] \in Headers(t)
    BY <1>2, HeaderIsHeader, PlacesOfPacket
  <1>3. CASE f[p] \in DataCells
    BY <1>3, DataIsNoHeader
  <1> QED
    BY <1>1, <1>2, <1>3

\* A file is made of packets.
LEMMA FilesAreWhole ==
  ASSUME NEW t \in DOMAIN Shapes, NEW f \in Files(t)
  PROVE  Whole(t, f)
  <1>1. PICK n \in 1 .. MaxCells : \E h \in {k \in Packets(t, n) : FillsFile(n, k)} : f = Cells(n, h)
    BY DEF Files
  <1>2. PICK h \in Packets(t, n) : FillsFile(n, h) /\ f = Cells(n, h)
    BY <1>1
  <1>3. MaxCells \in Nat /\ n \in Nat /\ n >= 1
    BY BoundsAssumption, <1>1 DEF MaxCells
  <1>4. PICK at \in SUBSET (1 .. n) : h \in [at -> Headers(t)]
    BY <1>2 DEF Packets
  <1>5. DOMAIN h = at /\ \A p \in at : h[p] \in Headers(t) /\ IsHeader(h[p])
                                       /\ h[p].length \in Nat \ {0}
    BY <1>4, HeaderIsHeader, PlacesOfPacket
  <1>6. \A p \in 1 .. n : Data("file", p) \in DataCells /\ ~IsHeader(Data("file", p))
    <2>1. ASSUME NEW p \in 1 .. n PROVE Data("file", p) \in DataCells
      BY <1>3 DEF Data, DataCells
    <2> QED
      BY <2>1, DataIsNoHeader
  <1>7. \A p \in 1 .. n : f[p] = IF p \in at THEN h[p] ELSE Data("file", p)
    BY <1>2, <1>5 DEF Cells
  <1>8. f \in Seq(Headers(t) \cup DataCells) /\ Len(f) = n
    <2>1. f \in [1 .. n -> Headers(t) \cup DataCells]
      BY <1>2, <1>5, <1>6 DEF Cells
    <2> QED
      BY <1>3, <2>1
  <1>9. \A p \in 1 .. n : /\ IsHeader(f[p]) <=> p \in at
                          /\ p \in at => f[p] = h[p]
    BY <1>5, <1>6, <1>7
  <1>10. 1 \in at
    BY <1>2, <1>5 DEF FillsFile
  <1>11. ASSUME NEW q \in 1 .. n, IsHeader(f[q])
         PROVE  /\ q + f[q].length <= n
                /\ \A i \in 1 .. f[q].length : ~IsHeader(f[q + i])
                /\ q + f[q].length < n => IsHeader(f[q + f[q].length + 1])
    <2>1. q \in at /\ f[q] = h[q] /\ h[q].length \in Nat \ {0}
      BY <1>5, <1>9, <1>11
    <2>2. /\ q + 1 + h[q].length \in at \cup {n + 1}
          /\ at \cap (q + 1 .. q + h[q].length) = {}
      BY <1>2, <1>5, <2>1 DEF FillsFile
    <2>3. q + h[q].length <= n
      BY <1>3, <2>1, <2>2
    <2>4. ASSUME NEW i \in 1 .. h[q].length PROVE ~IsHeader(f[q + i])
      <3>1. q + i \in q + 1 .. q + h[q].length /\ q + i \in 1 .. n
        BY <1>3, <2>1, <2>3
      <3> QED
        BY <1>9, <2>2, <3>1
    <2>5. ASSUME q + h[q].length < n PROVE IsHeader(f[q + h[q].length + 1])
      <3>1. q + h[q].length + 1 = q + 1 + h[q].length /\ q + 1 + h[q].length # n + 1
            /\ q + 1 + h[q].length \in 1 .. n
        BY <1>3, <2>1, <2>5
      <3> QED
        BY <1>9, <2>2, <3>1
    <2> QED
      BY <2>1, <2>3, <2>4, <2>5
  <1> QED
    BY <1>3, <1>8, <1>9, <1>10, <1>11 DEF Whole
----------------------------------------------------------------------------
(* What a file means *)

\* A copy with the same packets is made of packets, too, and shows its cells at the
\* same places.
LEMMA SameShapeWhole ==
  ASSUME type \in DOMAIN Shapes, NEW g, Whole(type, g), NEW f, SameShape(f, g)
  PROVE  /\ Whole(type, f)
         /\ \A place : At(type, f, place) = At(type, g, place)
         /\ Covered(type, f) = Covered(type, g)
  <1>1. /\ g \in Seq(Headers(type) \cup DataCells) /\ g # <<>> /\ Len(g) \in Nat
        /\ f \in Seq(Headers(type) \cup DataCells) /\ Len(f) = Len(g)
    BY DEF Whole, SameShape
  <1>2. ASSUME NEW p \in 1 .. Len(g)
        PROVE  /\ IsHeader(f[p]) <=> IsHeader(g[p])
               /\ IsHeader(g[p]) => f[p] = g[p]
    BY DEF SameShape
  <1>3. Whole(type, f)
    <2>1. f # <<>>
      BY <1>1
    <2>2. 1 \in 1 .. Len(g)
      BY <1>1, EmptySeq
    <2>3. IsHeader(f[1])
      BY <1>2, <2>2 DEF Whole
    <2>4. ASSUME NEW q \in 1 .. Len(f), IsHeader(f[q])
          PROVE  /\ q + f[q].length <= Len(f)
                 /\ \A i \in 1 .. f[q].length : ~IsHeader(f[q + i])
                 /\ q + f[q].length < Len(f) => IsHeader(f[q + f[q].length + 1])
      <3>1. IsHeader(g[q]) /\ f[q] = g[q] /\ g[q].length \in Nat \ {0}
        BY <1>1, <1>2, <2>4, CellOfFile
      <3>2. /\ q + g[q].length <= Len(g)
            /\ \A i \in 1 .. g[q].length : ~IsHeader(g[q + i])
            /\ q + g[q].length < Len(g) => IsHeader(g[q + g[q].length + 1])
        BY <1>1, <3>1 DEF Whole
      <3>3. ASSUME NEW i \in 1 .. g[q].length PROVE ~IsHeader(f[q + i])
        <4>1. q + i \in 1 .. Len(g)
          BY <1>1, <3>1, <3>2
        <4> QED
          BY <1>2, <3>2, <4>1
      <3>4. ASSUME q + g[q].length < Len(g) PROVE IsHeader(f[q + g[q].length + 1])
        <4>1. q + g[q].length + 1 \in 1 .. Len(g)
          BY <1>1, <3>1, <3>4
        <4> QED
          BY <1>2, <3>2, <3>4, <4>1
      <3> QED
        BY <1>1, <3>1, <3>2, <3>3, <3>4
    <2> QED
      BY <1>1, <2>1, <2>3, <2>4 DEF Whole
  <1>4. ASSUME NEW place PROVE At(type, f, place) = At(type, g, place)
    <2>1. DOMAIN f = 1 .. Len(g) /\ DOMAIN g = 1 .. Len(g)
      BY <1>1
    <2>2. ASSUME NEW p \in 1 .. Len(g), NEW q \in 1 .. p - 1
          PROVE  (IsHeader(f[q]) /\ p - q <= f[q].length /\ PlaceAt(type, f[q], p - q) = place)
             <=> (IsHeader(g[q]) /\ p - q <= g[q].length /\ PlaceAt(type, g[q], p - q) = place)
      <3>1. q \in 1 .. Len(g)
        BY <1>1
      <3> QED
        BY <1>2, <3>1
    <2> QED
      BY <2>1, <2>2 DEF At
  <1>5. Covered(type, f) = Covered(type, g)
    BY <1>4 DEF Covered
  <1> QED
    BY <1>3, <1>4, <1>5

\* A cell seen at a place is one of a packet, and the place is one of the flash.
LEMMA SeenInPacket ==
  ASSUME NEW t \in DOMAIN Shapes, NEW f, Whole(t, f), NEW place, NEW p \in At(t, f, place)
  PROVE  /\ p \in 1 .. Len(f) /\ ~IsHeader(f[p]) /\ f[p] \in DataCells
         /\ place \in Places /\ (t = LowOnly => place[2] = "L")
         /\ \E q \in 1 .. p - 1 : /\ IsHeader(f[q]) /\ q \in 1 .. Len(f)
                                  /\ p - q \in 1 .. f[q].length
                                  /\ PlaceAt(t, f[q], p - q) = place
  <1>1. f \in Seq(Headers(t) \cup DataCells) /\ Len(f) \in Nat
    BY DEF Whole
  <1>2. p \in 1 .. Len(f)
    BY <1>1 DEF At
  <1>3. PICK q \in 1 .. p - 1 : /\ IsHeader(f[q]) /\ p - q <= f[q].length
                                /\ PlaceAt(t, f[q], p - q) = place
    BY DEF At
  <1>4. q \in 1 .. Len(f)
    BY <1>1, <1>2
  <1>5. f[q] \in Headers(t) /\ f[q].length \in Nat
    BY <1>1, <1>3, <1>4, CellOfFile
  <1>6. p - q \in 1 .. f[q].length
    BY <1>2, <1>3, <1>5
  <1>7. ~IsHeader(f[p])
    <2>1. ~IsHeader(f[q + (p - q)])
      BY <1>3, <1>4, <1>6 DEF Whole
    <2>2. q + (p - q) = p
      BY <1>2
    <2> QED
      BY <2>1, <2>2
  <1>8. place \in Places /\ (t = LowOnly => place[2] = "L")
    BY <1>3, <1>5, <1>6, PlacesOfPacket
  <1> QED
    BY <1>1, <1>2, <1>3, <1>4, <1>6, <1>7, <1>8, CellOfFile

\* From one header to the next: the cells between them are those of the packet.
LEMMA NextPacket ==
  ASSUME NEW t \in DOMAIN Shapes, NEW f, Whole(t, f), NEW c \in 1 .. Len(f), IsHeader(f[c]),
         NEW next, next = c + 1 + f[c].length
  PROVE  /\ AtHeader(f, next) /\ next \in Nat /\ c < next
         /\ f[c] \in Headers(t) /\ f[c].length \in Nat \ {0} /\ c + f[c].length <= Len(f)
         /\ \A i \in 1 .. f[c].length : /\ c + i \in 1 .. Len(f) /\ f[c + i] \in DataCells
                                        /\ c + i \in At(t, f, PlaceAt(t, f[c], i))
         /\ \A place : \A p \in At(t, f, place) :
              p < next => \/ p < c
                          \/ p - c \in 1 .. f[c].length /\ PlaceAt(t, f[c], p - c) = place
  <1>1. f \in Seq(Headers(t) \cup DataCells) /\ Len(f) \in Nat
    BY DEF Whole
  <1>2. f[c] \in Headers(t) /\ f[c].length \in Nat \ {0}
    BY <1>1, CellOfFile
  <1>3. /\ c + f[c].length <= Len(f)
        /\ \A i \in 1 .. f[c].length : ~IsHeader(f[c + i])
        /\ c + f[c].length < Len(f) => IsHeader(f[c + f[c].length + 1])
    BY DEF Whole
  <1>4. next \in Nat /\ c < next /\ AtHeader(f, next)
    <2>1. next = c + f[c].length + 1 /\ next \in Nat /\ c < next
      BY <1>2
    <2>2. next <= Len(f) + 1
      BY <1>1, <1>2, <1>3, <2>1
    <2>3. ASSUME next <= Len(f) PROVE IsHeader(f[next])
      <3>1. c + f[c].length < Len(f)
        BY <1>1, <1>2, <2>1, <2>3
      <3> QED
        BY <1>3, <2>1, <3>1
    <2> QED
      BY <2>1, <2>2, <2>3 DEF AtHeader
  <1>5. ASSUME NEW i \in 1 .. f[c].length
        PROVE  /\ c + i \in 1 .. Len(f) /\ f[c + i] \in DataCells
               /\ c + i \in At(t, f, PlaceAt(t, f[c], i))
    <2>1. c + i \in 1 .. Len(f) /\ c \in 1 .. (c + i) - 1 /\ (c + i) - c = i
      BY <1>1, <1>2, <1>3
    <2>2. f[c + i] \in DataCells
      BY <1>1, <1>3, <2>1, CellOfFile
    <2>3. c + i \in DOMAIN f
      BY <1>1, <2>1
    <2>4. (c + i) - c <= f[c].length /\ PlaceAt(t, f[c], (c + i) - c) = PlaceAt(t, f[c], i)
      BY <1>2, <2>1
    <2>5. c + i \in At(t, f, PlaceAt(t, f[c], i))
      BY <2>1, <2>3, <2>4 DEF At
    <2> QED
      BY <2>1, <2>2, <2>5
  <1>6. ASSUME NEW place, NEW p \in At(t, f, place), p < next, ~(p < c)
        PROVE  p - c \in 1 .. f[c].length /\ PlaceAt(t, f[c], p - c) = place
    <2>1. p \in 1 .. Len(f) /\ ~IsHeader(f[p])
      BY SeenInPacket
    <2>2. PICK q \in 1 .. p - 1 : /\ IsHeader(f[q]) /\ q \in 1 .. Len(f)
                                  /\ p - q \in 1 .. f[q].length
                                  /\ PlaceAt(t, f[q], p - q) = place
      BY SeenInPacket
    <2>3. p # c
      BY <2>1
    <2>4. CASE q < c
      <3>1. f[q].length \in Nat
        BY <1>1, <2>2, CellOfFile
      <3>2. c - q \in 1 .. f[q].length
        BY <1>1, <1>6, <2>1, <2>2, <2>4, <3>1
      <3>3. ~IsHeader(f[q + (c - q)])
        BY <2>2, <3>2 DEF Whole
      <3>4. q + (c - q) = c
        BY <2>2
      <3> QED
        BY <3>3, <3>4
    <2>5. CASE q > c
      <3>1. q - c \in 1 .. f[c].length
        BY <1>2, <1>6, <2>1, <2>2, <2>5
      <3>2. ~IsHeader(f[c + (q - c)])
        BY <1>3, <3>1
      <3>3. c + (q - c) = q
        BY <2>2
      <3> QED
        BY <2>2, <3>2, <3>3
    <2>6. CASE q = c
      BY <2>2, <2>6
    <2>7. q < c \/ q > c \/ q = c
      BY <2>2
    <2> QED
      BY <2>4, <2>5, <2>6, <2>7
  <1> QED
    BY <1>2, <1>3, <1>4, <1>5, <1>6

\* What is seen at a place is the last cell of the file that is there.
LEMMA ImageIsLast ==
  ASSUME NEW t \in DOMAIN Shapes, NEW f, Whole(t, f), NEW place, NEW m,
         IsLast(m, At(t, f, place))
  PROVE  place \in Covered(t, f) /\ Image(t, f)[place] = f[m]
  <1>1. m \in At(t, f, place) /\ \A p \in At(t, f, place) : p <= m
    BY DEF IsLast
  <1>2. place \in Places
    BY <1>1, SeenInPacket
  <1>3. place \in Covered(t, f)
    BY <1>1, <1>2 DEF Covered
  <1> DEFINE c == CHOOSE p \in At(t, f, place) : \A q \in At(t, f, place) : q <= p
  <1>4. c \in At(t, f, place) /\ \A q \in At(t, f, place) : q <= c
    BY <1>1
  <1>5. m \in Int /\ c \in Int
    <2>1. m \in 1 .. Len(f) /\ c \in 1 .. Len(f)
      <3> HIDE DEF c
      <3> QED
        BY <1>1, <1>4, SeenInPacket
    <2> QED
      BY <2>1
  <1>6. Image(t, f)[place] = f[c]
    BY <1>3 DEF Image
  <1> HIDE DEF c
  <1>7. c = m
    BY <1>1, <1>4, <1>5
  <1> QED
    BY <1>3, <1>6, <1>7
----------------------------------------------------------------------------
(* Reading a packet *)

\* the places of a packet get its cells, and no other place is written
CellsInFlash(h) ==
  /\ flash' \in [Places -> DataCells]
  /\ \A i \in 1 .. h.length : flash'[PlaceAt(type, h, i)] = file[crt + i]
  /\ \A place \in Places :
       (\A i \in 1 .. h.length : PlaceAt(type, h, i) # place) => flash'[place] = flash[place]

\* and their ROMs are served
PacketInFlash(h) ==
  /\ CellsInFlash(h)
  /\ crt' = crt + 1 + h.length
  /\ romLH' \subseteq Chips
  /\ \A i \in 1 .. h.length : PlaceAt(type, h, i)[2] \in romLH'
  /\ type # LowOnly => romLH \subseteq romLH'
  /\ type = LowOnly => romLH' = {"L"}

\* n cells from a position on are contents
CellsAreData(from, n) ==
  \A i \in 0 .. n - 1 : from + i \in DOMAIN file /\ file[from + i] \in DataCells

\* a chip has n cells of the file from a position on, at its halves from first on
ChipHas(new, old, bank, chip, first, from, n) ==
  /\ new \in [Places -> DataCells]
  /\ \A place \in Places :
       LET written == place[1] = bank /\ place[2] = chip /\ place[3] \in first .. first + n - 1
       IN  /\ written => new[place] = file[from + (place[3] - first)]
           /\ ~written => new[place] = old[place]

\* The cells of a chip, at the halves from first on, and the rest.
LEMMA IntoChipIs ==
  ASSUME NEW fl \in [Places -> DataCells], NEW bank, NEW chip,
         NEW first \in 1 .. 2, NEW from \in Nat, NEW n \in Nat, n <= 3 - first,
         CellsAreData(from, n)
  PROVE  ChipHas(IntoChip(fl, bank, chip, first, from, n), fl, bank, chip, first, from, n)
  <1>1. ASSUME NEW p \in Places, p[3] \in first .. first + n - 1
        PROVE  /\ CellAt(file, from + p[3] - first) = file[from + (p[3] - first)]
               /\ CellAt(file, from + p[3] - first) \in DataCells
    <2>1. p[3] - first \in 0 .. n - 1 /\ from + (p[3] - first) = from + p[3] - first
      BY <1>1
    <2>2. from + (p[3] - first) \in DOMAIN file /\ file[from + (p[3] - first)] \in DataCells
      BY <2>1 DEF CellsAreData
    <2> QED
      BY <2>1, <2>2 DEF CellAt
  <1>2. IntoChip(fl, bank, chip, first, from, n) \in [Places -> DataCells]
    BY <1>1 DEF IntoChip
  <1>3. ASSUME NEW place \in Places
        PROVE  IntoChip(fl, bank, chip, first, from, n)[place] =
                 IF place[1] = bank /\ place[2] = chip /\ place[3] \in first .. first + n - 1
                 THEN CellAt(file, from + place[3] - first) ELSE fl[place]
    BY DEF IntoChip
  <1> QED
    BY <1>1, <1>2, <1>3 DEF ChipHas

\* the file around the packet that is read
AtPacket(h) ==
  /\ type \in DOMAIN Shapes /\ flash \in [Places -> DataCells] /\ romLH \subseteq Chips
  /\ file \in Seq(Headers(type) \cup DataCells) /\ crt \in Nat
  /\ h \in Headers(type)
  /\ \A i \in 1 .. h.length : crt + i \in 1 .. Len(file) /\ file[crt + i] \in DataCells

\* n cells of it go to a chip.
LEMMA ChipFromPacket ==
  ASSUME NEW h, AtPacket(h), NEW fl \in [Places -> DataCells], NEW bank, NEW chip,
         NEW first \in 1 .. 2, NEW k \in Nat, NEW n \in Nat, n <= 3 - first, k + n <= h.length
  PROVE  ChipHas(IntoChip(fl, bank, chip, first, crt + 1 + k, n),
                 fl, bank, chip, first, crt + 1 + k, n)
  <1> DEFINE from == crt + 1 + k
  <1>1. /\ crt \in Nat /\ file \in Seq(Headers(type) \cup DataCells)
        /\ \A i \in 1 .. h.length : crt + i \in 1 .. Len(file) /\ file[crt + i] \in DataCells
        /\ h.length \in Nat
    BY PlacesOfPacket DEF AtPacket
  <1>2. ASSUME NEW i \in 0 .. n - 1 PROVE from + i \in DOMAIN file /\ file[from + i] \in DataCells
    <2>1. i + 1 + k \in 1 .. h.length /\ from + i = crt + (i + 1 + k)
      BY <1>1
    <2>2. DOMAIN file = 1 .. Len(file)
      BY <1>1
    <2> QED
      BY <1>1, <2>1, <2>2
  <1>3. CellsAreData(from, n) /\ from \in Nat
    BY <1>1, <1>2 DEF CellsAreData
  <1> HIDE DEF from
  <1>4. ChipHas(IntoChip(fl, bank, chip, first, from, n), fl, bank, chip, first, from, n)
    BY <1>3, IntoChipIs
  <1> QED
    BY <1>4 DEF from

\* A packet of which all cells go to one chip.
LEMMA OneChip ==
  ASSUME NEW h, AtPacket(h), NEW chip, NEW first \in 1 .. 2, h.length <= 3 - first,
         \A i \in 1 .. h.length : PlaceAt(type, h, i) = <<h.bank, chip, first + i - 1>>,
         ChipHas(flash', flash, h.bank, chip, first, crt + 1 + 0, h.length)
  PROVE  CellsInFlash(h)
  <1>1. /\ crt \in Nat /\ h.length \in Nat
        /\ \A i \in 1 .. h.length : PlaceAt(type, h, i) \in Places
    BY PlacesOfPacket DEF AtPacket
  <1>2. flash' \in [Places -> DataCells]
    BY DEF ChipHas
  <1>3. ASSUME NEW i \in 1 .. h.length PROVE flash'[PlaceAt(type, h, i)] = file[crt + i]
    <2> DEFINE place == PlaceAt(type, h, i)
    <2>1. place \in Places /\ place[1] = h.bank /\ place[2] = chip /\ place[3] = first + i - 1
      BY <1>1
    <2> HIDE DEF place
    <2>2. place[3] \in first .. first + h.length - 1
          /\ crt + 1 + 0 + (place[3] - first) = crt + i
      BY <1>1, <2>1
    <2>3. flash'[place] = file[crt + 1 + 0 + (place[3] - first)]
      BY <2>1, <2>2 DEF ChipHas
    <2> QED
      BY <2>2, <2>3 DEF place
  <1>4. ASSUME NEW place \in Places, \A i \in 1 .. h.length : PlaceAt(type, h, i) # place
        PROVE  flash'[place] = flash[place]
    <2>1. ASSUME place[1] = h.bank, place[2] = chip, place[3] \in first .. first + h.length - 1
          PROVE  FALSE
      <3>1. place[3] - first + 1 \in 1 .. h.length /\ first + (place[3] - first + 1) - 1 = place[3]
        BY <1>1, <2>1
      <3>2. PlaceAt(type, h, place[3] - first + 1) = <<h.bank, chip, place[3]>>
        BY <3>1
      <3>3. place = <<place[1], place[2], place[3]>>
        BY DEF Places
      <3> QED
        BY <1>4, <2>1, <3>1, <3>2, <3>3
    <2> QED
      BY <2>1 DEF ChipHas
  <1> QED
    BY <1>2, <1>3, <1>4 DEF CellsInFlash

\* Where a packet at $8000 goes: the first 8 kB to the low bank, the rest to the high.
LEMMA ReadLowKeeps ==
  ASSUME NEW h, AtPacket(h), type # LowOnly, h.adr = 8, ReadLow(h)
  PROVE  PacketInFlash(h)
  <1> DEFINE low == Lower(2, h.length)
             high == IF h.length > 2 THEN Lower(2, h.length - 2) ELSE 0
             mid == IntoChip(flash, h.bank, "L", 1, crt + 1, low)
             fl == IntoChip(mid, h.bank, "H", 1, crt + 1 + low, high)
  <1>1. /\ type \in DOMAIN Shapes /\ flash \in [Places -> DataCells] /\ romLH \subseteq Chips
        /\ file \in Seq(Headers(type) \cup DataCells) /\ crt \in Nat
        /\ h \in Headers(type)
        /\ \A i \in 1 .. h.length : crt + i \in 1 .. Len(file) /\ file[crt + i] \in DataCells
        /\ DOMAIN file = 1 .. Len(file)
    BY DEF AtPacket
  <1>2. /\ h.length \in {1, 2, 4} /\ h.bank \in Banks
        /\ \/ h.length = 1 /\ low = 1 /\ high = 0
           \/ h.length = 2 /\ low = 2 /\ high = 0
           \/ h.length = 4 /\ low = 2 /\ high = 2
    <2>1. h.length \in {1, 2, 4} /\ h.bank \in Banks
      BY <1>1, HeaderExpected, HeaderIsHeader DEF Expected
    <2> QED
      BY <2>1 DEF Lower
  <1>3. /\ flash' = fl
        /\ romLH' = romLH \union {"L"} \union (IF h.length > 2 THEN {"H"} ELSE {})
        /\ crt' = crt + 1 + low + high
    BY DEF ReadLow
  <1> HIDE DEF low, high, mid, fl
  <1>4. ChipHas(mid, flash, h.bank, "L", 1, crt + 1 + 0, low)
    <2>1. crt + 1 + 0 = crt + 1
      BY <1>1
    <2>2. low \in Nat /\ low <= 3 - 1 /\ 0 + low <= h.length /\ 1 \in 1 .. 2
      BY <1>2
    <2>3. ChipHas(IntoChip(flash, h.bank, "L", 1, crt + 1 + 0, low),
                  flash, h.bank, "L", 1, crt + 1 + 0, low)
      BY <1>1, <2>2, ChipFromPacket
    <2> QED
      BY <2>1, <2>3 DEF mid
  <1>5. ChipHas(flash', mid, h.bank, "H", 1, crt + 1 + low, high)
    <2>1. mid \in [Places -> DataCells]
      BY <1>4 DEF ChipHas
    <2>2. high \in Nat /\ high <= 3 - 1 /\ low \in Nat /\ low + high <= h.length /\ 1 \in 1 .. 2
      BY <1>2
    <2>3. ChipHas(IntoChip(mid, h.bank, "H", 1, crt + 1 + low, high),
                  mid, h.bank, "H", 1, crt + 1 + low, high)
      BY <2>1, <2>2, ChipFromPacket
    <2> QED
      BY <1>3, <2>3 DEF fl
  <1>6. ASSUME NEW i \in 1 .. h.length
        PROVE  /\ PlaceAt(type, h, i) \in Places /\ PlaceAt(type, h, i)[1] = h.bank
               /\ i \in {1, 2} => PlaceAt(type, h, i)[2] = "L" /\ PlaceAt(type, h, i)[3] = i
               /\ i \in {3, 4} => PlaceAt(type, h, i)[2] = "H" /\ PlaceAt(type, h, i)[3] = i - 2
    <2>1. i \in {1, 2, 3, 4}
      BY <1>2
    <2>2. 8 % 2 = 0 /\ 9 % 2 = 1 /\ 10 % 2 = 0 /\ 11 % 2 = 1
      OBVIOUS
    <2>3. PlaceAt(type, h, i) \in Places
      BY <1>1, PlacesOfPacket
    <2> QED
      BY <2>1, <2>2, <2>3 DEF PlaceAt, LowOnly
  <1>7. ASSUME NEW i \in 1 .. h.length PROVE flash'[PlaceAt(type, h, i)] = file[crt + i]
    <2> DEFINE place == PlaceAt(type, h, i)
    <2>1. /\ place \in Places /\ place[1] = h.bank
          /\ i \in {1, 2} => place[2] = "L" /\ place[3] = i
          /\ i \in {3, 4} => place[2] = "H" /\ place[3] = i - 2
      BY <1>6
    <2> HIDE DEF place
    <2>2. CASE i \in {1, 2}
      <3>1. place[3] \in 1 .. 1 + low - 1 /\ crt + 1 + 0 + (place[3] - 1) = crt + i
        BY <1>1, <1>2, <2>1, <2>2
      <3>2. mid[place] = file[crt + 1 + 0 + (place[3] - 1)]
        BY <1>4, <2>1, <2>2, <3>1 DEF ChipHas
      <3>3. flash'[place] = mid[place]
        BY <1>5, <2>1, <2>2 DEF ChipHas
      <3> QED
        BY <3>1, <3>2, <3>3 DEF place
    <2>3. CASE i \in {3, 4}
      <3>1. place[3] \in 1 .. 1 + high - 1 /\ crt + 1 + low + (place[3] - 1) = crt + i
        BY <1>1, <1>2, <2>1, <2>3
      <3>2. flash'[place] = file[crt + 1 + low + (place[3] - 1)]
        BY <1>5, <2>1, <2>3, <3>1 DEF ChipHas
      <3> QED
        BY <3>1, <3>2 DEF place
    <2>4. i \in {1, 2, 3, 4}
      BY <1>2
    <2> QED
      BY <2>2, <2>3, <2>4
  <1>8. ASSUME NEW place \in Places, \A i \in 1 .. h.length : PlaceAt(type, h, i) # place
        PROVE  flash'[place] = flash[place]
    <2>1. place = <<place[1], place[2], place[3]>>
      BY DEF Places
    <2>2. \A i \in 1 .. h.length : PlaceAt(type, h, i) =
            <<PlaceAt(type, h, i)[1], PlaceAt(type, h, i)[2], PlaceAt(type, h, i)[3]>>
      BY <1>6 DEF Places
    <2>3. ~(place[1] = h.bank /\ place[2] = "L" /\ place[3] \in 1 .. 1 + low - 1)
      <3>1. ASSUME place[1] = h.bank, place[2] = "L", place[3] \in 1 .. 1 + low - 1
            PROVE  FALSE
        <4>1. place[3] \in 1 .. h.length /\ place[3] \in {1, 2}
          BY <1>2, <3>1
        <4>2. PlaceAt(type, h, place[3]) = <<h.bank, "L", place[3]>>
          BY <1>6, <2>2, <4>1
        <4> QED
          BY <1>8, <2>1, <3>1, <4>1, <4>2
      <3> QED
        BY <3>1
    <2>4. ~(place[1] = h.bank /\ place[2] = "H" /\ place[3] \in 1 .. 1 + high - 1)
      <3>1. ASSUME place[1] = h.bank, place[2] = "H", place[3] \in 1 .. 1 + high - 1
            PROVE  FALSE
        <4>1. place[3] + 2 \in 1 .. h.length /\ place[3] + 2 \in {3, 4} /\ place[3] + 2 - 2 = place[3]
          BY <1>2, <3>1
        <4> DEFINE i == place[3] + 2
        <4>2. PlaceAt(type, h, i) = <<h.bank, "H", i - 2>>
          <5> HIDE DEF i
          <5>1. i \in 1 .. h.length /\ i \in {3, 4}
            BY <4>1 DEF i
          <5>2. /\ PlaceAt(type, h, i)[1] = h.bank /\ PlaceAt(type, h, i)[2] = "H"
                /\ PlaceAt(type, h, i)[3] = i - 2
            BY <1>6, <5>1
          <5>3. PlaceAt(type, h, i) =
                  <<PlaceAt(type, h, i)[1], PlaceAt(type, h, i)[2], PlaceAt(type, h, i)[3]>>
            BY <2>2, <5>1
          <5> QED
            BY <5>2, <5>3
        <4> QED
          BY <1>8, <2>1, <3>1, <4>1, <4>2
      <3> QED
        BY <3>1
    <2> QED
      BY <1>4, <1>5, <2>3, <2>4 DEF ChipHas
  <1>9. CellsInFlash(h)
    BY <1>5, <1>7, <1>8 DEF CellsInFlash, ChipHas
  <1>10. crt' = crt + 1 + h.length
    BY <1>1, <1>2, <1>3
  <1>11. /\ romLH' \subseteq Chips /\ romLH \subseteq romLH'
         /\ \A i \in 1 .. h.length : PlaceAt(type, h, i)[2] \in romLH'
    <2>1. \A i \in 1 .. h.length : i \in {1, 2} \/ (i \in {3, 4} /\ h.length > 2)
      BY <1>2
    <2> QED
      BY <1>1, <1>2, <1>3, <1>6, <2>1 DEF Chips
  <1> QED
    BY <1>9, <1>10, <1>11 DEF PacketInFlash

\* Where a packet at any other address goes.
LEMMA ReadHighKeeps ==
  ASSUME NEW h, AtPacket(h), type # LowOnly, h.adr # 8, ReadHigh(h)
  PROVE  PacketInFlash(h)
  <1> DEFINE ofs == IF h.adr \in {15, 11} THEN 1 ELSE 0
  <1>1. /\ type \in DOMAIN Shapes /\ flash \in [Places -> DataCells] /\ romLH \subseteq Chips
        /\ crt \in Nat /\ h \in Headers(type)
    BY DEF AtPacket
  <1>2. Expected(type, h) /\ h.bank \in Banks
    BY <1>1, HeaderExpected, HeaderIsHeader
  <1>3. /\ h.adr \in {10, 11, 14, 15} /\ h.length \in {1, 2}
        /\ h.length = 2 - ofs /\ ofs \in {0, 1}
        /\ h.adr \in {10, 14} <=> ofs = 0
    BY <1>2 DEF Expected
  <1>4. /\ flash' = IntoChip(flash, h.bank, "H", 1 + ofs, crt + 1, 2 - ofs)
        /\ romLH' = romLH \union {"H"} /\ crt' = crt + 1 + 2 - ofs
    BY DEF ReadHigh
  <1> HIDE DEF ofs
  <1>5. ASSUME NEW i \in 1 .. h.length
        PROVE  PlaceAt(type, h, i) = <<h.bank, "H", (1 + ofs) + i - 1>>
    <2>1. /\ 10 % 2 = 0 /\ 11 % 2 = 1 /\ 14 % 2 = 0 /\ 15 % 2 = 1
      OBVIOUS
    <2>2. h.adr + i - 1 \in {10, 11, 14, 15} /\ i \in {1, 2}
      BY <1>3
    <2>3. 1 + ((h.adr + i - 1) % 2) = (1 + ofs) + i - 1
      BY <1>3, <2>1, <2>2
    <2> QED
      BY <2>2, <2>3 DEF PlaceAt
  <1>6. CellsInFlash(h)
    <2>1. 1 + ofs \in 1 .. 2 /\ 2 - ofs = h.length /\ h.length \in Nat /\ h.length <= 3 - (1 + ofs)
          /\ crt + 1 + 0 = crt + 1 /\ 0 + h.length <= h.length
      BY <1>1, <1>3
    <2>2. ChipHas(IntoChip(flash, h.bank, "H", 1 + ofs, crt + 1 + 0, h.length),
                  flash, h.bank, "H", 1 + ofs, crt + 1 + 0, h.length)
      BY <1>1, <2>1, ChipFromPacket
    <2>3. ChipHas(flash', flash, h.bank, "H", 1 + ofs, crt + 1 + 0, h.length)
      BY <1>4, <2>1, <2>2
    <2> QED
      BY <1>5, <2>1, <2>3, OneChip
  <1>7. crt' = crt + 1 + h.length
    BY <1>1, <1>3, <1>4
  <1> QED
    BY <1>1, <1>4, <1>5, <1>6, <1>7 DEF PacketInFlash, Chips

\* Where a packet goes that only uses the low bank.
LEMMA ReadLowOnlyKeeps ==
  ASSUME NEW h, AtPacket(h), type = LowOnly, ReadLowOnly(h)
  PROVE  PacketInFlash(h)
  <1>1. /\ type \in DOMAIN Shapes /\ flash \in [Places -> DataCells]
        /\ crt \in Nat /\ h \in Headers(type)
    BY DEF AtPacket
  <1>2. Expected(type, h)
    BY <1>1, HeaderExpected
  <1>3. h.adr \in {8, 10, 14} /\ h.length \in {1, 2} /\ Lower(2, h.length) = h.length
    BY <1>2 DEF Expected, Lower, EasyFlash, LowOnly, Plain
  <1>4. /\ flash' = IntoChip(flash, h.bank, "L", 1, crt + 1, h.length)
        /\ romLH' = {"L"} /\ crt' = crt + 1 + h.length
    BY <1>3 DEF ReadLowOnly
  <1>5. ASSUME NEW i \in 1 .. h.length
        PROVE  PlaceAt(type, h, i) = <<h.bank, "L", 1 + i - 1>>
    <2>1. /\ 8 % 2 = 0 /\ 9 % 2 = 1 /\ 10 % 2 = 0 /\ 11 % 2 = 1 /\ 14 % 2 = 0 /\ 15 % 2 = 1
      OBVIOUS
    <2>2. 1 + ((h.adr + i - 1) % 2) = 1 + i - 1
      BY <1>3, <2>1
    <2> QED
      BY <2>2 DEF PlaceAt
  <1>6. CellsInFlash(h)
    <2>1. 1 \in 1 .. 2 /\ h.length \in Nat /\ h.length <= 3 - 1
          /\ crt + 1 + 0 = crt + 1 /\ 0 + h.length <= h.length
      BY <1>1, <1>3
    <2>2. ChipHas(IntoChip(flash, h.bank, "L", 1, crt + 1 + 0, h.length),
                  flash, h.bank, "L", 1, crt + 1 + 0, h.length)
      BY <1>1, <2>1, ChipFromPacket
    <2>3. ChipHas(flash', flash, h.bank, "L", 1, crt + 1 + 0, h.length)
      BY <1>4, <2>1, <2>2
    <2> QED
      BY <1>5, <2>1, <2>3, OneChip
  <1> QED
    BY <1>4, <1>5, <1>6 DEF PacketInFlash, Chips
----------------------------------------------------------------------------
(* The actions that read *)

\* What is expected of the flash are the places that the file covers.
LEMMA DomainsAre ==
  ASSUME CardOK
  PROVE  DOMAIN saved = Covered(type, layout) /\ DOMAIN image = Covered(type, layout)
  BY DEF CardOK

\* The file on the card is made of packets.
LEMMA FileIsMadeOfPackets ==
  ASSUME TypeOK, CardOK, file # <<>>
  PROVE  /\ type \in DOMAIN Shapes /\ Whole(type, file)
         /\ \A place : At(type, file, place) = At(type, layout, place)
         /\ Covered(type, file) = Covered(type, layout)
         /\ file \in Seq(Headers(type) \cup DataCells)
  <1>1. type \in DOMAIN Shapes /\ Whole(type, layout) /\ SameShape(file, layout)
    BY DEF TypeOK, CardOK
  <1>2. /\ Whole(type, file)
        /\ \A place : At(type, file, place) = At(type, layout, place)
        /\ Covered(type, file) = Covered(type, layout)
    BY <1>1, SameShapeWhole
  <1> QED
    BY <1>1, <1>2 DEF SameShape

\* Reading begins with the first packet.
LEMMA LaunchKeeps ==
  ASSUME IInv, Launch
  PROVE  IInv'
  <1>1. /\ TypeOK /\ CardOK /\ FlashOK /\ SavedOK /\ pc = "menu"
        /\ UNCHANGED <<type, file, eapi, flash, modified, image, saved, layout, writes, losses>>
        /\ crt' = 1 /\ nBanks' = 0
        /\ pc' = IF file = <<>> THEN "halted" ELSE "parse"
    BY DEF IInv, Launch, cardVars, historyVars, Goto, Halt
  <1>2. romLH' \subseteq Chips
    BY <1>1, BoundsAssumption DEF Launch, TypeOK, Chips, EasyFlash, LowOnly, Plain
  <1>3. TypeOK'
    BY <1>1, <1>2, BoundsAssumption DEF TypeOK
  <1>4. CardOK' /\ FlashOK'
    BY <1>1 DEF CardOK, FlashOK, SameShape
  <1>5. SavedOK'
    BY <1>1 DEF SavedOK, Replaced
  <1>6. ParseOK'
    <2>1. SUFFICES ASSUME file # <<>> PROVE ParseOK'
      BY <1>1 DEF ParseOK
    <2>2. Whole(type, file) /\ type \in DOMAIN Shapes
      BY <1>1, <2>1, FileIsMadeOfPackets
    <2>3. file \in Seq(Headers(type) \cup DataCells) /\ IsHeader(file[1]) /\ Len(file) \in Nat
      BY <2>2 DEF Whole
    <2>4. AtHeader(file, 1)
      BY <2>3 DEF AtHeader
    <2>5. ASSUME NEW place PROVE {p \in At(type, file, place) : p < 1} = {}
      BY <2>2, SeenInPacket
    <2>6. 0 < NumBanks
      BY BoundsAssumption
    <2> QED
      BY <1>1, <2>4, <2>5, <2>6 DEF ParseOK, Seen
  <1>7. RunOK' /\ PatchOK'
    BY <1>1 DEF RunOK, PatchOK
  <1> QED
    BY <1>3, <1>4, <1>5, <1>6, <1>7 DEF IInv

\* The packet that is read gets into the flash, over what was seen there before.
LEMMA ReadChipKeeps ==
  ASSUME IInv, ReadChip
  PROVE  IInv'
  <1> DEFINE h == file[crt]
             next == crt + 1 + h.length
  <1>1. /\ TypeOK /\ CardOK /\ FlashOK /\ SavedOK /\ pc = "parse"
        /\ AtHeader(file, crt) /\ nBanks < NumBanks
        /\ \A place \in Places : Seen(place) # {} => InFlash(place)
        /\ UNCHANGED <<type, file, eapi, rawCRT, modified, image, saved, layout, writes, losses>>
        /\ crt <= Len(file)
    BY DEF IInv, ParseOK, ReadChip, ReadUnchanged, cardVars, historyVars
  <1>2. /\ type \in DOMAIN Shapes /\ Whole(type, file)
        /\ file \in Seq(Headers(type) \cup DataCells)
    BY <1>1, FileIsMadeOfPackets DEF CardOK
  <1>3. crt \in 1 .. Len(file) /\ IsHeader(h) /\ romLH \subseteq Chips /\ nBanks \in Nat /\ NumBanks \in Nat
    BY <1>1, <1>2, BoundsAssumption DEF AtHeader, TypeOK
  <1>4. /\ AtHeader(file, next) /\ next \in Nat /\ crt < next
        /\ h \in Headers(type) /\ h.length \in Nat \ {0}
        /\ \A i \in 1 .. h.length : /\ crt + i \in 1 .. Len(file) /\ file[crt + i] \in DataCells
                                    /\ crt + i \in At(type, file, PlaceAt(type, h, i))
        /\ \A place : \A p \in At(type, file, place) :
             p < next => \/ p < crt
                         \/ p - crt \in 1 .. h.length /\ PlaceAt(type, h, p - crt) = place
    BY <1>2, <1>3, NextPacket
  <1> HIDE DEF h, next
  <1>5. AtPacket(h)
    BY <1>1, <1>2, <1>3, <1>4 DEF AtPacket, FlashOK
  <1>6. PacketInFlash(h) /\ nBanks' = Higher(nBanks, h.bank) /\ pc' = "parse"
    <2>1. /\ \/ type = LowOnly /\ ReadLowOnly(h)
             \/ type # LowOnly /\ h.adr = 8 /\ ReadLow(h)
             \/ type # LowOnly /\ h.adr # 8 /\ ReadHigh(h)
          /\ nBanks' = Higher(nBanks, h.bank) /\ pc' = pc
      BY <1>3 DEF ReadChip, h
    <2> QED
      BY <1>1, <1>5, <2>1, ReadLowOnlyKeeps, ReadLowKeeps, ReadHighKeeps
  <1>7. h.bank \in Banks /\ nBanks' \in 0 .. NumBanks - 1 /\ nBanks <= nBanks' /\ h.bank <= nBanks'
    <2>1. h.bank \in 0 .. NumBanks - 1
      BY <1>2, <1>4, HeaderIsHeader DEF Banks
    <2> QED
      BY <1>1, <1>3, <1>6, <2>1 DEF Higher, Banks
  <1>8. crt' = next /\ romLH' \subseteq Chips /\ flash' \in [Places -> DataCells]
    BY <1>6 DEF PacketInFlash, CellsInFlash, next
  <1>9. TypeOK'
    <2>1. crt' \in Nat \ {0}
      BY <1>3, <1>4, <1>8
    <2>2. nBanks' \in 0 .. NumBanks
      BY <1>3, <1>7
    <2> QED
      BY <1>1, <1>6, <1>8, <2>1, <2>2 DEF TypeOK
  <1>10. CardOK' /\ FlashOK' /\ SavedOK'
    BY <1>1, <1>6, <1>8 DEF CardOK, FlashOK, SavedOK, SameShape, Replaced
  <1>11. ParseOK'
    <2>0. /\ AtHeader(file, crt)' /\ nBanks' < NumBanks
          /\ \A place \in Places : Seen(place)' = {p \in At(type, file, place) : p < next}
      <3>1. AtHeader(file, crt)'
        BY <1>1, <1>4, <1>8 DEF AtHeader
      <3>2. nBanks' < NumBanks
        BY <1>3, <1>7
      <3>3. \A place \in Places : Seen(place)' = {p \in At(type, file, place) : p < next}
        BY <1>1, <1>8 DEF Seen
      <3> QED
        BY <3>1, <3>2, <3>3
    <2>1. SUFFICES ASSUME NEW place \in Places, NEW s \in Seen(place)'
                   PROVE  InFlash(place)'
      BY <2>0 DEF ParseOK
    <2>2. Seen(place)' = {p \in At(type, file, place) : p < next}
      BY <2>0
    <2>3. \A p \in At(type, file, place) : p \in 1 .. Len(file)
      BY <1>2, SeenInPacket
    <2>4. CASE \E i \in 1 .. h.length : PlaceAt(type, h, i) = place
      <3>1. PICK i \in 1 .. h.length : PlaceAt(type, h, i) = place
        BY <2>4
      <3>2. /\ crt + i \in At(type, file, place) /\ crt + i < next
            /\ flash'[place] = file[crt + i] /\ place[2] \in romLH'
        <4>1. crt + i < next
          BY <1>3, <1>4 DEF next
        <4> QED
          BY <1>4, <1>6, <3>1, <4>1 DEF PacketInFlash, CellsInFlash
      <3>3. place[1] <= nBanks'
        <4>1. place[1] = h.bank
          BY <3>1 DEF PlaceAt
        <4> QED
          BY <1>7, <4>1
      <3>4. ASSUME NEW p \in At(type, file, place), p < next PROVE p <= crt + i
        <4>1. CASE p < crt
          BY <1>3, <2>3, <4>1
        <4>2. CASE p - crt \in 1 .. h.length /\ PlaceAt(type, h, p - crt) = place
          <5>1. p - crt = i
            BY <1>2, <1>4, <3>1, <4>2, PlacesOfPacket
          <5> QED
            BY <1>3, <2>3, <5>1
        <4> QED
          BY <1>4, <3>4, <4>1, <4>2
      <3>5. IsLast(crt + i, Seen(place)')
        BY <2>2, <3>2, <3>4 DEF IsLast
      <3>6. crt + i \in Nat
        BY <1>3
      <3> QED
        BY <1>1, <3>2, <3>3, <3>5, <3>6 DEF InFlash, IsLast
    <2>5. CASE \A i \in 1 .. h.length : PlaceAt(type, h, i) # place
      <3>1. ASSUME NEW p \in At(type, file, place), p < next PROVE p < crt
        BY <1>4, <2>5, <3>1
      <3>2. Seen(place)' = Seen(place)
        <4>1. ASSUME NEW p \in At(type, file, place), p < crt PROVE p < next
          BY <1>3, <1>4, <2>3, <4>1
        <4> QED
          BY <2>2, <3>1, <4>1 DEF Seen
      <3>3. InFlash(place)
        <4>1. s \in Seen(place)
          BY <2>2, <3>2
        <4> QED
          BY <1>1, <4>1
      <3>4. flash'[place] = flash[place]
        BY <1>6, <2>5 DEF PacketInFlash, CellsInFlash
      <3>5. place[2] \in romLH'
        <4>0. s \in At(type, file, place)
          BY <2>2
        <4>1. type = LowOnly => place[2] = "L"
          BY <1>2, <4>0, SeenInPacket
        <4> QED
          BY <1>6, <3>3, <4>1 DEF PacketInFlash, InFlash
      <3>6. place[1] <= nBanks'
        <4>1. place[1] \in Nat /\ place[1] <= nBanks
          BY <3>3, BoundsAssumption DEF InFlash, Places, Banks
        <4> QED
          BY <1>3, <1>7, <4>1
      <3> QED
        BY <1>1, <3>2, <3>3, <3>4, <3>5, <3>6 DEF InFlash, IsLast
    <2> QED
      BY <2>4, <2>5
  <1>12. RunOK' /\ PatchOK'
    BY <1>6 DEF RunOK, PatchOK
  <1> QED
    BY <1>9, <1>10, <1>11, <1>12 DEF IInv
\* At the end of the file all of it has been read, and the flash is what it means.
LEMMA AllIsRead ==
  ASSUME IInv, pc = "parse", crt > Len(file), NEW place \in DOMAIN image
  PROVE  /\ flash[place] = saved[place]
         /\ place[1] \in Nat /\ place[1] <= nBanks /\ place[2] \in romLH
         /\ \E m \in Nat : IsLast(m, At(type, layout, place))
  <1>1. /\ TypeOK /\ CardOK /\ file # <<>> /\ crt \in Nat
        /\ \A p \in Places : Seen(p) # {} => InFlash(p)
        /\ saved = Image(type, file)
    BY DEF IInv, CardOK, ParseOK, TypeOK
  <1>2. /\ type \in DOMAIN Shapes /\ Whole(type, file)
        /\ At(type, file, place) = At(type, layout, place)
        /\ DOMAIN image = Covered(type, file) /\ Len(file) \in Nat
    BY <1>1, FileIsMadeOfPackets, DomainsAre
  <1>3. place \in Places /\ At(type, file, place) # {}
    BY <1>2 DEF Covered
  <1>4. ASSUME NEW p \in At(type, file, place) PROVE p < crt
    BY <1>1, <1>2, SeenInPacket
  <1>5. Seen(place) = At(type, file, place)
    BY <1>4 DEF Seen
  <1>6. InFlash(place)
    BY <1>1, <1>3, <1>5
  <1>7. PICK m \in Nat : IsLast(m, At(type, file, place)) /\ flash[place] = file[m]
    BY <1>5, <1>6 DEF InFlash
  <1>8. flash[place] = saved[place]
    BY <1>1, <1>2, <1>7, ImageIsLast
  <1>9. place[1] \in Nat
    BY <1>3, BoundsAssumption DEF Places, Banks
  <1> QED
    BY <1>2, <1>6, <1>7, <1>8, <1>9 DEF InFlash

\* A cartridge that was read runs, with the EAPI of the Sidekick if it has one.
LEMMA ReadEndKeeps ==
  ASSUME IInv, ReadEnd
  PROVE  IInv'
  <1>1. /\ TypeOK /\ CardOK /\ FlashOK /\ SavedOK /\ ParseOK
        /\ pc = "parse" /\ pc' = "run" /\ crt > Len(file) /\ file # <<>>
        /\ nBanks' = nBanks + 1 /\ nBanks < NumBanks /\ nBanks \in Nat /\ NumBanks \in Nat
        /\ modified = FALSE /\ modified' = FALSE
        /\ UNCHANGED <<crt, romLH, type, file, eapi, rawCRT, saved, layout, writes, losses>>
    BY BoundsAssumption DEF IInv, ReadEnd, Goto, cardVars, ParseOK, CardOK, SavedOK, TypeOK
  <1>2. /\ image = [place \in Covered(type, layout) |-> image[place]]
        /\ flash \in [Places -> DataCells] /\ EapiCode \in DataCells
    BY <1>1 DEF CardOK, FlashOK, DataCells, EapiCode, Data
  <1>3. \A place \in DOMAIN image :
          /\ flash[place] = saved[place]
          /\ place[1] \in Nat /\ place[1] <= nBanks /\ place[2] \in romLH
          /\ \E m \in Nat : IsLast(m, At(type, layout, place))
    BY <1>1, AllIsRead
  <1>4. \A place \in DOMAIN image : image[place] = saved[place] \/ Replaced(place)
    BY <1>1 DEF SavedOK
  <1>5. /\ image' = [place \in Covered(type, layout) |-> image'[place]]
        /\ flash' \in [Places -> DataCells]
        /\ \A place \in DOMAIN image : /\ flash'[place] = image'[place]
                                       /\ image'[place] = saved[place] \/ Replaced(place)'
    <2>1. CASE HasEapi
      <3>1. /\ flash' = [flash EXCEPT ![EapiPlace] = EapiCode]
            /\ image' = [place \in DOMAIN image |->
                           IF place = EapiPlace THEN EapiCode ELSE image[place]]
        BY <2>1 DEF ReadEnd
      <3>2. DOMAIN image = Covered(type, layout) /\ DOMAIN image \subseteq Places
        BY <1>2 DEF Covered
      <3>3. image' = [place \in Covered(type, layout) |-> image'[place]]
        BY <3>1, <3>2
      <3>4. ASSUME NEW place \in DOMAIN image
            PROVE  /\ flash'[place] = image'[place]
                   /\ image'[place] = saved[place] \/ Replaced(place)'
        <4>1. CASE place = EapiPlace
          <5>1. flash'[place] = EapiCode /\ image'[place] = EapiCode
            BY <1>2, <3>1, <3>2, <4>1
          <5>2. CASE flash[EapiPlace] = EapiCode
            BY <1>3, <4>1, <5>1, <5>2
          <5>3. CASE flash[EapiPlace].origin = "file" /\ eapi
            <6>1. saved[place].origin = "file" /\ type # LowOnly
              BY <1>3, <2>1, <4>1, <5>3 DEF HasEapi
            <6> QED
              BY <1>1, <4>1, <5>1, <5>3, <6>1 DEF Replaced
          <5> QED
            BY <2>1, <5>2, <5>3 DEF HasEapi
        <4>2. CASE place # EapiPlace
          <5>1. flash'[place] = flash[place] /\ image'[place] = image[place]
            BY <1>2, <3>1, <3>2, <4>2
          <5> QED
            BY <1>3, <1>4, <4>2, <5>1 DEF Replaced
        <4> QED
          BY <4>1, <4>2
      <3> QED
        BY <1>2, <3>1, <3>3, <3>4
    <2>2. CASE ~HasEapi
      <3>1. flash' = flash /\ image' = image
        BY <2>2 DEF ReadEnd
      <3>2. ASSUME NEW place \in DOMAIN image PROVE image[place] = saved[place]
        <4>1. ASSUME Replaced(place) PROVE FALSE
          BY <1>3, <2>2, <4>1 DEF Replaced, HasEapi
        <4> QED
          BY <1>4, <4>1
      <3> QED
        BY <1>2, <1>3, <3>1, <3>2
    <2> QED
      BY <2>1, <2>2
  <1>6. DOMAIN image' = DOMAIN image
    BY <1>2, <1>5
  <1>7. TypeOK'
    <2>1. nBanks' \in 0 .. NumBanks
      BY <1>1
    <2>2. DOMAIN flash' = Places
      BY <1>5
    <2> QED
      BY <1>1, <1>6, <2>1, <2>2 DEF TypeOK
  <1>8. CardOK' /\ FlashOK'
    BY <1>1, <1>5 DEF CardOK, FlashOK, SameShape
  <1>9. SavedOK'
    BY <1>1, <1>5, <1>6 DEF SavedOK
  <1>10. RunOK'
    <2>1. ASSUME NEW place \in DOMAIN image PROVE place[1] < nBanks'
      <3>1. place[1] \in Nat /\ place[1] <= nBanks
        BY <1>3
      <3> QED
        BY <1>1, <3>1
    <2> QED
      BY <1>1, <1>3, <1>5, <1>6, <2>1 DEF RunOK
  <1>11. ParseOK' /\ PatchOK'
    BY <1>1 DEF ParseOK, PatchOK
  <1> QED
    BY <1>7, <1>8, <1>9, <1>10, <1>11 DEF IInv

\* What a program writes is in the flash.
LEMMA WriteKeeps ==
  ASSUME IInv, Write
  PROVE  IInv'
  <1>1. /\ TypeOK /\ CardOK /\ FlashOK /\ RunOK /\ pc = "run" /\ type = EasyFlash
        /\ UNCHANGED <<pc, crt, romLH, nBanks, type, file, eapi, rawCRT, saved, layout, losses>>
        /\ modified' = TRUE /\ writes' = writes + 1 /\ writes < MaxWrites
    BY DEF IInv, Write, cardVars
  <1>2. PICK at \in Places :
          /\ flash' = [flash EXCEPT ![at] = Data("C64", writes')]
          /\ image' = [p \in DOMAIN image |-> IF p = at THEN Data("C64", writes') ELSE image[p]]
    BY DEF Write
  <1>3. writes' \in 0 .. MaxWrites /\ writes' \in Nat
    BY <1>1, BoundsAssumption DEF TypeOK
  <1>4. Data("C64", writes') \in DataCells
    BY <1>3 DEF Data, DataCells
  <1>5. FlashOK' /\ flash \in [Places -> DataCells]
    BY <1>1, <1>2, <1>4 DEF FlashOK
  <1>6. /\ DOMAIN image = Covered(type, layout) /\ DOMAIN image \subseteq Places
        /\ image' = [place \in Covered(type, layout) |-> image'[place]]
        /\ DOMAIN image' = DOMAIN image
    <2>1. DOMAIN image = Covered(type, layout)
      BY <1>1, DomainsAre
    <2> QED
      BY <1>2, <2>1 DEF Covered
  <1>7. TypeOK'
    BY <1>1, <1>3, <1>5, <1>6 DEF TypeOK, FlashOK
  <1>8. CardOK'
    BY <1>1, <1>6 DEF CardOK, SameShape
  <1>9. SavedOK'
    BY <1>1 DEF SavedOK
  <1>10. RunOK'
    <2>1. ASSUME NEW place \in DOMAIN image PROVE flash'[place] = image'[place]
      BY <1>1, <1>2, <1>5, <1>6 DEF RunOK
    <2> QED
      BY <1>1, <1>6, <2>1 DEF RunOK
  <1>11. ParseOK' /\ PatchOK'
    BY <1>1 DEF ParseOK, PatchOK
  <1> QED
    BY <1>5, <1>7, <1>8, <1>9, <1>10, <1>11 DEF IInv
----------------------------------------------------------------------------
(* The actions that save *)

\* Patching begins with the first packet of the file as it is on the card.
LEMMA BeginSaveKeeps ==
  ASSUME IInv, BeginSave
  PROVE  IInv'
  <1>1. /\ TypeOK /\ CardOK /\ FlashOK /\ SavedOK /\ RunOK /\ pc = "run" /\ modified
        /\ pc' = "patch" /\ rawCRT' = file /\ crt' = 1
        /\ UNCHANGED <<type, file, eapi, flash, romLH, nBanks, modified, image, saved, layout,
                       writes, losses>>
    BY DEF IInv, BeginSave, Goto, cardVars, cartVars, historyVars
  <1>2. TypeOK'
    BY <1>1 DEF TypeOK
  <1>3. CardOK' /\ FlashOK'
    BY <1>1 DEF CardOK, FlashOK, SameShape
  <1>4. SavedOK'
    BY <1>1 DEF SavedOK
  <1>5. ParseOK' /\ RunOK'
    BY <1>1 DEF ParseOK, RunOK
  <1>6. PatchOK'
    <2>1. /\ type = EasyFlash /\ SameShape(file, layout) /\ Whole(type, layout)
          /\ type \in DOMAIN Shapes
      BY <1>1 DEF SavedOK, CardOK, TypeOK
    <2>2. AtHeader(layout, 1)
      <3>1. Len(layout) \in Nat /\ IsHeader(layout[1])
        BY <2>1 DEF Whole
      <3> QED
        BY <3>1 DEF AtHeader
    <2>3. \A place : \A p \in At(type, layout, place) : ~(p < 1)
      BY <2>1, SeenInPacket
    <2>4. SameShape(rawCRT, layout)' /\ AtHeader(layout, crt)'
      BY <1>1, <2>1, <2>2 DEF SameShape, AtHeader
    <2> QED
      BY <1>1, <2>1, <2>3, <2>4 DEF PatchOK
  <1> QED
    BY <1>2, <1>3, <1>4, <1>5, <1>6 DEF IInv

\* new has two cells at a position and the one after it, and else those of raw
HasTwo(new, S, raw, from, a, b) ==
  /\ new \in Seq(S) /\ Len(new) = Len(raw)
  /\ \A p \in 1 .. Len(raw) :
       /\ p = from => new[p] = a
       /\ p = from + 1 => new[p] = b
       /\ p # from /\ p # from + 1 => new[p] = raw[p]

\* Two cells replace others.
LEMMA PatchedIs ==
  ASSUME NEW S, NEW raw \in Seq(S), NEW from \in Nat, NEW a \in S, NEW b \in S
  PROVE  HasTwo(Patched(raw, from, <<a, b>>), S, raw, from, a, b)
  <1> DEFINE new == Patched(raw, from, <<a, b>>)
             cells == <<a, b>>
  <1>1. DOMAIN raw = 1 .. Len(raw) /\ Len(raw) \in Nat /\ DOMAIN cells = {1, 2}
        /\ cells[1] = a /\ cells[2] = b
    OBVIOUS
  <1>2. new = [p \in 1 .. Len(raw) |-> IF p - from + 1 \in DOMAIN cells THEN cells[p - from + 1]
                                                                        ELSE raw[p]]
    BY <1>1 DEF Patched
  <1> HIDE DEF new, cells
  <1>3. ASSUME NEW p \in 1 .. Len(raw)
        PROVE  /\ p = from => new[p] = a
               /\ p = from + 1 => new[p] = b
               /\ p # from /\ p # from + 1 => new[p] = raw[p]
               /\ new[p] \in S
    <2>1. CASE p = from
      <3>1. p - from + 1 = 1 /\ p # from + 1
        BY <2>1
      <3> QED
        BY <1>1, <1>2, <2>1, <3>1
    <2>2. CASE p = from + 1
      <3>1. p - from + 1 = 2 /\ p # from
        BY <2>2
      <3> QED
        BY <1>1, <1>2, <2>2, <3>1
    <2>3. CASE p # from /\ p # from + 1
      <3>1. p - from + 1 # 1 /\ p - from + 1 # 2
        BY <2>3
      <3>2. raw[p] \in S
        OBVIOUS
      <3> QED
        BY <1>1, <1>2, <2>3, <3>1, <3>2
    <2> QED
      BY <2>1, <2>2, <2>3
  <1>4. new \in [1 .. Len(raw) -> S]
    BY <1>2, <1>3
  <1>5. new \in Seq(S) /\ Len(new) = Len(raw)
    BY <1>1, <1>4, LenProperties
  <1> QED
    BY <1>3, <1>5 DEF HasTwo, new, cells

\* the copy around the packet that is patched
PatchingAt(h) ==
  /\ type = EasyFlash /\ type \in DOMAIN Shapes /\ flash \in [Places -> DataCells]
  /\ rawCRT \in Seq(Headers(type) \cup DataCells) /\ crt \in Nat
  /\ h \in Headers(type) /\ crt + h.length <= Len(rawCRT)

\* the cells of a packet are those of the flash, and no other is changed
PacketPatched(h) ==
  /\ rawCRT' \in Seq(Headers(type) \cup DataCells) /\ Len(rawCRT') = Len(rawCRT)
  /\ crt' = crt + 1 + h.length
  /\ \A i \in 1 .. h.length : rawCRT'[crt + i] = flash[PlaceAt(type, h, i)]
  /\ \A p \in 1 .. Len(rawCRT) :
       p <= crt \/ p > crt + h.length => rawCRT'[p] = rawCRT[p]

\* The packet at $8000 of an EasyFlash gets the low chip, and the high one if it is
\* of 16 kB.
LEMMA PatchLowKeeps ==
  ASSUME NEW h, PatchingAt(h), h.adr = 8, PatchLow(h)
  PROVE  PacketPatched(h)
  <1> DEFINE S == Headers(type) \cup DataCells
             low == Patched(rawCRT, crt + 1, InChip(h.bank, "L"))
  <1>1. /\ type = EasyFlash /\ type \in DOMAIN Shapes /\ flash \in [Places -> DataCells]
        /\ rawCRT \in Seq(S) /\ crt \in Nat /\ Len(rawCRT) \in Nat
        /\ h \in Headers(type) /\ crt + h.length <= Len(rawCRT)
    BY DEF PatchingAt
  <1>2. h.length \in {2, 4} /\ h.bank \in Banks
    BY <1>1, HeaderExpected, HeaderIsHeader DEF Expected, EasyFlash, LowOnly, Plain
  <1>3. \A c \in Chips : \A k \in {1, 2} : flash[<<h.bank, c, k>>] \in S
    BY <1>1, <1>2 DEF Places
  <1>4. /\ PlaceAt(type, h, 1) = <<h.bank, "L", 1>> /\ PlaceAt(type, h, 2) = <<h.bank, "L", 2>>
        /\ PlaceAt(type, h, 3) = <<h.bank, "H", 1>> /\ PlaceAt(type, h, 4) = <<h.bank, "H", 2>>
    <2>1. 8 % 2 = 0 /\ 9 % 2 = 1 /\ 10 % 2 = 0 /\ 11 % 2 = 1
      OBVIOUS
    <2> QED
      BY <1>1, <2>1 DEF PlaceAt, EasyFlash, LowOnly
  <1> HIDE DEF S
  <1>5. /\ low \in Seq(S) /\ Len(low) = Len(rawCRT)
        /\ \A p \in 1 .. Len(rawCRT) :
             /\ p = crt + 1 => low[p] = flash[<<h.bank, "L", 1>>]
             /\ p = crt + 2 => low[p] = flash[<<h.bank, "L", 2>>]
             /\ p # crt + 1 /\ p # crt + 2 => low[p] = rawCRT[p]
    <2>1. flash[<<h.bank, "L", 1>>] \in S /\ flash[<<h.bank, "L", 2>>] \in S
      BY <1>3 DEF Chips
    <2>2. crt + 1 \in Nat /\ crt + 1 + 1 = crt + 2
      BY <1>1
    <2>3. HasTwo(Patched(rawCRT, crt + 1, <<flash[<<h.bank, "L", 1>>], flash[<<h.bank, "L", 2>>]>>),
                 S, rawCRT, crt + 1, flash[<<h.bank, "L", 1>>], flash[<<h.bank, "L", 2>>])
      BY <1>1, <2>1, <2>2, PatchedIs
    <2>4. HasTwo(low, S, rawCRT, crt + 1, flash[<<h.bank, "L", 1>>], flash[<<h.bank, "L", 2>>])
      BY <2>3 DEF low, InChip
    <2> HIDE DEF low
    <2> QED
      BY <2>2, <2>4 DEF HasTwo
  <1> HIDE DEF low
  <1>6. CASE h.length = 2
    <2>1. rawCRT' = low /\ crt' = crt + 1 + h.length
      BY <1>1, <1>6 DEF PatchLow, low
    <2>2. ASSUME NEW i \in 1 .. h.length PROVE rawCRT'[crt + i] = flash[PlaceAt(type, h, i)]
      <3>1. i \in {1, 2} /\ crt + i \in 1 .. Len(rawCRT)
        BY <1>1, <1>6
      <3> QED
        BY <1>4, <1>5, <2>1, <3>1
    <2>3. ASSUME NEW p \in 1 .. Len(rawCRT), p <= crt \/ p > crt + h.length
          PROVE  rawCRT'[p] = rawCRT[p]
      <3>1. p # crt + 1 /\ p # crt + 2
        BY <1>1, <1>6, <2>3
      <3> QED
        BY <1>5, <2>1, <3>1
    <2> QED
      BY <1>5, <2>1, <2>2, <2>3 DEF PacketPatched, S
  <1>7. CASE h.length = 4
    <2>1. /\ rawCRT' = Patched(low, crt + 3, InChip(h.bank, "H"))
          /\ crt' = crt + 1 + h.length
      BY <1>1, <1>7 DEF PatchLow, low
    <2>2. /\ rawCRT' \in Seq(S) /\ Len(rawCRT') = Len(rawCRT)
          /\ \A p \in 1 .. Len(rawCRT) :
               /\ p = crt + 3 => rawCRT'[p] = flash[<<h.bank, "H", 1>>]
               /\ p = crt + 4 => rawCRT'[p] = flash[<<h.bank, "H", 2>>]
               /\ p # crt + 3 /\ p # crt + 4 => rawCRT'[p] = low[p]
      <3>1. flash[<<h.bank, "H", 1>>] \in S /\ flash[<<h.bank, "H", 2>>] \in S
        BY <1>3 DEF Chips
      <3>2. crt + 3 \in Nat /\ crt + 3 + 1 = crt + 4
        BY <1>1
      <3>3. HasTwo(Patched(low, crt + 3, <<flash[<<h.bank, "H", 1>>], flash[<<h.bank, "H", 2>>]>>),
                   S, low, crt + 3, flash[<<h.bank, "H", 1>>], flash[<<h.bank, "H", 2>>])
        BY <1>5, <3>1, <3>2, PatchedIs
      <3>4. HasTwo(rawCRT', S, low, crt + 3, flash[<<h.bank, "H", 1>>], flash[<<h.bank, "H", 2>>])
        BY <2>1, <3>3 DEF InChip
      <3> QED
        BY <1>5, <3>2, <3>4 DEF HasTwo
    <2>3. ASSUME NEW i \in 1 .. h.length PROVE rawCRT'[crt + i] = flash[PlaceAt(type, h, i)]
      <3>1. i \in {1, 2, 3, 4} /\ crt + i \in 1 .. Len(rawCRT)
        BY <1>1, <1>7
      <3>2. CASE i \in {1, 2}
        <4>1. crt + i # crt + 3 /\ crt + i # crt + 4
          BY <1>1, <3>2
        <4> QED
          BY <1>4, <1>5, <2>2, <3>1, <3>2, <4>1
      <3>3. CASE i \in {3, 4}
        BY <1>4, <2>2, <3>1, <3>3
      <3> QED
        BY <3>1, <3>2, <3>3
    <2>4. ASSUME NEW p \in 1 .. Len(rawCRT), p <= crt \/ p > crt + h.length
          PROVE  rawCRT'[p] = rawCRT[p]
      <3>1. p # crt + 1 /\ p # crt + 2 /\ p # crt + 3 /\ p # crt + 4
        BY <1>1, <1>7, <2>4
      <3> QED
        BY <1>5, <2>2, <3>1
    <2> QED
      BY <2>1, <2>2, <2>3, <2>4 DEF PacketPatched, S
  <1> QED
    BY <1>2, <1>6, <1>7

\* The packet at another address gets the high chip.
LEMMA PatchHighKeeps ==
  ASSUME NEW h, PatchingAt(h), h.adr # 8, PatchHigh(h)
  PROVE  PacketPatched(h)
  <1> DEFINE S == Headers(type) \cup DataCells
  <1>1. /\ type = EasyFlash /\ type \in DOMAIN Shapes /\ flash \in [Places -> DataCells]
        /\ rawCRT \in Seq(S) /\ crt \in Nat /\ Len(rawCRT) \in Nat
        /\ h \in Headers(type) /\ crt + h.length <= Len(rawCRT)
    BY DEF PatchingAt
  <1>2. h.length = 2 /\ h.adr \in {10, 14} /\ h.bank \in Banks
    BY <1>1, HeaderExpected, HeaderIsHeader DEF Expected, EasyFlash, LowOnly, Plain
  <1>3. PlaceAt(type, h, 1) = <<h.bank, "H", 1>> /\ PlaceAt(type, h, 2) = <<h.bank, "H", 2>>
    <2>1. 10 % 2 = 0 /\ 11 % 2 = 1 /\ 14 % 2 = 0 /\ 15 % 2 = 1
      OBVIOUS
    <2> QED
      BY <1>1, <1>2, <2>1 DEF PlaceAt, EasyFlash, LowOnly
  <1>4. rawCRT' = Patched(rawCRT, crt + 1, InChip(h.bank, "H")) /\ crt' = crt + 3
    BY DEF PatchHigh
  <1>5. flash[<<h.bank, "H", 1>>] \in S /\ flash[<<h.bank, "H", 2>>] \in S
    BY <1>1, <1>2 DEF Places, Chips
  <1> HIDE DEF S
  <1>6. /\ rawCRT' \in Seq(S) /\ Len(rawCRT') = Len(rawCRT)
        /\ \A p \in 1 .. Len(rawCRT) :
             /\ p = crt + 1 => rawCRT'[p] = flash[<<h.bank, "H", 1>>]
             /\ p = crt + 2 => rawCRT'[p] = flash[<<h.bank, "H", 2>>]
             /\ p # crt + 1 /\ p # crt + 2 => rawCRT'[p] = rawCRT[p]
    <2>1. crt + 1 \in Nat /\ crt + 1 + 1 = crt + 2
      BY <1>1
    <2>2. HasTwo(Patched(rawCRT, crt + 1, <<flash[<<h.bank, "H", 1>>], flash[<<h.bank, "H", 2>>]>>),
                 S, rawCRT, crt + 1, flash[<<h.bank, "H", 1>>], flash[<<h.bank, "H", 2>>])
      BY <1>1, <1>5, <2>1, PatchedIs
    <2>3. HasTwo(rawCRT', S, rawCRT, crt + 1, flash[<<h.bank, "H", 1>>], flash[<<h.bank, "H", 2>>])
      BY <1>4, <2>2 DEF InChip
    <2> QED
      BY <2>1, <2>3 DEF HasTwo
  <1>7. ASSUME NEW i \in 1 .. h.length PROVE rawCRT'[crt + i] = flash[PlaceAt(type, h, i)]
    <2>1. i \in {1, 2} /\ crt + i \in 1 .. Len(rawCRT)
      BY <1>1, <1>2
    <2> QED
      BY <1>3, <1>6, <2>1
  <1>8. ASSUME NEW p \in 1 .. Len(rawCRT), p <= crt \/ p > crt + h.length
        PROVE  rawCRT'[p] = rawCRT[p]
    <2>1. p # crt + 1 /\ p # crt + 2
      BY <1>1, <1>2, <1>8
    <2> QED
      BY <1>6, <2>1
  <1> QED
    BY <1>1, <1>2, <1>4, <1>6, <1>7, <1>8 DEF PacketPatched, S
\* The packet that is patched is what the flash holds, and no header is changed.
LEMMA PatchChipKeeps ==
  ASSUME IInv, PatchChip
  PROVE  IInv'
  <1> DEFINE h == rawCRT[crt]
             next == crt + 1 + h.length
  <1>1. /\ TypeOK /\ CardOK /\ FlashOK /\ SavedOK /\ RunOK /\ pc = "patch"
        /\ type = EasyFlash /\ type \in DOMAIN Shapes
        /\ SameShape(rawCRT, layout) /\ AtHeader(layout, crt) /\ Whole(type, layout)
        /\ \A place \in Places : \A p \in At(type, layout, place) :
             p < crt => rawCRT[p] = flash[place]
        /\ UNCHANGED <<type, file, eapi, flash, romLH, nBanks, modified, image, saved, layout,
                       writes, losses>>
        /\ crt <= Len(rawCRT)
    BY DEF IInv, PatchOK, CardOK, TypeOK, PatchChip, cardVars, cartVars, historyVars
  <1>2. /\ rawCRT \in Seq(Headers(type) \cup DataCells) /\ Len(rawCRT) = Len(layout)
        /\ layout \in Seq(Headers(type) \cup DataCells) /\ Len(layout) \in Nat
        /\ crt \in 1 .. Len(layout) /\ IsHeader(layout[crt]) /\ h = layout[crt] /\ IsHeader(h)
    <2>1. /\ rawCRT \in Seq(Headers(type) \cup DataCells) /\ Len(rawCRT) = Len(layout)
          /\ layout \in Seq(Headers(type) \cup DataCells) /\ Len(layout) \in Nat
      BY <1>1 DEF SameShape, Whole
    <2>2. crt \in 1 .. Len(layout)
      BY <1>1, <2>1 DEF TypeOK
    <2> QED
      BY <1>1, <2>1, <2>2 DEF AtHeader, SameShape
  <1>3. /\ AtHeader(layout, next) /\ next \in Nat /\ crt < next
        /\ h \in Headers(type) /\ h.length \in Nat \ {0} /\ crt + h.length <= Len(layout)
        /\ \A place : \A p \in At(type, layout, place) :
             p < next => \/ p < crt
                         \/ p - crt \in 1 .. h.length /\ PlaceAt(type, h, p - crt) = place
    BY <1>1, <1>2, NextPacket
  <1>4. /\ IF h.adr = 8 THEN PatchLow(h) ELSE PatchHigh(h)
        /\ pc' = "patch"
    BY <1>1, <1>2 DEF PatchChip
  <1> HIDE DEF h, next
  <1>5. PatchingAt(h)
    BY <1>1, <1>2, <1>3 DEF PatchingAt, FlashOK
  <1>6. PacketPatched(h)
    BY <1>4, <1>5, PatchLowKeeps, PatchHighKeeps
  <1>7. /\ rawCRT' \in Seq(Headers(type) \cup DataCells) /\ Len(rawCRT') = Len(layout)
        /\ crt' = next
        /\ \A i \in 1 .. h.length : rawCRT'[crt + i] = flash[PlaceAt(type, h, i)]
        /\ \A p \in 1 .. Len(layout) :
             p <= crt \/ p > crt + h.length => rawCRT'[p] = rawCRT[p]
    BY <1>2, <1>6 DEF PacketPatched, next
  <1>8. TypeOK'
    <2>1. crt' \in Nat \ {0}
      BY <1>2, <1>3, <1>7
    <2> QED
      BY <1>1, <1>4, <2>1 DEF TypeOK
  <1>9. CardOK' /\ FlashOK' /\ SavedOK' /\ ParseOK' /\ RunOK'
    BY <1>1, <1>4 DEF CardOK, FlashOK, SavedOK, ParseOK, RunOK, SameShape, Replaced
  <1>10. SameShape(rawCRT, layout)'
    <2>1. ASSUME NEW p \in 1 .. Len(layout)
          PROVE  /\ IsHeader(rawCRT'[p]) <=> IsHeader(layout[p])
                 /\ IsHeader(layout[p]) => rawCRT'[p] = layout[p]
      <3>1. CASE p <= crt \/ p > crt + h.length
        BY <1>1, <1>7, <3>1 DEF SameShape
      <3>2. CASE ~(p <= crt \/ p > crt + h.length)
        <4>1. p - crt \in 1 .. h.length /\ crt + (p - crt) = p
          BY <1>2, <1>3, <3>2
        <4>2. ~IsHeader(layout[p])
          <5>1. ~IsHeader(layout[crt + (p - crt)])
            BY <1>1, <1>2, <4>1 DEF Whole
          <5> QED
            BY <4>1, <5>1
        <4>3. PlaceAt(type, h, p - crt) \in Places
          BY <1>1, <1>3, <4>1, PlacesOfPacket
        <4>4. rawCRT'[p] \in DataCells
          BY <1>1, <1>7, <4>1, <4>3 DEF FlashOK
        <4> QED
          BY <4>2, <4>4, DataIsNoHeader
      <3> QED
        BY <3>1, <3>2
    <2> QED
      BY <1>1, <1>7, <2>1 DEF SameShape
  <1>11. ASSUME NEW place \in Places, NEW p \in At(type, layout, place), p < next
         PROVE  rawCRT'[p] = flash[place]
    <2>1. p \in 1 .. Len(layout)
      BY <1>1, SeenInPacket
    <2>2. CASE p < crt
      <3>1. p <= crt
        BY <1>2, <2>1, <2>2
      <3> QED
        BY <1>1, <1>7, <2>1, <2>2, <3>1
    <2>3. CASE p - crt \in 1 .. h.length /\ PlaceAt(type, h, p - crt) = place
      <3>1. crt + (p - crt) = p
        BY <1>2, <2>1
      <3>2. rawCRT'[crt + (p - crt)] = flash[PlaceAt(type, h, p - crt)]
        BY <1>7, <2>3
      <3> QED
        BY <2>3, <3>1, <3>2
    <2> QED
      BY <1>3, <1>11, <2>2, <2>3
  <1>12. PatchOK'
    <2>1. AtHeader(layout, crt)'
      BY <1>1, <1>3, <1>7 DEF AtHeader
    <2> QED
      BY <1>1, <1>4, <1>7, <1>10, <1>11, <2>1 DEF PatchOK
  <1> QED
    BY <1>8, <1>9, <1>12 DEF IInv

\* The file is empty, and the copy complete.
LEMMA CreateFileKeeps ==
  ASSUME IInv, CreateFile
  PROVE  IInv'
  <1>1. /\ TypeOK /\ CardOK /\ FlashOK /\ SavedOK /\ RunOK /\ PatchOK
        /\ pc = "patch" /\ pc' = "write" /\ file' = <<>> /\ crt > Len(rawCRT)
        /\ UNCHANGED <<type, eapi, crt, rawCRT, flash, romLH, nBanks, modified, image, saved,
                       layout, writes, losses>>
    BY DEF IInv, CreateFile, Goto, cartVars, historyVars
  <1>2. TypeOK'
    BY <1>1 DEF TypeOK
  <1>3. CardOK' /\ FlashOK'
    BY <1>1 DEF CardOK, FlashOK
  <1>4. SavedOK'
    BY <1>1 DEF SavedOK, Replaced
  <1>5. ParseOK' /\ RunOK'
    BY <1>1 DEF ParseOK, RunOK
  <1>6. PatchOK'
    <2>1. crt > Len(layout)
      BY <1>1 DEF PatchOK, SameShape
    <2> QED
      BY <1>1, <2>1 DEF PatchOK, SameShape, AtHeader
  <1> QED
    BY <1>2, <1>3, <1>4, <1>5, <1>6 DEF IInv

\* What is written is a file of the same packets, and it means what the flash holds.
LEMMA WriteFileKeeps ==
  ASSUME IInv, WriteFile
  PROVE  IInv'
  <1>1. /\ TypeOK /\ CardOK /\ FlashOK /\ SavedOK /\ RunOK /\ PatchOK
        /\ pc = "write" /\ pc' = "run" /\ file' = rawCRT /\ modified' = FALSE /\ saved' = image
        /\ UNCHANGED <<type, eapi, crt, rawCRT, flash, romLH, nBanks, image, layout,
                       writes, losses>>
    BY DEF IInv, WriteFile, Goto, cartVars
  <1>2. /\ type \in DOMAIN Shapes /\ Whole(type, layout) /\ SameShape(rawCRT, layout)
        /\ crt \in Nat /\ crt > Len(layout) /\ Len(layout) \in Nat
        /\ \A place \in Places : \A p \in At(type, layout, place) :
             p < crt => rawCRT[p] = flash[place]
    BY <1>1 DEF TypeOK, CardOK, PatchOK, Whole
  <1>3. /\ Whole(type, rawCRT) /\ Covered(type, rawCRT) = Covered(type, layout)
        /\ \A place : At(type, rawCRT, place) = At(type, layout, place)
    BY <1>2, SameShapeWhole
  <1>4. /\ image = [place \in Covered(type, layout) |-> image[place]]
        /\ DOMAIN image = Covered(type, layout)
    BY <1>1 DEF CardOK
  <1>5. ASSUME NEW place \in Covered(type, layout)
        PROVE  image[place] = Image(type, rawCRT)[place]
    <2>1. flash[place] = image[place] /\ place \in Places
      BY <1>1, <1>4 DEF RunOK, Covered
    <2>2. PICK m \in Nat : IsLast(m, At(type, layout, place))
      BY <1>1, <1>4 DEF RunOK
    <2>3. Image(type, rawCRT)[place] = rawCRT[m]
      BY <1>2, <1>3, <2>2, ImageIsLast
    <2>4. m \in At(type, layout, place)
      BY <2>2 DEF IsLast
    <2>5. m \in 1 .. Len(layout)
      BY <1>2, <2>4, SeenInPacket
    <2>6. m < crt
      BY <1>2, <2>5
    <2> QED
      BY <1>2, <2>1, <2>3, <2>4, <2>6
  <1>6. image = Image(type, rawCRT)
    <2>1. Image(type, rawCRT) = [place \in Covered(type, layout) |-> Image(type, rawCRT)[place]]
      BY <1>3 DEF Image
    <2> QED
      BY <1>4, <1>5, <2>1
  <1>7. rawCRT # <<>>
    BY <1>3 DEF Whole
  <1>8. TypeOK'
    BY <1>1 DEF TypeOK
  <1>9. CardOK' /\ FlashOK'
    BY <1>1, <1>2, <1>6, <1>7 DEF CardOK, FlashOK, SameShape
  <1>10. SavedOK'
    BY <1>1 DEF SavedOK
  <1>11. ParseOK' /\ RunOK' /\ PatchOK'
    BY <1>1 DEF ParseOK, RunOK, PatchOK
  <1> QED
    BY <1>8, <1>9, <1>10, <1>11 DEF IInv
----------------------------------------------------------------------------
(* The other actions, and the theorems *)

\* The menu is entered with nothing left to save.
LEMMA ToMenuKeeps ==
  ASSUME IInv, ToMenu
  PROVE  IInv'
  <1>1. /\ TypeOK /\ CardOK /\ FlashOK /\ SavedOK /\ ~modified /\ pc' = "menu"
        /\ UNCHANGED <<type, file, eapi, crt, rawCRT, flash, romLH, nBanks, modified, image,
                       saved, layout, writes, losses>>
    BY DEF IInv, ToMenu, Goto, cardVars, cartVars, historyVars
  <1>2. TypeOK'
    BY <1>1 DEF TypeOK
  <1>3. CardOK' /\ FlashOK'
    BY <1>1 DEF CardOK, FlashOK, SameShape
  <1>4. SavedOK'
    BY <1>1 DEF SavedOK, Replaced
  <1>5. ParseOK' /\ RunOK' /\ PatchOK'
    BY <1>1 DEF ParseOK, RunOK, PatchOK
  <1> QED
    BY <1>2, <1>3, <1>4, <1>5 DEF IInv

\* What was not saved is lost with the power.
LEMMA PowerLossKeeps ==
  ASSUME IInv, PowerLoss
  PROVE  IInv'
  <1>1. /\ TypeOK /\ CardOK /\ pc' = "menu" /\ flash' = [place \in Places |-> Nothing]
        /\ modified' = FALSE /\ image' = saved /\ losses' = losses + 1 /\ losses < MaxLosses
        /\ UNCHANGED <<type, file, eapi, crt, rawCRT, romLH, nBanks, saved, layout, writes>>
    BY DEF IInv, PowerLoss, Goto, cardVars
  <1>2. losses' \in 0 .. MaxLosses
    BY <1>1, BoundsAssumption DEF TypeOK
  <1>3. TypeOK'
    BY <1>1, <1>2 DEF TypeOK
  <1>4. CardOK'
    BY <1>1 DEF CardOK, SameShape
  <1>5. FlashOK'
    BY <1>1 DEF FlashOK, Nothing, Data, DataCells
  <1>6. SavedOK'
    BY <1>1 DEF SavedOK
  <1>7. ParseOK' /\ RunOK' /\ PatchOK'
    BY <1>1 DEF ParseOK, RunOK, PatchOK
  <1> QED
    BY <1>3, <1>4, <1>5, <1>6, <1>7 DEF IInv

\* The inductive invariant holds at first: any file of packets may be on the card.
THEOREM InitIInv == Init => IInv
  <1> SUFFICES ASSUME Init PROVE IInv
    OBVIOUS
  <1>1. /\ type \in DOMAIN Shapes /\ file \in Files(type) /\ eapi \in BOOLEAN
        /\ pc = "menu" /\ crt = 1 /\ flash = [place \in Places |-> Nothing] /\ romLH = {}
        /\ nBanks = 0 /\ modified = FALSE /\ writes = 0 /\ losses = 0
        /\ image = Image(type, file) /\ saved = image /\ layout = file
    BY DEF Init
  <1>2. Whole(type, file)
    BY <1>1, FilesAreWhole
  <1>3. SameShape(file, layout)
    BY <1>1, <1>2 DEF SameShape, Whole
  <1>4. image = [place \in Covered(type, layout) |-> image[place]]
    BY <1>1 DEF Image
  <1>5. TypeOK
    <2>1. DOMAIN image \subseteq Places
      BY <1>1 DEF Image, Covered
    <2>2. 0 \in 0 .. NumBanks /\ 0 \in 0 .. MaxWrites /\ 0 \in 0 .. MaxLosses
      BY BoundsAssumption
    <2>3. DOMAIN flash = Places /\ DOMAIN saved = DOMAIN image
      BY <1>1
    <2>4. crt \in Nat \ {0} /\ romLH \subseteq Chips
      BY <1>1
    <2>5. modified \in BOOLEAN
      BY <1>1
    <2> QED
      BY <1>1, <2>1, <2>2, <2>3, <2>4, <2>5 DEF TypeOK
  <1>6. CardOK
    BY <1>1, <1>2, <1>3, <1>4 DEF CardOK
  <1>7. FlashOK
    BY <1>1 DEF FlashOK, Nothing, Data, DataCells
  <1>8. SavedOK /\ ParseOK /\ RunOK /\ PatchOK
    BY <1>1 DEF SavedOK, ParseOK, RunOK, PatchOK
  <1> QED
    BY <1>5, <1>6, <1>7, <1>8 DEF IInv

\* It is kept by every step of reading, of the program, of saving, and by a power cut.
THEOREM NextIInv == IInv /\ [Next]_vars => IInv'
  <1> SUFFICES ASSUME IInv, [Next]_vars PROVE IInv'
    OBVIOUS
  <1>1. CASE UNCHANGED vars
    <2>1. UNCHANGED <<type, file, eapi, pc, crt, rawCRT, flash, romLH, nBanks, modified, image,
                      saved, layout, writes, losses>>
      BY <1>1 DEF vars, cardVars, cartVars, historyVars
    <2>2. TypeOK' /\ CardOK' /\ FlashOK' /\ SavedOK'
      BY <2>1 DEF IInv, TypeOK, CardOK, FlashOK, SavedOK, SameShape, Replaced
    <2>3. ParseOK' /\ RunOK' /\ PatchOK'
      BY <2>1 DEF IInv, ParseOK, RunOK, PatchOK, SameShape, AtHeader, Seen, InFlash
    <2> QED
      BY <2>2, <2>3 DEF IInv
  <1>2. CASE Launch
    BY <1>2, LaunchKeeps
  <1>3. CASE ReadChip
    BY <1>3, ReadChipKeeps
  <1>4. CASE ReadEnd
    BY <1>4, ReadEndKeeps
  <1>5. CASE Write
    BY <1>5, WriteKeeps
  <1>6. CASE BeginSave
    BY <1>6, BeginSaveKeeps
  <1>7. CASE PatchChip
    BY <1>7, PatchChipKeeps
  <1>8. CASE CreateFile
    BY <1>8, CreateFileKeeps
  <1>9. CASE WriteFile
    BY <1>9, WriteFileKeeps
  <1>10. CASE ToMenu
    BY <1>10, ToMenuKeeps
  <1>11. CASE PowerLoss
    BY <1>11, PowerLossKeeps
  <1> QED
    BY <1>1, <1>2, <1>3, <1>4, <1>5, <1>6, <1>7, <1>8, <1>9, <1>10, <1>11 DEF Next

\* The flash, the copy and the file agree as far as the passes through them have come
\* (parseCRTInMemory, writeChanges2CRTFile).
THEOREM CartridgeInvariant == Spec => []IInv
  BY InitIInv, NextIInv, PTL DEF Spec

\* The type invariant, for every file.
THEOREM TypeCorrect == Spec => []TypeOK
  <1>1. IInv => TypeOK
    BY DEF IInv
  <1> QED
    BY <1>1, CartridgeInvariant, PTL

\* A cartridge that runs has in its flash what the C64 sees of its file, and what was
\* written since; every bank and chip with contents is served (parseCRTInMemory).
THEOREM FlashHoldsImage == Spec => []FlashIsImage
  <1>1. IInv => FlashIsImage
    BY DEF IInv, RunOK, FlashIsImage
  <1> QED
    BY <1>1, CartridgeInvariant, PTL

\* Saving keeps the packets of the file and makes it mean what the flash held; neither
\* pass fails on a file that could be read (writeChanges2CRTFile).
THEOREM FileStaysWhole == Spec => []FileIsWhole
  <1>1. IInv => FileIsWhole
    <2> SUFFICES ASSUME IInv PROVE FileIsWhole
      OBVIOUS
    <2>1. PacketsKept
      <3>1. SUFFICES ASSUME file # <<>>
                     PROVE  /\ Len(file) = Len(layout)
                            /\ \A p \in DOMAIN layout : IsHeader(layout[p]) => file[p] = layout[p]
                            /\ Image(type, file) = saved
        BY DEF PacketsKept
      <3>2. /\ SameShape(file, layout) /\ saved = Image(type, file)
            /\ layout \in Seq(Headers(type) \cup DataCells)
        BY <3>1 DEF IInv, CardOK, Whole
      <3>3. DOMAIN layout = 1 .. Len(layout)
        BY <3>2
      <3> QED
        BY <3>2, <3>3 DEF SameShape
    <2>2. HaltsOnlyWithoutFile
      BY DEF IInv, CardOK, HaltsOnlyWithoutFile
    <2> QED
      BY <2>1, <2>2 DEF FileIsWhole
  <1> QED
    BY <1>1, CartridgeInvariant, PTL
===============================================================================
