------------------------------ MODULE GMOD2Proofs ------------------------------
(***************************************************************************)
(* The EEPROM of the GMOD2, for every size of it, every set of calls, and  *)
(* any number of calls, resets and power cuts.                             *)
(*                                                                         *)
(* The argument: between two accesses of a call the chip has got exactly   *)
(* the bits that the program has sent, its command is what these bits say, *)
(* and what it has stored is what the program wants; at the last bit both  *)
(* change alike.  When it is being read, the number of bits it has given   *)
(* out says which word it is at, and where in it.  A call that is cut      *)
(* leaves bits behind, but the next one selects the chip with the clock    *)
(* low, which clears them, unless the call was cut with the clock high.    *)
(***************************************************************************)
EXTENDS GMOD2, SequenceTheorems, TLAPS

Chips == [cs : Bit, clock : Bit, dataIn : Bit, dataOut : Bit, shift : Seq(Bit),
          outCount : 0 .. WordBits - 1, command : Commands,
          address : Addresses \cup {PastEnd}, enabled : BOOLEAN, mem : Memories]
IsReading(ch) == ch.command \in {"READDUMMY", "READDATA"}

\* A chip that is to give out a word is not past the end.
Proper(ch) == /\ ch \in Chips /\ Len(ch.shift) < 4 + AddressBits + WordBits
              /\ IsReading(ch) => ch.address \in Addresses

\* The types, and what a step of the program says of its call.
BoardTypes == /\ Proper(chip) /\ reg0 \in 0 .. 63 /\ lines \in {"8K", "off"}
              /\ power \in {"on", "reset", "held", "off"}
SavingTypes ==
  /\ mpc \in {"menu", "loop", "lower", "upper", "close"}
  /\ eepromFile \in Memories \cup {NoFile}
  /\ mpc \in {"upper", "close"} => lower \in Memories
  /\ ff \in BOOLEAN /\ (ff => mpc = "menu")
ProgramTypes ==
  /\ call \in Calls \cup {NoCall} /\ step \in {"idle", "get", "poll"} \cup Writing
  /\ clocked \in Nat /\ got \in Seq(Bit) /\ polled \in Seq(Bit)
  /\ (step = "idle" => call = NoCall) /\ (call = NoCall => step = "idle")
  /\ mpc = "menu" => call = NoCall
  /\ step \in {"begin", "select"} => clocked = 0
  /\ step \in {"low", "high"} => clocked < Len(CommandBits(call))
  /\ want \in [mem : Memories, enabled : BOOLEAN] /\ stale \in BOOLEAN

\* The command after the first k bits of a call; after the last one it is under way.
Heard(ch, c, k) ==
  /\ k < 3 => ~IsReading(ch)
  /\ k \in {3, 4} => ch.command = IF Code(c.op) = <<0, 0>> THEN "CMD00" ELSE c.op
  /\ k > 4 => ch.command = c.op

\* While the bits of a call are sent
Sending ==
  step \in {"low", "high"} =>
    /\ chip.cs = 1 /\ chip.shift = SubSeq(CommandBits(call), 1, clocked)
    /\ step = "high" => chip.clock = 0
    /\ Heard(chip, call, clocked)
    /\ call.op = "WEN" /\ clocked > 4 => want.enabled

\* The bits to be read, and how many of them the chip was asked for.
Expected == want.mem[call.address] \o want.mem[Following(call.address)]
Asked == IF step = "get" THEN Len(got) + 1 ELSE Len(got)

\* The chip after it was asked for k bits, at the next one.
At(ch, a, k) ==
  /\ k = 0 => ch.command = "READDUMMY" /\ ch.address = a
  /\ k > 0 => ch.command = "READDATA"
  /\ k \in 1 .. WordBits - 1 => ch.address = a /\ ch.outCount = k
  /\ k \in WordBits .. 2 * WordBits - 1 => ch.address = Following(a) /\ ch.outCount = k - WordBits

\* While bits are read
Receiving ==
  step \in {"readLow", "readHigh", "get"} =>
    /\ call.op = "READ" /\ chip.cs = 1 /\ chip.shift = <<>> /\ Len(got) < 2 * WordBits
    /\ step = "readHigh" => chip.clock = 0
    /\ At(chip, call.address, Asked)
    /\ step = "get" => chip.dataOut = Expected[Asked]

\* When the call has been sent, and while the program waits for its end
Ending ==
  step \in {"end", "deselect"} =>
    /\ chip.cs = 1 /\ chip.shift = <<>>
    /\ step = "deselect" => chip.clock = 0
    /\ Polls /\ call.op # "ERASE" => chip.command = call.op
Polling ==
  /\ step \in {"reselect", "poll", "last"} => chip.clock = 0
  /\ step = "reselect" => chip.cs = 0
  /\ step = "poll" => chip.cs = 1
  /\ step = "reselect" /\ call.op # "ERASE" => chip.command = "ISBUSY"
  /\ step = "poll" /\ call.op # "ERASE" =>
       \/ polled = <<>> /\ chip.command = "ISBUSY"
       \/ polled = <<0>> /\ chip.command = "ISREADY"
  /\ step = "last" /\ call.op # "ERASE" => polled = <<0, 1>>

\* Before the first bit, and what is left of the call before
Quiet ==
  /\ step \in {"idle", "begin", "select"} /\ chip.clock = 1 => chip.shift = <<>>
  /\ step = "select" => chip.cs = 0 /\ ~IsReading(chip)
  /\ step \in {"idle", "begin", "select", "low", "high"} => got = <<>>
  /\ step \notin {"poll", "last"} => polled = <<>>

InTouch == AsWanted /\ Sending /\ Receiving /\ Ending /\ Polling /\ Quiet /\ ReadsBack
CallTypes == BoardTypes /\ SavingTypes /\ ProgramTypes
CallInv == CallTypes /\ (stale \/ InTouch)

\* There are at least three bits of an address and two of a word.
LEMMA SizesAre ==
  /\ AddressBits \in Nat /\ AddressBits > 2 /\ WordBits \in Nat /\ WordBits > 1
  BY SizeAssumption

\* A call has an operation, an address and a word.
LEMMA CallIs ==
  ASSUME NEW c \in Calls
  PROVE  /\ c.op \in {"WRITE", "READ", "ERASE", "WEN", "WDS", "ERAL", "WRAL"}
         /\ c.address \in Addresses /\ c.word \in Word
  BY CallsAssumption

\* Words are sequences of bits,
LEMMA WordIsSeq ==
  ASSUME NEW w \in Word
  PROVE  w \in Seq(Bit) /\ Len(w) = WordBits
<1>1. w \in [1 .. WordBits -> Bit] /\ WordBits \in Nat
  BY SizesAre DEF Word
<1> QED
  BY <1>1

\* and so are addresses.
LEMMA AddressIsSeq ==
  ASSUME NEW a \in Addresses
  PROVE  a \in Seq(Bit) /\ Len(a) = AddressBits
<1>1. a \in [1 .. AddressBits -> Bit] /\ AddressBits \in Nat
  BY SizesAre DEF Addresses
<1> QED
  BY <1>1

\* Two bits are a sequence of them.
LEMMA PairIsSeq ==
  ASSUME NEW a \in Bit, NEW b \in Bit
  PROVE  <<a, b>> \in Seq(Bit) /\ Len(<<a, b>>) = 2
  OBVIOUS

\* Opcodes, and what stands for one in the address, have two bits.
LEMMA CodesArePairs ==
  ASSUME NEW op
  PROVE  /\ Code(op) \in Seq(Bit) /\ Len(Code(op)) = 2
         /\ Subcode(op) \in Seq(Bit) /\ Len(Subcode(op)) = 2
<1>1. 0 \in Bit /\ 1 \in Bit
  BY DEF Bit
<1>2. Code(op) \in {<<0, 1>>, <<1, 0>>, <<1, 1>>, <<0, 0>>}
  BY DEF Code
<1>3. Subcode(op) \in {<<0, 1>>, <<1, 0>>, <<1, 1>>, <<0, 0>>}
  BY DEF Subcode
<1>4. ASSUME NEW p \in {<<0, 1>>, <<1, 0>>, <<1, 1>>, <<0, 0>>}
      PROVE  p \in Seq(Bit) /\ Len(p) = 2
  BY <1>1, <1>4, PairIsSeq
<1> QED
  BY <1>2, <1>3, <1>4

\* In the place of the address there is an address, or what begins with the subcode.
LEMMA AddressPartIs ==
  ASSUME NEW c \in Calls
  PROVE  /\ AddressPart(c) \in Addresses
         /\ Code(c.op) # <<0, 0>> => AddressPart(c) = c.address
         /\ Code(c.op) = <<0, 0>> =>
              AddressPart(c)[1] = Subcode(c.op)[1] /\ AddressPart(c)[2] = Subcode(c.op)[2]
<1>1. CASE Code(c.op) # <<0, 0>>
  BY <1>1, CallIs DEF AddressPart
<1>2. CASE Code(c.op) = <<0, 0>>
  <2> DEFINE z == Zeros(AddressBits - 2)
  <2>1. Subcode(c.op) \in Seq(Bit) /\ Len(Subcode(c.op)) = 2
    BY CodesArePairs
  <2>2. z \in Seq(Bit) /\ Len(z) = AddressBits - 2
    <3>1. z \in [1 .. AddressBits - 2 -> Bit] /\ AddressBits - 2 \in Nat
      BY SizesAre DEF Zeros, Bit
    <3> HIDE DEF z
    <3> QED
      BY <3>1
  <2>3. AddressPart(c) = Subcode(c.op) \o z
    BY <1>2 DEF AddressPart
  <2> HIDE DEF z
  <2>4. /\ Subcode(c.op) \o z \in Seq(Bit) /\ Len(Subcode(c.op) \o z) = AddressBits
        /\ (Subcode(c.op) \o z)[1] = Subcode(c.op)[1]
        /\ (Subcode(c.op) \o z)[2] = Subcode(c.op)[2]
    <3> DEFINE sub == Subcode(c.op)
    <3> HIDE DEF sub
    <3>1. /\ sub \o z \in Seq(Bit) /\ Len(sub \o z) = Len(sub) + Len(z)
          /\ \A i \in 1 .. Len(sub) + Len(z) :
               (sub \o z)[i] = IF i <= Len(sub) THEN sub[i] ELSE z[i - Len(sub)]
      BY <2>1, <2>2, ConcatProperties DEF sub
    <3>2. Len(sub) = 2
      BY <2>1 DEF sub
    <3>3. Len(sub \o z) = AddressBits /\ (sub \o z)[1] = sub[1] /\ (sub \o z)[2] = sub[2]
      BY <2>2, <3>1, <3>2, SizesAre
    <3> QED
      BY <3>1, <3>3 DEF sub
  <2>5. Subcode(c.op) \o z \in [1 .. AddressBits -> Bit]
    BY <2>4, LenProperties
  <2> QED
    BY <1>2, <2>3, <2>4, <2>5 DEF Addresses
<1> QED
  BY <1>1, <1>2

\* The parts of what is clocked in.
LEMMA CommandBitsAre ==
  ASSUME NEW c \in Calls
  PROVE  /\ CommandBits(c) \in Seq(Bit)
         /\ Len(CommandBits(c)) = 3 + AddressBits + Len(WordPart(c))
         /\ Len(WordPart(c)) \in {0, WordBits}
         /\ c.op \in {"WRITE", "WRAL"} => WordPart(c) = c.word /\ Len(WordPart(c)) = WordBits
         /\ c.op \notin {"WRITE", "WRAL"} => Len(WordPart(c)) = 0
         /\ CommandBits(c)[1] = 1
         /\ \A i \in 2 .. 3 : CommandBits(c)[i] = Code(c.op)[i - 1]
         /\ \A i \in 4 .. 3 + AddressBits : CommandBits(c)[i] = AddressPart(c)[i - 3]
         /\ \A i \in 4 + AddressBits .. Len(CommandBits(c)) :
              CommandBits(c)[i] = WordPart(c)[i - 3 - AddressBits]
<1> DEFINE code == Code(c.op)
           a == AddressPart(c)
           w == WordPart(c)
<1>1. a \in Seq(Bit) /\ Len(a) = AddressBits
  BY AddressPartIs, AddressIsSeq
<1>2. /\ w \in Seq(Bit) /\ Len(w) \in {0, WordBits}
      /\ c.op \in {"WRITE", "WRAL"} => WordPart(c) = c.word /\ Len(w) = WordBits
      /\ c.op \notin {"WRITE", "WRAL"} => Len(w) = 0
  BY CallIs, WordIsSeq, EmptySeq DEF WordPart
<1>3. code \in Seq(Bit) /\ Len(code) = 2
  BY CodesArePairs
<1>4. <<1>> \in Seq(Bit) /\ Len(<<1>>) = 1 /\ <<1>>[1] = 1
  BY DEF Bit
<1>5. CommandBits(c) = ((<<1>> \o code) \o a) \o w
  BY DEF CommandBits
<1> HIDE DEF code, a, w
<1> DEFINE s2 == <<1>> \o code
           s3 == s2 \o a
           s4 == s3 \o w
<1>6. /\ s2 \in Seq(Bit) /\ Len(s2) = 3
      /\ \A i \in 1 .. 3 : s2[i] = IF i <= 1 THEN <<1>>[i] ELSE code[i - 1]
  BY <1>3, <1>4, ConcatProperties
<1> HIDE DEF s2
<1>7. /\ s3 \in Seq(Bit) /\ Len(s3) = 3 + AddressBits
      /\ \A i \in 1 .. 3 + AddressBits : s3[i] = IF i <= 3 THEN s2[i] ELSE a[i - 3]
  <2>1. /\ s3 \in Seq(Bit) /\ Len(s3) = Len(s2) + Len(a)
        /\ \A i \in 1 .. Len(s2) + Len(a) : s3[i] = IF i <= Len(s2) THEN s2[i] ELSE a[i - Len(s2)]
    BY <1>1, <1>6, ConcatProperties
  <2> HIDE DEF s3
  <2> QED
    BY <1>1, <1>6, <2>1
<1> HIDE DEF s3
<1>8. /\ s4 \in Seq(Bit) /\ Len(s4) = 3 + AddressBits + Len(w)
      /\ \A i \in 1 .. 3 + AddressBits + Len(w) :
           s4[i] = IF i <= 3 + AddressBits THEN s3[i] ELSE w[i - (3 + AddressBits)]
  <2>1. /\ s4 \in Seq(Bit) /\ Len(s4) = Len(s3) + Len(w)
        /\ \A i \in 1 .. Len(s3) + Len(w) : s4[i] = IF i <= Len(s3) THEN s3[i] ELSE w[i - Len(s3)]
    BY <1>2, <1>7, ConcatProperties
  <2> HIDE DEF s4
  <2> QED
    BY <1>2, <1>7, <2>1
<1>9. CommandBits(c) = s4
  BY <1>5 DEF s2, s3
<1> HIDE DEF s4
<1>10. AddressBits \in Nat /\ Len(w) \in Nat
  BY <1>2, SizesAre
<1>11. s4[1] = 1 /\ \A i \in 2 .. 3 : s4[i] = code[i - 1]
  BY <1>4, <1>6, <1>7, <1>8, <1>10
<1>12. \A i \in 4 .. 3 + AddressBits : s4[i] = a[i - 3]
  BY <1>7, <1>8, <1>10
<1>13. \A i \in 4 + AddressBits .. Len(s4) : s4[i] = w[i - 3 - AddressBits]
  BY <1>8, <1>10
<1> QED
  BY <1>2, <1>8, <1>9, <1>11, <1>12, <1>13 DEF code, a, w

\* What the chip finds in the bits it has got.
LEMMA PartsFound ==
  ASSUME NEW c \in Calls, NEW n \in 1 .. Len(CommandBits(c)),
         NEW bits, bits = SubSeq(CommandBits(c), 1, n)
  PROVE  /\ bits \in Seq(Bit) /\ Len(bits) = n
         /\ n = 3 => SubSeq(bits, 2, 3) = Code(c.op)
         /\ n = 5 /\ Code(c.op) = <<0, 0>> => SubSeq(bits, 4, 5) = Subcode(c.op)
         /\ n >= 3 + AddressBits => SubSeq(bits, 4, 3 + AddressBits) = AddressPart(c)
         /\ n = 3 + AddressBits + WordBits /\ c.op \in {"WRITE", "WRAL"} =>
              SubSeq(bits, 4 + AddressBits, Len(bits)) = c.word
<1> DEFINE cb == CommandBits(c)
<1>1. /\ cb \in Seq(Bit) /\ Len(cb) = 3 + AddressBits + Len(WordPart(c))
      /\ Len(cb) \in Nat /\ AddressBits \in Nat /\ WordBits \in Nat
      /\ AddressBits > 2 /\ WordBits > 1
  BY CommandBitsAre, SizesAre
<1>2. /\ bits \in Seq(Bit) /\ Len(bits) = n /\ \A i \in 1 .. n : bits[i] = cb[i]
  <2>1. \A i \in 1 .. n : cb[i] \in Bit
    BY <1>1, ElementOfSeq
  <2> HIDE DEF cb
  <2> QED
    BY <1>1, <2>1, SubSeqProperties DEF cb
<1>3. ASSUME NEW l \in 1 .. n, NEW m \in l .. n
      PROVE  /\ SubSeq(bits, l, m) \in Seq(Bit) /\ Len(SubSeq(bits, l, m)) = m - l + 1
             /\ \A i \in 1 .. m - l + 1 : SubSeq(bits, l, m)[i] = cb[l + i - 1]
  <2>1. \A i \in l .. m : bits[i] \in Bit
    BY <1>2, <1>3, ElementOfSeq
  <2> HIDE DEF cb
  <2>2. /\ SubSeq(bits, l, m) \in Seq(Bit) /\ Len(SubSeq(bits, l, m)) = m - l + 1
        /\ \A i \in 1 .. m - l + 1 : SubSeq(bits, l, m)[i] = bits[l + i - 1]
    BY <1>3, <2>1, SubSeqProperties
  <2> QED
    BY <1>2, <1>3, <2>2
<1>4. ASSUME n = 3 PROVE SubSeq(bits, 2, 3) = Code(c.op)
  <2> DEFINE t == SubSeq(bits, 2, 3)
             u == Code(c.op)
  <2>1. /\ t \in Seq(Bit) /\ Len(t) = 2
        /\ \A i \in 1 .. 2 : t[i] = cb[1 + i]
    BY <1>3, <1>4
  <2>2. \A i \in 1 .. 2 : cb[1 + i] = Code(c.op)[i]
    BY CommandBitsAre
  <2>3. Code(c.op) \in Seq(Bit) /\ Len(Code(c.op)) = 2
    BY CodesArePairs
  <2> HIDE DEF t, u, cb
  <2>5. u \in Seq(Bit) /\ Len(u) = 2 /\ \A i \in 1 .. 2 : t[i] = u[i]
    BY <2>1, <2>2, <2>3 DEF u
  <2> QED
    BY <2>1, <2>5, SeqEqual DEF t, u
<1>5. ASSUME n = 5, Code(c.op) = <<0, 0>> PROVE SubSeq(bits, 4, 5) = Subcode(c.op)
  <2> DEFINE t == SubSeq(bits, 4, 5)
             u == Subcode(c.op)
  <2>1. /\ t \in Seq(Bit) /\ Len(t) = 2
        /\ \A i \in 1 .. 2 : t[i] = cb[3 + i]
    BY <1>3, <1>5
  <2>2. \A i \in 1 .. 2 : cb[3 + i] = AddressPart(c)[i]
    BY <1>1, CommandBitsAre
  <2>3. \A i \in 1 .. 2 : AddressPart(c)[i] = Subcode(c.op)[i]
    BY <1>5, AddressPartIs
  <2>4. Subcode(c.op) \in Seq(Bit) /\ Len(Subcode(c.op)) = 2
    BY CodesArePairs
  <2> HIDE DEF t, u, cb
  <2>5. u \in Seq(Bit) /\ Len(u) = 2 /\ \A i \in 1 .. 2 : t[i] = u[i]
    BY <2>1, <2>2, <2>3, <2>4 DEF u
  <2> QED
    BY <2>1, <2>5, SeqEqual DEF t, u
<1>6. ASSUME n >= 3 + AddressBits
      PROVE  SubSeq(bits, 4, 3 + AddressBits) = AddressPart(c)
  <2> DEFINE t == SubSeq(bits, 4, 3 + AddressBits)
  <2>1. /\ t \in Seq(Bit) /\ Len(t) = AddressBits
        /\ \A i \in 1 .. AddressBits : t[i] = cb[3 + i]
    BY <1>1, <1>3, <1>6
  <2>2. \A i \in 1 .. AddressBits : cb[3 + i] = AddressPart(c)[i]
    BY <1>1, CommandBitsAre
  <2>3. AddressPart(c) \in Seq(Bit) /\ Len(AddressPart(c)) = AddressBits
    BY AddressPartIs, AddressIsSeq
  <2> HIDE DEF t, cb
  <2> QED
    BY <2>1, <2>2, <2>3, SeqEqual DEF t
<1>7. ASSUME n = 3 + AddressBits + WordBits, c.op \in {"WRITE", "WRAL"}
      PROVE  SubSeq(bits, 4 + AddressBits, Len(bits)) = c.word
  <2> DEFINE t == SubSeq(bits, 4 + AddressBits, Len(bits))
  <2>1. /\ t \in Seq(Bit) /\ Len(t) = WordBits
        /\ \A i \in 1 .. WordBits : t[i] = cb[3 + AddressBits + i]
    BY <1>1, <1>2, <1>3, <1>7
  <2>2. \A i \in 1 .. WordBits : cb[3 + AddressBits + i] = c.word[i]
    BY <1>1, <1>7, CommandBitsAre
  <2>3. c.word \in Seq(Bit) /\ Len(c.word) = WordBits
    BY CallIs, WordIsSeq
  <2> HIDE DEF t, cb
  <2> QED
    BY <2>1, <2>2, <2>3, SeqEqual DEF t
<1> QED
  BY <1>2, <1>4, <1>5, <1>6, <1>7

(* The chip, whatever bits it has got. *)

Pairs == {<<x, y>> : x \in Bit, y \in Bit}

\* Parts of the bits it has got are addresses and words.
LEMMA PartsAreTyped ==
  ASSUME NEW bits \in Seq(Bit)
  PROVE  /\ Len(bits) = 3 => SubSeq(bits, 2, 3) \in Pairs
         /\ Len(bits) = 5 => SubSeq(bits, 4, 5) \in Pairs
         /\ Len(bits) >= 3 + AddressBits => SubSeq(bits, 4, 3 + AddressBits) \in Addresses
         /\ Len(bits) = 3 + AddressBits + WordBits =>
              SubSeq(bits, 4 + AddressBits, Len(bits)) \in Word
<1>1. ASSUME NEW l \in 1 .. Len(bits), NEW m \in l .. Len(bits),
             NEW size, size = m - l + 1, NEW t, t = SubSeq(bits, l, m)
      PROVE  t \in [1 .. size -> Bit] /\ t \in Seq(Bit) /\ Len(t) = size
  <2>1. \A i \in l .. m : bits[i] \in Bit
    BY ElementOfSeq
  <2>2. t \in Seq(Bit) /\ Len(t) = size
    BY <1>1, <2>1, SubSeqProperties
  <2> QED
    BY <2>2, LenProperties
<1>2. ASSUME NEW s \in Seq(Bit), Len(s) = 2
      PROVE  s \in Pairs
  <2>1. s[1] \in Bit /\ s[2] \in Bit
    BY <1>2, ElementOfSeq
  <2>2. s = <<s[1], s[2]>>
    BY <1>2
  <2> QED
    BY <2>1, <2>2 DEF Pairs
<1> DEFINE opcode == SubSeq(bits, 2, 3)
           subcode == SubSeq(bits, 4, 5)
           a == SubSeq(bits, 4, 3 + AddressBits)
           w == SubSeq(bits, 4 + AddressBits, Len(bits))
<1>3. Len(bits) = 3 => opcode \in Seq(Bit) /\ Len(opcode) = 2
  BY <1>1
<1>4. Len(bits) = 5 => subcode \in Seq(Bit) /\ Len(subcode) = 2
  BY <1>1
<1>5. Len(bits) >= 3 + AddressBits => a \in [1 .. AddressBits -> Bit]
  <2> SUFFICES ASSUME Len(bits) >= 3 + AddressBits PROVE a \in [1 .. AddressBits -> Bit]
    OBVIOUS
  <2>1. 4 \in 1 .. Len(bits) /\ 3 + AddressBits \in 4 .. Len(bits)
        /\ AddressBits = 3 + AddressBits - 4 + 1
    BY SizesAre, LenProperties
  <2>2. a = SubSeq(bits, 4, 3 + AddressBits)
    OBVIOUS
  <2> HIDE DEF a
  <2> DEFINE m == 3 + AddressBits
  <2>3. m \in 4 .. Len(bits)
    BY <2>1
  <2>5. AddressBits = m - 4 + 1
    BY SizesAre
  <2>4. a = SubSeq(bits, 4, m)
    BY <2>2
  <2> HIDE DEF m
  <2> QED
    BY <1>1, <2>1, <2>3, <2>4, <2>5
<1>6. Len(bits) = 3 + AddressBits + WordBits => w \in [1 .. WordBits -> Bit]
  <2> SUFFICES ASSUME Len(bits) = 3 + AddressBits + WordBits PROVE w \in [1 .. WordBits -> Bit]
    OBVIOUS
  <2>1. 4 + AddressBits \in 1 .. Len(bits) /\ Len(bits) \in 4 + AddressBits .. Len(bits)
        /\ WordBits = Len(bits) - (4 + AddressBits) + 1
    BY SizesAre, LenProperties
  <2>2. w = SubSeq(bits, 4 + AddressBits, Len(bits))
    OBVIOUS
  <2> HIDE DEF w
  <2> DEFINE l == 4 + AddressBits
  <2>3. /\ l \in 1 .. Len(bits) /\ Len(bits) \in l .. Len(bits)
        /\ WordBits = Len(bits) - l + 1 /\ w = SubSeq(bits, l, Len(bits))
    BY <2>1, <2>2
  <2> HIDE DEF l
  <2> QED
    BY <1>1, <2>3
<1> HIDE DEF opcode, subcode, a, w
<1>7. /\ Len(bits) = 3 => opcode \in Pairs
      /\ Len(bits) = 5 => subcode \in Pairs
  BY <1>2, <1>3, <1>4
<1> QED
  BY <1>5, <1>6, <1>7 DEF Addresses, Word, opcode, subcode, a, w

\* Words of equal bits, and memories of equal words.
LEMMA FilledAre ==
  /\ Ones(WordBits) \in Word /\ Zeros(WordBits) \in Word
  /\ \A word \in Word : Filled(word) \in Memories
  /\ Zeros(AddressBits) \in Addresses
<1>1. Ones(WordBits) \in Word /\ Zeros(WordBits) \in Word
  BY DEF Ones, Zeros, Word, Bit
<1>2. \A word \in Word : Filled(word) \in Memories
  BY DEF Filled, Memories
<1> QED
  BY <1>1, <1>2 DEF Zeros, Addresses, Bit

\* Behind an address there is another one.
LEMMA FollowingIs ==
  ASSUME NEW a \in Addresses
  PROVE  Following(a) \in Addresses
<1>1. \A i \in 1 .. AddressBits : a[i] \in Bit /\ 1 - a[i] \in Bit
  BY DEF Addresses, Bit
<1> QED
  BY <1>1 DEF Following, Addresses

\* Selecting the chip and reading from it keep its types.
LEMMA SelectTypes ==
  ASSUME NEW ch, Proper(ch), NEW value \in Bit
  PROVE  Proper(writeSelect(ch, value)) /\ writeSelect(ch, value).mem = ch.mem
         /\ writeSelect(ch, value).enabled = ch.enabled
<1>1. ch \in Chips /\ <<>> \in Seq(Bit) /\ Len(<<>>) = 0
      /\ "ISBUSY" \in Commands /\ "none" \in Commands
  BY DEF Proper, Commands
<1>2. writeSelect(ch, value).shift \in {ch.shift, <<>>}
  BY <1>1 DEF writeSelect, Chips
<1>3. writeSelect(ch, value).command \in {ch.command, "ISBUSY", "none"}
  BY <1>1 DEF writeSelect, Chips
<1>4. writeSelect(ch, value)
        = [ch EXCEPT !.cs = value, !.shift = writeSelect(ch, value).shift,
                     !.command = writeSelect(ch, value).command]
  BY <1>1 DEF writeSelect, Chips
<1> DEFINE sh == writeSelect(ch, value).shift
           co == writeSelect(ch, value).command
<1>5. sh \in {ch.shift, <<>>} /\ co \in {ch.command, "ISBUSY", "none"}
  BY <1>2, <1>3
<1> HIDE DEF sh, co
<1>6. sh \in Seq(Bit) /\ Len(sh) < 4 + AddressBits + WordBits
  <2>1. ch.shift \in Seq(Bit) /\ Len(ch.shift) < 4 + AddressBits + WordBits
    BY <1>1 DEF Proper, Chips
  <2>2. CASE sh = ch.shift
    BY <2>1, <2>2
  <2>3. CASE sh = <<>>
    BY <1>1, <2>3, SizesAre
  <2> QED
    BY <1>5, <2>2, <2>3
<1>7. co \in Commands /\ (co \in {"READDUMMY", "READDATA"} => ch.address \in Addresses)
  BY <1>1, <1>5 DEF Proper, IsReading, Chips
<1>8. Proper([ch EXCEPT !.cs = value, !.shift = sh, !.command = co])
      /\ [ch EXCEPT !.cs = value, !.shift = sh, !.command = co].mem = ch.mem
      /\ [ch EXCEPT !.cs = value, !.shift = sh, !.command = co].enabled = ch.enabled
  BY <1>1, <1>6, <1>7 DEF Proper, IsReading, Chips
<1> QED
  BY <1>4, <1>8 DEF sh, co

\* Reading gives a bit, and changes nothing but the command.
LEMMA ReadTypes ==
  ASSUME NEW ch, Proper(ch)
  PROVE  /\ readData(ch)[1] \in Bit /\ Proper(readData(ch)[2])
         /\ readData(ch)[2] = [ch EXCEPT !.command = readData(ch)[2].command]
<1>1. ch \in Chips /\ "ISREADY" \in Commands /\ "none" \in Commands
  BY DEF Proper, Commands
<1>2. CASE ch.command = "ISBUSY"
  BY <1>1, <1>2 DEF readData, Proper, IsReading, Chips, Bit
<1>3. CASE ch.command = "ISREADY"
  BY <1>1, <1>3 DEF readData, Proper, IsReading, Chips, Bit
<1>4. CASE ch.command \notin {"ISBUSY", "ISREADY"}
  BY <1>1, <1>4 DEF readData, Proper, IsReading, Chips, Bit
<1> QED
  BY <1>2, <1>3, <1>4

\* What it does at the end of an address keeps its types.
LEMMA AddressInTypes ==
  ASSUME NEW ch, Proper(ch), ~IsReading(ch), NEW bits \in Seq(Bit), Len(bits) = 3 + AddressBits
  PROVE  Proper(AddressIn(ch, bits))
<1> DEFINE a == SubSeq(bits, 4, 3 + AddressBits)
           done == [ch EXCEPT !.shift = <<>>]
<1>1. /\ a \in Addresses /\ ch \in Chips /\ Ones(WordBits) \in Word
      /\ Filled(Ones(WordBits)) \in Memories /\ "READDUMMY" \in Commands /\ "none" \in Commands
  BY PartsAreTyped, FilledAre, SizesAre DEF Proper, Commands
<1>2. <<>> \in Seq(Bit) /\ Len(<<>>) = 0 /\ 0 < 4 + AddressBits + WordBits
      /\ Len(bits) < 4 + AddressBits + WordBits
  BY SizesAre
<1>3. done \in Chips /\ done.shift = <<>> /\ ~IsReading(done)
      /\ done.command = ch.command /\ done.mem = ch.mem
  BY <1>1, <1>2 DEF Chips, IsReading
<1>4. Proper(done)
  BY <1>2, <1>3 DEF Proper
<1>5. [ch EXCEPT !.shift = bits] \in Chips /\ [ch EXCEPT !.shift = bits].shift = bits
      /\ ~IsReading([ch EXCEPT !.shift = bits])
  BY <1>1 DEF Chips, IsReading
<1> HIDE DEF a, done
<1>6. [done.mem EXCEPT ![a] = Ones(WordBits)] \in Memories
  BY <1>1, <1>3 DEF Chips, Memories
<1>7. Proper([done EXCEPT !.command = "READDUMMY", !.address = a])
  BY <1>1, <1>2, <1>3 DEF Proper, Chips, IsReading
<1>8. \A e \in BOOLEAN : Proper([done EXCEPT !.command = "none", !.enabled = e])
  BY <1>1, <1>2, <1>3 DEF Proper, Chips, IsReading
<1>9. Proper([done EXCEPT !.command = "none"])
  BY <1>1, <1>2, <1>3 DEF Proper, Chips, IsReading
<1>10. ASSUME NEW m \in Memories
       PROVE  Proper([done EXCEPT !.address = a, !.mem = m]) /\ Proper([done EXCEPT !.mem = m])
  BY <1>1, <1>2, <1>3 DEF Proper, Chips, IsReading
<1>11. [done EXCEPT !.address = a, !.mem[a] = Ones(WordBits)]
         = [done EXCEPT !.address = a, !.mem = [done.mem EXCEPT ![a] = Ones(WordBits)]]
  BY <1>3 DEF Chips
<1>12. AddressIn(ch, bits) \in
         {[done EXCEPT !.command = "READDUMMY", !.address = a],
          [done EXCEPT !.command = "none", !.enabled = FALSE],
          [done EXCEPT !.command = "none", !.enabled = TRUE],
          [done EXCEPT !.command = "none"],
          [done EXCEPT !.address = a, !.mem[a] = Ones(WordBits)],
          [done EXCEPT !.mem = Filled(Ones(WordBits))],
          [ch EXCEPT !.shift = bits]}
  BY DEF AddressIn, Refused, a, done
<1>13. Proper([ch EXCEPT !.shift = bits])
  BY <1>2, <1>5 DEF Proper
<1>14. Proper([done EXCEPT !.address = a, !.mem[a] = Ones(WordBits)])
  BY <1>6, <1>10, <1>11
<1> QED
  BY <1>1, <1>7, <1>8, <1>9, <1>10, <1>12, <1>13, <1>14

\* Nor does the word behind it.
LEMMA WordInTypes ==
  ASSUME NEW ch, Proper(ch), ~IsReading(ch), NEW bits \in Seq(Bit),
         Len(bits) = 3 + AddressBits + WordBits
  PROVE  Proper(WordIn(ch, bits))
<1> DEFINE a == SubSeq(bits, 4, 3 + AddressBits)
           word == SubSeq(bits, 4 + AddressBits, Len(bits))
           done == [ch EXCEPT !.shift = <<>>]
<1>1. /\ a \in Addresses /\ ch \in Chips /\ word \in Word
      /\ Filled(word) \in Memories /\ "none" \in Commands
  BY PartsAreTyped, FilledAre, SizesAre DEF Proper, Commands
<1>2. <<>> \in Seq(Bit) /\ Len(<<>>) = 0 /\ 0 < 4 + AddressBits + WordBits
      /\ Len(bits) < 4 + AddressBits + WordBits
  BY SizesAre
<1>3. done \in Chips /\ done.shift = <<>> /\ ~IsReading(done)
      /\ done.command = ch.command /\ done.mem = ch.mem
  BY <1>1, <1>2 DEF Chips, IsReading
<1>4. [ch EXCEPT !.shift = bits] \in Chips /\ [ch EXCEPT !.shift = bits].shift = bits
      /\ ~IsReading([ch EXCEPT !.shift = bits])
  BY <1>1 DEF Chips, IsReading
<1> HIDE DEF a, word, done
<1>5. [done.mem EXCEPT ![a] = word] \in Memories
  BY <1>1, <1>3 DEF Chips, Memories
<1>6. Proper([done EXCEPT !.command = "none"])
  BY <1>1, <1>2, <1>3 DEF Proper, Chips, IsReading
<1>7. ASSUME NEW m \in Memories, NEW b \in Addresses \cup {PastEnd}
      PROVE  Proper([done EXCEPT !.address = b, !.mem = m])
  BY <1>1, <1>2, <1>3 DEF Proper, Chips, IsReading
<1>8. [done EXCEPT !.address = a, !.mem[a] = word]
         = [done EXCEPT !.address = a, !.mem = [done.mem EXCEPT ![a] = word]]
  BY <1>3 DEF Chips
<1>9. WordIn(ch, bits) \in
         {[done EXCEPT !.command = "none"],
          [done EXCEPT !.address = a, !.mem[a] = word],
          [done EXCEPT !.address = PastEnd, !.mem = Filled(word)],
          [ch EXCEPT !.shift = bits]}
  BY DEF WordIn, Refused, a, word, done
<1>10. Proper([ch EXCEPT !.shift = bits])
  BY <1>2, <1>4 DEF Proper
<1>11. Proper([done EXCEPT !.address = a, !.mem[a] = word])
  BY <1>1, <1>5, <1>7, <1>8
<1>12. Proper([done EXCEPT !.address = PastEnd, !.mem = Filled(word)])
  BY <1>1, <1>7
<1> QED
  BY <1>6, <1>9, <1>10, <1>11, <1>12

\* What a bit does depends on how many there are with it.
LEMMA BitInIs ==
  ASSUME NEW ch \in Chips, NEW bits, Len(bits) \in Nat
  PROVE  /\ Len(bits) = 1 =>
              BitIn(ch, bits) = [ch EXCEPT !.shift = IF ch.dataIn = 0 THEN <<>> ELSE bits]
         /\ Len(bits) = 3 =>
              BitIn(ch, bits) = [ch EXCEPT !.shift = bits, !.command = Opcode(SubSeq(bits, 2, 3))]
         /\ Len(bits) = 5 /\ ch.command = "CMD00" =>
              BitIn(ch, bits) = [ch EXCEPT !.shift = bits, !.command = Opcode00(SubSeq(bits, 4, 5)),
                                 !.enabled = ch.enabled \/ Opcode00(SubSeq(bits, 4, 5)) = "WEN"]
         /\ Len(bits) = 3 + AddressBits => BitIn(ch, bits) = AddressIn(ch, bits)
         /\ Len(bits) = 3 + AddressBits + WordBits => BitIn(ch, bits) = WordIn(ch, bits)
         /\ Len(bits) > 3 + AddressBits + WordBits => BitIn(ch, bits) = ch
         /\ /\ Len(bits) \notin {1, 3, 3 + AddressBits, 3 + AddressBits + WordBits}
            /\ ~(Len(bits) = 5 /\ ch.command = "CMD00") /\ Len(bits) < 4 + AddressBits + WordBits
            => BitIn(ch, bits) = [ch EXCEPT !.shift = bits]
<1> DEFINE n == Len(bits)
<1>1. BitIn(ch, bits) =
        CASE n = 1 -> [ch EXCEPT !.shift = IF ch.dataIn = 0 THEN <<>> ELSE bits]
          [] n = 3 -> [ch EXCEPT !.shift = bits, !.command = Opcode(SubSeq(bits, 2, 3))]
          [] n = 5 /\ ch.command = "CMD00" ->
               [ch EXCEPT !.shift = bits, !.command = Opcode00(SubSeq(bits, 4, 5)),
                          !.enabled = ch.enabled \/ Opcode00(SubSeq(bits, 4, 5)) = "WEN"]
          [] n = 3 + AddressBits -> AddressIn(ch, bits)
          [] n = 3 + AddressBits + WordBits -> WordIn(ch, bits)
          [] n > 3 + AddressBits + WordBits -> ch
          [] OTHER -> [ch EXCEPT !.shift = bits]
  BY DEF BitIn, Chips
<1>2. n \in Nat /\ AddressBits \in Nat /\ AddressBits > 2 /\ WordBits \in Nat /\ WordBits > 1
  BY SizesAre
<1> HIDE DEF n
<1>3. n = 1 => BitIn(ch, bits) = [ch EXCEPT !.shift = IF ch.dataIn = 0 THEN <<>> ELSE bits]
  BY <1>1, <1>2
<1>4. n = 3 => BitIn(ch, bits) = [ch EXCEPT !.shift = bits, !.command = Opcode(SubSeq(bits, 2, 3))]
  BY <1>1, <1>2
<1>5. n = 5 /\ ch.command = "CMD00" =>
        BitIn(ch, bits) = [ch EXCEPT !.shift = bits, !.command = Opcode00(SubSeq(bits, 4, 5)),
                                 !.enabled = ch.enabled \/ Opcode00(SubSeq(bits, 4, 5)) = "WEN"]
  BY <1>1, <1>2
<1>6. n = 3 + AddressBits => BitIn(ch, bits) = AddressIn(ch, bits)
  BY <1>1, <1>2
<1>7. n = 3 + AddressBits + WordBits => BitIn(ch, bits) = WordIn(ch, bits)
  BY <1>1, <1>2
<1>8. n > 3 + AddressBits + WordBits => BitIn(ch, bits) = ch
  BY <1>1, <1>2
<1>9. /\ n \notin {1, 3, 3 + AddressBits, 3 + AddressBits + WordBits}
      /\ ~(n = 5 /\ ch.command = "CMD00") /\ n < 4 + AddressBits + WordBits
      => BitIn(ch, bits) = [ch EXCEPT !.shift = bits]
  BY <1>1, <1>2
<1> QED
  BY <1>3, <1>4, <1>5, <1>6, <1>7, <1>8, <1>9 DEF n

\* Nor does a bit that is clocked in.
LEMMA ShiftInTypes ==
  ASSUME NEW ch, Proper(ch), ~IsReading(ch)
  PROVE  Proper(ShiftIn(ch))
<1> DEFINE bits == Append(ch.shift, ch.dataIn)
           n == Len(bits)
<1>1. /\ ch \in Chips /\ ch.shift \in Seq(Bit) /\ ch.dataIn \in Bit
      /\ Len(ch.shift) < 4 + AddressBits + WordBits /\ Len(ch.shift) \in Nat
  BY LenProperties DEF Proper, Chips
<1>2. bits \in Seq(Bit) /\ n = Len(bits) /\ n = Len(ch.shift) + 1 /\ n \in Nat
  BY <1>1, AppendProperties
<1>3. ASSUME NEW s \in Seq(Bit), Len(s) < 4 + AddressBits + WordBits
      PROVE  Proper([ch EXCEPT !.shift = s])
  BY <1>1, <1>3 DEF Proper, Chips, IsReading
<1>4. ASSUME NEW s \in Seq(Bit), Len(s) < 4 + AddressBits + WordBits,
             NEW op \in Commands, op \notin {"READDUMMY", "READDATA"}, NEW e \in BOOLEAN
      PROVE  /\ Proper([ch EXCEPT !.shift = s, !.command = op])
             /\ Proper([ch EXCEPT !.shift = s, !.command = op, !.enabled = e])
  BY <1>1, <1>4 DEF Proper, Chips, IsReading
<1> HIDE DEF bits, n
<1>5. ShiftIn(ch) =
        CASE n = 1 -> [ch EXCEPT !.shift = IF ch.dataIn = 0 THEN <<>> ELSE bits]
          [] n = 3 -> [ch EXCEPT !.shift = bits, !.command = Opcode(SubSeq(bits, 2, 3))]
          [] n = 5 /\ ch.command = "CMD00" ->
               [ch EXCEPT !.shift = bits, !.command = Opcode00(SubSeq(bits, 4, 5)),
                          !.enabled = ch.enabled \/ Opcode00(SubSeq(bits, 4, 5)) = "WEN"]
          [] n = 3 + AddressBits -> AddressIn(ch, bits)
          [] n = 3 + AddressBits + WordBits -> WordIn(ch, bits)
          [] n > 3 + AddressBits + WordBits -> ch
          [] OTHER -> [ch EXCEPT !.shift = bits]
  BY <1>1 DEF ShiftIn, BitIn, bits, n, Chips
<1>6. CASE n = 1
  <2>1. ShiftIn(ch) = [ch EXCEPT !.shift = IF ch.dataIn = 0 THEN <<>> ELSE bits]
    BY <1>5, <1>6, SizesAre
  <2>2. <<>> \in Seq(Bit) /\ Len(<<>>) = 0 /\ 0 < 4 + AddressBits + WordBits
        /\ Len(bits) < 4 + AddressBits + WordBits
    BY <1>2, <1>6, SizesAre
  <2> QED
    BY <1>2, <1>3, <2>1, <2>2
<1>7. CASE n = 3
  <2>1. ShiftIn(ch) = [ch EXCEPT !.shift = bits, !.command = Opcode(SubSeq(bits, 2, 3))]
    BY <1>5, <1>7, SizesAre
  <2>2. SubSeq(bits, 2, 3) \in Pairs
    BY <1>2, <1>7, PartsAreTyped
  <2>4. Len(bits) < 4 + AddressBits + WordBits
    BY <1>2, <1>7, SizesAre
  <2>3. \A p \in Pairs :
          Opcode(p) \in {"CMD00", "WRITE", "READ", "ERASE"}
    BY DEF Opcode, Pairs, Bit
  <2> DEFINE op == Opcode(SubSeq(bits, 2, 3))
  <2>5. op \in {"CMD00", "WRITE", "READ", "ERASE"}
    BY <2>2, <2>3
  <2> HIDE DEF op
  <2>6. op \in Commands /\ op \notin {"READDUMMY", "READDATA"}
    BY <2>5 DEF Commands
  <2>7. Proper([ch EXCEPT !.shift = bits, !.command = op])
    BY <1>2, <1>4, <2>4, <2>6
  <2> QED
    BY <2>1, <2>7 DEF op
<1>8. CASE n = 5 /\ ch.command = "CMD00"
  <2> DEFINE op == Opcode00(SubSeq(bits, 4, 5))
  <2>1. ShiftIn(ch) = [ch EXCEPT !.shift = bits, !.command = op,
                                 !.enabled = ch.enabled \/ op = "WEN"]
    BY <1>5, <1>8, SizesAre
  <2>2. SubSeq(bits, 4, 5) \in Pairs
    BY <1>2, <1>8, PartsAreTyped
  <2>6. Len(bits) < 4 + AddressBits + WordBits
    BY <1>2, <1>8, SizesAre
  <2>3. \A p \in Pairs : Opcode00(p) \in {"WDS", "WRAL", "ERAL", "WEN"}
    BY DEF Opcode00, Pairs, Bit
  <2>7. op \in {"WDS", "WRAL", "ERAL", "WEN"}
    BY <2>2, <2>3
  <2> HIDE DEF op
  <2>4. op \in Commands /\ op \notin {"READDUMMY", "READDATA"}
    BY <2>7 DEF Commands
  <2>5. (ch.enabled \/ op = "WEN") \in BOOLEAN
    OBVIOUS
  <2>8. Proper([ch EXCEPT !.shift = bits, !.command = op, !.enabled = ch.enabled \/ op = "WEN"])
    BY <1>2, <1>4, <2>4, <2>5, <2>6
  <2> QED
    BY <2>1, <2>8
<1>9. CASE n = 3 + AddressBits
  <2>1. ShiftIn(ch) = AddressIn(ch, bits)
    BY <1>5, <1>9, SizesAre
  <2> QED
    BY <1>2, <1>9, <2>1, AddressInTypes
<1>10. CASE n = 3 + AddressBits + WordBits
  <2>1. ShiftIn(ch) = WordIn(ch, bits)
    BY <1>5, <1>10, SizesAre
  <2> QED
    BY <1>2, <1>10, <2>1, WordInTypes
<1>11. CASE n > 3 + AddressBits + WordBits
  BY <1>5, <1>11, SizesAre
<1>12. CASE /\ n < 4 + AddressBits + WordBits
            /\ n \notin {1, 3, 3 + AddressBits, 3 + AddressBits + WordBits}
            /\ ~(n = 5 /\ ch.command = "CMD00")
  <2>1. ShiftIn(ch) = [ch EXCEPT !.shift = bits]
    BY <1>2, <1>5, <1>12, SizesAre
  <2> QED
    BY <1>2, <1>3, <1>12, <2>1
<1> QED
  BY <1>2, <1>6, <1>7, <1>8, <1>9, <1>10, <1>11, <1>12, SizesAre

\* Nor does the clock.
LEMMA ClockTypes ==
  ASSUME NEW ch, Proper(ch), NEW value \in Bit
  PROVE  Proper(writeClock(ch, value))
<1>1. ch \in Chips /\ Len(ch.shift) < 4 + AddressBits + WordBits
      /\ WordBits \in Nat /\ WordBits > 1 /\ "READDATA" \in Commands
  BY SizesAre DEF Proper, Commands
<1>2. ASSUME NEW r, Proper(r)
      PROVE  Proper([r EXCEPT !.clock = value])
  BY <1>2 DEF Proper, Chips, IsReading
<1>3. ASSUME IsReading(ch)
      PROVE  ch.mem[ch.address][ch.outCount + 1] \in Bit /\ ch.mem[ch.address][1] \in Bit
  <2>1. ch.mem[ch.address] \in [1 .. WordBits -> Bit]
    BY <1>1, <1>3 DEF Proper, Chips, Memories, Word
  <2>2. ch.outCount + 1 \in 1 .. WordBits /\ 1 \in 1 .. WordBits
    BY <1>1 DEF Chips
  <2> QED
    BY <2>1, <2>2
<1>4. ASSUME NEW d \in Bit, NEW more \in 0 .. WordBits - 1, NEW a \in Addresses,
             NEW r, r = [ch EXCEPT !.dataOut = d, !.outCount = more, !.address = a,
                                   !.command = "READDATA"]
      PROVE  Proper(r)
  <2>1. r \in Chips
    BY <1>1, <1>4 DEF Chips
  <2>2. r.shift = ch.shift /\ r.address = a
    BY <1>1, <1>4 DEF Chips
  <2> QED
    BY <1>1, <2>1, <2>2 DEF Proper
<1>5. 0 \in 0 .. WordBits - 1 /\ 1 \in 0 .. WordBits - 1
  BY <1>1
<1>6. CASE ch.command = "READDUMMY"
  <2>1. ch.address \in Addresses /\ ch.mem[ch.address][1] \in Bit
    BY <1>3, <1>6 DEF IsReading, Proper
  <2> DEFINE bit == ch.mem[ch.address][1]
  <2>4. BeginOutput(ch) = [ch EXCEPT !.dataOut = bit, !.outCount = 1, !.address = ch.address,
                                     !.command = "READDATA"]
    BY <1>1 DEF BeginOutput, Chips
  <2> HIDE DEF bit
  <2>5. bit \in Bit
    BY <2>1 DEF bit
  <2>2. Proper(BeginOutput(ch))
    BY <1>4, <1>5, <2>1, <2>4, <2>5
  <2>3. writeClock(ch, value) \in
         {[ch EXCEPT !.clock = value], [BeginOutput(ch) EXCEPT !.clock = value]}
    BY <1>6 DEF writeClock
  <2> QED
    BY <1>2, <2>2, <2>3
<1>7. CASE ch.command = "READDATA"
  <2> DEFINE bit == ch.mem[ch.address][ch.outCount + 1]
  <2>1. ch.address \in Addresses /\ bit \in Bit /\ Following(ch.address) \in Addresses
    BY <1>3, <1>7, FollowingIs DEF IsReading, Proper
  <2>2. ASSUME ch.outCount + 1 = WordBits PROVE Proper(ContinueOutput(ch))
    <3>1. ContinueOutput(ch)
            = [ch EXCEPT !.dataOut = bit, !.outCount = 0, !.address = Following(ch.address),
                         !.command = "READDATA"]
      BY <1>1, <1>7, <2>2 DEF ContinueOutput, Chips
    <3> HIDE DEF bit
    <3> QED
      BY <1>4, <1>5, <2>1, <3>1
  <2>3. ASSUME ch.outCount + 1 # WordBits PROVE Proper(ContinueOutput(ch))
    <3>1. ContinueOutput(ch)
            = [ch EXCEPT !.dataOut = bit, !.outCount = ch.outCount + 1, !.address = ch.address,
                         !.command = "READDATA"]
      BY <1>1, <1>7, <2>3 DEF ContinueOutput, Chips
    <3> HIDE DEF bit
    <3>2. ch.outCount + 1 \in 0 .. WordBits - 1
      BY <1>1, <2>3 DEF Chips
    <3> QED
      BY <1>4, <2>1, <3>1, <3>2
  <2>5. Proper(ContinueOutput(ch))
    BY <2>2, <2>3
  <2>6. writeClock(ch, value) \in
         {[ch EXCEPT !.clock = value], [ContinueOutput(ch) EXCEPT !.clock = value]}
    BY <1>7 DEF writeClock
  <2> QED
    BY <1>2, <2>5, <2>6
<1>8. CASE ch.command \notin {"READDUMMY", "READDATA"}
  <2>1. Proper(ShiftIn(ch))
    BY <1>8, ShiftInTypes DEF IsReading
  <2>2. writeClock(ch, value) \in
         {[ch EXCEPT !.clock = value], [ShiftIn(ch) EXCEPT !.clock = value]}
    BY <1>8 DEF writeClock
  <2> QED
    BY <1>2, <2>1, <2>2
<1> QED
  BY <1>6, <1>7, <1>8

(* The chip, while a program sends it the bits of a call. *)

\* The chip has got the first k bits of call c, with the k+1st before it.
Takes(ch, c, k, w) ==
  /\ Proper(ch) /\ c \in Calls /\ k \in 0 .. Len(CommandBits(c)) - 1
  /\ ch.cs = 1 /\ ch.dataIn = CommandBits(c)[k + 1]
  /\ ch.shift = SubSeq(CommandBits(c), 1, k) /\ Heard(ch, c, k)
  /\ w \in [mem : Memories, enabled : BOOLEAN] /\ ch.mem = w.mem /\ ch.enabled = w.enabled
  /\ c.op = "WEN" /\ k > 4 => w.enabled
\* It has got the next one, and has done what it had to.
Took(ch, c, n, w) ==
  /\ ch.cs = 1 /\ ch.mem = w.mem /\ ch.enabled = w.enabled
  /\ n < Len(CommandBits(c)) =>
       /\ ch.shift = SubSeq(CommandBits(c), 1, n) /\ Heard(ch, c, n)
       /\ c.op = "WEN" /\ n > 4 => w.enabled
  /\ n = Len(CommandBits(c)) =>
       /\ ch.shift = <<>>
       /\ c.op = "READ" => At(ch, c.address, 0)
       /\ c.op \in {"WRITE", "WRAL", "ERAL"} /\ w.enabled => ch.command = c.op
After(c, n, w) == IF n = WorksAt(c) THEN Effect(c, w) ELSE w

\* The opcodes are those of the chip.
LEMMA CodesAreKnown ==
  ASSUME NEW c \in Calls
  PROVE  /\ Opcode(Code(c.op)) = IF Code(c.op) = <<0, 0>> THEN "CMD00" ELSE c.op
         /\ Code(c.op) = <<0, 0>> <=> c.op \in {"WEN", "WDS", "ERAL", "WRAL"}
         /\ c.op \in {"WEN", "WDS", "ERAL", "WRAL"} => Opcode00(Subcode(c.op)) = c.op
<1>1. c.op \in {"WRITE", "READ", "ERASE", "WEN", "WDS", "ERAL", "WRAL"}
  BY CallIs
<1>2. /\ <<0, 1>> # <<0, 0>> /\ <<1, 0>> # <<0, 0>> /\ <<1, 1>> # <<0, 0>>
      /\ <<0, 1>> # <<1, 0>> /\ <<0, 1>> # <<1, 1>> /\ <<1, 0>> # <<1, 1>>
  OBVIOUS
<1>3. /\ Code("WRITE") = <<0, 1>> /\ Code("READ") = <<1, 0>> /\ Code("ERASE") = <<1, 1>>
      /\ Code("WEN") = <<0, 0>> /\ Code("WDS") = <<0, 0>> /\ Code("ERAL") = <<0, 0>>
      /\ Code("WRAL") = <<0, 0>>
  BY DEF Code
<1>4. /\ Opcode(<<0, 0>>) = "CMD00" /\ Opcode(<<0, 1>>) = "WRITE"
      /\ Opcode(<<1, 0>>) = "READ" /\ Opcode(<<1, 1>>) = "ERASE"
  BY <1>2 DEF Opcode
<1>5. /\ Subcode("WEN") = <<1, 1>> /\ Subcode("WDS") = <<0, 0>>
      /\ Subcode("ERAL") = <<1, 0>> /\ Subcode("WRAL") = <<0, 1>>
  BY DEF Subcode
<1>6. /\ Opcode00(<<1, 1>>) = "WEN" /\ Opcode00(<<0, 0>>) = "WDS"
      /\ Opcode00(<<1, 0>>) = "ERAL" /\ Opcode00(<<0, 1>>) = "WRAL"
  BY <1>2 DEF Opcode00
<1>7. Opcode(Code(c.op)) = IF Code(c.op) = <<0, 0>> THEN "CMD00" ELSE c.op
  BY <1>1, <1>2, <1>3, <1>4
<1>8. Code(c.op) = <<0, 0>> <=> c.op \in {"WEN", "WDS", "ERAL", "WRAL"}
  BY <1>1, <1>2, <1>3
<1>9. c.op \in {"WEN", "WDS", "ERAL", "WRAL"} => Opcode00(Subcode(c.op)) = c.op
  BY <1>5, <1>6
<1> QED
  BY <1>7, <1>8, <1>9

\* The bits it has after the next one.
LEMMA NextBitIs ==
  ASSUME NEW c \in Calls, NEW k \in 0 .. Len(CommandBits(c)) - 1
  PROVE  Append(SubSeq(CommandBits(c), 1, k), CommandBits(c)[k + 1])
           = SubSeq(CommandBits(c), 1, k + 1)
<1> DEFINE cb == CommandBits(c)
<1>1. cb \in Seq(Bit) /\ Len(cb) \in Nat
  BY CommandBitsAre, LenProperties
<1> HIDE DEF cb
<1>2. \A i \in 1 .. Len(cb) : cb[i] \in Bit
  BY <1>1, ElementOfSeq
<1>3. k \in Nat /\ k + 1 \in 1 .. Len(cb)
  BY <1>1 DEF cb
<1>4. /\ SubSeq(cb, 1, k) \in Seq(Bit) /\ Len(SubSeq(cb, 1, k)) = k
      /\ \A i \in 1 .. k : SubSeq(cb, 1, k)[i] = cb[i]
  BY <1>2, <1>3, SubSeqProperties
<1>5. /\ SubSeq(cb, 1, k + 1) \in Seq(Bit) /\ Len(SubSeq(cb, 1, k + 1)) = k + 1
      /\ \A i \in 1 .. k + 1 : SubSeq(cb, 1, k + 1)[i] = cb[i]
  BY <1>2, <1>3, SubSeqProperties
<1> DEFINE s == SubSeq(cb, 1, k)
           t == SubSeq(cb, 1, k + 1)
           u == Append(s, cb[k + 1])
<1>6. s \in Seq(Bit) /\ Len(s) = k /\ \A i \in 1 .. k : s[i] = cb[i]
  BY <1>4
<1>7. t \in Seq(Bit) /\ Len(t) = k + 1 /\ \A i \in 1 .. k + 1 : t[i] = cb[i]
  BY <1>5
<1> HIDE DEF s, t
<1>8. /\ u \in Seq(Bit) /\ Len(u) = k + 1 /\ u[k + 1] = cb[k + 1]
      /\ \A i \in 1 .. k : u[i] = s[i]
  BY <1>2, <1>3, <1>6, AppendProperties
<1> HIDE DEF u
<1>9. \A i \in 1 .. k + 1 : u[i] = t[i]
  BY <1>3, <1>6, <1>7, <1>8
<1>10. u = t
  BY <1>7, <1>8, <1>9, SeqEqual
<1> QED
  BY <1>10 DEF u, s, t, cb

\* A bit in the middle of a call is only added to those before it.
LEMMA BitAdded ==
  ASSUME NEW ch, NEW c, NEW k, NEW w, Takes(ch, c, k, w), NEW n, n = k + 1,
         NEW bits, bits = SubSeq(CommandBits(c), 1, n),
         n < Len(CommandBits(c)), n \notin {3, 5, WorksAt(c)}
  PROVE  Took([ch EXCEPT !.shift = bits], c, n, After(c, n, w))
<1> DEFINE r == [ch EXCEPT !.shift = bits]
<1>1. ch \in Chips /\ k \in Nat /\ Len(CommandBits(c)) \in Nat
  BY CommandBitsAre, LenProperties DEF Takes, Proper
<1>2. After(c, n, w) = w
  BY DEF After
<1>3. r.cs = 1 /\ r.mem = w.mem /\ r.enabled = w.enabled /\ r.command = ch.command
      /\ r.shift = bits
  BY <1>1 DEF Chips, Takes
<1> HIDE DEF r
<1>4. Heard(ch, c, k) => Heard(r, c, n)
  BY <1>1, <1>3 DEF Heard, IsReading
<1>5. n > 4 => k > 4
  BY <1>1
<1>6. Took(r, c, n, w)
  BY <1>3, <1>4, <1>5 DEF Takes, Took
<1> QED
  BY <1>2, <1>6 DEF r

\* The register after the next bit, and what is in it.
LEMMA BitsAre ==
  ASSUME NEW ch, NEW c, NEW k, NEW w, Takes(ch, c, k, w),
         NEW n, n = k + 1, NEW bits, bits = SubSeq(CommandBits(c), 1, n)
  PROVE  /\ ch \in Chips /\ n \in 1 .. Len(CommandBits(c)) /\ Len(CommandBits(c)) \in Nat
         /\ Append(ch.shift, ch.dataIn) = bits /\ bits \in Seq(Bit) /\ Len(bits) = n
         /\ n = 1 => ch.dataIn = 1
         /\ ~IsReading(ch)
<1>1. ch \in Chips /\ c \in Calls /\ k \in 0 .. Len(CommandBits(c)) - 1
      /\ ch.shift = SubSeq(CommandBits(c), 1, k) /\ ch.dataIn = CommandBits(c)[k + 1]
  BY DEF Takes, Proper
<1>2. Len(CommandBits(c)) \in Nat /\ CommandBits(c)[1] = 1
  BY <1>1, CommandBitsAre, LenProperties
<1>3. n \in 1 .. Len(CommandBits(c)) /\ (n = 1 => ch.dataIn = 1)
  BY <1>1, <1>2
<1>4. Append(ch.shift, ch.dataIn) = bits
  BY <1>1, NextBitIs
<1>5. bits \in Seq(Bit) /\ Len(bits) = n
  BY <1>1, <1>3, PartsFound
<1>6. c.op \in {"WRITE", "READ", "ERASE", "WEN", "WDS", "ERAL", "WRAL"}
  BY <1>1, CallIs
<1>7. k < 3 \/ k \in {3, 4} \/ k > 4
  BY <1>1, <1>2
<1>8. ~IsReading(ch)
  BY <1>6, <1>7 DEF Takes, Heard, IsReading
<1> QED
  BY <1>1, <1>2, <1>3, <1>4, <1>5, <1>8

\* The operation works at once, the write enable with its fifth bit.
LEMMA WorksAtIs ==
  ASSUME NEW c \in Calls
  PROVE  /\ c.op = "WEN" => WorksAt(c) = 5
         /\ c.op # "WEN" => WorksAt(c) = Len(CommandBits(c))
         /\ c.op \in {"WRITE", "WRAL"} => Len(CommandBits(c)) = 3 + AddressBits + WordBits
         /\ c.op \notin {"WRITE", "WRAL"} => Len(CommandBits(c)) = 3 + AddressBits
<1>1. /\ Len(CommandBits(c)) = 3 + AddressBits + Len(WordPart(c))
      /\ c.op \in {"WRITE", "WRAL"} => Len(WordPart(c)) = WordBits
      /\ c.op \notin {"WRITE", "WRAL"} => Len(WordPart(c)) = 0
  BY CommandBitsAre
<1> QED
  BY <1>1, SizesAre DEF WorksAt

\* What a call is documented to do, in parts.
LEMMA EffectIs ==
  ASSUME NEW c, NEW w \in [mem : Memories, enabled : BOOLEAN]
  PROVE  /\ c.op = "READ" => Effect(c, w) = w
         /\ c.op = "WEN" => Effect(c, w).mem = w.mem /\ Effect(c, w).enabled = TRUE
         /\ c.op = "WDS" => Effect(c, w).mem = w.mem /\ Effect(c, w).enabled = FALSE
         /\ c.op \in {"WRITE", "ERASE", "WRAL", "ERAL"} => Effect(c, w).enabled = w.enabled
         /\ c.op \in {"WRITE", "ERASE", "WRAL", "ERAL"} /\ ~w.enabled => Effect(c, w) = w
         /\ c.op = "WRITE" /\ w.enabled =>
              Effect(c, w).mem = [w.mem EXCEPT ![c.address] = c.word]
         /\ c.op = "ERASE" /\ w.enabled =>
              Effect(c, w).mem = [w.mem EXCEPT ![c.address] = Ones(WordBits)]
         /\ c.op = "WRAL" /\ w.enabled => Effect(c, w).mem = Filled(c.word)
         /\ c.op = "ERAL" /\ w.enabled => Effect(c, w).mem = Filled(Ones(WordBits))
<1>1. c.op = "READ" => Effect(c, w) = w
  BY DEF Effect
<1>2. c.op = "WEN" => Effect(c, w).mem = w.mem /\ Effect(c, w).enabled = TRUE
  BY DEF Effect
<1>3. c.op = "WDS" => Effect(c, w).mem = w.mem /\ Effect(c, w).enabled = FALSE
  BY DEF Effect
<1>4. c.op \in {"WRITE", "ERASE", "WRAL", "ERAL"} /\ ~w.enabled => Effect(c, w) = w
  BY DEF Effect
<1>5. c.op = "WRITE" /\ w.enabled =>
        /\ Effect(c, w).mem = [w.mem EXCEPT ![c.address] = c.word]
        /\ Effect(c, w).enabled = w.enabled
  BY DEF Effect
<1>6. c.op = "ERASE" /\ w.enabled =>
        /\ Effect(c, w).mem = [w.mem EXCEPT ![c.address] = Ones(WordBits)]
        /\ Effect(c, w).enabled = w.enabled
  BY DEF Effect
<1>7. c.op = "WRAL" /\ w.enabled =>
        Effect(c, w).mem = Filled(c.word) /\ Effect(c, w).enabled = w.enabled
  BY DEF Effect
<1>8. c.op = "ERAL" /\ w.enabled =>
        Effect(c, w).mem = Filled(Ones(WordBits)) /\ Effect(c, w).enabled = w.enabled
  BY DEF Effect
<1> QED
  BY <1>1, <1>2, <1>3, <1>4, <1>5, <1>6, <1>7, <1>8

\* Every bit of a call leaves the chip where the program expects it; the last one has
\* done what the call is for.
LEMMA BitTaken ==
  ASSUME NEW ch, NEW c, NEW k, NEW w, Takes(ch, c, k, w), NEW n, n = k + 1
  PROVE  Took(ShiftIn(ch), c, n, After(c, n, w))
<1> DEFINE bits == SubSeq(CommandBits(c), 1, n)
           length == Len(CommandBits(c))
<1>1. /\ c \in Calls /\ ch.cs = 1 /\ ch.mem = w.mem /\ ch.enabled = w.enabled
      /\ w \in [mem : Memories, enabled : BOOLEAN] /\ ch \in Chips
  BY DEF Takes, Proper
<1>2. c.op \in {"WRITE", "READ", "ERASE", "WEN", "WDS", "ERAL", "WRAL"}
  BY <1>1, CallIs
<1>3. ShiftIn(ch) = BitIn(ch, bits) /\ Len(bits) = n /\ n \in 1 .. length /\ length \in Nat
      /\ (n = 1 => ch.dataIn = 1)
  BY BitsAre DEF ShiftIn
<1>4. /\ n = 3 => SubSeq(bits, 2, 3) = Code(c.op)
      /\ n = 5 /\ Code(c.op) = <<0, 0>> => SubSeq(bits, 4, 5) = Subcode(c.op)
      /\ n >= 3 + AddressBits => SubSeq(bits, 4, 3 + AddressBits) = AddressPart(c)
      /\ n = 3 + AddressBits + WordBits /\ c.op \in {"WRITE", "WRAL"} =>
           SubSeq(bits, 4 + AddressBits, Len(bits)) = c.word
  BY <1>1, <1>3, PartsFound
<1>5. /\ c.op \in {"WRITE", "WRAL"} => length = 3 + AddressBits + WordBits
      /\ c.op \notin {"WRITE", "WRAL"} => length = 3 + AddressBits
      /\ WorksAt(c) = IF c.op = "WEN" THEN 5 ELSE length
  BY <1>1, WorksAtIs
<1>6. /\ n \in {4, 5} => ch.command = IF Code(c.op) = <<0, 0>> THEN "CMD00" ELSE c.op
      /\ n > 5 => ch.command = c.op /\ (c.op = "WEN" => w.enabled)
  BY <1>3 DEF Takes, Heard
<1> DEFINE w2 == After(c, n, w)
<1>7. n # WorksAt(c) => w2 = w
  BY DEF After
<1>8. bits = SubSeq(CommandBits(c), 1, n)
  OBVIOUS
<1> HIDE DEF bits, length, w2
<1>9. CASE n = 3
  <2> DEFINE r == [ch EXCEPT !.shift = bits, !.command = Opcode(Code(c.op))]
  <2>1. BitIn(ch, bits) = r
    <3>1. SubSeq(bits, 2, 3) = Code(c.op) /\ Len(bits) = 3 /\ Len(bits) \in Nat
      BY <1>3, <1>4, <1>9
    <3>2. BitIn(ch, bits) = [ch EXCEPT !.shift = bits, !.command = Opcode(SubSeq(bits, 2, 3))]
      BY <1>1, <3>1, BitInIs
    <3> QED
      BY <3>1, <3>2
  <2>2. r.cs = 1 /\ r.mem = w.mem /\ r.enabled = w.enabled /\ r.shift = bits
        /\ r.command = Opcode(Code(c.op))
    BY <1>1 DEF Chips
  <2> HIDE DEF r
  <2>3. n < length /\ w2 = w
    BY <1>5, <1>7, <1>9, SizesAre
  <2>4. Heard(r, c, n)
    BY <1>1, <1>9, <2>2, CodesAreKnown DEF Heard
  <2> QED
    BY <1>3, <1>8, <1>9, <2>1, <2>2, <2>3, <2>4 DEF Took, w2, length
<1>10. CASE n = 5 /\ Code(c.op) = <<0, 0>>
  <2> DEFINE r == [ch EXCEPT !.shift = bits, !.command = c.op,
                             !.enabled = ch.enabled \/ c.op = "WEN"]
  <2>1. ch.command = "CMD00" /\ Opcode00(SubSeq(bits, 4, 5)) = c.op
    BY <1>1, <1>4, <1>6, <1>10, CodesAreKnown
  <2>2. BitIn(ch, bits) = r
    <3>1. Len(bits) = 5 /\ Len(bits) \in Nat
      BY <1>3, <1>10
    <3>2. BitIn(ch, bits) = [ch EXCEPT !.shift = bits, !.command = Opcode00(SubSeq(bits, 4, 5)),
                                 !.enabled = ch.enabled \/ Opcode00(SubSeq(bits, 4, 5)) = "WEN"]
      BY <1>1, <2>1, <3>1, BitInIs
    <3> QED
      BY <2>1, <3>2
  <2>3. r.cs = 1 /\ r.mem = w.mem /\ r.shift = bits /\ r.command = c.op
        /\ r.enabled = (w.enabled \/ c.op = "WEN")
    BY <1>1 DEF Chips
  <2> HIDE DEF r
  <2>4. n < length
    BY <1>5, <1>10, SizesAre
  <2>5. c.op = "WEN" => w2.mem = w.mem /\ w2.enabled = TRUE
    BY <1>1, <1>5, <1>10 DEF After, Effect, w2
  <2>6. c.op # "WEN" => w2 = w
    BY <1>5, <1>7, <2>4
  <2>7. Heard(r, c, n)
    BY <1>10, <2>3 DEF Heard
  <2>8. r.mem = w2.mem /\ r.enabled = w2.enabled
    BY <1>1, <2>3, <2>5, <2>6
  <2> QED
    BY <1>3, <1>8, <2>2, <2>3, <2>4, <2>5, <2>7, <2>8 DEF Took, w2, length
<1>11. CASE n = 5 /\ Code(c.op) # <<0, 0>>
  <2> DEFINE r == [ch EXCEPT !.shift = bits]
  <2>1. c.op # "WEN" /\ ch.command # "CMD00" /\ ch.command = c.op
    BY <1>1, <1>2, <1>6, <1>11, CodesAreKnown
  <2>2. BitIn(ch, bits) = r
    BY <1>3, <1>11, <2>1, SizesAre DEF BitIn
  <2>3. r.cs = 1 /\ r.mem = w.mem /\ r.shift = bits /\ r.command = c.op /\ r.enabled = w.enabled
    BY <1>1, <2>1 DEF Chips
  <2> HIDE DEF r
  <2>4. n < length /\ w2 = w
    BY <1>5, <1>7, <1>11, <2>1, SizesAre
  <2>5. Heard(r, c, n)
    BY <1>11, <2>3 DEF Heard
  <2> QED
    BY <1>3, <1>8, <2>1, <2>2, <2>3, <2>4, <2>5 DEF Took, w2, length
<1>12. CASE n \notin {3, 5} /\ n < length
  <2> DEFINE r == [ch EXCEPT !.shift = bits]
  <2>1. BitIn(ch, bits) = r
    <3>1. Len(bits) = n /\ Len(bits) \in Nat
      BY <1>3
    <3>2. ASSUME n = 1 PROVE BitIn(ch, bits) = r
      <4>1. BitIn(ch, bits) = [ch EXCEPT !.shift = IF ch.dataIn = 0 THEN <<>> ELSE bits]
        BY <1>1, <3>1, <3>2, BitInIs
      <4>2. ch.dataIn # 0
        BY <1>3, <3>2
      <4> QED
        BY <4>1, <4>2
    <3>3. ASSUME n = 3 + AddressBits PROVE BitIn(ch, bits) = r
      <4>1. BitIn(ch, bits) = AddressIn(ch, bits)
        <5>1. Len(bits) = 3 + AddressBits
          BY <3>1, <3>3
        <5> QED
          BY <1>1, <3>1, <5>1, BitInIs
      <4>2. ch.command \in {"WRITE", "WRAL"}
        BY <1>2, <1>5, <1>6, <1>12, <3>3, SizesAre
      <4> QED
        BY <4>1, <4>2 DEF AddressIn
    <3>4. ASSUME n \notin {1, 3 + AddressBits} PROVE BitIn(ch, bits) = r
      <4>1. Len(bits) < 4 + AddressBits + WordBits
            /\ Len(bits) \notin {3 + AddressBits, 3 + AddressBits + WordBits}
        BY <1>3, <1>5, <1>12, <3>4, SizesAre
      <4>2. Len(bits) \notin {1, 3, 5}
        BY <1>12, <3>1, <3>4
      <4> QED
        BY <1>1, <3>1, <4>1, <4>2, BitInIs
    <3> QED
      BY <3>2, <3>3, <3>4
  <2>2. n # WorksAt(c)
    BY <1>5, <1>12
  <2> QED
    BY <1>3, <1>8, <1>12, <2>1, <2>2, BitAdded DEF length, w2
<1>13. CASE n = length /\ c.op \notin {"WRITE", "WRAL"}
  <2> DEFINE a == SubSeq(bits, 4, 3 + AddressBits)
             done == [ch EXCEPT !.shift = <<>>]
  <2>1. n = 3 + AddressBits /\ n > 5 /\ Len(bits) \in Nat /\ Len(bits) = 3 + AddressBits
    BY <1>3, <1>5, <1>13, SizesAre
  <2>2. BitIn(ch, bits) = AddressIn(ch, bits) /\ ch.command = c.op /\ a = AddressPart(c)
    <3>1. BitIn(ch, bits) = AddressIn(ch, bits)
      BY <1>1, <2>1, BitInIs
    <3> QED
      BY <1>4, <1>6, <2>1, <3>1
  <2>3. c.op \in {"READ", "ERASE"} => a = c.address
    BY <1>1, <2>2, AddressPartIs, CodesAreKnown
  <2>4. done \in Chips /\ done.cs = 1 /\ done.mem = w.mem /\ done.enabled = w.enabled
        /\ done.command = c.op /\ done.shift = <<>>
    <3>1. <<>> \in Seq(Bit)
      OBVIOUS
    <3> QED
      BY <1>1, <2>2, <3>1 DEF Chips
  <2>5. IF c.op = "WEN" THEN w2 = w /\ w.enabled ELSE w2 = Effect(c, w)
    BY <1>5, <1>6, <1>7, <1>13, <2>1 DEF After, w2
  <2>6. AddressIn(ch, bits) =
          CASE c.op = "READ" -> [done EXCEPT !.command = "READDUMMY", !.address = a]
            [] c.op = "WDS" -> [done EXCEPT !.command = "none", !.enabled = FALSE]
            [] c.op = "WEN" -> [done EXCEPT !.command = "none", !.enabled = TRUE]
            [] c.op \in {"ERASE", "ERAL"} /\ ~ch.enabled -> [done EXCEPT !.command = "none"]
            [] c.op = "ERASE" /\ ch.enabled ->
                 [done EXCEPT !.address = a, !.mem[a] = Ones(WordBits)]
            [] c.op = "ERAL" /\ ch.enabled -> [done EXCEPT !.mem = Filled(Ones(WordBits))]
            [] OTHER -> [ch EXCEPT !.shift = bits]
    BY <2>2 DEF AddressIn, Refused
  <2> HIDE DEF a, done
  <2> DEFINE r == AddressIn(ch, bits)
  <2>7. ASSUME r.cs = 1, r.shift = <<>>, r.mem = w2.mem, r.enabled = w2.enabled,
               c.op = "READ" => r.command = "READDUMMY" /\ r.address = c.address,
               c.op = "ERAL" /\ w2.enabled => r.command = c.op
        PROVE  Took(ShiftIn(ch), c, n, After(c, n, w))
    BY <1>3, <1>13, <2>2, <2>7, SizesAre DEF Took, At, length, w2
  <2>8. CASE c.op = "READ"
    <3>1. r = [done EXCEPT !.command = "READDUMMY", !.address = a] /\ w2 = w
      BY <1>1, <2>5, <2>6, <2>8, EffectIs
    <3> HIDE DEF r
    <3> QED
      BY <2>3, <2>4, <2>7, <2>8, <3>1 DEF Chips
  <2>9. CASE c.op \in {"WDS", "WEN"}
    <3>1. r = [done EXCEPT !.command = "none", !.enabled = (c.op = "WEN")]
      BY <2>6, <2>9
    <3>2. w2.mem = w.mem /\ w2.enabled = (c.op = "WEN")
      <4>1. c.op = "WEN" => w2 = w /\ w.enabled
        BY <2>5
      <4>2. c.op = "WDS" => w2.mem = w.mem /\ w2.enabled = FALSE
        <5>1. c.op = "WDS" => w2 = Effect(c, w)
          BY <2>5
        <5>2. c.op = "WDS" => Effect(c, w).mem = w.mem /\ Effect(c, w).enabled = FALSE
          BY <1>1, EffectIs
        <5> QED
          BY <5>1, <5>2
      <4> QED
        BY <1>1, <2>9, <4>1, <4>2
    <3> HIDE DEF r
    <3> QED
      BY <2>4, <2>7, <2>9, <3>1, <3>2 DEF Chips
  <2>10. CASE c.op \in {"ERASE", "ERAL"} /\ ~ch.enabled
    <3>1. r = [done EXCEPT !.command = "none"]
      BY <2>6, <2>10
    <3>2. w2 = w /\ ~w.enabled
      BY <1>1, <2>5, <2>10, EffectIs
    <3> HIDE DEF r
    <3> QED
      BY <2>4, <2>7, <2>10, <3>1, <3>2 DEF Chips
  <2>11. CASE c.op = "ERASE" /\ ch.enabled
    <3>1. r = [done EXCEPT !.address = a, !.mem[a] = Ones(WordBits)]
      BY <2>6, <2>11
    <3>2. w2.mem = [w.mem EXCEPT ![c.address] = Ones(WordBits)] /\ w2.enabled = w.enabled
      <4>1. w2 = Effect(c, w) /\ w.enabled
        BY <1>1, <2>5, <2>11
      <4> QED
        BY <1>1, <2>11, <4>1, EffectIs
    <3> HIDE DEF r
    <3> QED
      BY <2>3, <2>4, <2>7, <2>11, <3>1, <3>2 DEF Chips
  <2>12. CASE c.op = "ERAL" /\ ch.enabled
    <3>1. r = [done EXCEPT !.mem = Filled(Ones(WordBits))]
      BY <2>6, <2>12
    <3>2. w2.mem = Filled(Ones(WordBits)) /\ w2.enabled = w.enabled
      <4>1. w2 = Effect(c, w) /\ w.enabled
        BY <1>1, <2>5, <2>12
      <4> QED
        BY <1>1, <2>12, <4>1, EffectIs
    <3> HIDE DEF r
    <3> QED
      BY <2>4, <2>7, <2>12, <3>1, <3>2 DEF Chips
  <2> QED
    BY <1>2, <1>13, <2>8, <2>9, <2>10, <2>11, <2>12
<1>14. CASE n = length /\ c.op \in {"WRITE", "WRAL"}
  <2> DEFINE a == SubSeq(bits, 4, 3 + AddressBits)
             word == SubSeq(bits, 4 + AddressBits, Len(bits))
             done == [ch EXCEPT !.shift = <<>>]
  <2>1. /\ n = 3 + AddressBits + WordBits /\ n > 5 /\ n >= 3 + AddressBits
        /\ Len(bits) \in Nat /\ Len(bits) = 3 + AddressBits + WordBits
    BY <1>3, <1>5, <1>14, SizesAre
  <2>2. BitIn(ch, bits) = WordIn(ch, bits) /\ ch.command = c.op /\ a = AddressPart(c)
        /\ word = c.word
    <3>1. BitIn(ch, bits) = WordIn(ch, bits)
      BY <1>1, <2>1, BitInIs
    <3> QED
      BY <1>4, <1>6, <1>14, <2>1, <3>1
  <2>3. c.op = "WRITE" => a = c.address
    BY <1>1, <2>2, AddressPartIs, CodesAreKnown
  <2>4. done \in Chips /\ done.cs = 1 /\ done.mem = w.mem /\ done.enabled = w.enabled
        /\ done.command = c.op /\ done.shift = <<>>
    <3>1. <<>> \in Seq(Bit)
      OBVIOUS
    <3> QED
      BY <1>1, <2>2, <3>1 DEF Chips
  <2>5. w2 = Effect(c, w)
    BY <1>5, <1>14 DEF After, w2
  <2>6. WordIn(ch, bits) =
          CASE c.op \in {"WRITE", "WRAL"} /\ ~ch.enabled -> [done EXCEPT !.command = "none"]
            [] c.op = "WRITE" /\ ch.enabled -> [done EXCEPT !.address = a, !.mem[a] = word]
            [] c.op = "WRAL" /\ ch.enabled ->
                 [done EXCEPT !.address = PastEnd, !.mem = Filled(word)]
            [] OTHER -> [ch EXCEPT !.shift = bits]
    BY <2>2 DEF WordIn, Refused
  <2> HIDE DEF a, word, done
  <2> DEFINE r == WordIn(ch, bits)
  <2>7. ASSUME r.cs = 1, r.shift = <<>>, r.mem = w2.mem, r.enabled = w2.enabled,
               w2.enabled => r.command = c.op
        PROVE  Took(ShiftIn(ch), c, n, After(c, n, w))
    BY <1>3, <1>14, <2>2, <2>7, SizesAre DEF Took, length, w2
  <2>8. CASE ~ch.enabled
    <3>1. r = [done EXCEPT !.command = "none"]
      BY <1>14, <2>6, <2>8
    <3>2. w2 = w /\ ~w.enabled
      BY <1>1, <1>14, <2>5, <2>8, EffectIs
    <3> HIDE DEF r
    <3> QED
      BY <2>4, <2>7, <3>1, <3>2 DEF Chips
  <2>9. CASE c.op = "WRITE" /\ ch.enabled
    <3>1. r = [done EXCEPT !.address = a, !.mem[a] = word]
      BY <2>6, <2>9
    <3>2. w2.mem = [w.mem EXCEPT ![c.address] = c.word] /\ w2.enabled = w.enabled
      BY <1>1, <2>5, <2>9, EffectIs
    <3> HIDE DEF r
    <3> QED
      BY <2>2, <2>3, <2>4, <2>7, <2>9, <3>1, <3>2 DEF Chips
  <2>10. CASE c.op = "WRAL" /\ ch.enabled
    <3>1. r = [done EXCEPT !.address = PastEnd, !.mem = Filled(word)]
      BY <2>6, <2>10
    <3>2. w2.mem = Filled(c.word) /\ w2.enabled = w.enabled
      BY <1>1, <2>5, <2>10, EffectIs
    <3> HIDE DEF r
    <3> QED
      BY <2>2, <2>4, <2>7, <2>10, <3>1, <3>2 DEF Chips
  <2> QED
    BY <1>14, <2>8, <2>9, <2>10
<1> QED
  BY <1>3, <1>9, <1>10, <1>11, <1>12, <1>13, <1>14

\* What is wanted of the EEPROM stays an EEPROM that is enabled or not.
LEMMA EffectTypes ==
  ASSUME NEW c \in Calls, NEW w \in [mem : Memories, enabled : BOOLEAN]
  PROVE  Effect(c, w) \in [mem : Memories, enabled : BOOLEAN]
<1>1. c.address \in Addresses /\ c.word \in Word /\ Filled(c.word) \in Memories
      /\ Ones(WordBits) \in Word /\ Filled(Ones(WordBits)) \in Memories
  BY CallIs, FilledAre
<1>2. \A word \in Word : [w.mem EXCEPT ![c.address] = word] \in Memories
  BY <1>1 DEF Memories
<1>3. \A m \in Memories : [w EXCEPT !.mem = m] \in [mem : Memories, enabled : BOOLEAN]
  OBVIOUS
<1>4. \A e \in BOOLEAN : [w EXCEPT !.enabled = e] \in [mem : Memories, enabled : BOOLEAN]
  OBVIOUS
<1>5. Effect(c, w) \in {w, [w EXCEPT !.enabled = TRUE], [w EXCEPT !.enabled = FALSE],
                        [w EXCEPT !.mem = [w.mem EXCEPT ![c.address] = c.word]],
                        [w EXCEPT !.mem = [w.mem EXCEPT ![c.address] = Ones(WordBits)]],
                        [w EXCEPT !.mem = Filled(c.word)],
                        [w EXCEPT !.mem = Filled(Ones(WordBits))]}
  BY DEF Effect
<1> QED
  BY <1>1, <1>2, <1>3, <1>4, <1>5

(* The program, and the handler. *)

\* What the program writes are bits.
LEMMA WrittenIs ==
  ASSUME ProgramTypes, step \in Writing
  PROVE  /\ Written.cs \in Bit /\ Written.data \in Bit /\ Written.clock \in Bit
         /\ step # "idle" /\ call \in Calls
<1>1. 0 \in Bit /\ 1 \in Bit /\ step # "idle" /\ call \in Calls
  BY DEF ProgramTypes, Writing, Bit
<1>2. step \in {"low", "high"} => CommandBits(call)[clocked + 1] \in Bit
  <2> SUFFICES ASSUME step \in {"low", "high"} PROVE CommandBits(call)[clocked + 1] \in Bit
    OBVIOUS
  <2> DEFINE cb == CommandBits(call)
  <2>1. cb \in Seq(Bit) /\ Len(cb) \in Nat
    BY <1>1, CommandBitsAre, LenProperties
  <2>2. clocked \in Nat /\ clocked < Len(cb)
    BY DEF ProgramTypes
  <2> HIDE DEF cb
  <2>3. clocked + 1 \in 1 .. Len(cb)
    BY <2>1, <2>2
  <2>4. cb[clocked + 1] \in Bit
    BY <2>1, <2>3, ElementOfSeq
  <2> QED
    BY <2>4 DEF cb
<1>3. CASE step \in {"low", "high"}
  <2> DEFINE bit == CommandBits(call)[clocked + 1]
  <2>1. Written = Put(1, bit, IF step = "low" THEN 0 ELSE 1)
    BY <1>3 DEF Written
  <2>2. bit \in Bit
    BY <1>2, <1>3
  <2> HIDE DEF bit
  <2> QED
    BY <1>1, <2>1, <2>2 DEF Put
<1>4. CASE step \notin {"low", "high"}
  <2>1. Written \in {Put(0, 0, 0), Put(1, 0, 1), Put(1, 0, 0)}
    BY <1>4 DEF Written, Deselect
  <2> QED
    BY <1>1, <2>1 DEF Put
<1> QED
  BY <1>3, <1>4

\* Whatever is written and read, the chip stays a proper one.
LEMMA HandlerTypes ==
  ASSUME NEW access, access.cs \in Bit, access.data \in Bit, access.clock \in Bit,
         Proper(chip), HandlerWrites(access)
  PROVE  Proper(chip')
<1> DEFINE selected == writeSelect(chip, access.cs)
           d == [selected EXCEPT !.dataIn = access.data]
<1>1. Proper(selected)
  BY SelectTypes
<1>2. chip' \in {selected, writeClock(d, access.clock)}
  BY DEF HandlerWrites
<1> HIDE DEF selected
<1>3. Proper(d)
  BY <1>1 DEF Proper, Chips, IsReading
<1> HIDE DEF d
<1>4. Proper(writeClock(d, access.clock))
  BY <1>3, ClockTypes
<1> QED
  BY <1>1, <1>2, <1>4

\* A write of the program keeps the types,
LEMMA WritesKeepTypes ==
  ASSUME CallTypes, ProgramWrites
  PROVE  CallTypes'
<1> USE DEF CallTypes
<1>1. /\ Written.cs \in Bit /\ Written.data \in Bit /\ Written.clock \in Bit
      /\ step # "idle" /\ call \in Calls /\ step \in Writing
  BY WrittenIs DEF ProgramWrites
<1>2. Proper(chip')
  <2>1. Proper(chip) /\ HandlerWrites(Written)
    BY DEF BoardTypes, ProgramWrites
  <2> QED
    BY <1>1, <2>1, HandlerTypes
<1>3. reg0' \in 0 .. 63
  <2>1. reg0' = 32 * Written.clock + 16 * Written.data
    BY DEF ProgramWrites
  <2> HIDE DEF Written
  <2>2. Written.data \in {0, 1} /\ Written.clock \in {0, 1}
    BY <1>1 DEF Bit
  <2> QED
    BY <2>1, <2>2
<1>4. lines' \in {"8K", "off"} /\ power' = power
  BY DEF ProgramWrites, Configuration, NextAccess
<1>5. BoardTypes'
  BY <1>2, <1>3, <1>4 DEF BoardTypes, Proper, IsReading
<1>6. SavingTypes'
  BY DEF SavingTypes, ProgramWrites, NextAccess, writeVars
<1>7. want' \in [mem : Memories, enabled : BOOLEAN]
  <2>1. want' \in {want, Effect(call, want)} /\ want \in [mem : Memories, enabled : BOOLEAN]
    BY DEF ProgramWrites, ProgramTypes
  <2> QED
    BY <1>1, <2>1, EffectTypes
<1>8. stale' \in BOOLEAN /\ mpc' # "menu"
  BY DEF ProgramWrites, NextAccess, Running, Serves, ProgramTypes, writeVars
<1>9. CASE Over
  <2>1. call' = NoCall /\ step' = "idle" /\ clocked' = 0 /\ got' = <<>> /\ polled' = <<>>
    BY <1>9 DEF ProgramWrites, Idle, Begin
  <2>2. <<>> \in Seq(Bit)
    OBVIOUS
  <2> QED
    BY <1>5, <1>6, <1>7, <1>8, <2>1, <2>2 DEF ProgramTypes
<1>10. CASE ~Over
  <2>1. /\ step' = AfterWrite /\ clocked' = IF step = "high" THEN clocked + 1 ELSE clocked
        /\ call' = call /\ got' = got /\ polled' = polled
    BY <1>10 DEF ProgramWrites
  <2>2. step # "last"
    BY <1>10 DEF Over
  <2>3. step' \in {"poll", "get"} \cup Writing /\ step' # "idle"
    BY <1>1, <2>1, <2>2 DEF AfterWrite, Writing
  <2>4. clocked' \in Nat
    BY <2>1 DEF ProgramTypes
  <2>5. step' \in {"low", "high"} => clocked' < Len(CommandBits(call))
    <3>1. /\ CommandBits(call) \in Seq(Bit)
          /\ Len(CommandBits(call)) = 3 + AddressBits + Len(WordPart(call))
          /\ Len(WordPart(call)) \in {0, WordBits}
      BY <1>1, CommandBitsAre
    <3>2. Len(CommandBits(call)) \in Nat /\ 0 < Len(CommandBits(call))
      BY <3>1, SizesAre, LenProperties
    <3>3. step \in {"select", "low", "high"} \/ step' \notin {"low", "high"}
      BY <1>1, <2>1, <2>2 DEF AfterWrite, Writing
    <3>4. CASE step = "select"
      BY <2>1, <3>2, <3>4 DEF ProgramTypes
    <3>5. CASE step = "low"
      BY <2>1, <3>5 DEF ProgramTypes
    <3>6. CASE step = "high"
      BY <2>1, <3>6 DEF AfterWrite
    <3> QED
      BY <3>3, <3>4, <3>5, <3>6
  <2>6. step' \in {"begin", "select"} => clocked' = 0
    <3>1. step' # "begin" /\ (step' = "select" => step = "begin")
      BY <1>1, <2>1, <2>2 DEF AfterWrite, Writing
    <3> QED
      BY <2>1, <3>1 DEF ProgramTypes
  <2> QED
    BY <1>1, <1>5, <1>6, <1>7, <1>8, <2>1, <2>3, <2>4, <2>5, <2>6 DEF ProgramTypes
<1> QED
  BY <1>9, <1>10

\* and so does a read.
LEMMA ReadsKeepTypes ==
  ASSUME CallTypes, ProgramReads
  PROVE  CallTypes'
<1> USE DEF CallTypes
<1> DEFINE bit == HandlerReads[1]
<1>1. bit \in Bit /\ Proper(chip')
  BY ReadTypes DEF HandlerReads, BoardTypes, ProgramReads, Bit
<1>2. BoardTypes'
  BY <1>1 DEF BoardTypes, Proper, IsReading, ProgramReads, NextAccess, cartVars
<1>3. SavingTypes' /\ mpc' # "menu" /\ stale' = stale /\ want' = want /\ clocked' = clocked
      /\ call' = call
  BY DEF SavingTypes, ProgramReads, NextAccess, writeVars, Running, Serves
<1>4. step \in {"get", "poll"} /\ step' \in {"end", "readLow", "poll", "last"}
      /\ got' \in {got, Append(got, bit)} /\ polled' \in {polled, Append(polled, bit)}
  BY DEF ProgramReads
<1> HIDE DEF bit
<1>5. got' \in Seq(Bit) /\ polled' \in Seq(Bit)
  <2>1. got \in Seq(Bit) /\ polled \in Seq(Bit)
    BY DEF ProgramTypes
  <2>2. Append(got, bit) \in Seq(Bit) /\ Append(polled, bit) \in Seq(Bit)
    BY <1>1, <2>1, AppendProperties
  <2> QED
    BY <1>4, <2>1, <2>2
<1> QED
  BY <1>2, <1>3, <1>4, <1>5 DEF ProgramTypes, Writing

\* Without a file there is an EEPROM, too.
LEMMA ContentsAre ==
  ASSUME NEW f \in Memories \cup {NoFile}
  PROVE  Contents(f) \in Memories
  BY FilledAre DEF Contents

\* The chip that is turned on is a proper one.
LEMMA InitialChipIs == Proper(InitialChip)
<1>1. /\ Zeros(AddressBits) \in Addresses /\ Filled(Zeros(WordBits)) \in Memories
      /\ 0 \in Bit /\ 0 \in 0 .. WordBits - 1 /\ "none" \in Commands
      /\ <<>> \in Seq(Bit) /\ Len(<<>>) = 0 /\ 0 < 4 + AddressBits + WordBits
  BY FilledAre, SizesAre DEF Bit, Commands
<1> QED
  BY <1>1 DEF InitialChip, Proper, IsReading, Chips

\* A program that ends or is cut has the types of one that asks for nothing.
LEMMA IdleTypes ==
  ASSUME CallTypes, Idle, want' \in [mem : Memories, enabled : BOOLEAN], stale' \in BOOLEAN
  PROVE  ProgramTypes'
<1>1. call' = NoCall /\ step' = "idle" /\ clocked' = 0 /\ got' = <<>> /\ polled' = <<>>
  BY DEF Idle, Begin
<1>2. <<>> \in Seq(Bit)
  OBVIOUS
<1> QED
  BY <1>1, <1>2 DEF ProgramTypes

\* Whatever else happens keeps the types.
LEMMA OthersKeepTypes ==
  ASSUME CallTypes,
         \/ \E c \in Calls : Ask(c)
         \/ GMOD2ResetCycle \/ User \/ SavingLoop \/ Launch \/ PowerLoss \/ UNCHANGED gmod2Vars
  PROVE  CallTypes'
<1> USE DEF CallTypes
<1>1. ASSUME NEW c \in Calls, Ask(c) PROVE CallTypes'
  <2>1. /\ call' = c /\ step' = "begin" /\ clocked' = 0 /\ got' = <<>> /\ polled' = <<>>
        /\ UNCHANGED <<chip, reg0, lines, mpc, eepromFile, lower, ff, power, want, stale>>
        /\ mpc # "menu"
    BY <1>1 DEF Ask, Begin, cartVars, writeVars, Running, Serves
  <2>2. <<>> \in Seq(Bit) /\ c # NoCall
    BY CallIs DEF NoCall
  <2>3. BoardTypes' /\ SavingTypes'
    BY <2>1 DEF BoardTypes, SavingTypes, Proper, IsReading
  <2> QED
    BY <2>1, <2>2, <2>3 DEF ProgramTypes, Writing
<1>2. CASE GMOD2ResetCycle
  BY <1>2 DEF GMOD2ResetCycle, writeVars, programVars, BoardTypes, SavingTypes, ProgramTypes,
              Proper, IsReading
<1>3. CASE BeginC64Reset \/ TurnOff
  <2>1. /\ Idle /\ stale' \in BOOLEAN /\ power' \in {"reset", "off"}
        /\ UNCHANGED <<chip, reg0, lines, mpc, eepromFile, lower, ff, want>>
    BY <1>3 DEF BeginC64Reset, TurnOff, Cut, cartVars, writeVars
  <2>2. BoardTypes' /\ SavingTypes'
    BY <2>1 DEF BoardTypes, SavingTypes, Proper, IsReading
  <2>3. ProgramTypes'
    BY <2>1, IdleTypes DEF ProgramTypes
  <2> QED
    BY <2>2, <2>3
<1>4. CASE EndC64Reset \/ TurnOn
  <2>1. /\ power' \in {"on", "reset"} /\ UNCHANGED <<chip, reg0, lines, mpc, eepromFile, lower, ff>>
        /\ UNCHANGED <<call, step, clocked, got, polled, want, stale>>
    BY <1>4 DEF EndC64Reset, TurnOn, writeVars, programVars, cartVars
  <2>2. BoardTypes' /\ SavingTypes'
    BY <2>1 DEF BoardTypes, SavingTypes, Proper, IsReading
  <2> QED
    BY <2>1, <2>2 DEF ProgramTypes
<1>5. CASE TestForJump \/ LooksOff
  <2>1. /\ mpc' = "lower" /\ eepromFile' = NoFile /\ ~ff
        /\ UNCHANGED <<chip, reg0, lines, lower, ff, power, call, step, clocked, got, polled, want,
                       stale>>
    BY <1>5 DEF TestForJump, LooksOff, BeginWriteFile, programVars, cartVars, SavingTypes
  <2>2. BoardTypes' /\ SavingTypes'
    BY <2>1 DEF BoardTypes, SavingTypes, Proper, IsReading
  <2> QED
    BY <2>1, <2>2 DEF ProgramTypes
<1>6. CASE WriteLower
  BY <1>6 DEF WriteLower, programVars, cartVars, BoardTypes, SavingTypes, ProgramTypes,
              Proper, IsReading, Chips
<1>7. CASE WriteUpper
  <2>1. lower \in Memories /\ chip.mem \in Memories
    BY <1>7 DEF WriteUpper, BoardTypes, SavingTypes, Proper, Chips
  <2>2. [a \in Addresses |-> IF Below(a) THEN lower[a] ELSE chip.mem[a]] \in Memories
    BY <2>1 DEF Memories
  <2>3. lower' \in Memories /\ mpc' = "close" /\ ff' = ff /\ eepromFile' = eepromFile
    BY <1>7, <2>2 DEF WriteUpper
  <2>4. BoardTypes'
    BY <1>7 DEF WriteUpper, programVars, cartVars, BoardTypes, Proper, IsReading
  <2>5. SavingTypes'
    BY <1>7, <2>3 DEF WriteUpper, SavingTypes
  <2>6. ProgramTypes'
    BY <1>7 DEF WriteUpper, programVars, ProgramTypes
  <2> QED
    BY <2>4, <2>5, <2>6
<1>8. CASE Close
  <2>1. /\ mpc' \in {"menu", "loop"} /\ UNCHANGED <<chip, reg0, lines, ff, want>>
        /\ power' \in {power, "on"} /\ ~ff /\ eepromFile' \in Memories
    BY <1>8 DEF Close, cartVars, SavingTypes
  <2>2. BoardTypes' /\ SavingTypes'
    BY <2>1 DEF BoardTypes, SavingTypes, Proper, IsReading
  <2>3. CASE leaving
    <3>1. Idle /\ stale' \in BOOLEAN
      BY <1>8, <2>3 DEF Close, Cut
    <3> QED
      BY <2>1, <2>2, <3>1, IdleTypes DEF ProgramTypes
  <2>4. CASE ~leaving
    BY <1>8, <2>1, <2>2, <2>4 DEF Close, programVars, ProgramTypes
  <2> QED
    BY <2>3, <2>4
<1>9. CASE Launch
  <2> DEFINE m == Contents(eepromFile)
             selected == IF ff THEN writeSelect(chip, 0) ELSE chip
  <2>1. m \in Memories
    BY ContentsAre DEF SavingTypes
  <2>2. Proper(selected)
    BY SelectTypes DEF BoardTypes, Bit
  <2>3. chip' = [selected EXCEPT !.mem = m] /\ want' = [want EXCEPT !.mem = m]
    BY <1>9 DEF Launch
  <2> HIDE DEF m, selected
  <2>4. Proper(chip')
    BY <2>1, <2>2, <2>3 DEF Proper, Chips, IsReading
  <2>5. BoardTypes'
    BY <1>9, <2>4 DEF Launch, BoardTypes, Proper, IsReading
  <2>6. SavingTypes'
    BY <1>9 DEF Launch, SavingTypes
  <2>7. want' \in [mem : Memories, enabled : BOOLEAN]
    BY <2>1, <2>3 DEF ProgramTypes
  <2>8. ProgramTypes'
    BY <1>9, <2>7 DEF Launch, programVars, ProgramTypes
  <2> QED
    BY <2>5, <2>6, <2>8
<1>10. CASE PowerLoss
  <2>1. Contents(eepromFile) \in Memories
    BY ContentsAre DEF SavingTypes
  <2>2. want' \in [mem : Memories, enabled : BOOLEAN] /\ stale' \in BOOLEAN /\ Idle
    BY <1>10, <2>1 DEF PowerLoss
  <2>3. ProgramTypes'
    BY <2>2, IdleTypes
  <2>4. chip' = InitialChip /\ UNCHANGED <<reg0, lines>> /\ power' = "on"
    BY <1>10 DEF PowerLoss, cartVars
  <2>5. BoardTypes'
    BY <2>4, InitialChipIs DEF BoardTypes, Proper, IsReading
  <2>6. SavingTypes'
    BY <1>10 DEF PowerLoss, SavingTypes
  <2> QED
    BY <2>3, <2>5, <2>6
<1>11. CASE UNCHANGED gmod2Vars
  BY <1>11 DEF gmod2Vars, programVars, cartVars, writeVars, BoardTypes, SavingTypes, ProgramTypes,
               Proper, IsReading
<1> QED
  BY <1>1, <1>2, <1>3, <1>4, <1>5, <1>6, <1>7, <1>8, <1>9, <1>10, <1>11 DEF User, SavingLoop

(* In touch: the chip is where the program expects it. *)

\* A chip that is selected stays as it is when it is selected again.
LEMMA SelectedStays ==
  ASSUME NEW ch, Proper(ch), ch.cs = 1
  PROVE  writeSelect(ch, 1) = ch
<1>1. ch \in Chips
  BY DEF Proper
<1>2. writeSelect(ch, 1) = [ch EXCEPT !.cs = 1, !.shift = ch.shift, !.command = ch.command]
  <2>1. ch.cs # 0 /\ 1 # 0
    OBVIOUS
  <2>2. (CASE ch.cs = 1 /\ 1 = 0 /\ ch.command \in {"WRITE", "WRAL", "ERAL"} -> "ISBUSY"
           [] 1 = 0 /\ ch.command \in {"READ", "READDUMMY", "READDATA"} -> "none"
           [] OTHER -> ch.command) = ch.command
    OBVIOUS
  <2> QED
    BY <1>1, <2>1, <2>2 DEF writeSelect, Chips
<1>3. [ch EXCEPT !.cs = 1, !.shift = ch.shift, !.command = ch.command] = ch
  BY <1>1 DEF Chips
<1> QED
  BY <1>2, <1>3

\* With the chip selected, a bit before the falling and at the rising edge of the clock.
LEMMA ClockLow ==
  ASSUME NEW ch, Proper(ch), ch.cs = 1, NEW b \in Bit
  PROVE  writeClock([writeSelect(ch, 1) EXCEPT !.dataIn = b], 0)
           = [ch EXCEPT !.dataIn = b, !.clock = 0]
<1>1. ch \in Chips
  BY DEF Proper
<1>2. writeSelect(ch, 1) = ch
  BY SelectedStays
<1>3. [ch EXCEPT !.dataIn = b].cs = 1
  BY <1>1 DEF Chips
<1> QED
  BY <1>2, <1>3 DEF writeClock

\* What the edge does.
Clocked(ch) == IF ch.command = "READDUMMY" THEN BeginOutput(ch)
               ELSE IF ch.command = "READDATA" THEN ContinueOutput(ch) ELSE ShiftIn(ch)

\* The rising edge does one bit's work.
LEMMA ClockHigh ==
  ASSUME NEW ch, Proper(ch), ch.cs = 1, ch.clock = 0, NEW b \in Bit
  PROVE  writeClock([writeSelect(ch, 1) EXCEPT !.dataIn = b], 1)
           = [Clocked([ch EXCEPT !.dataIn = b]) EXCEPT !.clock = 1]
<1>1. ch \in Chips
  BY DEF Proper
<1>2. writeSelect(ch, 1) = ch
  BY SelectedStays
<1> DEFINE d == [ch EXCEPT !.dataIn = b]
<1>3. d.cs = 1 /\ d.clock = 0
  BY <1>1 DEF Chips
<1> HIDE DEF d
<1>4. writeClock(d, 1) = [Clocked(d) EXCEPT !.clock = 1]
  BY <1>3 DEF writeClock, Clocked
<1> QED
  BY <1>2, <1>4 DEF d

\* The chip after an access.
LEMMA AccessIs ==
  ASSUME CallTypes, ProgramWrites
  PROVE  /\ Proper(chip) /\ ~ff /\ ff' = ff /\ stale' = stale
         /\ Written.cs = 0 => chip' = writeSelect(chip, 0)
         /\ Written.cs = 1 =>
              chip' = writeClock([writeSelect(chip, 1) EXCEPT !.dataIn = Written.data], Written.clock)
         /\ step # "high" => want' = want
         /\ ~Over => call' = call /\ got' = got /\ polled' = polled /\ step' = AfterWrite
         /\ ~Over /\ step # "high" => clocked' = clocked
<1>1. ~ff /\ ff' = ff /\ stale' = stale /\ Proper(chip) /\ HandlerWrites(Written)
  BY DEF CallTypes, BoardTypes, SavingTypes, ProgramWrites, NextAccess, writeVars, Running, Serves
<1>2. /\ Written.cs = 0 => chip' = writeSelect(chip, 0)
      /\ Written.cs = 1 =>
           chip' = writeClock([writeSelect(chip, 1) EXCEPT !.dataIn = Written.data], Written.clock)
  <2> HIDE DEF Written
  <2> QED
    BY <1>1 DEF HandlerWrites
<1>3. /\ step # "high" => want' = want
      /\ ~Over => call' = call /\ got' = got /\ polled' = polled /\ step' = AfterWrite
      /\ ~Over /\ step # "high" => clocked' = clocked
  BY DEF ProgramWrites
<1> QED
  BY <1>1, <1>2, <1>3

\* Selecting, without a clock.
LEMMA SelectIs ==
  ASSUME NEW ch, Proper(ch)
  PROVE  /\ writeSelect(ch, 0).cs = 0 /\ writeSelect(ch, 0).clock = ch.clock
         /\ writeSelect(ch, 0).shift = ch.shift
         /\ writeSelect(ch, 0).mem = ch.mem /\ writeSelect(ch, 0).enabled = ch.enabled
         /\ ~IsReading(writeSelect(ch, 0))
         /\ ch.cs = 1 /\ ch.command \in {"WRITE", "WRAL", "ERAL"} =>
              writeSelect(ch, 0).command = "ISBUSY"
         /\ writeSelect(ch, 1).cs = 1 /\ writeSelect(ch, 1).clock = ch.clock
         /\ writeSelect(ch, 1).mem = ch.mem /\ writeSelect(ch, 1).enabled = ch.enabled
         /\ writeSelect(ch, 1).command = ch.command
         /\ ch.cs = 0 /\ ch.clock = 0 => writeSelect(ch, 1).shift = <<>>
         /\ ch.cs = 0 /\ ch.shift = <<>> => writeSelect(ch, 1).shift = <<>>
<1>1. ch \in Chips
  BY DEF Proper
<1>2. /\ writeSelect(ch, 0).cs = 0 /\ writeSelect(ch, 0).clock = ch.clock
      /\ writeSelect(ch, 0).mem = ch.mem /\ writeSelect(ch, 0).enabled = ch.enabled
      /\ writeSelect(ch, 0).shift = ch.shift
  BY <1>1 DEF writeSelect, Chips
<1>3. /\ ~IsReading(writeSelect(ch, 0))
      /\ ch.cs = 1 /\ ch.command \in {"WRITE", "WRAL", "ERAL"} =>
           writeSelect(ch, 0).command = "ISBUSY"
  BY <1>1 DEF writeSelect, Chips, IsReading
<1>4. /\ writeSelect(ch, 1).cs = 1 /\ writeSelect(ch, 1).clock = ch.clock
      /\ writeSelect(ch, 1).mem = ch.mem /\ writeSelect(ch, 1).enabled = ch.enabled
      /\ writeSelect(ch, 1).command = ch.command
  BY <1>1 DEF writeSelect, Chips
<1>5. /\ ch.cs = 0 /\ ch.clock = 0 => writeSelect(ch, 1).shift = <<>>
      /\ ch.cs = 0 /\ ch.shift = <<>> => writeSelect(ch, 1).shift = <<>>
  BY <1>1 DEF writeSelect, Chips
<1> QED
  BY <1>2, <1>3, <1>4, <1>5

\* Without a clocked bit the program goes on with a chip that has what it wants.
LEMMA StillWanted ==
  ASSUME CallTypes, InTouch, ProgramWrites, step # "high",
         chip'.mem = chip.mem, chip'.enabled = chip.enabled
  PROVE  AsWanted' /\ ReadsBack'
<1>1. want' = want /\ ff' = ff
  BY AccessIs
<1>2. AsWanted'
  BY <1>1 DEF InTouch, AsWanted
<1>3. CASE ~Over
  <2>1. call' = call /\ got' = got
    BY <1>3, AccessIs
  <2> QED
    BY <1>1, <1>2, <2>1 DEF InTouch, ReadsBack
<1>4. CASE Over
  <2>1. got' = <<>>
    BY <1>4 DEF ProgramWrites, Idle, Begin
  <2> QED
    BY <1>2, <2>1 DEF ReadsBack
<1> QED
  BY <1>3, <1>4

\* Begin, and select the chip.
LEMMA SelectingStaysInTouch ==
  ASSUME CallTypes, InTouch, ProgramWrites, step \in {"begin", "select"}
  PROVE  InTouch'
<1>1. CASE step = "begin"
  <2>1. Written.cs = 0 /\ ~Over /\ AfterWrite = "select"
    BY <1>1 DEF Written, Deselect, Put, Over, AfterWrite
  <2>2. /\ chip' = writeSelect(chip, 0) /\ Proper(chip) /\ step' = "select"
        /\ got' = got /\ polled' = polled
    BY <1>1, <2>1, AccessIs
  <2>3. AsWanted' /\ ReadsBack'
    BY <1>1, <2>2, SelectIs, StillWanted
  <2>4. Quiet'
    BY <1>1, <2>2, SelectIs DEF InTouch, Quiet
  <2> QED
    BY <2>2, <2>3, <2>4 DEF InTouch, Sending, Receiving, Ending, Polling
<1>2. CASE step = "select"
  <2>1. Written.cs = 1 /\ Written.clock = 0 /\ Written.data = 0 /\ ~Over /\ AfterWrite = "low"
    BY <1>2 DEF Written, Put, Over, AfterWrite
  <2>2. /\ chip' = writeClock([writeSelect(chip, 1) EXCEPT !.dataIn = 0], 0)
        /\ Proper(chip) /\ step' = "low" /\ got' = got /\ polled' = polled
        /\ clocked' = 0 /\ call' = call
    BY <1>2, <2>1, AccessIs DEF CallTypes, ProgramTypes
  <2> DEFINE s == writeSelect(chip, 1)
  <2>3. /\ s \in Chips /\ s.shift = <<>> /\ s.cs = 1 /\ s.mem = chip.mem
        /\ s.enabled = chip.enabled /\ s.command = chip.command
    BY <1>2, <2>2, SelectIs, SelectTypes DEF InTouch, Quiet, Proper, Chips, Bit
  <2> HIDE DEF s
  <2>4. chip' = [[s EXCEPT !.dataIn = 0] EXCEPT !.clock = 0]
    BY <2>2 DEF writeClock, s
  <2>5. /\ chip'.cs = 1 /\ chip'.clock = 0 /\ chip'.mem = chip.mem /\ chip'.enabled = chip.enabled
        /\ chip'.command = chip.command /\ chip'.shift = <<>>
    BY <2>3, <2>4 DEF Chips
  <2>6. AsWanted' /\ ReadsBack'
    BY <1>2, <2>5, StillWanted
  <2>7. SubSeq(CommandBits(call), 1, 0) = <<>>
    BY SubSeqEmpty
  <2>8. Heard(chip', call', 0)
    BY <1>2, <2>5 DEF Heard, IsReading, InTouch, Quiet
  <2>9. Sending'
    <3>1. ~(clocked' > 4)
      BY <2>2
    <3>2. SubSeq(CommandBits(call'), 1, clocked') = SubSeq(CommandBits(call), 1, 0)
      BY <2>2
    <3> QED
      BY <2>2, <2>5, <2>7, <2>8, <3>1, <3>2 DEF Sending
  <2>10. Quiet'
    BY <1>2, <2>2 DEF InTouch, Quiet
  <2> QED
    BY <2>2, <2>6, <2>9, <2>10 DEF InTouch, Receiving, Ending, Polling
<1> QED
  BY <1>1, <1>2

\* The falling edge before each bit.
LEMMA LowStaysInTouch ==
  ASSUME CallTypes, InTouch, ProgramWrites, step = "low"
  PROVE  InTouch'
<1> DEFINE bit == CommandBits(call)[clocked + 1]
<1>1. Written.cs = 1 /\ Written.clock = 0 /\ Written.data = bit /\ ~Over /\ AfterWrite = "high"
  BY DEF Written, Put, Over, AfterWrite
<1>2. bit \in Bit
  BY <1>1, WrittenIs DEF CallTypes, Writing
<1> HIDE DEF bit
<1>3. /\ chip' = writeClock([writeSelect(chip, 1) EXCEPT !.dataIn = bit], 0)
      /\ Proper(chip) /\ step' = "high" /\ got' = got /\ polled' = polled
      /\ clocked' = clocked /\ call' = call /\ want' = want
  BY <1>1, AccessIs
<1>4. chip.cs = 1 /\ chip' = [chip EXCEPT !.dataIn = bit, !.clock = 0]
  BY <1>2, <1>3, ClockLow DEF InTouch, Sending
<1>5. /\ chip'.cs = 1 /\ chip'.clock = 0 /\ chip'.mem = chip.mem /\ chip'.enabled = chip.enabled
      /\ chip'.command = chip.command /\ chip'.shift = chip.shift
  BY <1>3, <1>4 DEF Proper, Chips
<1>6. AsWanted' /\ ReadsBack'
  BY <1>5, StillWanted
<1>7. Heard(chip', call, clocked)
  BY <1>5 DEF InTouch, Sending, Heard, IsReading
<1>8. Sending'
  BY <1>3, <1>5, <1>7 DEF InTouch, Sending
<1>9. Quiet'
  BY <1>3 DEF InTouch, Quiet
<1> QED
  BY <1>3, <1>6, <1>8, <1>9 DEF InTouch, Receiving, Ending, Polling

\* Each bit, and the last one.
LEMMA HighStaysInTouch ==
  ASSUME CallTypes, InTouch, ProgramWrites, step = "high"
  PROVE  InTouch'
<1> DEFINE bit == CommandBits(call)[clocked + 1]
           n == clocked + 1
           d == [chip EXCEPT !.dataIn = bit]
           r == ShiftIn(d)
<1>1. /\ Written.cs = 1 /\ Written.clock = 1 /\ Written.data = bit /\ ~Over
      /\ AfterWrite = IF n < Len(CommandBits(call)) THEN "low"
                      ELSE IF call.op = "READ" THEN "readLow" ELSE "end"
  BY DEF Written, Put, Over, AfterWrite
<1>2. bit \in Bit /\ call \in Calls
  BY <1>1, WrittenIs DEF CallTypes, Writing
<1>3. /\ chip' = writeClock([writeSelect(chip, 1) EXCEPT !.dataIn = bit], 1)
      /\ Proper(chip) /\ step' = AfterWrite /\ got' = got /\ polled' = polled /\ call' = call
  BY <1>1, AccessIs
<1>4. /\ clocked' = n /\ want' = After(call, n, want) /\ ~ff'
      /\ clocked \in Nat /\ n \in Nat /\ n <= Len(CommandBits(call))
      /\ Len(CommandBits(call)) \in Nat
      /\ want \in [mem : Memories, enabled : BOOLEAN]
  <2>1. clocked' = clocked + 1 /\ want' = After(call, n, want) /\ ~ff'
    BY <1>1, AccessIs DEF ProgramWrites, After
  <2>2. /\ clocked \in Nat /\ clocked < Len(CommandBits(call))
        /\ want \in [mem : Memories, enabled : BOOLEAN]
    BY DEF CallTypes, ProgramTypes
  <2>3. Len(CommandBits(call)) \in Nat
    BY <1>2, CommandBitsAre, LenProperties
  <2> QED
    BY <2>1, <2>2, <2>3
<1>5. /\ chip.cs = 1 /\ chip.clock = 0 /\ chip.shift = SubSeq(CommandBits(call), 1, clocked)
      /\ Heard(chip, call, clocked) /\ (call.op = "WEN" /\ clocked > 4 => want.enabled)
      /\ chip.mem = want.mem /\ chip.enabled = want.enabled /\ got = <<>> /\ polled = <<>>
  BY AccessIs DEF InTouch, Sending, AsWanted, Quiet
<1> HIDE DEF bit
<1>6. Proper(d) /\ d.cs = 1 /\ d.dataIn = bit /\ d.shift = chip.shift /\ d.command = chip.command
      /\ d.mem = chip.mem /\ d.enabled = chip.enabled
  BY <1>2, <1>3, <1>5 DEF Proper, Chips, IsReading
<1>7. chip' = [Clocked(d) EXCEPT !.clock = 1]
  BY <1>2, <1>3, <1>5, ClockHigh
<1> HIDE DEF d
<1>8. Takes(d, call, clocked, want)
  BY <1>2, <1>4, <1>5, <1>6 DEF Takes, Heard, IsReading, bit
<1>9. Clocked(d) = r
  BY <1>8, BitsAre DEF Clocked, IsReading
<1>10. Took(r, call, n, want')
  BY <1>4, <1>8, BitTaken
<1>11. Proper(r)
  BY <1>6, <1>8, BitsAre, ShiftInTypes
<1> HIDE DEF r, n
<1>12. /\ chip'.cs = 1 /\ chip'.mem = r.mem /\ chip'.enabled = r.enabled
       /\ chip'.command = r.command /\ chip'.shift = r.shift /\ chip'.address = r.address
  BY <1>7, <1>9, <1>10, <1>11 DEF Proper, Chips, Took
<1>13. AsWanted'
  BY <1>10, <1>12 DEF Took, AsWanted
<1>14. ReadsBack' /\ Quiet'
  BY <1>1, <1>3, <1>5 DEF ReadsBack, Quiet
<1>15. CASE n < Len(CommandBits(call))
  <2>1. step' = "low" /\ r.shift = SubSeq(CommandBits(call), 1, n) /\ Heard(r, call, n)
        /\ (call.op = "WEN" /\ n > 4 => want'.enabled)
    BY <1>1, <1>3, <1>10, <1>15 DEF Took
  <2>2. Heard(chip', call, n)
    BY <1>12, <2>1 DEF Heard, IsReading
  <2>3. Sending'
    BY <1>3, <1>4, <1>12, <2>1, <2>2 DEF Sending
  <2> QED
    BY <1>13, <1>14, <2>1, <2>3 DEF InTouch, Receiving, Ending, Polling
<1>16. CASE n = Len(CommandBits(call)) /\ call.op = "READ"
  <2>1. step' = "readLow" /\ r.shift = <<>> /\ At(r, call.address, 0)
    BY <1>1, <1>3, <1>4, <1>10, <1>16 DEF Took
  <2>2. At(chip', call.address, 0)
    BY <1>12, <2>1, SizesAre DEF At
  <2>3. Len(got') = 0 /\ Asked' = 0 /\ 0 < 2 * WordBits
    BY <1>3, <1>5, <2>1, SizesAre DEF Asked
  <2>4. Receiving'
    BY <1>3, <1>12, <1>16, <2>1, <2>2, <2>3 DEF Receiving
  <2> QED
    BY <1>13, <1>14, <2>1, <2>4 DEF InTouch, Sending, Ending, Polling
<1>17. CASE n = Len(CommandBits(call)) /\ call.op # "READ"
  <2>1. step' = "end" /\ r.shift = <<>>
        /\ (call.op \in {"WRITE", "WRAL", "ERAL"} /\ want'.enabled => r.command = call.op)
    BY <1>1, <1>3, <1>4, <1>10, <1>17 DEF Took
  <2>2. Ending'
    BY <1>3, <1>12, <2>1 DEF Ending, Polls
  <2> QED
    BY <1>13, <1>14, <2>1, <2>2 DEF InTouch, Sending, Receiving, Polling
<1> QED
  BY <1>4, <1>15, <1>16, <1>17

\* The words to be read, bit by bit.
LEMMA ExpectedIs ==
  ASSUME NEW m \in Memories, NEW a \in Addresses
  PROVE  /\ \A i \in 1 .. WordBits : (m[a] \o m[Following(a)])[i] = m[a][i]
         /\ \A i \in WordBits + 1 .. 2 * WordBits :
              (m[a] \o m[Following(a)])[i] = m[Following(a)][i - WordBits]
<1> DEFINE s == m[a]
           t == m[Following(a)]
<1>1. s \in Seq(Bit) /\ Len(s) = WordBits /\ t \in Seq(Bit) /\ Len(t) = WordBits
  BY FollowingIs, WordIsSeq DEF Memories
<1> HIDE DEF s, t
<1>2. \A i \in 1 .. Len(s) + Len(t) : (s \o t)[i] = IF i <= Len(s) THEN s[i] ELSE t[i - Len(s)]
  BY <1>1, ConcatProperties
<1>3. /\ \A i \in 1 .. WordBits : (s \o t)[i] = s[i]
      /\ \A i \in WordBits + 1 .. 2 * WordBits : (s \o t)[i] = t[i - WordBits]
  BY <1>1, <1>2, SizesAre
<1> QED
  BY <1>3 DEF s, t

\* Asking for a bit is done with the clock low, and then high.
LEMMA AskingStaysInTouch ==
  ASSUME CallTypes, InTouch, ProgramWrites, step = "readLow"
  PROVE  InTouch'
<1>1. Written.cs = 1 /\ Written.clock = 0 /\ Written.data = 0 /\ ~Over /\ AfterWrite = "readHigh"
  BY DEF Written, Put, Over, AfterWrite
<1>2. /\ chip' = writeClock([writeSelect(chip, 1) EXCEPT !.dataIn = 0], 0)
      /\ Proper(chip) /\ step' = "readHigh" /\ got' = got /\ polled' = polled /\ call' = call
      /\ want' = want
  BY <1>1, AccessIs
<1>3. chip.cs = 1 /\ chip' = [chip EXCEPT !.dataIn = 0, !.clock = 0]
  BY <1>2, ClockLow DEF InTouch, Receiving, Bit
<1>4. /\ chip'.cs = 1 /\ chip'.clock = 0 /\ chip'.mem = chip.mem /\ chip'.enabled = chip.enabled
      /\ chip'.command = chip.command /\ chip'.shift = chip.shift /\ chip'.address = chip.address
      /\ chip'.outCount = chip.outCount
  BY <1>2, <1>3 DEF Proper, Chips
<1>5. AsWanted' /\ ReadsBack'
  BY <1>4, StillWanted
<1>6. Asked' = Len(got) /\ Asked = Len(got)
  BY <1>2 DEF Asked
<1>7. At(chip', call.address, Len(got))
  BY <1>4, <1>6 DEF At, InTouch, Receiving
<1>8. Receiving'
  BY <1>2, <1>4, <1>6, <1>7 DEF InTouch, Receiving
<1>9. Quiet'
  BY <1>2 DEF InTouch, Quiet
<1> QED
  BY <1>2, <1>5, <1>8, <1>9 DEF InTouch, Sending, Ending, Polling

\* At the rising edge the chip puts out the bit that is next of the word.
LEMMA AnsweringStaysInTouch ==
  ASSUME CallTypes, InTouch, ProgramWrites, step = "readHigh"
  PROVE  InTouch'
<1> DEFINE d == [chip EXCEPT !.dataIn = 0]
           a == call.address
           k == Len(got)
           r == Clocked(d)
<1>1. Written.cs = 1 /\ Written.clock = 1 /\ Written.data = 0 /\ ~Over /\ AfterWrite = "get"
  BY DEF Written, Put, Over, AfterWrite
<1>2. /\ chip' = writeClock([writeSelect(chip, 1) EXCEPT !.dataIn = 0], 1)
      /\ Proper(chip) /\ step' = "get" /\ got' = got /\ polled' = polled /\ call' = call
      /\ want' = want /\ ~ff
  BY <1>1, AccessIs
<1>3. /\ chip.cs = 1 /\ chip.clock = 0 /\ At(chip, a, k) /\ chip.shift = <<>>
      /\ call.op = "READ" /\ k < 2 * WordBits /\ chip.mem = want.mem
  BY <1>2 DEF InTouch, Receiving, Asked, AsWanted
<1>4. /\ k \in Nat /\ want.mem \in Memories /\ a \in Addresses /\ Following(a) \in Addresses
      /\ WordBits \in Nat /\ WordBits > 1
  <2>1. k \in Nat /\ want.mem \in Memories
    BY LenProperties DEF CallTypes, ProgramTypes
  <2>2. call \in Calls
    BY <1>1, WrittenIs DEF CallTypes, Writing
  <2> QED
    BY <2>1, <2>2, CallIs, FollowingIs, SizesAre
<1> DEFINE word1 == want.mem[a]
           word2 == want.mem[Following(a)]
           expected == word1 \o word2
<1>5. /\ \A i \in 1 .. WordBits : expected[i] = word1[i]
      /\ \A i \in WordBits + 1 .. 2 * WordBits : expected[i] = word2[i - WordBits]
  BY <1>4, ExpectedIs
<1>6. /\ d \in Chips /\ d.cs = 1 /\ d.shift = <<>> /\ d.mem = chip.mem /\ d.enabled = chip.enabled
      /\ d.address = chip.address /\ d.outCount = chip.outCount /\ d.command = chip.command
  BY <1>2, <1>3 DEF Proper, Chips, Bit
<1>7. chip' = [r EXCEPT !.clock = 1]
  BY <1>2, <1>3, ClockHigh DEF Bit
<1>12. /\ \A i \in 1 .. WordBits : word1[i] \in Bit /\ word2[i] \in Bit
       /\ "READDATA" \in Commands
  BY <1>4 DEF Memories, Word, Commands
<1> HIDE DEF d, a, k, word1, word2, expected
<1>8. ASSUME r.cs = 1, r.shift = <<>>, r.mem = chip.mem, r.enabled = chip.enabled,
             r.dataOut = expected[k + 1], At(r, a, k + 1), r \in Chips
      PROVE  InTouch'
  <2> HIDE DEF r
  <2>1. /\ chip'.cs = 1 /\ chip'.shift = <<>> /\ chip'.mem = chip.mem /\ chip'.enabled = chip.enabled
        /\ chip'.dataOut = expected[k + 1] /\ chip'.address = r.address
        /\ chip'.outCount = r.outCount /\ chip'.command = r.command
    BY <1>7, <1>8 DEF Chips
  <2>2. AsWanted' /\ ReadsBack'
    BY <2>1, StillWanted
  <2>3. Asked' = k + 1 /\ Expected' = expected
    BY <1>2 DEF Asked, Expected, k, expected, word1, word2, a
  <2>4. At(chip', a, k + 1)
    BY <1>8, <2>1 DEF At
  <2>5. Receiving'
    BY <1>2, <1>3, <2>1, <2>3, <2>4 DEF Receiving, a, k
  <2>6. Quiet'
    BY <1>2 DEF InTouch, Quiet
  <2> QED
    BY <1>2, <2>2, <2>5, <2>6 DEF InTouch, Sending, Ending, Polling
<1>9. CASE k = 0
  <2>1. d.command = "READDUMMY" /\ d.address = a
    BY <1>3, <1>6, <1>9 DEF At
  <2>2. r = [d EXCEPT !.dataOut = d.mem[d.address][1], !.outCount = 1, !.command = "READDATA"]
    BY <1>6, <2>1 DEF Clocked, BeginOutput, Chips
  <2>3. d.mem[d.address][1] = word1[1]
    BY <1>3, <1>6, <2>1 DEF word1, a
  <2>4. 1 \in 1 .. WordBits /\ 1 \in 0 .. WordBits - 1 /\ 1 \in 1 .. WordBits - 1
    BY <1>4
  <2>5. r = [d EXCEPT !.dataOut = word1[1], !.outCount = 1, !.command = "READDATA"]
    BY <2>2, <2>3
  <2>6. word1[1] \in Bit /\ expected[1] = word1[1]
    BY <1>5, <1>12, <2>4
  <2> HIDE DEF r
  <2>7. /\ r \in Chips /\ r.cs = 1 /\ r.shift = <<>> /\ r.mem = chip.mem /\ r.enabled = chip.enabled
        /\ r.dataOut = word1[1] /\ r.outCount = 1 /\ r.command = "READDATA" /\ r.address = a
    BY <1>6, <1>12, <2>1, <2>4, <2>5, <2>6 DEF Chips
  <2>8. At(r, a, 1)
    BY <1>4, <2>7 DEF At
  <2> QED
    BY <1>8, <1>9, <2>6, <2>7, <2>8
<1>10. CASE k \in 1 .. WordBits - 1
  <2>1. d.command = "READDATA" /\ d.address = a /\ d.outCount = k
    BY <1>3, <1>4, <1>6, <1>10 DEF At
  <2>2. d.mem[d.address][d.outCount + 1] = word1[k + 1]
    BY <1>3, <1>6, <2>1 DEF word1, a
  <2>3. k + 1 \in 1 .. WordBits
    BY <1>4, <1>10
  <2>4. word1[k + 1] \in Bit /\ expected[k + 1] = word1[k + 1]
    BY <1>5, <1>12, <2>3
  <2>5. CASE k + 1 = WordBits
    <3>1. r = [d EXCEPT !.dataOut = word1[k + 1], !.outCount = 0, !.address = Following(a)]
      BY <1>6, <2>1, <2>2, <2>5 DEF Clocked, ContinueOutput, Chips
    <3> HIDE DEF r
    <3>2. 0 \in 0 .. WordBits - 1 /\ Following(a) \in Addresses
      BY <1>4 DEF a
    <3>3. /\ r \in Chips /\ r.cs = 1 /\ r.shift = <<>> /\ r.mem = chip.mem
          /\ r.enabled = chip.enabled /\ r.dataOut = word1[k + 1] /\ r.outCount = 0
          /\ r.command = "READDATA" /\ r.address = Following(a)
      BY <1>6, <2>1, <2>4, <3>1, <3>2 DEF Chips
    <3>4. At(r, a, k + 1)
      BY <1>4, <2>5, <3>3 DEF At
    <3> QED
      BY <1>8, <2>4, <3>3, <3>4
  <2>6. CASE k + 1 # WordBits
    <3>1. r = [d EXCEPT !.dataOut = word1[k + 1], !.outCount = k + 1]
      BY <1>6, <2>1, <2>2, <2>6 DEF Clocked, ContinueOutput, Chips
    <3> HIDE DEF r
    <3>2. k + 1 \in 0 .. WordBits - 1 /\ k + 1 \in 1 .. WordBits - 1
      BY <1>4, <1>10, <2>6
    <3>3. /\ r \in Chips /\ r.cs = 1 /\ r.shift = <<>> /\ r.mem = chip.mem
          /\ r.enabled = chip.enabled /\ r.dataOut = word1[k + 1] /\ r.outCount = k + 1
          /\ r.command = "READDATA" /\ r.address = a
      BY <1>6, <2>1, <2>4, <3>1, <3>2 DEF Chips
    <3>4. At(r, a, k + 1)
      BY <1>4, <3>2, <3>3 DEF At
    <3> QED
      BY <1>8, <2>4, <3>3, <3>4
  <2> QED
    BY <2>5, <2>6
<1>11. CASE k \in WordBits .. 2 * WordBits - 1
  <2> DEFINE f == Following(a)
             i == k - WordBits
  <2>1. d.command = "READDATA" /\ d.address = f /\ d.outCount = i
    BY <1>3, <1>4, <1>6, <1>11 DEF At
  <2>2. d.mem[d.address][d.outCount + 1] = word2[i + 1]
    BY <1>3, <1>6, <2>1 DEF word2
  <2>3. /\ i + 1 \in 1 .. WordBits /\ k + 1 \in WordBits + 1 .. 2 * WordBits
        /\ i + 1 = (k + 1) - WordBits
    BY <1>4, <1>11
  <2>4. word2[i + 1] \in Bit /\ expected[k + 1] = word2[i + 1]
    <3> HIDE DEF i
    <3>1. expected[k + 1] = word2[(k + 1) - WordBits]
      BY <1>5, <2>3
    <3>2. word2[i + 1] \in Bit
      BY <1>12, <2>3
    <3> QED
      BY <2>3, <3>1, <3>2
  <2> HIDE DEF i
  <2>5. CASE i + 1 = WordBits
    <3>1. r = [d EXCEPT !.dataOut = word2[i + 1], !.outCount = 0, !.address = Following(f)]
      BY <1>6, <2>1, <2>2, <2>5 DEF Clocked, ContinueOutput, Chips
    <3> HIDE DEF r
    <3>2. 0 \in 0 .. WordBits - 1 /\ Following(f) \in Addresses
      BY <1>4, FollowingIs DEF a
    <3>3. /\ r \in Chips /\ r.cs = 1 /\ r.shift = <<>> /\ r.mem = chip.mem
          /\ r.enabled = chip.enabled /\ r.dataOut = word2[i + 1] /\ r.command = "READDATA"
      BY <1>6, <2>1, <2>4, <3>1, <3>2 DEF Chips
    <3>4. At(r, a, k + 1)
      BY <1>4, <2>3, <2>5, <3>3 DEF At, i
    <3> QED
      BY <1>8, <2>4, <3>3, <3>4
  <2>6. CASE i + 1 # WordBits
    <3>1. r = [d EXCEPT !.dataOut = word2[i + 1], !.outCount = i + 1]
      BY <1>6, <2>1, <2>2, <2>6 DEF Clocked, ContinueOutput, Chips
    <3> HIDE DEF r
    <3>2. i + 1 \in 0 .. WordBits - 1
      BY <1>4, <2>3, <2>6
    <3>3. /\ r \in Chips /\ r.cs = 1 /\ r.shift = <<>> /\ r.mem = chip.mem
          /\ r.enabled = chip.enabled /\ r.dataOut = word2[i + 1] /\ r.outCount = i + 1
          /\ r.command = "READDATA" /\ r.address = f
      BY <1>6, <2>1, <2>4, <3>1, <3>2 DEF Chips
    <3>4. At(r, a, k + 1)
      BY <1>4, <2>3, <2>6, <3>3 DEF At
    <3> QED
      BY <1>8, <2>4, <3>3, <3>4
  <2> QED
    BY <2>5, <2>6
<1> QED
  BY <1>3, <1>4, <1>9, <1>10, <1>11

\* The bit is fetched.
LEMMA GettingStaysInTouch ==
  ASSUME CallTypes, InTouch, ProgramReads, step = "get"
  PROVE  InTouch'
<1>1. /\ call.op = "READ" /\ chip.cs = 1 /\ chip.shift = <<>> /\ Len(got) < 2 * WordBits
      /\ At(chip, call.address, Len(got) + 1) /\ chip.dataOut = Expected[Len(got) + 1]
  BY DEF InTouch, Receiving, Asked
<1>2. got \in Seq(Bit) /\ Len(got) \in Nat /\ chip \in Chips
  BY LenProperties DEF CallTypes, ProgramTypes, BoardTypes, Proper
<1>3. chip.command = "READDATA"
  BY <1>1, <1>2 DEF At
<1>4. HandlerReads = <<chip.dataOut, chip>>
  BY <1>1, <1>3 DEF HandlerReads, readData
<1>5. /\ chip' = chip /\ got' = Append(got, chip.dataOut) /\ polled' = polled /\ call' = call
      /\ want' = want /\ step' = IF Len(got') = 2 * WordBits THEN "end" ELSE "readLow"
      /\ ff' = ff
  BY <1>4 DEF ProgramReads, NextAccess, writeVars
<1>6. /\ Len(got') = Len(got) + 1 /\ got'[Len(got) + 1] = chip.dataOut
      /\ \A i \in 1 .. Len(got) : got'[i] = got[i]
      /\ got' \in Seq(Bit)
  BY <1>2, <1>5, AppendProperties DEF Chips
<1>7. \A i \in 1 .. Len(got) : got[i] = Expected[i]
  BY <1>1, <1>2, LenProperties DEF InTouch, ReadsBack, Expected
<1>8. \A i \in 1 .. Len(got) + 1 : got'[i] = Expected[i]
  BY <1>1, <1>2, <1>6, <1>7
<1>9. DOMAIN got' = 1 .. Len(got) + 1
  BY <1>6, LenProperties
<1>10. ReadsBack'
  BY <1>5, <1>8, <1>9 DEF ReadsBack, Expected
<1>11. AsWanted' /\ Quiet'
  BY <1>5 DEF InTouch, AsWanted, Quiet
<1>12. CASE Len(got') = 2 * WordBits
  <2>1. step' = "end"
    BY <1>5, <1>12
  <2>2. Ending'
    BY <1>1, <1>5, <2>1 DEF Ending, Polls
  <2> QED
    BY <1>10, <1>11, <2>1, <2>2 DEF InTouch, Sending, Receiving, Polling
<1>13. CASE Len(got') # 2 * WordBits
  <2>1. step' = "readLow"
    BY <1>5, <1>13
  <2>2. Asked' = Len(got) + 1 /\ Len(got') < 2 * WordBits
    BY <1>1, <1>2, <1>6, <1>13, <2>1, SizesAre DEF Asked
  <2>3. Receiving'
    BY <1>1, <1>5, <2>1, <2>2 DEF Receiving
  <2> QED
    BY <1>10, <1>11, <2>1, <2>3 DEF InTouch, Sending, Ending, Polling
<1> QED
  BY <1>12, <1>13

\* The end of a call, and polling after it.
LEMMA EndingStaysInTouch ==
  ASSUME CallTypes, InTouch, ProgramWrites, step \in {"end", "deselect", "reselect", "last"}
  PROVE  InTouch'
<1>1. CASE step = "end"
  <2>1. Written.cs = 1 /\ Written.clock = 0 /\ Written.data = 0 /\ ~Over /\ AfterWrite = "deselect"
    BY <1>1 DEF Written, Put, Over, AfterWrite
  <2>2. /\ chip' = writeClock([writeSelect(chip, 1) EXCEPT !.dataIn = 0], 0)
        /\ Proper(chip) /\ step' = "deselect" /\ got' = got /\ polled' = polled /\ call' = call
        /\ want' = want
    BY <1>1, <2>1, AccessIs
  <2>3. chip.cs = 1 /\ chip' = [chip EXCEPT !.dataIn = 0, !.clock = 0]
    BY <1>1, <2>2, ClockLow DEF InTouch, Ending, Bit
  <2>4. /\ chip'.cs = 1 /\ chip'.clock = 0 /\ chip'.mem = chip.mem /\ chip'.enabled = chip.enabled
        /\ chip'.command = chip.command /\ chip'.shift = chip.shift
    BY <2>2, <2>3 DEF Proper, Chips
  <2>5. AsWanted' /\ ReadsBack'
    BY <1>1, <2>4, StillWanted
  <2>6. Ending'
    BY <1>1, <2>2, <2>4 DEF InTouch, Ending, Polls
  <2>7. Quiet'
    BY <1>1, <2>2 DEF InTouch, Quiet
  <2> QED
    BY <2>2, <2>5, <2>6, <2>7 DEF InTouch, Sending, Receiving, Polling
<1>2. CASE step \in {"deselect", "last"}
  <2>1. Written.cs = 0 /\ (~Over => step = "deselect" /\ Polls /\ AfterWrite = "reselect")
    BY <1>2 DEF Written, Deselect, Put, Over, AfterWrite
  <2>2. chip' = writeSelect(chip, 0) /\ Proper(chip) /\ want' = want
    BY <1>2, <2>1, AccessIs
  <2>3. chip'.cs = 0 /\ chip'.clock = 0 /\ chip'.shift = chip.shift
        /\ chip'.mem = chip.mem /\ chip'.enabled = chip.enabled
    BY <1>2, <2>2, SelectIs DEF InTouch, Ending, Polling
  <2>4. AsWanted' /\ ReadsBack'
    BY <1>2, <2>3, StillWanted
  <2>5. CASE Over
    <3>1. step' = "idle" /\ got' = <<>> /\ polled' = <<>>
      BY <2>5 DEF ProgramWrites, Idle, Begin
    <3>2. Quiet'
      BY <2>3, <3>1 DEF Quiet
    <3> QED
      BY <2>4, <3>1, <3>2 DEF InTouch, Sending, Receiving, Ending, Polling
  <2>6. CASE ~Over
    <3>1. step' = "reselect" /\ got' = got /\ polled' = polled /\ call' = call
      BY <2>1, <2>6, AccessIs
    <3>2. Polls /\ step = "deselect" /\ Polls'
      BY <2>1, <2>2, <2>6, <3>1 DEF Polls
    <3>3. call.op # "ERASE" => chip'.command = "ISBUSY"
      <4> SUFFICES ASSUME call.op # "ERASE" PROVE chip'.command = "ISBUSY"
        OBVIOUS
      <4>1. chip.command = call.op /\ call.op \in {"WRITE", "WRAL", "ERAL"} /\ chip.cs = 1
        BY <3>2 DEF InTouch, Ending, Polls
      <4> QED
        BY <2>2, <4>1, SelectIs
    <3>4. Polling'
      BY <2>3, <3>1, <3>3 DEF Polling
    <3>5. Quiet'
      BY <3>1, <3>2 DEF InTouch, Quiet
    <3> QED
      BY <2>4, <3>1, <3>4, <3>5 DEF InTouch, Sending, Receiving, Ending
  <2> QED
    BY <2>5, <2>6
<1>3. CASE step = "reselect"
  <2>1. Written.cs = 1 /\ Written.clock = 0 /\ Written.data = 0 /\ ~Over /\ AfterWrite = "poll"
    BY <1>3 DEF Written, Put, Over, AfterWrite
  <2>2. /\ chip' = writeClock([writeSelect(chip, 1) EXCEPT !.dataIn = 0], 0)
        /\ Proper(chip) /\ step' = "poll" /\ got' = got /\ polled' = polled /\ call' = call
    BY <1>3, <2>1, AccessIs
  <2> DEFINE s == writeSelect(chip, 1)
  <2>3. /\ s \in Chips /\ s.cs = 1 /\ s.mem = chip.mem /\ s.enabled = chip.enabled
        /\ s.command = chip.command
    BY <2>2, SelectIs, SelectTypes DEF Proper, Bit
  <2> HIDE DEF s
  <2>4. chip' = [[s EXCEPT !.dataIn = 0] EXCEPT !.clock = 0]
    BY <2>2 DEF writeClock, s
  <2>5. /\ chip'.cs = 1 /\ chip'.clock = 0 /\ chip'.mem = chip.mem /\ chip'.enabled = chip.enabled
        /\ chip'.command = chip.command
    BY <2>3, <2>4 DEF Chips
  <2>6. AsWanted' /\ ReadsBack'
    BY <1>3, <2>5, StillWanted
  <2>7. Polling'
    BY <1>3, <2>2, <2>5 DEF InTouch, Polling, Quiet
  <2>8. Quiet'
    BY <1>3, <2>2 DEF InTouch, Quiet
  <2> QED
    BY <2>2, <2>6, <2>7, <2>8 DEF InTouch, Sending, Receiving, Ending
<1> QED
  BY <1>1, <1>2, <1>3

\* Polling sees the chip busy once, and then ready.
LEMMA PollingStaysInTouch ==
  ASSUME CallTypes, InTouch, ProgramReads, step = "poll"
  PROVE  InTouch'
<1>1. chip.cs = 1 /\ chip.clock = 0 /\ Proper(chip) /\ chip \in Chips
  BY DEF InTouch, Polling, CallTypes, BoardTypes, Proper
<1>2. HandlerReads = readData(chip)
  BY <1>1 DEF HandlerReads
<1> DEFINE bit == readData(chip)[1]
           r == readData(chip)[2]
<1>3. /\ chip' = r /\ got' = got /\ call' = call /\ want' = want /\ ff' = ff
      /\ polled' = IF Len(polled) < 2 THEN Append(polled, bit) ELSE polled
      /\ step' = IF bit = 0 THEN "poll" ELSE "last"
  BY <1>2 DEF ProgramReads, NextAccess, writeVars
<1>4. r = [chip EXCEPT !.command = r.command] /\ Proper(r)
  BY <1>1, ReadTypes
<1> HIDE DEF r, bit
<1>5. r.cs = 1 /\ r.clock = 0 /\ r.mem = chip.mem /\ r.enabled = chip.enabled
  BY <1>1, <1>4 DEF Chips
<1>6. AsWanted' /\ ReadsBack'
  BY <1>3, <1>5 DEF InTouch, AsWanted, ReadsBack
<1>7. step' \in {"poll", "last"}
  BY <1>3
<1>8. Quiet'
  BY <1>3, <1>7 DEF InTouch, Quiet
<1>9. CASE call.op = "ERASE"
  <2>1. Polling'
    BY <1>3, <1>5, <1>7, <1>9 DEF Polling
  <2> QED
    BY <1>6, <1>7, <1>8, <2>1 DEF InTouch, Sending, Receiving, Ending
<1>10. CASE call.op # "ERASE" /\ polled = <<>> /\ chip.command = "ISBUSY"
  <2>1. bit = 0 /\ r = [chip EXCEPT !.command = "ISREADY"]
    BY <1>10 DEF bit, r, readData
  <2>2. r.command = "ISREADY"
    BY <1>1, <2>1 DEF Chips
  <2>3. polled' = <<0>> /\ step' = "poll"
    BY <1>3, <1>10, <2>1
  <2>4. Polling'
    BY <1>3, <1>5, <2>2, <2>3 DEF Polling
  <2> QED
    BY <1>6, <1>7, <1>8, <2>4 DEF InTouch, Sending, Receiving, Ending
<1>11. CASE call.op # "ERASE" /\ polled = <<0>> /\ chip.command = "ISREADY"
  <2>1. bit = 1
    BY <1>11 DEF bit, readData
  <2>2. polled' = <<0, 1>> /\ step' = "last"
    <3>1. Append(<<0>>, 1) = <<0, 1>>
      <4> DEFINE s == Append(<<0>>, 1)
      <4>1. <<0>> \in Seq(Bit) /\ Len(<<0>>) = 1 /\ <<0>>[1] = 0 /\ 1 \in Bit
        BY DEF Bit
      <4>2. s \in Seq(Bit) /\ Len(s) = 2 /\ s[1] = 0 /\ s[2] = 1
        BY <4>1, AppendProperties
      <4> HIDE DEF s
      <4>3. s = <<s[1], s[2]>>
        BY <4>2
      <4> QED
        BY <4>2, <4>3 DEF s
    <3>2. Len(<<0>>) = 1 /\ 1 < 2 /\ 1 # 0
      OBVIOUS
    <3> QED
      BY <1>3, <1>11, <2>1, <3>1, <3>2
  <2>3. Polling'
    BY <1>3, <1>5, <2>2 DEF Polling
  <2> QED
    BY <1>6, <1>7, <1>8, <2>3 DEF InTouch, Sending, Receiving, Ending
<1> QED
  BY <1>9, <1>10, <1>11 DEF InTouch, Polling

\* A program that is cut leaves a chip that is not in the middle of a command with a
\* clock that is high: the next one finds what it wants.
LEMMA CutStaysInTouch ==
  ASSUME stale \/ InTouch, Cut, UNCHANGED <<chip, ff, want>>
  PROVE  (stale \/ InTouch)'
<1>1. /\ step' = "idle" /\ got' = <<>> /\ polled' = <<>>
      /\ stale' = (stale \/ (chip.clock = 1 /\ chip.shift # <<>>))
  BY DEF Cut, Idle, Begin
<1>2. CASE stale
  BY <1>1, <1>2
<1>3. CASE ~stale
  <2>1. AsWanted'
    BY <1>3 DEF InTouch, AsWanted
  <2>2. ReadsBack'
    BY <1>1 DEF ReadsBack
  <2>3. stale' \/ Quiet'
    BY <1>1, <1>3 DEF Quiet
  <2> QED
    BY <1>1, <2>1, <2>2, <2>3 DEF InTouch, Sending, Receiving, Ending, Polling
<1> QED
  BY <1>2, <1>3

\* Steps of others than the program and the chip.
LEMMA InTouchStutters ==
  ASSUME stale \/ InTouch, UNCHANGED <<chip, ff, call, step, clocked, got, polled, want, stale>>
  PROVE  (stale \/ InTouch)'
<1>1. AsWanted => AsWanted'
  BY DEF AsWanted
<1>2. Sending => Sending'
  BY DEF Sending, Heard, IsReading
<1>3. Receiving => Receiving'
  BY DEF Receiving, At, Asked, Expected
<1>4. Ending => Ending'
  BY DEF Ending, Polls
<1>5. Polling => Polling'
  BY DEF Polling
<1>6. Quiet => Quiet'
  BY DEF Quiet, IsReading
<1>7. ReadsBack => ReadsBack'
  BY DEF ReadsBack
<1> QED
  BY <1>1, <1>2, <1>3, <1>4, <1>5, <1>6, <1>7 DEF InTouch

\* No step of anyone else puts the chip and the program out of step.
LEMMA OthersStayInTouch ==
  ASSUME CallTypes, stale \/ InTouch,
         \/ \E c \in Calls : Ask(c)
         \/ GMOD2ResetCycle \/ User \/ SavingLoop \/ Launch \/ PowerLoss \/ UNCHANGED gmod2Vars
  PROVE  (stale \/ InTouch)'
<1>1. ASSUME NEW c \in Calls, Ask(c) PROVE (stale \/ InTouch)'
  <2>1. /\ step' = "begin" /\ got' = <<>> /\ polled' = <<>> /\ step = "idle"
        /\ UNCHANGED <<chip, ff, want, stale>>
    BY <1>1 DEF Ask, Begin, writeVars, CallTypes, ProgramTypes
  <2>2. InTouch => AsWanted' /\ ReadsBack' /\ Quiet'
    BY <2>1 DEF InTouch, AsWanted, ReadsBack, Quiet
  <2> QED
    BY <2>1, <2>2 DEF InTouch, Sending, Receiving, Ending, Polling
<1>2. CASE GMOD2ResetCycle
  BY <1>2, InTouchStutters DEF GMOD2ResetCycle, writeVars, programVars
<1>3. CASE BeginC64Reset \/ TurnOff
  BY <1>3, CutStaysInTouch DEF BeginC64Reset, TurnOff, writeVars
<1>4. CASE EndC64Reset \/ TurnOn
  BY <1>4, InTouchStutters DEF EndC64Reset, TurnOn, writeVars, programVars
<1>5. CASE TestForJump \/ LooksOff
  BY <1>5, InTouchStutters DEF TestForJump, LooksOff, BeginWriteFile, programVars
<1>6. CASE WriteLower \/ WriteUpper
  BY <1>6, InTouchStutters DEF WriteLower, WriteUpper, programVars
<1>7. CASE Close
  <2>1. CASE leaving
    BY <1>7, <2>1, CutStaysInTouch DEF Close
  <2>2. CASE ~leaving
    BY <1>7, <2>2, InTouchStutters DEF Close, programVars
  <2> QED
    BY <2>1, <2>2
<1>8. CASE Launch
  <2> DEFINE m == Contents(eepromFile)
             selected == IF ff THEN writeSelect(chip, 0) ELSE chip
  <2>1. /\ chip' = [selected EXCEPT !.mem = m] /\ want' = [want EXCEPT !.mem = m]
        /\ step' = step /\ got' = got /\ polled' = polled /\ stale' = stale
    BY <1>8 DEF Launch, programVars
  <2>2. /\ Proper(chip) /\ want \in [mem : Memories, enabled : BOOLEAN] /\ step = "idle"
    BY <1>8 DEF Launch, CallTypes, BoardTypes, ProgramTypes
  <2>3. Proper(selected) /\ selected.clock = chip.clock /\ selected.shift = chip.shift
        /\ selected.enabled = chip.enabled
    BY <2>2, SelectIs, SelectTypes DEF Bit
  <2> HIDE DEF m, selected
  <2>4. /\ chip'.mem = m /\ chip'.enabled = chip.enabled /\ chip'.clock = chip.clock
        /\ chip'.shift = chip.shift /\ want'.mem = m /\ want'.enabled = want.enabled
    BY <2>1, <2>2, <2>3 DEF Proper, Chips
  <2>5. InTouch => AsWanted'
    BY <2>4 DEF InTouch, AsWanted
  <2>6. InTouch => Quiet' /\ ReadsBack'
    BY <2>1, <2>2, <2>4 DEF InTouch, Quiet, ReadsBack
  <2> QED
    BY <2>1, <2>2, <2>5, <2>6 DEF InTouch, Sending, Receiving, Ending, Polling
<1>9. CASE PowerLoss
  <2>1. /\ chip' = InitialChip /\ ff' = TRUE /\ want'.enabled = FALSE
        /\ step' = "idle" /\ got' = <<>> /\ polled' = <<>>
    BY <1>9 DEF PowerLoss, Idle, Begin
  <2>2. InitialChip.enabled = FALSE /\ InitialChip.clock = 0 /\ InitialChip.shift = <<>>
    BY DEF InitialChip
  <2>3. AsWanted'
    BY <2>1, <2>2 DEF AsWanted
  <2>4. Quiet'
    BY <2>1, <2>2 DEF Quiet
  <2>5. ReadsBack'
    BY <2>1 DEF ReadsBack
  <2> QED
    BY <2>1, <2>3, <2>4, <2>5 DEF InTouch, Sending, Receiving, Ending, Polling
<1>10. CASE UNCHANGED gmod2Vars
  BY <1>10, InTouchStutters DEF gmod2Vars, writeVars, programVars
<1> QED
  BY <1>1, <1>2, <1>3, <1>4, <1>5, <1>6, <1>7, <1>8, <1>9, <1>10 DEF User, SavingLoop

\* Nor does an access of the program.
LEMMA AccessStaysInTouch ==
  ASSUME CallTypes, stale \/ InTouch, ProgramAccess
  PROVE  (stale \/ InTouch)'
<1>1. stale' = stale
  BY DEF ProgramAccess, ProgramWrites, ProgramReads, NextAccess
<1>2. ASSUME InTouch, ProgramWrites PROVE InTouch'
  <2>1. step \in Writing
    BY <1>2 DEF ProgramWrites
  <2> QED
    BY <1>2, <2>1, SelectingStaysInTouch, LowStaysInTouch, HighStaysInTouch, AskingStaysInTouch,
       AnsweringStaysInTouch, EndingStaysInTouch DEF Writing
<1>3. ASSUME InTouch, ProgramReads PROVE InTouch'
  <2>1. step \in {"get", "poll"}
    BY <1>3 DEF ProgramReads
  <2> QED
    BY <1>3, <2>1, GettingStaysInTouch, PollingStaysInTouch
<1> QED
  BY <1>1, <1>2, <1>3 DEF ProgramAccess

\* The invariant holds at first,
LEMMA CallInit == GMOD2Init => CallInv
<1> SUFFICES ASSUME GMOD2Init PROVE CallInv
  OBVIOUS
<1>1. Proper(chip) /\ BoardTypes
  BY InitialChipIs DEF GMOD2Init, BoardTypes
<1>2. SavingTypes
  BY DEF GMOD2Init, SavingTypes
<1>3. want \in [mem : Memories, enabled : BOOLEAN] /\ want.enabled = FALSE /\ <<>> \in Seq(Bit)
  BY ContentsAre DEF GMOD2Init
<1>4. ProgramTypes
  BY <1>3 DEF GMOD2Init, ProgramTypes
<1>5. InTouch
  BY <1>3 DEF GMOD2Init, InTouch, AsWanted, Sending, Receiving, Ending, Polling, Quiet, ReadsBack,
              InitialChip
<1> QED
  BY <1>1, <1>2, <1>4, <1>5 DEF CallInv, CallTypes

\* and every step keeps it.
LEMMA CallStep ==
  ASSUME CallInv, [GMOD2Next]_gmod2Vars
  PROVE  CallInv'
<1>1. CallTypes /\ (stale \/ InTouch)
  BY DEF CallInv
<1>2. CASE ProgramAccess
  BY <1>1, <1>2, WritesKeepTypes, ReadsKeepTypes, AccessStaysInTouch
     DEF ProgramAccess, CallInv, CallTypes
<1>3. CASE ~ProgramAccess
  BY <1>1, <1>3, OthersKeepTypes, OthersStayInTouch DEF GMOD2Next, CallInv, CallTypes
<1> QED
  BY <1>2, <1>3

\* Between two accesses of a call the chip has the bits that were sent, its command is what
\* they say, and it holds what the program wants, unless a call was cut with the clock high.
THEOREM CallInvariant == GMOD2Spec => []CallInv
  BY CallInit, CallStep, PTL DEF GMOD2Spec

\* Each variable keeps its type, and the shift register does not outgrow an instruction.
THEOREM GMOD2TypeCorrect == GMOD2Spec => []GMOD2TypeOK
<1>1. CallInv => GMOD2TypeOK
  BY DEF CallInv, CallTypes, BoardTypes, SavingTypes, ProgramTypes, Proper, Chips, ChipTypes,
         GMOD2TypeOK
<1> QED
  BY <1>1, CallInvariant, PTL

\* Each call does to the EEPROM what the data sheet says, to the word it names and to no
\* other, what is read is what was wanted, and a write is busy once; as long as no call has
\* been cut while the clock was high.
THEOREM CallsDoWhatTheySay == GMOD2Spec => []CallsHaveEffect
<1>1. CallInv => CallsHaveEffect
  <2>1. InTouch /\ ProgramTypes => BusyOnce
    BY DEF InTouch, Quiet, Polling, BusyOnce, ProgramTypes, Writing
  <2> QED
    BY <2>1 DEF CallInv, CallTypes, InTouch, CallsHaveEffect
<1> QED
  BY <1>1, CallInvariant, PTL
-----------------------------------------------------------------------------
(***************************************************************************)
(* The EEPROM is saved in two halves while the program may go on; if it    *)
(* does not write, both halves are of one EEPROM, whatever commands were   *)
(* clocked into the chip before.                                           *)
(***************************************************************************)

\* What a save has copied is in the EEPROM still, unless it raced with a write.
SavingInv ==
  /\ mpc = "upper" /\ ~raceSeen => lower = chip.mem
  /\ mpc = "close" /\ ~raceSeen => lower = chip.mem
  /\ SavedForMenu

\* A file that has been written is what the EEPROM is loaded with.
LEMMA ContentsOfFile ==
  ASSUME NEW f \in Memories
  PROVE  Contents(f) = f
<1>1. DOMAIN f = Addresses /\ Zeros(AddressBits) \in Addresses
  BY FilledAre DEF Memories
<1>2. f # NoFile
  BY <1>1 DEF NoFile
<1> QED
  BY <1>2 DEF Contents

\* An access of the program: it can change the EEPROM, and then a save that is under way
\* has raceSeen with it.
LEMMA ProgramKeeps ==
  ASSUME CallTypes, ProgramAccess
  PROVE  /\ UNCHANGED <<mpc, lower, eepromFile, ff>> /\ mpc # "menu"
         /\ raceSeen' \/ (~raceSeen /\ (WritingFile => chip'.mem = chip.mem))
<1>1. CASE ProgramWrites
  BY <1>1, Zenon DEF ProgramWrites, NextAccess, Running, Serves, writeVars
<1>2. CASE ProgramReads
  <2>1. chip' = HandlerReads[2] /\ UNCHANGED <<mpc, lower, eepromFile, ff, raceSeen>>
        /\ mpc # "menu"
    BY <1>2, Zenon DEF ProgramReads, NextAccess, Running, Serves, writeVars
  <2>2. Proper(chip)
    BY DEF CallTypes, BoardTypes
  <2>3. readData(chip)[2] = [chip EXCEPT !.command = readData(chip)[2].command]
    BY <2>2, ReadTypes
  <2>4. chip'.mem = chip.mem
    BY <2>1, <2>2, <2>3 DEF HandlerReads, Proper, Chips
  <2> QED
    BY <2>1, <2>4, Zenon DEF CallTypes
<1> QED
  BY <1>1, <1>2 DEF ProgramAccess

\* The image is copied in halves: if nothing was written, the halves are of one EEPROM.
LEMMA HalvesAreOne ==
  ASSUME CallTypes, SavingInv, WriteUpper, ~raceSeen
  PROVE  lower' = chip.mem
<1>1. /\ lower' = [a \in Addresses |-> IF Below(a) THEN lower[a] ELSE chip.mem[a]]
      /\ lower = chip.mem
  BY DEF WriteUpper, SavingInv
<1>2. lower' = [a \in Addresses |-> chip.mem[a]]
  BY <1>1, Zenon
<1>3. chip.mem \in [Addresses -> Word]
  BY DEF CallTypes, BoardTypes, Proper, Chips, Memories
<1> QED
  BY <1>2, <1>3

\* Every step keeps what a save has copied.
LEMMA StepKeepsSavingInv ==
  ASSUME CallTypes, SavingInv, [GMOD2Next]_gmod2Vars
  PROVE  SavingInv'
<1> USE DEF SavingInv
<1>1. CASE ProgramAccess
  BY <1>1, ProgramKeeps DEF SavedForMenu, WritingFile
<1>2. CASE UNCHANGED <<chip, mpc, lower, eepromFile, ff, raceSeen>>
  BY <1>2 DEF SavedForMenu
<1>3. CASE \E c \in Calls : Ask(c)
  BY <1>2, <1>3 DEF Ask, writeVars
<1>4. CASE GMOD2ResetCycle \/ User
  BY <1>2, <1>4 DEF GMOD2ResetCycle, User, BeginC64Reset, EndC64Reset,
     TurnOff, TurnOn, writeVars
<1>5. CASE TestForJump \/ LooksOff
  BY <1>5 DEF TestForJump, LooksOff, BeginWriteFile, SavedForMenu
<1>6. CASE WriteLower
  BY <1>6 DEF WriteLower, SavedForMenu
<1>7. CASE WriteUpper
  BY <1>7, HalvesAreOne DEF WriteUpper, SavedForMenu
<1>8. CASE Close
  <2>1. /\ mpc = "close" /\ mpc' \in {"menu", "loop"}
        /\ UNCHANGED <<chip, ff, raceSeen>> /\ eepromFile' = lower
    BY <1>8 DEF Close
  <2>2. chip.mem \in Memories
    BY DEF CallTypes, BoardTypes, Proper, Chips
  <2>3. ~raceSeen => Contents(eepromFile') = chip.mem
    BY <2>1, <2>2, ContentsOfFile
  <2> QED
    BY <2>1, <2>3 DEF SavedForMenu
<1>9. CASE Launch
  BY <1>9 DEF Launch, SavedForMenu
<1>10. CASE PowerLoss
  BY <1>10 DEF PowerLoss, SavedForMenu
<1>11. CASE UNCHANGED gmod2Vars
  BY <1>2, <1>11 DEF gmod2Vars, writeVars
<1> QED
  BY <1>1, <1>3, <1>4, <1>5, <1>6, <1>7, <1>8, <1>9, <1>10, <1>11 DEF GMOD2Next, SavingLoop

\* Who comes back to the menu has the EEPROM in the file as it was at last, unless a program
\* went on to write it while it was being saved; for every size of it, whatever the program
\* clocks into the chip, and any number of resets and power cuts.
THEOREM EEPROMIsSaved == GMOD2Spec => []SavedForMenu
<1>1. GMOD2Init => SavingInv
  BY DEF GMOD2Init, SavingInv, SavedForMenu
<1>2. CallInv /\ SavingInv /\ [GMOD2Next]_gmod2Vars => SavingInv'
  BY StepKeepsSavingInv DEF CallInv
<1>3. SavingInv => SavedForMenu
  BY DEF SavingInv
<1> QED
  BY <1>1, <1>2, <1>3, CallInvariant, PTL DEF GMOD2Spec
=============================================================================
