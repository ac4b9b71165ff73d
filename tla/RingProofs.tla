------------------------------ MODULE RingProofs ------------------------------
(***************************************************************************)
(* The two rings between a main loop and the FIQ handler: the writes to    *)
(* the SID that the handler puts in for the main loop (SIDKernel, and that *)
(* it implements SIDPlayer), and then the commands for the display that    *)
(* the main loop puts in for the handler (Latch).                          *)
(***************************************************************************)
EXTENDS SIDKernel, Latch, SequenceTheorems, WellFoundedInduction, TLAPS

(***************************************************************************)
(* SIDKernel implements SIDPlayer, for a ring buffer of any size and any   *)
(* number of writes and resets.  What lies between the two indices of the  *)
(* ring is the sequence of waiting writes: a write appends to it, or       *)
(* empties it when the writing index comes round to the reading one, and   *)
(* the main loop takes its head.  The emulation does not pass a write      *)
(* because it looks at the first one before each chunk, and none can be    *)
(* due by then: the main loop takes a write as soon as it is due, and what *)
(* is written later is later than the cycle the main loop has read.  The   *)
(* invariants of SIDPlayer that follow from its steps are used for those   *)
(* of the kernel.                                                          *)
(***************************************************************************)

\* What follows from the promise of SIDPlayer: the waiting writes are in ascending
\* order and not after now, so that one that is applied makes place for one that is
\* no earlier.
PlayerInv == Player!TypeOK /\ Player!Ascending /\ Player!NoneOverdue

\* What the main loop knows: the emulation is behind the cycle it has read, and
\* that is in the past; unless it has just emulated, no write is due.
KnownCycles ==
  pc \in {"emulate", "apply"} => /\ nCyclesEmulated <= cycleCount
                                 /\ cycleCount <= cycleCountC64
NoneDue ==
  pc \in {"loop", "emulate"} /\ RingContents # <<>>
    => nCyclesEmulated < Head(RingContents)

IInv == TypeOK /\ KnownCycles /\ NoneDue /\ PlayerInv
----------------------------------------------------------------------------
(* The promise of SIDPlayer, whatever the kernel does with it *)

\* The head and the rest of a sequence of waiting writes.
LEMMA HeadAndTail ==
  ASSUME NEW s \in Seq(Nat), s # <<>>
  PROVE  /\ Head(s) = s[1] /\ Len(s) \in Nat \ {0}
         /\ Tail(s) \in Seq(Nat) /\ Len(Tail(s)) = Len(s) - 1
         /\ \A i \in 1 .. Len(Tail(s)) : Tail(s)[i] = s[i + 1]
  BY HeadTailProperties, EmptySeq

\* A buffer in which nothing waits keeps whatever the clocks are.
LEMMA EmptyBuffer ==
  ASSUME PlayerClock' \in Nat, PlayerEmulated' = 0, PlayerPending' = <<>>, Playing' \in BOOLEAN
  PROVE  PlayerInv'
  <1>1. PlayerPending' \in Seq(Nat) /\ Len(PlayerPending') = 0
    OBVIOUS
  <1> QED
    BY <1>1 DEF PlayerInv, Player!TypeOK, Player!Ascending, Player!NoneOverdue

\* Every step keeps the invariant.
LEMMA PlayerStepKeepsInv == PlayerInv /\ [Player!Next]_(Player!playerVars) => PlayerInv'
  <1> SUFFICES ASSUME PlayerInv, [Player!Next]_(Player!playerVars) PROVE PlayerInv'
    OBVIOUS
  <1> USE DEF PlayerInv
  <1>1. CASE Player!Start
    BY <1>1, EmptyBuffer DEF Player!Start
  <1>2. CASE Player!Stop
    BY <1>2, EmptyBuffer DEF Player!Stop
  <1>3. CASE Player!Tick
    BY <1>3 DEF Player!Tick, Player!TypeOK, Player!Ascending, Player!NoneOverdue
  <1>4. CASE Player!Write
    <2>1. PlayerClock' \in Nat /\ PlayerClock' = PlayerClock + 1 /\ PlayerEmulated' = PlayerEmulated
      BY <1>4 DEF Player!Write, Player!TypeOK
    <2>2. CASE PlayerPending' = <<>>
      <3>1. PlayerPending' \in Seq(Nat) /\ Len(PlayerPending') = 0
        BY <2>2
      <3> QED
        BY <1>4, <2>1, <3>1
           DEF Player!Write, Player!TypeOK, Player!Ascending, Player!NoneOverdue
    <2>3. CASE PlayerPending' = Append(PlayerPending, PlayerClock')
      <3>1. /\ PlayerPending' \in Seq(Nat) /\ Len(PlayerPending') = Len(PlayerPending) + 1
            /\ Len(PlayerPending) \in Nat
            /\ PlayerPending'[Len(PlayerPending) + 1] = PlayerClock'
            /\ \A i \in 1 .. Len(PlayerPending) : PlayerPending'[i] = PlayerPending[i]
        BY <2>1, <2>3, AppendProperties DEF Player!TypeOK
      <3>2. Player!TypeOK'
        BY <1>4, <2>1, <3>1 DEF Player!Write, Player!TypeOK
      <3>3. Player!Ascending'
        <4> SUFFICES ASSUME NEW i \in 1 .. Len(PlayerPending')
                     PROVE  /\ PlayerPending'[i] <= PlayerClock'
                            /\ \A j \in 1 .. i - 1 : PlayerPending'[j] < PlayerPending'[i]
          BY DEF Player!Ascending
        <4>1. \A j \in 1 .. Len(PlayerPending) : PlayerPending[j] \in Nat /\ PlayerPending[j] <= PlayerClock
          BY DEF Player!TypeOK, Player!Ascending
        <4>2. CASE i = Len(PlayerPending) + 1
          <5>1. PlayerPending'[i] = PlayerClock' /\ PlayerClock \in Nat
            BY <3>1, <4>2 DEF Player!TypeOK
          <5>2. ASSUME NEW j \in 1 .. i - 1 PROVE PlayerPending'[j] < PlayerPending'[i]
            <6>1. j \in 1 .. Len(PlayerPending)
              BY <3>1, <4>2, <5>2
            <6>2. PlayerPending'[j] = PlayerPending[j]
              BY <3>1, <6>1
            <6> QED
              BY <2>1, <4>1, <5>1, <6>1, <6>2
          <5> QED
            BY <2>1, <5>1, <5>2
        <4>3. CASE i \in 1 .. Len(PlayerPending)
          <5>1. PlayerPending'[i] = PlayerPending[i] /\ PlayerPending[i] <= PlayerClock'
            BY <2>1, <3>1, <4>1, <4>3 DEF Player!TypeOK
          <5>2. ASSUME NEW j \in 1 .. i - 1 PROVE PlayerPending'[j] < PlayerPending'[i]
            <6>1. j \in 1 .. Len(PlayerPending) /\ PlayerPending[j] < PlayerPending[i]
              BY <3>1, <4>3, <5>2 DEF Player!Ascending
            <6> QED
              BY <3>1, <5>1, <6>1
          <5> QED
            BY <2>1, <5>1, <5>2
        <4> QED
          BY <3>1, <4>2, <4>3
      <3>4. Player!NoneOverdue'
        <4>1. /\ PlayerClock \in Nat /\ PlayerEmulated \in Nat
              /\ PlayerEmulated <= PlayerClock
              /\ \A i \in 1 .. Len(PlayerPending) : PlayerEmulated <= PlayerPending[i]
          BY DEF Player!TypeOK, Player!NoneOverdue
        <4>2. ASSUME NEW i \in 1 .. Len(PlayerPending')
              PROVE  PlayerEmulated <= PlayerPending'[i]
          <5>1. i = Len(PlayerPending) + 1 \/ i \in 1 .. Len(PlayerPending)
            BY <3>1
          <5> QED
            BY <2>1, <3>1, <4>1, <5>1
        <4> QED
          BY <2>1, <4>1, <4>2 DEF Player!NoneOverdue
      <3> QED
        BY <3>2, <3>3, <3>4
    <2> QED
      BY <1>4, <2>2, <2>3 DEF Player!Write
  <1>5. CASE Player!Emulate
    <2>1. /\ PlayerEmulated' \in Nat /\ PlayerEmulated' <= PlayerClock
          /\ PlayerPending # <<>> => PlayerEmulated' <= Head(PlayerPending)
          /\ PlayerPending' = PlayerPending /\ PlayerClock' = PlayerClock /\ Playing' = Playing
      BY <1>5 DEF Player!Emulate, Player!TypeOK
    <2>2. ASSUME NEW i \in 1 .. Len(PlayerPending)
          PROVE  PlayerEmulated' <= PlayerPending[i]
      <3>1. PlayerPending # <<>> /\ Head(PlayerPending) = PlayerPending[1]
        BY <2>2, HeadAndTail DEF Player!TypeOK
      <3>2. i = 1 \/ PlayerPending[1] < PlayerPending[i]
        BY <2>2 DEF Player!TypeOK, Player!Ascending
      <3> QED
        BY <2>1, <2>2, <3>1, <3>2 DEF Player!TypeOK
    <2> QED
      BY <2>1, <2>2 DEF Player!TypeOK, Player!Ascending, Player!NoneOverdue
  <1>6. CASE Player!Apply
    <2>1. /\ PlayerPending' \in Seq(Nat) /\ Len(PlayerPending') = Len(PlayerPending) - 1
          /\ Len(PlayerPending) \in Nat \ {0}
          /\ \A i \in 1 .. Len(PlayerPending') : PlayerPending'[i] = PlayerPending[i + 1]
      BY <1>6, HeadAndTail DEF Player!Apply, Player!TypeOK
    <2>2. UNCHANGED <<Playing, PlayerClock, PlayerEmulated>>
      BY <1>6 DEF Player!Apply
    <2>3. Player!Ascending'
      <3> SUFFICES ASSUME NEW i \in 1 .. Len(PlayerPending')
                   PROVE  /\ PlayerPending'[i] <= PlayerClock'
                          /\ \A j \in 1 .. i - 1 : PlayerPending'[j] < PlayerPending'[i]
        BY DEF Player!Ascending
      <3>1. i + 1 \in 1 .. Len(PlayerPending) /\ PlayerPending'[i] = PlayerPending[i + 1]
        BY <2>1
      <3>2. ASSUME NEW j \in 1 .. i - 1 PROVE PlayerPending'[j] < PlayerPending'[i]
        <4>1. j \in 1 .. Len(PlayerPending') /\ j + 1 \in 1 .. (i + 1) - 1
          BY <3>2, <2>1
        <4>2. PlayerPending'[j] = PlayerPending[j + 1]
          BY <2>1, <4>1
        <4>3. PlayerPending[j + 1] < PlayerPending[i + 1]
          BY <3>1, <4>1 DEF Player!Ascending
        <4> QED
          BY <3>1, <4>2, <4>3
      <3> QED
        BY <2>2, <3>1, <3>2 DEF Player!Ascending
    <2>4. Player!NoneOverdue'
      BY <2>1, <2>2 DEF Player!NoneOverdue
    <2> QED
      BY <2>1, <2>2, <2>3, <2>4 DEF Player!TypeOK
  <1>7. CASE UNCHANGED Player!playerVars
    BY <1>7 DEF Player!playerVars, Player!TypeOK, Player!Ascending, Player!NoneOverdue
  <1> QED
    BY <1>1, <1>2, <1>3, <1>4, <1>5, <1>6, <1>7 DEF Player!Next

\* At first nothing waits.
LEMMA PlayerInitHasInv == Player!Init => PlayerInv
  <1> SUFFICES ASSUME Player!Init PROVE PlayerInv
    OBVIOUS
  <1>1. PlayerPending \in Seq(Nat) /\ Len(PlayerPending) = 0
    BY DEF Player!Init
  <1>2. Player!TypeOK
    BY <1>1 DEF Player!Init, Player!TypeOK
  <1>3. Player!Ascending /\ Player!NoneOverdue
    BY <1>1 DEF Player!Init, Player!Ascending, Player!NoneOverdue
  <1> QED
    BY <1>2, <1>3 DEF PlayerInv

----------------------------------------------------------------------------
(* The ring buffer *)

\* An index past the end of the ring comes round once.
LEMMA Wrap ==
  ASSUME NEW R \in Nat \ {0}, NEW x \in 0 .. 2 * R - 1
  PROVE  x % R = IF x < R THEN x ELSE x - R
  OBVIOUS

\* What is between the indices, without division.
LEMMA LengthOfRing ==
  ASSUME NEW R \in Nat \ {0}, NEW w \in 0 .. R - 1, NEW r \in 0 .. R - 1
  PROVE  (w + R - r) % R = IF r <= w THEN w - r ELSE w + R - r
  <1> DEFINE x == w + R - r
  <1>1. x \in 0 .. 2 * R - 1
    OBVIOUS
  <1>2. x % R = IF x < R THEN x ELSE x - R
    <2> HIDE DEF x
    <2> QED BY <1>1, Wrap
  <1> QED
    BY <1>1, <1>2

\* The slot of the i-th waiting write, and where the next one goes.
LEMMA SlotOfRing ==
  ASSUME NEW R \in Nat \ {0}, NEW r \in 0 .. R - 1, NEW i \in 1 .. R
  PROVE  (r + i - 1) % R = IF r + i - 1 < R THEN r + i - 1 ELSE r + i - 1 - R
  <1> DEFINE x == r + i - 1
  <1>1. x \in 0 .. 2 * R - 1
    OBVIOUS
  <1>2. x % R = IF x < R THEN x ELSE x - R
    <2> HIDE DEF x
    <2> QED BY <1>1, Wrap
  <1> QED
    BY <1>1, <1>2

\* The slot behind one, without division.
LEMMA NextSlotIs ==
  ASSUME NEW R \in Nat \ {0}, NEW r \in 0 .. R - 1
  PROVE  (r + 1) % R = IF r + 1 < R THEN r + 1 ELSE 0
  <1>1. r + 1 \in 0 .. 2 * R - 1
    OBVIOUS
  <1> QED
    BY <1>1, Wrap

\* The writes in the ring are a sequence; it is empty when the indices meet.
ContentsOK ==
  /\ RingLength \in 0 .. RingSize - 1
  /\ RingContents \in Seq(Nat) /\ Len(RingContents) = RingLength
  /\ \A i \in 1 .. RingLength :
       RingContents[i] = ringTime[(ringRead + i - 1) % RingSize]
  /\ RingContents = <<>> <=> ringRead = ringWrite
  /\ RingContents # <<>> => Head(RingContents) = ringTime[ringRead]

\* What is between the indices is a sequence of slots.
LEMMA ContentsAreSequence == TypeOK => ContentsOK
  <1> SUFFICES ASSUME TypeOK PROVE ContentsOK
    OBVIOUS
  <1> USE RingAssumption DEF RingAssumption
  <1>1. ringWrite \in 0 .. RingSize - 1 /\ ringRead \in 0 .. RingSize - 1
    BY DEF TypeOK
  <1>2. RingLength = IF ringRead <= ringWrite THEN ringWrite - ringRead
                                              ELSE ringWrite + RingSize - ringRead
    BY <1>1, LengthOfRing DEF RingLength
  <1>3. RingLength \in 0 .. RingSize - 1 /\ (RingLength = 0 <=> ringRead = ringWrite)
    BY <1>1, <1>2
  <1>4. ASSUME NEW i \in 1 .. RingLength
        PROVE  /\ ringTime[(ringRead + i - 1) % RingSize] \in Nat
    <2> DEFINE slot == (ringRead + i - 1) % RingSize
    <2>1. slot \in 0 .. RingSize - 1
      BY <1>1, <1>3, SlotOfRing
    <2> HIDE DEF slot
    <2>2. ringTime \in [0 .. RingSize - 1 -> 0 .. MaxCycles]
      BY DEF TypeOK
    <2>3. ringTime[slot] \in 0 .. MaxCycles
      BY <2>1, <2>2
    <2> QED
      BY <2>3 DEF slot
  <1>5. RingContents \in [1 .. RingLength -> Nat]
    BY <1>4 DEF RingContents
  <1>6. RingContents \in Seq(Nat) /\ Len(RingContents) = RingLength
    BY <1>3, <1>5, SeqDef
  <1>7. \A i \in 1 .. RingLength :
          RingContents[i] = ringTime[(ringRead + i - 1) % RingSize]
    BY DEF RingContents
  <1>8. RingContents = <<>> <=> RingLength = 0
    BY <1>3, <1>6, EmptySeq
  <1>9. ASSUME RingContents # <<>> PROVE Head(RingContents) = ringTime[ringRead]
    <2>1. 1 \in 1 .. RingLength /\ (ringRead + 1 - 1) % RingSize = ringRead
      BY <1>1, <1>3, <1>8, <1>9, SlotOfRing
    <2>2. Head(RingContents) = RingContents[1]
      BY <1>6, <1>9
    <2> QED
      BY <1>7, <2>1, <2>2
  <1> QED
    BY <1>3, <1>6, <1>7, <1>8, <1>9 DEF ContentsOK

\* A write is appended, or empties the ring.
LEMMA WriteAppends ==
  ASSUME TypeOK, TypeOK', ringRead' = ringRead,
         ringTime' = [ringTime EXCEPT ![ringWrite] = cycleCountC64'],
         ringWrite' = (ringWrite + 1) % RingSize
  PROVE  RingContents' = IF Len(RingContents) + 1 = RingSize THEN <<>>
                         ELSE Append(RingContents, cycleCountC64')
  <1> USE RingAssumption DEF RingAssumption
  <1>1. /\ ringWrite \in 0 .. RingSize - 1 /\ ringRead \in 0 .. RingSize - 1
        /\ ringWrite' \in 0 .. RingSize - 1 /\ cycleCountC64' \in Nat
    BY DEF TypeOK
  <1>2. RingLength = IF ringRead <= ringWrite THEN ringWrite - ringRead
                                              ELSE ringWrite + RingSize - ringRead
    BY <1>1, LengthOfRing DEF RingLength
  <1>3. RingLength' = IF ringRead <= ringWrite' THEN ringWrite' - ringRead
                                                ELSE ringWrite' + RingSize - ringRead
    BY <1>1, LengthOfRing DEF RingLength
  <1>4. ringWrite' = IF ringWrite + 1 < RingSize THEN ringWrite + 1 ELSE 0
    BY <1>1, NextSlotIs
  <1>0. RingLength \in 0 .. RingSize - 1
    BY ContentsAreSequence DEF ContentsOK
  <1>5. /\ RingContents \in Seq(Nat) /\ Len(RingContents) = RingLength
        /\ \A i \in 1 .. RingLength :
             RingContents[i] = ringTime[(ringRead + i - 1) % RingSize]
    BY ContentsAreSequence DEF ContentsOK
  <1>6. /\ RingContents' \in Seq(Nat) /\ Len(RingContents') = RingLength'
        /\ \A i \in 1 .. RingLength' :
             RingContents'[i] = ringTime'[(ringRead + i - 1) % RingSize]
        /\ RingContents' = <<>> <=> ringRead = ringWrite'
    <2>1. ContentsOK'
      BY ContentsAreSequence, PTL
    <2> QED
      BY <2>1 DEF ContentsOK
  <1>7. CASE RingLength + 1 = RingSize
    BY <1>0, <1>1, <1>2, <1>4, <1>5, <1>6, <1>7
  <1>8. CASE RingLength + 1 # RingSize
    <2>1. RingLength' = RingLength + 1
      BY <1>0, <1>1, <1>2, <1>3, <1>4, <1>8
    <2>2. /\ Append(RingContents, cycleCountC64') \in Seq(Nat)
          /\ Len(Append(RingContents, cycleCountC64')) = RingLength + 1
          /\ Append(RingContents, cycleCountC64')[RingLength + 1] = cycleCountC64'
          /\ \A i \in 1 .. RingLength :
               Append(RingContents, cycleCountC64')[i] = RingContents[i]
      BY <1>1, <1>5, AppendProperties
    <2>3. ASSUME NEW i \in 1 .. RingLength + 1
          PROVE  RingContents'[i] = Append(RingContents, cycleCountC64')[i]
      <3>1. i \in 1 .. RingSize
        BY <1>0, <1>8
      <3>2. (ringRead + i - 1) % RingSize = IF ringRead + i - 1 < RingSize
                                            THEN ringRead + i - 1
                                            ELSE ringRead + i - 1 - RingSize
        BY <1>1, <3>1, SlotOfRing
      <3>3. RingContents'[i] = ringTime'[(ringRead + i - 1) % RingSize]
        BY <1>6, <2>1
      <3>4. CASE i = RingLength + 1
        <4>1. (ringRead + i - 1) % RingSize = ringWrite
          BY <1>0, <1>1, <1>2, <1>8, <3>2, <3>4
        <4>2. ringTime'[ringWrite] = cycleCountC64'
          BY <1>1 DEF TypeOK
        <4> QED
          BY <2>2, <3>3, <3>4, <4>1, <4>2
      <3>5. CASE i # RingLength + 1
        <4>1. i \in 1 .. RingLength
          BY <1>0, <3>5
        <4>2. /\ (ringRead + i - 1) % RingSize \in 0 .. RingSize - 1
              /\ (ringRead + i - 1) % RingSize # ringWrite
          BY <1>0, <1>1, <1>2, <1>8, <3>2, <4>1
        <4>3. ringTime'[(ringRead + i - 1) % RingSize]
                = ringTime[(ringRead + i - 1) % RingSize]
          BY <4>2 DEF TypeOK
        <4> QED
          BY <1>5, <2>2, <3>3, <4>1, <4>3
      <3> QED
        BY <3>4, <3>5
    <2> QED
      BY <1>5, <1>6, <1>8, <2>1, <2>2, <2>3, SeqEqual
  <1> QED
    BY <1>5, <1>7, <1>8

\* Applying the first write takes it out.
LEMMA ApplyTakesHead ==
  ASSUME TypeOK, TypeOK', ringRead # ringWrite,
         UNCHANGED <<ringTime, ringWrite>>,
         ringRead' = (ringRead + 1) % RingSize
  PROVE  RingContents' = Tail(RingContents)
  <1> USE RingAssumption DEF RingAssumption
  <1>1. /\ ringWrite \in 0 .. RingSize - 1 /\ ringRead \in 0 .. RingSize - 1
        /\ ringRead' \in 0 .. RingSize - 1
    BY DEF TypeOK
  <1>2. RingLength = IF ringRead <= ringWrite THEN ringWrite - ringRead
                                              ELSE ringWrite + RingSize - ringRead
    BY <1>1, LengthOfRing DEF RingLength
  <1>3. RingLength' = IF ringRead' <= ringWrite THEN ringWrite - ringRead'
                                                ELSE ringWrite + RingSize - ringRead'
    BY <1>1, LengthOfRing DEF RingLength
  <1>4. ringRead' = IF ringRead + 1 < RingSize THEN ringRead + 1 ELSE 0
    BY <1>1, NextSlotIs
  <1>0. RingLength \in 0 .. RingSize - 1
    BY ContentsAreSequence DEF ContentsOK
  <1>5. /\ RingContents \in Seq(Nat) /\ Len(RingContents) = RingLength
        /\ RingContents # <<>>
        /\ \A i \in 1 .. RingLength :
             RingContents[i] = ringTime[(ringRead + i - 1) % RingSize]
    BY ContentsAreSequence DEF ContentsOK
  <1>6. /\ RingContents' \in Seq(Nat) /\ Len(RingContents') = RingLength'
        /\ \A i \in 1 .. RingLength' :
             RingContents'[i] = ringTime[(ringRead' + i - 1) % RingSize]
    <2>1. ContentsOK'
      BY ContentsAreSequence, PTL
    <2> QED
      BY <2>1 DEF ContentsOK
  <1>7. /\ Tail(RingContents) \in Seq(Nat) /\ Len(Tail(RingContents)) = RingLength - 1
        /\ \A i \in 1 .. RingLength - 1 : Tail(RingContents)[i] = RingContents[i + 1]
    BY <1>5, HeadTailProperties
  <1>8. RingLength' = RingLength - 1
    BY <1>1, <1>2, <1>3, <1>4
  <1>9. ASSUME NEW i \in 1 .. RingLength - 1
        PROVE  RingContents'[i] = Tail(RingContents)[i]
    <2>1. i \in 1 .. RingSize /\ i + 1 \in 1 .. RingLength /\ i + 1 \in 1 .. RingSize
      BY <1>0
    <2>2. (ringRead + (i + 1) - 1) % RingSize = IF ringRead + (i + 1) - 1 < RingSize
                                                THEN ringRead + (i + 1) - 1
                                                ELSE ringRead + (i + 1) - 1 - RingSize
      BY <1>1, <2>1, SlotOfRing
    <2>3. (ringRead' + i - 1) % RingSize = IF ringRead' + i - 1 < RingSize
                                           THEN ringRead' + i - 1
                                           ELSE ringRead' + i - 1 - RingSize
      BY <1>1, <2>1, SlotOfRing
    <2>4. (ringRead' + i - 1) % RingSize = (ringRead + (i + 1) - 1) % RingSize
      BY <1>0, <1>1, <1>4, <2>2, <2>3
    <2>5. RingContents'[i] = ringTime[(ringRead' + i - 1) % RingSize]
      BY <1>6, <1>8
    <2>6. RingContents[i + 1] = ringTime[(ringRead + (i + 1) - 1) % RingSize]
      BY <1>5, <2>1
    <2>7. Tail(RingContents)[i] = RingContents[i + 1]
      BY <1>7
    <2> QED
      BY <2>4, <2>5, <2>6, <2>7
  <1> QED
    BY <1>6, <1>7, <1>8, <1>9, SeqEqual
----------------------------------------------------------------------------
(* Types *)

\* The clock goes on or stops.
LEMMA ClockTypes ==
  ASSUME TypeOK
  PROVE  /\ Clock(1) \in 0 .. MaxCycles /\ cycleCountC64 <= Clock(1)
         /\ Clock(1) = cycleCountC64 \/ Clock(1) = cycleCountC64 + 1
         /\ cycleCountC64 < MaxCycles => Clock(1) = cycleCountC64 + 1
  BY RingAssumption DEF RingAssumption, TypeOK, Clock

\* The counter of the reset, and an index that moves on, stay in their range.
LEMMA CountTypes ==
  ASSUME TypeOK, CountReset
  PROVE  resetCounter' \in 0 .. MenuReset + 1
  BY RingAssumption DEF RingAssumption, TypeOK, CountReset

\* An index that is moved on is that of a slot.
LEMMA SlotTypes ==
  ASSUME NEW r \in 0 .. RingSize - 1
  PROVE  (r + 1) % RingSize \in 0 .. RingSize - 1
  BY RingAssumption, NextSlotIs DEF RingAssumption

\* A chunk is at least a cycle long, and ends with the cycle that was read and
\* with the first write.
LEMMA ChunkEnds ==
  ASSUME TypeOK, KnownCycles, NoneDue, pc = "emulate",
         cycleCount > nCyclesEmulated,
         NEW cycles \in 0 .. Ahead
  PROVE  /\ AtLeastOne(Chunk(cycles)) \in 1 .. cycleCount - nCyclesEmulated
         /\ ringRead # ringWrite
              => nCyclesEmulated + AtLeastOne(Chunk(cycles)) <= ringTime[ringRead]
  <1> USE RingAssumption DEF RingAssumption
  <1>1. cycles \in Nat /\ cycles <= cycleCount - nCyclesEmulated
    BY DEF TypeOK, Ahead, Lower
  <1>2. ringTime[ringRead] \in Nat /\ nCyclesEmulated \in Nat /\ cycleCount \in Nat
    BY DEF TypeOK
  <1>3. ringRead # ringWrite => nCyclesEmulated < ringTime[ringRead]
    BY ContentsAreSequence DEF ContentsOK, NoneDue
  <1> QED
    BY <1>1, <1>2, <1>3 DEF AtLeastOne, Chunk, Lower

\* The flags and the rest of the types.
Flags ==
  /\ launchPrg \in BOOLEAN /\ disableCart \in BOOLEAN
  /\ resetPressed \in BOOLEAN /\ resetLow \in BOOLEAN
  /\ resetFromCode \in BOOLEAN /\ latchReset \in BOOLEAN /\ overflown \in BOOLEAN
Numbers ==
  /\ pc \in {"launch", "started", "clock", "loop", "reset", "restart", "emulate",
             "apply", "gone"}
  /\ resetReleased \in {0, 1, 255} /\ resetCounter \in 0 .. MenuReset + 1
  /\ cycleCountC64 \in 0 .. MaxCycles /\ nCyclesEmulated \in 0 .. MaxCycles
  /\ cycleCount \in 0 .. MaxCycles
  /\ ringTime \in [0 .. RingSize - 1 -> 0 .. MaxCycles]
  /\ ringWrite \in 0 .. RingSize - 1 /\ ringRead \in 0 .. RingSize - 1
  /\ writes \in 0 .. MaxWrites /\ resets \in 0 .. MaxResets

\* The parts of the type invariant.
LEMMA TypeParts == TypeOK <=> Flags /\ Numbers
  BY DEF TypeOK, Flags, Numbers

\* Every step keeps the types: those of flags and places, then those of numbers, for
\* which the emulation must not have passed a write.
LEMMA StepKeepsFlags == Flags /\ [Next]_vars => Flags'
  <1> SUFFICES ASSUME Flags, [Next]_vars PROVE Flags'
    OBVIOUS
  <1> USE DEF Flags
  <1>1. CASE LaunchCycle
    BY <1>1 DEF LaunchCycle, FIQStep, codeVars
  <1>2. CASE ReleasedCycle
    BY <1>2 DEF ReleasedCycle, FIQStep, codeVars
  <1>3. CASE WriteCycle \/ CodeCycle \/ IdleCycle
    BY <1>3 DEF WriteCycle, CodeCycle, IdleCycle, Cycle, FIQStep, Counting, codeVars
  <1>4. CASE PressReset \/ ReleaseReset
    BY <1>4 DEF PressReset, ReleaseReset, UserVars, resetVars, codeVars
  <1>5. CASE WaitForLaunch \/ Emulate
    BY <1>5 DEF WaitForLaunch, Emulate, MainVars, EmulationVars, resetVars
  <1>6. CASE StartClock \/ Start \/ LoopHead \/ Apply
    BY <1>6 DEF StartClock, Start, LoopHead, Apply, MainVars, resetVars
  <1>7. CASE PrepareReset \/ Restart
    BY <1>7 DEF PrepareReset, Restart, MainVars, resetVars
  <1>8. CASE UNCHANGED vars
    BY <1>8 DEF vars, resetVars, codeVars
  <1> QED
    BY <1>1, <1>2, <1>3, <1>4, <1>5, <1>6, <1>7, <1>8 DEF Next, FIQ, MainLoop

\* Every step keeps the numbers in their ranges,
LEMMA StepKeepsNumbers ==
  TypeOK /\ KnownCycles /\ NoneDue /\ [Next]_vars => Numbers'
  <1> SUFFICES ASSUME TypeOK, KnownCycles, NoneDue, [Next]_vars PROVE Numbers'
    OBVIOUS
  <1>a. /\ RingSize \in Nat \ {0} /\ MenuReset \in Nat /\ MaxCycles \in Nat
        /\ MaxWrites \in Nat /\ MaxResets \in Nat
        /\ 0 \in 0 .. RingSize - 1 /\ 0 \in 0 .. MaxCycles
        /\ 0 \in 0 .. MenuReset + 1
    BY RingAssumption DEF RingAssumption
  <1>0. Numbers
    BY TypeParts
  <1>1. CASE LaunchCycle
    <2>1. resetCounter' \in 0 .. MenuReset + 1
      BY <1>a, <1>1, CountTypes DEF LaunchCycle, LaunchCount
    <2> QED
      BY <1>0, <1>1, <2>1, ClockTypes DEF LaunchCycle, FIQStep, Numbers
  <1>2. CASE ReleasedCycle
    BY <1>0, <1>2 DEF ReleasedCycle, FIQStep, Numbers
  <1>3. CASE WriteCycle \/ CodeCycle \/ IdleCycle
    <2>1. resetCounter' \in 0 .. MenuReset + 1
      <3>1. Cycle
        BY <1>3 DEF WriteCycle, CodeCycle, IdleCycle
      <3> QED
        BY <1>0, <3>1, CountTypes DEF Cycle, Numbers
    <2>2. /\ cycleCountC64' \in 0 .. MaxCycles
          /\ UNCHANGED <<pc, nCyclesEmulated, cycleCount, ringRead, resets,
                         resetReleased>>
      BY <1>3, ClockTypes DEF WriteCycle, CodeCycle, IdleCycle, Cycle, FIQStep
    <2>3. /\ ringTime' \in [0 .. RingSize - 1 -> 0 .. MaxCycles]
          /\ ringWrite' \in 0 .. RingSize - 1 /\ writes' \in 0 .. MaxWrites
      <3>1. CASE WriteCycle
        <4>1. writes' \in 0 .. MaxWrites
          BY <1>a, <1>0, <3>1 DEF WriteCycle, Numbers
        <4>2. ringWrite' \in 0 .. RingSize - 1
          BY <1>0, <3>1, SlotTypes DEF WriteCycle, Numbers
        <4>3. ringTime' \in [0 .. RingSize - 1 -> 0 .. MaxCycles]
          BY <1>0, <2>2, <3>1 DEF WriteCycle, Numbers
        <4> QED
          BY <4>1, <4>2, <4>3
      <3>2. CASE CodeCycle \/ IdleCycle
        <4>1. UNCHANGED <<ringTime, ringWrite, writes>>
          BY <3>2 DEF CodeCycle, IdleCycle
        <4> QED
          BY <1>0, <4>1 DEF Numbers
      <3> QED
        BY <1>3, <3>1, <3>2
    <2> QED
      BY <1>0, <2>1, <2>2, <2>3 DEF Numbers
  <1>4. CASE PressReset \/ ReleaseReset
    <2>1. resets' \in 0 .. MaxResets /\ UNCHANGED UserVars
      BY <1>a, <1>0, <1>4 DEF PressReset, ReleaseReset, Numbers
    <2> QED
      BY <1>0, <2>1 DEF UserVars, resetVars, ringVars, Numbers
  <1>5. CASE WaitForLaunch
    BY <1>0, <1>5 DEF WaitForLaunch, Goto, MainVars, EmulationVars, resetVars, Numbers
  <1>6. CASE StartClock \/ Start
    <2>1. CASE StartClock
      BY <1>a, <1>0, <2>1 DEF StartClock, Goto, MainVars, resetVars, Numbers
    <2>2. CASE Start
      BY <1>a, <1>0, <2>2 DEF Start, Goto, MainVars, resetVars, Numbers
    <2> QED
      BY <1>6, <2>1, <2>2
  <1>7. CASE LoopHead
    <2>1. /\ pc' \in {"gone", "reset", "emulate"} /\ cycleCount' \in 0 .. MaxCycles
          /\ resetReleased' \in {0, 1, 255} /\ resetCounter' \in 0 .. MenuReset + 1
      BY <1>a, <1>0, <1>7 DEF LoopHead, Goto, MainVars, Numbers
    <2>2. /\ UNCHANGED <<cycleCountC64, nCyclesEmulated, ringTime, ringWrite, writes, resets>>
          /\ ringRead' \in {ringRead, ringWrite}
      BY <1>7 DEF LoopHead, Goto, MainVars
    <2> QED
      BY <1>0, <2>1, <2>2 DEF Numbers
  <1>8. CASE PrepareReset \/ Restart
    <2>1. CASE PrepareReset
      BY <1>a, <1>0, <2>1 DEF PrepareReset, Goto, MainVars, resetVars, Numbers
    <2>2. CASE Restart
      BY <1>a, <1>0, <2>2 DEF Restart, Goto, MainVars, resetVars, Numbers
    <2> QED
      BY <1>8, <2>1, <2>2
  <1>9. CASE Emulate
    <2>1. nCyclesEmulated' \in 0 .. MaxCycles
      <3>1. CASE cycleCount > nCyclesEmulated
        <4>1. PICK cycles \in 0 .. Ahead :
                nCyclesEmulated' = nCyclesEmulated + AtLeastOne(Chunk(cycles))
          BY <1>9, <3>1 DEF Emulate
        <4>2. AtLeastOne(Chunk(cycles)) \in 1 .. cycleCount - nCyclesEmulated
          BY <1>9, <3>1, ChunkEnds DEF Emulate
        <4> QED
          BY <1>a, <1>0, <4>1, <4>2 DEF Numbers
      <3>2. CASE ~(cycleCount > nCyclesEmulated)
        BY <1>0, <1>9, <3>2 DEF Emulate, Numbers
      <3> QED
        BY <3>1, <3>2
    <2> QED
      BY <1>0, <1>9, <2>1 DEF Emulate, Goto, MainVars, EmulationVars, resetVars, Numbers
  <1>10. CASE Apply
    BY <1>0, <1>10, SlotTypes DEF Apply, Goto, MainVars, resetVars, Numbers
  <1>11. CASE UNCHANGED vars
    BY <1>0, <1>11 DEF vars, resetVars, ringVars, Numbers
  <1> QED
    BY <1>1, <1>2, <1>3, <1>4, <1>5, <1>6, <1>7, <1>8, <1>9, <1>10, <1>11
       DEF Next, FIQ, MainLoop

\* and with the flags all types.
LEMMA StepKeepsTypes == TypeOK /\ KnownCycles /\ NoneDue /\ [Next]_vars => TypeOK'
  <1>1. TypeOK' <=> Flags' /\ Numbers'
    BY TypeParts, PTL
  <1> QED
    BY <1>1, TypeParts, StepKeepsFlags, StepKeepsNumbers
----------------------------------------------------------------------------
(* Every step is one of SIDPlayer's, or changes nothing it speaks of *)

\* While the kernel plays, no write has been passed over.
LEMMA NotPassed ==
  ASSUME TypeOK, PlayerInv, Playing = TRUE, RingContents # <<>>
  PROVE  nCyclesEmulated <= Head(RingContents)
  <1>1. /\ RingContents \in Seq(Nat) /\ Len(RingContents) \in Nat \ {0}
        /\ Head(RingContents) = RingContents[1]
    BY ContentsAreSequence, EmptySeq DEF ContentsOK
  <1>2. \A i \in 1 .. Len(RingContents) : nCyclesEmulated <= RingContents[i]
    BY DEF PlayerInv, Player!NoneOverdue, PlayerEmulated, PlayerPending
  <1> QED
    BY <1>1, <1>2

\* Every step of the kernel is one of the player, or none.
LEMMA StepIsPlayers ==
  ASSUME TypeOK, TypeOK', KnownCycles, NoneDue, PlayerInv, Next
  PROVE  [Player!Next]_(Player!playerVars)
  <1> USE DEF Player!playerVars, PlayerClock, PlayerEmulated, PlayerPending
  <1>1. CASE LaunchCycle
    <2>1. /\ cycleCountC64' = cycleCountC64 \/ cycleCountC64' = cycleCountC64 + 1
          /\ UNCHANGED <<pc, nCyclesEmulated, ringTime, ringWrite, ringRead>>
      BY <1>1, ClockTypes DEF LaunchCycle, FIQStep
    <2>2. Playing' = Playing /\ RingContents' = RingContents
      BY <2>1 DEF Playing, RingContents, RingLength
    <2> QED
      BY <2>1, <2>2 DEF Player!Next, Player!Tick
  <1>2. CASE ReleasedCycle \/ PressReset \/ ReleaseReset
    <2>1. UNCHANGED <<pc, cycleCountC64, nCyclesEmulated, ringTime, ringWrite, ringRead>>
      BY <1>2 DEF ReleasedCycle, FIQStep, PressReset, ReleaseReset, UserVars, ringVars
    <2> QED
      BY <2>1 DEF Playing, RingContents, RingLength
  <1>3. CASE CodeCycle \/ IdleCycle
    <2>1. /\ cycleCountC64' = cycleCountC64 \/ cycleCountC64' = cycleCountC64 + 1
          /\ UNCHANGED <<pc, nCyclesEmulated, ringTime, ringWrite, ringRead>>
      BY <1>3, ClockTypes DEF CodeCycle, IdleCycle, Cycle, FIQStep
    <2>2. Playing' = Playing /\ RingContents' = RingContents
      BY <2>1 DEF Playing, RingContents, RingLength
    <2> QED
      BY <2>1, <2>2 DEF Player!Next, Player!Tick
  <1>4. CASE WriteCycle
    <2>1. /\ cycleCountC64' = cycleCountC64 + 1
          /\ UNCHANGED <<pc, nCyclesEmulated, ringRead>>
          /\ ringTime' = [ringTime EXCEPT ![ringWrite] = cycleCountC64']
          /\ ringWrite' = (ringWrite + 1) % RingSize
      BY <1>4, ClockTypes DEF WriteCycle, Cycle, FIQStep
    <2>2. Playing' = Playing
      BY <2>1 DEF Playing
    <2>3. RingContents' = IF Len(RingContents) + 1 = RingSize THEN <<>>
                          ELSE Append(RingContents, cycleCountC64')
      BY <2>1, WriteAppends
    <2>4. CASE Playing
      BY <2>1, <2>2, <2>3, <2>4 DEF Player!Next, Player!Write
    <2>5. CASE ~Playing
      BY <2>2, <2>5
    <2> QED
      BY <2>4, <2>5
  <1>5. CASE WaitForLaunch \/ StartClock \/ PrepareReset \/ Restart
    <2>1. ~Playing /\ ~Playing'
      BY <1>5 DEF WaitForLaunch, StartClock, PrepareReset, Restart, Goto, Playing
    <2>2. Playing' = Playing
      BY <2>1 DEF Playing
    <2> QED
      BY <2>1, <2>2
  <1>6. CASE Start
    <2>1. /\ ~Playing /\ Playing' = TRUE
          /\ nCyclesEmulated' = 0 /\ ringRead' = ringWrite'
          /\ cycleCountC64' \in Nat
      BY <1>6 DEF Start, Goto, Playing, TypeOK
    <2>2. RingContents' = <<>>
      <3>1. ContentsOK'
        BY ContentsAreSequence, PTL
      <3> QED
        BY <2>1, <3>1 DEF ContentsOK
    <2>3. Playing' /\ Playing = FALSE
      BY <1>6 DEF Start, Goto, Playing
    <2> QED
      BY <2>1, <2>2, <2>3 DEF Player!Next, Player!Start
  <1>7. CASE LoopHead
    <2>1. CASE pc' = "emulate"
      <3>1. UNCHANGED <<cycleCountC64, nCyclesEmulated, ringTime, ringWrite, ringRead>>
        BY <1>7, <2>1 DEF LoopHead, Goto, MainVars
      <3>2. Playing = TRUE /\ Playing' = TRUE
        BY <1>7, <2>1 DEF LoopHead, Playing
      <3> QED
        BY <3>1, <3>2 DEF RingContents, RingLength
    <2>2. CASE pc' # "emulate"
      <3>1. Playing = TRUE /\ Playing' = FALSE
        BY <1>7, <2>2 DEF LoopHead, Goto, Playing
      <3> QED
        BY <3>1 DEF Player!Next, Player!Stop
    <2> QED
      BY <2>1, <2>2
  <1>8. CASE Emulate
    <2>1. /\ Playing = TRUE /\ Playing' = TRUE
          /\ UNCHANGED <<cycleCountC64, ringTime, ringWrite, ringRead>>
      BY <1>8 DEF Emulate, Goto, EmulationVars, MainVars, Playing
    <2>2. RingContents' = RingContents
      BY <2>1 DEF RingContents, RingLength
    <2>3. CASE cycleCount > nCyclesEmulated
      <3>1. PICK cycles \in 0 .. Ahead :
              nCyclesEmulated' = nCyclesEmulated + AtLeastOne(Chunk(cycles))
        BY <1>8, <2>3 DEF Emulate
      <3>2. /\ AtLeastOne(Chunk(cycles)) \in 1 .. cycleCount - nCyclesEmulated
            /\ ringRead # ringWrite
                 => nCyclesEmulated + AtLeastOne(Chunk(cycles)) <= ringTime[ringRead]
        BY <1>8, <2>3, ChunkEnds DEF Emulate
      <3>3. nCyclesEmulated' \in nCyclesEmulated + 1 .. cycleCountC64
        <4>1. /\ nCyclesEmulated \in Nat /\ cycleCount \in Nat /\ cycleCountC64 \in Nat
              /\ cycleCount <= cycleCountC64
          BY <1>8 DEF Emulate, KnownCycles, TypeOK
        <4> QED
          BY <3>1, <3>2, <4>1
      <3>4. RingContents # <<>> => nCyclesEmulated' <= Head(RingContents)
        BY <3>1, <3>2, ContentsAreSequence DEF ContentsOK
      <3> QED
        BY <2>1, <2>2, <3>3, <3>4 DEF Player!Next, Player!Emulate
    <2>4. CASE ~(cycleCount > nCyclesEmulated)
      <3>1. nCyclesEmulated' = nCyclesEmulated
        BY <1>8, <2>4 DEF Emulate
      <3> QED
        BY <2>1, <2>2, <3>1
    <2> QED
      BY <2>3, <2>4
  <1>9. CASE Apply
    <2>1. /\ Playing = TRUE /\ Playing' = TRUE
          /\ UNCHANGED <<cycleCountC64, nCyclesEmulated, ringTime, ringWrite>>
      BY <1>9 DEF Apply, Goto, MainVars, Playing
    <2>2. CASE ringRead # ringWrite /\ Due
      <3>1. RingContents # <<>> /\ Head(RingContents) = ringTime[ringRead]
        BY <2>2, ContentsAreSequence DEF ContentsOK
      <3>2. nCyclesEmulated <= Head(RingContents)
        BY <2>1, <3>1, NotPassed
      <3>3. nCyclesEmulated = Head(RingContents)
        <4>1. nCyclesEmulated \in Nat /\ ringTime[ringRead] \in Nat
          BY DEF TypeOK
        <4> QED
          BY <2>2, <3>1, <3>2, <4>1 DEF Due
      <3>4. RingContents' = Tail(RingContents)
        BY <1>9, <2>1, <2>2, ApplyTakesHead DEF Apply
      <3> QED
        BY <2>1, <3>1, <3>3, <3>4 DEF Player!Next, Player!Apply
    <2>3. CASE ~(ringRead # ringWrite /\ Due)
      <3>1. ringRead' = ringRead
        BY <1>9, <2>3 DEF Apply
      <3> QED
        BY <2>1, <3>1 DEF RingContents, RingLength
    <2> QED
      BY <2>2, <2>3
  <1> QED
    BY <1>1, <1>2, <1>3, <1>4, <1>5, <1>6, <1>7, <1>8, <1>9 DEF Next, FIQ, MainLoop
----------------------------------------------------------------------------
(* The invariant *)

\* The emulation is never ahead of the C64.
LEMMA Behind ==
  ASSUME PlayerInv, Playing = TRUE
  PROVE  nCyclesEmulated <= cycleCountC64
  BY DEF PlayerInv, Player!NoneOverdue, PlayerClock, PlayerEmulated

\* The cycle the main loop has read is in the past.
LEMMA StepKeepsKnownCycles ==
  ASSUME TypeOK, TypeOK', KnownCycles, NoneDue, PlayerInv, [Next]_vars
  PROVE  KnownCycles'
  <1> USE DEF KnownCycles
  <1>a. /\ nCyclesEmulated \in Nat /\ cycleCount \in Nat /\ cycleCountC64 \in Nat
        /\ cycleCountC64' \in Nat
    BY DEF TypeOK
  <1>1. CASE LaunchCycle \/ WriteCycle \/ CodeCycle \/ IdleCycle
    <2>1. /\ cycleCountC64 <= cycleCountC64'
          /\ UNCHANGED <<pc, nCyclesEmulated, cycleCount>>
      BY <1>1, ClockTypes DEF LaunchCycle, WriteCycle, CodeCycle, IdleCycle, Cycle, FIQStep
    <2> QED
      BY <1>a, <2>1
  <1>2. CASE ReleasedCycle \/ PressReset \/ ReleaseReset \/ UNCHANGED vars
    BY <1>2 DEF ReleasedCycle, FIQStep, PressReset, ReleaseReset, UserVars, vars
  <1>3. CASE WaitForLaunch \/ StartClock \/ Start \/ PrepareReset \/ Restart
    BY <1>3 DEF WaitForLaunch, StartClock, Start, PrepareReset, Restart, Goto
  <1>4. CASE LoopHead
    <2>1. nCyclesEmulated <= cycleCountC64
      BY <1>4, Behind DEF LoopHead, Playing
    <2> QED
      BY <1>4, <1>a, <2>1 DEF LoopHead, Goto
  <1>5. CASE Emulate
    <2>1. CASE cycleCount > nCyclesEmulated
      <3>1. PICK cycles \in 0 .. Ahead :
              nCyclesEmulated' = nCyclesEmulated + AtLeastOne(Chunk(cycles))
        BY <1>5, <2>1 DEF Emulate
      <3>2. AtLeastOne(Chunk(cycles)) \in 1 .. cycleCount - nCyclesEmulated
        BY <1>5, <2>1, ChunkEnds DEF Emulate
      <3>3. UNCHANGED <<cycleCount, cycleCountC64>> /\ cycleCount <= cycleCountC64
        BY <1>5 DEF Emulate, EmulationVars
      <3> QED
        BY <1>a, <3>1, <3>2, <3>3
    <2>2. CASE ~(cycleCount > nCyclesEmulated)
      BY <1>5, <2>2 DEF Emulate, Goto
    <2> QED
      BY <2>1, <2>2
  <1>6. CASE Apply
    BY <1>6 DEF Apply, Goto
  <1> QED
    BY <1>1, <1>2, <1>3, <1>4, <1>5, <1>6 DEF Next, FIQ, MainLoop

\* No write is due when a chunk begins.
LEMMA StepKeepsNoneDue ==
  ASSUME TypeOK, TypeOK', NoneDue, PlayerInv, [Next]_vars
  PROVE  NoneDue'
  <1> USE DEF NoneDue
  <1>1. CASE /\ LaunchCycle \/ CodeCycle \/ IdleCycle \/ ReleasedCycle \/ PressReset
                \/ ReleaseReset \/ UNCHANGED vars
    <2>1. UNCHANGED <<pc, nCyclesEmulated, ringTime, ringWrite, ringRead>>
      BY <1>1 DEF LaunchCycle, CodeCycle, IdleCycle, Cycle, ReleasedCycle, FIQStep, PressReset,
                  ReleaseReset, UserVars, ringVars, vars
    <2> QED
      BY <2>1 DEF RingContents, RingLength
  <1>2. CASE WriteCycle
    <2> SUFFICES ASSUME pc' \in {"loop", "emulate"}, RingContents' # <<>>
                 PROVE  nCyclesEmulated' < Head(RingContents')
      OBVIOUS
    <2>1. /\ cycleCountC64' = cycleCountC64 + 1
          /\ UNCHANGED <<pc, nCyclesEmulated, ringRead>>
          /\ ringTime' = [ringTime EXCEPT ![ringWrite] = cycleCountC64']
          /\ ringWrite' = (ringWrite + 1) % RingSize
      BY <1>2, ClockTypes DEF WriteCycle, Cycle, FIQStep
    <2>2. RingContents' = Append(RingContents, cycleCountC64')
      BY <2>1, WriteAppends
    <2>3. /\ RingContents \in Seq(Nat) /\ cycleCountC64 \in Nat
          /\ nCyclesEmulated \in Nat /\ nCyclesEmulated <= cycleCountC64
      <3>1. Playing = TRUE
        BY <2>1 DEF Playing
      <3> QED
        BY <3>1, Behind, ContentsAreSequence DEF ContentsOK, TypeOK
    <2>4. CASE RingContents = <<>>
      <3>1. Head(RingContents') = cycleCountC64'
        BY <2>2, <2>4
      <3> QED
        BY <2>1, <2>3, <3>1
    <2>5. CASE RingContents # <<>>
      <3>1. Head(RingContents') = Head(RingContents)
        <4>1. Len(RingContents) \in Nat \ {0}
          BY <2>3, <2>5, EmptySeq
        <4>2. /\ RingContents' \in Seq(Nat) /\ RingContents'[1] = RingContents[1]
          BY <2>1, <2>2, <2>3, <4>1, AppendProperties
        <4> QED
          BY <2>3, <2>5, <4>2
      <3> QED
        BY <2>1, <2>5, <3>1
    <2> QED
      BY <2>4, <2>5
  <1>3. CASE WaitForLaunch \/ StartClock \/ PrepareReset \/ Restart
    BY <1>3 DEF WaitForLaunch, StartClock, PrepareReset, Restart, Goto
  <1>4. CASE Start
    <2>1. ringRead' = ringWrite'
      BY <1>4 DEF Start
    <2>2. ContentsOK'
      BY ContentsAreSequence, PTL
    <2> QED
      BY <2>1, <2>2 DEF ContentsOK
  <1>5. CASE LoopHead
    <2> SUFFICES ASSUME pc' \in {"loop", "emulate"}
                 PROVE  RingContents' = RingContents /\ pc = "loop"
                        /\ nCyclesEmulated' = nCyclesEmulated
      OBVIOUS
    <2>1. UNCHANGED <<ringTime, ringWrite, ringRead, nCyclesEmulated>> /\ pc = "loop"
      BY <1>5 DEF LoopHead, Goto, MainVars
    <2> QED
      BY <2>1 DEF RingContents, RingLength
  <1>6. CASE Emulate
    <2> SUFFICES ASSUME pc' \in {"loop", "emulate"}
                 PROVE  RingContents' = RingContents /\ pc = "emulate"
                        /\ nCyclesEmulated' = nCyclesEmulated
      OBVIOUS
    <2>1. UNCHANGED <<ringTime, ringWrite, ringRead, nCyclesEmulated>> /\ pc = "emulate"
      BY <1>6 DEF Emulate, Goto, MainVars, EmulationVars
    <2> QED
      BY <2>1 DEF RingContents, RingLength
  <1>7. CASE Apply
    <2>1. /\ Playing = TRUE
          /\ UNCHANGED <<nCyclesEmulated, ringTime, ringWrite>>
      BY <1>7 DEF Apply, MainVars, Playing
    <2>2. nCyclesEmulated \in Nat /\ ringTime[ringRead] \in Nat
      BY DEF TypeOK
    <2>3. CASE ringRead # ringWrite /\ Due
      <3> SUFFICES ASSUME RingContents' # <<>>
                   PROVE  nCyclesEmulated < Head(RingContents')
        BY <2>1
      <3>1. /\ RingContents # <<>> /\ RingContents \in Seq(Nat)
            /\ Head(RingContents) = RingContents[1]
        BY <2>3, ContentsAreSequence DEF ContentsOK
      <3>2. nCyclesEmulated <= RingContents[1]
        BY <2>1, <3>1, NotPassed
      <3>3. RingContents' = Tail(RingContents)
        BY <1>7, <2>1, <2>3, ApplyTakesHead DEF Apply
      <3>4. /\ RingContents' \in Seq(Nat) /\ Len(RingContents') = Len(RingContents) - 1
            /\ \A i \in 1 .. Len(RingContents') : RingContents'[i] = RingContents[i + 1]
        BY <3>1, <3>3, HeadTailProperties
      <3>5. Len(RingContents') \in Nat \ {0} /\ Len(RingContents) \in Nat
        BY <3>1, <3>4, EmptySeq
      <3>6. Head(RingContents') = RingContents[2]
        BY <3>4, <3>5
      <3>7. RingContents[1] < RingContents[2]
        <4>1. \A i \in 1 .. Len(RingContents) :
                \A j \in 1 .. i - 1 : RingContents[j] < RingContents[i]
          BY <2>1 DEF PlayerInv, Player!Ascending, PlayerPending
        <4>2. 2 \in 1 .. Len(RingContents) /\ 1 \in 1 .. 2 - 1
          BY <3>4, <3>5
        <4> QED
          BY <4>1, <4>2
      <3>8. RingContents[1] \in Nat /\ RingContents[2] \in Nat
        BY <3>1, <3>4, <3>5, ElementOfSeq
      <3> QED
        BY <2>2, <3>2, <3>6, <3>7, <3>8
    <2>4. CASE ~(ringRead # ringWrite /\ Due)
      <3>1. ringRead' = ringRead
        BY <1>7, <2>4 DEF Apply
      <3>2. RingContents' = RingContents
        BY <2>1, <3>1 DEF RingContents, RingLength
      <3>3. RingContents # <<>> => nCyclesEmulated < Head(RingContents)
        BY <2>2, <2>4, ContentsAreSequence DEF ContentsOK, Due
      <3> QED
        BY <2>1, <3>2, <3>3
    <2> QED
      BY <2>3, <2>4
  <1> QED
    BY <1>1, <1>2, <1>3, <1>4, <1>5, <1>6, <1>7 DEF Next, FIQ, MainLoop

\* The kernel starts where the player does, with all that the steps rely on.
LEMMA InitIsPlayers ==
  ASSUME Init
  PROVE  Playing = FALSE /\ Player!Init
  BY DEF Init, Playing, Player!Init, PlayerClock, PlayerEmulated, PlayerPending

\* The kernel's invariant holds at first.
LEMMA InitHasIInv == Init => IInv
  <1> SUFFICES ASSUME Init PROVE IInv
    OBVIOUS
  <1> USE RingAssumption DEF RingAssumption
  <1>1. TypeOK
    <2>1. Flags
      BY DEF Init, Flags
    <2>2. Numbers
      BY DEF Init, Numbers
    <2> QED
      BY <2>1, <2>2, TypeParts
  <1>2. KnownCycles /\ NoneDue
    BY DEF Init, KnownCycles, NoneDue
  <1>3. PlayerInv
    BY InitIsPlayers, PlayerInitHasInv
  <1> QED
    BY <1>1, <1>2, <1>3 DEF IInv

\* All of it together, with what the steps of the player keep.
LEMMA StepKeepsIInv ==
  IInv /\ [Next]_vars => IInv' /\ [Player!Next]_(Player!playerVars)
  <1> SUFFICES ASSUME IInv, [Next]_vars
               PROVE  IInv' /\ [Player!Next]_(Player!playerVars)
    OBVIOUS
  <1> USE DEF IInv
  <1>1. TypeOK'
    BY StepKeepsTypes
  <1>2. KnownCycles' /\ NoneDue'
    BY <1>1, StepKeepsKnownCycles, StepKeepsNoneDue
  <1>3. [Player!Next]_(Player!playerVars)
    <2>1. CASE Next
      BY <1>1, <2>1, StepIsPlayers
    <2>2. CASE UNCHANGED vars
      BY <2>2 DEF vars, ringVars, Player!playerVars, Playing, RingContents, RingLength,
                  PlayerClock, PlayerEmulated, PlayerPending
    <2> QED
      BY <2>1, <2>2
  <1>4. PlayerInv'
    BY <1>3, PlayerStepKeepsInv
  <1> QED
    BY <1>1, <1>2, <1>3, <1>4

\* The invariant of the refinement: types, what the main loop knows of the
\* cycles, no write that is due when a chunk begins, and what follows from the
\* promise of SIDPlayer.
THEOREM KernelInvariant == Spec => []IInv
  <1>1. IInv /\ [Next]_vars => IInv'
    BY StepKeepsIInv
  <1> QED
    BY <1>1, InitHasIInv, PTL DEF Spec

\* The variables keep their types, so that the difference of the unsigned cycle
\* counts in the main loop does not wrap (kernel_sid.cpp).
THEOREM TypeCorrect == Spec => []TypeOK
  <1>1. IInv => TypeOK
    BY DEF IInv
  <1> QED
    BY <1>1, KernelInvariant, PTL

\* Whenever the main loop gets to run, and whenever the C64 is reset, the writes
\* to the SIDs are applied at their cycle, in their order and each once; only a
\* buffer that fills up loses them, and then all of them at once.
THEOREM KernelImplementsPlayer == Spec => PlaysAtTheirCycle
  <1>1. Init => Player!Init
    BY InitIsPlayers
  <1>2. IInv /\ [Next]_vars => [Player!Next]_(Player!playerVars)
    BY StepKeepsIInv
  <1> QED
    BY <1>1, <1>2, KernelInvariant, PTL DEF Spec, PlaysAtTheirCycle, Player!Spec
\* What SIDPlayer promises keeps the writes in order and none overdue.
THEOREM PlayerInvariant == Player!Spec => []PlayerInv
  BY PlayerInitHasInv, PlayerStepKeepsInv, PTL DEF Player!Spec

\* However far the emulation of the SIDs is behind the C64, it never passes the
\* cycle of a write that it has not applied (kernel_sid.cpp:1032-1038).
THEOREM NoWriteOverdue == Spec => []Player!NoneOverdue
  <1>1. IInv => Player!NoneOverdue
    BY DEF IInv, PlayerInv
  <1> QED
    BY <1>1, KernelInvariant, PTL

\* The main loop applies the first of the writes that wait.
AppliesHead ==
  /\ PlayerPending # <<>> /\ PlayerPending' = Tail(PlayerPending) /\ PlayerPending' # <<>>
  /\ Playing'

\* Before a write is applied all that were made before it have been, and it is
\* applied at its cycle.
THEOREM AppliedAtItsCycle ==
  Spec => [][AppliesHead => /\ PlayerEmulated = Head(PlayerPending)
                            /\ PlayerEmulated' = PlayerEmulated]_(Player!playerVars)
  <1>1. IInv /\ [Next]_vars
          => [AppliesHead => /\ PlayerEmulated = Head(PlayerPending)
                             /\ PlayerEmulated' = PlayerEmulated]_(Player!playerVars)
    <2> SUFFICES ASSUME IInv, [Next]_vars, AppliesHead,
                        ~UNCHANGED (Player!playerVars)
                 PROVE  /\ PlayerEmulated = Head(PlayerPending)
                        /\ PlayerEmulated' = PlayerEmulated
      OBVIOUS
    <2>0. Player!Next
      BY StepKeepsIInv
    <2>1. Len(Tail(PlayerPending)) # Len(PlayerPending)
      BY HeadAndTail DEF IInv, PlayerInv, Player!TypeOK, AppliesHead
    <2>2. PlayerPending' # PlayerPending
      BY <2>1 DEF AppliesHead
    <2>3. ~Player!Write
      <3>1. ASSUME PlayerPending' = Append(PlayerPending, PlayerClock') PROVE FALSE
        BY <3>1, HeadAndTail DEF IInv, PlayerInv, Player!TypeOK, AppliesHead
      <3> QED
        BY <3>1 DEF Player!Write, AppliesHead
    <2> QED
      BY <2>0, <2>2, <2>3 DEF AppliesHead, Player!Next, Player!Start, Player!Stop,
                              Player!Tick, Player!Emulate, Player!Apply
  <1> QED
    BY <1>1, KernelInvariant, PTL DEF Spec
-----------------------------------------------------------------------------
(***************************************************************************)
(* Latch for every size of the buffer, every set of frames that fit in it, *)
(* and any number of frames and of times the latch is set.                 *)
(*                                                                         *)
(* The argument: of the commands of the frame, some have been put and of   *)
(* these some have been taken; those between wait in the ring, in their    *)
(* order, and those after are what the main loop has left.  How many have  *)
(* been taken says how the lines SDA and SCL are, and which bits the       *)
(* display has clocked in, as long as the handler has not come between a   *)
(* read of the main loop and the write that goes with it.  The handler     *)
(* skips commands that change nothing; where it stands says how many these *)
(* may be, because a rising SCL is never one of them.                      *)
(***************************************************************************)

\* p commands of the frame have been taken and put of them put
Queue(p, put) ==
  /\ Outstanding = put - p
  /\ \A i \in 0 .. put - p - 1 : Waiting(i) = FrameCommands(frame)[p + i + 1]
  /\ Len(frameLeft) = 3 * Len(frame) - put
  /\ \A i \in 1 .. Len(frameLeft) : frameLeft[i] = FrameCommands(frame)[put + i]

Shown(n) == n <= Len(frame) /\ shown = SubSeq(frame, 1, n)
SDAIs(b) == "SDA" \in latchD <=> b

\* the lines, when r commands of the bit after the j-th have been taken
LinesOLED(j, r) ==
  /\ "SCL" \in latchD <=> r = 2
  /\ r \in {1, 2} => SDAIs(frame[j + 1])
  /\ \A v \in lastSDAValue : lastSDAValue = {v} /\ SDAIs(v)
  /\ Shown(IF r = 2 THEN j + 1 ELSE j)
LinesTFT(j, r) ==
  /\ r \in {1, 2} => "SCL" \notin latchD
  /\ r = 0 /\ j > 0 => "SCL" \in latchD
  /\ r = 2 => SDAIs(frame[j + 1])
  /\ Shown(j)

\* an OLED takes a frame when all of it has been put
StageOLED(p, put) ==
  /\ renderDone \in {0, 1} => p = put /\ p = 3 * Len(frame)
  /\ renderDone = 2 => p = 0
  /\ renderDone = 3 => p < put

Where(j, r, put) ==
  /\ j \in Nat /\ r \in 0 .. 2 /\ put \in Nat
  /\ 3 * j + r <= put /\ put <= 3 * Len(frame)
  /\ Queue(3 * j + r, put)
  /\ screenType = OLED => LinesOLED(j, r) /\ StageOLED(3 * j + r, put)
  /\ screenType = TFT => LinesTFT(j, r)

ControlOK ==
  /\ loaded.what = "count" => Putting
  /\ loaded.what = "latch" => sets < MaxSets
  /\ screenType = OLED => "count" \notin raced
  /\ screenType = OLED /\ frameLeft # <<>> => renderDone = 2
  /\ screenType = TFT => renderDone = 0
  /\ frame = <<>> \/ frame \in Frames

\* nothing has come between a read and its write
LoadedOK ==
  /\ loaded.what = "count" => loaded.count = i2cBufferCountCur
  /\ loaded.what = "latch" => loaded.pins = latchD
SCLIsOut == "SCL" \in latchD <=> "SCL" \in latchDOld
OrderOK == raced = {} =>
  /\ \E j, r, put \in Nat : Where(j, r, put)
  /\ SCLIsOut /\ LoadedOK

QueueInv == LatchTypeOK /\ ControlOK /\ OrderOK
----------------------------------------------------------------------------
(* The ring, and what is skipped *)

\* An index past the end of the ring comes round once.
LEMMA WrapsInSlots ==
  ASSUME NEW x \in 0 .. 2 * Slots - 1
  PROVE  x % Slots = IF x < Slots THEN x ELSE x - Slots
  BY LatchAssumption

\* The least of some numbers is one of them, and no other is less.
LEMMA MinIs ==
  ASSUME NEW S, S \subseteq Nat, S # {}
  PROVE  Min(S) \in S /\ \A y \in S : Min(S) <= y
  <1> DEFINE R == OpToRel(<, Nat)
  <1>1. \E x \in S : \A y \in S : ~ (<<y, x>> \in R)
    BY NatLessThanWellFounded, WFMin
  <1>2. PICK x \in S : \A y \in S : ~ (<<y, x>> \in R)
    BY <1>1
  <1>3. \A y \in S : x <= y
    <2>1. ASSUME NEW y \in S PROVE <<y, x>> \in R <=> y < x
      BY DEF OpToRel
    <2>2. \A y \in S : ~ (y < x)
      <3> HIDE DEF R
      <3> QED
        BY <1>2, <2>1
    <2>3. \A y \in S : y \in Nat
      OBVIOUS
    <2> QED
      BY <2>2, <2>3
  <1> QED
    BY <1>3 DEF Min

\* The handler skips commands of a kind up to the first that is not of it.
LEMMA SkippedIs ==
  ASSUME NEW n \in Nat, Outstanding = n, NEW R
  PROVE  /\ Skipped(R) \in 0 .. n
         /\ \A i \in 0 .. Skipped(R) - 1 : Waiting(i) \in R
         /\ Skipped(R) < n => Waiting(Skipped(R)) \notin R
  <1> DEFINE S == {i \in 0 .. Outstanding - 1 : Waiting(i) \notin R} \cup {Outstanding}
             k == Skipped(R)
  <1>1. S \subseteq Nat /\ S # {} /\ k = Min(S)
    BY DEF Skipped
  <1>2. \A i : i \in S <=> (i \in 0 .. n - 1 /\ Waiting(i) \notin R) \/ i = n
    OBVIOUS
  <1> HIDE DEF S, k
  <1>3. k \in S /\ \A y \in S : k <= y
    BY <1>1, MinIs
  <1>4. k \in 0 .. n
    BY <1>2, <1>3
  <1>5. ASSUME NEW i \in 0 .. k - 1 PROVE Waiting(i) \in R
    <2>1. i \in 0 .. n - 1 /\ ~(k <= i)
      BY <1>4
    <2> QED
      BY <1>2, <1>3, <2>1
  <1>6. k < n => Waiting(k) \notin R
    BY <1>2, <1>3, <1>4
  <1> QED
    BY <1>4, <1>5, <1>6 DEF k

\* How far the end of the ring is from its beginning, and where an element is, without
\* division.
LEMMA Ring ==
  ASSUME NEW l \in 0 .. Slots - 1, NEW c \in 0 .. Slots - 1
  PROVE  /\ (c + Slots - l) % Slots = IF l <= c THEN c - l ELSE c + Slots - l
         /\ (c + Slots - l) % Slots \in 0 .. Slots - 1
         /\ l = c <=> (c + Slots - l) % Slots = 0
         /\ \A i \in 0 .. Slots : (l + i) % Slots = IF l + i < Slots THEN l + i ELSE l + i - Slots
         /\ \A i \in 0 .. Slots : (l + i) % Slots \in 0 .. Slots - 1
  <1> DEFINE x == c + Slots - l
  <1>1. Slots \in Nat \ {0}
    BY LatchAssumption
  <1>2. x \in 0 .. 2 * Slots - 1
    BY <1>1
  <1>3. x % Slots = IF x < Slots THEN x ELSE x - Slots
    <2> HIDE DEF x
    <2> QED BY <1>2, WrapsInSlots
  <1>4. x % Slots = IF l <= c THEN c - l ELSE c + Slots - l
    BY <1>1, <1>3
  <1>5. ASSUME NEW i \in 0 .. Slots
        PROVE  (l + i) % Slots = IF l + i < Slots THEN l + i ELSE l + i - Slots
    <2> DEFINE y == l + i
    <2>1. y \in 0 .. 2 * Slots - 1
      BY <1>1
    <2> HIDE DEF y
    <2>2. y % Slots = IF y < Slots THEN y ELSE y - Slots
      BY <2>1, WrapsInSlots
    <2> QED
      BY <1>1, <2>1, <2>2 DEF y
  <1>6. /\ (IF l <= c THEN c - l ELSE c + Slots - l) \in 0 .. Slots - 1
        /\ l = c <=> (IF l <= c THEN c - l ELSE c + Slots - l) = 0
        /\ \A i \in 0 .. Slots : (IF l + i < Slots THEN l + i ELSE l + i - Slots) \in 0 .. Slots - 1
    BY <1>1
  <1> QED
    BY <1>4, <1>5, <1>6

\* How many commands wait, and what they are.
LEMMA RingIs ==
  ASSUME LatchTypeOK
  PROVE  /\ Outstanding \in 0 .. Slots - 1
         /\ bufferEmptyI2C <=> Outstanding = 0
         /\ \A i \in 0 .. Slots - 1 : Waiting(i) \in Command
  <1>1. /\ i2cBufferCountLast \in 0 .. Slots - 1 /\ i2cBufferCountCur \in 0 .. Slots - 1
        /\ i2cBuffer \in [0 .. Slots - 1 -> Command]
    BY DEF LatchTypeOK
  <1>2. ASSUME NEW i \in 0 .. Slots - 1 PROVE Waiting(i) \in Command
    <2>1. i \in 0 .. Slots
      BY LatchAssumption
    <2>2. (i2cBufferCountLast + i) % Slots \in 0 .. Slots - 1
      BY <1>1, <2>1, Ring
    <2> QED
      BY <1>1, <2>2 DEF Waiting
  <1> QED
    BY <1>1, <1>2, Ring DEF Outstanding, bufferEmptyI2C

\* The commands of a frame: three for each of its bits, in their order.
LEMMA FrameCommandsAre ==
  ASSUME NEW f \in Seq(BOOLEAN)
  PROVE  /\ DOMAIN FrameCommands(f) = 1 .. 3 * Len(f) /\ Len(FrameCommands(f)) = 3 * Len(f)
         /\ \A j \in 0 .. Len(f) - 1 : \A r \in 0 .. 2 :
              FrameCommands(f)[3 * j + r + 1] = BitCommands(f[j + 1])[r + 1]
         /\ FrameCommands(f) \in Seq(Command)
  <1> DEFINE n == 3 * Len(f)
  <1>1. Len(f) \in Nat /\ n \in Nat
    OBVIOUS
  <1>2. ASSUME NEW b \in BOOLEAN, NEW i \in 1 .. 3 PROVE BitCommands(b)[i] \in Command
    <2> DEFINE x == SDA(b)
               y == SCL(TRUE)
               z == SCL(FALSE)
    <2>1. x \in Command /\ y \in Command /\ z \in Command
      BY DEF SDA, SCL, Command
    <2>2. BitCommands(b) = <<x, y, z>> \/ BitCommands(b) = <<z, x, y>>
      BY DEF BitCommands
    <2> HIDE DEF x, y, z
    <2> QED
      BY <2>1, <2>2
  <1>3. ASSUME NEW k \in 1 .. n
        PROVE  /\ 1 + (k - 1) \div 3 \in 1 .. Len(f) /\ 1 + ((k - 1) % 3) \in 1 .. 3
               /\ BitCommands(f[1 + (k - 1) \div 3])[1 + ((k - 1) % 3)] \in Command
    <2>1. 1 + (k - 1) \div 3 \in 1 .. Len(f) /\ 1 + ((k - 1) % 3) \in 1 .. 3
      BY <1>1
    <2>2. f[1 + (k - 1) \div 3] \in BOOLEAN
      BY <2>1
    <2> QED
      BY <1>2, <2>1, <2>2
  <1>4. FrameCommands(f) = [k \in 1 .. n |-> BitCommands(f[1 + (k - 1) \div 3])[1 + ((k - 1) % 3)]]
    BY DEF FrameCommands
  <1>5. FrameCommands(f) \in [1 .. n -> Command]
    BY <1>3, <1>4
  <1>6. ASSUME NEW j \in 0 .. Len(f) - 1, NEW r \in 0 .. 2
        PROVE  FrameCommands(f)[3 * j + r + 1] = BitCommands(f[j + 1])[r + 1]
    <2> DEFINE k == 3 * j + r + 1
    <2>1. k \in 1 .. n /\ 1 + (k - 1) \div 3 = j + 1 /\ 1 + ((k - 1) % 3) = r + 1
      BY <1>1
    <2> HIDE DEF k
    <2>2. FrameCommands(f)[k] = BitCommands(f[j + 1])[r + 1]
      BY <1>4, <2>1
    <2> QED
      BY <2>2 DEF k
  <1>7. FrameCommands(f) \in Seq(Command) /\ Len(FrameCommands(f)) = n
    BY <1>1, <1>5, LenProperties, IsASeq
  <1> QED
    BY <1>5, <1>6, <1>7
----------------------------------------------------------------------------
(* The queue *)

\* The handler takes some of the commands that wait.
LEMMA Taken ==
  ASSUME LatchTypeOK, NEW p \in Nat, NEW put \in Nat, Queue(p, put), NEW n \in 0 .. put - p,
         i2cBufferCountLast' = (i2cBufferCountLast + n) % Slots,
         UNCHANGED <<screenType, i2cBufferCountCur, i2cBuffer, frame, frameLeft>>
  PROVE  /\ Queue(p + n, put)' /\ Outstanding' = Outstanding - n
         /\ i2cBufferCountLast' \in 0 .. Slots - 1
  <1> DEFINE l == i2cBufferCountLast
             c == i2cBufferCountCur
             l2 == i2cBufferCountLast'
  <1>1. /\ l \in 0 .. Slots - 1 /\ c \in 0 .. Slots - 1 /\ Slots \in Nat \ {0}
    BY LatchAssumption DEF LatchTypeOK
  <1>2. /\ Outstanding = put - p /\ (c + Slots - l) % Slots = put - p
        /\ \A i \in 0 .. put - p - 1 : i2cBuffer[(l + i) % Slots] = FrameCommands(frame)[p + i + 1]
    BY DEF Queue, Outstanding, Waiting
  <1> HIDE DEF l, c
  <1>3. put - p = (IF l <= c THEN c - l ELSE c + Slots - l) /\ put - p \in 0 .. Slots - 1
    BY <1>1, <1>2, Ring
  <1>4. n \in 0 .. Slots
    BY <1>1, <1>3
  <1>5. l2 = (IF l + n < Slots THEN l + n ELSE l + n - Slots) /\ l2 \in 0 .. Slots - 1
    BY <1>1, <1>4, Ring DEF l
  <1> HIDE DEF l2
  <1>6. (c + Slots - l2) % Slots = put - p - n
    <2>1. (c + Slots - l2) % Slots = IF l2 <= c THEN c - l2 ELSE c + Slots - l2
      BY <1>1, <1>5, Ring
    <2> QED
      BY <1>1, <1>3, <1>5, <2>1
  <1>7. ASSUME NEW i \in 0 .. put - p - n - 1
        PROVE  i2cBuffer[(l2 + i) % Slots] = FrameCommands(frame)[p + n + i + 1]
    <2>1. i \in 0 .. Slots /\ n + i \in 0 .. Slots /\ n + i \in 0 .. put - p - 1
      BY <1>1, <1>3
    <2>2. (l2 + i) % Slots = IF l2 + i < Slots THEN l2 + i ELSE l2 + i - Slots
      BY <1>1, <1>5, <2>1, Ring
    <2> DEFINE m == n + i
    <2>3. (l + m) % Slots = IF l + m < Slots THEN l + m ELSE l + m - Slots
      <3> HIDE DEF m
      <3> QED
        BY <1>1, <2>1, Ring DEF m
    <2>4. (l2 + i) % Slots = (l + m) % Slots
      BY <1>1, <1>3, <1>5, <2>1, <2>2, <2>3
    <2>5. i2cBuffer[(l + m) % Slots] = FrameCommands(frame)[p + m + 1]
      <3> HIDE DEF m
      <3> QED
        BY <1>2, <2>1 DEF m
    <2>6. p + m + 1 = p + n + i + 1
      OBVIOUS
    <2> QED
      BY <2>4, <2>5, <2>6
  <1>8. Outstanding' = put - (p + n) /\ Outstanding' = Outstanding - n
    <2>1. Outstanding' = (c + Slots - l2) % Slots
      BY DEF Outstanding, c, l2
    <2> QED
      BY <1>2, <1>6, <2>1
  <1>9. ASSUME NEW i \in 0 .. put - (p + n) - 1
        PROVE  Waiting(i)' = FrameCommands(frame)[p + n + i + 1]
    <2>1. i \in 0 .. put - p - n - 1
      OBVIOUS
    <2>2. Waiting(i)' = i2cBuffer[(l2 + i) % Slots]
      BY DEF Waiting, l2
    <2> QED
      BY <1>7, <2>1, <2>2
  <1>10. FrameCommands(frame)' = FrameCommands(frame)
    BY DEF FrameCommands, BitCommands
  <1>11. /\ (Len(frameLeft) = 3 * Len(frame) - put)'
         /\ (\A i \in 1 .. Len(frameLeft) : frameLeft[i] = FrameCommands(frame)[put + i])'
    BY <1>10 DEF Queue
  <1>12. (\A i \in 0 .. put - (p + n) - 1 : Waiting(i) = FrameCommands(frame)[p + n + i + 1])'
    BY <1>9, <1>10
  <1> QED
    BY <1>5, <1>8, <1>11, <1>12 DEF Queue, l2

\* When there is nothing left the counts begin anew.
LEMMA TakenAll ==
  ASSUME LatchTypeOK, NEW p \in Nat, NEW put \in Nat, p <= put, Queue(p, put), QueueReset,
         UNCHANGED <<screenType, i2cBuffer, frame, frameLeft>>
  PROVE  Queue(put, put)'
  <1>1. i2cBufferCountLast' = 0 /\ i2cBufferCountCur' = 0 /\ 0 \in 0 .. Slots - 1
    BY LatchAssumption DEF QueueReset
  <1>2. Outstanding' = 0
    BY <1>1, Ring DEF Outstanding
  <1>3. FrameCommands(frame)' = FrameCommands(frame)
    BY DEF FrameCommands, BitCommands
  <1>4. put - put = 0 /\ 0 .. 0 - 1 = {}
    OBVIOUS
  <1> QED
    BY <1>2, <1>3, <1>4 DEF Queue

\* The main loop puts the next command behind those that wait.
LEMMA Put ==
  ASSUME LatchTypeOK, NEW p \in Nat, NEW put \in Nat, p <= put, put <= 3 * Len(frame), Queue(p, put),
         frame \in Seq(BOOLEAN), 3 * Len(frame) < Slots, frameLeft # <<>>,
         i2cBuffer' = [i2cBuffer EXCEPT ![i2cBufferCountCur] = Head(frameLeft)],
         i2cBufferCountCur' = NextSlot(i2cBufferCountCur), frameLeft' = Tail(frameLeft),
         UNCHANGED <<screenType, i2cBufferCountLast, frame>>
  PROVE  Queue(p, put + 1)' /\ put + 1 <= 3 * Len(frame)
  <1> DEFINE l == i2cBufferCountLast
             c == i2cBufferCountCur
             c2 == i2cBufferCountCur'
             n == 3 * Len(frame)
  <1>1. /\ l \in 0 .. Slots - 1 /\ c \in 0 .. Slots - 1 /\ Slots \in Nat \ {0} /\ n \in Nat
        /\ i2cBuffer \in [0 .. Slots - 1 -> Command] /\ frameLeft \in Seq(Command)
    BY LatchAssumption DEF LatchTypeOK
  <1>2. /\ (c + Slots - l) % Slots = put - p
        /\ \A i \in 0 .. put - p - 1 : i2cBuffer[(l + i) % Slots] = FrameCommands(frame)[p + i + 1]
        /\ Len(frameLeft) = n - put
        /\ \A i \in 1 .. Len(frameLeft) : frameLeft[i] = FrameCommands(frame)[put + i]
    BY DEF Queue, Outstanding, Waiting
  <1>3. /\ Tail(frameLeft) \in Seq(Command) /\ Len(frameLeft) \in Nat /\ Len(frameLeft) >= 1
        /\ Len(Tail(frameLeft)) = Len(frameLeft) - 1
        /\ \A i \in 1 .. Len(Tail(frameLeft)) : Tail(frameLeft)[i] = frameLeft[i + 1]
        /\ Head(frameLeft) = frameLeft[1]
    BY <1>1, HeadTailProperties, EmptySeq
  <1>4. c2 = (c + 1) % Slots
    BY DEF NextSlot
  <1>5. put + 1 <= n
    BY <1>1, <1>2, <1>3
  <1> HIDE DEF l, c, c2, n
  <1>6. put - p = (IF l <= c THEN c - l ELSE c + Slots - l) /\ put - p \in 0 .. Slots - 1
        /\ put - p + 1 < Slots
    <2>1. n < Slots
      BY DEF n
    <2>2. (c + Slots - l) % Slots = (IF l <= c THEN c - l ELSE c + Slots - l)
          /\ (c + Slots - l) % Slots \in 0 .. Slots - 1
      BY <1>1, Ring
    <2>3. put - p + 1 < Slots
      BY <1>1, <1>5, <2>1
    <2> QED
      BY <1>2, <2>2, <2>3
  <1>7. c2 = (IF c + 1 < Slots THEN c + 1 ELSE c + 1 - Slots) /\ c2 \in 0 .. Slots - 1
    <2>1. c + 1 \in 0 .. 2 * Slots - 1
      BY <1>1
    <2> DEFINE x == c + 1
    <2>2. x % Slots = IF x < Slots THEN x ELSE x - Slots
      <3> HIDE DEF x
      <3> QED
        BY <2>1, WrapsInSlots DEF x
    <2>3. c2 = IF c + 1 < Slots THEN c + 1 ELSE c + 1 - Slots
      BY <1>1, <1>4, <2>1, <2>2
    <2> QED
      BY <1>1, <2>3
  <1>8. (c2 + Slots - l) % Slots = put + 1 - p
    <2>1. (c2 + Slots - l) % Slots = IF l <= c2 THEN c2 - l ELSE c2 + Slots - l
      BY <1>1, <1>7, Ring
    <2>2. (IF l <= c2 THEN c2 - l ELSE c2 + Slots - l) = put + 1 - p
      BY <1>1, <1>6, <1>7
    <2> QED
      BY <2>1, <2>2
  <1>9. ASSUME NEW i \in 0 .. put + 1 - p - 1
        PROVE  i2cBuffer'[(l + i) % Slots] = FrameCommands(frame)[p + i + 1]
    <2>1. i \in 0 .. Slots /\ (i \in 0 .. put - p - 1 \/ i = put - p)
      BY <1>1, <1>6
    <2>2. (l + i) % Slots = (IF l + i < Slots THEN l + i ELSE l + i - Slots)
          /\ (l + i) % Slots \in 0 .. Slots - 1
      BY <1>1, <2>1, Ring
    <2> DEFINE at == (l + i) % Slots
    <2> HIDE DEF at
    <2>3. at = (IF l + i < Slots THEN l + i ELSE l + i - Slots) /\ at \in 0 .. Slots - 1
      BY <2>2 DEF at
    <2>4. CASE i \in 0 .. put - p - 1
      <3>1. at # c
        BY <1>1, <1>6, <2>3, <2>4
      <3>2. i2cBuffer'[at] = i2cBuffer[at]
        BY <1>1, <2>3, <3>1 DEF c
      <3>3. i2cBuffer[at] = FrameCommands(frame)[p + i + 1]
        BY <1>2, <2>4 DEF at
      <3> QED
        BY <3>2, <3>3 DEF at
    <2>5. CASE i = put - p
      <3>1. at = c
        BY <1>1, <1>6, <2>3, <2>5
      <3>2. i2cBuffer'[at] = Head(frameLeft)
        BY <1>1, <2>3, <3>1 DEF c
      <3>3. 1 \in 1 .. Len(frameLeft) /\ p + i + 1 = put + 1
        BY <1>3, <2>5
      <3>4. frameLeft[1] = FrameCommands(frame)[put + 1]
        BY <1>2, <3>3
      <3> QED
        BY <1>3, <3>2, <3>3, <3>4 DEF at
    <2> QED
      BY <2>1, <2>4, <2>5
  <1>10. ASSUME NEW i \in 1 .. Len(Tail(frameLeft))
         PROVE  Tail(frameLeft)[i] = FrameCommands(frame)[put + 1 + i]
    <2>1. i + 1 \in 1 .. Len(frameLeft) /\ put + (i + 1) = put + 1 + i
      BY <1>3
    <2> DEFINE m == i + 1
    <2>2. frameLeft[m] = FrameCommands(frame)[put + m]
      <3> HIDE DEF m
      <3> QED
        BY <1>2, <2>1 DEF m
    <2> QED
      BY <1>3, <2>1, <2>2
  <1>11. FrameCommands(frame)' = FrameCommands(frame)
    BY DEF FrameCommands, BitCommands
  <1>12. Outstanding' = put + 1 - p
    BY <1>8 DEF Outstanding, l, c2
  <1>13. (\A i \in 0 .. put + 1 - p - 1 : Waiting(i) = FrameCommands(frame)[p + i + 1])'
    BY <1>9, <1>11 DEF Waiting, l
  <1>14. Len(frameLeft)' = 3 * Len(frame) - (put + 1)
    BY <1>1, <1>2, <1>3 DEF n
  <1>15. (\A i \in 1 .. Len(frameLeft) : frameLeft[i] = FrameCommands(frame)[put + 1 + i])'
    BY <1>10, <1>11
  <1> QED
    BY <1>5, <1>12, <1>13, <1>14, <1>15 DEF Queue, n
----------------------------------------------------------------------------
(* The main loop *)

\* A frame fits in the buffer.
LEMMA FrameFits ==
  ASSUME ControlOK
  PROVE  frame \in Seq(BOOLEAN) /\ Len(frame) \in Nat /\ 3 * Len(frame) < Slots
  <1>1. CASE frame = <<>>
    <2>1. frame \in Seq(BOOLEAN) /\ Len(frame) = 0
      BY <1>1, EmptySeq
    <2> QED
      BY <2>1, LatchAssumption
  <1>2. CASE frame \in Frames
    BY <1>2, LatchAssumption
  <1> QED
    BY <1>1, <1>2 DEF ControlOK

\* What the main loop has read.
LEMMA LoadedIs ==
  ASSUME LatchTypeOK
  PROVE  /\ loaded.what = "count" => loaded.count \in 0 .. Slots - 1
         /\ loaded.what = "latch" => loaded.pins \in SUBSET {"SDA", "SCL", "RESET", "LED"}
  BY DEF LatchTypeOK, Nothing

\* Neither the LEDs and the reset, nor that a frame is drawn, concern the queue.
LEMMA WhereKept ==
  ASSUME NEW j, NEW r, NEW put, Where(j, r, put),
         UNCHANGED <<screenType, queueVars, lastSDAValue, frame, frameLeft, shown>>,
         "SDA" \in latchD' <=> "SDA" \in latchD, "SCL" \in latchD' <=> "SCL" \in latchD,
         renderDone' = renderDone \/ (renderDone = 0 /\ renderDone' = 1)
  PROVE  Where(j, r, put)'
  <1>1. Queue(3 * j + r, put)'
    BY DEF Where, Queue, Outstanding, Waiting, FrameCommands, BitCommands, queueVars
  <1>2. screenType = OLED => LinesOLED(j, r)'
    BY DEF Where, LinesOLED, SDAIs, Shown
  <1>3. screenType = OLED => StageOLED(3 * j + r, put)'
    BY DEF Where, StageOLED
  <1>4. screenType = TFT => LinesTFT(j, r)'
    BY DEF Where, LinesTFT, SDAIs, Shown
  <1> QED
    BY <1>1, <1>2, <1>3, <1>4 DEF Where

\* The main loop reads the index of the next free slot.
LEMMA LoadCountKeeps ==
  ASSUME QueueInv, LoadCount
  PROVE  QueueInv'
  <1>1. /\ LatchTypeOK /\ ControlOK /\ OrderOK /\ Putting
        /\ loaded' = Counted(i2cBufferCountCur)
        /\ UNCHANGED <<screenType, renderDone, latchD, latchDOld, queueVars, lastSDAValue,
                       frame, frameLeft, frames, sets, shown, raced>>
    BY DEF QueueInv, LoadCount, historyVars
  <1>2. LatchTypeOK'
    <2>1. loaded' \in [what : {"count"}, count : 0 .. Slots - 1]
      BY <1>1 DEF LatchTypeOK, Counted
    <2> QED
      BY <1>1, <2>1 DEF LatchTypeOK, queueVars
  <1>3. ControlOK'
    BY <1>1 DEF ControlOK, Putting, Counted
  <1>4. OrderOK'
    <2> SUFFICES ASSUME raced = {} PROVE OrderOK'
      BY <1>1 DEF OrderOK
    <2>1. PICK j \in Nat, r \in Nat, put \in Nat : Where(j, r, put)
      BY <1>1 DEF OrderOK
    <2>2. Where(j, r, put)'
      BY <1>1, <2>1, WhereKept
    <2>3. SCLIsOut' /\ LoadedOK'
      BY <1>1 DEF OrderOK, SCLIsOut, LoadedOK, Counted, queueVars
    <2> QED
      BY <2>2, <2>3 DEF OrderOK
  <1> QED
    BY <1>2, <1>3, <1>4 DEF QueueInv

\* The main loop reads the latch to change it.
LEMMA LoadLatchKeeps ==
  ASSUME QueueInv, LoadLatch
  PROVE  QueueInv'
  <1>1. /\ LatchTypeOK /\ ControlOK /\ OrderOK /\ sets < MaxSets
        /\ loaded' = Latched(latchD)
        /\ UNCHANGED <<screenType, renderDone, latchD, latchDOld, queueVars, lastSDAValue,
                       frame, frameLeft, frames, sets, shown, raced>>
    BY DEF QueueInv, LoadLatch, historyVars
  <1>2. LatchTypeOK'
    <2>1. loaded' \in [what : {"latch"}, pins : SUBSET {"SDA", "SCL", "RESET", "LED"}]
      BY <1>1 DEF LatchTypeOK, Latched
    <2> QED
      BY <1>1, <2>1 DEF LatchTypeOK, queueVars
  <1>3. ControlOK'
    BY <1>1 DEF ControlOK, Latched
  <1>4. OrderOK'
    <2> SUFFICES ASSUME raced = {} PROVE OrderOK'
      BY <1>1 DEF OrderOK
    <2>1. PICK j \in Nat, r \in Nat, put \in Nat : Where(j, r, put)
      BY <1>1 DEF OrderOK
    <2>2. Where(j, r, put)'
      BY <1>1, <2>1, WhereKept
    <2>3. SCLIsOut' /\ LoadedOK'
      BY <1>1 DEF OrderOK, SCLIsOut, LoadedOK, Latched
    <2> QED
      BY <2>2, <2>3 DEF OrderOK
  <1> QED
    BY <1>2, <1>3, <1>4 DEF QueueInv

\* It stores what it has read, with a pin changed that is not the display's.
LEMMA StoreLatchKeeps ==
  ASSUME QueueInv, StoreLatch
  PROVE  QueueInv'
  <1>1. PICK s \in {{"RESET"}, {"LED"}}, c \in {{"RESET"}, {"LED"}} : latchSetClear(s, c)
    BY DEF StoreLatch
  <1>2. /\ LatchTypeOK /\ ControlOK /\ OrderOK
        /\ loaded.what = "latch" /\ loaded' = Nothing /\ sets' = sets + 1
        /\ latchD' = (loaded.pins \cup s) \ c
        /\ UNCHANGED <<screenType, renderDone, latchDOld, queueVars, lastSDAValue,
                       frame, frameLeft, frames, shown, raced>>
    BY <1>1 DEF QueueInv, latchSetClear
  <1>3. LatchTypeOK'
    <2>1. latchD' \in SUBSET {"SDA", "SCL", "RESET", "LED"}
      BY <1>2, LoadedIs
    <2>2. sets' \in 0 .. MaxSets
      BY <1>2, LatchAssumption DEF LatchTypeOK, ControlOK
    <2> QED
      BY <1>2, <2>1, <2>2 DEF LatchTypeOK, queueVars
  <1>4. ControlOK'
    BY <1>2 DEF ControlOK, Nothing
  <1>5. OrderOK'
    <2> SUFFICES ASSUME raced = {} PROVE OrderOK'
      BY <1>2 DEF OrderOK
    <2>1. PICK j \in Nat, r \in Nat, put \in Nat : Where(j, r, put)
      BY <1>2 DEF OrderOK
    <2>2. /\ "SDA" \in latchD' <=> "SDA" \in latchD
          /\ "SCL" \in latchD' <=> "SCL" \in latchD
      BY <1>2 DEF OrderOK, LoadedOK
    <2>3. Where(j, r, put)'
      BY <1>2, <2>1, <2>2, WhereKept
    <2>4. SCLIsOut' /\ LoadedOK'
      BY <1>2, <2>2 DEF OrderOK, SCLIsOut, LoadedOK, Nothing
    <2> QED
      BY <2>3, <2>4 DEF OrderOK
  <1> QED
    BY <1>3, <1>4, <1>5 DEF QueueInv
\* A frame has been drawn for the OLED.
LEMMA FrameDrawnKeeps ==
  ASSUME QueueInv, FrameDrawn
  PROVE  QueueInv'
  <1>1. /\ LatchTypeOK /\ ControlOK /\ OrderOK /\ screenType = OLED /\ OLED # TFT
        /\ renderDone = 0 /\ renderDone' = 1 /\ loaded = Nothing
        /\ frames < MaxFrames /\ frames' = frames + 1
        /\ UNCHANGED <<screenType, latchD, latchDOld, queueVars, lastSDAValue, loaded,
                       frame, frameLeft, sets, shown, raced>>
    BY LatchAssumption DEF QueueInv, FrameDrawn
  <1>2. LatchTypeOK'
    <2>1. frames' \in 0 .. MaxFrames
      BY <1>1, LatchAssumption DEF LatchTypeOK
    <2> QED
      BY <1>1, <2>1 DEF LatchTypeOK, queueVars
  <1>3. ControlOK'
    BY <1>1 DEF ControlOK, Nothing
  <1>4. OrderOK'
    <2> SUFFICES ASSUME raced = {} PROVE OrderOK'
      BY <1>1 DEF OrderOK
    <2>1. PICK j \in Nat, r \in Nat, put \in Nat : Where(j, r, put)
      BY <1>1 DEF OrderOK
    <2>2. Where(j, r, put)'
      BY <1>1, <2>1, WhereKept
    <2>3. SCLIsOut' /\ LoadedOK'
      BY <1>1 DEF OrderOK, SCLIsOut, LoadedOK, Nothing
    <2> QED
      BY <2>2, <2>3 DEF OrderOK
  <1> QED
    BY <1>2, <1>3, <1>4 DEF QueueInv

\* A command gets behind the others, or the handler came in between and it is a race.
LEMMA PutKeeps ==
  ASSUME QueueInv, putI2CCommand
  PROVE  QueueInv'
  <1>1. /\ LatchTypeOK /\ ControlOK /\ OrderOK /\ loaded.what = "count" /\ loaded' = Nothing
        /\ i2cBuffer' = [i2cBuffer EXCEPT ![loaded.count] = Head(frameLeft)]
        /\ i2cBufferCountCur' = NextSlot(loaded.count) /\ frameLeft' = Tail(frameLeft)
        /\ renderDone' = IF screenType = OLED /\ frameLeft' = <<>> THEN 3 ELSE renderDone
        /\ UNCHANGED <<screenType, latchD, latchDOld, i2cBufferCountLast, lastSDAValue, frame,
                       frames, sets, shown, raced>>
    BY DEF QueueInv, putI2CCommand, historyVars
  <1>2. /\ frameLeft # <<>> /\ (screenType = OLED => renderDone = 2)
        /\ frame \in Seq(BOOLEAN) /\ 3 * Len(frame) < Slots /\ Len(frame) \in Nat
        /\ loaded.count \in 0 .. Slots - 1 /\ Slots \in Nat \ {0}
    BY <1>1, FrameFits, LoadedIs, LatchAssumption DEF ControlOK, Putting
  <1>3. frameLeft \in Seq(Command) /\ Head(frameLeft) \in Command /\ Tail(frameLeft) \in Seq(Command)
    BY <1>1, <1>2, HeadTailProperties DEF LatchTypeOK
  <1>4. LatchTypeOK'
    <2>1. i2cBuffer' \in [0 .. Slots - 1 -> Command]
      BY <1>1, <1>2, <1>3 DEF LatchTypeOK
    <2>2. i2cBufferCountCur' \in 0 .. Slots - 1
      <3> DEFINE x == loaded.count + 1
      <3>1. x \in 0 .. 2 * Slots - 1 /\ x \in Nat
        BY <1>2
      <3>2. i2cBufferCountCur' = x % Slots
        BY <1>1 DEF NextSlot
      <3> HIDE DEF x
      <3> QED
        BY <1>2, <3>1, <3>2
    <2>3. renderDone' \in 0 .. 3
      BY <1>1 DEF LatchTypeOK
    <2> QED
      BY <1>1, <1>3, <2>1, <2>2, <2>3 DEF LatchTypeOK
  <1>5. ControlOK'
    BY <1>1, <1>2, LatchAssumption DEF ControlOK, Nothing
  <1>6. OrderOK'
    <2> SUFFICES ASSUME raced = {} PROVE OrderOK'
      BY <1>1 DEF OrderOK
    <2>1. PICK j \in Nat, r \in Nat, put \in Nat : Where(j, r, put)
      BY <1>1 DEF OrderOK
    <2>2. loaded.count = i2cBufferCountCur
      BY <1>1 DEF OrderOK, LoadedOK
    <2> DEFINE p == 3 * j + r
    <2>3. p \in Nat /\ p <= put /\ put <= 3 * Len(frame) /\ Queue(p, put)
      BY <2>1 DEF Where
    <2>4. Queue(p, put + 1)' /\ put + 1 <= 3 * Len(frame)
      <3> HIDE DEF p
      <3> QED
        BY <1>1, <1>2, <2>2, <2>3, Put
    <2>5. screenType = OLED => LinesOLED(j, r)'
      BY <1>1, <2>1 DEF Where, LinesOLED, SDAIs, Shown
    <2>6. screenType = TFT => LinesTFT(j, r)'
      BY <1>1, <2>1 DEF Where, LinesTFT, SDAIs, Shown
    <2>7. screenType = OLED => StageOLED(p, put + 1)'
      <3>1. ASSUME screenType = OLED PROVE StageOLED(p, put + 1)'
        <4>1. p = 0 /\ renderDone = 2
          BY <1>2, <2>1, <3>1 DEF Where, StageOLED
        <4>2. renderDone' \in {2, 3}
          BY <1>1, <4>1
        <4> HIDE DEF p
        <4>3. p < put + 1
          BY <2>3
        <4> QED
          BY <4>1, <4>2, <4>3 DEF StageOLED
      <3> QED
        BY <3>1
    <2>8. Where(j, r, put + 1)'
      <3>1. j \in Nat /\ r \in 0 .. 2 /\ put + 1 \in Nat /\ 3 * j + r <= put + 1
        BY <2>1, <2>3 DEF Where
      <3> QED
        BY <1>1, <2>4, <2>5, <2>6, <2>7, <3>1 DEF Where
    <2>9. SCLIsOut' /\ LoadedOK'
      BY <1>1 DEF OrderOK, SCLIsOut, LoadedOK, Nothing
    <2>10. r \in Nat /\ j \in Nat /\ put + 1 \in Nat
      OBVIOUS
    <2> HIDE DEF p
    <2> QED
      BY <2>8, <2>9, <2>10 DEF OrderOK
  <1> QED
    BY <1>4, <1>5, <1>6 DEF QueueInv

\* A frame begins where the queue is empty.
LEMMA BeginsAt ==
  ASSUME LatchTypeOK, bufferEmptyI2C, NEW f \in Seq(BOOLEAN), frame' = f,
         frameLeft' = FrameCommands(f), shown' = <<>>,
         UNCHANGED <<screenType, latchD, queueVars, lastSDAValue>>
  PROVE  Queue(0, 0)' /\ Shown(0)' /\ frameLeft' \in Seq(Command)
  <1>1. Outstanding = 0
    BY RingIs
  <1>2. Outstanding' = 0
    BY <1>1 DEF Outstanding, queueVars
  <1>3. FrameCommands(frame)' = FrameCommands(f)
    BY DEF FrameCommands, BitCommands
  <1>4. /\ Len(FrameCommands(f)) = 3 * Len(f) /\ FrameCommands(f) \in Seq(Command) /\ Len(f) \in Nat
    BY FrameCommandsAre
  <1>5. (\A i \in 1 .. Len(frameLeft) : frameLeft[i] = FrameCommands(frame)[0 + i])'
    <2>1. ASSUME NEW i \in 1 .. Len(FrameCommands(f)) PROVE 0 + i = i
      BY <1>4
    <2> QED
      BY <1>3, <2>1
  <1>6. Queue(0, 0)'
    <2>1. 0 - 0 = 0 /\ 0 .. 0 - 0 - 1 = {} /\ 3 * Len(f) - 0 = 3 * Len(f)
      BY <1>4
    <2> QED
      BY <1>2, <1>4, <1>5, <2>1 DEF Queue
  <1>7. Shown(0)'
    BY <1>4, SubSeqEmpty DEF Shown
  <1> QED
    BY <1>4, <1>6, <1>7

\* An OLED begins a frame when the one before has been sent and clocked in.
LEMMA BeginFrameKeeps ==
  ASSUME QueueInv, BeginFrame
  PROVE  QueueInv'
  <1>1. PICK f \in Frames : frame' = f /\ frameLeft' = FrameCommands(f)
    BY DEF BeginFrame
  <1>2. /\ LatchTypeOK /\ ControlOK /\ OrderOK /\ screenType = OLED /\ OLED # TFT
        /\ renderDone = 1 /\ renderDone' = 2 /\ loaded = Nothing /\ bufferEmptyI2C
        /\ shown' = <<>> /\ f \in Seq(BOOLEAN)
        /\ UNCHANGED <<screenType, latchD, latchDOld, queueVars, lastSDAValue, loaded, frames,
                       sets, raced>>
    BY LatchAssumption DEF QueueInv, BeginFrame
  <1>3. Queue(0, 0)' /\ Shown(0)' /\ frameLeft' \in Seq(Command)
    BY <1>1, <1>2, BeginsAt
  <1>4. LatchTypeOK'
    <2>1. shown' \in Seq(BOOLEAN) /\ frame' \in Seq(BOOLEAN)
      BY <1>1, <1>2, EmptySeq
    <2> QED
      BY <1>2, <1>3, <2>1 DEF LatchTypeOK, queueVars
  <1>5. ControlOK'
    BY <1>1, <1>2 DEF ControlOK, Nothing
  <1>6. OrderOK'
    <2> SUFFICES ASSUME raced = {} PROVE OrderOK'
      BY <1>2 DEF OrderOK
    <2>1. PICK j \in Nat, r \in Nat, put \in Nat : Where(j, r, put)
      BY <1>2 DEF OrderOK
    <2>2. r = 0
      <3>1. 3 * j + r = 3 * Len(frame) /\ r \in 0 .. 2
        BY <1>2, <2>1 DEF Where, StageOLED
      <3>2. Len(frame) \in Nat
        BY <1>2, FrameFits
      <3> QED
        BY <3>1, <3>2
    <2>3. LinesOLED(j, r)
      BY <1>2, <2>1 DEF Where
    <2>4. LinesOLED(0, 0)'
      BY <1>2, <1>3, <2>2, <2>3 DEF LinesOLED, SDAIs
    <2>5. StageOLED(0, 0)'
      BY <1>2 DEF StageOLED
    <2>6. Where(0, 0, 0)'
      <3>1. 3 * 0 + 0 = 0 /\ 0 <= 3 * Len(f)
        BY <1>2
      <3> QED
        BY <1>1, <1>2, <1>3, <2>4, <2>5, <3>1 DEF Where
    <2>7. SCLIsOut' /\ LoadedOK'
      BY <1>2 DEF OrderOK, SCLIsOut, LoadedOK, Nothing
    <2> QED
      BY <2>6, <2>7 DEF OrderOK
  <1> QED
    BY <1>4, <1>5, <1>6 DEF QueueInv

\* A TFT begins a region when the queue is empty.
LEMMA BeginRegionKeeps ==
  ASSUME QueueInv, BeginRegion
  PROVE  QueueInv'
  <1>1. PICK f \in Frames : frame' = f /\ frameLeft' = FrameCommands(f)
    BY DEF BeginRegion
  <1>2. /\ LatchTypeOK /\ ControlOK /\ OrderOK /\ screenType = TFT /\ OLED # TFT
        /\ loaded = Nothing /\ bufferEmptyI2C /\ frames < MaxFrames /\ frames' = frames + 1
        /\ shown' = <<>> /\ f \in Seq(BOOLEAN)
        /\ UNCHANGED <<screenType, renderDone, latchD, latchDOld, queueVars, lastSDAValue, loaded,
                       sets, raced>>
    BY LatchAssumption DEF QueueInv, BeginRegion
  <1>3. Queue(0, 0)' /\ Shown(0)' /\ frameLeft' \in Seq(Command)
    BY <1>1, <1>2, BeginsAt
  <1>4. LatchTypeOK'
    <2>1. shown' \in Seq(BOOLEAN) /\ frame' \in Seq(BOOLEAN)
      BY <1>1, <1>2, EmptySeq
    <2>2. frames' \in 0 .. MaxFrames
      BY <1>2, LatchAssumption DEF LatchTypeOK
    <2> QED
      BY <1>2, <1>3, <2>1, <2>2 DEF LatchTypeOK, queueVars
  <1>5. ControlOK'
    BY <1>1, <1>2 DEF ControlOK, Nothing
  <1>6. OrderOK'
    <2> SUFFICES ASSUME raced = {} PROVE OrderOK'
      BY <1>2 DEF OrderOK
    <2>1. LinesTFT(0, 0)'
      BY <1>3 DEF LinesTFT
    <2>2. Where(0, 0, 0)'
      <3>1. 3 * 0 + 0 = 0 /\ 0 <= 3 * Len(f)
        BY <1>2
      <3> QED
        BY <1>1, <1>2, <1>3, <2>1, <3>1 DEF Where
    <2>3. SCLIsOut' /\ LoadedOK'
      BY <1>2 DEF OrderOK, SCLIsOut, LoadedOK, Nothing
    <2> QED
      BY <2>2, <2>3 DEF OrderOK
  <1> QED
    BY <1>4, <1>5, <1>6 DEF QueueInv
----------------------------------------------------------------------------
(* The handler *)

\* what is skipped by each of the two
SameSDA == {c \in Command : c.pin = "SDA" /\ lastSDAValue = {c.level}}
SameLatch == {c \in Command : WithCommand(latchD, c) = latchD}

\* one command is taken, and those before it are skipped
TakesOne(k) ==
  /\ k \in 0 .. Outstanding - 1
  /\ i2cBufferCountLast' = (i2cBufferCountLast + (k + 1)) % Slots
  /\ UNCHANGED i2cBufferCountCur
  /\ latchD' = WithCommand(latchD, Waiting(k))

SkipsFrom(R, k) == \A i \in 0 .. k - 1 : Waiting(i) \in R

CycleOLED ==
  \/ bufferEmptyI2C /\ QueueReset /\ UNCHANGED <<latchD, lastSDAValue>>
  \/ /\ i2cBufferCountLast' = i2cBufferCountCur /\ SkipsFrom(SameSDA, Outstanding)
     /\ Outstanding # 0 /\ UNCHANGED <<i2cBufferCountCur, latchD, lastSDAValue>>
  \/ \E k \in Nat :
       /\ TakesOne(k) /\ SkipsFrom(SameSDA, k)
       /\ lastSDAValue' = IF Waiting(k).pin = "SDA" THEN {Waiting(k).level} ELSE lastSDAValue

CycleTFT ==
  /\ UNCHANGED lastSDAValue
  /\ \/ QueueReset /\ UNCHANGED latchD /\ SkipsFrom(SameLatch, Outstanding)
     \/ \E k \in Nat : TakesOne(k) /\ SkipsFrom(SameLatch, k)

\* What a cycle of the handler does to the queue and to the latch.
LEMMA CycleIs ==
  ASSUME LatchTypeOK, LatchCycle
  PROVE  /\ screenType = OLED => CycleOLED
         /\ screenType = TFT => CycleTFT
  <1>1. Outstanding \in Nat /\ (bufferEmptyI2C <=> Outstanding = 0)
        /\ i2cBufferCountLast \in Nat
    BY RingIs DEF LatchTypeOK
  <1>2. ASSUME screenType = OLED PROVE CycleOLED
    <2> DEFINE k == Skipped(SameSDA)
    <2>1. prepareOutputLatch
      BY <1>2 DEF LatchCycle
    <2>2. /\ k \in 0 .. Outstanding /\ SkipsFrom(SameSDA, k)
      BY <1>1, SkippedIs DEF SkipsFrom
    <2>3. IF bufferEmptyI2C
          THEN QueueReset /\ UNCHANGED <<latchD, lastSDAValue>>
          ELSE /\ UNCHANGED i2cBufferCountCur
               /\ IF k = Outstanding
                  THEN /\ i2cBufferCountLast' = i2cBufferCountCur
                       /\ UNCHANGED <<latchD, lastSDAValue>>
                  ELSE /\ i2cBufferCountLast' = (i2cBufferCountLast + k + 1) % Slots
                       /\ latchD' = WithCommand(latchD, Waiting(k))
                       /\ lastSDAValue' = IF Waiting(k).pin = "SDA" THEN {Waiting(k).level}
                                                                   ELSE lastSDAValue
      BY <2>1 DEF prepareOutputLatch, SameSDA
    <2> HIDE DEF k
    <2>4. CASE bufferEmptyI2C
      BY <2>3, <2>4 DEF CycleOLED
    <2>5. CASE ~bufferEmptyI2C /\ k = Outstanding
      BY <1>1, <2>2, <2>3, <2>5 DEF CycleOLED
    <2>6. CASE ~bufferEmptyI2C /\ k # Outstanding
      <3>1. k \in 0 .. Outstanding - 1 /\ k \in Nat
        BY <1>1, <2>2, <2>6
      <3>2. i2cBufferCountLast + k + 1 = i2cBufferCountLast + (k + 1)
        BY <1>1, <3>1
      <3>3. TakesOne(k)
        BY <2>3, <2>6, <3>1, <3>2 DEF TakesOne
      <3> QED
        BY <2>2, <2>3, <2>6, <3>1, <3>3 DEF CycleOLED
    <2> QED
      BY <2>4, <2>5, <2>6
  <1>3. ASSUME screenType = TFT PROVE CycleTFT
    <2> DEFINE k == Skipped(SameLatch)
    <2>1. prepareOutputLatch4Bit
      BY <1>3, LatchAssumption DEF LatchCycle
    <2>2. /\ k \in 0 .. Outstanding /\ SkipsFrom(SameLatch, k)
      BY <1>1, SkippedIs DEF SkipsFrom
    <2>3. /\ UNCHANGED lastSDAValue
          /\ IF k = Outstanding
             THEN QueueReset /\ UNCHANGED latchD
             ELSE /\ i2cBufferCountLast' = (i2cBufferCountLast + k + 1) % Slots
                  /\ latchD' = WithCommand(latchD, Waiting(k))
                  /\ UNCHANGED i2cBufferCountCur
      BY <2>1 DEF prepareOutputLatch4Bit, SameLatch
    <2> HIDE DEF k
    <2>4. CASE k = Outstanding
      BY <2>2, <2>3, <2>4 DEF CycleTFT
    <2>5. CASE k # Outstanding
      <3>1. k \in 0 .. Outstanding - 1 /\ k \in Nat
        BY <1>1, <2>2, <2>5
      <3>2. i2cBufferCountLast + k + 1 = i2cBufferCountLast + (k + 1)
        BY <1>1, <3>1
      <3>3. TakesOne(k)
        BY <2>3, <2>5, <3>1, <3>2 DEF TakesOne
      <3> QED
        BY <2>2, <2>3, <3>1, <3>3 DEF CycleTFT
    <2> QED
      BY <2>4, <2>5
  <1> QED
    BY <1>2, <1>3

\* What the commands do to the latch, and which of them are skipped.
LEMMA Effects ==
  ASSUME NEW b \in BOOLEAN
  PROVE  /\ WithCommand(latchD, SCL(TRUE)) = latchD \cup {"SCL"}
         /\ WithCommand(latchD, SCL(FALSE)) = latchD \ {"SCL"}
         /\ b => WithCommand(latchD, SDA(b)) = latchD \cup {"SDA"}
         /\ ~b => WithCommand(latchD, SDA(b)) = latchD \ {"SDA"}
         /\ SCL(TRUE) \in SameLatch => "SCL" \in latchD
         /\ SCL(FALSE) \in SameLatch => "SCL" \notin latchD
         /\ SDA(b) \in SameLatch => SDAIs(b)
         /\ SCL(TRUE) \notin SameSDA /\ SCL(FALSE) \notin SameSDA
         /\ SDA(b) \in SameSDA => lastSDAValue = {b}
         /\ SDA(b).pin = "SDA" /\ SDA(b).level = b
         /\ SCL(TRUE).pin = "SCL" /\ SCL(FALSE).pin = "SCL"
  <1>1. /\ SDA(b).pin = "SDA" /\ SDA(b).level = b
        /\ SCL(TRUE).pin = "SCL" /\ SCL(TRUE).level /\ SCL(FALSE).pin = "SCL" /\ ~SCL(FALSE).level
    BY DEF SDA, SCL
  <1>2. /\ WithCommand(latchD, SCL(TRUE)) = latchD \cup {"SCL"}
        /\ WithCommand(latchD, SCL(FALSE)) = latchD \ {"SCL"}
        /\ b => WithCommand(latchD, SDA(b)) = latchD \cup {"SDA"}
        /\ ~b => WithCommand(latchD, SDA(b)) = latchD \ {"SDA"}
    BY <1>1 DEF WithCommand
  <1>3. /\ SCL(TRUE) \in SameLatch => "SCL" \in latchD
        /\ SCL(FALSE) \in SameLatch => "SCL" \notin latchD
    BY <1>2 DEF SameLatch
  <1>4. SDA(b) \in SameLatch => SDAIs(b)
    BY <1>2 DEF SameLatch, SDAIs
  <1>5. /\ SCL(TRUE) \notin SameSDA /\ SCL(FALSE) \notin SameSDA
        /\ SDA(b) \in SameSDA => lastSDAValue = {b}
    BY <1>1 DEF SameSDA
  <1> QED
    BY <1>1, <1>2, <1>3, <1>4, <1>5

\* The next commands that wait, up to the end of the bit.
LEMMA NextCommands ==
  ASSUME ControlOK, NEW j \in Nat, NEW r \in 0 .. 2, NEW put \in Nat, Where(j, r, put)
  PROVE  /\ Outstanding = put - (3 * j + r)
         /\ 3 * j + r < put => j < Len(frame) /\ frame[j + 1] \in BOOLEAN
         /\ \A i \in 0 .. 2 - r :
              3 * j + r + i < put => Waiting(i) = BitCommands(frame[j + 1])[r + i + 1]
  <1>1. /\ put <= 3 * Len(frame) /\ Queue(3 * j + r, put)
        /\ frame \in Seq(BOOLEAN) /\ Len(frame) \in Nat
    BY FrameFits DEF Where
  <1>2. ASSUME 3 * j + r < put PROVE j < Len(frame) /\ frame[j + 1] \in BOOLEAN
    <2>1. j < Len(frame) /\ j + 1 \in 1 .. Len(frame)
      BY <1>1, <1>2
    <2> QED
      BY <1>1, <2>1
  <1>3. ASSUME NEW i \in 0 .. 2 - r, 3 * j + r + i < put
        PROVE  Waiting(i) = BitCommands(frame[j + 1])[r + i + 1]
    <2> DEFINE p == 3 * j + r
               m == r + i
    <2>1. i \in 0 .. put - p - 1 /\ p + i + 1 = 3 * j + m + 1 /\ m \in 0 .. 2 /\ p < put
      BY <1>3
    <2>2. Waiting(i) = FrameCommands(frame)[p + i + 1]
      <3> HIDE DEF p
      <3> QED
        BY <1>1, <2>1 DEF Queue, p
    <2>3. j \in 0 .. Len(frame) - 1
      BY <1>1, <1>2, <2>1
    <2>4. FrameCommands(frame)[3 * j + m + 1] = BitCommands(frame[j + 1])[m + 1]
      <3> HIDE DEF m
      <3> QED
        BY <1>1, <2>1, <2>3, FrameCommandsAre DEF m
    <2> QED
      BY <2>1, <2>2, <2>4
  <1> QED
    BY <1>1, <1>2, <1>3 DEF Queue
\* An OLED: the command that is taken is in the same bit, and one that only repeats SDA
\* may be skipped before it.
LEMMA SkipsOLED ==
  ASSUME ControlOK, NEW j \in Nat, NEW r \in 0 .. 2, NEW put \in Nat, Where(j, r, put),
         screenType = OLED, NEW k \in 0 .. put - (3 * j + r), SkipsFrom(SameSDA, k)
  PROVE  /\ k = 0 \/ (k = 1 /\ r = 0)
         /\ k = 1 => SDAIs(frame[j + 1])
  <1> DEFINE b == frame[j + 1]
             p == 3 * j + r
  <1>0. /\ p < put => j < Len(frame) /\ b \in BOOLEAN
        /\ \A i \in 0 .. 2 - r : p + i < put => Waiting(i) = BitCommands(b)[r + i + 1]
    BY NextCommands
  <1>1. LinesOLED(j, r) /\ p \in Nat /\ put \in Nat
    BY DEF Where
  <1>2. /\ BitCommands(b)[1] = SDA(b) /\ BitCommands(b)[2] = SCL(TRUE) /\ BitCommands(b)[3] = SCL(FALSE)
    BY DEF BitCommands
  <1> HIDE DEF b, p
  <1>3. CASE k = 0
    BY <1>3
  <1>4. CASE k > 0
    <2>1. p < put /\ 0 \in 0 .. k - 1 /\ 0 \in 0 .. 2 - r /\ p + 0 < put
      BY <1>1, <1>4 DEF p
    <2>2. Waiting(0) = BitCommands(b)[r + 0 + 1] /\ Waiting(0) \in SameSDA /\ b \in BOOLEAN
      BY <1>0, <2>1 DEF SkipsFrom
    <2>3. r = 0
      <3>1. /\ r = 1 => BitCommands(b)[r + 0 + 1] = SCL(TRUE)
            /\ r = 2 => BitCommands(b)[r + 0 + 1] = SCL(FALSE)
        <4>1. (r = 1 => r + 0 + 1 = 2) /\ (r = 2 => r + 0 + 1 = 3)
          OBVIOUS
        <4> QED
          BY <1>2, <4>1
      <3>2. SCL(TRUE) \notin SameSDA /\ SCL(FALSE) \notin SameSDA
        BY <2>2, Effects
      <3>3. r = 0 \/ r = 1 \/ r = 2
        OBVIOUS
      <3> QED
        BY <2>2, <3>1, <3>2, <3>3
    <2>4. k = 1
      <3>1. ASSUME k > 1 PROVE FALSE
        <4>1. 1 \in 0 .. k - 1 /\ 1 \in 0 .. 2 - r /\ p + 1 < put /\ r + 1 + 1 = 2
          BY <1>1, <2>3, <3>1 DEF p
        <4>2. Waiting(1) = BitCommands(b)[2] /\ Waiting(1) \in SameSDA
          BY <1>0, <4>1 DEF SkipsFrom
        <4> QED
          BY <1>2, <2>2, <4>2, Effects
      <3> QED
        BY <1>4, <3>1
    <2>5. SDAIs(b)
      <3>1. SDA(b) \in SameSDA
        BY <1>2, <2>2, <2>3
      <3>2. lastSDAValue = {b}
        BY <2>2, <3>1, Effects
      <3> QED
        BY <1>1, <3>2 DEF LinesOLED
    <2> QED
      BY <2>3, <2>4, <2>5 DEF b
  <1> QED
    BY <1>3, <1>4

\* A TFT: the command that is taken is in the same bit; SCL falls before a level of SDA
\* that stays as it is may be skipped.
LEMMA SkipsTFT ==
  ASSUME ControlOK, NEW j \in Nat, NEW r \in 0 .. 2, NEW put \in Nat, Where(j, r, put),
         screenType = TFT, NEW k \in 0 .. put - (3 * j + r), SkipsFrom(SameLatch, k)
  PROVE  /\ r + k <= 2
         /\ r + k >= 1 => "SCL" \notin latchD
         /\ r + k = 2 => SDAIs(frame[j + 1])
  <1> DEFINE b == frame[j + 1]
             p == 3 * j + r
  <1>0. /\ p < put => j < Len(frame) /\ b \in BOOLEAN
        /\ \A i \in 0 .. 2 - r : p + i < put => Waiting(i) = BitCommands(b)[r + i + 1]
    BY NextCommands
  <1>1. LinesTFT(j, r) /\ p \in Nat /\ put \in Nat
    BY LatchAssumption DEF Where
  <1>2. /\ BitCommands(b)[1] = SCL(FALSE) /\ BitCommands(b)[2] = SDA(b) /\ BitCommands(b)[3] = SCL(TRUE)
    BY LatchAssumption DEF BitCommands
  <1>3. (r = 1 \/ r = 2 => "SCL" \notin latchD) /\ (r = 2 => SDAIs(b))
    BY <1>1 DEF LinesTFT
  <1> HIDE DEF b, p
  <1>4. CASE k = 0
    BY <1>3, <1>4 DEF b
  <1>5. CASE k > 0
    <2>1. p < put /\ b \in BOOLEAN
      BY <1>0, <1>1, <1>5 DEF p
    <2>2. ASSUME NEW i \in 0 .. 2 - r, i < k
          PROVE  Waiting(i) = BitCommands(b)[r + i + 1] /\ Waiting(i) \in SameLatch
      <3>1. p + i < put /\ i \in 0 .. k - 1
        BY <1>1, <2>2 DEF p
      <3> QED
        BY <1>0, <3>1 DEF SkipsFrom
    <2>3. ASSUME r = 0 PROVE "SCL" \notin latchD
      <3>1. 0 \in 0 .. 2 - r /\ 0 < k /\ r + 0 + 1 = 1
        BY <1>5, <2>3
      <3>2. BitCommands(b)[1] \in SameLatch
        BY <2>2, <3>1
      <3> QED
        BY <1>2, <2>1, <3>2, Effects
    <2>4. "SCL" \notin latchD
      BY <1>3, <2>3
    <2>5. r + k <= 2
      <3>1. ASSUME r + k > 2 PROVE FALSE
        <4>1. 2 - r \in 0 .. 2 - r /\ 2 - r < k /\ r + (2 - r) + 1 = 3
          BY <1>5, <3>1
        <4>2. BitCommands(b)[3] \in SameLatch
          BY <2>2, <4>1
        <4> QED
          BY <1>2, <2>1, <2>4, <4>2, Effects
      <3> QED
        BY <3>1
    <2>6. ASSUME r + k = 2 PROVE SDAIs(b)
      <3>1. CASE r = 2
        BY <1>3, <3>1
      <3>2. CASE r # 2
        <4>1. 1 - r \in 0 .. 2 - r /\ 1 - r < k /\ r + (1 - r) + 1 = 2
          BY <2>6, <3>2
        <4>2. BitCommands(b)[2] \in SameLatch
          BY <2>2, <4>1
        <4> QED
          BY <1>2, <2>1, <4>2, Effects
      <3> QED
        BY <3>1, <3>2
    <2> QED
      BY <2>4, <2>5, <2>6 DEF b
  <1> QED
    BY <1>4, <1>5

\* The display clocks in one bit more.
LEMMA ShownNext ==
  ASSUME NEW f \in Seq(BOOLEAN), NEW n \in Nat, n < Len(f), NEW v \in BOOLEAN, v <=> f[n + 1]
  PROVE  Append(SubSeq(f, 1, n), v) = SubSeq(f, 1, n + 1) /\ n + 1 <= Len(f)
  <1>1. Len(f) \in Nat /\ n + 1 \in 1 .. Len(f) /\ 1 \in 1 .. Len(f) /\ n + 1 - 1 = n
    OBVIOUS
  <1>2. f[n + 1] \in BOOLEAN
    BY <1>1
  <1>3. v = f[n + 1]
    BY <1>2
  <1> DEFINE m == n + 1
  <1>4. SubSeq(f, 1, m) = SubSeq(f, 1, m - 1) \o <<f[m]>>
    <2>1. m \in 1 .. Len(f)
      BY <1>1
    <2> HIDE DEF m
    <2> QED
      BY <1>1, <2>1, SubSeqRecursiveSecond
  <1>5. SubSeq(f, 1, n) \in Seq(BOOLEAN)
    <2>1. \A i \in 1 .. n : f[i] \in BOOLEAN
      BY <1>1
    <2> QED
      BY <2>1, SubSeqProperties
  <1>6. Append(SubSeq(f, 1, n), v) = SubSeq(f, 1, n) \o <<v>>
    BY <1>5, AppendIsConcat
  <1> QED
    BY <1>1, <1>3, <1>4, <1>6
\* A cycle keeps the types.
LEMMA CycleKeepsTypes ==
  ASSUME LatchTypeOK, ControlOK, LatchCycle
  PROVE  LatchTypeOK' /\ ControlOK'
  <1>1. /\ screenType \in {OLED, TFT} /\ Outstanding \in 0 .. Slots - 1
        /\ i2cBufferCountLast \in 0 .. Slots - 1 /\ i2cBufferCountCur \in 0 .. Slots - 1
        /\ Slots \in Nat \ {0} /\ OLED # TFT /\ lastSDAValue \subseteq BOOLEAN
        /\ latchD \in SUBSET {"SDA", "SCL", "RESET", "LED"}
        /\ \A i \in 0 .. Slots - 1 : Waiting(i) \in Command
    BY RingIs, LatchAssumption DEF LatchTypeOK
  <1>2. /\ UNCHANGED <<screenType, i2cBuffer, loaded, frame, frameLeft, frames, sets>>
        /\ outputLatch
        /\ screenType = OLED => renderDone = 3 /\ renderDone' \in {0, 3}
        /\ screenType = TFT => renderDone' = renderDone
    BY <1>1 DEF LatchCycle, LatchDue
  <1>3. ASSUME NEW k \in Nat, TakesOne(k)
        PROVE  /\ i2cBufferCountLast' \in 0 .. Slots - 1 /\ i2cBufferCountCur' \in 0 .. Slots - 1
               /\ latchD' \in SUBSET {"SDA", "SCL", "RESET", "LED"}
               /\ Waiting(k) \in Command
    <2>1. k + 1 \in 0 .. Slots /\ k \in 0 .. Slots - 1
      BY <1>1, <1>3 DEF TakesOne
    <2> DEFINE n == k + 1
    <2>2. (i2cBufferCountLast + n) % Slots \in 0 .. Slots - 1
      <3> HIDE DEF n
      <3> QED
        BY <1>1, <2>1, Ring DEF n
    <2>3. Waiting(k) \in Command
      BY <1>1, <2>1
    <2>4. latchD' \in SUBSET {"SDA", "SCL", "RESET", "LED"}
      <3>1. latchD' = WithCommand(latchD, Waiting(k)) /\ Waiting(k).pin \in {"SDA", "SCL"}
        BY <1>3, <2>3 DEF TakesOne, Command
      <3> QED
        BY <1>1, <3>1 DEF WithCommand
    <2> QED
      BY <1>1, <1>3, <2>2, <2>3, <2>4 DEF TakesOne
  <1>4. ASSUME QueueReset, latchD' = latchD
        PROVE  /\ i2cBufferCountLast' \in 0 .. Slots - 1 /\ i2cBufferCountCur' \in 0 .. Slots - 1
               /\ latchD' \in SUBSET {"SDA", "SCL", "RESET", "LED"}
    BY <1>1, <1>4 DEF QueueReset
  <1>5. /\ i2cBufferCountLast' \in 0 .. Slots - 1 /\ i2cBufferCountCur' \in 0 .. Slots - 1
        /\ latchD' \in SUBSET {"SDA", "SCL", "RESET", "LED"}
        /\ lastSDAValue' \subseteq BOOLEAN
    <2>1. CASE screenType = TFT
      <3>1. CycleTFT
        BY <2>1, CycleIs
      <3> QED
        BY <1>1, <1>3, <1>4, <3>1 DEF CycleTFT
    <2>2. CASE screenType = OLED
      <3>1. CycleOLED
        BY <2>2, CycleIs
      <3>2. ASSUME NEW k \in Nat, TakesOne(k),
                   lastSDAValue' = IF Waiting(k).pin = "SDA" THEN {Waiting(k).level}
                                                             ELSE lastSDAValue
            PROVE  lastSDAValue' \subseteq BOOLEAN
        <4>1. Waiting(k).level \in BOOLEAN
          BY <1>3, <3>2 DEF Command
        <4> QED
          BY <1>1, <3>2, <4>1
      <3> QED
        BY <1>1, <1>3, <1>4, <3>1, <3>2 DEF CycleOLED
    <2> QED
      BY <1>1, <2>1, <2>2
  <1>6. shown' \in Seq(BOOLEAN)
    <2>1. shown \in Seq(BOOLEAN) /\ ("SDA" \in latchD') \in BOOLEAN
      BY DEF LatchTypeOK
    <2>2. Append(shown, "SDA" \in latchD') \in Seq(BOOLEAN)
      BY <2>1, AppendProperties
    <2> QED
      BY <1>2, <2>1, <2>2 DEF outputLatch
  <1>7. raced' \subseteq {"count", "latch"} /\ raced \subseteq raced'
    BY <1>2 DEF outputLatch, LatchTypeOK
  <1>8. LatchTypeOK'
    <2>1. latchDOld' \in SUBSET {"SDA", "SCL", "RESET", "LED"}
      BY <1>2, <1>5 DEF outputLatch
    <2>2. renderDone' \in 0 .. 3
      BY <1>1, <1>2 DEF LatchTypeOK
    <2> QED
      BY <1>2, <1>5, <1>6, <1>7, <2>1, <2>2 DEF LatchTypeOK
  <1>9. ControlOK'
    <2>1. ASSUME screenType = OLED PROVE loaded.what # "count" /\ frameLeft = <<>>
      BY <1>2, <2>1 DEF ControlOK, Putting
    <2>2. ASSUME screenType = OLED PROVE "count" \notin raced'
      BY <1>2, <2>1, <2>2 DEF ControlOK, outputLatch
    <2> QED
      BY <1>1, <1>2, <2>1, <2>2 DEF ControlOK, Putting
  <1> QED
    BY <1>8, <1>9
\* How the display sees what is output.
LEMMA ShownIs ==
  ASSUME outputLatch, SCLIsOut
  PROVE  /\ SCLIsOut'
         /\ "SCL" \in latchD' /\ "SCL" \notin latchD => shown' = Append(shown, "SDA" \in latchD')
         /\ "SCL" \notin latchD' \/ "SCL" \in latchD => shown' = shown
  <1>1. latchDOld' = latchD'
    BY DEF outputLatch
  <1>2. SCLIsOut'
    BY <1>1 DEF SCLIsOut
  <1>3. "SCL" \in latchD' \ latchDOld <=> "SCL" \in latchD' /\ "SCL" \notin latchD
    BY DEF SCLIsOut
  <1> QED
    BY <1>2, <1>3 DEF outputLatch

\* A frame of an OLED goes on where it was, and when it ends it has been clocked in.
LEMMA CycleOLEDKeepsOrder ==
  ASSUME LatchTypeOK, ControlOK, LatchCycle, screenType = OLED, SCLIsOut,
         NEW j \in Nat, NEW r \in 0 .. 2, NEW put \in Nat, Where(j, r, put)
  PROVE  /\ \E j2, r2 \in Nat : Where(j2, r2, put)'
         /\ renderDone' = 0 => shown' = frame
  <1> DEFINE b == frame[j + 1]
             p == 3 * j + r
  <1>1. /\ renderDone = 3 /\ outputLatch
        /\ renderDone' = IF i2cBufferCountLast' = i2cBufferCountCur' THEN 0 ELSE 3
        /\ UNCHANGED <<screenType, i2cBuffer, frame, frameLeft>>
    BY DEF LatchCycle, LatchDue
  <1>2. /\ p \in Nat /\ p < put /\ put <= 3 * Len(frame) /\ Queue(p, put) /\ LinesOLED(j, r)
    BY <1>1 DEF Where, StageOLED
  <1>3. /\ frame \in Seq(BOOLEAN) /\ Len(frame) \in Nat
    BY FrameFits
  <1>4. put = 3 * Len(frame)
    <2>1. frameLeft = <<>>
      BY <1>1 DEF ControlOK
    <2>2. Len(frameLeft) = 3 * Len(frame) - put
      BY <1>2 DEF Queue
    <2> QED
      BY <1>2, <1>3, <2>1, <2>2
  <1>5. /\ Outstanding = put - p /\ j < Len(frame) /\ b \in BOOLEAN
        /\ \A i \in 0 .. 2 - r : p + i < put => Waiting(i) = BitCommands(b)[r + i + 1]
    BY <1>2, NextCommands
  <1>6. BitCommands(b)[1] = SDA(b) /\ BitCommands(b)[2] = SCL(TRUE) /\ BitCommands(b)[3] = SCL(FALSE)
    BY DEF BitCommands
  <1>7. ASSUME NEW k \in 0 .. put - p, SkipsFrom(SameSDA, k)
        PROVE  (k = 0 \/ (k = 1 /\ r = 0)) /\ (k = 1 => SDAIs(b))
    BY <1>7, SkipsOLED
  <1> HIDE DEF b, p
  <1>8. PICK k \in Nat :
          /\ TakesOne(k) /\ SkipsFrom(SameSDA, k)
          /\ lastSDAValue' = IF Waiting(k).pin = "SDA" THEN {Waiting(k).level} ELSE lastSDAValue
    <2>1. CycleOLED
      BY CycleIs
    <2>2. ~bufferEmptyI2C
      BY <1>2, <1>5, RingIs
    <2>3. ~SkipsFrom(SameSDA, Outstanding)
      <3>1. ASSUME SkipsFrom(SameSDA, Outstanding) PROVE FALSE
        <4>1. put - p \in 0 .. put - p
          BY <1>2
        <4>2. put - p = 0 \/ (put - p = 1 /\ r = 0)
          BY <1>5, <1>7, <3>1, <4>1
        <4> QED
          BY <1>2, <1>3, <1>4, <4>2 DEF p
      <3> QED
        BY <3>1
    <2> QED
      BY <2>1, <2>2, <2>3 DEF CycleOLED
  <1>9. /\ k \in 0 .. put - p /\ k + 1 \in 0 .. put - p /\ p + k < put
        /\ k = 0 \/ (k = 1 /\ r = 0)
        /\ k = 1 => SDAIs(b)
    <2>1. k \in 0 .. put - p - 1
      BY <1>5, <1>8 DEF TakesOne
    <2>2. k \in 0 .. put - p /\ k + 1 \in 0 .. put - p /\ p + k < put
      BY <1>2, <2>1
    <2> QED
      BY <1>7, <1>8, <2>2
  <1>10. /\ Queue(p + (k + 1), put)' /\ Outstanding' = Outstanding - (k + 1)
         /\ i2cBufferCountLast' \in 0 .. Slots - 1
    <2> DEFINE n == k + 1
    <2>1. n \in 0 .. put - p /\ i2cBufferCountLast' = (i2cBufferCountLast + n) % Slots
          /\ UNCHANGED i2cBufferCountCur
      BY <1>8, <1>9 DEF TakesOne
    <2> HIDE DEF n
    <2>2. Queue(p + n, put)' /\ Outstanding' = Outstanding - n /\ i2cBufferCountLast' \in 0 .. Slots - 1
      BY <1>1, <1>2, <2>1, Taken
    <2> QED
      BY <2>2 DEF n
  <1>11. Waiting(k) = BitCommands(b)[r + k + 1] /\ latchD' = WithCommand(latchD, Waiting(k))
    <2>1. k \in 0 .. 2 - r
      BY <1>9
    <2> QED
      BY <1>5, <1>8, <1>9, <2>1 DEF TakesOne
  <1>12. \E j2 \in Nat, r2 \in 0 .. 2 : p + (k + 1) = 3 * j2 + r2 /\ LinesOLED(j2, r2)'
    \* SDA is taken
    <2>1. CASE r + k = 0
      <3>1. Waiting(k) = SDA(b) /\ r = 0 /\ k = 0
        BY <1>6, <1>9, <1>11, <2>1
      <3>2. /\ "SCL" \in latchD' <=> "SCL" \in latchD
            /\ "SDA" \in latchD' <=> b
        BY <1>5, <1>11, <3>1, Effects
      <3>3. lastSDAValue' = {b}
        BY <1>5, <1>8, <3>1, Effects
      <3>4. "SCL" \notin latchD' /\ shown' = SubSeq(frame, 1, j) /\ j <= Len(frame)
        BY <1>1, <1>2, <3>1, <3>2, ShownIs DEF LinesOLED, Shown
      <3>5. LinesOLED(j, 1)'
        BY <1>1, <3>2, <3>3, <3>4 DEF LinesOLED, SDAIs, Shown, b
      <3>6. p + (k + 1) = 3 * j + 1 /\ 1 \in 0 .. 2
        BY <3>1 DEF p
      <3> QED
        BY <3>5, <3>6
    \* SCL rises
    <2>2. CASE r + k = 1
      <3>1. Waiting(k) = SCL(TRUE)
        <4>1. r + k + 1 = 2
          BY <2>2
        <4> QED
          BY <1>6, <1>11, <4>1
      <3>2. latchD' = latchD \cup {"SCL"} /\ lastSDAValue' = lastSDAValue
        BY <1>5, <1>8, <1>11, <3>1, Effects
      <3>3. SDAIs(b) /\ "SCL" \notin latchD
        <4>1. (r = 1 /\ k = 0) \/ (r = 0 /\ k = 1)
          BY <1>9, <2>2
        <4> QED
          BY <1>2, <1>9, <4>1 DEF LinesOLED, b
      <3>4. shown' = Append(SubSeq(frame, 1, j), "SDA" \in latchD')
        <4>1. r # 2
          BY <1>9, <2>2
        <4> QED
          BY <1>1, <1>2, <3>2, <3>3, <4>1, ShownIs DEF LinesOLED, Shown
      <3>5. "SDA" \in latchD' <=> b
        BY <3>2, <3>3 DEF SDAIs
      <3>6. shown' = SubSeq(frame, 1, j + 1) /\ j + 1 <= Len(frame)
        BY <1>3, <1>5, <3>4, <3>5, ShownNext DEF b
      <3>7. LinesOLED(j, 2)'
        <4>1. \A v \in lastSDAValue' : lastSDAValue' = {v} /\ ("SDA" \in latchD' <=> v)
          BY <1>2, <3>2 DEF LinesOLED, SDAIs
        <4>2. "SCL" \in latchD'
          BY <3>2
        <4> QED
          BY <1>1, <3>5, <3>6, <4>1, <4>2 DEF LinesOLED, SDAIs, Shown, b
      <3>8. p + (k + 1) = 3 * j + 2 /\ 2 \in 0 .. 2
        BY <2>2 DEF p
      <3> QED
        BY <3>7, <3>8
    \* SCL falls
    <2>3. CASE r + k = 2
      <3>1. r = 2 /\ k = 0 /\ Waiting(k) = SCL(FALSE)
        <4>1. r = 2 /\ k = 0 /\ r + k + 1 = 3
          BY <1>9, <2>3
        <4> QED
          BY <1>6, <1>11, <4>1
      <3>2. latchD' = latchD \ {"SCL"} /\ lastSDAValue' = lastSDAValue
        BY <1>5, <1>8, <1>11, <3>1, Effects
      <3>3. shown' = SubSeq(frame, 1, j + 1) /\ j + 1 <= Len(frame)
        BY <1>1, <1>2, <3>1, <3>2, ShownIs DEF LinesOLED, Shown
      <3>4. LinesOLED(j + 1, 0)'
        <4>1. \A v \in lastSDAValue' : lastSDAValue' = {v} /\ ("SDA" \in latchD' <=> v)
          BY <1>2, <3>2 DEF LinesOLED, SDAIs
        <4>2. "SCL" \notin latchD'
          BY <3>2
        <4> QED
          BY <1>1, <3>3, <4>1, <4>2 DEF LinesOLED, SDAIs, Shown
      <3>5. p + (k + 1) = 3 * (j + 1) + 0 /\ 0 \in 0 .. 2 /\ j + 1 \in Nat
        BY <3>1 DEF p
      <3> QED
        BY <3>4, <3>5
    <2>4. r + k \in {0, 1, 2}
      BY <1>9
    <2> QED
      BY <2>1, <2>2, <2>3, <2>4
  <1>13. PICK j2 \in Nat, r2 \in 0 .. 2 : p + (k + 1) = 3 * j2 + r2 /\ LinesOLED(j2, r2)'
    BY <1>12
  <1>14. i2cBufferCountLast' = i2cBufferCountCur' <=> p + (k + 1) = put
    <2>1. i2cBufferCountCur' \in 0 .. Slots - 1
      BY CycleKeepsTypes DEF LatchTypeOK
    <2>2. i2cBufferCountLast' = i2cBufferCountCur' <=> Outstanding' = 0
      BY <1>10, <2>1, Ring DEF Outstanding
    <2> QED
      BY <1>2, <1>5, <1>10, <2>2
  <1>15. StageOLED(3 * j2 + r2, put)'
    BY <1>1, <1>2, <1>3, <1>4, <1>9, <1>13, <1>14 DEF StageOLED
  <1>16. Where(j2, r2, put)'
    <2>1. 3 * j2 + r2 <= put /\ Queue(3 * j2 + r2, put)'
      BY <1>2, <1>9, <1>10, <1>13
    <2>2. put <= 3 * Len(frame)'
      BY <1>1, <1>2
    <2> QED
      BY <1>1, <1>13, <1>15, <2>1, <2>2, LatchAssumption DEF Where
  <1>17. ASSUME renderDone' = 0 PROVE shown' = frame
    <2>1. 3 * j2 + r2 = 3 * Len(frame)
      BY <1>1, <1>4, <1>13, <1>14, <1>17
    <2>2. j2 = Len(frame) /\ r2 = 0
      BY <1>3, <2>1
    <2>3. shown' = SubSeq(frame, 1, Len(frame))
      BY <1>1, <1>13, <2>2 DEF LinesOLED, Shown
    <2> QED
      BY <1>3, <2>3, SubSeqFull
  <1>18. r2 \in Nat
    OBVIOUS
  <1> QED
    BY <1>16, <1>17, <1>18
\* A region of a TFT goes on where it was.
LEMMA CycleTFTKeepsOrder ==
  ASSUME LatchTypeOK, ControlOK, LatchCycle, screenType = TFT, SCLIsOut,
         NEW j \in Nat, NEW r \in 0 .. 2, NEW put \in Nat, Where(j, r, put)
  PROVE  \E j2, r2 \in Nat : Where(j2, r2, put)'
  <1> DEFINE b == frame[j + 1]
             p == 3 * j + r
  <1>1. /\ outputLatch /\ OLED # TFT
        /\ UNCHANGED <<screenType, i2cBuffer, frame, frameLeft>>
    BY LatchAssumption DEF LatchCycle
  <1>2. /\ p \in Nat /\ p <= put /\ put <= 3 * Len(frame) /\ Queue(p, put) /\ LinesTFT(j, r)
    BY DEF Where
  <1>3. /\ frame \in Seq(BOOLEAN) /\ Len(frame) \in Nat
    BY FrameFits
  <1>4. /\ Outstanding = put - p
        /\ p < put => j < Len(frame) /\ b \in BOOLEAN
        /\ \A i \in 0 .. 2 - r : p + i < put => Waiting(i) = BitCommands(b)[r + i + 1]
    BY NextCommands
  <1>5. BitCommands(b)[1] = SCL(FALSE) /\ BitCommands(b)[2] = SDA(b) /\ BitCommands(b)[3] = SCL(TRUE)
    BY <1>1 DEF BitCommands
  <1>6. ASSUME NEW k \in 0 .. put - p, SkipsFrom(SameLatch, k)
        PROVE  /\ r + k <= 2
               /\ r + k >= 1 => "SCL" \notin latchD
               /\ r + k = 2 => SDAIs(b)
    BY <1>6, SkipsTFT
  <1> HIDE DEF b, p
  <1>7. CycleTFT
    BY CycleIs
  <1>8. ASSUME NEW q \in Nat, q <= put, Queue(q, put)',
               NEW j2 \in Nat, NEW r2 \in 0 .. 2, q = 3 * j2 + r2, LinesTFT(j2, r2)'
        PROVE  \E j3, r3 \in Nat : Where(j3, r3, put)'
    <2>1. Where(j2, r2, put)'
      <3>1. 3 * j2 + r2 <= put /\ Queue(3 * j2 + r2, put)' /\ put <= 3 * Len(frame)'
        BY <1>1, <1>2, <1>8
      <3> QED
        BY <1>1, <1>8, <3>1 DEF Where
    <2>2. r2 \in Nat
      OBVIOUS
    <2> QED
      BY <2>1, <2>2
  \* all that waits is skipped
  <1>9. CASE QueueReset /\ UNCHANGED latchD /\ SkipsFrom(SameLatch, Outstanding)
    <2>1. Queue(put, put)'
      BY <1>1, <1>2, <1>9, TakenAll
    <2>2. put - p \in 0 .. put - p /\ SkipsFrom(SameLatch, put - p)
      BY <1>2, <1>4, <1>9
    <2> DEFINE r2 == r + (put - p)
    <2>3. /\ r2 \in 0 .. 2 /\ put = 3 * j + r2 /\ put - p \in Nat
          /\ r2 >= 1 => "SCL" \notin latchD
          /\ r2 = 2 => SDAIs(b)
      <3>1. /\ r2 <= 2
            /\ r2 >= 1 => "SCL" \notin latchD
            /\ r2 = 2 => SDAIs(b)
        BY <1>6, <2>2
      <3>2. put - p \in Nat /\ r2 \in Nat /\ put = 3 * j + r2
        BY <1>2 DEF p
      <3> QED
        BY <3>1, <3>2
    <2>4. r2 = 0 => r = 0
      BY <2>3
    <2> HIDE DEF r2
    <2>5. shown' = shown
      BY <1>1, <1>9, ShownIs
    <2>6. LinesTFT(j, r2)'
      BY <1>1, <1>2, <1>9, <2>3, <2>4, <2>5 DEF LinesTFT, SDAIs, Shown, b
    <2> QED
      BY <1>8, <2>1, <2>3, <2>6
  \* a command is taken
  <1>10. CASE \E k \in Nat : TakesOne(k) /\ SkipsFrom(SameLatch, k)
    <2>1. PICK k \in Nat : TakesOne(k) /\ SkipsFrom(SameLatch, k)
      BY <1>10
    <2>2. k \in 0 .. put - p - 1
      BY <1>4, <2>1 DEF TakesOne
    <2>3. k \in 0 .. put - p /\ k + 1 \in 0 .. put - p /\ p + k < put /\ p < put
      BY <1>2, <2>2
    <2>4. /\ r + k <= 2
          /\ r + k >= 1 => "SCL" \notin latchD
          /\ r + k = 2 => SDAIs(b)
      BY <1>6, <2>1, <2>3
    <2>5. Queue(p + (k + 1), put)'
      <3> DEFINE n == k + 1
      <3>1. n \in 0 .. put - p /\ i2cBufferCountLast' = (i2cBufferCountLast + n) % Slots
            /\ UNCHANGED i2cBufferCountCur
        BY <2>1, <2>3 DEF TakesOne
      <3> HIDE DEF n
      <3>2. Queue(p + n, put)'
        BY <1>1, <1>2, <3>1, Taken
      <3> QED
        BY <3>2 DEF n
    <2>6. Waiting(k) = BitCommands(b)[r + k + 1] /\ latchD' = WithCommand(latchD, Waiting(k))
      <3>1. k \in 0 .. 2 - r
        BY <2>4
      <3> QED
        BY <1>4, <2>1, <2>3, <3>1 DEF TakesOne
    <2>7. j < Len(frame) /\ b \in BOOLEAN /\ shown = SubSeq(frame, 1, j)
      BY <1>2, <1>4, <2>3 DEF LinesTFT, Shown
    <2>8. \E j2 \in Nat, r2 \in 0 .. 2 : p + (k + 1) = 3 * j2 + r2 /\ LinesTFT(j2, r2)'
      \* SCL falls
      <3>1. CASE r + k = 0
        <4>1. r = 0 /\ k = 0 /\ r + k + 1 = 1
          BY <3>1
        <4>2. latchD' = latchD \ {"SCL"}
          BY <1>5, <2>6, <2>7, <4>1, Effects
        <4>3. shown' = shown
          BY <1>1, <4>2, ShownIs
        <4>4. LinesTFT(j, 1)'
          BY <1>1, <2>7, <4>2, <4>3 DEF LinesTFT, Shown
        <4>5. p + (k + 1) = 3 * j + 1 /\ 1 \in 0 .. 2
          BY <4>1 DEF p
        <4> QED
          BY <4>4, <4>5
      \* SDA is taken
      <3>2. CASE r + k = 1
        <4>1. r + k + 1 = 2
          BY <3>2
        <4>2. Waiting(k) = SDA(b)
          BY <1>5, <2>6, <4>1
        <4>3. ("SDA" \in latchD' <=> b) /\ "SCL" \notin latchD'
          <5>1. "SCL" \notin latchD
            BY <2>4, <3>2
          <5> QED
            BY <2>6, <2>7, <4>2, <5>1, Effects
        <4>4. shown' = shown
          BY <1>1, <4>3, ShownIs
        <4>5. LinesTFT(j, 2)'
          BY <1>1, <2>7, <4>3, <4>4 DEF LinesTFT, Shown, SDAIs, b
        <4>6. p + (k + 1) = 3 * j + 2 /\ 2 \in 0 .. 2
          BY <3>2 DEF p
        <4> QED
          BY <4>5, <4>6
      \* SCL rises
      <3>3. CASE r + k = 2
        <4>1. r + k + 1 = 3
          BY <3>3
        <4>2. latchD' = latchD \cup {"SCL"}
          BY <1>5, <2>6, <2>7, <4>1, Effects
        <4>3. "SCL" \notin latchD /\ ("SDA" \in latchD' <=> b)
          BY <2>4, <3>3, <4>2 DEF SDAIs
        <4>4. shown' = Append(SubSeq(frame, 1, j), "SDA" \in latchD')
          BY <1>1, <2>7, <4>2, <4>3, ShownIs
        <4>5. shown' = SubSeq(frame, 1, j + 1) /\ j + 1 <= Len(frame)
          BY <1>3, <2>7, <4>3, <4>4, ShownNext DEF b
        <4>6. LinesTFT(j + 1, 0)'
          BY <1>1, <4>2, <4>5 DEF LinesTFT, Shown
        <4>7. p + (k + 1) = 3 * (j + 1) + 0 /\ 0 \in 0 .. 2 /\ j + 1 \in Nat
          BY <3>3 DEF p
        <4> QED
          BY <4>6, <4>7
      <3>4. r + k \in {0, 1, 2}
        BY <2>4
      <3> QED
        BY <3>1, <3>2, <3>3, <3>4
    <2>9. p + (k + 1) \in Nat /\ p + (k + 1) <= put
      BY <1>2, <2>3
    <2> DEFINE q == p + (k + 1)
    <2> HIDE DEF q
    <2>10. q \in Nat /\ q <= put /\ Queue(q, put)'
           /\ \E j2 \in Nat, r2 \in 0 .. 2 : q = 3 * j2 + r2 /\ LinesTFT(j2, r2)'
      BY <2>5, <2>8, <2>9 DEF q
    <2> QED
      BY <1>8, <2>10
  <1> QED
    BY <1>7, <1>9, <1>10 DEF CycleTFT

\* The handler keeps the order, unless it comes between a read and its write.
LEMMA LatchCycleKeeps ==
  ASSUME QueueInv, LatchCycle
  PROVE  QueueInv'
  <1>1. /\ LatchTypeOK /\ ControlOK /\ OrderOK /\ outputLatch /\ loaded' = loaded
        /\ screenType \in {OLED, TFT}
    BY DEF QueueInv, LatchCycle, LatchTypeOK
  <1>2. LatchTypeOK' /\ ControlOK'
    BY <1>1, CycleKeepsTypes
  <1>3. OrderOK'
    <2> SUFFICES ASSUME raced' = {} PROVE OrderOK'
      BY DEF OrderOK
    <2>1. /\ raced = {}
          /\ loaded.what = "count" => loaded.count = i2cBufferCountCur'
          /\ loaded.what = "latch" => latchD' = latchD
      BY <1>1 DEF outputLatch
    <2>2. PICK j \in Nat, r \in Nat, put \in Nat : Where(j, r, put)
      BY <1>1, <2>1 DEF OrderOK
    <2>3. r \in 0 .. 2 /\ SCLIsOut /\ LoadedOK
      BY <1>1, <2>1, <2>2 DEF Where, OrderOK
    <2>4. \E j2, r2 \in Nat : Where(j2, r2, put)'
      BY <1>1, <2>2, <2>3, CycleOLEDKeepsOrder, CycleTFTKeepsOrder
    <2>5. SCLIsOut' /\ LoadedOK'
      BY <1>1, <2>1, <2>3, ShownIs DEF LoadedOK
    <2> QED
      BY <2>4, <2>5 DEF OrderOK
  <1> QED
    BY <1>2, <1>3 DEF QueueInv
----------------------------------------------------------------------------
(* The theorems *)

\* The inductive invariant holds at first.
THEOREM InitHasQueueInv == LatchInit => QueueInv
  <1> SUFFICES ASSUME LatchInit PROVE QueueInv
    OBVIOUS
  <1>1. /\ screenType \in {OLED, TFT} /\ renderDone = 0 /\ latchD = {} /\ latchDOld = {}
        /\ i2cBuffer = [k \in 0 .. Slots - 1 |-> SCL(FALSE)]
        /\ i2cBufferCountLast = 0 /\ i2cBufferCountCur = 0 /\ lastSDAValue = {}
        /\ loaded = Nothing /\ frame = <<>> /\ frameLeft = <<>>
        /\ frames = 0 /\ sets = 0 /\ shown = <<>> /\ raced = {}
    BY DEF LatchInit
  <1>2. 0 \in 0 .. Slots - 1 /\ 0 \in 0 .. MaxFrames /\ 0 \in 0 .. MaxSets /\ OLED # TFT
    BY LatchAssumption
  <1>3. LatchTypeOK
    <2>1. i2cBuffer \in [0 .. Slots - 1 -> Command]
      <3>1. SCL(FALSE) \in Command
        BY DEF SCL, Command
      <3> QED
        BY <1>1, <3>1
    <2>2. frameLeft \in Seq(Command) /\ frame \in Seq(BOOLEAN) /\ shown \in Seq(BOOLEAN)
      BY <1>1, EmptySeq
    <2>3. renderDone \in 0 .. 3
      BY <1>1
    <2> QED
      BY <1>1, <1>2, <2>1, <2>2, <2>3 DEF LatchTypeOK
  <1>4. ControlOK
    BY <1>1, <1>2 DEF ControlOK, Nothing
  <1>5. Where(0, 0, 0)
    <2>1. Len(frame) = 0 /\ Len(frameLeft) = 0 /\ 3 * 0 = 0 /\ 3 * 0 + 0 = 0 /\ 0 - 0 = 0
      BY <1>1, EmptySeq
    <2>2. Outstanding = 0
      BY <1>1, <1>2, Ring DEF Outstanding
    <2>3. Queue(0, 0)
      BY <2>1, <2>2 DEF Queue
    <2>4. Shown(0)
      BY <1>1, <2>1, SubSeqEmpty DEF Shown
    <2>5. LinesOLED(0, 0)
      BY <1>1, <2>4 DEF LinesOLED
    <2>6. LinesTFT(0, 0)
      BY <1>1, <2>4 DEF LinesTFT
    <2>7. StageOLED(0, 0)
      BY <1>1, <2>1 DEF StageOLED
    <2> QED
      BY <2>1, <2>3, <2>5, <2>6, <2>7 DEF Where
  <1>6. OrderOK
    BY <1>1, <1>5 DEF OrderOK, SCLIsOut, LoadedOK, Nothing
  <1> QED
    BY <1>3, <1>4, <1>6 DEF QueueInv

\* It is kept by every step of the main loop and of the handler.
THEOREM NextHasQueueInv == QueueInv /\ [LatchNext]_latchVars => QueueInv'
  <1> SUFFICES ASSUME QueueInv, [LatchNext]_latchVars PROVE QueueInv'
    OBVIOUS
  <1>1. CASE UNCHANGED latchVars
    <2>1. UNCHANGED <<screenType, renderDone, latchD, latchDOld, queueVars, lastSDAValue, loaded,
                      frame, frameLeft, frames, sets, shown, raced>>
      BY <1>1 DEF latchVars, historyVars
    <2>2. LatchTypeOK' /\ ControlOK'
      BY <2>1 DEF QueueInv, LatchTypeOK, ControlOK, Putting, queueVars
    <2>3. OrderOK'
      <3> SUFFICES ASSUME raced = {} PROVE OrderOK'
        BY <2>1 DEF OrderOK
      <3>1. OrderOK
        BY DEF QueueInv
      <3>2. PICK j \in Nat, r \in Nat, put \in Nat : Where(j, r, put)
        BY <3>1 DEF OrderOK
      <3>3. Where(j, r, put)'
        BY <2>1, <3>2, WhereKept
      <3>4. SCLIsOut' /\ LoadedOK'
        BY <2>1, <3>1 DEF OrderOK, SCLIsOut, LoadedOK, queueVars
      <3> QED
        BY <3>3, <3>4 DEF OrderOK
    <2> QED
      BY <2>2, <2>3 DEF QueueInv
  <1>2. CASE LoadCount
    BY <1>2, LoadCountKeeps
  <1>3. CASE putI2CCommand
    BY <1>3, PutKeeps
  <1>4. CASE LoadLatch
    BY <1>4, LoadLatchKeeps
  <1>5. CASE StoreLatch
    BY <1>5, StoreLatchKeeps
  <1>6. CASE FrameDrawn
    BY <1>6, FrameDrawnKeeps
  <1>7. CASE BeginFrame
    BY <1>7, BeginFrameKeeps
  <1>8. CASE BeginRegion
    BY <1>8, BeginRegionKeeps
  <1>9. CASE LatchCycle
    BY <1>9, LatchCycleKeeps
  <1> QED
    BY <1>1, <1>2, <1>3, <1>4, <1>5, <1>6, <1>7, <1>8, <1>9 DEF LatchNext, Putter, Setter

\* The queue is what is left of the frame, and the lines say where in it the display is
\* (putI2CCommand, prepareOutputLatch).
THEOREM QueueInvariant == LatchSpec => []QueueInv
  BY InitHasQueueInv, NextHasQueueInv, PTL DEF LatchSpec

\* The type invariant: no index leaves the ring, whatever its size.
THEOREM LatchTypeCorrect == LatchSpec => []LatchTypeOK
  <1>1. QueueInv => LatchTypeOK
    BY DEF QueueInv
  <1> QED
    BY <1>1, QueueInvariant, PTL

\* The display clocks in the bits of the frame in their order and each once, unless the
\* handler came between a read of the main loop and its write (latch.h:134, :160).
THEOREM BitsStayInOrder == LatchSpec => FrameShown
  <1>1. QueueInv => InOrder
    <2> SUFFICES ASSUME QueueInv, "latch" \notin raced, screenType = TFT => "count" \notin raced
                 PROVE  IsPrefix(shown, frame)
      BY DEF InOrder
    <2>1. raced = {}
      BY DEF QueueInv, ControlOK, LatchTypeOK
    <2>2. PICK j \in Nat, r \in Nat, put \in Nat : Where(j, r, put)
      BY <2>1 DEF QueueInv, OrderOK
    <2>3. PICK n \in Nat : Shown(n)
      <3>1. j + 1 \in Nat /\ screenType \in {OLED, TFT}
        BY DEF QueueInv, LatchTypeOK
      <3> QED
        BY <2>2, <3>1 DEF Where, LinesOLED, LinesTFT
    <2>4. frame \in Seq(BOOLEAN) /\ Len(frame) \in Nat
      BY FrameFits DEF QueueInv
    <2>5. shown \in Seq(BOOLEAN) /\ Len(shown) = n /\ n <= Len(frame)
      <3>1. \A i \in 1 .. n : frame[i] \in BOOLEAN
        BY <2>3, <2>4 DEF Shown
      <3>2. shown = SubSeq(frame, 1, n) /\ n <= Len(frame)
        BY <2>3 DEF Shown
      <3>3. (IF 1 <= n THEN n - 1 + 1 ELSE 0) = n
        OBVIOUS
      <3> QED
        BY <3>1, <3>2, <3>3, SubSeqProperties
    <2>6. SubSeq(shown, 1, Len(shown)) = shown
      BY <2>5, SubSeqFull
    <2> QED
      BY <2>3, <2>5, <2>6 DEF Shown, IsPrefix
  <1> QED
    BY <1>1, QueueInvariant, PTL DEF FrameShown

\* When the handler has output a frame the display has got all of it, unless the
\* latch was set meanwhile (kernel_sid.cpp:1709).
THEOREM FramesAreWhole == LatchSpec => FrameWhole
  <1>1. QueueInv /\ [LatchNext]_latchVars
          => [renderDone = 3 /\ renderDone' = 0 /\ "latch" \notin raced => shown' = frame]_latchVars
    <2> SUFFICES ASSUME QueueInv, LatchNext, renderDone = 3, renderDone' = 0, "latch" \notin raced
                 PROVE  shown' = frame
      BY DEF latchVars
    <2>1. LatchCycle
      <3>1. 3 # 0 /\ 3 # 1
        OBVIOUS
      <3> QED
        BY <3>1 DEF LatchNext, Putter, Setter, LoadCount, putI2CCommand, LoadLatch, StoreLatch,
                    latchSetClear, FrameDrawn, BeginFrame, BeginRegion
    <2>2. screenType = OLED
      BY <2>1 DEF LatchCycle
    <2>3. raced = {}
      BY <2>2 DEF QueueInv, ControlOK, LatchTypeOK
    <2>4. PICK j \in Nat, r \in Nat, put \in Nat : Where(j, r, put)
      BY <2>3 DEF QueueInv, OrderOK
    <2>5. r \in 0 .. 2 /\ SCLIsOut
      BY <2>3, <2>4 DEF QueueInv, OrderOK, Where
    <2> QED
      BY <2>1, <2>2, <2>4, <2>5, CycleOLEDKeepsOrder DEF QueueInv
  <1> QED
    BY <1>1, QueueInvariant, PTL DEF LatchSpec, FrameWhole
===============================================================================
