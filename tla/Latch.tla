--------------------------------- MODULE Latch ---------------------------------
(***************************************************************************)
(* The output latch and the ring buffer of commands for the display        *)
(* (latch.h), as the SID kernel uses them (kernel_sid.cpp).  The main loop *)
(* puts commands with several instructions each, between which the FIQ     *)
(* handler takes commands out and sets the latch; the handler itself is    *)
(* not interrupted.  An OLED gets whole frames, which renderDone hands     *)
(* over; a TFT gets regions, whenever the buffer is empty.                 *)
(*                                                                         *)
(* The lines SDA and SCL go to the display, the latch also holds the reset *)
(* line of the C64 and LEDs.  A frame is what the display is to clock in,  *)
(* bit by bit.                                                             *)
(***************************************************************************)
EXTENDS Naturals, SequencesExt

CONSTANTS
  Slots,     \* FAKE_I2C_BUF_SIZE
  Frames,    \* what the frames may be: bits
  OLED, TFT, \* screen types
  MaxFrames, \* bound: frames and regions the visualisation makes
  MaxSets    \* bound: times the main loop sets the latch (a reset, the LEDs)

Command == [pin : {"SDA", "SCL"}, level : BOOLEAN]
SDA(b) == [pin |-> "SDA", level |-> b]
SCL(b) == [pin |-> "SCL", level |-> b]

ASSUME LatchAssumption ==
  /\ OLED # TFT /\ MaxFrames \in Nat /\ MaxSets \in Nat
  /\ Slots \in Nat \ {0}
  /\ \A f \in Frames : f \in Seq(BOOLEAN) /\ 3 * Len(f) < Slots

VARIABLES
  screenType,
  renderDone,  \* the frame: 0 is drawn, 1 drawn, 2 being put, 3 for the handler
  latchD,      \* the bits of the latch that are set
  latchDOld,   \* as the lines are
  i2cBuffer, i2cBufferCountLast, i2cBufferCountCur,
  lastSDAValue,  \* at most one level: what was last set
  loaded,      \* what the main loop has read and is about to write again
  frame,       \* the bits of it
  frameLeft,   \* commands of the frame the main loop has not put yet
  \* bounds and history
  frames, sets,
  shown,       \* bits the display has clocked in since the frame began
  raced        \* reads between which and their writes the handler came

queueVars == <<i2cBuffer, i2cBufferCountLast, i2cBufferCountCur>>
historyVars == <<frames, sets, shown, raced>>
latchVars == <<screenType, renderDone, latchD, latchDOld, queueVars, lastSDAValue, loaded,
          frame, frameLeft, historyVars>>

Nothing == [what |-> "nothing"]
Counted(n) == [what |-> "count", count |-> n]
Latched(s) == [what |-> "latch", pins |-> s]

\* how the drivers of the displays clock out a bit (ssd1306_send_byte, tftSendData)
BitCommands(b) ==
  IF screenType = OLED THEN <<SDA(b), SCL(TRUE), SCL(FALSE)>>
                       ELSE <<SCL(FALSE), SDA(b), SCL(TRUE)>>
FrameCommands(f) ==
  [k \in 1 .. 3 * Len(f) |->
     BitCommands(f[1 + (k - 1) \div 3])[1 + ((k - 1) % 3)]]

bufferEmptyI2C == i2cBufferCountLast = i2cBufferCountCur
Outstanding == (i2cBufferCountCur + Slots - i2cBufferCountLast) % Slots
\* the i-th command of those that wait, from 0
Waiting(i) == i2cBuffer[(i2cBufferCountLast + i) % Slots]

\* Mutant: the end of the buffer is forgotten
NextSlotUnmasked(k) == k + 1

NextSlot(k) == (k + 1) % Slots

\* setLatchFIQ, clrLatchFIQ
WithCommand(latch, c) == IF c.level THEN latch \cup {c.pin} ELSE latch \ {c.pin}

LatchInit ==
  /\ screenType \in {OLED, TFT} /\ renderDone = 0
  /\ latchD = {} /\ latchDOld = {}
  /\ i2cBuffer = [k \in 0 .. Slots - 1 |-> SCL(FALSE)]
  /\ i2cBufferCountLast = 0 /\ i2cBufferCountCur = 0
  /\ lastSDAValue = {}
  /\ loaded = Nothing /\ frame = <<>> /\ frameLeft = <<>>
  /\ frames = 0 /\ sets = 0 /\ shown = <<>> /\ raced = {}
----------------------------------------------------------------------------
(* The main loop *)

\* what a round of the main loop may put
Putting == frameLeft # <<>> /\ (screenType = OLED => renderDone = 2)

\* the count of commands is read, the command is stored, the count is written
LoadCount ==
  /\ Putting /\ loaded = Nothing
  /\ loaded' = Counted(i2cBufferCountCur)
  /\ UNCHANGED <<screenType, renderDone, latchD, latchDOld, queueVars, lastSDAValue,
                 frame, frameLeft, historyVars>>

putI2CCommand ==
  /\ loaded.what = "count"
  /\ i2cBuffer' = [i2cBuffer EXCEPT ![loaded.count] = Head(frameLeft)]
  /\ i2cBufferCountCur' = NextSlot(loaded.count)
  /\ frameLeft' = Tail(frameLeft)
  /\ loaded' = Nothing
  /\ renderDone' = IF screenType = OLED /\ frameLeft' = <<>> THEN 3 ELSE renderDone
  /\ UNCHANGED <<screenType, latchD, latchDOld, i2cBufferCountLast, lastSDAValue,
                 frame, historyVars>>

\* latchSetClear( s, c ): between two bytes of a frame, but not within a region
LoadLatch ==
  /\ loaded = Nothing /\ sets < MaxSets
  /\ screenType = TFT => frameLeft = <<>>
  /\ loaded' = Latched(latchD)
  /\ UNCHANGED <<screenType, renderDone, latchD, latchDOld, queueVars, lastSDAValue,
                 frame, frameLeft, historyVars>>

latchSetClear(s, c) ==
  /\ loaded.what = "latch"
  /\ latchD' = (loaded.pins \cup s) \ c
  /\ loaded' = Nothing /\ sets' = sets + 1
  /\ UNCHANGED <<screenType, renderDone, latchDOld, queueVars, lastSDAValue, frame,
                 frameLeft, frames, shown, raced>>

StoreLatch ==
  \/ latchSetClear({"RESET"}, {"LED"})
  \/ latchSetClear({"LED"}, {"RESET"})

\* the visualisation has drawn a frame
FrameDrawn ==
  /\ screenType = OLED /\ renderDone = 0 /\ loaded = Nothing
  /\ frames < MaxFrames
  /\ renderDone' = 1 /\ frames' = frames + 1
  /\ UNCHANGED <<screenType, latchD, latchDOld, queueVars, lastSDAValue, loaded,
                 frame, frameLeft, sets, shown, raced>>

BeginFrame ==
  /\ screenType = OLED /\ renderDone = 1 /\ loaded = Nothing
  /\ bufferEmptyI2C
  /\ renderDone' = 2
  /\ \E f \in Frames : frame' = f /\ frameLeft' = FrameCommands(f)
  /\ shown' = <<>>
  /\ UNCHANGED <<screenType, latchD, latchDOld, queueVars, lastSDAValue, loaded, frames,
                 sets, raced>>

\* the visualisation has a region that has changed
BeginRegion ==
  /\ screenType = TFT /\ frameLeft = <<>> /\ loaded = Nothing
  /\ bufferEmptyI2C
  /\ frames < MaxFrames
  /\ \E f \in Frames : frame' = f /\ frameLeft' = FrameCommands(f)
  /\ shown' = <<>> /\ frames' = frames + 1
  /\ UNCHANGED <<screenType, renderDone, latchD, latchDOld, queueVars, lastSDAValue,
                 loaded, sets, raced>>
----------------------------------------------------------------------------
(* The FIQ handler *)

\* commands that change nothing are skipped
Skipped(repeats) ==
  Min({i \in 0 .. Outstanding - 1 : Waiting(i) \notin repeats} \cup {Outstanding})

\* the latch as it is output; the display clocks in SDA when SCL rises
outputLatch ==
  /\ latchDOld' = latchD'
  /\ shown' = IF "SCL" \in latchD' \ latchDOld
              THEN Append(shown, "SDA" \in latchD') ELSE shown
  /\ raced' = raced \cup {what \in {"count", "latch"} :
                            /\ loaded.what = what
                            /\ IF what = "count" THEN loaded.count # i2cBufferCountCur'
                                                ELSE latchD' # latchD}

\* Mutant: only where to take from begins anew
QueueResetLast ==
  /\ i2cBufferCountLast' = 0 /\ UNCHANGED i2cBufferCountCur

\* the counts begin at 0 again when there is nothing
QueueReset ==
  /\ i2cBufferCountLast' = 0 /\ i2cBufferCountCur' = 0

prepareOutputLatch ==
  LET k == Skipped({c \in Command : c.pin = "SDA" /\ lastSDAValue = {c.level}})
  IN IF bufferEmptyI2C
     THEN QueueReset /\ UNCHANGED <<latchD, lastSDAValue>>
     ELSE /\ UNCHANGED i2cBufferCountCur
          /\ IF k = Outstanding
             THEN /\ i2cBufferCountLast' = i2cBufferCountCur
                  /\ UNCHANGED <<latchD, lastSDAValue>>
             ELSE /\ i2cBufferCountLast' = (i2cBufferCountLast + k + 1) % Slots
                  /\ latchD' = WithCommand(latchD, Waiting(k))
                  /\ lastSDAValue' = IF Waiting(k).pin = "SDA" THEN {Waiting(k).level}
                                                              ELSE lastSDAValue

prepareOutputLatch4Bit ==
  LET k == Skipped({c \in Command : WithCommand(latchD, c) = latchD})
  IN /\ UNCHANGED lastSDAValue
     /\ IF k = Outstanding
        THEN QueueReset /\ UNCHANGED latchD
        ELSE /\ i2cBufferCountLast' = (i2cBufferCountLast + k + 1) % Slots
             /\ latchD' = WithCommand(latchD, Waiting(k))
             /\ UNCHANGED i2cBufferCountCur

LatchDue == renderDone = 3

\* a cycle in which the handler serves the latch
LatchCycle ==
  /\ IF screenType = OLED
     THEN /\ LatchDue
          /\ prepareOutputLatch
          /\ renderDone' = IF i2cBufferCountLast' = i2cBufferCountCur' THEN 0
                                                                       ELSE renderDone
     ELSE prepareOutputLatch4Bit /\ UNCHANGED renderDone
  /\ outputLatch
  /\ UNCHANGED <<screenType, i2cBuffer, loaded, frame, frameLeft, frames, sets>>

Putter == LoadCount \/ putI2CCommand
Setter == LoadLatch \/ StoreLatch

LatchNext == Putter \/ Setter \/ FrameDrawn \/ BeginFrame \/ BeginRegion \/ LatchCycle

\* the main loop and the handler run
LatchFairness ==
  /\ WF_latchVars(Putter) /\ WF_latchVars(StoreLatch) /\ WF_latchVars(BeginFrame)
  /\ WF_latchVars(LatchCycle)

LatchSpec == LatchInit /\ [][LatchNext]_latchVars /\ LatchFairness
----------------------------------------------------------------------------
(* Properties *)

\* Every variable keeps its type.
LatchTypeOK ==
  /\ screenType \in {OLED, TFT} /\ renderDone \in 0 .. 3
  /\ {latchD, latchDOld} \subseteq SUBSET {"SDA", "SCL", "RESET", "LED"}
  /\ i2cBuffer \in [0 .. Slots - 1 -> Command]
  /\ {i2cBufferCountLast, i2cBufferCountCur} \subseteq 0 .. Slots - 1
  /\ lastSDAValue \subseteq BOOLEAN
  /\ \/ loaded = Nothing
     \/ loaded \in [what : {"count"}, count : 0 .. Slots - 1]
     \/ loaded \in [what : {"latch"}, pins : SUBSET {"SDA", "SCL", "RESET", "LED"}]
  /\ frameLeft \in Seq(Command)
  /\ frames \in 0 .. MaxFrames /\ sets \in 0 .. MaxSets
  /\ {frame, shown} \subseteq Seq(BOOLEAN) /\ raced \subseteq {"count", "latch"}

\* The display clocks in the bits of the frame, in order and each once, unless
\* the handler came between a read and the write that goes with it: it may
\* change the latch under latchSetClear (latch.h:136), and, for the display that
\* has no handshake, begin the counts anew under put4BitCommand (:170, :303).
InOrder ==
  "latch" \notin raced /\ (screenType = TFT => "count" \notin raced)
    => IsPrefix(shown, frame)
FrameShown == [][InOrder']_latchVars

\* A frame that the handler has output is one the display has got completely.
FrameWhole ==
  [][renderDone = 3 /\ renderDone' = 0 /\ "latch" \notin raced => shown' = frame]_latchVars

\* A frame that was drawn is output, and the next one can be drawn.
FrameEnds == renderDone # 0 ~> renderDone = 0

\* All three: a frame that was drawn gets output, in order, and completely.
FramesGetOutput == FrameShown /\ FrameWhole /\ FrameEnds
=============================================================================
