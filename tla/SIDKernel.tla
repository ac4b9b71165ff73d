------------------------------- MODULE SIDKernel -------------------------------
(***************************************************************************)
(* The SID kernel (kernel_sid.cpp).  The FIQ handler runs in every cycle   *)
(* of the C64 and puts the writes to the SIDs, with the cycle, into a ring *)
(* buffer; the main loop emulates the SIDs up to the cycle it has read,    *)
(* and applies the writes on its way.  It begins anew when the C64 was     *)
(* reset: the program may have to be launched first.  A PSID tune can ask  *)
(* for the menu: the kernel then resets the C64 itself.                    *)
(*                                                                         *)
(* The values written, the sound and the detection of chips are left out;  *)
(* a sample is due after any number of cycles.  The display is in Latch.   *)
(***************************************************************************)
EXTENDS Integers

CONSTANTS
  RingSize,      \* RING_SIZE
  MaxChunk,      \* cycles that are emulated at once (256)
  ShortReset,    \* cycles of reset from which on it counts (100)
  MenuReset,     \* and from which on it leads to the menu (500000)
  MenuCycles,    \* cycles the kernel must have run for that (2000000)
  MaxCycles,     \* bound: the clock stops there, and the program writes no more
  MaxWrites, MaxResets  \* bounds: what the program and the user do

ASSUME RingAssumption ==
  /\ RingSize \in Nat \ {0} /\ MaxChunk \in Nat \ {0}
  /\ ShortReset \in Nat /\ MenuReset \in Nat /\ ShortReset < MenuReset
  /\ MenuCycles \in Nat /\ MaxCycles \in Nat /\ MenuCycles < MaxCycles
  /\ {MaxWrites, MaxResets} \subseteq Nat

VARIABLES
  pc,              \* of the main loop
  launchPrg, disableCart,
  resetPressed, resetReleased, \* the latter: 0, 1, 255
  resetCounter,    \* counted up to what matters
  cycleCountC64, nCyclesEmulated,
  cycleCount,      \* what the main loop has read of cycleCountC64
  ringTime, ringWrite, ringRead,
  resetLow,        \* the user holds the C64 in reset
  resetFromCode,   \* resetFromCodeState is 2: the program has asked for the menu
  latchReset,      \* the kernel holds the C64 in reset (LATCH_RESET)
  overflown,       \* history: writes were lost since the emulation began
  writes, resets   \* bounds

resetVars == <<resetPressed, resetReleased, resetCounter>>
ringVars == <<ringTime, ringWrite, ringRead>>
codeVars == <<resetFromCode, latchReset>>
vars == <<pc, launchPrg, disableCart, resetVars, cycleCountC64, nCyclesEmulated,
          cycleCount, ringVars, resetLow, codeVars, overflown, writes, resets>>

Clock(n) == IF cycleCountC64 + n > MaxCycles THEN MaxCycles ELSE cycleCountC64 + n
CountReset == resetCounter' = IF resetCounter > MenuReset THEN resetCounter
                                                          ELSE resetCounter + 1
ToMenu == cycleCountC64 > MenuCycles /\ resetCounter > MenuReset

\* CPU_RESET
Held == resetLow \/ latchReset

RingLength == (ringWrite + RingSize - ringRead) % RingSize
RingContents == [i \in 1 .. RingLength |-> ringTime[(ringRead + i - 1) % RingSize]]

Init ==
  /\ pc = "launch"
  /\ launchPrg \in BOOLEAN /\ disableCart = ~launchPrg
  /\ resetPressed = FALSE /\ resetReleased = 255 /\ resetCounter = 0
  /\ cycleCountC64 = 0 /\ nCyclesEmulated = 0 /\ cycleCount = 0
  /\ ringTime = [s \in 0 .. RingSize - 1 |-> 0] /\ ringWrite = 0 /\ ringRead = 0
  /\ resetLow = FALSE /\ resetFromCode = FALSE /\ latchReset = FALSE /\ overflown = FALSE
  /\ writes = 0 /\ resets = 0
----------------------------------------------------------------------------
(* The FIQ handler *)

Attached == pc # "gone"
Launching == launchPrg /\ ~disableCart
\* the handler counts the reset
Counting == Held /\ resetReleased = 0
Released == ~Counting /\ resetPressed /\ resetCounter > ShortReset

FIQStep == Attached /\ UNCHANGED <<pc, launchPrg, nCyclesEmulated, cycleCount, ringRead,
                                   resetLow, resets>>

\* UPDATE_COUNTERS_MIN
LaunchCount == IF Held THEN CountReset ELSE resetCounter' = 0

\* LAUNCH_FIQ: the loader may have come to its end
LaunchCycle ==
  /\ Launching /\ FIQStep
  /\ cycleCountC64' = Clock(1)
  /\ LaunchCount
  /\ disableCart' \in {FALSE, ~Held}
  /\ UNCHANGED <<resetPressed, resetReleased, ringTime, ringWrite, codeVars, overflown,
                 writes>>

\* nothing else is done in this cycle, nor in those before the main loop reacts
ReleasedCycle ==
  /\ ~Launching /\ FIQStep
  /\ Released
  /\ resetReleased' = 1 /\ disableCart' = FALSE
  /\ UNCHANGED <<resetPressed, resetCounter, cycleCountC64, ringTime,
                 ringWrite, codeVars, overflown, writes>>

\* a cycle that is counted
Cycle ==
  /\ ~Launching /\ FIQStep
  /\ ~Released
  /\ resetPressed' = Counting
  /\ IF Counting THEN CountReset ELSE UNCHANGED resetCounter
  /\ cycleCountC64' = Clock(1)
  /\ UNCHANGED <<disableCart, resetReleased>>

WriteCycle ==
  /\ ~Held /\ writes < MaxWrites /\ cycleCountC64 < MaxCycles
  /\ Cycle
  /\ ringTime' = [ringTime EXCEPT ![ringWrite] = cycleCountC64']
  /\ ringWrite' = (ringWrite + 1) % RingSize
  /\ overflown' = (overflown \/ ringWrite' = ringRead)
  /\ writes' = writes + 1
  /\ UNCHANGED codeVars

(* The player of a PSID tune has written 22 and 44 (hex) to $DF11 and      *)
(* $DF33.  A latchSetClear of the main loop, which reads and writes the    *)
(* latch, may undo that the C64 is held in reset; the code has one before  *)
(* its loop, the model allows it whenever the loop comes round.            *)
CodeCycle ==
  /\ ~Held /\ launchPrg /\ ~resetFromCode
  /\ Cycle
  /\ resetFromCode' = TRUE /\ latchReset' \in {TRUE, pc # "loop"}
  /\ UNCHANGED <<ringTime, ringWrite, overflown, writes>>

\* any other access
IdleCycle ==
  /\ Cycle
  /\ UNCHANGED <<ringTime, ringWrite, codeVars, overflown, writes>>
----------------------------------------------------------------------------
(* The main loop *)

MainVars == <<launchPrg, resetLow, resetFromCode, ringTime, writes, resets>>
Goto(at) == pc' = at

EmulationVars == <<disableCart, resetVars, latchReset, cycleCountC64, ringWrite, ringRead,
                   overflown>>

\* startHereAfterReset: the program has to be launched first
WaitForLaunch ==
  /\ pc = "launch"
  /\ IF Launching THEN (ToMenu \/ resetFromCode) /\ Goto("gone") ELSE Goto("started")
  /\ UNCHANGED <<MainVars, EmulationVars, nCyclesEmulated, cycleCount>>

\* Mutant: resets are not counted again
StartUnreset ==
  /\ pc = "started" /\ Goto("clock")
  /\ resetCounter' = 0 /\ cycleCountC64' = 0
  /\ UNCHANGED <<MainVars, disableCart, resetPressed, resetReleased, latchReset,
                 nCyclesEmulated, cycleCount, ringWrite, ringRead, overflown>>

\* The program has been running for a while (DELAY).  Between what follows the
\* handler goes on.
StartClock ==
  /\ pc = "started" /\ Goto("clock")
  /\ resetReleased' = 0 /\ resetCounter' = 0 /\ cycleCountC64' = 0
  /\ UNCHANGED <<MainVars, disableCart, resetPressed, latchReset, nCyclesEmulated,
                 cycleCount, ringWrite, ringRead, overflown>>

Start ==
  /\ pc = "clock" /\ Goto("loop")
  /\ nCyclesEmulated' = 0
  /\ ringRead' = 0 /\ ringWrite' = 0 /\ overflown' = FALSE
  /\ UNCHANGED <<MainVars, disableCart, resetVars, latchReset, cycleCountC64, cycleCount>>

\* to the menu, to the beginning, or on, up to the cycle of now
LoopHead ==
  /\ pc = "loop"
  /\ \/ /\ ToMenu /\ Goto("gone")
        /\ UNCHANGED <<resetReleased, resetCounter, ringRead, cycleCount>>
     \/ /\ ~ToMenu /\ resetReleased = 1 /\ Goto("reset")
        /\ resetReleased' = 255 /\ resetCounter' = 0
        /\ ringRead' = ringWrite
        /\ UNCHANGED cycleCount
     \/ /\ ~ToMenu /\ resetReleased # 1 /\ Goto("emulate")
        /\ cycleCount' = cycleCountC64
        /\ UNCHANGED <<resetReleased, resetCounter, ringRead>>
  /\ UNCHANGED <<MainVars, resetPressed, disableCart, latchReset, cycleCountC64,
                 nCyclesEmulated, ringWrite, overflown>>

\* prepareOnReset
PrepareReset ==
  /\ pc = "reset" /\ Goto("restart")
  /\ disableCart' = (disableCart /\ ~launchPrg)
  /\ resetCounter' = 0 /\ cycleCountC64' = 0 /\ nCyclesEmulated' = 0
  /\ UNCHANGED <<MainVars, resetPressed, resetReleased, latchReset, cycleCount,
                 ringWrite, ringRead, overflown>>

\* the C64 is reset again, for too short to be counted, and let go
Restart ==
  /\ pc = "restart" /\ Goto("launch")
  /\ resetReleased' = 0 /\ resetCounter' = 0 /\ resetPressed' = FALSE
  /\ latchReset' = FALSE
  /\ UNCHANGED <<MainVars, disableCart, cycleCountC64, nCyclesEmulated, cycleCount,
                 ringWrite, ringRead, overflown>>

Lower(a, b) == IF a < b THEN a ELSE b

\* Mutant: the chunk is not cut at the next write
ChunkUncut(cycles) == cycles

\* the chunk ends at the next write
Chunk(cycles) ==
  LET toNextWrite == ringTime[ringRead] - nCyclesEmulated
  IN IF ringRead # ringWrite /\ toNextWrite > 0 THEN Lower(cycles, toNextWrite)
                                                ELSE cycles

\* Mutant: whatever the clock was
AheadChunk == MaxChunk

Ahead == Lower(MaxChunk, cycleCount - nCyclesEmulated)

AtLeastOne(cycles) == IF cycles = 0 THEN 1 ELSE cycles

\* a sample may be due before, or at once
Emulate ==
  /\ pc = "emulate"
  /\ IF cycleCount > nCyclesEmulated
     THEN /\ Goto("apply")
          /\ \E cycles \in 0 .. Ahead :
               nCyclesEmulated' = nCyclesEmulated + AtLeastOne(Chunk(cycles))
     ELSE Goto("loop") /\ UNCHANGED nCyclesEmulated
  /\ UNCHANGED <<MainVars, EmulationVars, cycleCount>>

Due == nCyclesEmulated >= ringTime[ringRead]

Apply ==
  /\ pc = "apply" /\ Goto("emulate")
  /\ ringRead' = IF ringRead # ringWrite /\ Due THEN (ringRead + 1) % RingSize
                                                ELSE ringRead
  /\ UNCHANGED <<MainVars, disableCart, resetVars, latchReset, cycleCountC64,
                 nCyclesEmulated, ringWrite, overflown, cycleCount>>
----------------------------------------------------------------------------
(* The user *)

UserVars == <<pc, launchPrg, disableCart, resetVars, cycleCountC64,
              nCyclesEmulated, cycleCount, ringVars, codeVars, overflown, writes>>

PressReset ==
  /\ ~resetLow /\ resets < MaxResets
  /\ resetLow' = TRUE /\ resets' = resets + 1
  /\ UNCHANGED UserVars

ReleaseReset ==
  /\ resetLow /\ resetLow' = FALSE
  /\ UNCHANGED <<UserVars, resets>>

FIQ == LaunchCycle \/ ReleasedCycle \/ WriteCycle \/ CodeCycle \/ IdleCycle
MainLoop ==
  \/ WaitForLaunch \/ StartClock \/ Start \/ LoopHead \/ PrepareReset \/ Restart
  \/ Emulate \/ Apply

Next == FIQ \/ MainLoop \/ PressReset \/ ReleaseReset

\* the main loop runs, cycles go by, and a loader that is not disturbed comes to
\* its end
Fairness == WF_vars(MainLoop) /\ WF_vars(FIQ) /\ WF_vars(LaunchCycle /\ disableCart')

Spec == Init /\ [][Next]_vars /\ Fairness
----------------------------------------------------------------------------
(* Properties *)

\* Every variable keeps its type; the emulation does not get ahead of what it
\* has read, so the difference of unsigned counts does not wrap.
TypeOK ==
  /\ pc \in {"launch", "started", "clock", "loop", "reset", "restart", "emulate",
             "apply", "gone"}
  /\ {launchPrg, disableCart, resetPressed, resetLow} \subseteq BOOLEAN
  /\ {resetFromCode, latchReset, overflown} \subseteq BOOLEAN
  /\ resetReleased \in {0, 1, 255} /\ resetCounter \in 0 .. MenuReset + 1
  /\ {cycleCountC64, nCyclesEmulated, cycleCount} \subseteq 0 .. MaxCycles
  /\ ringTime \in [0 .. RingSize - 1 -> 0 .. MaxCycles]
  /\ {ringWrite, ringRead} \subseteq 0 .. RingSize - 1
  /\ writes \in 0 .. MaxWrites /\ resets \in 0 .. MaxResets

Playing == pc \in {"loop", "emulate", "apply"}
PlayerClock == IF Playing THEN cycleCountC64 ELSE 0
PlayerEmulated == IF Playing THEN nCyclesEmulated ELSE 0
PlayerPending == IF Playing THEN RingContents ELSE <<>>
Player == INSTANCE SIDPlayer WITH
  Capacity <- RingSize, playing <- Playing, clock <- PlayerClock,
  emulated <- PlayerEmulated, pending <- PlayerPending

\* The kernel plays the writes to the SIDs as SIDPlayer promises, whenever they
\* come and however far the emulation is behind: at their cycle, in their order,
\* each once, and none from before a reset.
PlaysAtTheirCycle == Player!Spec

\* The main loop catches up with the writes of the C64 and has applied them all, as
\* none was lost to a ring that filled up, or the kernel begins anew.
AllApplied ==
  (Playing /\ ringRead # ringWrite) ~> (~Playing \/ overflown \/ ringRead = ringWrite)

\* Who holds the C64 in reset gets to the menu, whatever the kernel does when he
\* begins (kernel_sid.cpp:796, helpers.h:139): the user, or a PSID tune for which the
\* kernel does.
HeldResetLeaves == <>[]Held => <>(pc = "gone")

\* A reset that was released is not forgotten while the kernel plays: it begins
\* anew, or ends if the reset was long.
ResetHandled == (Playing /\ resetReleased = 1) ~> (pc \in {"reset", "gone"})

\* All three: neither what the C64 has written, but for a ring that filled up, nor what
\* the user does with the reset button is left undone.
NothingPends == AllApplied /\ HeldResetLeaves /\ ResetHandled
=============================================================================
