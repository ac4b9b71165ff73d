------------------------------- MODULE MenuBus -------------------------------
(***************************************************************************)
(* The menu kernel of Sidekick64: the handshake between the C64 menu       *)
(* client (C64Side/rpimenu.c), the fast interrupt the Raspberry Pi takes   *)
(* for every cycle of the C64 bus (CKernelMenu::FIQHandler) and the main   *)
(* loop that renders the menu (CKernelMenu::Run, handleNetwork).           *)
(*                                                                         *)
(* The FIQ preempts the main loop and is never preempted, so one action is *)
(* one bus cycle together with its handler; the statements of the main     *)
(* loop interleave with the cycles.  A cycle is unserved when the FIQ is   *)
(* disabled or returns at once (kernel_menu.cpp:832): the C64 then writes  *)
(* into the void and reads the open bus.                                   *)
(***************************************************************************)
EXTENDS Naturals

CONSTANTS
  WithNet,         \* the build flag WITH_NET
  NumDMACycles,    \* NUM_DMA_CYCLES: cycles counted down before DMA is released
  MaxBurst,        \* bus cycles that fit between two adjacent statements
  Keys,            \* key codes a user can press
  NoKey,           \* lastChar = 0xfffffff
  Contents,        \* menu pages renderC64 can produce
  Cells,           \* bytes of a screen transfer
  Junk,            \* open bus, or the bytes behind the screen
  KernalWire, SIDWire   \* are the optional wires to the C64 connected?

ASSUME BuildAssumption == {WithNet, KernalWire, SIDWire} \subseteq BOOLEAN
ASSUME KeyAssumption == Keys # {} /\ NoKey \notin Keys
ASSUME ScreenAssumption ==
  /\ Contents # {} /\ Cells \in Nat \ {0}
  /\ Junk \notin Contents \X (0 .. Cells - 1)
\* Ten bus cycles last 10 microseconds, the two stores of the main loop that
\* must fit into them a few nanoseconds.
ASSUME TimingAssumption ==
  NumDMACycles \in Nat /\ MaxBurst \in Nat /\ MaxBurst < NumDMACycles

VARIABLES
  \* main loop
  mpc,              \* next statement of CKernelMenu::Run
  burst,            \* bus cycles that may still happen before that statement
  latchRead,        \* LATCH_ENABLE_KERNAL as latchSetClear has read it from latchD
  fiqOn,            \* the GPIO FIQ is connected and enabled
  keepNMILow, launchKernel, disableCart,
  menuScreen,       \* what renderC64 last left in c64screen/c64color
  \* shared by the main loop and the FIQ handler
  updateMenu, doneWithHandling, lastChar,
  \* FIQ handler
  releaseDMA, screenTransfer,
  wireKernalDetectMode, wireKernalTrackAccess, wireKernalAvailable,
  kernalOff,        \* LATCH_ENABLE_KERNAL in latchD: replace the KERNAL of the C64
  kernalAway,       \* the same bit as the latch was last given it: the KERNAL is replaced
  wireSIDGotLow, wireSIDGotHigh, wireSIDAvailable,
  \* the lines of the expansion port that Sidekick64 pulls low
  dmaLow, nmiLow,
  \* C64
  cpc,              \* next bus access of the menu client
  key,              \* key about to be sent, NoKey for a refresh asked by NMI
  dummies,          \* dummy keypresses the client still sends while it boots
  cell,             \* next cell of the screen to copy
  screen,           \* screen memory of the C64
  nmiLatch, nmiFlag,\* NMI edge seen by the CPU; $c00f set by the NMI handler
  \* history
  owed,             \* key the client has sent and handleC64 has not been given
  raced             \* latchSetClear has put back a LATCH_ENABLE_KERNAL that was cleared
                    \* after it had read it

loopVars   == <<mpc, burst, latchRead, fiqOn, keepNMILow, launchKernel, disableCart, menuScreen>>
sharedVars == <<updateMenu, doneWithHandling, lastChar>>
fiqVars    == <<releaseDMA, screenTransfer>>
wireKernal == <<wireKernalDetectMode, wireKernalTrackAccess, wireKernalAvailable,
                kernalOff, kernalAway, raced>>
wireSID    == <<wireSIDGotLow, wireSIDGotHigh, wireSIDAvailable>>
wireVars   == <<wireKernal, wireSID>>
clientVars == <<cpc, key, dummies, cell, screen, nmiLatch, nmiFlag>>
vars == <<loopVars, sharedVars, fiqVars, wireVars, dmaLow, nmiLow, clientVars, owed>>

-----------------------------------------------------------------------------
Cell  == (Contents \X (0 .. Cells - 1)) \cup {Junk}
Whole(content) == [i \in 0 .. Cells - 1 |-> <<content, i>>]

\* The places of the main loop where renderC64 runs or is about to run.
Rendering == {"handle", "netKey", "refresh", "netIdle"}
\* The two stores "doneWithHandling = 1; updateMenu = 0" have this point between.
BetweenStores == {"clear", "refreshClear"}
LoopPoints == {"top", "blink", "test", "idle", "idleNet", "done", "refreshNMI", "refreshDone",
               "treat", "netIdleNMI", "exit"} \cup Rendering \cup BetweenStores

\* Bus accesses of the client that end in IO2 (or, "kernal", in the KERNAL ROM).
ClientPoints == {"reset", "c128", "vic", "sidkick", "start", "copy", "inject",
                 "poll", "wireOn", "kernal", "wireOff", "sid", "send",
                 "jammed", "crashed", "off"}

Flags ==
  /\ fiqOn \in BOOLEAN /\ keepNMILow \in BOOLEAN /\ launchKernel \in BOOLEAN
  /\ disableCart \in BOOLEAN /\ updateMenu \in BOOLEAN /\ doneWithHandling \in BOOLEAN
  /\ wireKernalDetectMode \in BOOLEAN /\ wireKernalTrackAccess \in BOOLEAN
  /\ wireKernalAvailable \in BOOLEAN /\ kernalOff \in BOOLEAN
  /\ wireSIDGotLow \in BOOLEAN /\ wireSIDGotHigh \in BOOLEAN /\ wireSIDAvailable \in BOOLEAN
  /\ dmaLow \in BOOLEAN /\ nmiLow \in BOOLEAN
  /\ nmiLatch \in BOOLEAN /\ nmiFlag \in BOOLEAN

LatchFlags == latchRead \in BOOLEAN /\ kernalAway \in BOOLEAN /\ raced \in BOOLEAN

Points ==
  /\ mpc \in LoopPoints /\ cpc \in ClientPoints
  /\ burst \in 0 .. MaxBurst /\ releaseDMA \in 0 .. NumDMACycles
  /\ screenTransfer \in 0 .. Cells /\ cell \in 0 .. Cells /\ dummies \in 0 .. 2

Data ==
  /\ lastChar \in Keys \cup {NoKey} /\ key \in Keys \cup {NoKey}
  /\ owed \in Keys \cup {NoKey}
  /\ menuScreen \in Contents /\ screen \in [0 .. Cells - 1 -> Cell]

TypeOK == Flags /\ LatchFlags /\ Points /\ Data

-----------------------------------------------------------------------------
(* The FIQ handler.                                                        *)

\* The handler looks at the cycle only if it is enabled and no request for the
\* main loop is being worked on.
Serving == fiqOn /\ ~(updateMenu /\ ~doneWithHandling)

\* Between two adjacent statements only a few cycles fit.
BusCycle ==
  /\ IF mpc \in BetweenStores THEN burst > 0 /\ burst' = burst - 1 ELSE burst' = burst
  /\ UNCHANGED latchRead

\* A cycle of the 6510, which runs while DMA is released.
CPUCycle == ~dmaLow /\ BusCycle

\* What a cycle shows of the SID wire: low if it accesses the SID and the wire is there.
SeeOther ==
  wireSIDGotHigh' = TRUE /\ UNCHANGED <<wireSIDGotLow, wireSIDAvailable>>
SeeSID ==
  \/ SIDWire /\ wireSIDGotLow' = TRUE /\ UNCHANGED <<wireSIDGotHigh, wireSIDAvailable>>
  \/ ~SIDWire /\ SeeOther

\* Mutant: the countdown is not armed.
AskUnarmed ==
  updateMenu' = TRUE /\ doneWithHandling' = FALSE /\ dmaLow' = TRUE /\ UNCHANGED releaseDMA

\* A write to IO2 that asks the main loop for something halts the C64 until it has
\* been answered and a number of cycles has passed.
Ask ==
  /\ updateMenu' = TRUE /\ doneWithHandling' = FALSE
  /\ dmaLow' = TRUE /\ releaseDMA' = NumDMACycles

\* Any other write to IO2 does so if a request is still there.
HaltIfAsked ==
  \/ updateMenu /\ Ask
  \/ ~updateMenu /\ UNCHANGED <<updateMenu, doneWithHandling, dmaLow, releaseDMA>>

Unserved == UNCHANGED <<sharedVars, fiqVars, wireVars, dmaLow>>

\* Mutant: the countdown is not stopped at zero.
CountDownPastZero ==
  IF ~disableCart /\ doneWithHandling
    THEN releaseDMA' = releaseDMA - 1 /\ dmaLow' = IF releaseDMA = 1 THEN FALSE ELSE dmaLow
    ELSE UNCHANGED <<releaseDMA, dmaLow>>

\* The end of the handler: count down the cycles until DMA is released.
CountDown ==
  \/ /\ ~disableCart /\ doneWithHandling /\ releaseDMA > 0
     /\ releaseDMA' = releaseDMA - 1
     /\ \/ releaseDMA = 1 /\ dmaLow' = FALSE
        \/ releaseDMA # 1 /\ UNCHANGED dmaLow
  \/ /\ disableCart \/ ~doneWithHandling \/ releaseDMA = 0
     /\ UNCHANGED <<releaseDMA, dmaLow>>

\* The latch is given latchD (OUTPUT_LATCH) at the end of the handler.
OutputLatch == kernalAway' = IF disableCart THEN kernalAway ELSE kernalOff

\* A cycle with BA low (the VIC fetches): the only kind that gets to the countdown
\* and, with the cartridge active, to the latch.
VICCycle ==
  /\ BusCycle /\ Serving
  /\ SeeOther
  /\ CountDown /\ OutputLatch
  /\ UNCHANGED <<mpc, fiqOn, keepNMILow, launchKernel, disableCart, menuScreen,
                 sharedVars, screenTransfer, wireKernalDetectMode, wireKernalTrackAccess,
                 wireKernalAvailable, kernalOff, raced, nmiLow, clientVars, owed>>

\* activateCart and deactivateCart clear LATCH_ENABLE_KERNAL, at once.
KernalBack ==
  /\ kernalOff' = FALSE /\ kernalAway' = FALSE /\ raced' = FALSE
  /\ UNCHANGED <<wireKernalDetectMode, wireKernalTrackAccess, wireKernalAvailable>>

\* A reset makes the client start over.
ResetClient(point) ==
  /\ cpc' = point /\ key' = NoKey /\ dummies' = 2 /\ cell' = 0
  /\ screen' = [i \in 0 .. Cells - 1 |-> Junk]
  /\ nmiLatch' = FALSE /\ nmiFlag' = FALSE

\* The button of the cartridge: activateCart resets the C64 with the cartridge
\* visible, whatever the main loop is doing.  A request that stands hides the button.
Button ==
  /\ BusCycle /\ Serving
  /\ disableCart' = FALSE /\ dmaLow' = FALSE /\ nmiLow' = FALSE
  /\ KernalBack
  /\ ResetClient("reset") /\ owed' = NoKey
  /\ UNCHANGED <<mpc, fiqOn, keepNMILow, launchKernel, menuScreen,
                 sharedVars, fiqVars, wireSID>>

\* Any other reset of the C64 (its own button; Run itself, if the C64 has not read
\* the cartridge after a million cycles): the handler counts its cycles and looks at
\* nothing else, so requests, halts and the latch stay what they are.
C64Reset ==
  /\ BusCycle
  /\ ResetClient(IF cpc = "off" THEN "off" ELSE "reset")
  /\ UNCHANGED <<mpc, fiqOn, keepNMILow, launchKernel, disableCart, menuScreen,
                 sharedVars, fiqVars, wireVars, dmaLow, nmiLow, owed>>

-----------------------------------------------------------------------------
(* The menu client on the C64: one action per bus access.                  *)

ClientKeeps == UNCHANGED <<mpc, fiqOn, keepNMILow, launchKernel, disableCart,
                           menuScreen, nmiLow, screen, nmiLatch, nmiFlag>>

\* The C64 finds open bus where its KERNAL should be.
NoKernal == KernalWire /\ kernalAway

\* The client after its reset; the C64 needs about a second for this, so it
\* never happens between two adjacent statements.  It starts with the vector that the
\* KERNAL holds.
Boot ==
  /\ CPUCycle /\ cpc = "reset" /\ mpc \notin BetweenStores
  /\ cpc' = IF NoKernal THEN "crashed" ELSE "c128"
  /\ Unserved /\ ClientKeeps /\ UNCHANGED <<key, dummies, cell, owed>>

\* $DF02, $DF03, $DF05: C128, VIC and SIDKick detection.  Each asks for a new menu;
\* the last is preceded by accesses to the SID (readSIDKick_Version).
Report ==
  /\ CPUCycle
  /\ \/ cpc = "c128" /\ cpc' = "vic"
     \/ cpc = "vic" /\ cpc' = "sidkick"
     \/ cpc = "sidkick" /\ cpc' = "start"
  /\ \/ /\ Serving
        /\ Ask
        /\ \/ cpc = "sidkick" /\ SeeSID
           \/ cpc # "sidkick" /\ SeeOther
        /\ UNCHANGED <<lastChar, screenTransfer, wireKernal>>
     \/ ~Serving /\ Unserved
  /\ ClientKeeps /\ UNCHANGED <<key, dummies, cell, owed>>

\* Mutant: the transfer goes on where the last one ended.
NoRewind == UNCHANGED screenTransfer

Rewind == screenTransfer' = 0

\* $DF00 = 1: rewind the screen transfer.
StartTransfer ==
  /\ CPUCycle /\ cpc = "start"
  /\ cpc' = "copy" /\ cell' = 0
  /\ \/ /\ Serving
        /\ Rewind /\ HaltIfAsked /\ SeeOther
        /\ UNCHANGED <<lastChar, wireKernal>>
     \/ ~Serving /\ Unserved
  /\ ClientKeeps /\ UNCHANGED <<key, dummies, owed>>

\* $DF00, $DF01: the next cell of the screen.
CopyCell ==
  /\ CPUCycle /\ cpc = "copy"
  /\ cell' = cell + 1
  /\ cpc' = IF cell' = Cells THEN "inject" ELSE "copy"
  /\ \/ /\ Serving
        /\ screen' = [screen EXCEPT ![cell] =
             IF screenTransfer < Cells THEN <<menuScreen, screenTransfer>> ELSE Junk]
        /\ screenTransfer' = IF screenTransfer < Cells THEN screenTransfer + 1 ELSE Cells
        /\ SeeOther
        /\ UNCHANGED <<sharedVars, releaseDMA, wireKernal, dmaLow>>
     \/ /\ ~Serving
        /\ Unserved /\ screen' = [screen EXCEPT ![cell] = Junk]
  /\ UNCHANGED <<mpc, fiqOn, keepNMILow, launchKernel, disableCart, menuScreen, nmiLow,
                 key, dummies, nmiLatch, nmiFlag, owed>>

\* JSR $DF10: run the code the Pi injects (at least an RTS).  Nobody knows what
\* the C64 executes if the Pi does not put it on the bus.
CallInjected ==
  /\ CPUCycle /\ cpc = "inject"
  /\ cpc' = IF ~Serving THEN "jammed" ELSE IF dummies > 0 THEN "wireOn" ELSE "poll"
  /\ key' = NoKey /\ cell' = 0
  /\ \/ /\ Serving
        /\ SeeOther /\ UNCHANGED <<sharedVars, fiqVars, wireKernal, dmaLow>>
     \/ ~Serving /\ Unserved
  /\ ClientKeeps /\ UNCHANGED <<dummies, owed>>

\* The polling loop of the client: a key, or the flag left by the NMI handler.
PollKey(k) ==
  /\ ~dmaLow /\ cpc = "poll"
  /\ cpc' = "wireOn" /\ key' = k
  /\ UNCHANGED <<loopVars, sharedVars, fiqVars, wireVars, dmaLow, nmiLow, dummies,
                 cell, screen, nmiLatch, nmiFlag, owed>>

PollNMI ==
  /\ ~dmaLow /\ cpc = "poll" /\ nmiFlag
  /\ nmiFlag' = FALSE /\ cpc' = "wireOn"
  /\ UNCHANGED <<loopVars, sharedVars, fiqVars, wireVars, dmaLow, nmiLow, key, dummies,
                 cell, screen, nmiLatch, owed>>

\* Points at which the client does not run, or not any more.
Stopped == {"reset", "jammed", "crashed", "off"}

\* The 6510 enters the NMI handler of the client between two instructions.
TakeNMI ==
  /\ ~dmaLow /\ nmiLatch /\ cpc \notin Stopped /\ ~NoKernal
  /\ nmiLatch' = FALSE /\ nmiFlag' = TRUE
  /\ UNCHANGED <<loopVars, sharedVars, fiqVars, wireVars, dmaLow, nmiLow, cpc, key,
                 dummies, cell, screen, owed>>

\* An interrupt (the timer, or an NMI) is let in anywhere: nothing comes of it, unless
\* its vector is read while the KERNAL is away.
CrashingInterrupt ==
  /\ ~dmaLow /\ cpc \notin Stopped /\ NoKernal
  /\ cpc' = "crashed"
  /\ UNCHANGED <<loopVars, sharedVars, fiqVars, wireVars, dmaLow, nmiLow, key, dummies,
                 cell, screen, nmiLatch, nmiFlag, owed>>

\* The RESTORE key makes an edge on the NMI line, too.
Restore ==
  /\ cpc \notin Stopped /\ ~nmiLow /\ nmiLatch' = TRUE
  /\ UNCHANGED <<loopVars, sharedVars, fiqVars, wireVars, dmaLow, nmiLow, cpc, key,
                 dummies, cell, screen, nmiFlag, owed>>

\* wireDetection(): $DF10, a KERNAL read, $DF11, a SID access.  No interrupt is kept out.
WireOn ==
  /\ CPUCycle /\ cpc = "wireOn" /\ cpc' = "kernal"
  /\ \/ /\ Serving
        /\ wireKernalDetectMode' = TRUE /\ kernalOff' = TRUE /\ kernalAway' = TRUE
        /\ wireKernalTrackAccess' = FALSE /\ wireKernalAvailable' = FALSE
        /\ UNCHANGED raced
        /\ SeeOther /\ UNCHANGED <<sharedVars, fiqVars, dmaLow>>
     \/ ~Serving /\ Unserved
  /\ ClientKeeps /\ UNCHANGED <<key, dummies, cell, owed>>

WireKernalRead ==
  /\ CPUCycle /\ cpc = "kernal" /\ cpc' = "wireOff"
  /\ \/ /\ Serving
        /\ \/ wireKernalDetectMode /\ KernalWire /\ wireKernalTrackAccess' = TRUE
           \/ ~(wireKernalDetectMode /\ KernalWire) /\ UNCHANGED wireKernalTrackAccess
        /\ UNCHANGED <<wireKernalDetectMode, wireKernalAvailable, kernalOff, kernalAway, raced>>
        /\ SeeOther /\ UNCHANGED <<sharedVars, fiqVars, dmaLow>>
     \/ ~Serving /\ Unserved
  /\ ClientKeeps /\ UNCHANGED <<key, dummies, cell, owed>>

\* Mutants: the KERNAL is not switched on again; the result is not noted.
DetectedStillOff ==
  /\ \/ wireKernalTrackAccess /\ wireKernalAvailable' = TRUE
     \/ ~wireKernalTrackAccess /\ UNCHANGED wireKernalAvailable
  /\ wireKernalDetectMode' = FALSE
  /\ UNCHANGED <<kernalOff, kernalAway, raced, wireKernalTrackAccess>>
DetectedUnnoted ==
  /\ UNCHANGED <<wireKernalAvailable, wireKernalTrackAccess>>
  /\ wireKernalDetectMode' = FALSE
  /\ kernalOff' = FALSE /\ kernalAway' = FALSE /\ raced' = FALSE

Detected ==
  /\ \/ wireKernalTrackAccess /\ wireKernalAvailable' = TRUE
     \/ ~wireKernalTrackAccess /\ UNCHANGED wireKernalAvailable
  /\ wireKernalDetectMode' = FALSE
  /\ kernalOff' = FALSE /\ kernalAway' = FALSE /\ raced' = FALSE
  /\ UNCHANGED wireKernalTrackAccess

\* Without this write the KERNAL stays away.
WireOff ==
  /\ CPUCycle /\ cpc = "wireOff" /\ cpc' = "sid"
  /\ \/ /\ Serving
        /\ Detected /\ SeeOther /\ UNCHANGED <<sharedVars, fiqVars, dmaLow>>
     \/ ~Serving /\ Unserved
  /\ ClientKeeps /\ UNCHANGED <<key, dummies, cell, owed>>

SIDAccess ==
  /\ CPUCycle /\ cpc = "sid"
  /\ cpc' = IF key = NoKey /\ dummies = 0 THEN "start" ELSE "send"
  /\ \/ /\ Serving
        /\ SeeSID /\ UNCHANGED <<sharedVars, fiqVars, wireKernal, dmaLow>>
     \/ ~Serving /\ Unserved
  /\ ClientKeeps /\ UNCHANGED <<key, dummies, cell, owed>>

\* Mutant: the main loop is not asked to handle the key.
KeypressUnasked == lastChar' = key /\ HaltIfAsked

Keypress == lastChar' = key /\ Ask

\* $DF01 = key.  The first of the two dummy keypresses is not followed by a copy.
SendKey ==
  /\ CPUCycle /\ cpc = "send"
  /\ cpc' = IF dummies = 2 THEN "wireOn" ELSE "start"
  /\ dummies' = IF dummies > 0 THEN dummies - 1 ELSE 0
  /\ owed' = key
  /\ \/ /\ Serving
        /\ Keypress /\ SeeOther
        /\ UNCHANGED <<screenTransfer, wireKernal>>
     \/ ~Serving /\ Unserved
  /\ ClientKeeps /\ UNCHANGED <<key, cell>>

-----------------------------------------------------------------------------
(* The main loop.                                                          *)

Goto(point) == mpc' = point /\ burst' = MaxBurst /\ latchRead' = FALSE

\* A falling edge of the NMI line is latched by the CPU, a low level is not.
PullNMI ==
  /\ nmiLow' = TRUE
  /\ nmiLatch' = IF ~nmiLow /\ cpc \notin Stopped THEN TRUE ELSE nmiLatch

\* handleC64 is given lastChar; a key may pick something to launch (with the network
\* code a finished download may, too) or leave for BASIC (deactivateCart: reset the
\* C64 with the cartridge invisible).
HandleC64 ==
  \/ /\ launchKernel' \in IF lastChar \in Keys \/ WithNet THEN BOOLEAN ELSE {launchKernel}
     /\ owed' = IF owed = lastChar THEN NoKey ELSE owed
     /\ UNCHANGED <<disableCart, dmaLow, nmiLow, wireKernal, clientVars>>
  \/ /\ lastChar \in Keys
     /\ disableCart' = TRUE /\ dmaLow' = FALSE /\ nmiLow' = FALSE
     /\ KernalBack
     /\ ResetClient("off") /\ owed' = NoKey
     /\ launchKernel' \in IF WithNet THEN BOOLEAN ELSE {launchKernel}

RenderC64 == menuScreen' \in Contents

\* The head of the loop: leave for the chosen kernel; or run the LEDs of the display,
\* if there are some; then let go of NMI and look for a request of the C64.
Leave ==
  /\ mpc = "top" /\ launchKernel
  /\ Goto("exit") /\ fiqOn' = FALSE
  /\ UNCHANGED <<keepNMILow, launchKernel, disableCart, menuScreen, sharedVars, fiqVars,
                 wireVars, dmaLow, nmiLow, clientVars, owed>>

\* latchSetClear of Run: latchD is read ...
BlinkLoad ==
  /\ mpc = "top" /\ ~launchKernel
  /\ mpc' = "blink" /\ latchRead' = kernalOff
  /\ UNCHANGED <<burst, fiqOn, keepNMILow, launchKernel, disableCart, menuScreen,
                 sharedVars, fiqVars, wireVars, dmaLow, nmiLow, clientVars, owed>>

\* ... and written, whatever the FIQ handler has made of it meanwhile (in the model any
\* number of cycles may pass).  The latch is given it in a later cycle.
BlinkStore ==
  /\ mpc = "blink" /\ Goto("test")
  /\ kernalOff' = latchRead
  /\ raced' = (latchRead /\ (raced \/ ~kernalOff))
  /\ UNCHANGED <<fiqOn, keepNMILow, launchKernel, disableCart, menuScreen, sharedVars, fiqVars,
                 wireKernalDetectMode, wireKernalTrackAccess, wireKernalAvailable,
                 kernalAway, wireSID, dmaLow, nmiLow, clientVars, owed>>

Test ==
  /\ mpc \in {"top", "test"} /\ ~launchKernel
  /\ keepNMILow' = FALSE
  /\ \/ keepNMILow /\ nmiLow' = FALSE
     \/ ~keepNMILow /\ UNCHANGED nmiLow
  /\ \/ /\ updateMenu
        /\ \/ wireSIDGotLow /\ wireSIDGotHigh /\ wireSIDAvailable' = TRUE
           \/ ~(wireSIDGotLow /\ wireSIDGotHigh) /\ wireSIDAvailable' = FALSE
        /\ wireSIDGotLow' = FALSE /\ wireSIDGotHigh' = FALSE
        /\ \/ WithNet /\ Goto("netKey") /\ fiqOn' = FALSE
           \/ ~WithNet /\ Goto("handle") /\ UNCHANGED fiqOn
     \/ /\ ~updateMenu /\ UNCHANGED <<wireSID, fiqOn>>
        /\ \/ WithNet /\ Goto("idle")
           \/ ~WithNet /\ Goto("top")
  /\ UNCHANGED <<launchKernel, disableCart, menuScreen, sharedVars, fiqVars, wireKernal,
                 dmaLow, clientVars, owed>>

\* Mutant: lastChar is left for the next request.
CharForgotten == UNCHANGED lastChar

CharHandled == lastChar' = NoKey

\* A request, without the network code: the FIQ stays enabled but returns at once.
Handle ==
  /\ mpc = "handle" /\ Goto("done")
  /\ HandleC64 /\ RenderC64 /\ CharHandled
  /\ UNCHANGED <<fiqOn, keepNMILow, updateMenu, doneWithHandling, fiqVars, wireSID>>

\* handleNetwork(true): the same with the FIQ disabled; a finished download may
\* also choose what to launch.
HandleWithNetwork ==
  /\ mpc = "netKey" /\ Goto("done") /\ fiqOn' = TRUE
  /\ HandleC64 /\ RenderC64 /\ CharHandled
  /\ UNCHANGED <<keepNMILow, updateMenu, doneWithHandling, fiqVars, wireSID>>

\* Mutant: the request is only cleared.
NotDone == UNCHANGED doneWithHandling

Done == doneWithHandling' = TRUE

MarkDone ==
  /\ mpc \in {"done", "refreshDone"}
  /\ Goto(IF mpc = "done" THEN "clear" ELSE "refreshClear")
  /\ Done
  /\ UNCHANGED <<fiqOn, keepNMILow, launchKernel, disableCart, menuScreen, updateMenu,
                 lastChar, fiqVars, wireVars, dmaLow, nmiLow, clientVars, owed>>

\* keepNMILow = 1: release NMI at the head of the next round.
KeepNMI == keepNMILow' = TRUE

ClearRequest ==
  /\ \/ mpc = "clear" /\ Goto("top") /\ UNCHANGED keepNMILow
     \/ mpc = "refreshClear" /\ (Goto("top") \/ Goto("idleNet")) /\ KeepNMI
  /\ updateMenu' = FALSE
  /\ UNCHANGED <<fiqOn, launchKernel, disableCart, menuScreen, doneWithHandling, lastChar,
                 fiqVars, wireVars, dmaLow, nmiLow, clientVars, owed>>

-----------------------------------------------------------------------------
(* The main loop of the WITH_NET build when there is no request.           *)

\* A timed refresh or isMenuScreenUpdateNeeded(): render with the FIQ disabled.
RefreshBegin ==
  /\ mpc = "idle" /\ Goto("refresh")
  /\ fiqOn' = FALSE /\ doneWithHandling' = FALSE /\ updateMenu' = TRUE
  /\ UNCHANGED <<keepNMILow, launchKernel, disableCart, menuScreen, lastChar, fiqVars,
                 wireVars, dmaLow, nmiLow, clientVars, owed>>

RefreshRender ==
  /\ mpc = "refresh" /\ Goto("refreshNMI")
  /\ RenderC64 /\ fiqOn' = TRUE
  /\ UNCHANGED <<keepNMILow, launchKernel, disableCart, sharedVars, fiqVars,
                 wireVars, dmaLow, nmiLow, clientVars, owed>>

\* CLR_GPIO( bNMI ): ask the client to fetch the screen.
SignalC64 ==
  /\ PullNMI
  /\ \/ mpc = "refreshNMI" /\ Goto("refreshDone") /\ UNCHANGED keepNMILow
     \/ mpc = "netIdleNMI" /\ Goto("top") /\ KeepNMI
  /\ UNCHANGED <<fiqOn, launchKernel, disableCart, menuScreen, sharedVars, fiqVars,
                 wireVars, dmaLow, cpc, key, dummies, cell, screen, nmiFlag, owed>>

\* The FIQ is disabled to treat the caches (no network, every 1500000 rounds).
TreatCaches ==
  /\ \/ mpc = "idle" /\ Goto("treat") /\ fiqOn' = FALSE
     \/ mpc = "treat" /\ Goto("idleNet") /\ fiqOn' = TRUE
  /\ UNCHANGED <<keepNMILow, launchKernel, disableCart, menuScreen, sharedVars, fiqVars,
                 wireVars, dmaLow, nmiLow, clientVars, owed>>

\* Mutant: the FIQ stays enabled while the network is served.
NetworkUnguarded == UNCHANGED fiqOn

\* handleNetwork disables the FIQ first.
NetworkGuard == fiqOn' = FALSE

\* The test for the periodic handleNetwork(false).
NetworkDue ==
  /\ \/ mpc = "idle" /\ Goto("idleNet") /\ UNCHANGED fiqOn
     \/ mpc = "idleNet" /\ Goto("top") /\ UNCHANGED fiqOn
     \/ mpc = "idleNet" /\ Goto("netIdle") /\ NetworkGuard
  /\ UNCHANGED <<keepNMILow, launchKernel, disableCart, menuScreen, sharedVars, fiqVars,
                 wireVars, dmaLow, nmiLow, clientVars, owed>>

\* handleNetwork(false): network work with the FIQ disabled, maybe a download to
\* launch, maybe a new rendering.
PollNetwork ==
  /\ mpc = "netIdle" /\ fiqOn' = TRUE
  /\ launchKernel' \in BOOLEAN
  /\ lastChar' = IF launchKernel' THEN NoKey ELSE lastChar
  /\ \/ RenderC64 /\ Goto("netIdleNMI")
     \/ UNCHANGED menuScreen /\ Goto("top")
  /\ UNCHANGED <<keepNMILow, disableCart, updateMenu, doneWithHandling, fiqVars,
                 wireVars, dmaLow, nmiLow, clientVars, owed>>

\* main(): release the lines, run the chosen kernel until it returns, and enter
\* Run() again.  It restarts the C64 only if the cartridge is not deactivated.
Relaunch ==
  /\ mpc = "exit" /\ Goto("top")
  /\ launchKernel' = FALSE /\ updateMenu' = FALSE /\ lastChar' = NoKey
  /\ keepNMILow' = FALSE /\ fiqOn' = IF disableCart THEN FALSE ELSE TRUE
  /\ dmaLow' = FALSE /\ nmiLow' = FALSE
  /\ wireKernalDetectMode' = FALSE /\ wireKernalTrackAccess' = FALSE
  /\ wireKernalAvailable' = FALSE
  /\ kernalOff' = FALSE /\ kernalAway' = FALSE /\ raced' = FALSE
  /\ wireSIDGotLow' = FALSE /\ wireSIDGotHigh' = FALSE /\ wireSIDAvailable' = FALSE
  /\ ResetClient(IF disableCart THEN "off" ELSE "reset") /\ owed' = NoKey
  /\ UNCHANGED <<disableCart, menuScreen, doneWithHandling, fiqVars>>

-----------------------------------------------------------------------------
Init ==
  /\ mpc = "top" /\ burst = MaxBurst /\ latchRead = FALSE
  /\ fiqOn = TRUE /\ keepNMILow = FALSE
  /\ launchKernel = FALSE /\ disableCart = FALSE
  /\ menuScreen \in Contents       \* Initialize() has rendered once
  /\ updateMenu = FALSE /\ doneWithHandling = FALSE /\ lastChar = NoKey
  /\ releaseDMA = 0 /\ screenTransfer = 0
  /\ wireKernalDetectMode = FALSE /\ wireKernalTrackAccess = FALSE
  /\ wireKernalAvailable = FALSE
  /\ kernalOff = FALSE /\ kernalAway = FALSE /\ raced = FALSE
  /\ wireSIDGotLow = FALSE /\ wireSIDGotHigh = FALSE /\ wireSIDAvailable = FALSE
  /\ dmaLow = FALSE /\ nmiLow = FALSE
  /\ cpc = "reset" /\ key = NoKey /\ dummies = 2 /\ cell = 0
  /\ screen = [i \in 0 .. Cells - 1 |-> Junk]
  /\ nmiLatch = FALSE /\ nmiFlag = FALSE
  /\ owed = NoKey

Client ==
  \/ Boot \/ Report \/ StartTransfer \/ CopyCell \/ CallInjected
  \/ WireOn \/ WireKernalRead \/ WireOff \/ SIDAccess \/ SendKey
  \/ PollNMI \/ TakeNMI

MainLoop ==
  \/ Leave \/ BlinkLoad \/ BlinkStore \/ Test \/ Handle \/ HandleWithNetwork \/ MarkDone \/ ClearRequest
  \/ RefreshBegin \/ RefreshRender \/ SignalC64 \/ TreatCaches \/ NetworkDue
  \/ PollNetwork \/ Relaunch

\* The user of the C64, and the interrupts of its timer.
User == Button \/ C64Reset \/ Restore \/ CrashingInterrupt \/ \E k \in Keys : PollKey(k)

Next == Client \/ MainLoop \/ User \/ VICCycle

Spec == Init /\ [][Next]_vars

\* The clocks of both machines run: the main loop executes, the C64 executes
\* while it is not halted, and the VIC fetches.  Users owe nobody anything.
Fairness == WF_vars(MainLoop) /\ WF_vars(Client) /\ WF_vars(VICCycle)

FairSpec == Spec /\ Fairness
-----------------------------------------------------------------------------
(* What the handshake promises.                                            *)

\* A key the client has sent stays in lastChar, with the request to handle it
\* raised, until handleC64 is given it: FIQHandler (936-942) against the resets of
\* lastChar and updateMenu in Run (726, 733-735) and handleNetwork.
\* (Once a kernel has been chosen the client is only waiting for its reset.)
NoKeyLost == owed # NoKey /\ ~launchKernel => updateMenu /\ lastChar = owed

\* The key handleC64 is given is the last one the client has sent, and has not been
\* given before.  A reset of the C64 itself, which leaves a request alone (837-843),
\* loses none and repeats none; after the button (activateCart, which a request hides)
\* none is handled that was sent before it.
KeysHandledOnce ==
  [][(mpc \in {"handle", "netKey"} /\ mpc' # mpc /\ lastChar \in Keys) => owed = lastChar]_vars

\* When the client is back in its polling loop it shows what renderC64 produced
\* last, complete and not mixed with an older page (updateScreen against renderC64
\* and the transfer pointers).
FreshAtPoll == cpc = "poll" /\ ~launchKernel => screen = Whole(menuScreen)

\* What the user gets is MenuService: a key counts from when it is typed, through the
\* detection of the wires and lastChar, until handleC64 is given it; a page is shown
\* while the client polls.  A kernel that has been chosen ends all service.
Detecting == {"wireOn", "kernal", "wireOff", "sid", "send"}
ServicePages == {Whole(content) : content \in Contents}
ServiceShown == IF cpc = "poll" /\ ~launchKernel THEN {screen} ELSE {}
ServiceKey == IF launchKernel THEN NoKey ELSE IF cpc \in Detecting THEN key ELSE owed
Service == INSTANCE MenuService
  WITH Pages <- ServicePages, page <- Whole(menuScreen), shown <- ServiceShown,
       key <- ServiceKey

\* Without the network code the handshake, the transfer of the screen, the detection
\* and the rendering together serve the user as MenuService promises.
ServesMenu == Service!Spec

\* The C64 never runs open bus ($DF10 without the injected code), and its KERNAL is
\* never away but between the two stores of wireDetection (965-981): only an interrupt
\* or a reset of the C64 that falls between them finds it missing, and crashes the C64.
\* Excepted is the latch when latchSetClear of Run (685, 692) has put the bit back.
Window == {"kernal", "wireOff"}
NeverJammed ==
  /\ cpc = "jammed" => launchKernel
  /\ NoKernal /\ ~raced /\ ~launchKernel => cpc \in Window \cup {"reset", "crashed"}

\* Whoever halts the C64 has armed the countdown that releases it (983-990,
\* 1024-1028); activateCart and deactivateCart release DMA without disarming.
HaltArmed == dmaLow => releaseDMA > 0

\* A request for the main loop (updateMenu without doneWithHandling) that comes from
\* the C64 finds the C64 halted until the answer is complete, unless it
\* has just been reset for BASIC.
HaltedWhileHandled == mpc \in {"handle", "netKey", "done"} /\ cpc # "off" => dmaLow

\* Both: the C64 is halted for as long as its request is worked on, and never longer
\* than the countdown of the DMA runs (1024-1030).
Halting == HaltArmed /\ HaltedWhileHandled

\* The results of wireDetection() that handleC64 acts on are those of the wires that
\* are there: the client has gone through the whole detection before each key, and
\* no cycle of it was missed or counted for an earlier key.
WiresDetected ==
  [][(mpc \in {"top", "test"} /\ updateMenu /\ mpc' \in {"handle", "netKey"} /\ lastChar \in Keys)
       => wireSIDAvailable' = SIDWire /\ wireKernalAvailable = KernalWire]_vars

\* While renderC64 writes the screen (or is about to), the FIQ serves no access to it:
\* disabled (518, 759, 789) or returning at once (832).
RenderExclusion == mpc \in Rendering => ~Serving

\* NMI is pulled low only for as long as it takes the loop to come round: somebody
\* has been told to release it (696-700, 767-770, 798-801, 805-809).
NMIWillRise == nmiLow => keepNMILow \/ mpc \in {"refreshDone", "refreshClear"}

\* Both: a refresh, which no request of the client asks for, serves no access of the C64
\* while it draws (a client that copies a page meanwhile reads open bus), and the NMI
\* that announces it ends.
RefreshInOrder == RenderExclusion /\ NMIWillRise

\* The C64 always gets its bus back, and every key is eventually handled: nobody waits
\* for ever while the FIQ returns at once (832) and the C64 is halted (1024-1030).
C64Resumes == dmaLow ~> ~dmaLow
KeyHandled == \A k \in Keys : owed = k ~> owed # k
NobodyWaits == C64Resumes /\ KeyHandled
=============================================================================
