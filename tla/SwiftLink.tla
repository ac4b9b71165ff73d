------------------------------ MODULE SwiftLink ------------------------------
(***************************************************************************)
(* The SwiftLink modem of the launcher (kernel_launch.cpp, net.cpp):       *)
(* bytes go from a terminal program on the C64 through registers at $DE00  *)
(* to a command interpreter or a socket, and back with an NMI for each.    *)
(* Three parties share the state: the terminal, whose accesses the FIQ     *)
(* handler answers; the main loop, which feeds one byte at a time into     *)
(* swiftLinkResponse; and the network code, which the main loop calls      *)
(* either with the FIQ enabled ("silent") or, with the FIQ disabled, while *)
(* the C64 is halted by the access that asked for it.                      *)
(*                                                                         *)
(* A byte is its number in the order of sending; what it means to the      *)
(* command interpreter is its kind.  A command that is not empty dials, or *)
(* replies, or does neither.  No PSID is played, and the network is up.    *)
(***************************************************************************)
EXTENDS Naturals, Sequences

CONSTANTS
  NetDelay,       \* rounds until the network is served first (3500000)
  FollowUpDelay,  \* rounds until it is served again (300000)
  DMADelay,       \* swiftLinknetDelayDMADefault (60000)
  NMIDelay,       \* swiftLinkNmiDelay
  NMILow,         \* rounds for which NMI is held low (4)
  UseWLAN,        \* the network is wireless (usesWLAN)
  Scripts,        \* bound: what the terminal types, kind by kind
  MaxRemote,      \* bound: bytes the remote end sends
  MaxDisturbances \* bound: resets of the C64 and uploads to the web server

ASSUME DelaysAssumption ==
  /\ NetDelay \in Nat \ {0} /\ FollowUpDelay \in Nat \ {0} /\ DMADelay \in Nat
  /\ NMIDelay \in Nat \ {0, 1} /\ NMILow \in Nat \ {0}
ASSUME BoundsAssumption ==
  {MaxRemote, MaxDisturbances} \subseteq Nat

Zero == 0                              \* the byte 0; all others have a number
Kinds == {"ch", "delete", "ignored", "return"}

ASSUME ScriptsAssumption == Scripts \subseteq Seq(Kinds)

VARIABLES
  \* the main loop's
  pc, netDelay, swiftLinkDoNMI, keepNMILow,
  fiqOn,          \* the FIQ handler is connected
  swiftLinkEnabled,
  \* shared with the FIQ handler
  swiftLinkResponse,  \* the byte for the C64: a sequence of at most one
  swiftLinkReleaseDMA, swiftLinknetDelayDMA,
  cmdInt,         \* swiftLinkRegisterCmd & 1
  disableCart, dmaLow, nmiLow,
  outBuf, outPos, \* m_modemOutputBuffer: bytes of the C64 for the modem
  \* the network's
  modemEmuType,
  inBuf, inPos,   \* m_modemInputBuffer: bytes of the modem for the C64
  commandLength, dialled, \* m_modemCommandLength; m_socketPort > 0
  connected, firstReceive,
  returnRequested,
  \* the C64 and its terminal program
  c64,            \* run, reset
  resetSeen,      \* resetCounter > 3
  program,        \* boot, launched; lost: it runs without the launch code
  nmiPending, handler, \* edge of the NMI line; the NMI handler's next access
  \* bounds
  script, typed, remote, disturbances,
  \* history
  owedIn, owedOut \* bytes that the terminal and the modem have still to get

loopVars == <<netDelay, swiftLinkDoNMI, keepNMILow>>
irqVars == <<fiqOn, swiftLinkEnabled>>
dmaVars == <<swiftLinkReleaseDMA, swiftLinknetDelayDMA, dmaLow>>
outVars == <<outBuf, outPos, owedOut>>
inVars == <<inBuf, inPos, owedIn>>
modemVars == <<commandLength, dialled, connected, firstReceive>>
webVars == <<modemEmuType, returnRequested>>
c64Vars == <<c64, resetSeen, program, nmiPending, handler>>
boundVars == <<script, typed, remote, disturbances>>
vars == <<pc, loopVars, irqVars, swiftLinkResponse, dmaVars, cmdInt, disableCart, nmiLow,
          outVars, inVars, modemVars, webVars, c64Vars, boundVars>>

\* Mutant: a countdown does not stop at 0
DecBelow(n) == n - 1

Dec(n) == IF n > 0 THEN n - 1 ELSE 0
AreCharsInInputBuffer == inPos < Len(inBuf)
Unread == SubSeq(inBuf, inPos + 1, Len(inBuf))
Offered(b) == IF b = Zero THEN <<>> ELSE <<b>>
----------------------------------------------------------------------------
(* The FIQ handler: accesses of the terminal to the registers *)

\* the registers are answered (the launch code is not, any more)
Served == fiqOn /\ disableCart /\ swiftLinkEnabled

\* the C64 is halted until the main loop has served the network
PullDMA ==
  /\ swiftLinkReleaseDMA' = TRUE
  /\ swiftLinknetDelayDMA' = DMADelay
  /\ dmaLow' = TRUE

\* a read halts the C64 when there is nothing more for it to read
PullAfterRead ==
  IF connected /\ (~AreCharsInInputBuffer \/ swiftLinknetDelayDMA = 0)
  THEN PullDMA ELSE UNCHANGED dmaVars

PullAfterWrite ==
  IF /\ connected /\ swiftLinkResponse = <<>> /\ ~AreCharsInInputBuffer
     /\ swiftLinknetDelayDMA = 0
  THEN PullDMA ELSE UNCHANGED dmaVars

Running == c64 = "run" /\ ~dmaLow
TerminalRuns == Running /\ program = "launched"

\* the terminal looks for a byte, because of an NMI or of its own accord
Look ==
  /\ TerminalRuns /\ handler = "idle"
  /\ nmiPending' = FALSE
  /\ handler' = "status"
  /\ UNCHANGED <<c64, resetSeen, program, pc, loopVars, irqVars,
                 swiftLinkResponse, dmaVars, cmdInt, disableCart, nmiLow, outVars, inVars,
                 modemVars, webVars, boundVars>>

\* $DE01: the status says whether there is a byte; open bus says anything
ReadStatus ==
  /\ TerminalRuns /\ handler = "status"
  /\ IF Served
     THEN /\ handler' = IF swiftLinkResponse = <<>> THEN "idle" ELSE "data"
          /\ PullAfterRead
     ELSE /\ handler' \in {"idle", "data"}
          /\ UNCHANGED dmaVars
  /\ UNCHANGED <<c64, resetSeen, program, nmiPending, pc, loopVars, irqVars,
                 swiftLinkResponse, cmdInt, disableCart, nmiLow, outVars, inVars, modemVars,
                 webVars, boundVars>>

\* $DE00: the byte is handed over, once
ReadData ==
  /\ TerminalRuns /\ handler = "data"
  /\ handler' = "idle"
  /\ IF Served
     THEN /\ swiftLinkResponse' = <<>>
          /\ owedIn' = IF swiftLinkResponse = <<>> THEN owedIn ELSE Tail(owedIn)
          /\ PullAfterRead
     ELSE UNCHANGED <<swiftLinkResponse, owedIn, dmaVars>>
  /\ UNCHANGED <<c64, resetSeen, program, nmiPending, pc, loopVars, irqVars,
                 cmdInt, disableCart, nmiLow, outVars, inBuf, inPos, modemVars, webVars,
                 boundVars>>

\* the main loop has found the output buffer read, and will empty it next
AboutToEmpty == pc = "emptyLength"

\* $DE00 written: addToModemOutputBuffer; a byte that comes between the test
\* and the emptying of the buffer is wiped with it, and not owed
WriteData ==
  /\ TerminalRuns /\ handler = "idle" /\ typed < Len(script)
  /\ typed' = typed + 1
  /\ IF Served
     THEN /\ outBuf' = Append(outBuf, [byte |-> typed', kind |-> script[typed']])
          /\ owedOut' = IF AboutToEmpty THEN owedOut ELSE Append(owedOut, typed')
          /\ IF connected \/ script[typed'] = "return" THEN PullDMA ELSE PullAfterWrite
     ELSE UNCHANGED <<outBuf, owedOut, dmaVars>>
  /\ UNCHANGED <<pc, loopVars, irqVars, swiftLinkResponse, cmdInt, disableCart, nmiLow,
                 outPos, inVars, modemVars, webVars, c64Vars, script, remote, disturbances>>

\* $DE02 written: receive interrupts on
WriteCommand ==
  /\ TerminalRuns /\ handler = "idle" /\ ~cmdInt
  /\ IF Served
     THEN cmdInt' = TRUE /\ PullAfterWrite
     ELSE UNCHANGED <<cmdInt, dmaVars>>
  /\ UNCHANGED <<pc, loopVars, irqVars, swiftLinkResponse, disableCart, nmiLow, outVars,
                 inVars, modemVars, webVars, c64Vars, boundVars>>

\* the launch code loads the program and turns the cartridge off, if the
\* handler serves it
LaunchServed == fiqOn /\ ~disableCart /\ ~swiftLinkEnabled

Boot ==
  /\ Running /\ program = "boot"
  /\ program' = IF LaunchServed THEN "launched" ELSE "lost"
  /\ disableCart' = (disableCart \/ LaunchServed)
  /\ UNCHANGED <<c64, resetSeen, nmiPending, handler, pc, loopVars, irqVars,
                 swiftLinkResponse, dmaVars, cmdInt, nmiLow, outVars, inVars, modemVars,
                 webVars, boundVars>>

\* the user resets the C64
Reset ==
  /\ pc # "menu" /\ c64 = "run" /\ disturbances < MaxDisturbances
  /\ disturbances' = disturbances + 1
  /\ c64' = "reset"
  /\ resetSeen' = FALSE
  /\ program' = "boot"
  /\ handler' = "idle"
  /\ nmiPending' = FALSE
  /\ UNCHANGED <<pc, loopVars, irqVars, swiftLinkResponse, dmaVars, cmdInt,
                 disableCart, nmiLow, outVars, inVars, modemVars, webVars, script, typed,
                 remote>>

\* a cycle of the C64 with the reset line low for the fourth time
ResetCycle ==
  /\ fiqOn /\ c64 = "reset"
  /\ resetSeen' = TRUE
  /\ disableCart' = FALSE
  /\ dmaLow' = FALSE /\ nmiLow' = FALSE
  /\ UNCHANGED <<c64, program, nmiPending, handler, pc, loopVars, irqVars,
                 swiftLinkResponse, swiftLinkReleaseDMA, swiftLinknetDelayDMA, cmdInt,
                 outVars, inVars, modemVars, webVars, boundVars>>

ReleaseReset ==
  /\ c64 = "reset"
  /\ c64' = "run"
  /\ UNCHANGED <<resetSeen, program, nmiPending, handler, pc, loopVars,
                 irqVars, swiftLinkResponse, dmaVars, cmdInt, disableCart, nmiLow, outVars,
                 inVars, modemVars, webVars, boundVars>>
----------------------------------------------------------------------------
(* The modem: handleModemEmulation and what it calls *)

Text == 99                              \* a reply of the modem stands for all of its bytes

\* Mutant: the buffer is begun anew whenever something has been read of it
ToFrontendEarly(bytes) ==
  LET allRead == inPos > 0 IN
  /\ inBuf' = IF allRead THEN bytes ELSE inBuf \o bytes
  /\ inPos' = IF allRead THEN 0 ELSE inPos
  /\ owedIn' = owedIn \o bytes

\* writeCharsToFrontend: a buffer that has been read is begun anew
ToFrontend(bytes) ==
  LET allRead == inBuf # <<>> /\ inPos = Len(inBuf) IN
  /\ inBuf' = IF allRead THEN bytes ELSE inBuf \o bytes
  /\ inPos' = IF allRead THEN 0 ELSE inPos
  /\ owedIn' = owedIn \o bytes

\* SocketConnect and SocketConnectIP: the frontend is told in any case
Connect ==
  \/ connected' = TRUE /\ firstReceive' = TRUE
  \/ UNCHANGED <<connected, firstReceive>>

\* a byte in command mode; in silence a number is only noted
Interpret(b, silent) ==
  \/ /\ b.kind = "ignored"
     /\ UNCHANGED <<inVars, modemVars>>
  \/ /\ b.kind = "delete"
     /\ ToFrontend(<<b.byte>>)
     /\ commandLength' = Dec(commandLength)
     /\ UNCHANGED <<dialled, connected, firstReceive>>
  \/ /\ b.kind = "ch"
     /\ ToFrontend(<<b.byte>>)
     /\ commandLength' = commandLength + 1
     /\ UNCHANGED <<dialled, connected, firstReceive>>
  \/ /\ b.kind = "return"
     /\ commandLength' = 0
     /\ \/ /\ \E reply \in {<<>>, <<Text>>} :
                (commandLength < 2 => reply = <<>>) /\ ToFrontend(<<b.byte>> \o reply)
           /\ UNCHANGED <<dialled, connected, firstReceive>>
        \/ /\ commandLength >= 2 /\ silent
           /\ ToFrontend(<<b.byte>>)
           /\ dialled' = TRUE
           /\ UNCHANGED <<connected, firstReceive>>
        \/ /\ commandLength >= 2 /\ ~silent
           /\ ToFrontend(<<b.byte, Text>>)
           /\ Connect
           /\ UNCHANGED dialled

\* readCharFromFrontend has a byte
OutUnread == outPos < Len(outBuf)
OutAllRead == outBuf # <<>> /\ outPos = Len(outBuf)
TakeOut ==
  /\ outPos' = outPos + 1
  /\ owedOut' = Tail(owedOut)
  /\ UNCHANGED outBuf

\* with the FIQ handler running, between test and emptying it may add a byte
SilentModem ==
  /\ pc = "silent"
  /\ \/ /\ OutUnread
        /\ TakeOut
        /\ Interpret(outBuf[outPos + 1], TRUE)
        /\ pc' = "input"
     \/ /\ ~OutUnread
        /\ pc' = IF OutAllRead THEN "emptyLength" ELSE "input"
        /\ UNCHANGED <<outVars, inVars, modemVars>>
  /\ UNCHANGED <<loopVars, irqVars, swiftLinkResponse, dmaVars, cmdInt, disableCart, nmiLow,
                 webVars, c64Vars, boundVars>>

EmptyLength ==
  /\ pc = "emptyLength"
  /\ outBuf' = <<>>
  /\ pc' = "emptyPos"
  /\ UNCHANGED <<outPos, owedOut, loopVars, irqVars, swiftLinkResponse, dmaVars, cmdInt,
                 disableCart, nmiLow, inVars, modemVars, webVars, c64Vars, boundVars>>

EmptyPos ==
  /\ pc = "emptyPos"
  /\ outPos' = 0
  /\ pc' = "input"
  /\ UNCHANGED <<outBuf, owedOut, loopVars, irqVars, swiftLinkResponse, dmaVars, cmdInt,
                 disableCart, nmiLow, inVars, modemVars, webVars, c64Vars, boundVars>>

\* cleanUpModemEmuSocket
CleanUp ==
  /\ connected' = FALSE /\ firstReceive' = FALSE
  /\ commandLength' = 0
  /\ inBuf' = <<>> /\ inPos' = 0
  /\ outBuf' = <<>> /\ outPos' = 0
  /\ owedIn' = swiftLinkResponse /\ owedOut' = <<>>
  /\ UNCHANGED dialled

\* with the FIQ handler off, in the launcher or in the menu: a noted number is
\* dialled, or one byte is interpreted or sent
Modem ==
  /\ pc \in {"modem", "menu"} /\ modemEmuType = 1
  /\ \/ /\ dialled /\ ~connected
        /\ ToFrontend(<<Text>>)
        /\ Connect
        /\ dialled' = FALSE
        /\ UNCHANGED <<outVars, commandLength>>
     \/ /\ pc = "menu" /\ connected
        /\ CleanUp
     \/ /\ ~(dialled /\ ~connected) /\ ~(pc = "menu" /\ connected)
        /\ \/ /\ OutUnread /\ ~connected
              /\ TakeOut
              /\ Interpret(outBuf[outPos + 1], FALSE)
           \/ /\ OutUnread /\ connected
              /\ TakeOut
              /\ firstReceive' = TRUE
              /\ UNCHANGED <<inVars, commandLength, dialled, connected>>
           \/ /\ ~OutUnread
              /\ outBuf' = <<>>
              /\ outPos' = 0
              /\ UNCHANGED <<owedOut, inVars, modemVars>>
  /\ pc' = CASE pc = "menu" -> "menu"
             [] pc = "modem" /\ connected -> "receive"
             [] OTHER -> "reconnect"
  /\ UNCHANGED <<loopVars, irqVars, swiftLinkResponse, dmaVars, cmdInt, disableCart, nmiLow,
                 webVars, c64Vars, boundVars>>

\* the remote end sends some bytes, 0 possibly among them, or closes the socket
Remote ==
  /\ pc = "receive"
  /\ \E n \in 0 .. MaxRemote - remote, zero \in BOOLEAN :
       /\ n > 0 \/ firstReceive
       /\ remote' = remote + n
       /\ ToFrontend([i \in 1 .. n |-> IF zero /\ i = 1 THEN Zero ELSE Len(script) + remote + i])
  /\ firstReceive' = FALSE
  /\ UNCHANGED <<pc, loopVars, irqVars, swiftLinkResponse, dmaVars, cmdInt, disableCart,
                 nmiLow, outVars, commandLength, dialled, connected, webVars, c64Vars, script,
                 typed, disturbances>>

\* the first receive after a send waits for an answer, the others do not
Received ==
  /\ pc = "receive" /\ ~firstReceive
  /\ pc' = "reconnect"
  /\ UNCHANGED <<loopVars, irqVars, swiftLinkResponse, dmaVars, cmdInt, disableCart, nmiLow,
                 outVars, inVars, modemVars, webVars, c64Vars, boundVars>>
----------------------------------------------------------------------------
(* The main loop of KernelLaunchRun *)

ToMenu ==
  /\ pc' = "menu"
  /\ fiqOn' = FALSE
  /\ dmaLow' = FALSE                   \* CKernelMenu::Run sets both lines again
  /\ nmiLow' = FALSE

\* NMI is released when keepNMILow gets to 0
NMIKept == nmiLow /\ keepNMILow # 1

\* the countdowns, and whether it is time for the network
LoopHead ==
  /\ pc = "top"
  /\ keepNMILow' = Dec(keepNMILow)
  /\ \/ /\ c64 = "reset" /\ resetSeen    \* TEST_FOR_JUMP_TO_MAINMENU
        /\ ToMenu
        /\ UNCHANGED <<netDelay, swiftLinknetDelayDMA>>
     \/ /\ nmiLow' = NMIKept
        /\ swiftLinknetDelayDMA' =
             IF swiftLinkEnabled /\ ~UseWLAN /\ connected /\ swiftLinkResponse = <<>>
             THEN Dec(swiftLinknetDelayDMA) ELSE swiftLinknetDelayDMA
        /\ LET counts == disableCart /\ (modemEmuType = 1 => ~swiftLinkEnabled)
               left == IF swiftLinkReleaseDMA THEN 0
                       ELSE IF counts THEN Dec(netDelay) ELSE netDelay
           IN  IF left = 0
               THEN netDelay' = FollowUpDelay /\ fiqOn' = FALSE /\ pc' = "serve"
               ELSE /\ netDelay' = left
                    /\ pc' = IF swiftLinkEnabled /\ modemEmuType = 1 /\ ~connected
                             THEN "silent" ELSE "input"
                    /\ UNCHANGED fiqOn
        /\ UNCHANGED dmaLow
  /\ UNCHANGED <<swiftLinkDoNMI, swiftLinkEnabled, swiftLinkResponse, swiftLinkReleaseDMA,
                 cmdInt, disableCart, outVars, inVars, modemVars, webVars, c64Vars,
                 boundVars>>

\* the SwiftLink is unlocked, and a request to return to the menu is consumed;
\* then the web server runs: a visit of its upload page turns the modem off,
\* an upload asks the launcher to return
Serve ==
  /\ pc = "serve"
  /\ swiftLinkEnabled' = (swiftLinkEnabled \/ modemEmuType = 1)
  /\ swiftLinknetDelayDMA' = IF modemEmuType = 1 THEN DMADelay ELSE swiftLinknetDelayDMA
  /\ \/ /\ returnRequested
        /\ returnRequested' = FALSE
        /\ ToMenu
        /\ UNCHANGED <<modemEmuType, disturbances>>
     \/ /\ ~returnRequested
        /\ modemEmuType' \in {0, modemEmuType}
        /\ returnRequested' \in {FALSE, disturbances < MaxDisturbances}
        /\ disturbances' = disturbances + (IF returnRequested' THEN 1 ELSE 0)
        /\ pc' = IF modemEmuType' = 1 THEN "modem" ELSE "reconnect"
        /\ UNCHANGED <<fiqOn, dmaLow, nmiLow>>
  /\ UNCHANGED <<loopVars, swiftLinkResponse, swiftLinkReleaseDMA, cmdInt, disableCart,
                 outVars, inVars, modemVars, c64Vars, script, typed, remote>>

Reconnect ==
  /\ pc = "reconnect"
  /\ fiqOn' = TRUE
  /\ pc' = "release"
  /\ UNCHANGED <<loopVars, swiftLinkEnabled, swiftLinkResponse, dmaVars, cmdInt, disableCart,
                 nmiLow, outVars, inVars, modemVars, webVars, c64Vars, boundVars>>

\* Mutant: DMA is released for a connected modem only
ReleaseConnected ==
  /\ pc = "release"
  /\ pc' = "input"
  /\ IF swiftLinkEnabled /\ swiftLinkReleaseDMA /\ connected
     THEN swiftLinkReleaseDMA' = FALSE /\ dmaLow' = FALSE
     ELSE UNCHANGED <<swiftLinkReleaseDMA, dmaLow>>
  /\ UNCHANGED <<loopVars, irqVars, swiftLinkResponse, swiftLinknetDelayDMA, cmdInt,
                 disableCart, nmiLow, outVars, inVars, modemVars, webVars, c64Vars,
                 boundVars>>

Release ==
  /\ pc = "release"
  /\ pc' = "input"
  /\ IF swiftLinkEnabled /\ swiftLinkReleaseDMA
     THEN swiftLinkReleaseDMA' = FALSE /\ dmaLow' = FALSE
     ELSE UNCHANGED <<swiftLinkReleaseDMA, dmaLow>>
  /\ UNCHANGED <<loopVars, irqVars, swiftLinkResponse, swiftLinknetDelayDMA, cmdInt,
                 disableCart, nmiLow, outVars, inVars, modemVars, webVars, c64Vars,
                 boundVars>>

\* a byte is offered to the C64, or offered again (0 is not passed on); when
\* the delay is over and receive interrupts are on, NMI is pulled: an edge
NoOffer == swiftLinkEnabled /\ keepNMILow = 0 /\ swiftLinkDoNMI = 0

Input ==
  /\ pc = "input"
  /\ pc' = "top"
  /\ IF NoOffer /\ swiftLinkResponse = <<>> /\ AreCharsInInputBuffer
     THEN /\ inPos' = inPos + 1
          /\ swiftLinkResponse' = Offered(inBuf[inPos + 1])
          /\ owedIn' = IF swiftLinkResponse' = <<>> THEN Tail(owedIn) ELSE owedIn
     ELSE UNCHANGED <<inPos, swiftLinkResponse, owedIn>>
  /\ LET start == IF NoOffer /\ swiftLinkResponse' # <<>> THEN NMIDelay ELSE swiftLinkDoNMI
         left == IF start > 1 THEN start - 1 ELSE start
     IN  IF left = 1 /\ cmdInt
         THEN /\ swiftLinkDoNMI' = 0
              /\ keepNMILow' = NMILow
              /\ nmiLow' = TRUE
              /\ nmiPending' = (nmiPending \/ (~nmiLow /\ c64 = "run"))
         ELSE swiftLinkDoNMI' = left /\ UNCHANGED <<keepNMILow, nmiLow, nmiPending>>
  /\ UNCHANGED <<netDelay, irqVars, dmaVars, cmdInt, disableCart, outVars, inBuf,
                 modemVars, webVars, c64, resetSeen, program, handler,
                 boundVars>>

\* in the menu the user turns the modem on or off
SetModem ==
  /\ pc = "menu"
  /\ modemEmuType' = 1 - modemEmuType
  /\ UNCHANGED <<pc, loopVars, irqVars, swiftLinkResponse, dmaVars, cmdInt, disableCart,
                 nmiLow, outVars, inVars, modemVars, returnRequested, c64Vars, boundVars>>

\* KernelLaunchRun begins; not all of the state is new
Launch ==
  /\ pc = "menu"
  /\ pc' = "top"
  /\ netDelay' = NetDelay
  /\ swiftLinkDoNMI' = 0 /\ keepNMILow' = 0
  /\ fiqOn' = TRUE /\ swiftLinkEnabled' = FALSE
  /\ swiftLinkResponse' = <<>> /\ owedIn' = Unread
  /\ swiftLinknetDelayDMA' = DMADelay
  /\ cmdInt' = FALSE
  /\ disableCart' = FALSE
  /\ dmaLow' = FALSE /\ nmiLow' = FALSE
  /\ c64' = "run" /\ resetSeen' = FALSE
  /\ program' = "boot"
  /\ nmiPending' = FALSE /\ handler' = "idle"
  /\ UNCHANGED <<swiftLinkReleaseDMA, outVars, inBuf, inPos, modemVars, webVars, boundVars>>
----------------------------------------------------------------------------
Init ==
  /\ pc = "menu"
  /\ netDelay = NetDelay /\ swiftLinkDoNMI = 0 /\ keepNMILow = 0
  /\ fiqOn = FALSE /\ swiftLinkEnabled = FALSE
  /\ swiftLinkResponse = <<>>
  /\ swiftLinkReleaseDMA = FALSE /\ swiftLinknetDelayDMA = DMADelay
  /\ cmdInt = FALSE /\ disableCart = FALSE /\ dmaLow = FALSE /\ nmiLow = FALSE
  /\ outBuf = <<>> /\ outPos = 0 /\ inBuf = <<>> /\ inPos = 0
  /\ modemEmuType \in {0, 1}
  /\ commandLength = 0 /\ dialled = FALSE /\ connected = FALSE /\ firstReceive = FALSE
  /\ returnRequested = FALSE
  /\ c64 = "run" /\ resetSeen = FALSE /\ program = "boot"
  /\ nmiPending = FALSE /\ handler = "idle"
  /\ script \in Scripts /\ typed = 0 /\ remote = 0 /\ disturbances = 0
  /\ owedIn = <<>> /\ owedOut = <<>>

Terminal ==
  Look \/ ReadStatus \/ ReadData \/ WriteData \/ WriteCommand

MainLoop ==
  \/ LoopHead \/ Serve \/ (pc = "modem" /\ Modem) \/ Received \/ Reconnect
  \/ Release \/ SilentModem \/ EmptyLength \/ EmptyPos \/ Input

Menu == SetModem \/ Launch \/ (pc = "menu" /\ Modem)

Next ==
  \/ Terminal \/ Boot \/ Reset \/ ResetCycle \/ ReleaseReset
  \/ MainLoop \/ Menu \/ Remote

\* the main loop runs, the 6510 executes what it has begun, an NMI is taken;
\* nobody owes a byte, an upload, a reset or an answer
Fairness ==
  /\ WF_vars(MainLoop)
  /\ WF_vars(ResetCycle)
  /\ WF_vars(nmiPending /\ Look) /\ WF_vars(ReadStatus) /\ WF_vars(ReadData)

Spec == Init /\ [][Next]_vars /\ Fairness
----------------------------------------------------------------------------
(* Properties *)

ControlOK ==
  /\ pc \in {"top", "serve", "modem", "receive", "reconnect", "release", "silent",
             "emptyLength", "emptyPos", "input", "menu"}
  /\ netDelay \in Nat /\ swiftLinkDoNMI \in 0 .. NMIDelay /\ keepNMILow \in 0 .. NMILow
  /\ {fiqOn, swiftLinkEnabled, swiftLinkReleaseDMA, cmdInt, disableCart, dmaLow, nmiLow,
      dialled, connected, firstReceive, returnRequested, resetSeen,
      nmiPending} \subseteq BOOLEAN
  /\ swiftLinknetDelayDMA \in 0 .. DMADelay
  /\ modemEmuType \in {0, 1} /\ commandLength \in Nat
  /\ c64 \in {"run", "reset"} /\ program \in {"boot", "launched", "lost"}
  /\ handler \in {"idle", "status", "data"}

\* Every variable keeps the type its declaration in kernel_launch.cpp and
\* net.h gives it, with the read positions inside of their buffers.
TypeOK ==
  /\ ControlOK
  /\ Len(swiftLinkResponse) <= 1
  /\ inPos \in 0 .. Len(inBuf) /\ (pc # "emptyPos" => outPos \in 0 .. Len(outBuf))

\* What the modem has for the terminal reaches it once and in order, through
\* the input buffer, swiftLinkResponse and the reads of $DE00, whatever is
\* read, refused or offered again in between; only bytes of value 0 are lost,
\* when it is their turn.
InputInOrder == owedIn = swiftLinkResponse \o Unread

\* bytes of the terminal that the modem will still read
OutPending ==
  LET from == IF pc = "emptyPos" THEN 0 ELSE outPos IN
  [i \in 1 .. Len(outBuf) - from |-> outBuf[from + i].byte]

\* What the terminal writes reaches the modem once and in order, although the
\* FIQ handler adds to the buffer while the main loop reads and empties it:
\* only a byte that comes between its test and its emptying is lost.
OnlyRacedBytesLost ==
  owedOut = IF AboutToEmpty THEN <<>> ELSE OutPending

\* Both directions of the byte stream between the modem of the main loop and the
\* terminal behind the FIQ handler.
StreamsInOrder == InputInOrder /\ OnlyRacedBytesLost

\* The C64 is never halted for good: whatever happens to the FIQ handler, the
\* terminal or the connection, DMA is released again, unless the network code
\* itself waits for the first answer of a remote end that never comes.
HaltEnds == dmaLow ~> (~dmaLow \/ (pc = "receive" /\ firstReceive))

Interrupted ==
  \/ ~cmdInt \/ modemEmuType = 0 \/ program # "launched" \/ pc = "menu"
  \/ (pc = "receive" /\ firstReceive)

\* A byte that is offered to a terminal with receive interrupts is read: the
\* NMI line is released before it is pulled again, and a byte that has not
\* been read is offered with another edge.
ByteDelivered == (swiftLinkResponse # <<>> /\ cmdInt) ~> (swiftLinkResponse = <<>> \/ Interrupted)

\* Both: neither the halted C64 nor a terminal that relies on its NMI waits for ever.
NobodyWaits == HaltEnds /\ ByteDelivered
=============================================================================
