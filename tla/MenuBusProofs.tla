--------------------------- MODULE MenuBusProofs ---------------------------
(***************************************************************************)
(* Theorems about MenuBus, for every choice of keys, pages, cells, cycle    *)
(* counts and wires.  The handshake theorems hold with and without the      *)
(* network code; the last part is about the build without it.               *)
(*                                                                         *)
(* The argument goes in layers: types (TypeInv), then the handshake         *)
(* (HandshakeInv), then, without the network code, who may be waiting for   *)
(* whom (NoNetInv), what the screen holds (ScreenInv), and what the wire    *)
(* detection has come to (DetectionInv).  Each layer is preserved by every  *)
(* action, given the layers below it.  At last the layers together show     *)
(* that every step is one of MenuService, or none.                          *)
(***************************************************************************)
EXTENDS MenuBus, TLAPS

-----------------------------------------------------------------------------
(* Types.                                                                  *)

\* The type invariant is inductive once a client that copies is known to have a
\* cell left to copy.
CellLeft == cpc = "copy" => cell < Cells
TypeInv == TypeOK /\ CellLeft

\* Initially every variable has its type.
LEMMA TypesInit == Init => TypeInv
<1> SUFFICES ASSUME Init PROVE TypeInv
  OBVIOUS
<1>1. fiqOn \in BOOLEAN /\ keepNMILow \in BOOLEAN /\ launchKernel \in BOOLEAN
  BY Zenon DEF Init
<1>2. disableCart \in BOOLEAN /\ updateMenu \in BOOLEAN /\ doneWithHandling \in BOOLEAN
  BY Zenon DEF Init
<1>3. /\ wireKernalDetectMode \in BOOLEAN /\ wireKernalTrackAccess \in BOOLEAN
      /\ wireKernalAvailable \in BOOLEAN /\ kernalOff \in BOOLEAN
  BY Zenon DEF Init
<1>4. /\ wireSIDGotLow \in BOOLEAN /\ wireSIDGotHigh \in BOOLEAN
      /\ wireSIDAvailable \in BOOLEAN
  BY Zenon DEF Init
<1>5. dmaLow \in BOOLEAN /\ nmiLow \in BOOLEAN /\ nmiLatch \in BOOLEAN /\ nmiFlag \in BOOLEAN
  BY Zenon DEF Init
<1>6. Points /\ CellLeft
  BY SMT, TimingAssumption, ScreenAssumption DEF Init, Points, LoopPoints, ClientPoints, CellLeft
<1>9. LatchFlags
  BY Zenon DEF Init, LatchFlags
<1>7. lastChar \in Keys \cup {NoKey} /\ key \in Keys \cup {NoKey} /\ owed \in Keys \cup {NoKey}
  BY DEF Init
<1>8. menuScreen \in Contents /\ screen \in [0 .. Cells - 1 -> Cell]
  BY DEF Init, Cell
<1> QED
  BY <1>1, <1>2, <1>3, <1>4, <1>5, <1>6, <1>7, <1>8, <1>9 DEF TypeInv, TypeOK, Flags, Data

\* Every step keeps the flags Boolean.
LEMMA FlagsNext ==
  ASSUME Flags, LatchFlags, [Next]_vars
  PROVE  Flags'
<1>1. CASE Boot
  BY <1>1, SMT DEF Boot, Unserved, ClientKeeps, sharedVars, fiqVars, wireVars, wireKernal,
     wireSID, Flags
<1>2. CASE Report
  <2>1. UNCHANGED <<fiqOn, keepNMILow, launchKernel, disableCart, wireKernalDetectMode,
       wireKernalTrackAccess, wireKernalAvailable, kernalOff, nmiLow, nmiLatch,
       nmiFlag>>
    BY <1>2, SMT DEF Report, Unserved, ClientKeeps, sharedVars, fiqVars, wireVars,
       wireKernal, wireSID
  <2>2. /\ updateMenu' \in BOOLEAN /\ doneWithHandling' \in BOOLEAN
        /\ dmaLow' \in BOOLEAN /\ wireSIDGotLow' \in BOOLEAN
        /\ wireSIDGotHigh' \in BOOLEAN /\ wireSIDAvailable' \in BOOLEAN
    BY <1>2, Zenon DEF Report, Unserved, sharedVars, wireVars, wireSID, SeeOther, SeeSID,
       Ask, HaltIfAsked, Flags
  <2> QED
    BY <2>1, <2>2 DEF Flags
<1>3. CASE StartTransfer
  <2>1. UNCHANGED <<fiqOn, keepNMILow, launchKernel, disableCart, wireKernalDetectMode,
       wireKernalTrackAccess, wireKernalAvailable, kernalOff, nmiLow, nmiLatch,
       nmiFlag>>
    BY <1>3, SMT DEF StartTransfer, Rewind, Unserved, ClientKeeps, sharedVars, fiqVars,
       wireVars, wireKernal, wireSID
  <2>2. /\ updateMenu' \in BOOLEAN /\ doneWithHandling' \in BOOLEAN
        /\ dmaLow' \in BOOLEAN /\ wireSIDGotLow' \in BOOLEAN
        /\ wireSIDGotHigh' \in BOOLEAN /\ wireSIDAvailable' \in BOOLEAN
    BY <1>3, Zenon DEF StartTransfer, Rewind, Unserved, sharedVars, wireVars, wireSID,
       SeeOther, SeeSID, Ask, HaltIfAsked, Flags
  <2> QED
    BY <2>1, <2>2 DEF Flags
<1>4. CASE CopyCell
  <2>1. UNCHANGED <<fiqOn, keepNMILow, launchKernel, disableCart, updateMenu,
       doneWithHandling, wireKernalDetectMode, wireKernalTrackAccess,
       wireKernalAvailable, kernalOff, dmaLow, nmiLow, nmiLatch, nmiFlag>>
    BY <1>4, SMT DEF CopyCell, Unserved, ClientKeeps, sharedVars, fiqVars, wireVars,
       wireKernal, wireSID
  <2>2. /\ wireSIDGotLow' \in BOOLEAN /\ wireSIDGotHigh' \in BOOLEAN
        /\ wireSIDAvailable' \in BOOLEAN
    BY <1>4, Zenon DEF CopyCell, Unserved, wireVars, wireSID, SeeOther, SeeSID, Flags
  <2> QED
    BY <2>1, <2>2 DEF Flags
<1>5. CASE CallInjected
  <2>1. UNCHANGED <<fiqOn, keepNMILow, launchKernel, disableCart, updateMenu,
       doneWithHandling, wireKernalDetectMode, wireKernalTrackAccess,
       wireKernalAvailable, kernalOff, dmaLow, nmiLow, nmiLatch, nmiFlag>>
    BY <1>5, SMT DEF CallInjected, Unserved, ClientKeeps, sharedVars, fiqVars, wireVars,
       wireKernal, wireSID
  <2>2. /\ wireSIDGotLow' \in BOOLEAN /\ wireSIDGotHigh' \in BOOLEAN
        /\ wireSIDAvailable' \in BOOLEAN
    BY <1>5, Zenon DEF CallInjected, Unserved, wireVars, wireSID, SeeOther, SeeSID, Flags
  <2> QED
    BY <2>1, <2>2 DEF Flags
<1>6. CASE WireOn
  <2>1. UNCHANGED <<fiqOn, keepNMILow, launchKernel, disableCart, updateMenu,
       doneWithHandling, dmaLow, nmiLow, nmiLatch, nmiFlag>>
    BY <1>6, SMT DEF WireOn, Unserved, ClientKeeps, sharedVars, fiqVars, wireVars,
       wireKernal, wireSID
  <2>2. /\ wireKernalDetectMode' \in BOOLEAN /\ wireKernalTrackAccess' \in BOOLEAN
        /\ wireKernalAvailable' \in BOOLEAN /\ kernalOff' \in BOOLEAN
        /\ wireSIDGotLow' \in BOOLEAN /\ wireSIDGotHigh' \in BOOLEAN
        /\ wireSIDAvailable' \in BOOLEAN
    BY <1>6, Zenon DEF WireOn, Unserved, sharedVars, wireVars, wireKernal, wireSID,
       SeeOther, SeeSID, Flags
  <2> QED
    BY <2>1, <2>2 DEF Flags
<1>7. CASE WireKernalRead
  <2>1. UNCHANGED <<fiqOn, keepNMILow, launchKernel, disableCart, updateMenu,
       doneWithHandling, wireKernalDetectMode, wireKernalAvailable, kernalOff, dmaLow,
       nmiLow, nmiLatch, nmiFlag>>
    BY <1>7, SMT DEF WireKernalRead, Unserved, ClientKeeps, sharedVars, fiqVars, wireVars,
       wireKernal, wireSID
  <2>2. /\ wireKernalTrackAccess' \in BOOLEAN /\ wireSIDGotLow' \in BOOLEAN
        /\ wireSIDGotHigh' \in BOOLEAN /\ wireSIDAvailable' \in BOOLEAN
    BY <1>7, Zenon DEF WireKernalRead, Unserved, sharedVars, wireVars, wireKernal, wireSID,
       SeeOther, SeeSID, Flags
  <2> QED
    BY <2>1, <2>2 DEF Flags
<1>8. CASE WireOff
  <2>1. UNCHANGED <<fiqOn, keepNMILow, launchKernel, disableCart, updateMenu,
       doneWithHandling, wireKernalTrackAccess, dmaLow, nmiLow, nmiLatch, nmiFlag>>
    BY <1>8, SMT DEF WireOff, Detected, Unserved, ClientKeeps, sharedVars, fiqVars,
       wireVars, wireKernal, wireSID
  <2>2. /\ wireKernalDetectMode' \in BOOLEAN /\ wireKernalAvailable' \in BOOLEAN
        /\ kernalOff' \in BOOLEAN /\ wireSIDGotLow' \in BOOLEAN
        /\ wireSIDGotHigh' \in BOOLEAN /\ wireSIDAvailable' \in BOOLEAN
    BY <1>8, Zenon DEF WireOff, Detected, Unserved, sharedVars, wireVars, wireKernal,
       wireSID, SeeOther, SeeSID, Flags
  <2> QED
    BY <2>1, <2>2 DEF Flags
<1>9. CASE SIDAccess
  <2>1. UNCHANGED <<fiqOn, keepNMILow, launchKernel, disableCart, updateMenu,
       doneWithHandling, wireKernalDetectMode, wireKernalTrackAccess,
       wireKernalAvailable, kernalOff, dmaLow, nmiLow, nmiLatch, nmiFlag>>
    BY <1>9, SMT DEF SIDAccess, Unserved, ClientKeeps, sharedVars, fiqVars, wireVars,
       wireKernal, wireSID
  <2>2. /\ wireSIDGotLow' \in BOOLEAN /\ wireSIDGotHigh' \in BOOLEAN
        /\ wireSIDAvailable' \in BOOLEAN
    BY <1>9, Zenon DEF SIDAccess, Unserved, wireVars, wireSID, SeeOther, SeeSID, Flags
  <2> QED
    BY <2>1, <2>2 DEF Flags
<1>10. CASE SendKey
  <2>1. UNCHANGED <<fiqOn, keepNMILow, launchKernel, disableCart, wireKernalDetectMode,
       wireKernalTrackAccess, wireKernalAvailable, kernalOff, nmiLow, nmiLatch,
       nmiFlag>>
    BY <1>10, SMT DEF SendKey, Keypress, Unserved, ClientKeeps, sharedVars, fiqVars,
       wireVars, wireKernal, wireSID
  <2>2. /\ updateMenu' \in BOOLEAN /\ doneWithHandling' \in BOOLEAN
        /\ dmaLow' \in BOOLEAN /\ wireSIDGotLow' \in BOOLEAN
        /\ wireSIDGotHigh' \in BOOLEAN /\ wireSIDAvailable' \in BOOLEAN
    BY <1>10, Zenon DEF SendKey, Keypress, Unserved, sharedVars, wireVars, wireSID,
       SeeOther, SeeSID, Ask, HaltIfAsked, Flags
  <2> QED
    BY <2>1, <2>2 DEF Flags
<1>11. CASE PollNMI
  <2>1. UNCHANGED <<fiqOn, keepNMILow, launchKernel, disableCart, updateMenu,
       doneWithHandling, wireKernalDetectMode, wireKernalTrackAccess,
       wireKernalAvailable, kernalOff, wireSIDGotLow, wireSIDGotHigh, wireSIDAvailable,
       dmaLow, nmiLow, nmiLatch>>
    BY <1>11, SMT DEF PollNMI, loopVars, sharedVars, wireVars, wireKernal, wireSID
  <2>2. /\ nmiFlag' \in BOOLEAN
    BY <1>11, Zenon DEF PollNMI, Flags
  <2> QED
    BY <2>1, <2>2 DEF Flags
<1>12. CASE TakeNMI
  <2>1. UNCHANGED <<fiqOn, keepNMILow, launchKernel, disableCart, updateMenu,
       doneWithHandling, wireKernalDetectMode, wireKernalTrackAccess,
       wireKernalAvailable, kernalOff, wireSIDGotLow, wireSIDGotHigh, wireSIDAvailable,
       dmaLow, nmiLow>>
    BY <1>12, SMT DEF TakeNMI, loopVars, sharedVars, wireVars, wireKernal, wireSID
  <2>2. /\ nmiLatch' \in BOOLEAN /\ nmiFlag' \in BOOLEAN
    BY <1>12, Zenon DEF TakeNMI, Flags
  <2> QED
    BY <2>1, <2>2 DEF Flags
<1>13. CASE Leave
  <2>1. UNCHANGED <<keepNMILow, launchKernel, disableCart, updateMenu, doneWithHandling,
       wireKernalDetectMode, wireKernalTrackAccess, wireKernalAvailable, kernalOff,
       wireSIDGotLow, wireSIDGotHigh, wireSIDAvailable, dmaLow, nmiLow, nmiLatch,
       nmiFlag>>
    BY <1>13, SMT DEF Leave, sharedVars, wireVars, wireKernal, wireSID, clientVars
  <2>2. /\ fiqOn' \in BOOLEAN
    BY <1>13, Zenon DEF Leave, Flags
  <2> QED
    BY <2>1, <2>2 DEF Flags
<1>14. CASE Test
  <2>1. UNCHANGED <<launchKernel, disableCart, updateMenu, doneWithHandling,
       wireKernalDetectMode, wireKernalTrackAccess, wireKernalAvailable, kernalOff,
       dmaLow, nmiLatch, nmiFlag>>
    BY <1>14, SMT DEF Test, sharedVars, wireKernal, clientVars, Goto
  <2>2. /\ fiqOn' \in BOOLEAN /\ keepNMILow' \in BOOLEAN /\ nmiLow' \in BOOLEAN
        /\ wireSIDGotLow' \in BOOLEAN /\ wireSIDGotHigh' \in BOOLEAN
        /\ wireSIDAvailable' \in BOOLEAN
    BY <1>14, Zenon DEF Test, wireSID, Flags
  <2> QED
    BY <2>1, <2>2 DEF Flags
<1>15. CASE Handle
  <2>1. UNCHANGED <<fiqOn, keepNMILow, updateMenu, doneWithHandling,
       wireKernalDetectMode, wireKernalTrackAccess, wireKernalAvailable, wireSIDGotLow,
       wireSIDGotHigh, wireSIDAvailable>>
    BY <1>15, SMT DEF Handle, HandleC64, KernalBack, wireKernal, wireSID, clientVars
  <2>2. /\ launchKernel' \in BOOLEAN /\ kernalOff' \in BOOLEAN
        /\ nmiLatch' \in BOOLEAN /\ nmiFlag' \in BOOLEAN /\ dmaLow' \in BOOLEAN
        /\ nmiLow' \in BOOLEAN /\ disableCart' \in BOOLEAN
    BY <1>15, Zenon DEF Handle, HandleC64, KernalBack, wireKernal, ResetClient, clientVars,
       Flags
  <2> QED
    BY <2>1, <2>2 DEF Flags
<1>16. CASE HandleWithNetwork
  <2>1. UNCHANGED <<keepNMILow, updateMenu, doneWithHandling, wireKernalDetectMode,
       wireKernalTrackAccess, wireKernalAvailable, wireSIDGotLow, wireSIDGotHigh,
       wireSIDAvailable>>
    BY <1>16, SMT DEF HandleWithNetwork, HandleC64, KernalBack, wireKernal, wireSID,
       clientVars
  <2>2. /\ fiqOn' \in BOOLEAN /\ launchKernel' \in BOOLEAN
        /\ kernalOff' \in BOOLEAN /\ nmiLatch' \in BOOLEAN /\ nmiFlag' \in BOOLEAN
        /\ dmaLow' \in BOOLEAN /\ nmiLow' \in BOOLEAN /\ disableCart' \in BOOLEAN
    BY <1>16, Zenon DEF HandleWithNetwork, HandleC64, KernalBack, wireKernal, ResetClient,
       clientVars, Flags
  <2> QED
    BY <2>1, <2>2 DEF Flags
<1>17. CASE MarkDone
  <2>1. UNCHANGED <<fiqOn, keepNMILow, launchKernel, disableCart, updateMenu,
       wireKernalDetectMode, wireKernalTrackAccess, wireKernalAvailable, kernalOff,
       wireSIDGotLow, wireSIDGotHigh, wireSIDAvailable, dmaLow, nmiLow, nmiLatch,
       nmiFlag>>
    BY <1>17, SMT DEF MarkDone, Done, wireVars, wireKernal, wireSID, clientVars
  <2>2. /\ doneWithHandling' \in BOOLEAN
    BY <1>17, Zenon DEF MarkDone, Done, Flags
  <2> QED
    BY <2>1, <2>2 DEF Flags
<1>18. CASE ClearRequest
  <2>1. UNCHANGED <<fiqOn, launchKernel, disableCart, doneWithHandling,
       wireKernalDetectMode, wireKernalTrackAccess, wireKernalAvailable, kernalOff,
       wireSIDGotLow, wireSIDGotHigh, wireSIDAvailable, dmaLow, nmiLow, nmiLatch,
       nmiFlag>>
    BY <1>18, SMT DEF ClearRequest, KeepNMI, wireVars, wireKernal, wireSID, clientVars
  <2>2. /\ updateMenu' \in BOOLEAN /\ keepNMILow' \in BOOLEAN
    BY <1>18, Zenon DEF ClearRequest, KeepNMI, Flags
  <2> QED
    BY <2>1, <2>2 DEF Flags
<1>19. CASE RefreshBegin
  <2>1. UNCHANGED <<keepNMILow, launchKernel, disableCart, wireKernalDetectMode,
       wireKernalTrackAccess, wireKernalAvailable, kernalOff, wireSIDGotLow,
       wireSIDGotHigh, wireSIDAvailable, dmaLow, nmiLow, nmiLatch, nmiFlag>>
    BY <1>19, SMT DEF RefreshBegin, wireVars, wireKernal, wireSID, clientVars
  <2>2. /\ fiqOn' \in BOOLEAN /\ updateMenu' \in BOOLEAN
        /\ doneWithHandling' \in BOOLEAN
    BY <1>19, Zenon DEF RefreshBegin, Flags
  <2> QED
    BY <2>1, <2>2 DEF Flags
<1>20. CASE RefreshRender
  <2>1. UNCHANGED <<keepNMILow, launchKernel, disableCart, updateMenu, doneWithHandling,
       wireKernalDetectMode, wireKernalTrackAccess, wireKernalAvailable, kernalOff,
       wireSIDGotLow, wireSIDGotHigh, wireSIDAvailable, dmaLow, nmiLow, nmiLatch,
       nmiFlag>>
    BY <1>20, SMT DEF RefreshRender, sharedVars, wireVars, wireKernal, wireSID, clientVars
  <2>2. /\ fiqOn' \in BOOLEAN
    BY <1>20, Zenon DEF RefreshRender, Flags
  <2> QED
    BY <2>1, <2>2 DEF Flags
<1>21. CASE SignalC64
  <2>1. UNCHANGED <<fiqOn, launchKernel, disableCart, updateMenu, doneWithHandling,
       wireKernalDetectMode, wireKernalTrackAccess, wireKernalAvailable, kernalOff,
       wireSIDGotLow, wireSIDGotHigh, wireSIDAvailable, dmaLow, nmiFlag>>
    BY <1>21, SMT DEF SignalC64, PullNMI, KeepNMI, sharedVars, wireVars, wireKernal, wireSID
  <2>2. /\ keepNMILow' \in BOOLEAN /\ nmiLow' \in BOOLEAN /\ nmiLatch' \in BOOLEAN
    BY <1>21, Zenon DEF SignalC64, PullNMI, KeepNMI, Flags
  <2> QED
    BY <2>1, <2>2 DEF Flags
<1>22. CASE TreatCaches
  <2>1. UNCHANGED <<keepNMILow, launchKernel, disableCart, updateMenu, doneWithHandling,
       wireKernalDetectMode, wireKernalTrackAccess, wireKernalAvailable, kernalOff,
       wireSIDGotLow, wireSIDGotHigh, wireSIDAvailable, dmaLow, nmiLow, nmiLatch,
       nmiFlag>>
    BY <1>22, SMT DEF TreatCaches, sharedVars, wireVars, wireKernal, wireSID, clientVars
  <2>2. /\ fiqOn' \in BOOLEAN
    BY <1>22, Zenon DEF TreatCaches, Flags
  <2> QED
    BY <2>1, <2>2 DEF Flags
<1>23. CASE NetworkDue
  <2>1. UNCHANGED <<keepNMILow, launchKernel, disableCart, updateMenu, doneWithHandling,
       wireKernalDetectMode, wireKernalTrackAccess, wireKernalAvailable, kernalOff,
       wireSIDGotLow, wireSIDGotHigh, wireSIDAvailable, dmaLow, nmiLow, nmiLatch,
       nmiFlag>>
    BY <1>23, SMT DEF NetworkDue, NetworkGuard, sharedVars, wireVars, wireKernal, wireSID,
       clientVars
  <2>2. /\ fiqOn' \in BOOLEAN
    BY <1>23, Zenon DEF NetworkDue, NetworkGuard, Flags
  <2> QED
    BY <2>1, <2>2 DEF Flags
<1>24. CASE PollNetwork
  <2>1. UNCHANGED <<disableCart, updateMenu, doneWithHandling, wireKernalDetectMode,
       wireKernalTrackAccess, wireKernalAvailable, kernalOff, wireSIDGotLow,
       wireSIDGotHigh, wireSIDAvailable, dmaLow, nmiLow, nmiLatch, nmiFlag>>
    BY <1>24, SMT DEF PollNetwork, KeepNMI, wireVars, wireKernal, wireSID, clientVars
  <2>2. /\ fiqOn' \in BOOLEAN /\ launchKernel' \in BOOLEAN
        /\ keepNMILow' \in BOOLEAN
    BY <1>24, Zenon DEF PollNetwork, KeepNMI, Flags
  <2> QED
    BY <2>1, <2>2 DEF Flags
<1>25. CASE Relaunch
  <2>1. UNCHANGED <<disableCart, doneWithHandling>>
    BY <1>25, SMT DEF Relaunch
  <2>2. /\ fiqOn' \in BOOLEAN /\ keepNMILow' \in BOOLEAN
        /\ launchKernel' \in BOOLEAN /\ updateMenu' \in BOOLEAN
        /\ wireKernalDetectMode' \in BOOLEAN /\ wireKernalTrackAccess' \in BOOLEAN
        /\ wireKernalAvailable' \in BOOLEAN /\ kernalOff' \in BOOLEAN
        /\ wireSIDGotLow' \in BOOLEAN /\ wireSIDGotHigh' \in BOOLEAN
        /\ wireSIDAvailable' \in BOOLEAN /\ dmaLow' \in BOOLEAN
        /\ nmiLow' \in BOOLEAN /\ nmiLatch' \in BOOLEAN /\ nmiFlag' \in BOOLEAN
    BY <1>25, Zenon DEF Relaunch, ResetClient, Flags
  <2> QED
    BY <2>1, <2>2 DEF Flags
<1>26. CASE Button
  <2>1. UNCHANGED <<fiqOn, keepNMILow, launchKernel, updateMenu, doneWithHandling,
       wireKernalDetectMode, wireKernalTrackAccess, wireKernalAvailable, wireSIDGotLow,
       wireSIDGotHigh, wireSIDAvailable>>
    BY <1>26, SMT DEF Button, loopVars, sharedVars, wireSID, KernalBack
  <2>2. /\ kernalOff' \in BOOLEAN /\ nmiLatch' \in BOOLEAN /\ nmiFlag' \in BOOLEAN
        /\ dmaLow' \in BOOLEAN /\ nmiLow' \in BOOLEAN /\ disableCart' \in BOOLEAN
    BY <1>26, Zenon DEF Button, KernalBack, ResetClient, Flags
  <2> QED
    BY <2>1, <2>2 DEF Flags
<1>27. CASE VICCycle
  <2>1. UNCHANGED <<fiqOn, keepNMILow, launchKernel, disableCart, updateMenu,
       doneWithHandling, wireKernalDetectMode, wireKernalTrackAccess,
       wireKernalAvailable, kernalOff, nmiLow, nmiLatch, nmiFlag>>
    BY <1>27, SMT DEF VICCycle, CountDown, sharedVars, wireKernal, clientVars
  <2>2. /\ dmaLow' \in BOOLEAN /\ wireSIDGotLow' \in BOOLEAN
        /\ wireSIDGotHigh' \in BOOLEAN /\ wireSIDAvailable' \in BOOLEAN
    BY <1>27, Zenon DEF VICCycle, CountDown, SeeOther, SeeSID, Flags
  <2> QED
    BY <2>1, <2>2 DEF Flags
<1>28. CASE \E k \in Keys : PollKey(k)
  BY <1>28, SMT DEF PollKey, loopVars, sharedVars, wireVars, wireKernal, wireSID, Flags
<1>29. CASE UNCHANGED vars
  BY <1>29, SMT DEF vars, loopVars, sharedVars, wireVars, wireKernal, wireSID, clientVars,
     Flags
<1>30. CASE C64Reset
  <2>1. UNCHANGED <<fiqOn, keepNMILow, launchKernel, disableCart, updateMenu, doneWithHandling,
       wireKernalDetectMode, wireKernalTrackAccess, wireKernalAvailable, kernalOff,
       wireSIDGotLow, wireSIDGotHigh, wireSIDAvailable, dmaLow, nmiLow>>
    BY <1>30, SMT DEF C64Reset, sharedVars, wireVars, wireKernal, wireSID
  <2>2. nmiLatch' \in BOOLEAN /\ nmiFlag' \in BOOLEAN
    BY <1>30, Zenon DEF C64Reset, ResetClient
  <2> QED
    BY <2>1, <2>2 DEF Flags
<1>31. CASE CrashingInterrupt
  BY <1>31, SMT DEF CrashingInterrupt, loopVars, sharedVars, wireVars, wireKernal, wireSID, Flags
<1>32. CASE Restore
  <2>1. UNCHANGED <<fiqOn, keepNMILow, launchKernel, disableCart, updateMenu, doneWithHandling,
       wireKernalDetectMode, wireKernalTrackAccess, wireKernalAvailable, kernalOff,
       wireSIDGotLow, wireSIDGotHigh, wireSIDAvailable, dmaLow, nmiLow, nmiFlag>>
    BY <1>32, SMT DEF Restore, loopVars, sharedVars, wireVars, wireKernal, wireSID
  <2>2. nmiLatch' \in BOOLEAN
    BY <1>32, Zenon DEF Restore
  <2> QED
    BY <2>1, <2>2 DEF Flags
<1>33. CASE BlinkLoad
  BY <1>33, SMT DEF BlinkLoad, sharedVars, wireVars, wireKernal, wireSID, clientVars, Flags
<1>34. CASE BlinkStore
  <2>1. UNCHANGED <<fiqOn, keepNMILow, launchKernel, disableCart, updateMenu, doneWithHandling,
       wireKernalDetectMode, wireKernalTrackAccess, wireKernalAvailable,
       wireSIDGotLow, wireSIDGotHigh, wireSIDAvailable, dmaLow, nmiLow, nmiLatch, nmiFlag>>
    BY <1>34, SMT DEF BlinkStore, sharedVars, wireSID, clientVars
  <2>2. kernalOff' \in BOOLEAN
    BY <1>34, Zenon DEF BlinkStore, LatchFlags
  <2> QED
    BY <2>1, <2>2 DEF Flags
<1> QED
  BY <1>1, <1>2, <1>3, <1>4, <1>5, <1>6, <1>7, <1>8, <1>9, <1>10, <1>11, <1>12, <1>13,
     <1>14, <1>15, <1>16, <1>17, <1>18, <1>19, <1>20, <1>21, <1>22, <1>23, <1>24, <1>25,
     <1>26, <1>27, <1>28, <1>29, <1>30, <1>31, <1>32, <1>33, <1>34 DEF Next, Client, MainLoop,
     User

\* Every step keeps the bits of the latch Boolean.
LEMMA LatchFlagsNext ==
  ASSUME Flags, LatchFlags, [Next]_vars
  PROVE  LatchFlags'
<1>1. CASE UNCHANGED <<kernalAway, raced>> /\ latchRead' \in {latchRead, FALSE}
  BY <1>1, Zenon DEF LatchFlags
<1>2. CASE kernalAway' = FALSE /\ raced' = FALSE /\ latchRead' \in {latchRead, FALSE}
  BY <1>2, Zenon DEF LatchFlags
<1>3. CASE Boot \/ Report \/ StartTransfer \/ CopyCell \/ CallInjected \/ WireKernalRead
           \/ SIDAccess \/ SendKey
  BY <1>1, <1>3, Zenon DEF Boot, Report, StartTransfer, CopyCell, CallInjected, WireKernalRead,
     SIDAccess, SendKey, CPUCycle, BusCycle, Unserved, wireVars, wireKernal
<1>4. CASE WireOn
  BY <1>1, <1>4, Zenon DEF WireOn, CPUCycle, BusCycle, Unserved, wireVars, wireKernal, LatchFlags
<1>5. CASE WireOff
  BY <1>1, <1>2, <1>5, Zenon DEF WireOff, Detected, CPUCycle, BusCycle, Unserved, wireVars,
     wireKernal
<1>6. CASE PollNMI \/ TakeNMI \/ CrashingInterrupt \/ Restore \/ (\E k \in Keys : PollKey(k))
           \/ UNCHANGED vars
  BY <1>1, <1>6, Zenon DEF PollNMI, TakeNMI, CrashingInterrupt, Restore, PollKey, vars, loopVars,
     wireVars, wireKernal
<1>7. CASE Leave \/ Test \/ MarkDone \/ ClearRequest \/ RefreshBegin \/ RefreshRender
           \/ SignalC64 \/ TreatCaches \/ NetworkDue \/ PollNetwork
  BY <1>1, <1>7, Zenon DEF Leave, Test, MarkDone, ClearRequest, RefreshBegin, RefreshRender,
     SignalC64, TreatCaches, NetworkDue, PollNetwork, Goto, wireVars, wireKernal
<1>8. CASE Handle \/ HandleWithNetwork
  BY <1>1, <1>2, <1>8, Zenon DEF Handle, HandleWithNetwork, HandleC64, KernalBack, Goto, wireKernal
<1>9. CASE BlinkLoad
  BY <1>9, Zenon DEF BlinkLoad, Flags, LatchFlags, wireVars, wireKernal
<1>10. CASE BlinkStore
  BY <1>10, Zenon DEF BlinkStore, Goto, LatchFlags
<1>11. CASE Relaunch \/ Button
  BY <1>2, <1>11, Zenon DEF Relaunch, Button, KernalBack, BusCycle, Goto
<1>12. CASE C64Reset
  BY <1>1, <1>12, Zenon DEF C64Reset, BusCycle, wireVars, wireKernal
<1>13. CASE VICCycle
  BY <1>13, Zenon DEF VICCycle, OutputLatch, BusCycle, Flags, LatchFlags
<1> QED
  BY <1>3, <1>4, <1>5, <1>6, <1>7, <1>8, <1>9, <1>10, <1>11, <1>12, <1>13 DEF Next, Client,
     MainLoop, User

\* Every step keeps control and counters in range: the countdown does not pass zero,
\* the transfer does not run past the screen, the client does not copy past it.
LEMMA PointsNext ==
  ASSUME Points, CellLeft, [Next]_vars
  PROVE  Points' /\ CellLeft'
<1>1. CASE Boot
  BY <1>1, SMT, TimingAssumption, ScreenAssumption DEF Boot, Unserved, ClientKeeps,
     CPUCycle, BusCycle, sharedVars, fiqVars, clientVars, Points, CellLeft, LoopPoints,
     ClientPoints, Rendering, BetweenStores
<1>2. CASE Report
  BY <1>2, SMT, TimingAssumption, ScreenAssumption DEF Report, Unserved, ClientKeeps,
     CPUCycle, BusCycle, Ask, HaltIfAsked, sharedVars, fiqVars, clientVars, Points,
     CellLeft, LoopPoints, ClientPoints, Rendering, BetweenStores
<1>3. CASE StartTransfer
  BY <1>3, SMT, TimingAssumption, ScreenAssumption DEF StartTransfer, Rewind, Unserved,
     ClientKeeps, CPUCycle, BusCycle, Ask, HaltIfAsked, sharedVars, fiqVars, clientVars,
     Points, CellLeft, LoopPoints, ClientPoints, Rendering, BetweenStores
<1>4. CASE CopyCell
  BY <1>4, SMT, TimingAssumption, ScreenAssumption DEF CopyCell, Unserved, ClientKeeps,
     CPUCycle, BusCycle, sharedVars, fiqVars, clientVars, Points, CellLeft, LoopPoints,
     ClientPoints, Rendering, BetweenStores
<1>5. CASE CallInjected
  BY <1>5, SMT, TimingAssumption, ScreenAssumption DEF CallInjected, Unserved, ClientKeeps,
     CPUCycle, BusCycle, sharedVars, fiqVars, clientVars, Points, CellLeft, LoopPoints,
     ClientPoints, Rendering, BetweenStores
<1>6. CASE WireOn
  BY <1>6, SMT, TimingAssumption, ScreenAssumption DEF WireOn, Unserved, ClientKeeps,
     CPUCycle, BusCycle, sharedVars, fiqVars, clientVars, Points, CellLeft, LoopPoints,
     ClientPoints, Rendering, BetweenStores
<1>7. CASE WireKernalRead
  BY <1>7, SMT, TimingAssumption, ScreenAssumption DEF WireKernalRead, Unserved,
     ClientKeeps, CPUCycle, BusCycle, sharedVars, fiqVars, clientVars, Points, CellLeft,
     LoopPoints, ClientPoints, Rendering, BetweenStores
<1>8. CASE WireOff
  BY <1>8, SMT, TimingAssumption, ScreenAssumption DEF WireOff, Detected, Unserved,
     ClientKeeps, CPUCycle, BusCycle, sharedVars, fiqVars, clientVars, Points, CellLeft,
     LoopPoints, ClientPoints, Rendering, BetweenStores
<1>9. CASE SIDAccess
  BY <1>9, SMT, TimingAssumption, ScreenAssumption DEF SIDAccess, Unserved, ClientKeeps,
     CPUCycle, BusCycle, sharedVars, fiqVars, clientVars, Points, CellLeft, LoopPoints,
     ClientPoints, Rendering, BetweenStores
<1>10. CASE SendKey
  BY <1>10, SMT, TimingAssumption, ScreenAssumption DEF SendKey, Keypress, Unserved,
     ClientKeeps, CPUCycle, BusCycle, Ask, HaltIfAsked, sharedVars, fiqVars, clientVars,
     Points, CellLeft, LoopPoints, ClientPoints, Rendering, BetweenStores
<1>11. CASE PollNMI
  BY <1>11, SMT, TimingAssumption, ScreenAssumption DEF PollNMI, loopVars, sharedVars,
     fiqVars, clientVars, Points, CellLeft, LoopPoints, ClientPoints, Rendering,
     BetweenStores
<1>12. CASE TakeNMI
  BY <1>12, SMT, TimingAssumption, ScreenAssumption DEF TakeNMI, loopVars, sharedVars,
     fiqVars, clientVars, Points, CellLeft, LoopPoints, ClientPoints, Rendering,
     BetweenStores
<1>13. CASE Leave
  BY <1>13, SMT, TimingAssumption, ScreenAssumption DEF Leave, Goto, sharedVars, fiqVars,
     clientVars, Points, CellLeft, LoopPoints, ClientPoints, Rendering, BetweenStores
<1>14. CASE Test
  BY <1>14, SMT, TimingAssumption, ScreenAssumption DEF Test, Goto, sharedVars, fiqVars,
     clientVars, Points, CellLeft, LoopPoints, ClientPoints, Rendering, BetweenStores
<1>15. CASE Handle
  BY <1>15, SMT, TimingAssumption, ScreenAssumption DEF Handle, HandleC64, ResetClient,
     Goto, sharedVars, fiqVars, clientVars, Points, CellLeft, LoopPoints, ClientPoints,
     Rendering, BetweenStores
<1>16. CASE HandleWithNetwork
  BY <1>16, SMT, TimingAssumption, ScreenAssumption DEF HandleWithNetwork, HandleC64,
     ResetClient, Goto, sharedVars, fiqVars, clientVars, Points, CellLeft, LoopPoints,
     ClientPoints, Rendering, BetweenStores
<1>17. CASE MarkDone
  BY <1>17, SMT, TimingAssumption, ScreenAssumption DEF MarkDone, Done, Goto, sharedVars,
     fiqVars, clientVars, Points, CellLeft, LoopPoints, ClientPoints, Rendering,
     BetweenStores
<1>18. CASE ClearRequest
  BY <1>18, SMT, TimingAssumption, ScreenAssumption DEF ClearRequest, KeepNMI, Goto,
     sharedVars, fiqVars, clientVars, Points, CellLeft, LoopPoints, ClientPoints, Rendering,
     BetweenStores
<1>19. CASE RefreshBegin
  BY <1>19, SMT, TimingAssumption, ScreenAssumption DEF RefreshBegin, Goto, sharedVars,
     fiqVars, clientVars, Points, CellLeft, LoopPoints, ClientPoints, Rendering,
     BetweenStores
<1>20. CASE RefreshRender
  BY <1>20, SMT, TimingAssumption, ScreenAssumption DEF RefreshRender, Goto, sharedVars,
     fiqVars, clientVars, Points, CellLeft, LoopPoints, ClientPoints, Rendering,
     BetweenStores
<1>21. CASE SignalC64
  BY <1>21, SMT, TimingAssumption, ScreenAssumption DEF SignalC64, PullNMI, KeepNMI, Goto,
     sharedVars, fiqVars, clientVars, Points, CellLeft, LoopPoints, ClientPoints, Rendering,
     BetweenStores
<1>22. CASE TreatCaches
  BY <1>22, SMT, TimingAssumption, ScreenAssumption DEF TreatCaches, Goto, sharedVars,
     fiqVars, clientVars, Points, CellLeft, LoopPoints, ClientPoints, Rendering,
     BetweenStores
<1>23. CASE NetworkDue
  BY <1>23, SMT, TimingAssumption, ScreenAssumption DEF NetworkDue, NetworkGuard, Goto,
     sharedVars, fiqVars, clientVars, Points, CellLeft, LoopPoints, ClientPoints, Rendering,
     BetweenStores
<1>24. CASE PollNetwork
  BY <1>24, SMT, TimingAssumption, ScreenAssumption DEF PollNetwork, KeepNMI, Goto,
     sharedVars, fiqVars, clientVars, Points, CellLeft, LoopPoints, ClientPoints, Rendering,
     BetweenStores
<1>25. CASE Relaunch
  BY <1>25, SMT, TimingAssumption, ScreenAssumption DEF Relaunch, ResetClient, Goto,
     sharedVars, fiqVars, clientVars, Points, CellLeft, LoopPoints, ClientPoints, Rendering,
     BetweenStores
<1>26. CASE Button
  BY <1>26, SMT, TimingAssumption, ScreenAssumption DEF Button, BusCycle, ResetClient,
     loopVars, sharedVars, fiqVars, clientVars, Points, CellLeft, LoopPoints, ClientPoints,
     Rendering, BetweenStores
<1>27. CASE VICCycle
  BY <1>27, SMT, TimingAssumption, ScreenAssumption DEF VICCycle, CountDown, BusCycle,
     sharedVars, fiqVars, clientVars, Points, CellLeft, LoopPoints, ClientPoints, Rendering,
     BetweenStores
<1>28. CASE \E k \in Keys : PollKey(k)
  BY <1>28, SMT, TimingAssumption, ScreenAssumption DEF PollKey, loopVars, sharedVars,
     fiqVars, clientVars, Points, CellLeft, LoopPoints, ClientPoints, Rendering,
     BetweenStores
<1>29. CASE UNCHANGED vars
  BY <1>29, SMT DEF vars, loopVars, sharedVars, fiqVars, clientVars, Points, CellLeft,
     LoopPoints, ClientPoints, Rendering, BetweenStores
<1>30. CASE C64Reset
  BY <1>30, SMT, TimingAssumption, ScreenAssumption DEF C64Reset, ResetClient, BusCycle, sharedVars, fiqVars, clientVars,
     Points, CellLeft, LoopPoints, ClientPoints, Rendering, BetweenStores
<1>31. CASE CrashingInterrupt
  BY <1>31, SMT, TimingAssumption, ScreenAssumption DEF CrashingInterrupt, Stopped, NoKernal, loopVars, sharedVars, fiqVars, clientVars,
     Points, CellLeft, LoopPoints, ClientPoints, Rendering, BetweenStores
<1>32. CASE Restore
  BY <1>32, SMT, TimingAssumption, ScreenAssumption DEF Restore, Stopped, loopVars, sharedVars, fiqVars, clientVars,
     Points, CellLeft, LoopPoints, ClientPoints, Rendering, BetweenStores
<1>33. CASE BlinkLoad
  BY <1>33, SMT, TimingAssumption, ScreenAssumption DEF BlinkLoad, sharedVars, fiqVars, clientVars,
     Points, CellLeft, LoopPoints, ClientPoints, Rendering, BetweenStores
<1>34. CASE BlinkStore
  BY <1>34, SMT, TimingAssumption, ScreenAssumption DEF BlinkStore, Goto, sharedVars, fiqVars, clientVars,
     Points, CellLeft, LoopPoints, ClientPoints, Rendering, BetweenStores
<1> QED
  BY <1>1, <1>2, <1>3, <1>4, <1>5, <1>6, <1>7, <1>8, <1>9, <1>10, <1>11, <1>12, <1>13,
     <1>14, <1>15, <1>16, <1>17, <1>18, <1>19, <1>20, <1>21, <1>22, <1>23, <1>24, <1>25,
     <1>26, <1>27, <1>28, <1>29, <1>30, <1>31, <1>32, <1>33, <1>34 DEF Next, Client, MainLoop,
     User

\* Every step keeps keys, pages and the C64 screen what they are.
LEMMA DataNext ==
  ASSUME Points, CellLeft, Data, [Next]_vars
  PROVE  Data'
<1>1. CASE Boot
  BY <1>1, SMT, ScreenAssumption DEF Boot, Unserved, ClientKeeps, CPUCycle, BusCycle,
     sharedVars, fiqVars, clientVars, Data, CellLeft, Points, Cell, RenderC64, CharHandled
<1>2. CASE Report
  BY <1>2, SMT, ScreenAssumption DEF Report, Unserved, ClientKeeps, CPUCycle, BusCycle, Ask,
     HaltIfAsked, sharedVars, fiqVars, clientVars, Data, CellLeft, Points, Cell, RenderC64,
     CharHandled
<1>3. CASE StartTransfer
  BY <1>3, SMT, ScreenAssumption DEF StartTransfer, Rewind, Unserved, ClientKeeps, CPUCycle,
     BusCycle, Ask, HaltIfAsked, sharedVars, fiqVars, clientVars, Data, CellLeft, Points,
     Cell, RenderC64, CharHandled
<1>4. CASE CopyCell
  BY <1>4, SMT, ScreenAssumption DEF CopyCell, Unserved, ClientKeeps, CPUCycle, BusCycle,
     sharedVars, fiqVars, clientVars, Data, CellLeft, Points, Cell, RenderC64, CharHandled
<1>5. CASE CallInjected
  BY <1>5, SMT, ScreenAssumption DEF CallInjected, Unserved, ClientKeeps, CPUCycle,
     BusCycle, sharedVars, fiqVars, clientVars, Data, CellLeft, Points, Cell, RenderC64,
     CharHandled
<1>6. CASE WireOn
  BY <1>6, SMT, ScreenAssumption DEF WireOn, Unserved, ClientKeeps, CPUCycle, BusCycle,
     sharedVars, fiqVars, clientVars, Data, CellLeft, Points, Cell, RenderC64, CharHandled
<1>7. CASE WireKernalRead
  BY <1>7, SMT, ScreenAssumption DEF WireKernalRead, Unserved, ClientKeeps, CPUCycle,
     BusCycle, sharedVars, fiqVars, clientVars, Data, CellLeft, Points, Cell, RenderC64,
     CharHandled
<1>8. CASE WireOff
  BY <1>8, SMT, ScreenAssumption DEF WireOff, Detected, Unserved, ClientKeeps, CPUCycle,
     BusCycle, sharedVars, fiqVars, clientVars, Data, CellLeft, Points, Cell, RenderC64,
     CharHandled
<1>9. CASE SIDAccess
  BY <1>9, SMT, ScreenAssumption DEF SIDAccess, Unserved, ClientKeeps, CPUCycle, BusCycle,
     sharedVars, fiqVars, clientVars, Data, CellLeft, Points, Cell, RenderC64, CharHandled
<1>10. CASE SendKey
  BY <1>10, SMT, ScreenAssumption DEF SendKey, Keypress, Unserved, ClientKeeps, CPUCycle,
     BusCycle, Ask, HaltIfAsked, sharedVars, fiqVars, clientVars, Data, CellLeft, Points,
     Cell, RenderC64, CharHandled
<1>11. CASE PollNMI
  BY <1>11, SMT, ScreenAssumption DEF PollNMI, loopVars, sharedVars, fiqVars, clientVars,
     Data, CellLeft, Points, Cell, RenderC64, CharHandled
<1>12. CASE TakeNMI
  BY <1>12, SMT, ScreenAssumption DEF TakeNMI, loopVars, sharedVars, fiqVars, clientVars,
     Data, CellLeft, Points, Cell, RenderC64, CharHandled
<1>13. CASE Leave
  BY <1>13, SMT, ScreenAssumption DEF Leave, Goto, sharedVars, fiqVars, clientVars, Data,
     CellLeft, Points, Cell, RenderC64, CharHandled
<1>14. CASE Test
  BY <1>14, SMT, ScreenAssumption DEF Test, Goto, sharedVars, fiqVars, clientVars, Data,
     CellLeft, Points, Cell, RenderC64, CharHandled
<1>15. CASE Handle
  BY <1>15, SMT, ScreenAssumption DEF Handle, HandleC64, ResetClient, Goto, sharedVars,
     fiqVars, clientVars, Data, CellLeft, Points, Cell, RenderC64, CharHandled
<1>16. CASE HandleWithNetwork
  BY <1>16, SMT, ScreenAssumption DEF HandleWithNetwork, HandleC64, ResetClient, Goto,
     sharedVars, fiqVars, clientVars, Data, CellLeft, Points, Cell, RenderC64, CharHandled
<1>17. CASE MarkDone
  BY <1>17, SMT, ScreenAssumption DEF MarkDone, Done, Goto, sharedVars, fiqVars, clientVars,
     Data, CellLeft, Points, Cell, RenderC64, CharHandled
<1>18. CASE ClearRequest
  BY <1>18, SMT, ScreenAssumption DEF ClearRequest, KeepNMI, Goto, sharedVars, fiqVars,
     clientVars, Data, CellLeft, Points, Cell, RenderC64, CharHandled
<1>19. CASE RefreshBegin
  BY <1>19, SMT, ScreenAssumption DEF RefreshBegin, Goto, sharedVars, fiqVars, clientVars,
     Data, CellLeft, Points, Cell, RenderC64, CharHandled
<1>20. CASE RefreshRender
  BY <1>20, SMT, ScreenAssumption DEF RefreshRender, Goto, sharedVars, fiqVars, clientVars,
     Data, CellLeft, Points, Cell, RenderC64, CharHandled
<1>21. CASE SignalC64
  BY <1>21, SMT, ScreenAssumption DEF SignalC64, PullNMI, KeepNMI, Goto, sharedVars,
     fiqVars, clientVars, Data, CellLeft, Points, Cell, RenderC64, CharHandled
<1>22. CASE TreatCaches
  BY <1>22, SMT, ScreenAssumption DEF TreatCaches, Goto, sharedVars, fiqVars, clientVars,
     Data, CellLeft, Points, Cell, RenderC64, CharHandled
<1>23. CASE NetworkDue
  BY <1>23, SMT, ScreenAssumption DEF NetworkDue, NetworkGuard, Goto, sharedVars, fiqVars,
     clientVars, Data, CellLeft, Points, Cell, RenderC64, CharHandled
<1>24. CASE PollNetwork
  BY <1>24, SMT, ScreenAssumption DEF PollNetwork, KeepNMI, Goto, sharedVars, fiqVars,
     clientVars, Data, CellLeft, Points, Cell, RenderC64, CharHandled
<1>25. CASE Relaunch
  BY <1>25, SMT, ScreenAssumption DEF Relaunch, ResetClient, Goto, sharedVars, fiqVars,
     clientVars, Data, CellLeft, Points, Cell, RenderC64, CharHandled
<1>26. CASE Button
  BY <1>26, SMT, ScreenAssumption DEF Button, BusCycle, ResetClient, loopVars, sharedVars,
     fiqVars, clientVars, Data, CellLeft, Points, Cell, RenderC64, CharHandled
<1>27. CASE VICCycle
  BY <1>27, SMT, ScreenAssumption DEF VICCycle, CountDown, BusCycle, sharedVars, fiqVars,
     clientVars, Data, CellLeft, Points, Cell, RenderC64, CharHandled
<1>28. CASE \E k \in Keys : PollKey(k)
  BY <1>28, SMT, ScreenAssumption DEF PollKey, loopVars, sharedVars, fiqVars, clientVars,
     Data, CellLeft, Points, Cell, RenderC64, CharHandled
<1>29. CASE UNCHANGED vars
  BY <1>29, SMT DEF vars, loopVars, sharedVars, fiqVars, clientVars, Data, CellLeft, Points,
     Cell, RenderC64, CharHandled
<1>30. CASE C64Reset
  BY <1>30, SMT, ScreenAssumption DEF C64Reset, ResetClient, BusCycle, sharedVars, fiqVars, clientVars,
     Data, CellLeft, Points, Cell
<1>31. CASE CrashingInterrupt
  BY <1>31, SMT, ScreenAssumption DEF CrashingInterrupt, Stopped, NoKernal, loopVars, sharedVars, fiqVars, clientVars,
     Data, CellLeft, Points, Cell
<1>32. CASE Restore
  BY <1>32, SMT, ScreenAssumption DEF Restore, Stopped, loopVars, sharedVars, fiqVars, clientVars,
     Data, CellLeft, Points, Cell
<1>33. CASE BlinkLoad
  BY <1>33, SMT, ScreenAssumption DEF BlinkLoad, sharedVars, fiqVars, clientVars,
     Data, CellLeft, Points, Cell
<1>34. CASE BlinkStore
  BY <1>34, SMT, ScreenAssumption DEF BlinkStore, Goto, sharedVars, fiqVars, clientVars,
     Data, CellLeft, Points, Cell
<1> QED
  BY <1>1, <1>2, <1>3, <1>4, <1>5, <1>6, <1>7, <1>8, <1>9, <1>10, <1>11, <1>12, <1>13,
     <1>14, <1>15, <1>16, <1>17, <1>18, <1>19, <1>20, <1>21, <1>22, <1>23, <1>24, <1>25,
     <1>26, <1>27, <1>28, <1>29, <1>30, <1>31, <1>32, <1>33, <1>34 DEF Next, Client, MainLoop,
     User

\* Every variable of the menu kernel and of the client always has its type.
THEOREM TypeCorrect == Spec => []TypeOK
<1>1. TypeInv /\ [Next]_vars => TypeInv'
  BY FlagsNext, LatchFlagsNext, PointsNext, DataNext DEF TypeInv, TypeOK
<1>2. TypeInv => TypeOK
  BY DEF TypeInv
<1> QED
  BY TypesInit, <1>1, <1>2, PTL DEF Spec

-----------------------------------------------------------------------------
(* The handshake, with or without the network code.                        *)

RefreshPoints == {"refresh", "refreshNMI", "refreshDone", "refreshClear"}

\* A request stands exactly until both stores are done; it finds the C64 halted, with
\* the countdown armed, unless the main loop raised it itself or the C64 has left.
HandshakeInv ==
  /\ mpc \notin BetweenStores => ~(updateMenu /\ doneWithHandling)
  /\ mpc \in {"handle", "netKey", "done"} => updateMenu
  /\ mpc \in {"netKey", "netIdle", "refresh"} => ~fiqOn
  /\ dmaLow => releaseDMA > 0
  /\ updateMenu /\ ~doneWithHandling /\ mpc \notin RefreshPoints => dmaLow \/ cpc = "off"
  /\ nmiLow => keepNMILow \/ mpc \in {"refreshDone", "refreshClear"}

\* Initially no request stands.
LEMMA HandshakeInit == Init => HandshakeInv
  BY SMT DEF Init, HandshakeInv, BetweenStores, RefreshPoints

\* Every step keeps the handshake: raised, answered, cleared, in this order.
LEMMA HandshakeNext ==
  ASSUME Points, CellLeft, HandshakeInv, [Next]_vars
  PROVE  HandshakeInv'
<1>1. CASE Boot
  BY <1>1, SMT, TimingAssumption DEF Boot, Unserved, ClientKeeps, CPUCycle, BusCycle,
     sharedVars, fiqVars, clientVars, HandshakeInv, RefreshPoints, CellLeft, Points,
     LoopPoints, ClientPoints, Rendering, BetweenStores, Serving, PullNMI
<1>2. CASE Report
  BY <1>2, SMT, TimingAssumption DEF Report, Unserved, ClientKeeps, CPUCycle, BusCycle, Ask,
     HaltIfAsked, sharedVars, fiqVars, clientVars, HandshakeInv, RefreshPoints, CellLeft,
     Points, LoopPoints, ClientPoints, Rendering, BetweenStores, Serving, PullNMI
<1>3. CASE StartTransfer
  BY <1>3, SMT, TimingAssumption DEF StartTransfer, Rewind, Unserved, ClientKeeps, CPUCycle,
     BusCycle, Ask, HaltIfAsked, sharedVars, fiqVars, clientVars, HandshakeInv,
     RefreshPoints, CellLeft, Points, LoopPoints, ClientPoints, Rendering, BetweenStores,
     Serving, PullNMI
<1>4. CASE CopyCell
  BY <1>4, SMT, TimingAssumption DEF CopyCell, Unserved, ClientKeeps, CPUCycle, BusCycle,
     sharedVars, fiqVars, clientVars, HandshakeInv, RefreshPoints, CellLeft, Points,
     LoopPoints, ClientPoints, Rendering, BetweenStores, Serving, PullNMI
<1>5. CASE CallInjected
  BY <1>5, SMT, TimingAssumption DEF CallInjected, Unserved, ClientKeeps, CPUCycle,
     BusCycle, sharedVars, fiqVars, clientVars, HandshakeInv, RefreshPoints, CellLeft,
     Points, LoopPoints, ClientPoints, Rendering, BetweenStores, Serving, PullNMI
<1>6. CASE WireOn
  BY <1>6, SMT, TimingAssumption DEF WireOn, Unserved, ClientKeeps, CPUCycle, BusCycle,
     sharedVars, fiqVars, clientVars, HandshakeInv, RefreshPoints, CellLeft, Points,
     LoopPoints, ClientPoints, Rendering, BetweenStores, Serving, PullNMI
<1>7. CASE WireKernalRead
  BY <1>7, SMT, TimingAssumption DEF WireKernalRead, Unserved, ClientKeeps, CPUCycle,
     BusCycle, sharedVars, fiqVars, clientVars, HandshakeInv, RefreshPoints, CellLeft,
     Points, LoopPoints, ClientPoints, Rendering, BetweenStores, Serving, PullNMI
<1>8. CASE WireOff
  BY <1>8, SMT, TimingAssumption DEF WireOff, Detected, Unserved, ClientKeeps, CPUCycle,
     BusCycle, sharedVars, fiqVars, clientVars, HandshakeInv, RefreshPoints, CellLeft,
     Points, LoopPoints, ClientPoints, Rendering, BetweenStores, Serving, PullNMI
<1>9. CASE SIDAccess
  BY <1>9, SMT, TimingAssumption DEF SIDAccess, Unserved, ClientKeeps, CPUCycle, BusCycle,
     sharedVars, fiqVars, clientVars, HandshakeInv, RefreshPoints, CellLeft, Points,
     LoopPoints, ClientPoints, Rendering, BetweenStores, Serving, PullNMI
<1>10. CASE SendKey
  BY <1>10, SMT, TimingAssumption DEF SendKey, Keypress, Unserved, ClientKeeps, CPUCycle,
     BusCycle, Ask, HaltIfAsked, sharedVars, fiqVars, clientVars, HandshakeInv,
     RefreshPoints, CellLeft, Points, LoopPoints, ClientPoints, Rendering, BetweenStores,
     Serving, PullNMI
<1>11. CASE PollNMI
  BY <1>11, SMT, TimingAssumption DEF PollNMI, loopVars, sharedVars, fiqVars, clientVars,
     HandshakeInv, RefreshPoints, CellLeft, Points, LoopPoints, ClientPoints, Rendering,
     BetweenStores, Serving, PullNMI
<1>12. CASE TakeNMI
  BY <1>12, SMT, TimingAssumption DEF TakeNMI, loopVars, sharedVars, fiqVars, clientVars,
     HandshakeInv, RefreshPoints, CellLeft, Points, LoopPoints, ClientPoints, Rendering,
     BetweenStores, Serving, PullNMI
<1>13. CASE Leave
  BY <1>13, SMT, TimingAssumption DEF Leave, Goto, sharedVars, fiqVars, clientVars,
     HandshakeInv, RefreshPoints, CellLeft, Points, LoopPoints, ClientPoints, Rendering,
     BetweenStores, Serving, PullNMI
<1>14. CASE Test
  BY <1>14, SMT, TimingAssumption DEF Test, Goto, sharedVars, fiqVars, clientVars,
     HandshakeInv, RefreshPoints, CellLeft, Points, LoopPoints, ClientPoints, Rendering,
     BetweenStores, Serving, PullNMI
<1>15. CASE Handle
  BY <1>15, SMT, TimingAssumption DEF Handle, HandleC64, ResetClient, Goto, sharedVars,
     fiqVars, clientVars, HandshakeInv, RefreshPoints, CellLeft, Points, LoopPoints,
     ClientPoints, Rendering, BetweenStores, Serving, PullNMI
<1>16. CASE HandleWithNetwork
  BY <1>16, SMT, TimingAssumption DEF HandleWithNetwork, HandleC64, ResetClient, Goto,
     sharedVars, fiqVars, clientVars, HandshakeInv, RefreshPoints, CellLeft, Points,
     LoopPoints, ClientPoints, Rendering, BetweenStores, Serving, PullNMI
<1>17. CASE MarkDone
  BY <1>17, SMT, TimingAssumption DEF MarkDone, Done, Goto, sharedVars, fiqVars, clientVars,
     HandshakeInv, RefreshPoints, CellLeft, Points, LoopPoints, ClientPoints, Rendering,
     BetweenStores, Serving, PullNMI
<1>18. CASE ClearRequest
  BY <1>18, SMT, TimingAssumption DEF ClearRequest, KeepNMI, Goto, sharedVars, fiqVars,
     clientVars, HandshakeInv, RefreshPoints, CellLeft, Points, LoopPoints, ClientPoints,
     Rendering, BetweenStores, Serving, PullNMI
<1>19. CASE RefreshBegin
  BY <1>19, SMT, TimingAssumption DEF RefreshBegin, Goto, sharedVars, fiqVars, clientVars,
     HandshakeInv, RefreshPoints, CellLeft, Points, LoopPoints, ClientPoints, Rendering,
     BetweenStores, Serving, PullNMI
<1>20. CASE RefreshRender
  BY <1>20, SMT, TimingAssumption DEF RefreshRender, Goto, sharedVars, fiqVars, clientVars,
     HandshakeInv, RefreshPoints, CellLeft, Points, LoopPoints, ClientPoints, Rendering,
     BetweenStores, Serving, PullNMI
<1>21. CASE SignalC64
  BY <1>21, SMT, TimingAssumption DEF SignalC64, PullNMI, KeepNMI, Goto, sharedVars,
     fiqVars, clientVars, HandshakeInv, RefreshPoints, CellLeft, Points, LoopPoints,
     ClientPoints, Rendering, BetweenStores, Serving, PullNMI
<1>22. CASE TreatCaches
  BY <1>22, SMT, TimingAssumption DEF TreatCaches, Goto, sharedVars, fiqVars, clientVars,
     HandshakeInv, RefreshPoints, CellLeft, Points, LoopPoints, ClientPoints, Rendering,
     BetweenStores, Serving, PullNMI
<1>23. CASE NetworkDue
  BY <1>23, SMT, TimingAssumption DEF NetworkDue, NetworkGuard, Goto, sharedVars, fiqVars,
     clientVars, HandshakeInv, RefreshPoints, CellLeft, Points, LoopPoints, ClientPoints,
     Rendering, BetweenStores, Serving, PullNMI
<1>24. CASE PollNetwork
  BY <1>24, SMT, TimingAssumption DEF PollNetwork, KeepNMI, Goto, sharedVars, fiqVars,
     clientVars, HandshakeInv, RefreshPoints, CellLeft, Points, LoopPoints, ClientPoints,
     Rendering, BetweenStores, Serving, PullNMI
<1>25. CASE Relaunch
  BY <1>25, SMT, TimingAssumption DEF Relaunch, ResetClient, Goto, sharedVars, fiqVars,
     clientVars, HandshakeInv, RefreshPoints, CellLeft, Points, LoopPoints, ClientPoints,
     Rendering, BetweenStores, Serving, PullNMI
<1>26. CASE Button
  BY <1>26, SMT, TimingAssumption DEF Button, BusCycle, ResetClient, loopVars, sharedVars,
     fiqVars, clientVars, HandshakeInv, RefreshPoints, CellLeft, Points, LoopPoints,
     ClientPoints, Rendering, BetweenStores, Serving, PullNMI
<1>27. CASE VICCycle
  BY <1>27, SMT, TimingAssumption DEF VICCycle, CountDown, BusCycle, sharedVars, fiqVars,
     clientVars, HandshakeInv, RefreshPoints, CellLeft, Points, LoopPoints, ClientPoints,
     Rendering, BetweenStores, Serving, PullNMI
<1>28. CASE \E k \in Keys : PollKey(k)
  BY <1>28, SMT, TimingAssumption DEF PollKey, loopVars, sharedVars, fiqVars, clientVars,
     HandshakeInv, RefreshPoints, CellLeft, Points, LoopPoints, ClientPoints, Rendering,
     BetweenStores, Serving, PullNMI
<1>29. CASE UNCHANGED vars
  BY <1>29, SMT DEF vars, loopVars, sharedVars, fiqVars, clientVars, HandshakeInv,
     RefreshPoints, CellLeft, Points, LoopPoints, ClientPoints, Rendering, BetweenStores,
     Serving, PullNMI
<1>30. CASE C64Reset
  BY <1>30, SMT, TimingAssumption DEF C64Reset, ResetClient, BusCycle, sharedVars, fiqVars, clientVars,
     HandshakeInv, RefreshPoints, CellLeft, Points, LoopPoints, ClientPoints, Rendering,
     BetweenStores, Serving
<1>31. CASE CrashingInterrupt
  BY <1>31, SMT, TimingAssumption DEF CrashingInterrupt, Stopped, NoKernal, loopVars, sharedVars, fiqVars, clientVars,
     HandshakeInv, RefreshPoints, CellLeft, Points, LoopPoints, ClientPoints, Rendering,
     BetweenStores, Serving
<1>32. CASE Restore
  BY <1>32, SMT, TimingAssumption DEF Restore, Stopped, loopVars, sharedVars, fiqVars, clientVars,
     HandshakeInv, RefreshPoints, CellLeft, Points, LoopPoints, ClientPoints, Rendering,
     BetweenStores, Serving
<1>33. CASE BlinkLoad
  BY <1>33, SMT, TimingAssumption DEF BlinkLoad, sharedVars, fiqVars, clientVars,
     HandshakeInv, RefreshPoints, CellLeft, Points, LoopPoints, ClientPoints, Rendering,
     BetweenStores, Serving
<1>34. CASE BlinkStore
  BY <1>34, SMT, TimingAssumption DEF BlinkStore, Goto, sharedVars, fiqVars, clientVars,
     HandshakeInv, RefreshPoints, CellLeft, Points, LoopPoints, ClientPoints, Rendering,
     BetweenStores, Serving
<1> QED
  BY <1>1, <1>2, <1>3, <1>4, <1>5, <1>6, <1>7, <1>8, <1>9, <1>10, <1>11, <1>12, <1>13,
     <1>14, <1>15, <1>16, <1>17, <1>18, <1>19, <1>20, <1>21, <1>22, <1>23, <1>24, <1>25,
     <1>26, <1>27, <1>28, <1>29, <1>30, <1>31, <1>32, <1>33, <1>34 DEF Next, Client, MainLoop,
     User

\* Both layers, always.
THEOREM HandshakeHolds == Spec => [](TypeInv /\ HandshakeInv)
<1>1. TypeInv /\ HandshakeInv /\ [Next]_vars => (TypeInv /\ HandshakeInv)'
  BY FlagsNext, LatchFlagsNext, PointsNext, DataNext, HandshakeNext DEF TypeInv, TypeOK
<1> QED
  BY TypesInit, HandshakeInit, <1>1, PTL DEF Spec

\* Whoever halts the C64 has armed the countdown that releases it.
THEOREM HaltIsArmed == Spec => []HaltArmed
<1>1. HandshakeInv => HaltArmed
  BY DEF HandshakeInv, HaltArmed
<1> QED
  BY HandshakeHolds, <1>1, PTL

\* The C64 is halted while the main loop works on its request.
THEOREM RequestHalts == Spec => []HaltedWhileHandled
<1>1. HandshakeInv => HaltedWhileHandled
  BY SMT DEF HandshakeInv, HaltedWhileHandled, BetweenStores, RefreshPoints
<1> QED
  BY HandshakeHolds, <1>1, PTL

\* Both together: what FIQHandler halts it releases, and not before Run has
\* finished with the request.
THEOREM HaltsAsItShould == Spec => []Halting
BY HaltIsArmed, RequestHalts, PTL DEF Halting

\* No access of the C64 is served while renderC64 writes the screen.
THEOREM RenderingIsExclusive == Spec => []RenderExclusion
<1>1. HandshakeInv => RenderExclusion
  BY SMT DEF HandshakeInv, RenderExclusion, Rendering, Serving, BetweenStores
<1> QED
  BY HandshakeHolds, <1>1, PTL

\* Whenever NMI is low somebody has been told to release it.
THEOREM NMIIsReleased == Spec => []NMIWillRise
<1>1. HandshakeInv => NMIWillRise
  BY DEF HandshakeInv, NMIWillRise
<1> QED
  BY HandshakeHolds, <1>1, PTL

\* Both together: a refresh serves no access of the C64 while it draws, and leaves NMI
\* usable.
THEOREM RefreshesInOrder == Spec => []RefreshInOrder
BY RenderingIsExclusive, NMIIsReleased, PTL DEF RefreshInOrder

-----------------------------------------------------------------------------
(* Without the network code: the FIQ is enabled until a kernel is launched. *)

\* While a request stands the C64 is halted with the countdown at its start, and
\* between the two stores too few cycles pass to release it; so nothing can be sent
\* that the second store would wipe out.
NoNetInv ==
  /\ mpc \in {"top", "blink", "test", "handle", "done", "clear", "exit"}
  /\ mpc # "exit" => fiqOn
  /\ mpc = "exit" => launchKernel
  /\ mpc = "handle" => ~launchKernel
  /\ mpc = "clear" =>
       \/ dmaLow /\ releaseDMA + MaxBurst >= NumDMACycles + burst
       \/ cpc \in {"off", "reset"}
  /\ updateMenu /\ ~doneWithHandling =>
       \/ dmaLow /\ releaseDMA = NumDMACycles
       \/ cpc = "off"
  /\ cpc = "off" <=> disableCart
  /\ disableCart => ~launchKernel /\ (updateMenu => mpc \in {"done", "clear"})
  /\ owed # NoKey /\ ~launchKernel => updateMenu /\ lastChar = owed
  /\ mpc \in {"done", "clear"} /\ ~launchKernel => owed = NoKey
  /\ lastChar # NoKey /\ ~launchKernel =>
       updateMenu /\ owed = lastChar /\ mpc \in {"top", "blink", "test", "handle"}

\* Initially nothing is owed.
LEMMA NoNetInit == Init => NoNetInv
  BY SMT DEF Init, NoNetInv

\* Without the network code no step drops a key or runs past the countdown.
LEMMA NoNetNext ==
  ASSUME ~WithNet, Points, CellLeft, Data, HandshakeInv, NoNetInv, [Next]_vars
  PROVE  NoNetInv'
<1>1. CASE Boot
  BY <1>1, SMTT(40), TimingAssumption, KeyAssumption DEF Boot, Unserved, ClientKeeps, CPUCycle,
     BusCycle, sharedVars, fiqVars, clientVars, NoNetInv, HandshakeInv, Points, Data,
     Serving, BetweenStores, CharHandled
<1>2. CASE Report
  BY <1>2, SMTT(40), TimingAssumption, KeyAssumption DEF Report, Unserved, ClientKeeps, CPUCycle,
     BusCycle, Ask, HaltIfAsked, sharedVars, fiqVars, clientVars, NoNetInv, HandshakeInv,
     Points, Data, Serving, BetweenStores, CharHandled
<1>3. CASE StartTransfer
  BY <1>3, SMTT(40), TimingAssumption, KeyAssumption DEF StartTransfer, Rewind, Unserved,
     ClientKeeps, CPUCycle, BusCycle, Ask, HaltIfAsked, sharedVars, fiqVars, clientVars,
     NoNetInv, HandshakeInv, Points, Data, Serving, BetweenStores, CharHandled
<1>4. CASE CopyCell
  BY <1>4, SMTT(40), TimingAssumption, KeyAssumption DEF CopyCell, Unserved, ClientKeeps,
     CPUCycle, BusCycle, sharedVars, fiqVars, clientVars, NoNetInv, HandshakeInv, Points,
     Data, Serving, BetweenStores, CharHandled
<1>5. CASE CallInjected
  BY <1>5, SMTT(40), TimingAssumption, KeyAssumption DEF CallInjected, Unserved, ClientKeeps,
     CPUCycle, BusCycle, sharedVars, fiqVars, clientVars, NoNetInv, HandshakeInv, Points,
     Data, Serving, BetweenStores, CharHandled
<1>6. CASE WireOn
  BY <1>6, SMTT(40), TimingAssumption, KeyAssumption DEF WireOn, Unserved, ClientKeeps, CPUCycle,
     BusCycle, sharedVars, fiqVars, clientVars, NoNetInv, HandshakeInv, Points, Data,
     Serving, BetweenStores, CharHandled
<1>7. CASE WireKernalRead
  BY <1>7, SMTT(40), TimingAssumption, KeyAssumption DEF WireKernalRead, Unserved, ClientKeeps,
     CPUCycle, BusCycle, sharedVars, fiqVars, clientVars, NoNetInv, HandshakeInv, Points,
     Data, Serving, BetweenStores, CharHandled
<1>8. CASE WireOff
  BY <1>8, SMTT(40), TimingAssumption, KeyAssumption DEF WireOff, Detected, Unserved,
     ClientKeeps, CPUCycle, BusCycle, sharedVars, fiqVars, clientVars, NoNetInv,
     HandshakeInv, Points, Data, Serving, BetweenStores, CharHandled
<1>9. CASE SIDAccess
  BY <1>9, SMTT(40), TimingAssumption, KeyAssumption DEF SIDAccess, Unserved, ClientKeeps,
     CPUCycle, BusCycle, sharedVars, fiqVars, clientVars, NoNetInv, HandshakeInv, Points,
     Data, Serving, BetweenStores, CharHandled
<1>10. CASE SendKey
  BY <1>10, SMTT(40), TimingAssumption, KeyAssumption DEF SendKey, Keypress, Unserved,
     ClientKeeps, CPUCycle, BusCycle, Ask, HaltIfAsked, sharedVars, fiqVars, clientVars,
     NoNetInv, HandshakeInv, Points, Data, Serving, BetweenStores, CharHandled
<1>11. CASE PollNMI
  BY <1>11, SMTT(40), TimingAssumption, KeyAssumption DEF PollNMI, loopVars, sharedVars, fiqVars,
     clientVars, NoNetInv, HandshakeInv, Points, Data, Serving, BetweenStores, CharHandled
<1>12. CASE TakeNMI
  BY <1>12, SMTT(40), TimingAssumption, KeyAssumption DEF TakeNMI, loopVars, sharedVars, fiqVars,
     clientVars, NoNetInv, HandshakeInv, Points, Data, Serving, BetweenStores, CharHandled
<1>13. CASE Leave
  BY <1>13, SMTT(40), TimingAssumption, KeyAssumption DEF Leave, Goto, sharedVars, fiqVars,
     clientVars, NoNetInv, HandshakeInv, Points, Data, Serving, BetweenStores, CharHandled
<1>14. CASE Test
  <2>1. /\ mpc \in {"top", "test"} /\ ~launchKernel
        /\ UNCHANGED <<fiqOn, launchKernel, disableCart, sharedVars, fiqVars, dmaLow, owed>>
        /\ UNCHANGED clientVars
    BY <1>14, SMT DEF Test
  <2>2. CASE updateMenu
    <3>1. mpc' = "handle"
      BY <1>14, <2>2, SMT DEF Test, Goto
    <3> QED
      BY <2>1, <2>2, <3>1, SMT DEF sharedVars, fiqVars, clientVars, NoNetInv
  <2>3. CASE ~updateMenu
    <3>1. mpc' = "top"
      BY <1>14, <2>3, SMT DEF Test, Goto
    <3> QED
      BY <2>1, <2>3, <3>1, SMT DEF sharedVars, fiqVars, clientVars, NoNetInv
  <2> QED
    BY <2>2, <2>3
<1>15. CASE Handle
  BY <1>15, SMTT(40), TimingAssumption, KeyAssumption DEF Handle, HandleC64, ResetClient, Goto,
     sharedVars, fiqVars, clientVars, NoNetInv, HandshakeInv, Points, Data, Serving,
     BetweenStores, CharHandled
<1>16. CASE HandleWithNetwork
  BY <1>16, SMTT(40), TimingAssumption, KeyAssumption DEF HandleWithNetwork, HandleC64,
     ResetClient, Goto, sharedVars, fiqVars, clientVars, NoNetInv, HandshakeInv, Points,
     Data, Serving, BetweenStores, CharHandled
<1>17. CASE MarkDone
  BY <1>17, SMTT(40), TimingAssumption, KeyAssumption DEF MarkDone, Done, Goto, sharedVars,
     fiqVars, clientVars, NoNetInv, HandshakeInv, Points, Data, Serving, BetweenStores,
     CharHandled
<1>18. CASE ClearRequest
  BY <1>18, SMTT(40), TimingAssumption, KeyAssumption DEF ClearRequest, KeepNMI, Goto,
     sharedVars, fiqVars, clientVars, NoNetInv, HandshakeInv, Points, Data, Serving,
     BetweenStores, CharHandled
<1>19. CASE RefreshBegin
  BY <1>19, SMTT(40), TimingAssumption, KeyAssumption DEF RefreshBegin, Goto, sharedVars,
     fiqVars, clientVars, NoNetInv, HandshakeInv, Points, Data, Serving, BetweenStores,
     CharHandled
<1>20. CASE RefreshRender
  BY <1>20, SMTT(40), TimingAssumption, KeyAssumption DEF RefreshRender, Goto, sharedVars,
     fiqVars, clientVars, NoNetInv, HandshakeInv, Points, Data, Serving, BetweenStores,
     CharHandled
<1>21. CASE SignalC64
  BY <1>21, SMTT(40), TimingAssumption, KeyAssumption DEF SignalC64, PullNMI, KeepNMI, Goto,
     sharedVars, fiqVars, clientVars, NoNetInv, HandshakeInv, Points, Data, Serving,
     BetweenStores, CharHandled
<1>22. CASE TreatCaches
  BY <1>22, SMTT(40), TimingAssumption, KeyAssumption DEF TreatCaches, Goto, sharedVars, fiqVars,
     clientVars, NoNetInv, HandshakeInv, Points, Data, Serving, BetweenStores, CharHandled
<1>23. CASE NetworkDue
  BY <1>23, SMTT(40), TimingAssumption, KeyAssumption DEF NetworkDue, NetworkGuard, Goto,
     sharedVars, fiqVars, clientVars, NoNetInv, HandshakeInv, Points, Data, Serving,
     BetweenStores, CharHandled
<1>24. CASE PollNetwork
  BY <1>24, SMTT(40), TimingAssumption, KeyAssumption DEF PollNetwork, KeepNMI, Goto, sharedVars,
     fiqVars, clientVars, NoNetInv, HandshakeInv, Points, Data, Serving, BetweenStores,
     CharHandled
<1>25. CASE Relaunch
  BY <1>25, SMTT(40), TimingAssumption, KeyAssumption DEF Relaunch, ResetClient, Goto,
     sharedVars, fiqVars, clientVars, NoNetInv, HandshakeInv, Points, Data, Serving,
     BetweenStores, CharHandled
<1>26. CASE Button
  BY <1>26, SMTT(40), TimingAssumption, KeyAssumption DEF Button, BusCycle, ResetClient,
     loopVars, sharedVars, fiqVars, clientVars, NoNetInv, HandshakeInv, Points, Data,
     Serving, BetweenStores, CharHandled
<1>27. CASE VICCycle
  BY <1>27, SMTT(40), TimingAssumption, KeyAssumption DEF VICCycle, CountDown, BusCycle,
     sharedVars, fiqVars, clientVars, NoNetInv, HandshakeInv, Points, Data, Serving,
     BetweenStores, CharHandled
<1>28. CASE \E k \in Keys : PollKey(k)
  BY <1>28, SMTT(40), TimingAssumption, KeyAssumption DEF PollKey, loopVars, sharedVars, fiqVars,
     clientVars, NoNetInv, HandshakeInv, Points, Data, Serving, BetweenStores, CharHandled
<1>29. CASE UNCHANGED vars
  BY <1>29, SMT DEF vars, loopVars, sharedVars, fiqVars, clientVars, NoNetInv, HandshakeInv,
     Points, Data, Serving, BetweenStores, CharHandled
<1>30. CASE C64Reset
  BY <1>30, SMTT(40), TimingAssumption, KeyAssumption DEF C64Reset, ResetClient, BusCycle, sharedVars, fiqVars, clientVars,
     NoNetInv, HandshakeInv, Points, Data, BetweenStores
<1>31. CASE CrashingInterrupt
  BY <1>31, SMTT(40), TimingAssumption, KeyAssumption DEF CrashingInterrupt, Stopped, NoKernal, loopVars, sharedVars, fiqVars, clientVars,
     NoNetInv, HandshakeInv, Points, Data, BetweenStores
<1>32. CASE Restore
  BY <1>32, SMTT(40), TimingAssumption, KeyAssumption DEF Restore, Stopped, loopVars, sharedVars, fiqVars, clientVars,
     NoNetInv, HandshakeInv, Points, Data, BetweenStores
<1>33. CASE BlinkLoad
  BY <1>33, SMTT(40), TimingAssumption, KeyAssumption DEF BlinkLoad, sharedVars, fiqVars, clientVars,
     NoNetInv, HandshakeInv, Points, Data, BetweenStores
<1>34. CASE BlinkStore
  BY <1>34, SMTT(40), TimingAssumption, KeyAssumption DEF BlinkStore, Goto, sharedVars, fiqVars, clientVars,
     NoNetInv, HandshakeInv, Points, Data, BetweenStores
<1> QED
  BY <1>1, <1>2, <1>3, <1>4, <1>5, <1>6, <1>7, <1>8, <1>9, <1>10, <1>11, <1>12, <1>13,
     <1>14, <1>15, <1>16, <1>17, <1>18, <1>19, <1>20, <1>21, <1>22, <1>23, <1>24, <1>25,
     <1>26, <1>27, <1>28, <1>29, <1>30, <1>31, <1>32, <1>33, <1>34 DEF Next, Client, MainLoop,
     User

\* The screen of the C64 against the page: the cells copied so far are the page's, in
\* the order of the transfer; and the C64 is only ever halted where it asks.
ScreenInv ==
  /\ dmaLow => cpc \in {"reset", "vic", "sidkick", "start", "wireOn"}
  /\ ~launchKernel /\ cpc = "copy" =>
       /\ screenTransfer = cell
       /\ \A j \in 0 .. cell - 1 : screen[j] = <<menuScreen, j>>
  /\ ~launchKernel /\ cpc \in {"inject", "poll"} => screen = Whole(menuScreen)
  /\ cpc = "jammed" => launchKernel

\* Initially the client does not copy.
LEMMA ScreenInit == Init => ScreenInv
  BY SMT DEF Init, ScreenInv

\* Without the network code every step keeps the copied cells those of the page.
LEMMA ScreenNext ==
  ASSUME ~WithNet, Points, CellLeft, Data, HandshakeInv, NoNetInv, ScreenInv, [Next]_vars
  PROVE  ScreenInv'
<1>1. CASE Boot
  BY <1>1, SMTT(40), TimingAssumption, KeyAssumption, ScreenAssumption DEF Boot, Unserved,
     ClientKeeps, CPUCycle, BusCycle, sharedVars, fiqVars, clientVars, ScreenInv, NoNetInv,
     Points, CellLeft, Data, Serving, Whole, RenderC64, Detected, KernalBack
<1>2. CASE Report
  BY <1>2, SMTT(40), TimingAssumption, KeyAssumption, ScreenAssumption DEF Report, Unserved,
     ClientKeeps, CPUCycle, BusCycle, Ask, HaltIfAsked, sharedVars, fiqVars, clientVars,
     ScreenInv, NoNetInv, Points, CellLeft, Data, Serving, Whole, RenderC64, Detected,
     KernalBack
<1>3. CASE StartTransfer
  <2>1. ~dmaLow'
    BY <1>3, SMT DEF StartTransfer, CPUCycle, BusCycle, Serving, HaltIfAsked, HandshakeInv,
       NoNetInv, BetweenStores, Unserved
  <2> QED
    BY <1>3, <2>1, SMTT(40), ScreenAssumption DEF StartTransfer, Rewind, CPUCycle, Unserved,
       ClientKeeps, sharedVars, fiqVars, ScreenInv, NoNetInv, Serving
<1>4. CASE CopyCell
  BY <1>4, SMTT(40), TimingAssumption, KeyAssumption, ScreenAssumption DEF CopyCell, Unserved,
     ClientKeeps, CPUCycle, BusCycle, sharedVars, fiqVars, clientVars, ScreenInv, NoNetInv,
     Points, CellLeft, Data, Serving, Whole, RenderC64, Detected, KernalBack
<1>5. CASE CallInjected
  BY <1>5, SMTT(40), TimingAssumption, KeyAssumption, ScreenAssumption DEF CallInjected,
     Unserved, ClientKeeps, CPUCycle, BusCycle, sharedVars, fiqVars, clientVars, ScreenInv,
     NoNetInv, Points, CellLeft, Data, Serving, Whole, RenderC64, Detected, KernalBack
<1>6. CASE WireOn
  BY <1>6, SMTT(40), TimingAssumption, KeyAssumption, ScreenAssumption DEF WireOn, Unserved,
     ClientKeeps, CPUCycle, BusCycle, sharedVars, fiqVars, clientVars, ScreenInv, NoNetInv,
     Points, CellLeft, Data, Serving, Whole, RenderC64, Detected, KernalBack
<1>7. CASE WireKernalRead
  BY <1>7, SMTT(40), TimingAssumption, KeyAssumption, ScreenAssumption DEF WireKernalRead,
     Unserved, ClientKeeps, CPUCycle, BusCycle, sharedVars, fiqVars, clientVars, ScreenInv,
     NoNetInv, Points, CellLeft, Data, Serving, Whole, RenderC64, Detected, KernalBack
<1>8. CASE WireOff
  BY <1>8, SMTT(40), TimingAssumption, KeyAssumption, ScreenAssumption DEF WireOff, Detected,
     Unserved, ClientKeeps, CPUCycle, BusCycle, sharedVars, fiqVars, clientVars, ScreenInv,
     NoNetInv, Points, CellLeft, Data, Serving, Whole, RenderC64, Detected, KernalBack
<1>9. CASE SIDAccess
  BY <1>9, SMTT(40), TimingAssumption, KeyAssumption, ScreenAssumption DEF SIDAccess, Unserved,
     ClientKeeps, CPUCycle, BusCycle, sharedVars, fiqVars, clientVars, ScreenInv, NoNetInv,
     Points, CellLeft, Data, Serving, Whole, RenderC64, Detected, KernalBack
<1>10. CASE SendKey
  BY <1>10, SMTT(40), TimingAssumption, KeyAssumption, ScreenAssumption DEF SendKey, Keypress,
     Unserved, ClientKeeps, CPUCycle, BusCycle, Ask, HaltIfAsked, sharedVars, fiqVars,
     clientVars, ScreenInv, NoNetInv, Points, CellLeft, Data, Serving, Whole, RenderC64,
     Detected, KernalBack
<1>11. CASE PollNMI
  BY <1>11, SMTT(40), TimingAssumption, KeyAssumption, ScreenAssumption DEF PollNMI, loopVars,
     sharedVars, fiqVars, clientVars, ScreenInv, NoNetInv, Points, CellLeft, Data, Serving,
     Whole, RenderC64, Detected, KernalBack
<1>12. CASE TakeNMI
  BY <1>12, SMTT(40), TimingAssumption, KeyAssumption, ScreenAssumption DEF TakeNMI, loopVars,
     sharedVars, fiqVars, clientVars, ScreenInv, NoNetInv, Points, CellLeft, Data, Serving,
     Whole, RenderC64, Detected, KernalBack
<1>13. CASE Leave
  BY <1>13, SMTT(40), TimingAssumption, KeyAssumption, ScreenAssumption DEF Leave, Goto,
     sharedVars, fiqVars, clientVars, ScreenInv, NoNetInv, Points, CellLeft, Data, Serving,
     Whole, RenderC64, Detected, KernalBack
<1>14. CASE Test
  BY <1>14, SMTT(40), TimingAssumption, KeyAssumption, ScreenAssumption DEF Test, Goto,
     sharedVars, fiqVars, clientVars, ScreenInv, NoNetInv, Points, CellLeft, Data, Serving,
     Whole, RenderC64, Detected, KernalBack
<1>15. CASE Handle
  <2>1. cpc \in {"reset", "vic", "sidkick", "start", "wireOn", "off"}
    BY <1>15, SMT DEF Handle, HandshakeInv, NoNetInv, ScreenInv, BetweenStores
  <2> QED
    BY <1>15, <2>1, SMTT(40), ScreenAssumption DEF Handle, HandleC64, ResetClient, Goto, clientVars,
       ScreenInv, NoNetInv
<1>16. CASE HandleWithNetwork
  BY <1>16, SMTT(40), TimingAssumption, KeyAssumption, ScreenAssumption DEF HandleWithNetwork,
     HandleC64, ResetClient, Goto, sharedVars, fiqVars, clientVars, ScreenInv, NoNetInv,
     Points, CellLeft, Data, Serving, Whole, RenderC64, Detected, KernalBack
<1>17. CASE MarkDone
  BY <1>17, SMTT(40), TimingAssumption, KeyAssumption, ScreenAssumption DEF MarkDone, Done, Goto,
     sharedVars, fiqVars, clientVars, ScreenInv, NoNetInv, Points, CellLeft, Data, Serving,
     Whole, RenderC64, Detected, KernalBack
<1>18. CASE ClearRequest
  BY <1>18, SMTT(40), TimingAssumption, KeyAssumption, ScreenAssumption DEF ClearRequest,
     KeepNMI, Goto, sharedVars, fiqVars, clientVars, ScreenInv, NoNetInv, Points, CellLeft,
     Data, Serving, Whole, RenderC64, Detected, KernalBack
<1>19. CASE RefreshBegin
  BY <1>19, SMTT(40), TimingAssumption, KeyAssumption, ScreenAssumption DEF RefreshBegin, Goto,
     sharedVars, fiqVars, clientVars, ScreenInv, NoNetInv, Points, CellLeft, Data, Serving,
     Whole, RenderC64, Detected, KernalBack
<1>20. CASE RefreshRender
  BY <1>20, SMTT(40), TimingAssumption, KeyAssumption, ScreenAssumption DEF RefreshRender, Goto,
     sharedVars, fiqVars, clientVars, ScreenInv, NoNetInv, Points, CellLeft, Data, Serving,
     Whole, RenderC64, Detected, KernalBack
<1>21. CASE SignalC64
  BY <1>21, SMTT(40), TimingAssumption, KeyAssumption, ScreenAssumption DEF SignalC64, PullNMI,
     KeepNMI, Goto, sharedVars, fiqVars, clientVars, ScreenInv, NoNetInv, Points, CellLeft,
     Data, Serving, Whole, RenderC64, Detected, KernalBack
<1>22. CASE TreatCaches
  BY <1>22, SMTT(40), TimingAssumption, KeyAssumption, ScreenAssumption DEF TreatCaches, Goto,
     sharedVars, fiqVars, clientVars, ScreenInv, NoNetInv, Points, CellLeft, Data, Serving,
     Whole, RenderC64, Detected, KernalBack
<1>23. CASE NetworkDue
  BY <1>23, SMTT(40), TimingAssumption, KeyAssumption, ScreenAssumption DEF NetworkDue,
     NetworkGuard, Goto, sharedVars, fiqVars, clientVars, ScreenInv, NoNetInv, Points,
     CellLeft, Data, Serving, Whole, RenderC64, Detected, KernalBack
<1>24. CASE PollNetwork
  BY <1>24, SMTT(40), TimingAssumption, KeyAssumption, ScreenAssumption DEF PollNetwork, KeepNMI,
     Goto, sharedVars, fiqVars, clientVars, ScreenInv, NoNetInv, Points, CellLeft, Data,
     Serving, Whole, RenderC64, Detected, KernalBack
<1>25. CASE Relaunch
  BY <1>25, SMTT(40), TimingAssumption, KeyAssumption, ScreenAssumption DEF Relaunch,
     ResetClient, Goto, sharedVars, fiqVars, clientVars, ScreenInv, NoNetInv, Points,
     CellLeft, Data, Serving, Whole, RenderC64, Detected, KernalBack
<1>26. CASE Button
  BY <1>26, SMTT(40), TimingAssumption, KeyAssumption, ScreenAssumption DEF Button, BusCycle,
     ResetClient, loopVars, sharedVars, fiqVars, clientVars, ScreenInv, NoNetInv, Points,
     CellLeft, Data, Serving, Whole, RenderC64, Detected, KernalBack
<1>27. CASE VICCycle
  BY <1>27, SMTT(40), TimingAssumption, KeyAssumption, ScreenAssumption DEF VICCycle, CountDown,
     BusCycle, sharedVars, fiqVars, clientVars, ScreenInv, NoNetInv, Points, CellLeft, Data,
     Serving, Whole, RenderC64, Detected, KernalBack
<1>28. CASE \E k \in Keys : PollKey(k)
  BY <1>28, SMTT(40), TimingAssumption, KeyAssumption, ScreenAssumption DEF PollKey, loopVars,
     sharedVars, fiqVars, clientVars, ScreenInv, NoNetInv, Points, CellLeft, Data, Serving,
     Whole, RenderC64, Detected, KernalBack
<1>29. CASE UNCHANGED vars
  BY <1>29, SMT DEF vars, loopVars, sharedVars, fiqVars, clientVars, ScreenInv, NoNetInv,
     Points, CellLeft, Data, Serving, Whole, RenderC64, Detected, KernalBack
<1>30. CASE C64Reset
  BY <1>30, SMTT(40), TimingAssumption, KeyAssumption, ScreenAssumption DEF C64Reset, ResetClient, BusCycle, sharedVars, fiqVars, clientVars,
     ScreenInv, NoNetInv, Points, CellLeft, Data
<1>31. CASE CrashingInterrupt
  BY <1>31, SMTT(40), TimingAssumption, KeyAssumption, ScreenAssumption DEF CrashingInterrupt, Stopped, NoKernal, loopVars, sharedVars, fiqVars, clientVars,
     ScreenInv, NoNetInv, Points, CellLeft, Data
<1>32. CASE Restore
  BY <1>32, SMTT(40), TimingAssumption, KeyAssumption, ScreenAssumption DEF Restore, Stopped, loopVars, sharedVars, fiqVars, clientVars,
     ScreenInv, NoNetInv, Points, CellLeft, Data
<1>33. CASE BlinkLoad
  BY <1>33, SMTT(40), TimingAssumption, KeyAssumption, ScreenAssumption DEF BlinkLoad, sharedVars, fiqVars, clientVars,
     ScreenInv, NoNetInv, Points, CellLeft, Data
<1>34. CASE BlinkStore
  BY <1>34, SMTT(40), TimingAssumption, KeyAssumption, ScreenAssumption DEF BlinkStore, Goto, sharedVars, fiqVars, clientVars,
     ScreenInv, NoNetInv, Points, CellLeft, Data
<1> QED
  BY <1>1, <1>2, <1>3, <1>4, <1>5, <1>6, <1>7, <1>8, <1>9, <1>10, <1>11, <1>12, <1>13,
     <1>14, <1>15, <1>16, <1>17, <1>18, <1>19, <1>20, <1>21, <1>22, <1>23, <1>24, <1>25,
     <1>26, <1>27, <1>28, <1>29, <1>30, <1>31, <1>32, <1>33, <1>34 DEF Next, Client, MainLoop,
     User

-----------------------------------------------------------------------------
(* The wire detection, without the network code.                           *)

\* Each access of the detection finds what the one before it has left, and what it has
\* come to stays until the main loop looks at it, with the key that follows it.
DetectionInv ==
  /\ wireSIDGotLow => SIDWire
  /\ ~launchKernel =>
       /\ cpc = "kernal" =>
            wireKernalDetectMode /\ ~wireKernalTrackAccess /\ ~wireKernalAvailable
       /\ cpc = "wireOff" =>
            (wireKernalTrackAccess <=> KernalWire) /\ ~wireKernalAvailable
       /\ cpc \in {"sid", "send"} => (wireKernalAvailable <=> KernalWire)
       /\ cpc = "send" => (wireSIDGotLow <=> SIDWire)
       /\ mpc \in {"top", "blink", "test"} /\ lastChar # NoKey =>
            /\ wireKernalAvailable <=> KernalWire
            /\ (wireSIDGotLow <=> SIDWire) /\ wireSIDGotHigh

\* Initially nothing has been detected and nothing is claimed.
LEMMA DetectionInit == Init => DetectionInv
  BY SMT DEF Init, DetectionInv

\* Where the client detects it is not halted, nothing is asked of the main loop, and it
\* is served unless the menu has been left.
LEMMA DetectionIsServed ==
  ASSUME HandshakeInv, NoNetInv, ScreenInv,
         cpc \in {"kernal", "wireOff", "sid", "send", "poll"} \/ (cpc = "wireOn" /\ ~dmaLow)
  PROVE  ~updateMenu /\ (~launchKernel => Serving)
  <1>1. ~dmaLow /\ cpc \notin {"off", "reset"}
    BY DEF ScreenInv
  <1>2. ~(updateMenu /\ ~doneWithHandling)
    BY <1>1, SMT DEF NoNetInv
  <1>3. ~(updateMenu /\ doneWithHandling)
    BY <1>1, SMT DEF NoNetInv, HandshakeInv, BetweenStores
  <1> QED
    BY <1>2, <1>3 DEF NoNetInv, Serving

\* A key that waits for the main loop finds the FIQ returning at once.
LEMMA KeyStopsFIQ ==
  ASSUME HandshakeInv, NoNetInv, ~launchKernel, mpc \in {"top", "blink", "test"},
         lastChar # NoKey
  PROVE  updateMenu /\ ~Serving
  BY SMT DEF NoNetInv, HandshakeInv, Serving, BetweenStores

\* What a cycle may show of the wires without being one of the detection.
OnlySeen ==
  /\ UNCHANGED <<wireKernalDetectMode, wireKernalTrackAccess, wireKernalAvailable>>
  /\ wireSIDGotLow' = wireSIDGotLow \/ (SIDWire /\ wireSIDGotLow')
  /\ wireSIDGotHigh' = wireSIDGotHigh \/ wireSIDGotHigh'

\* An access to the SID is seen for what it is.
LEMMA SeenIsSeen ==
  ASSUME UNCHANGED wireVars \/ (UNCHANGED wireKernal /\ (SeeOther \/ SeeSID))
  PROVE  OnlySeen
  BY DEF OnlySeen, SeeOther, SeeSID, wireVars, wireKernal, wireSID

\* An action that is no part of the detection keeps what has been detected, if it gets
\* neither the client into it nor a key to the head of the loop.
LEMMA UndetectedKeeps ==
  ASSUME DetectionInv, OnlySeen,
         cpc' = cpc \/ cpc' \notin {"kernal", "wireOff", "sid", "send"},
         launchKernel' = launchKernel \/ launchKernel',
         mpc' \in {"top", "blink", "test"} =>
           \/ mpc \in {"top", "blink", "test"} /\ lastChar' = lastChar
           \/ lastChar' = NoKey \/ launchKernel'
  PROVE  DetectionInv'
  BY SMT DEF DetectionInv, OnlySeen

\* Without the network code every access of the detection comes to what it should.
LEMMA DetectionNext ==
  ASSUME ~WithNet, TypeOK, HandshakeInv, NoNetInv, ScreenInv, DetectionInv, [Next]_vars
  PROVE  DetectionInv'
<1>1. CASE Boot
  BY <1>1, SeenIsSeen, UndetectedKeeps DEF Boot, Unserved, ClientKeeps, sharedVars
<1>2. CASE Report
  <2>1. OnlySeen
    BY <1>2, SeenIsSeen DEF Report, Unserved
  <2> QED
    BY <1>2, <2>1, UndetectedKeeps DEF Report, Ask, Unserved, ClientKeeps, sharedVars
<1>3. CASE StartTransfer
  <2>1. OnlySeen
    BY <1>3, SeenIsSeen DEF StartTransfer, Unserved
  <2> QED
    BY <1>3, <2>1, UndetectedKeeps DEF StartTransfer, Unserved, ClientKeeps, sharedVars
<1>4. CASE CopyCell
  <2>1. OnlySeen
    BY <1>4, SeenIsSeen DEF CopyCell, Unserved
  <2> QED
    BY <1>4, <2>1, UndetectedKeeps DEF CopyCell, Unserved, sharedVars
<1>5. CASE CallInjected
  <2>1. OnlySeen
    BY <1>5, SeenIsSeen DEF CallInjected, Unserved
  <2> QED
    BY <1>5, <2>1, UndetectedKeeps DEF CallInjected, Unserved, ClientKeeps, sharedVars
<1>6. CASE WireOn
  <2>1. ~updateMenu /\ (~launchKernel => Serving)
    BY <1>6, DetectionIsServed DEF WireOn, CPUCycle
  <2>2. UNCHANGED <<mpc, lastChar, launchKernel>> /\ cpc' = "kernal"
    BY <1>6 DEF WireOn, ClientKeeps, Unserved, sharedVars
  <2>3. ~launchKernel /\ mpc \in {"top", "blink", "test"} => lastChar = NoKey
    BY <2>1, KeyStopsFIQ
  <2>4. wireSIDGotLow' = wireSIDGotLow
    BY <1>6 DEF WireOn, Unserved, SeeOther, wireVars, wireSID
  <2>5. Serving =>
          wireKernalDetectMode' = TRUE /\ wireKernalTrackAccess' = FALSE
            /\ wireKernalAvailable' = FALSE
    BY <1>6 DEF WireOn
  <2> QED
    BY <2>1, <2>2, <2>3, <2>4, <2>5 DEF DetectionInv
<1>7. CASE WireKernalRead
  <2>1. ~updateMenu /\ (~launchKernel => Serving)
    BY <1>7, DetectionIsServed DEF WireKernalRead
  <2>2. UNCHANGED <<mpc, lastChar, launchKernel>> /\ cpc = "kernal" /\ cpc' = "wireOff"
    BY <1>7 DEF WireKernalRead, ClientKeeps, Unserved, sharedVars
  <2>3. ~launchKernel /\ mpc \in {"top", "blink", "test"} => lastChar = NoKey
    BY <2>1, KeyStopsFIQ
  <2>4. wireSIDGotLow' = wireSIDGotLow
    BY <1>7 DEF WireKernalRead, Unserved, SeeOther, wireVars, wireSID
  <2>5. Serving =>
          /\ wireKernalAvailable' = wireKernalAvailable
          /\ IF wireKernalDetectMode /\ KernalWire THEN wireKernalTrackAccess' = TRUE
             ELSE wireKernalTrackAccess' = wireKernalTrackAccess
    BY <1>7 DEF WireKernalRead
  <2> QED
    BY <2>1, <2>2, <2>3, <2>4, <2>5 DEF DetectionInv
<1>8. CASE WireOff
  <2>1. ~updateMenu /\ (~launchKernel => Serving)
    BY <1>8, DetectionIsServed DEF WireOff
  <2>2. /\ UNCHANGED <<mpc, lastChar, launchKernel>>
        /\ cpc = "wireOff" /\ cpc' = "sid"
    BY <1>8 DEF WireOff, ClientKeeps, Unserved, sharedVars
  <2>3. ~launchKernel /\ mpc \in {"top", "blink", "test"} => lastChar = NoKey
    BY <2>1, KeyStopsFIQ
  <2>4. wireSIDGotLow' = wireSIDGotLow
    BY <1>8 DEF WireOff, Unserved, SeeOther, wireVars, wireSID
  <2>5. Serving =>
          IF wireKernalTrackAccess THEN wireKernalAvailable' = TRUE
          ELSE wireKernalAvailable' = wireKernalAvailable
    BY <1>8 DEF WireOff, Detected
  <2> QED
    BY <2>1, <2>2, <2>3, <2>4, <2>5 DEF DetectionInv
<1>9. CASE SIDAccess
  <2>1. ~updateMenu /\ (~launchKernel => Serving)
    BY <1>9, DetectionIsServed DEF SIDAccess
  <2>2. /\ UNCHANGED <<mpc, lastChar, launchKernel, wireKernalAvailable>>
        /\ cpc = "sid" /\ cpc' \in {"start", "send"}
    BY <1>9 DEF SIDAccess, ClientKeeps, Unserved, sharedVars, wireVars, wireKernal
  <2>3. ~launchKernel /\ mpc \in {"top", "blink", "test"} => lastChar = NoKey
    BY <2>1, KeyStopsFIQ
  <2>4. wireSIDGotLow' = wireSIDGotLow \/ (SIDWire /\ wireSIDGotLow')
    BY <1>9 DEF SIDAccess, Unserved, SeeOther, SeeSID, wireVars, wireSID
  <2>5. Serving /\ SIDWire => wireSIDGotLow'
    BY <1>9 DEF SIDAccess, SeeSID
  <2> QED
    BY <2>1, <2>2, <2>3, <2>4, <2>5 DEF DetectionInv
<1>10. CASE SendKey
  <2>1. ~updateMenu /\ (~launchKernel => Serving)
    BY <1>10, DetectionIsServed DEF SendKey
  <2>2. /\ UNCHANGED <<mpc, launchKernel, wireSIDGotLow, wireKernalAvailable>>
        /\ cpc = "send" /\ cpc' \in {"wireOn", "start"}
    BY <1>10 DEF SendKey, ClientKeeps, Unserved, SeeOther, wireVars, wireKernal, wireSID
  <2>3. Serving => wireSIDGotHigh' = TRUE
    BY <1>10 DEF SendKey, SeeOther
  <2> QED
    BY <2>1, <2>2, <2>3 DEF DetectionInv
<1>11. CASE PollNMI \/ TakeNMI \/ CrashingInterrupt \/ Restore \/ \E k \in Keys : PollKey(k)
  BY <1>11, SeenIsSeen, UndetectedKeeps DEF PollNMI, TakeNMI, CrashingInterrupt, Restore,
     PollKey, loopVars, sharedVars
<1>12. CASE Leave
  BY <1>12, SeenIsSeen, UndetectedKeeps DEF Leave, Goto, sharedVars, clientVars
<1>13. CASE Test
  <2>1. /\ UNCHANGED <<lastChar, launchKernel, cpc, wireKernal>> /\ ~launchKernel
        /\ mpc \in {"top", "blink", "test"}
    BY <1>13 DEF Test, sharedVars, clientVars
  <2>2. CASE updateMenu
    <3>1. mpc' = "handle" /\ wireSIDGotLow' = FALSE
      BY <1>13, <2>2 DEF Test, Goto
    <3>2. cpc # "send"
      BY <2>2, DetectionIsServed
    <3> QED
      BY <2>1, <3>1, <3>2 DEF DetectionInv, wireKernal
  <2>3. CASE ~updateMenu
    <3>1. UNCHANGED wireVars /\ lastChar' = NoKey
      BY <1>13, <2>1, <2>3, KeyStopsFIQ DEF Test, wireVars
    <3> QED
      BY <2>1, <3>1, SeenIsSeen, UndetectedKeeps
  <2> QED
    BY <2>2, <2>3
<1>14. CASE Handle
  <2>1. OnlySeen
    BY <1>14 DEF Handle, HandleC64, KernalBack, OnlySeen, wireKernal, wireSID
  <2>2. mpc' = "done" /\ (cpc' = cpc \/ cpc' = "off")
    BY <1>14 DEF Handle, Goto, HandleC64, ResetClient, clientVars
  <2>3. launchKernel' = launchKernel \/ launchKernel'
    <3>1. launchKernel' \in BOOLEAN /\ launchKernel \in BOOLEAN /\ ~launchKernel
      BY <1>14, SMT DEF Handle, HandleC64, NoNetInv, TypeOK, Flags
    <3> QED
      BY <3>1
  <2> QED
    BY <2>1, <2>2, <2>3, UndetectedKeeps
<1>15. CASE MarkDone
  BY <1>15, SeenIsSeen, UndetectedKeeps DEF MarkDone, Goto, clientVars, sharedVars
<1>16. CASE ClearRequest
  <2>1. mpc = "clear"
    BY <1>16 DEF ClearRequest, NoNetInv
  <2>2. lastChar' = NoKey \/ launchKernel'
    BY <1>16, <2>1 DEF ClearRequest, NoNetInv
  <2> QED
    BY <1>16, <2>2, SeenIsSeen, UndetectedKeeps DEF ClearRequest, clientVars
<1>17. CASE \/ HandleWithNetwork \/ RefreshBegin \/ RefreshRender \/ SignalC64 \/ TreatCaches
            \/ NetworkDue \/ PollNetwork
  BY <1>17 DEF HandleWithNetwork, RefreshBegin, RefreshRender, SignalC64, TreatCaches,
     NetworkDue, PollNetwork, NoNetInv
<1>18. CASE Relaunch
  BY <1>18 DEF Relaunch, ResetClient, DetectionInv
<1>19. CASE Button
  <2>1. OnlySeen
    BY <1>19 DEF Button, KernalBack, OnlySeen, wireSID
  <2> QED
    BY <1>19, <2>1, UndetectedKeeps DEF Button, ResetClient, sharedVars
<1>20. CASE VICCycle
  <2>1. OnlySeen
    BY <1>20 DEF VICCycle, SeeOther, OnlySeen
  <2> QED
    BY <1>20, <2>1, UndetectedKeeps DEF VICCycle, clientVars, sharedVars
<1>21. CASE UNCHANGED vars
  BY <1>21, SeenIsSeen, UndetectedKeeps DEF vars, loopVars, sharedVars, wireVars, clientVars
<1>22. CASE C64Reset
  BY <1>22, SeenIsSeen, UndetectedKeeps DEF C64Reset, ResetClient, sharedVars
<1>23. CASE BlinkLoad
  BY <1>23, SeenIsSeen, UndetectedKeeps DEF BlinkLoad, sharedVars, clientVars
<1>24. CASE BlinkStore
  <2>1. OnlySeen
    BY <1>24 DEF BlinkStore, OnlySeen, wireSID
  <2> QED
    BY <1>24, <2>1, UndetectedKeeps DEF BlinkStore, Goto, sharedVars, clientVars
<1> QED
  BY <1>1, <1>2, <1>3, <1>4, <1>5, <1>6, <1>7, <1>8, <1>9, <1>10, <1>11, <1>12, <1>13,
     <1>14, <1>15, <1>16, <1>17, <1>18, <1>19, <1>20, <1>21, <1>22, <1>23, <1>24 DEF Next, Client, MainLoop, User

\* All layers, always, without the network code.
THEOREM NoNetHolds ==
  ASSUME ~WithNet
  PROVE  Spec => [](TypeInv /\ HandshakeInv /\ NoNetInv /\ ScreenInv)
<1> DEFINE Inv == TypeInv /\ HandshakeInv /\ NoNetInv /\ ScreenInv
<1>1. Init => Inv
  BY TypesInit, HandshakeInit, NoNetInit, ScreenInit
<1>2. Inv /\ [Next]_vars => Inv'
  BY FlagsNext, LatchFlagsNext, PointsNext, DataNext, HandshakeNext, NoNetNext, ScreenNext DEF TypeInv, TypeOK
<1> QED
  BY <1>1, <1>2, PTL DEF Spec

\* Without the network code no key is ever lost.
THEOREM NoKeyIsLost ==
  ASSUME ~WithNet
  PROVE  Spec => []NoKeyLost
<1>1. NoNetInv => NoKeyLost
  BY DEF NoNetInv, NoKeyLost
<1> QED
  BY NoNetHolds, <1>1, PTL

\* Without the network code a waiting client shows the page renderC64 left, whole.
THEOREM ScreenIsFresh ==
  ASSUME ~WithNet
  PROVE  Spec => []FreshAtPoll
<1>1. ScreenInv => FreshAtPoll
  BY DEF ScreenInv, FreshAtPoll
<1> QED
  BY NoNetHolds, <1>1, PTL

\* Where the KERNAL may be away: between the two stores of the detection, or where the
\* client has left them by an interrupt or a reset; else latchSetClear has put the bit
\* back, which it can only if it had read it.
KernalInv ==
  /\ raced => kernalOff
  /\ mpc = "blink" /\ raced => latchRead
  /\ kernalOff /\ ~raced => kernalAway
  /\ NoKernal /\ ~raced /\ ~launchKernel => cpc \in Window \cup {"reset", "crashed"}

\* Initially the KERNAL is there.
LEMMA KernalInit == Init => KernalInv
  BY DEF Init, KernalInv, NoKernal

\* Steps that do not touch the latch keep this, if they do not take the client away.
LEMMA LatchKept ==
  ASSUME KernalInv, UNCHANGED <<kernalOff, kernalAway, raced>>,
         mpc' = "blink" => UNCHANGED <<mpc, latchRead>>,
         \/ cpc' = cpc \/ cpc' \in {"reset", "crashed"}
         \/ cpc \notin Window \cup {"reset", "crashed"},
         launchKernel => launchKernel'
  PROVE  KernalInv'
  BY DEF KernalInv, NoKernal

\* So do steps after which the KERNAL is there.
LEMMA LatchCleared ==
  ASSUME kernalOff' = FALSE, kernalAway' = FALSE, raced' = FALSE
  PROVE  KernalInv'
  BY DEF KernalInv, NoKernal

\* Without the network code every step keeps it: the second store is always served.
LEMMA KernalNext ==
  ASSUME ~WithNet, TypeOK, HandshakeInv, NoNetInv, ScreenInv, KernalInv, [Next]_vars
  PROVE  KernalInv'
<1>1. CASE Boot
  BY <1>1 DEF Boot, Unserved, ClientKeeps, CPUCycle, BusCycle, wireVars, wireKernal, KernalInv,
     NoKernal
<1>2. CASE Report \/ StartTransfer \/ CopyCell \/ CallInjected \/ SIDAccess \/ SendKey
  <2>1. UNCHANGED <<kernalOff, kernalAway, raced, mpc, latchRead, launchKernel>>
    BY <1>2 DEF Report, StartTransfer, CopyCell, CallInjected, SIDAccess, SendKey, Unserved,
       ClientKeeps, CPUCycle, BusCycle, wireVars, wireKernal
  <2>2. cpc \notin Window \cup {"reset", "crashed"}
    BY <1>2 DEF Report, StartTransfer, CopyCell, CallInjected, SIDAccess, SendKey, Window
  <2> QED
    BY <2>1, <2>2, LatchKept
<1>3. CASE WireOn
  BY <1>3 DEF WireOn, Unserved, ClientKeeps, CPUCycle, BusCycle, wireVars, wireKernal, KernalInv,
     NoKernal, Window
<1>4. CASE WireKernalRead
  BY <1>4 DEF WireKernalRead, Unserved, ClientKeeps, CPUCycle, BusCycle, wireVars, wireKernal,
     KernalInv, NoKernal, Window
<1>5. CASE WireOff
  <2>1. CASE Serving
    BY <1>5, <2>1, LatchCleared DEF WireOff, Detected
  <2>2. CASE ~Serving
    <3>1. launchKernel
      BY <1>5, <2>2, DetectionIsServed DEF WireOff
    <3> QED
      BY <1>5, <2>2, <3>1 DEF WireOff, Unserved, ClientKeeps, CPUCycle, BusCycle, wireVars,
         wireKernal, KernalInv, NoKernal
  <2> QED
    BY <2>1, <2>2
<1>6. CASE PollNMI \/ TakeNMI \/ CrashingInterrupt \/ Restore \/ (\E k \in Keys : PollKey(k))
           \/ UNCHANGED vars
  BY <1>6, LatchKept DEF PollNMI, TakeNMI, CrashingInterrupt, Restore, PollKey, Window, vars,
     loopVars, wireVars, wireKernal, clientVars
<1>7. CASE Leave \/ Test \/ MarkDone \/ ClearRequest
  BY <1>7, LatchKept DEF Leave, Test, MarkDone, ClearRequest, Goto, wireVars, wireKernal,
     clientVars
<1>8. CASE Handle
  <2>1. CASE UNCHANGED <<wireKernal, clientVars>>
    <3>1. mpc' = "done" /\ ~launchKernel
      BY <1>8 DEF Handle, Goto, NoNetInv
    <3> QED
      BY <2>1, <3>1, LatchKept DEF wireKernal, clientVars
  <2>2. CASE KernalBack
    BY <2>2, LatchCleared DEF KernalBack
  <2> QED
    BY <1>8, <2>1, <2>2 DEF Handle, HandleC64
<1>9. CASE BlinkLoad
  BY <1>9 DEF BlinkLoad, KernalInv, NoKernal, wireVars, wireKernal, clientVars
<1>10. CASE BlinkStore
  <2>1. kernalAway \in BOOLEAN /\ latchRead \in BOOLEAN /\ raced \in BOOLEAN
    BY DEF TypeOK, LatchFlags
  <2> QED
    BY <1>10, <2>1 DEF BlinkStore, Goto, KernalInv, NoKernal, clientVars
<1>11. CASE Relaunch \/ Button
  BY <1>11, LatchCleared DEF Relaunch, Button, KernalBack
<1>12. CASE C64Reset
  <2>1. cpc' = "reset" \/ cpc' = cpc
    BY <1>12 DEF C64Reset, ResetClient
  <2> QED
    BY <1>12, <2>1, LatchKept DEF C64Reset, BusCycle, wireVars, wireKernal
<1>13. CASE VICCycle
  BY <1>13 DEF VICCycle, OutputLatch, BusCycle, KernalInv, NoKernal, NoNetInv, clientVars
<1>14. CASE \/ HandleWithNetwork \/ RefreshBegin \/ RefreshRender \/ SignalC64 \/ TreatCaches
            \/ NetworkDue \/ PollNetwork
  BY <1>14 DEF HandleWithNetwork, RefreshBegin, RefreshRender, SignalC64, TreatCaches,
     NetworkDue, PollNetwork, NoNetInv
<1> QED
  BY <1>1, <1>2, <1>3, <1>4, <1>5, <1>6, <1>7, <1>8, <1>9, <1>10, <1>11, <1>12, <1>13, <1>14
     DEF Next, Client, MainLoop, User

\* Without the network code the C64 never runs open bus instead of the injected code, and
\* its KERNAL is away only between the two stores of wireDetection (an interrupt or a reset
\* in between finds it missing), unless latchSetClear has put the bit back.
THEOREM ClientNeverJams ==
  ASSUME ~WithNet
  PROVE  Spec => []NeverJammed
<1> DEFINE Inv == TypeInv /\ HandshakeInv /\ NoNetInv /\ ScreenInv
<1>1. Inv /\ KernalInv /\ [Next]_vars => KernalInv'
  BY KernalNext DEF TypeInv
<1>2. Inv /\ KernalInv => NeverJammed
  BY DEF ScreenInv, KernalInv, NeverJammed
<1> QED
  BY NoNetHolds, KernalInit, <1>1, <1>2, PTL DEF Spec

\* Without the network code handleC64 is given each key once: a reset of the C64 itself
\* while the request stands neither loses nor repeats it, and after the button of the
\* cartridge no key from before is handled.
THEOREM KeysAreHandledOnce ==
  ASSUME ~WithNet
  PROVE  Spec => KeysHandledOnce
<1>1. NoNetInv => (mpc \in {"handle", "netKey"} /\ lastChar \in Keys => owed = lastChar)
  BY SMT, KeyAssumption DEF NoNetInv
<1>2. NoNetInv /\ [Next]_vars =>
        [(mpc \in {"handle", "netKey"} /\ mpc' # mpc /\ lastChar \in Keys) => owed = lastChar]_vars
  BY <1>1
<1> QED
  BY NoNetHolds, <1>2, PTL DEF KeysHandledOnce, Spec

\* Without the network code detection finds the wires that are there, whatever they are,
\* before every key: no cycle of it is missed or counted for another key
\* (wireDetection of rpimenu.c, FIQHandler 965-981).
THEOREM DetectionIsRight ==
  ASSUME ~WithNet
  PROVE  Spec => WiresDetected
<1> DEFINE Inv == TypeInv /\ HandshakeInv /\ NoNetInv /\ ScreenInv
<1>1. Init => DetectionInv
  BY DetectionInit
<1>2. Inv /\ DetectionInv /\ [Next]_vars => DetectionInv'
  BY DetectionNext DEF TypeInv
<1>3. Inv /\ DetectionInv /\ [Next]_vars =>
        [(mpc \in {"top", "test"} /\ updateMenu /\ mpc' \in {"handle", "netKey"}
            /\ lastChar \in Keys)
           => wireSIDAvailable' = SIDWire /\ wireKernalAvailable = KernalWire]_vars
  <2> SUFFICES ASSUME Inv, DetectionInv, [Next]_vars, mpc \in {"top", "test"}, updateMenu,
                      mpc' \in {"handle", "netKey"}, lastChar \in Keys
               PROVE  wireSIDAvailable' = SIDWire /\ wireKernalAvailable = KernalWire
    OBVIOUS
  <2>1. Test
    BY DEF Next, Client, MainLoop, User, vars, Boot, Report, StartTransfer, CopyCell,
       CallInjected, WireOn, WireKernalRead, WireOff, SIDAccess, SendKey, PollNMI, TakeNMI,
       CrashingInterrupt, Restore, C64Reset, PollKey, Leave, BlinkLoad, BlinkStore, Handle,
       HandleWithNetwork, MarkDone, ClearRequest, RefreshBegin, RefreshRender, SignalC64,
       TreatCaches, NetworkDue, PollNetwork, Relaunch, Button, VICCycle, ClientKeeps, Goto,
       loopVars
  <2>2. ~launchKernel /\ lastChar # NoKey
    BY <2>1, KeyAssumption DEF Test
  <2>3. /\ wireKernalAvailable <=> KernalWire
        /\ (wireSIDGotLow <=> SIDWire) /\ wireSIDGotHigh
    BY <2>2 DEF DetectionInv
  <2>4. IF wireSIDGotLow /\ wireSIDGotHigh THEN wireSIDAvailable' = TRUE
        ELSE wireSIDAvailable' = FALSE
    BY <2>1 DEF Test
  <2>5. wireKernalAvailable \in BOOLEAN /\ KernalWire \in BOOLEAN /\ SIDWire \in BOOLEAN
    BY BuildAssumption DEF TypeInv, TypeOK, Flags
  <2> QED
    BY <2>3, <2>4, <2>5
<1> QED
  BY NoNetHolds, <1>1, <1>2, <1>3, PTL DEF Spec, WiresDetected
-----------------------------------------------------------------------------
(* The menu service.  What the user sees is a page while the client polls; *)
(* at every other time the client is busy, and what it is busy with is     *)
(* bound to the request that stands: the invariants above say that a page  *)
(* is drawn only then, and ClientInv that the dummy keypresses of the      *)
(* start are over when the user can type.                                  *)

\* The dummy keypresses carry no key and come before the first page; only they are
\* followed by a detection for which the C64 is halted.
ClientInv ==
  /\ cpc = "poll" => dummies = 0 /\ key = NoKey
  /\ dummies > 0 => key = NoKey
  /\ dmaLow /\ cpc = "wireOn" => dummies > 0 /\ owed = NoKey

\* The actions of others keep where the client is, and do not halt the C64.
LEMMA OthersKeepClient ==
  ASSUME ClientInv, UNCHANGED <<cpc, key, dummies>>, dmaLow' => dmaLow,
         owed' \in {owed, NoKey}
  PROVE  ClientInv'
  BY DEF ClientInv

\* So does a client that is not halted and goes on, outside of its polling loop.
LEMMA ClientGoesOn ==
  ASSUME ClientInv, UNCHANGED <<key, dummies>>, cpc' \notin {"poll", "wireOn"}
  PROVE  ClientInv'
  BY DEF ClientInv

\* Every step keeps it.
LEMMA ClientNext ==
  ASSUME Points, ClientInv, [Next]_vars
  PROVE  ClientInv'
<1>1. CASE Boot \/ Report \/ StartTransfer \/ WireOn \/ WireKernalRead \/ WireOff \/ SIDAccess
  BY <1>1, ClientGoesOn DEF Boot, Report, StartTransfer, WireOn, WireKernalRead, WireOff,
     SIDAccess
<1>2. CASE CopyCell
  BY <1>2, ClientGoesOn DEF CopyCell
<1>3. CASE CallInjected
  BY <1>3, SMT DEF CallInjected, CPUCycle, Unserved, ClientInv, Points
<1>4. CASE SendKey
  BY <1>4, SMT DEF SendKey, ClientInv, Points
<1>5. CASE PollNMI \/ \E k \in Keys : PollKey(k)
  BY <1>5, SMT DEF PollNMI, PollKey, ClientInv, Points
<1>6. CASE TakeNMI \/ Restore \/ Leave \/ BlinkLoad \/ BlinkStore \/ Test \/ MarkDone
           \/ ClearRequest \/ RefreshBegin \/ RefreshRender \/ SignalC64 \/ TreatCaches
           \/ NetworkDue \/ PollNetwork \/ UNCHANGED vars
  BY <1>6, OthersKeepClient DEF TakeNMI, Restore, Leave, BlinkLoad, BlinkStore, Test, MarkDone,
     ClearRequest, RefreshBegin, RefreshRender, SignalC64, TreatCaches, NetworkDue, PollNetwork,
     vars, clientVars
<1>9. CASE CrashingInterrupt
  BY <1>9, ClientGoesOn DEF CrashingInterrupt
<1>7. CASE Handle \/ HandleWithNetwork \/ Relaunch \/ Button \/ C64Reset
  <2>1. CASE UNCHANGED <<clientVars, dmaLow>> /\ owed' \in {owed, NoKey}
    BY <2>1, OthersKeepClient DEF clientVars
  <2>2. CASE cpc' \in {"off", "reset"} /\ key' = NoKey
    BY <2>2 DEF ClientInv
  <2> QED
    BY <1>7, <2>1, <2>2 DEF Handle, HandleWithNetwork, HandleC64, Relaunch, Button, C64Reset,
       ResetClient
<1>8. CASE VICCycle
  BY <1>8, OthersKeepClient DEF VICCycle, CountDown, clientVars
<1> QED
  BY <1>1, <1>2, <1>3, <1>4, <1>5, <1>6, <1>7, <1>8, <1>9 DEF Next, Client, MainLoop, User

\* Where the client shows a page or detects the wires, no key is owed: the main loop has
\* answered.
LEMMA NothingOwed ==
  ASSUME HandshakeInv, NoNetInv, ScreenInv, ~launchKernel,
         cpc \in {"inject", "kernal", "wireOff", "sid", "send", "poll"}
  PROVE  owed = NoKey
<1>1. ~dmaLow /\ cpc \notin {"off", "reset"}
  BY DEF ScreenInv
<1>2. ~updateMenu
  BY <1>1, SMT DEF HandshakeInv, NoNetInv, BetweenStores, RefreshPoints
<1> QED
  BY <1>2 DEF NoNetInv

\* A client that runs, and is not halted, is owed no key.
LEMMA NotHalted ==
  ASSUME HandshakeInv, NoNetInv, ~launchKernel, ~dmaLow, cpc \notin {"off", "reset"}
  PROVE  owed = NoKey
<1>1. ~updateMenu
  BY SMT DEF HandshakeInv, NoNetInv, BetweenStores
<1> QED
  BY <1>1 DEF NoNetInv

\* Where the client is about to detect the wires, no key is owed.
LEMMA NoneOwedAtDetection ==
  ASSUME HandshakeInv, NoNetInv, ClientInv, ~launchKernel, cpc = "wireOn"
  PROVE  owed = NoKey
<1>1. CASE dmaLow
  BY <1>1 DEF ClientInv
<1>2. CASE ~dmaLow
  BY <1>2, NotHalted
<1> QED
  BY <1>1, <1>2

\* When a request is handled, no page is shown, and the key in lastChar is all that the
\* user is owed.
LEMMA RequestIsAll ==
  ASSUME TypeInv, HandshakeInv, NoNetInv, ScreenInv, ClientInv, mpc = "handle"
  PROVE  /\ ServiceShown = {} /\ ServiceKey \in {NoKey, owed}
         /\ owed \in {NoKey, lastChar}
         /\ cpc \notin Detecting \/ (cpc = "wireOn" /\ key = NoKey)
<1>1. ~launchKernel /\ updateMenu /\ ~doneWithHandling
  BY SMT DEF NoNetInv, HandshakeInv, BetweenStores
<1>2. dmaLow \/ cpc = "off"
  BY <1>1, SMT DEF NoNetInv
<1>3. cpc \in {"reset", "vic", "sidkick", "start", "wireOn", "off"}
  BY <1>2, SMT DEF ScreenInv
<1>4. cpc = "wireOn" => key = NoKey
  BY <1>2, SMT DEF ClientInv, TypeInv, TypeOK, Points
<1>5. owed \in {NoKey, lastChar}
  BY <1>1 DEF NoNetInv
<1> QED
  BY <1>1, <1>3, <1>4, <1>5 DEF ServiceShown, ServiceKey, Detecting

\* An action that touches neither the page nor whom it is for is no step of the service.
LEMMA ServiceKeeps ==
  ASSUME UNCHANGED <<menuScreen, launchKernel, cpc, key, owed>>,
         screen' = screen \/ cpc # "poll"
  PROVE  UNCHANGED Service!serviceVars
  BY DEF Service!serviceVars, ServiceShown, ServiceKey

\* Nor is one of a client that is busy and goes on to be busy.
LEMMA BusyGoesOn ==
  ASSUME UNCHANGED <<menuScreen, launchKernel, owed, key>>,
         cpc # "poll", cpc' # "poll",
         cpc \in Detecting <=> cpc' \in Detecting
  PROVE  UNCHANGED Service!serviceVars
  BY DEF Service!serviceVars, ServiceShown, ServiceKey

\* Once a kernel has been chosen nothing is a step of the service until it returns.
LEMMA ChosenKeeps ==
  ASSUME NoNetInv, ~WithNet, launchKernel, [Next]_vars
  PROVE  UNCHANGED Service!serviceVars
<1>1. CASE UNCHANGED <<menuScreen, launchKernel>>
  BY <1>1 DEF Service!serviceVars, ServiceShown, ServiceKey
<1>2. CASE Relaunch
  BY <1>2 DEF Relaunch, ResetClient, Service!serviceVars, ServiceShown, ServiceKey, Detecting
<1>3. UNCHANGED <<menuScreen, launchKernel>> \/ Relaunch
  <2>1. ~Handle /\ ~HandleWithNetwork /\ ~RefreshRender /\ ~PollNetwork
    BY DEF NoNetInv, Handle, HandleWithNetwork, RefreshRender, PollNetwork
  <2> QED
    BY <2>1 DEF Next, Client, MainLoop, User, Boot, Report, StartTransfer, CopyCell, CallInjected,
       WireOn, WireKernalRead, WireOff, SIDAccess, SendKey, PollNMI, TakeNMI, CrashingInterrupt,
       Restore, C64Reset, PollKey, Leave, BlinkLoad, BlinkStore, Test, MarkDone, ClearRequest,
       RefreshBegin, SignalC64, TreatCaches, NetworkDue, Button, VICCycle, ClientKeeps, loopVars,
       vars
<1> QED
  BY <1>1, <1>2, <1>3

\* Every step is one of the service, or none.
LEMMA StepIsService ==
  ASSUME ~WithNet, TypeInv, HandshakeInv, NoNetInv, ScreenInv, ClientInv, ScreenInv', ClientInv',
         TypeInv', [Next]_vars
  PROVE  [Service!Next]_(Service!serviceVars)
<1> SUFFICES ASSUME ~launchKernel
             PROVE  [Service!Next]_(Service!serviceVars)
  BY ChosenKeeps
<1>1. CASE Boot \/ Report \/ StartTransfer \/ CopyCell \/ WireOn \/ WireKernalRead \/ SIDAccess
  BY <1>1, BusyGoesOn, NothingOwed DEF Boot, Report, StartTransfer, CopyCell, WireOn,
     WireKernalRead, SIDAccess, ClientKeeps, Detecting, ServiceKey, Service!serviceVars,
     ServiceShown
<1>2. CASE WireOff
  BY <1>2, BusyGoesOn DEF WireOff, ClientKeeps, Detecting
<1>3. CASE CallInjected
  <2>1. owed = NoKey
    BY <1>3, NothingOwed DEF CallInjected
  <2>2. CASE cpc' = "wireOn"
    BY <1>3, <2>1, <2>2 DEF CallInjected, ClientKeeps, ServiceKey, ServiceShown, Detecting,
       Service!serviceVars
  <2>3. CASE cpc' = "poll"
    <3>1. screen' = Whole(menuScreen)
      BY <1>3, <2>3 DEF CallInjected, ClientKeeps, ScreenInv
    <3> QED
      BY <1>3, <2>1, <2>3, <3>1 DEF CallInjected, ClientKeeps, ServiceKey, ServiceShown,
         Detecting, Service!Next, Service!Show
  <2>4. cpc' # "jammed"
    BY <1>3 DEF CallInjected, ClientKeeps, ScreenInv
  <2> QED
    BY <1>3, <2>2, <2>3, <2>4 DEF CallInjected
<1>4. CASE SendKey
  <2>1. CASE dummies = 2
    <3>1. key = NoKey
      BY <2>1, SMT DEF ClientInv
    <3> QED
      BY <1>4, <2>1, <3>1 DEF SendKey, ClientKeeps, ServiceKey, ServiceShown, Detecting,
         Service!serviceVars
  <2>2. CASE dummies # 2
    BY <1>4, <2>2 DEF SendKey, ClientKeeps, ServiceKey, ServiceShown, Detecting,
       Service!serviceVars
  <2> QED
    BY <2>1, <2>2
<1>5. CASE \E k \in Keys : PollKey(k)
  BY <1>5 DEF PollKey, loopVars, ServiceKey, ServiceShown, Detecting, Service!Next, Service!Type
<1>6. CASE PollNMI
  BY <1>6 DEF PollNMI, loopVars, ClientInv, ServiceKey, ServiceShown, Detecting, Service!Next,
     Service!Restart
<1>7. CASE TakeNMI \/ Restore \/ Leave \/ BlinkLoad \/ BlinkStore \/ Test \/ MarkDone
           \/ ClearRequest \/ VICCycle \/ UNCHANGED vars
  BY <1>7, ServiceKeeps DEF TakeNMI, Restore, Leave, BlinkLoad, BlinkStore, Test, MarkDone,
     ClearRequest, VICCycle, vars, loopVars, clientVars
<1>11. CASE CrashingInterrupt
  <2>1. /\ ~dmaLow /\ cpc \notin {"off", "reset"} /\ cpc' = "crashed"
        /\ UNCHANGED <<menuScreen, launchKernel, key, owed>>
    BY <1>11 DEF CrashingInterrupt, Stopped, loopVars
  <2>2. owed = NoKey
    BY <2>1, NotHalted
  <2> QED
    BY <2>1, <2>2 DEF ServiceKey, ServiceShown, Detecting, Service!Next, Service!Restart
<1>12. CASE C64Reset
  <2>1. /\ UNCHANGED <<menuScreen, launchKernel, owed, dmaLow>>
        /\ cpc' \in {"off", "reset"} /\ key' = NoKey
    BY <1>12 DEF C64Reset, ResetClient
  <2>2. CASE owed = NoKey
    BY <2>1, <2>2 DEF ServiceKey, ServiceShown, Detecting, Service!Next, Service!Restart
  <2>3. CASE owed # NoKey
    <3>1. cpc \notin Detecting \cup {"poll"}
      BY <2>3, NothingOwed, NoneOwedAtDetection DEF Detecting
    <3> QED
      BY <2>1, <3>1 DEF ServiceKey, ServiceShown, Detecting, Service!serviceVars
  <2> QED
    BY <2>2, <2>3
<1>8. CASE HandleWithNetwork \/ RefreshBegin \/ RefreshRender \/ SignalC64 \/ TreatCaches
           \/ NetworkDue \/ PollNetwork \/ Relaunch
  BY <1>8 DEF HandleWithNetwork, RefreshBegin, RefreshRender, SignalC64, TreatCaches, NetworkDue,
     PollNetwork, Relaunch, NoNetInv
<1>9. CASE Handle
  <2>1. /\ ServiceShown = {} /\ owed \in {NoKey, lastChar}
        /\ cpc \notin Detecting \/ (cpc = "wireOn" /\ key = NoKey)
    BY <1>9, RequestIsAll DEF Handle
  <2>2. Whole(menuScreen)' \in ServicePages
    BY <1>9 DEF Handle, RenderC64, ServicePages, Whole
  <2>3. cpc # "poll"
    BY <2>1 DEF ServiceShown
  <2>4. CASE UNCHANGED clientVars /\ owed' = IF owed = lastChar THEN NoKey ELSE owed
    <3>1. owed' = NoKey
      BY <2>1, <2>4
    <3>2. ServiceShown' = {} /\ ServiceKey' = NoKey
      BY <2>1, <2>3, <2>4, <3>1 DEF clientVars, ServiceShown, ServiceKey
    <3> QED
      BY <2>1, <2>2, <3>2 DEF Service!Next, Service!Answer
  <2>5. CASE ResetClient("off") /\ owed' = NoKey
    <3>1. ServiceShown' = {} /\ ServiceKey' = NoKey
      BY <2>5 DEF ResetClient, ServiceShown, ServiceKey, Detecting
    <3> QED
      BY <2>1, <2>2, <3>1 DEF Service!Next, Service!Answer
  <2> QED
    BY <1>9, <2>4, <2>5 DEF Handle, HandleC64
<1>10. CASE Button
  BY <1>10 DEF Button, ResetClient, ServiceShown, ServiceKey, Detecting, Service!Next,
     Service!Restart
<1> QED
  BY <1>1, <1>2, <1>3, <1>4, <1>5, <1>6, <1>7, <1>8, <1>9, <1>10, <1>11, <1>12 DEF Next, Client,
     MainLoop, User

\* The menu kernel, its client and the bus together implement the menu service: however
\* the cycles of the C64 fall between the statements of the main loop, each key is handled
\* once before a page is shown again, and what is shown is what was drawn last, whole.
THEOREM KernelServesMenu ==
  ASSUME ~WithNet
  PROVE  Spec => ServesMenu
<1> DEFINE Inv == TypeInv /\ HandshakeInv /\ NoNetInv /\ ScreenInv
<1>1. Init => Service!Init /\ ClientInv
  BY DEF Init, Service!Init, ServicePages, ServiceShown, ServiceKey, Detecting, ClientInv
<1>2. Inv /\ ClientInv /\ [Next]_vars => ClientInv'
  BY ClientNext DEF TypeInv, TypeOK
<1>3. Inv /\ Inv' /\ ClientInv /\ ClientInv' /\ [Next]_vars => [Service!Next]_(Service!serviceVars)
  BY StepIsService
<1> QED
  BY NoNetHolds, <1>1, <1>2, <1>3, PTL DEF Spec, ServesMenu, Service!Spec
============================================================================
