--------------------------- MODULE SidekickNetProofs ---------------------------
(***************************************************************************)
(* The network side of the menu, for any sets of file types, keys and      *)
(* refresh timeouts.                                                       *)
(*                                                                         *)
(* The argument for the payloads: as long as no two have been on their     *)
(* way at the same time, the one there is goes through its stages one      *)
(* after the other, and whatever else writes a name or the buffer would be *)
(* a second one.  The argument for the keys: a refresh is queued only when *)
(* a page is drawn, and then no key of the user is left in the queue, or   *)
(* there is no page but an address.                                        *)
(***************************************************************************)
EXTENDS SidekickNet, TLAPS

(* The types, one group for each part of the state. *)

MenuTypes ==
  /\ at \in {"menu", "launcher", "other", "reboot"} /\ pc \in Points
  /\ launchKernel \in {"none", "launcher", "other"} /\ currentKernelRunning \in {"m", "l"}
  /\ modem \in {"none", "configured", "unlocked"}
  /\ doRender \in BOOLEAN /\ disableCart \in BOOLEAN /\ fiqOn \in BOOLEAN
LinkTypes ==
  /\ isActive \in BOOLEAN /\ webServer \in BOOLEAN /\ netEnableWebserver \in BOOLEAN
  /\ isNetworkInitQueued \in BOOLEAN /\ queueDelay \in 0 .. 1
RefreshTypes ==
  /\ sktpRefreshTimeout \in Timeouts \cup {0}
  /\ skipSktpRefresh \in 0 .. sktpRefreshTimeout + 1
ScreenTypes ==
  /\ isSktpScreenActive \in BOOLEAN /\ sktpSession \in 0 .. 2
  /\ sktpContent \in {"none", "page", "text", "url"} /\ longResponse \in BOOLEAN
KeyTypes == isSktpKeypressQueued \in BOOLEAN /\ sktpKey \in Keys \cup {NoKey}
DownloadTypes ==
  /\ isCSDBDownloadQueued \in BOOLEAN /\ isCSDBDownloadSavingQueued \in BOOLEAN
  /\ isDownloadReady \in BOOLEAN /\ isDownloadReadyForLaunch \in BOOLEAN
  /\ bSaveCSDBDownload2SD \in BOOLEAN
PayloadTypes ==
  /\ path \in Downloads \cup {NoFile} /\ savePath \in Downloads \cup {NoFile}
  /\ name \in Names /\ prgDataLaunch \in Bytes
ReturnTypes ==
  /\ isRebootRequested \in BOOLEAN /\ rebootDue \in BOOLEAN
  /\ isReturnToMenuRequested \in BOOLEAN /\ isMenuScreenUpdateNeeded \in BOOLEAN
HistoryTypes ==
  /\ deliveries \subseteq Uploads \cup Downloads \cup {Page, Local}
  /\ overlapped \in BOOLEAN

\* The parts of the type invariant.
LEMMA TypeParts ==
  TypeOK <=> /\ MenuTypes /\ LinkTypes /\ RefreshTypes /\ ScreenTypes /\ KeyTypes
             /\ DownloadTypes /\ PayloadTypes /\ ReturnTypes /\ HistoryTypes
  BY DEF TypeOK, MenuTypes, LinkTypes, RefreshTypes, ScreenTypes, KeyTypes,
         DownloadTypes, PayloadTypes, ReturnTypes, HistoryTypes
-----------------------------------------------------------------------------
(* What the groups of actions leave alone *)

\* What the user asks for, apart from the SKTP browser.
Asks == NoNetworkKey \/ ExitToBasic \/ Button \/ PressConnect \/ PressWebserver \/ PressModem
        \/ \E kernel \in {"launcher", "other"} : PickLocal(kernel)
\* What changes the kernel that runs.
Switches == Reboot \/ LeaveMenu \/ UserReturns \/ LauncherReturns
\* A pass begins or the timer of a reboot goes off.
Passes == LauncherPass \/ PeriodicPass \/ RebootTimer
\* The SKTP browser, and the web server.
Browses == LeaveSktp \/ \E k \in Keys \cup {NoKey} : PressSktp(k)
Serves == OpenUploadPage \/ UploadKernel \/ \E t \in Types : Upload(t)
\* What handleQueuedNetworkAction does, in its order, and the answers it gets.
Links == Delay \/ Offline \/ Connect \/ TimeUpdated
Queues == BeginDownload \/ BeginKeypress \/ DropKeypress \/ DropRefresh \/ NothingQueued
Answers == SessionAnswer \/ PageAnswer
           \/ \E t \in Types, save \in BOOLEAN : DownloadAnswer(t, save)
\* What the menu does with payloads, and its end of the pass.
Downloading == Downloaded \/ Launch \/ NothingToLaunch
Saves == Save \/ NothingToSave \/ Finished \/ NothingFinished
Renders == Refresh \/ Render

\* Every action belongs to one of the groups.
LEMMA Groups ==
  Next <=> \/ Asks \/ Switches \/ Passes \/ Browses \/ Serves \/ Links \/ Queues \/ Answers
           \/ Downloading \/ Saves \/ Renders
  BY DEF Next, User, Web, Work, Server, SwiftLinkPass, LauncherLooks, Asks, Switches, Passes,
         Browses, Serves, Links, Queues, Answers, Downloading, Saves, Renders

\* The connection.
LEMMA KeepsLink ==
  ASSUME Switches \/ Passes \/ Serves \/ Answers \/ Downloading \/ Saves
  PROVE  UNCHANGED linkVars
  BY DEF Switches, Reboot, LeaveMenu, UserReturns, LauncherReturns, Passes,
         LauncherPass, PeriodicPass, RebootTimer, Serves, OpenUploadPage, UploadKernel,
         Upload, Answers, SessionAnswer, PageAnswer, DownloadAnswer, KeypressDone,
         Downloading, Downloaded, Launch, NothingToLaunch, Saves, Save, NothingToSave,
         Finished, NothingFinished

\* The refresh timer.
LEMMA KeepsRefresh ==
  ASSUME Asks \/ Switches \/ Passes \/ Browses \/ Serves \/ Links \/ Answers \/ Downloading \/ Saves
  PROVE  UNCHANGED refreshVars
  BY DEF Asks, NoNetworkKey, ExitToBasic, Button, PressConnect, PressWebserver, PressModem,
         PickLocal, Switches, Reboot, LeaveMenu, UserReturns, LauncherReturns, Passes,
         LauncherPass, PeriodicPass, RebootTimer, Browses, LeaveSktp, PressSktp, Serves,
         OpenUploadPage, UploadKernel, Upload, Links, Delay, Offline, Connect,
         TimeUpdated, Answers, SessionAnswer, PageAnswer, DownloadAnswer, KeypressDone,
         Downloading, Downloaded, Launch, NothingToLaunch, Saves, Save, NothingToSave,
         Finished, NothingFinished

\* The screen of the SKTP browser.
LEMMA KeepsScreen ==
  ASSUME Asks \/ Switches \/ Passes \/ Serves \/ Links \/ Downloaded \/ NothingToLaunch \/ Saves \/ Renders
  PROVE  UNCHANGED screenVars
  BY DEF Asks, NoNetworkKey, ExitToBasic, Button, PressConnect, PressWebserver, PressModem,
         PickLocal, Switches, Reboot, LeaveMenu, UserReturns, LauncherReturns, Passes,
         LauncherPass, PeriodicPass, RebootTimer, Serves, OpenUploadPage, UploadKernel,
         Upload, Links, Delay, Offline, Connect, TimeUpdated, Downloaded,
         NothingToLaunch, Saves, Save, NothingToSave, Finished, NothingFinished,
         Renders, Refresh, Render, RenderKeeps

\* The key for the SKTP server.
LEMMA KeepsKeys ==
  ASSUME Asks \/ Switches \/ Passes \/ Serves \/ Links \/ Downloading \/ NothingToSave \/ Finished \/ NothingFinished \/ LeaveSktp
  PROVE  UNCHANGED keyVars
  BY DEF Asks, NoNetworkKey, ExitToBasic, Button, PressConnect, PressWebserver, PressModem,
         PickLocal, Switches, Reboot, LeaveMenu, UserReturns, LauncherReturns, Passes,
         LauncherPass, PeriodicPass, RebootTimer, Serves, OpenUploadPage, UploadKernel,
         Upload, Links, Delay, Offline, Connect, TimeUpdated, Downloading, Downloaded,
         Launch, NothingToLaunch, NothingToSave, Finished, NothingFinished, LeaveSktp

\* Downloads, and the buffer.
LEMMA KeepsDownload ==
  ASSUME NoNetworkKey \/ ExitToBasic \/ Button \/ PressConnect \/ PressWebserver \/ PressModem \/ Switches \/ Passes \/ Browses \/ UploadKernel \/ Links \/ BeginKeypress \/ DropKeypress \/ DropRefresh \/ NothingQueued \/ SessionAnswer \/ PageAnswer \/ NothingToLaunch \/ NothingToSave \/ NothingFinished \/ Renders
  PROVE  UNCHANGED downloadVars
  BY DEF NoNetworkKey, ExitToBasic, Button, PressConnect, PressWebserver, PressModem, Switches,
         Reboot, LeaveMenu, UserReturns, LauncherReturns, Passes, LauncherPass,
         PeriodicPass, RebootTimer, Browses, LeaveSktp, PressSktp, UploadKernel, Links,
         Delay, Offline, Connect, TimeUpdated, BeginKeypress, DropKeypress, DropRefresh,
         NothingQueued, SessionAnswer, PageAnswer, NothingToLaunch, NothingToSave,
         NothingFinished, Renders, Refresh, Render, RenderKeeps

\* The reasons to give way.
LEMMA KeepsReturn ==
  ASSUME Asks \/ Browses \/ Links \/ Queues \/ Answers \/ Downloading \/ Saves \/ Renders
  PROVE  UNCHANGED returnVars
  BY DEF Asks, NoNetworkKey, ExitToBasic, Button, PressConnect, PressWebserver, PressModem,
         PickLocal, Browses, LeaveSktp, PressSktp, Links, Delay, Offline, Connect,
         TimeUpdated, Queues, BeginDownload, BeginKeypress, DropKeypress, DropRefresh,
         NothingQueued, Online, Answers, SessionAnswer, PageAnswer, DownloadAnswer,
         KeypressDone, Downloading, Downloaded, Launch, NothingToLaunch, Saves, Save,
         NothingToSave, Finished, NothingFinished, Renders, Refresh, Render, RenderKeeps

\* What is on its way.
LEMMA KeepsHistory ==
  ASSUME NoNetworkKey \/ ExitToBasic \/ Button \/ PressConnect \/ PressWebserver \/ PressModem \/ Reboot \/ UserReturns \/ LauncherReturns \/ Passes \/ Browses \/ UploadKernel \/ Links \/ Queues \/ SessionAnswer \/ PageAnswer \/ NothingToLaunch \/ Save \/ NothingToSave \/ NothingFinished \/ Renders
  PROVE  UNCHANGED history
  BY DEF NoNetworkKey, ExitToBasic, Button, PressConnect, PressWebserver, PressModem, Reboot,
         UserReturns, LauncherReturns, Passes, LauncherPass, PeriodicPass, RebootTimer,
         Browses, LeaveSktp, PressSktp, UploadKernel, Links, Delay, Offline, Connect,
         TimeUpdated, Queues, BeginDownload, BeginKeypress, DropKeypress, DropRefresh,
         NothingQueued, Online, SessionAnswer, PageAnswer, NothingToLaunch, Save,
         NothingToSave, NothingFinished, Renders, Refresh, Render, RenderKeeps
-----------------------------------------------------------------------------
(* Types *)

\* What runs and where its main task is.
LEMMA StepKeepsMenuTypes == TypeOK /\ Next => MenuTypes'
  <1> SUFFICES ASSUME TypeOK, Next PROVE MenuTypes'
    OBVIOUS
  <1>0. MenuTypes /\ \A p \in {"yield", "dispatch", "loop", "connect", "time", "session",
                               "keypress", "download", "launch", "save", "finished",
                               "render", "hung"} : p \in Points
    BY TypeParts DEF Points, YieldPoints
  <1>1. CASE Asks
    BY <1>0, <1>1 DEF Asks, NoNetworkKey, ExitToBasic, Button, PressConnect, PressWebserver, PressModem,
                      PickLocal, RequestHandled, StartPass, menuVars, MenuTypes
  <1>2. CASE Switches
    BY <1>0, <1>2 DEF Switches, Reboot, LeaveMenu, UserReturns, LauncherReturns, BackToMenu,
                      menuVars, MenuTypes
  <1>3. CASE Passes \/ Browses
    BY <1>0, <1>3 DEF Passes, LauncherPass, PeriodicPass, RebootTimer, Browses, LeaveSktp,
                      PressSktp, RequestHandled, StartPass, menuVars, MenuTypes
  <1>4. CASE Serves \/ Saves
    BY <1>0, <1>4 DEF Serves, OpenUploadPage, UploadKernel, Upload, Saves, Save,
                      NothingToSave, Finished, NothingFinished, menuVars, MenuTypes
  <1>5. CASE Links
    BY <1>0, <1>5 DEF Links, Delay, Offline, Connect, TimeUpdated, ActionDone, menuVars,
                      MenuTypes
  <1>6. CASE Queues
    BY <1>0, <1>6 DEF Queues, BeginDownload, BeginKeypress, DropKeypress, DropRefresh,
                      NothingQueued, Online, ActionDone, menuVars, MenuTypes
  <1>7. CASE Answers
    BY <1>0, <1>7 DEF Answers, SessionAnswer, PageAnswer, DownloadAnswer, KeypressDone,
                      ActionDone, menuVars, MenuTypes
  <1>8. CASE Downloading
    BY <1>0, <1>8 DEF Downloading, Downloaded, Launch, KernelFor, NothingToLaunch, ActionDone,
                      menuVars, MenuTypes
  <1>9. CASE Renders
    BY <1>0, <1>9 DEF Renders, Refresh, Render, RenderKeeps, RenderC64, PageWithTimeout,
                      menuVars, MenuTypes
  <1> QED
    BY <1>1, <1>2, <1>3, <1>4, <1>5, <1>6, <1>7, <1>8, <1>9, Groups

\* The connection and its queue.
LEMMA StepKeepsLinkTypes == TypeOK /\ Next => LinkTypes'
  <1> SUFFICES ASSUME TypeOK, Next PROVE LinkTypes'
    OBVIOUS
  <1>0. LinkTypes
    BY TypeParts
  <1>1. CASE UNCHANGED linkVars
    BY <1>0, <1>1 DEF linkVars, LinkTypes
  <1>2. CASE Asks
    <2>1. CASE PressConnect
      BY <1>0, <2>1 DEF PressConnect, LinkTypes
    <2>2. CASE PressWebserver
      BY <1>0, <2>2 DEF PressWebserver, LinkTypes
    <2> QED
      BY <1>1, <1>2, <2>1, <2>2
         DEF Asks, NoNetworkKey, ExitToBasic, Button, PressModem, PickLocal, linkVars
  <1>3. CASE Browses
    BY <1>0, <1>3 DEF Browses, LeaveSktp, PressSktp, QueueSktpKeypress, linkVars, LinkTypes
  <1>4. CASE Links
    <2>1. webServer' \in BOOLEAN /\ isActive' \in BOOLEAN
      BY <1>0, <1>4 DEF Links, Delay, Offline, Connect, TimeUpdated, AtDispatch,
                        StartWebServer, LinkTypes
    <2>2. /\ netEnableWebserver' = netEnableWebserver
          /\ isNetworkInitQueued' = isNetworkInitQueued \/ isNetworkInitQueued' = FALSE
      BY <1>4 DEF Links, Delay, Offline, Connect, TimeUpdated, InitOver
    <2>3. queueDelay' \in 0 .. 1
      <3>1. CASE Delay
        BY <1>0, <3>1 DEF Delay, Delayed, LinkTypes
      <3>2. CASE Offline \/ Connect \/ TimeUpdated
        BY <1>0, <3>2 DEF Offline, Connect, TimeUpdated, LinkTypes
      <3> QED
        BY <1>4, <3>1, <3>2 DEF Links
    <2> QED
      BY <1>0, <2>1, <2>2, <2>3 DEF LinkTypes
  <1>5. CASE Queues
    BY <1>0, <1>5 DEF Queues, BeginDownload, BeginKeypress, DropKeypress, DropRefresh,
                      NothingQueued, Online, AtDispatch, StartWebServer, LinkTypes
  <1>6. CASE Renders
    BY <1>0, <1>6 DEF Renders, Refresh, Render, RenderKeeps, RenderC64, PageWithTimeout,
                      QueueSktpKeypress, LinkTypes
  <1> QED
    BY <1>1, <1>2, <1>3, <1>4, <1>5, <1>6, Groups, KeepsLink

\* The refresh timer counts to at most one more than it is to.
LEMMA StepKeepsRefreshTypes == TypeOK /\ Next => RefreshTypes'
  <1> SUFFICES ASSUME TypeOK, Next PROVE RefreshTypes'
    OBVIOUS
  <1> USE TimeoutsAssumption
  <1>0. RefreshTypes /\ sktpRefreshTimeout \in Nat /\ skipSktpRefresh \in Nat
    <2>1. RefreshTypes
      BY TypeParts
    <2>2. sktpRefreshTimeout \in Nat
      BY <2>1 DEF RefreshTypes
    <2> QED
      BY <2>1, <2>2 DEF RefreshTypes
  <1>1. CASE UNCHANGED refreshVars
    BY <1>0, <1>1 DEF refreshVars, RefreshTypes
  <1>2. CASE TickRefresh
    BY <1>0, <1>2 DEF TickRefresh, RefreshDue, refreshVars, RefreshTypes
  <1>3. CASE DropKeypress
    BY <1>0, <1>3 DEF DropKeypress, RefreshTypes
  <1>4. CASE DropRefresh
    BY <1>0, <1>4 DEF DropRefresh, RefreshTypes
  <1>5. CASE Renders
    <2>1. CASE \E t \in Timeouts : PageWithTimeout(t)
      BY <1>0, <2>1 DEF PageWithTimeout, RefreshTypes
    <2> QED
      BY <1>1, <1>5, <2>1 DEF Renders, Refresh, Render, RenderC64, refreshVars
  <1>6. Queues => TickRefresh \/ DropKeypress \/ DropRefresh
    BY DEF Queues, BeginDownload, BeginKeypress, NothingQueued
  <1> QED
    BY <1>1, <1>2, <1>3, <1>4, <1>5, <1>6, Groups, KeepsRefresh
\* The screen of the SKTP browser, and the key for its server.
LEMMA StepKeepsScreenTypes == TypeOK /\ Next => ScreenTypes' /\ KeyTypes'
  <1> SUFFICES ASSUME TypeOK, Next PROVE ScreenTypes' /\ KeyTypes'
    OBVIOUS
  <1>0. ScreenTypes /\ KeyTypes
    BY TypeParts
  <1>1. CASE UNCHANGED screenVars /\ UNCHANGED keyVars
    BY <1>0, <1>1 DEF screenVars, keyVars, ScreenTypes, KeyTypes
  <1>2. CASE Browses
    <2>1. KeyTypes'
      BY <1>0, <1>2 DEF Browses, LeaveSktp, PressSktp, QueueSktpKeypress, keyVars, KeyTypes
    <2>2. ScreenTypes'
      <3>1. isSktpScreenActive' \in BOOLEAN /\ longResponse' = longResponse
        BY <1>2 DEF Browses, LeaveSktp, PressSktp
      <3>2. sktpSession' \in {sktpSession, 2} /\ sktpContent' = sktpContent
        BY <1>2 DEF Browses, LeaveSktp, PressSktp
      <3> QED
        BY <1>0, <3>1, <3>2 DEF ScreenTypes
    <2> QED
      BY <2>1, <2>2
  <1>3. CASE Queues
    <2>1. ScreenTypes'
      BY <1>0, <1>3 DEF Queues, BeginDownload, BeginKeypress, DropKeypress, DropRefresh,
                        NothingQueued, screenVars, ScreenTypes
    <2>2. KeyTypes'
      BY <1>0, <1>3 DEF Queues, BeginDownload, BeginKeypress, DropKeypress, DropRefresh,
                        NothingQueued, TickRefresh, keyVars, KeyTypes
    <2> QED
      BY <2>1, <2>2
  <1>4. CASE Answers
    <2>1. /\ isSktpScreenActive' = isSktpScreenActive
          /\ sktpSession' \in {sktpSession, 1}
          /\ sktpContent' \in {sktpContent, "page", "text", "url"}
      BY <1>4 DEF Answers, SessionAnswer, PageAnswer, DownloadAnswer
    <2>3. longResponse' \in BOOLEAN
      BY <1>0, <1>4 DEF Answers, SessionAnswer, PageAnswer, DownloadAnswer, ScreenTypes
    <2>2. KeyTypes'
      BY <1>0, <1>4 DEF Answers, SessionAnswer, PageAnswer, DownloadAnswer, KeypressDone,
                        KeyTaken, KeyTypes
    <2> QED
      BY <1>0, <2>1, <2>2, <2>3 DEF ScreenTypes
  <1>5. CASE Launch
    BY <1>0, <1>5 DEF Launch, keyVars, ScreenTypes, KeyTypes
  <1>6. CASE Save
    BY <1>0, <1>6 DEF Save, screenVars, ScreenTypes, KeyTypes
  <1>7. CASE Renders
    <2>1. KeyTypes'
      BY <1>0, <1>7 DEF Renders, Refresh, Render, RenderC64, PageWithTimeout,
                        QueueSktpKeypress, keyVars, KeyTypes
    <2>2. ScreenTypes'
      BY <1>0, <1>7, KeepsScreen DEF screenVars, ScreenTypes
    <2> QED
      BY <2>1, <2>2
  <1> QED
    BY <1>1, <1>2, <1>3, <1>4, <1>5, <1>6, <1>7, Groups, KeepsScreen, KeepsKeys
       DEF Downloading, Saves

\* The flags of a download.
LEMMA StepKeepsDownloadTypes == TypeOK /\ Next => DownloadTypes'
  <1> SUFFICES ASSUME TypeOK, Next PROVE DownloadTypes'
    OBVIOUS
  <1>0. DownloadTypes
    BY TypeParts
  <1>1. CASE UNCHANGED downloadVars
    BY <1>0, <1>1 DEF downloadVars, DownloadTypes
  <1>2. CASE \E kernel \in {"launcher", "other"} : PickLocal(kernel)
    BY <1>0, <1>2 DEF PickLocal, DownloadTypes
  <1>3. CASE OpenUploadPage \/ \E t \in Types : Upload(t)
    BY <1>0, <1>3 DEF OpenUploadPage, Upload, DownloadTypes
  <1>4. CASE BeginDownload
    BY <1>0, <1>4 DEF BeginDownload, DownloadTypes
  <1>5. CASE \E t \in Types, save \in BOOLEAN : DownloadAnswer(t, save)
    BY <1>0, <1>5 DEF DownloadAnswer, DownloadTypes
  <1>6. CASE Downloaded
    BY <1>0, <1>6 DEF Downloaded, DownloadTypes
  <1>7. CASE Launch
    BY <1>0, <1>7 DEF Launch, NotReadyAnyMore, DownloadTypes
  <1>8. CASE Save
    BY <1>0, <1>8 DEF Save, DownloadTypes
  <1>9. CASE Finished
    BY <1>0, <1>9 DEF Finished, DownloadTypes
  <1> QED
    BY <1>1, <1>2, <1>3, <1>4, <1>5, <1>6, <1>7, <1>8, <1>9, Groups, KeepsDownload
       DEF Asks, Serves, Queues, Answers, Downloading, Saves

\* The payloads are what can be delivered.
LEMMA StepKeepsPayloadTypes == TypeOK /\ Next => PayloadTypes'
  <1> SUFFICES ASSUME TypeOK, Next PROVE PayloadTypes'
    OBVIOUS
  <1>0. PayloadTypes
    BY TypeParts
  <1> DEFINE Same == UNCHANGED <<path, name, savePath, prgDataLaunch>>
  <1>1. CASE Same
    BY <1>0, <1>1 DEF PayloadTypes
  <1>2. CASE \E kernel \in {"launcher", "other"} : PickLocal(kernel)
    BY <1>0, <1>2 DEF PickLocal, PayloadTypes, Bytes
  <1>3. CASE OpenUploadPage
    BY <1>0, <1>3 DEF OpenUploadPage, PayloadTypes, Bytes
  <1>4. CASE \E t \in Types : Upload(t)
    BY <1>0, <1>4 DEF Upload, PayloadTypes, Uploads, Names, Bytes
  <1>5. CASE \E t \in Types, save \in BOOLEAN : DownloadAnswer(t, save)
    BY <1>0, <1>5 DEF DownloadAnswer, NoteSavePath, PayloadTypes, Downloads, Names
  <1>6. CASE Downloaded
    BY <1>0, <1>6 DEF Downloaded, PayloadTypes, Bytes
  <1>7. CASE Launch
    BY <1>0, <1>7 DEF Launch, PayloadTypes, Names
  <1>8. BeginDownload \/ Save \/ Finished \/ UNCHANGED downloadVars => Same
    BY DEF BeginDownload, Save, Finished, downloadVars
  <1> QED
    BY <1>1, <1>2, <1>3, <1>4, <1>5, <1>6, <1>7, <1>8, Groups, KeepsDownload
       DEF Asks, Serves, Queues, Answers, Downloading, Saves

\* The reasons to give way.
LEMMA StepKeepsReturnTypes == TypeOK /\ Next => ReturnTypes'
  <1> SUFFICES ASSUME TypeOK, Next PROVE ReturnTypes'
    OBVIOUS
  <1>0. ReturnTypes
    BY TypeParts
  <1>1. isMenuScreenUpdateNeeded' \in BOOLEAN
    <2>0. isMenuScreenUpdateNeeded \in BOOLEAN
      BY <1>0 DEF ReturnTypes
    <2>1. Asks \/ Switches \/ Passes \/ Browses \/ Serves
            => isMenuScreenUpdateNeeded' = isMenuScreenUpdateNeeded
      BY DEF Asks, NoNetworkKey, ExitToBasic, Button, PressConnect, PressWebserver, PressModem, PickLocal,
             Switches, Reboot, LeaveMenu, UserReturns, LauncherReturns, Passes, LauncherPass,
             PeriodicPass, RebootTimer, Browses, LeaveSktp, PressSktp, Serves, OpenUploadPage,
             UploadKernel, Upload
    <2>2. Links \/ Queues => isMenuScreenUpdateNeeded' \in {isMenuScreenUpdateNeeded, TRUE}
      BY DEF Links, Delay, Offline, Connect, TimeUpdated, Queues, BeginDownload,
             BeginKeypress, DropKeypress, DropRefresh, NothingQueued, TickRefresh
    <2>3. Answers \/ Downloading \/ Saves
            => isMenuScreenUpdateNeeded' \in {isMenuScreenUpdateNeeded, TRUE}
      BY DEF Answers, SessionAnswer, PageAnswer, DownloadAnswer, KeypressDone, Downloading,
             Downloaded, Launch, NothingToLaunch, Saves, Save, NothingToSave, Finished,
             NothingFinished
    <2>4. Renders => isMenuScreenUpdateNeeded' \in BOOLEAN
      BY <2>0 DEF Renders, Refresh, Render, RenderC64, PageWithTimeout
    <2> QED
      BY <2>0, <2>1, <2>2, <2>3, <2>4, Groups
  <1>2. isRebootRequested' \in BOOLEAN /\ rebootDue' \in BOOLEAN
        /\ isReturnToMenuRequested' \in BOOLEAN
    <2>1. CASE UNCHANGED returnVars
      BY <1>0, <2>1 DEF returnVars, ReturnTypes
    <2>2. CASE Switches \/ Passes
      BY <1>0, <2>2 DEF Switches, Reboot, LeaveMenu, UserReturns, LauncherReturns, Passes,
                        LauncherPass, PeriodicPass, RebootTimer, returnVars, ReturnTypes
    <2>3. CASE Serves
      BY <1>0, <2>3 DEF Serves, OpenUploadPage, UploadKernel, Upload, RequestReturn,
                        returnVars, ReturnTypes
    <2> QED
      BY <2>1, <2>2, <2>3, Groups, KeepsReturn
  <1> QED
    BY <1>1, <1>2 DEF ReturnTypes

\* What is on its way.
LEMMA StepKeepsHistoryTypes == TypeOK /\ Next => HistoryTypes'
  <1> SUFFICES ASSUME TypeOK, Next PROVE HistoryTypes'
    OBVIOUS
  <1>0. HistoryTypes
    BY TypeParts
  <1>1. CASE UNCHANGED history
    BY <1>0, <1>1 DEF history, HistoryTypes
  <1>2. ASSUME NEW item \in Uploads \cup Downloads \cup {Page, Local}, Deliver(item)
        PROVE  HistoryTypes'
    BY <1>0, <1>2 DEF Deliver, HistoryTypes
  <1>3. CASE /\ UNCHANGED overlapped
             /\ deliveries' \subseteq deliveries
    BY <1>0, <1>3 DEF HistoryTypes
  <1>4. Asks => UNCHANGED history \/ Deliver(Local)
    BY KeepsHistory DEF Asks, PickLocal
  <1>5. Serves => \/ UNCHANGED history \/ Deliver(Page)
                  \/ \E t \in Types : Deliver(<<"upload", t>>)
    BY KeepsHistory DEF Serves, OpenUploadPage, Upload
  <1>6. Answers => \/ UNCHANGED history
                   \/ \E t \in Types : Deliver(<<"download", t>>)
    BY KeepsHistory DEF Answers, DownloadAnswer
  <1>7. LeaveMenu \/ Downloading \/ Saves
          => \/ UNCHANGED history
             \/ UNCHANGED overlapped /\ deliveries' \subseteq deliveries
    BY KeepsHistory DEF LeaveMenu, Downloading, Downloaded, Launch, Saves, Finished, history
  <1>8. \A t \in Types : <<"upload", t>> \in Uploads /\ <<"download", t>> \in Downloads
    BY DEF Uploads, Downloads
  <1> QED
    BY <1>1, <1>2, <1>3, <1>4, <1>5, <1>6, <1>7, <1>8, Groups, KeepsHistory DEF Switches

\* Every step keeps all of them.
LEMMA StepKeepsTypes == TypeOK /\ [Next]_vars => TypeOK'
  <1> SUFFICES ASSUME TypeOK, [Next]_vars PROVE TypeOK'
    OBVIOUS
  <1>0. TypeOK' <=> /\ MenuTypes' /\ LinkTypes' /\ RefreshTypes' /\ ScreenTypes' /\ KeyTypes'
                    /\ DownloadTypes' /\ PayloadTypes' /\ ReturnTypes' /\ HistoryTypes'
    BY TypeParts, PTL
  <1>1. CASE UNCHANGED vars
    <2>1. UNCHANGED <<at, pc, doRender, menuVars, linkVars, refreshVars, screenVars, keyVars,
                      downloadVars, returnVars, isMenuScreenUpdateNeeded, history>>
      BY <1>1 DEF vars
    <2>2. MenuTypes' /\ LinkTypes' /\ RefreshTypes'
      BY <2>1, TypeParts DEF menuVars, linkVars, refreshVars, MenuTypes, LinkTypes,
                             RefreshTypes
    <2>3. ScreenTypes' /\ KeyTypes' /\ ReturnTypes' /\ HistoryTypes'
      BY <2>1, TypeParts DEF screenVars, keyVars, returnVars, history, ScreenTypes, KeyTypes,
                             ReturnTypes, HistoryTypes
    <2>4. DownloadTypes' /\ PayloadTypes'
      BY <2>1, TypeParts DEF downloadVars, DownloadTypes, PayloadTypes
    <2> QED
      BY <1>0, <2>2, <2>3, <2>4
  <1>2. CASE Next
    BY <1>0, <1>2, StepKeepsMenuTypes, StepKeepsLinkTypes, StepKeepsRefreshTypes,
       StepKeepsScreenTypes, StepKeepsDownloadTypes, StepKeepsPayloadTypes,
       StepKeepsReturnTypes, StepKeepsHistoryTypes
  <1> QED
    BY <1>1, <1>2

\* So does the state in which the menu is entered.
LEMMA InitTypes == Init => TypeOK
  <1> SUFFICES ASSUME Init PROVE TypeOK
    OBVIOUS
  <1>1. MenuTypes
    BY DEF Init, MenuTypes, Points, YieldPoints
  <1>4. LinkTypes
    <2>1. queueDelay \in 0 .. 1
      BY DEF Init
    <2> QED
      BY <2>1, Zenon DEF Init, LinkTypes
  <1>6. RefreshTypes
    BY DEF Init, RefreshTypes
  <1>2. ScreenTypes
    <2>1. sktpSession \in 0 .. 2
      BY DEF Init
    <2> QED
      BY <2>1, Zenon DEF Init, ScreenTypes
  <1>7. KeyTypes
    BY DEF Init, KeyTypes
  <1>5. ReturnTypes /\ HistoryTypes
    BY DEF Init, ReturnTypes, HistoryTypes
  <1>3. DownloadTypes /\ PayloadTypes
    BY DEF Init, DownloadTypes, PayloadTypes, Names, Bytes
  <1> QED
    BY <1>1, <1>2, <1>3, <1>4, <1>5, <1>6, <1>7, TypeParts

\* Every variable keeps its type (net.cpp, webserver.cpp and the network part of the
\* menu): the counter of the refresh timer ends one after the timeout, and what is in
\* the buffer is always one of the payloads.
THEOREM TypeCorrect == Spec => []TypeOK
  BY InitTypes, StepKeepsTypes, PTL DEF Spec
-----------------------------------------------------------------------------
(* A payload that has the buffer for itself *)

\* As long as no two payloads have been on their way at the same time: there is at
\* most one, a download is at one stage only, and nothing else is ready meanwhile.
OneDelivery == \A x, y \in deliveries : x = y
Requested == isCSDBDownloadQueued \/ pc = "download"
OneStage ==
  /\ Requested => ~isDownloadReady /\ ~isCSDBDownloadSavingQueued /\ ~isDownloadReadyForLaunch
  /\ isCSDBDownloadQueued => pc # "download"
  /\ isDownloadReady => ~isCSDBDownloadSavingQueued /\ ~isDownloadReadyForLaunch
  /\ isCSDBDownloadSavingQueued => ~isDownloadReadyForLaunch

\* A download keeps its path and its names from the answer of the server on, and the
\* buffer from when it is there.
DownloadKept ==
  Requested \/ isDownloadReady \/ isCSDBDownloadSavingQueued =>
    /\ path \in deliveries /\ path \in Downloads /\ name = path
    /\ savePath = IF bSaveCSDBDownload2SD THEN path ELSE NoFile
    /\ isCSDBDownloadSavingQueued => bSaveCSDBDownload2SD
    /\ ~Requested => prgDataLaunch = path

\* What is ready to be launched is what is on its way, under its own name.
LaunchKept ==
  isDownloadReadyForLaunch => prgDataLaunch \in deliveries /\ prgDataLaunch \in {Page, name}

Alone == OneDelivery /\ OneStage /\ DownloadKept /\ LaunchKept
SoloInv == ~overlapped => Alone

\* Nothing is at any stage when nothing is on its way.
Idle == /\ deliveries = {} /\ ~Requested /\ ~isDownloadReady
        /\ ~isCSDBDownloadSavingQueued /\ ~isDownloadReadyForLaunch

\* A payload that is the only one found nothing at any stage.
LEMMA DeliveredAlone ==
  ASSUME SoloInv, NEW item, Deliver(item), ~overlapped'
  PROVE  ~overlapped /\ Idle /\ deliveries' = {item}
  <1>1. deliveries = {} /\ ~overlapped /\ deliveries' = {item}
    BY DEF Deliver
  <1> QED
    BY <1>1 DEF SoloInv, Alone, DownloadKept, LaunchKept, Idle

\* Steps that leave the downloads alone and do not begin to wait for one.
LEMMA QuietKeepsAlone ==
  ASSUME SoloInv, UNCHANGED downloadVars, UNCHANGED history,
         pc' = "download" => pc = "download"
  PROVE  SoloInv'
  <1> SUFFICES ASSUME ~overlapped' PROVE Alone'
    BY DEF SoloInv
  <1>1. Alone
    BY DEF SoloInv, history
  <1>2. /\ UNCHANGED <<isCSDBDownloadQueued, isCSDBDownloadSavingQueued, isDownloadReady,
                       isDownloadReadyForLaunch, bSaveCSDBDownload2SD>>
        /\ UNCHANGED <<path, name, savePath, prgDataLaunch, deliveries>>
    BY DEF downloadVars, history
  <1>3. OneDelivery' /\ LaunchKept'
    BY <1>1, <1>2 DEF Alone, OneDelivery, LaunchKept
  <1>4. OneStage'
    BY <1>1, <1>2 DEF Alone, OneStage, Requested
  <1>5. DownloadKept'
    BY <1>1, <1>2 DEF Alone, OneStage, DownloadKept, Requested
  <1> QED
    BY <1>3, <1>4, <1>5 DEF Alone

\* An upload, the upload page, a local file or the address of a download arrives.
LEMMA DeliveryKeepsAlone ==
  ASSUME TypeOK, SoloInv,
         \/ OpenUploadPage \/ \E t \in Types : Upload(t)
         \/ \E kernel \in {"launcher", "other"} : PickLocal(kernel)
         \/ \E t \in Types, save \in BOOLEAN : DownloadAnswer(t, save)
  PROVE  SoloInv'
  <1> SUFFICES ASSUME ~overlapped' PROVE Alone'
    BY DEF SoloInv
  <1>1. CASE OpenUploadPage
    <2>1. /\ UNCHANGED <<pc, isCSDBDownloadQueued, isCSDBDownloadSavingQueued, isDownloadReady>>
          /\ UNCHANGED <<bSaveCSDBDownload2SD, path, name, savePath>>
      BY <1>1 DEF OpenUploadPage
    <2>2. CASE prgDataLaunch' = Page /\ Deliver(Page)
      <3>1. ~overlapped /\ Idle /\ deliveries' = {Page}
        BY <2>2, DeliveredAlone
      <3> QED
        BY <2>1, <2>2, <3>1 DEF Idle, Requested, Alone, OneDelivery, OneStage, DownloadKept,
                                LaunchKept
    <2>3. CASE UNCHANGED <<prgDataLaunch, isDownloadReadyForLaunch, history>>
      <3>1. UNCHANGED downloadVars /\ UNCHANGED history
        BY <2>1, <2>3 DEF downloadVars
      <3> QED
        BY <2>1, <3>1, QuietKeepsAlone DEF SoloInv
    <2> QED
      BY <1>1, <2>2, <2>3 DEF OpenUploadPage
  <1>2. ASSUME NEW t \in Types, Upload(t) PROVE Alone'
    <2>1. ~overlapped /\ Idle /\ deliveries' = {<<"upload", t>>}
      BY <1>2, DeliveredAlone DEF Upload
    <2>2. /\ UNCHANGED <<pc, isCSDBDownloadQueued, isCSDBDownloadSavingQueued, isDownloadReady>>
          /\ prgDataLaunch' = <<"upload", t>> /\ name' = <<"upload", t>>
      BY <1>2 DEF Upload
    <2> QED
      BY <2>1, <2>2 DEF Idle, Requested, Alone, OneDelivery, OneStage, DownloadKept, LaunchKept
  <1>3. ASSUME NEW kernel \in {"launcher", "other"}, PickLocal(kernel) PROVE Alone'
    <2>1. /\ UNCHANGED <<isCSDBDownloadQueued, isCSDBDownloadSavingQueued, isDownloadReady,
                         isDownloadReadyForLaunch, bSaveCSDBDownload2SD, path, name, savePath>>
          /\ pc' # "download"
      BY <1>3 DEF PickLocal, RequestHandled, StartPass
    <2>2. CASE UNCHANGED <<prgDataLaunch, history>>
      <3>1. UNCHANGED downloadVars /\ UNCHANGED history
        BY <2>1, <2>2 DEF downloadVars
      <3> QED
        BY <2>1, <3>1, QuietKeepsAlone DEF SoloInv
    <2>3. CASE Deliver(Local)
      <3>1. ~overlapped /\ Idle /\ deliveries' = {Local}
        BY <2>3, DeliveredAlone
      <3> QED
        BY <2>1, <3>1 DEF Idle, Requested, Alone, OneDelivery, OneStage, DownloadKept,
                          LaunchKept
    <2> QED
      BY <1>3, <2>2, <2>3 DEF PickLocal
  <1>4. ASSUME NEW t \in Types, NEW save \in BOOLEAN, DownloadAnswer(t, save) PROVE Alone'
    <2>1. ~overlapped /\ Idle /\ deliveries' = {<<"download", t>>}
      BY <1>4, DeliveredAlone DEF DownloadAnswer
    <2>2. /\ UNCHANGED <<isCSDBDownloadSavingQueued, isDownloadReady, isDownloadReadyForLaunch>>
          /\ pc' # "download" /\ isCSDBDownloadQueued' /\ bSaveCSDBDownload2SD' = save
          /\ path' = <<"download", t>> /\ name' = path'
          /\ savePath' = IF save THEN path' ELSE NoFile
      BY <1>4 DEF DownloadAnswer, NoteSavePath, KeypressDone, ActionDone
    <2>3. <<"download", t>> \in Downloads
      BY DEF Downloads
    <2> QED
      BY <2>1, <2>2, <2>3 DEF Idle, Requested, Alone, OneDelivery, OneStage, DownloadKept,
                              LaunchKept
  <1> QED
    BY <1>1, <1>2, <1>3, <1>4

\* A download is fetched, or the request fails.
LEMMA FetchKeepsAlone ==
  ASSUME SoloInv, BeginDownload \/ Downloaded
  PROVE  SoloInv'
  <1> USE DEF Alone, OneDelivery, OneStage, DownloadKept, LaunchKept, Requested
  <1>1. CASE BeginDownload
    BY <1>1 DEF BeginDownload, Online, history, SoloInv
  <1>2. CASE Downloaded
    <2> SUFFICES ASSUME ~overlapped' PROVE Alone'
      BY DEF SoloInv
    <2>1. /\ UNCHANGED <<isCSDBDownloadQueued, isCSDBDownloadSavingQueued,
                         isDownloadReadyForLaunch, bSaveCSDBDownload2SD, path, name, savePath,
                         overlapped>>
          /\ pc = "download" /\ pc' # "download"
      BY <1>2 DEF Downloaded, ActionDone, history
    <2>2. Alone
      BY <2>1 DEF SoloInv
    <2>3. CASE isDownloadReady' = TRUE /\ UNCHANGED deliveries
               /\ prgDataLaunch' = IF path = NoFile THEN Garbage ELSE path
      <3>1. path # NoFile
        BY <2>1, <2>2, PayloadsAssumption
      <3> QED
        BY <2>1, <2>2, <2>3, <3>1
    <2>4. CASE deliveries' = deliveries \ {path} /\ UNCHANGED <<prgDataLaunch, isDownloadReady>>
      BY <2>1, <2>2, <2>4
    <2> QED
      BY <1>2, <2>3, <2>4 DEF Downloaded, history
  <1> QED
    BY <1>1, <1>2

\* It is launched, saved or forgotten.
LEMMA EndKeepsAlone ==
  ASSUME SoloInv, Launch \/ Save \/ Finished
  PROVE  SoloInv'
  <1> USE DEF Alone, OneDelivery, OneStage, DownloadKept, LaunchKept, Requested
  <1> SUFFICES ASSUME ~overlapped' PROVE Alone'
    BY DEF SoloInv
  <1>0. Alone
    BY DEF SoloInv, Launch, Save, Finished, history
  <1>1. CASE Launch
    BY <1>0, <1>1 DEF Launch, NotReadyAnyMore
  <1>2. CASE Save
    BY <1>0, <1>2 DEF Save, history
  <1>3. CASE Finished
    BY <1>0, <1>3 DEF Finished
  <1> QED
    BY <1>1, <1>2, <1>3

\* A local program reaches its kernel.
LEMMA LeavingKeepsAlone ==
  ASSUME TypeOK, SoloInv, LeaveMenu
  PROVE  SoloInv'
  <1> USE DEF Alone, OneDelivery, OneStage, DownloadKept, LaunchKept, Requested
  <1> SUFFICES ASSUME ~overlapped' PROVE Alone'
    BY DEF SoloInv
  <1>1. /\ UNCHANGED downloadVars /\ UNCHANGED <<pc, overlapped>>
        /\ deliveries' = deliveries \ {Local}
    BY DEF LeaveMenu
  <1>2. Alone
    BY <1>1 DEF SoloInv
  <1>3. Local # Page /\ name # Local /\ (path \in Downloads => path # Local)
    BY PayloadsAssumption, TypeParts DEF PayloadTypes, Names
  <1> QED
    BY <1>1, <1>2, <1>3 DEF downloadVars
\* Only a queued download is waited for.
LEMMA OnlyDownloadsWait ==
  ASSUME Next, ~BeginDownload
  PROVE  pc' = "download" => pc = "download"
  <1>1. CASE Asks \/ Switches \/ Passes \/ Browses
    BY <1>1 DEF Asks, NoNetworkKey, ExitToBasic, Button, PressConnect, PressWebserver, PressModem,
                PickLocal, Switches, Reboot, LeaveMenu, UserReturns, LauncherReturns, Passes,
                LauncherPass, PeriodicPass, RebootTimer, Browses, LeaveSktp, PressSktp,
                RequestHandled, StartPass
  <1>2. CASE Serves \/ Links
    BY <1>2 DEF Serves, OpenUploadPage, UploadKernel, Upload, Links, Delay, Offline, Connect,
                TimeUpdated, ActionDone
  <1>3. CASE Queues \/ Answers
    BY <1>3 DEF Queues, BeginKeypress, DropKeypress, DropRefresh, NothingQueued, ActionDone,
                Answers, SessionAnswer, PageAnswer, DownloadAnswer, KeypressDone
  <1>4. CASE Downloading \/ Saves
    BY <1>4 DEF Downloading, Downloaded, Launch, NothingToLaunch, ActionDone, Saves, Save,
                NothingToSave, Finished, NothingFinished
  <1>5. CASE Renders
    BY <1>5 DEF Renders, Refresh, Render, RenderC64, PageWithTimeout
  <1> QED
    BY <1>1, <1>2, <1>3, <1>4, <1>5, Groups

\* Every step keeps the stages of a payload that is alone.
LEMMA StepKeepsAlone == TypeOK /\ SoloInv /\ [Next]_vars => SoloInv'
  <1> SUFFICES ASSUME TypeOK, SoloInv, [Next]_vars PROVE SoloInv'
    OBVIOUS
  <1>1. CASE UNCHANGED vars
    <2>1. UNCHANGED downloadVars /\ UNCHANGED history /\ pc' = pc
      BY <1>1 DEF vars
    <2> QED
      BY <2>1, QuietKeepsAlone
  <1> SUFFICES ASSUME Next PROVE SoloInv'
    BY <1>1
  <1> DEFINE Loud ==
        \/ OpenUploadPage \/ \E t \in Types : Upload(t)
        \/ \E kernel \in {"launcher", "other"} : PickLocal(kernel)
        \/ \E t \in Types, save \in BOOLEAN : DownloadAnswer(t, save)
        \/ BeginDownload \/ Downloaded \/ Launch \/ Save \/ Finished \/ LeaveMenu
  <1>2. CASE Loud
    BY <1>2, DeliveryKeepsAlone, FetchKeepsAlone, EndKeepsAlone, LeavingKeepsAlone
  <1>3. CASE ~Loud
    <2>1. UNCHANGED downloadVars
      BY <1>3, Groups, KeepsDownload DEF Asks, Serves, Queues, Answers, Downloading, Saves
    <2>2. UNCHANGED history
      BY <1>3, Groups, KeepsHistory
         DEF Asks, Switches, Serves, Answers, Downloading, Saves
    <2>3. pc' = "download" => pc = "download"
      BY <1>3, OnlyDownloadsWait
    <2> QED
      BY <2>1, <2>2, <2>3, QuietKeepsAlone
  <1> QED
    BY <1>2, <1>3

\* Nothing is on its way at the start.
LEMMA InitAlone == Init => SoloInv
  BY DEF Init, SoloInv, Alone, OneDelivery, OneStage, DownloadKept, LaunchKept, Requested

\* While no two payloads have been on their way at the same time, a download is at one
\* stage only, keeps its names, and is what the buffer holds.
THEOREM DeliveryInvariant == Spec => []SoloInv
  <1>1. TypeOK /\ SoloInv /\ [Next]_vars => SoloInv'
    BY StepKeepsAlone
  <1> QED
    BY <1>1, InitAlone, TypeCorrect, PTL DEF Spec

\* Only a launch leads from where payloads are launched to where they are saved, when one
\* is ready.
LEMMA LaunchesByName ==
  ASSUME TypeOK, [Next]_vars, pc = "launch", pc' = "save", isDownloadReadyForLaunch
  PROVE  launchKernel' = KernelFor(name)
  <1>1. Next
    BY DEF vars
  <1>2. ~(Asks \/ Switches \/ Passes \/ Browses \/ Serves \/ Links \/ Queues \/ Answers)
    BY DEF Asks, NoNetworkKey, ExitToBasic, Button, PressConnect, PressWebserver, PressModem,
           PickLocal, Switches, Reboot, LeaveMenu, UserReturns, LauncherReturns, Passes,
           LauncherPass, PeriodicPass, RebootTimer, Browses, LeaveSktp, PressSktp, Serves,
           OpenUploadPage, UploadKernel, Upload, Links, Delay, Offline, Connect, TimeUpdated,
           Queues, BeginDownload, BeginKeypress, DropKeypress, DropRefresh, NothingQueued,
           Online, AtDispatch, Answers, SessionAnswer, PageAnswer, DownloadAnswer,
           RequestHandled, StartPass, InMenu
  <1>3. ~(Downloaded \/ NothingToLaunch \/ Saves \/ Renders)
    BY DEF Downloaded, NothingToLaunch, Saves, Save, NothingToSave, Finished,
           NothingFinished, Renders, Refresh, Render, InMenu
  <1> QED
    BY <1>1, <1>2, <1>3, Groups DEF Downloading, Launch

\* A payload that has the buffer for itself is launched and saved as what it is, for
\* any file types, whatever the user, the web server and the SKTP server do in between
\* (Launch and Save against prepareLaunchOfUpload, enterWebUploadMode,
\* getCSDBBinaryContent, saveDownload2SD and the local files).  The program of the upload
\* page is excepted where a download that was given up has left its name.
THEOREM PayloadIsItself == Spec => SoloPayload
  <1> DEFINE Itself == /\ prgDataLaunch \in deliveries
                       /\ prgDataLaunch # Page => prgDataLaunch = name
                       /\ \/ launchKernel' = KernelFor(prgDataLaunch)
                          \/ prgDataLaunch = Page /\ NameLeft
  <1>1. TypeOK /\ SoloInv /\ [Next]_vars /\ ~overlapped /\ Launching => Itself
    <2> SUFFICES ASSUME TypeOK, SoloInv, [Next]_vars, ~overlapped, Launching PROVE Itself
      OBVIOUS
    <2>1. Alone /\ name \in Names
      BY TypeParts DEF SoloInv, PayloadTypes
    <2>2. prgDataLaunch \in deliveries /\ prgDataLaunch \in {Page, name}
      BY <2>1 DEF Launching, Alone, LaunchKept
    <2>3. launchKernel' = KernelFor(name)
      BY LaunchesByName DEF Launching
    <2>4. CASE prgDataLaunch = name
      BY <2>2, <2>3, <2>4
    <2>5. CASE prgDataLaunch = Page
      <3>1. name # Page
        BY <2>1, PayloadsAssumption
      <3>2. name \notin deliveries
        BY <2>1, <2>2, <2>5, <3>1 DEF Alone, OneDelivery
      <3>3. name = NoFile => KernelFor(name) = KernelFor(Page)
        BY PayloadsAssumption DEF KernelFor, Names
      <3> QED
        BY <2>2, <2>3, <2>5, <3>2, <3>3 DEF NameLeft
    <2> QED
      BY <2>2, <2>4, <2>5
  <1>2. SoloInv /\ ~overlapped /\ Saving => prgDataLaunch = savePath
    BY DEF SoloInv, Alone, OneStage, DownloadKept, Saving
  <1>3. TypeOK /\ SoloInv /\ [Next]_vars =>
          [~overlapped => /\ Launching => Itself
                          /\ Saving => prgDataLaunch = savePath]_vars
    BY <1>1, <1>2
  <1> QED
    BY <1>3, DeliveryInvariant, TypeCorrect, PTL DEF Spec, SoloPayload
-----------------------------------------------------------------------------
(* A key the user has typed *)

\* A key of the user is queued.
UserKey == isSktpKeypressQueued /\ sktpKey \in Keys

\* The network stays, and there is no delay with it; the browser and all that waits for
\* a server need it.
NetworkOn ==
  /\ isActive \/ pc = "connect" => queueDelay = 0
  /\ pc = "connect" => ~isActive
  /\ pc \in {"time", "session", "keypress", "download", "launch", "yield"} => isActive
  /\ isSktpScreenActive => isActive

\* An address stays on the screen until its download is fetched, which is before the
\* next keypress.
AddressStays ==
  /\ isCSDBDownloadQueued => sktpContent = "url" /\ pc \notin {"session", "keypress", "download"}
  /\ pc = "download" => sktpContent = "url"

\* A key that waits when the screen is drawn waits for a download: there is an address
\* on the screen, not a page that could ask for a refresh.
KeyWaits ==
  UserKey =>
    /\ isActive /\ pc \notin {"connect", "time"}
    /\ pc \in {"yield", "dispatch"} => isSktpScreenActive \/ ~isCSDBDownloadQueued
    /\ pc \in {"loop", "download", "launch", "save", "finished", "render"} =>
         isSktpScreenActive /\ sktpContent = "url" /\ ~isCSDBDownloadQueued

KeyInv == NetworkOn /\ AddressStays /\ KeyWaits

\* The network is not lost, and its delay is over before it is used.
LEMMA StepKeepsNetworkOn == TypeOK /\ NetworkOn /\ Next => NetworkOn'
  <1> SUFFICES ASSUME TypeOK, NetworkOn, Next PROVE NetworkOn'
    OBVIOUS
  <1> USE DEF NetworkOn
  <1>0. queueDelay \in 0 .. 1
    BY TypeParts DEF LinkTypes
  <1>1. CASE Asks
    <2>1. UNCHANGED <<isActive, isSktpScreenActive>> /\ pc' \in {"yield", "dispatch", "loop"}
      BY <1>1, KeepsScreen DEF Asks, NoNetworkKey, ExitToBasic, Button, PressConnect,
            PressWebserver, PressModem, PickLocal, RequestHandled, InMenu, StartPass, linkVars, screenVars
    <2>2. pc' = "yield" => isActive
      BY <1>1 DEF Asks, NoNetworkKey, ExitToBasic, Button, PressConnect, PressWebserver, PressModem,
                  PickLocal, RequestHandled, InMenu, StartPass
    <2>3. isActive => queueDelay' = queueDelay
      BY <1>1 DEF Asks, NoNetworkKey, ExitToBasic, Button, PressConnect, PressWebserver, PressModem,
                  PickLocal, linkVars
    <2> QED
      BY <2>1, <2>2, <2>3
  <1>2. CASE Switches \/ Passes
    <2>1. UNCHANGED <<isActive, queueDelay, isSktpScreenActive>>
      BY <1>2, KeepsLink, KeepsScreen DEF linkVars, screenVars
    <2>2. pc' = pc \/ (pc' = "yield" /\ isActive) \/ pc' = "dispatch"
      BY <1>2 DEF Switches, Reboot, LeaveMenu, UserReturns, LauncherReturns, Passes,
                  LauncherPass, PeriodicPass, RebootTimer, StartPass
    <2> QED
      BY <2>1, <2>2
  <1>3. CASE Browses
    <2>1. isActive' = isActive /\ (isSktpScreenActive' => isSktpScreenActive \/ isActive)
      BY <1>3 DEF Browses, LeaveSktp, PressSktp, linkVars
    <2>2. (pc' = "yield" /\ isActive) \/ pc' = "dispatch"
      BY <1>3 DEF Browses, LeaveSktp, PressSktp, RequestHandled, StartPass
    <2>3. queueDelay' = queueDelay \/ queueDelay' = 0
      BY <1>3 DEF Browses, LeaveSktp, PressSktp, QueueSktpKeypress, linkVars
    <2> QED
      BY <2>1, <2>2, <2>3
  <1>4. CASE Serves
    <2>1. UNCHANGED <<isActive, queueDelay, isSktpScreenActive>>
      BY <1>4, KeepsLink, KeepsScreen DEF linkVars, screenVars
    <2> QED
      BY <1>4, <2>1 DEF Serves, OpenUploadPage, UploadKernel, Upload
  <1>5. CASE Links
    <2>0. isSktpScreenActive' = isSktpScreenActive
      BY <1>5, KeepsScreen DEF screenVars
    <2>1. CASE Delay
      BY <1>0, <2>0, <2>1 DEF Delay, Delayed, ActionDone
    <2>2. CASE Offline
      BY <1>0, <2>0, <2>2 DEF Offline, Delayed, ActionDone
    <2>3. CASE Connect
      BY <2>0, <2>3 DEF Connect, ActionDone
    <2>4. CASE TimeUpdated
      BY <2>0, <2>4 DEF TimeUpdated, ActionDone
    <2> QED
      BY <1>5, <2>1, <2>2, <2>3, <2>4 DEF Links
  <1>6. CASE Queues
    <2>1. isActive /\ UNCHANGED <<isActive, queueDelay, isSktpScreenActive>>
      BY <1>6 DEF Queues, BeginDownload, BeginKeypress, DropKeypress, DropRefresh,
                  NothingQueued, Online, screenVars
    <2>2. pc' # "connect"
      BY <1>6 DEF Queues, BeginDownload, BeginKeypress, DropKeypress, DropRefresh,
                  NothingQueued, ActionDone
    <2> QED
      BY <2>1, <2>2
  <1>7. CASE Answers
    <2>1. UNCHANGED <<isActive, queueDelay, isSktpScreenActive>> /\ isActive
      BY <1>7, KeepsLink DEF Answers, SessionAnswer, PageAnswer, DownloadAnswer, linkVars
    <2>2. pc' # "connect"
      BY <1>7 DEF Answers, SessionAnswer, PageAnswer, DownloadAnswer, KeypressDone, ActionDone
    <2> QED
      BY <2>1, <2>2
  <1>8. CASE Downloading \/ Saves
    <2>1. UNCHANGED <<isActive, queueDelay, isSktpScreenActive>>
      BY <1>8, KeepsLink, KeepsScreen DEF linkVars, screenVars, Downloading, Launch
    <2>2. pc' \in {"loop", "launch", "render", "save", "finished"}
          /\ (pc' = "launch" => isActive)
      BY <1>8 DEF Downloading, Downloaded, Launch, NothingToLaunch, Saves, Save,
                  NothingToSave, Finished, NothingFinished, ActionDone
    <2> QED
      BY <2>1, <2>2
  <1>9. CASE Renders
    <2>1. UNCHANGED <<isActive, isSktpScreenActive>>
      BY <1>9 DEF Renders, Refresh, Render, RenderKeeps, screenVars
    <2>2. pc' \in {"loop", "hung"}
      BY <1>9 DEF Renders, Refresh, Render, RenderC64, PageWithTimeout
    <2>3. queueDelay' \in {queueDelay, 0}
      BY <1>9 DEF Renders, Refresh, Render, RenderC64, PageWithTimeout, QueueSktpKeypress
    <2> QED
      BY <2>1, <2>2, <2>3
  <1> QED
    BY <1>1, <1>2, <1>3, <1>4, <1>5, <1>6, <1>7, <1>8, <1>9, Groups

\* An address is on the screen until its download has been fetched.
LEMMA StepKeepsAddress == AddressStays /\ Next => AddressStays'
  <1> SUFFICES ASSUME AddressStays, Next PROVE AddressStays'
    OBVIOUS
  <1> USE DEF AddressStays
  <1>1. CASE Asks \/ Switches \/ Passes \/ Browses \/ Serves
    <2>1. sktpContent' = sktpContent /\ isCSDBDownloadQueued' = isCSDBDownloadQueued
      BY <1>1 DEF Asks, NoNetworkKey, ExitToBasic, Button, PressConnect, PressWebserver, PressModem,
                  PickLocal, Switches, Reboot, LeaveMenu, UserReturns, LauncherReturns, Passes,
                  LauncherPass, PeriodicPass, RebootTimer, Browses, LeaveSktp, PressSktp,
                  Serves, OpenUploadPage, UploadKernel, Upload, screenVars, downloadVars
    <2>2. pc' = pc \/ pc' \in {"yield", "dispatch"}
      BY <1>1 DEF Asks, NoNetworkKey, ExitToBasic, Button, PressConnect, PressWebserver, PressModem,
                  PickLocal, Switches, Reboot, LeaveMenu, UserReturns, LauncherReturns, Passes,
                  LauncherPass, PeriodicPass, RebootTimer, Browses, LeaveSktp, PressSktp,
                  Serves, OpenUploadPage, UploadKernel, Upload, RequestHandled, StartPass
    <2> QED
      BY <2>1, <2>2
  <1>2. CASE Links
    <2>1. sktpContent' = sktpContent /\ isCSDBDownloadQueued' = isCSDBDownloadQueued
      BY <1>2, KeepsScreen, KeepsDownload DEF screenVars, downloadVars
    <2>2. pc' \in {"loop", "launch", "render", "connect", "time"}
      BY <1>2 DEF Links, Delay, Offline, Connect, TimeUpdated, ActionDone
    <2> QED
      BY <2>1, <2>2
  <1>3. CASE Queues
    <2>1. CASE BeginDownload
      BY <2>1 DEF BeginDownload, screenVars
    <2>2. CASE BeginKeypress \/ DropKeypress \/ DropRefresh \/ NothingQueued
      <3>1. ~isCSDBDownloadQueued /\ UNCHANGED downloadVars /\ pc' # "download"
        BY <2>2 DEF BeginKeypress, DropKeypress, DropRefresh, NothingQueued, ActionDone
      <3> QED
        BY <3>1 DEF downloadVars
    <2> QED
      BY <1>3, <2>1, <2>2 DEF Queues
  <1>4. CASE Answers
    <2>1. CASE SessionAnswer \/ PageAnswer
      <3>1. ~isCSDBDownloadQueued /\ UNCHANGED downloadVars /\ pc' # "download"
        BY <2>1 DEF SessionAnswer, PageAnswer, KeypressDone, ActionDone
      <3> QED
        BY <3>1 DEF downloadVars
    <2>2. CASE \E t \in Types, save \in BOOLEAN : DownloadAnswer(t, save)
      BY <2>2 DEF DownloadAnswer, KeypressDone, ActionDone
    <2> QED
      BY <1>4, <2>1, <2>2 DEF Answers
  <1>5. CASE Downloading \/ Saves
    <2>1. sktpContent' = sktpContent /\ isCSDBDownloadQueued' = isCSDBDownloadQueued
      BY <1>5 DEF Downloading, Downloaded, Launch, NothingToLaunch, Saves, Save,
                  NothingToSave, Finished, NothingFinished, screenVars, downloadVars
    <2>2. pc' \in {"loop", "launch", "render", "save", "finished"}
      BY <1>5 DEF Downloading, Downloaded, Launch, NothingToLaunch, Saves, Save,
                  NothingToSave, Finished, NothingFinished, ActionDone
    <2> QED
      BY <2>1, <2>2
  <1>6. CASE Renders
    <2>1. sktpContent' = sktpContent /\ isCSDBDownloadQueued' = isCSDBDownloadQueued
      BY <1>6, KeepsScreen, KeepsDownload DEF screenVars, downloadVars
    <2>2. pc' \in {"loop", "hung"}
      BY <1>6 DEF Renders, Refresh, Render, RenderC64, PageWithTimeout
    <2> QED
      BY <2>1, <2>2
  <1> QED
    BY <1>1, <1>2, <1>3, <1>4, <1>5, <1>6, Groups
\* A key waits where nothing replaces it.
LEMMA StepKeepsKeyWaits ==
  NetworkOn /\ AddressStays /\ KeyWaits /\ Next => KeyWaits'
  <1> SUFFICES ASSUME NetworkOn, AddressStays, KeyWaits, Next, UserKey' PROVE KeyWaits'
    BY DEF KeyWaits
  <1> USE KeysAssumption DEF KeyWaits
  <1>1. CASE Asks \/ Switches \/ Passes \/ Serves
    <2>1. UserKey
      BY <1>1, KeepsKeys DEF keyVars, UserKey
    <2>2. UNCHANGED <<isActive, isSktpScreenActive, sktpContent, isCSDBDownloadQueued>>
      <3>1. UNCHANGED <<isSktpScreenActive, sktpContent>>
        BY <1>1, KeepsScreen DEF screenVars
      <3>2. isActive' = isActive
        BY <1>1, KeepsLink DEF linkVars, Asks, NoNetworkKey, ExitToBasic, Button,
              PressConnect, PressWebserver, PressModem, PickLocal
      <3>3. isCSDBDownloadQueued' = isCSDBDownloadQueued
        BY <1>1, KeepsDownload DEF downloadVars, Asks, PickLocal, Serves, OpenUploadPage, Upload
      <3> QED
        BY <3>1, <3>2, <3>3
    <2>3. pc' = pc \/ (pc = "loop" /\ pc' \in {"yield", "dispatch"})
      BY <1>1 DEF Asks, NoNetworkKey, ExitToBasic, Button, PressConnect, PressWebserver, PressModem,
                  PickLocal, Switches, Reboot, LeaveMenu, UserReturns, LauncherReturns, Passes,
                  LauncherPass, PeriodicPass, RebootTimer, Serves, OpenUploadPage,
                  UploadKernel, Upload, RequestHandled, InMenu, StartPass
    <2> QED
      BY <2>1, <2>2, <2>3
  <1>2. CASE Browses
    <2>1. pc = "loop" /\ pc' \in {"yield", "dispatch"} /\ isActive' = isActive
      BY <1>2 DEF Browses, LeaveSktp, PressSktp, RequestHandled, InMenu, StartPass, linkVars
    <2>2. CASE LeaveSktp
      BY <2>1, <2>2 DEF LeaveSktp, keyVars, downloadVars, UserKey
    <2>3. ASSUME NEW k \in Keys \cup {NoKey}, PressSktp(k) PROVE KeyWaits'
      BY <2>1, <2>3 DEF PressSktp, NetworkOn
    <2> QED
      BY <1>2, <2>2, <2>3 DEF Browses
  <1>3. CASE Links
    <2>1. UserKey
      BY <1>3, KeepsKeys DEF keyVars, UserKey
    <2>2. isActive /\ queueDelay = 0 /\ pc \notin {"connect", "time"}
      BY <2>1 DEF NetworkOn
    <2>3. ~Delay
      BY <2>2 DEF Delay, Delayed
    <2>4. ~Offline /\ ~Connect /\ ~TimeUpdated
      BY <2>2 DEF Offline, Connect, TimeUpdated
    <2> QED
      BY <1>3, <2>3, <2>4 DEF Links
  <1>4. CASE Queues
    <2>1. isActive /\ isActive' /\ pc \in {"yield", "dispatch"}
      BY <1>4 DEF Queues, BeginDownload, BeginKeypress, DropKeypress, DropRefresh,
                  NothingQueued, Online, AtDispatch
    <2>2. CASE BeginDownload
      <3>1. UserKey
        BY <2>2 DEF BeginDownload, TickRefresh, RefreshDue, AnyQueued, UserKey, keyVars
      <3> QED
        BY <2>1, <2>2, <3>1 DEF BeginDownload, screenVars, AddressStays
    <2>3. CASE BeginKeypress
      BY <2>1, <2>3 DEF BeginKeypress
    <2>4. CASE DropKeypress \/ DropRefresh \/ NothingQueued
      BY <2>4 DEF DropKeypress, DropRefresh, NothingQueued, UserKey
    <2> QED
      BY <1>4, <2>2, <2>3, <2>4 DEF Queues
  <1>5. CASE Answers
    <2>1. isActive' /\ pc' = "keypress"
      BY <1>5 DEF Answers, SessionAnswer, PageAnswer, DownloadAnswer, KeypressDone, KeyTaken,
                  UserKey, NetworkOn, linkVars
    <2> QED
      BY <2>1
  <1>6. CASE Downloading \/ Saves
    <2>1. UserKey
      BY <1>6 DEF Downloading, Downloaded, Launch, NothingToLaunch, Saves, Save,
                  NothingToSave, Finished, NothingFinished, keyVars, UserKey
    <2>2. UNCHANGED <<isActive, isSktpScreenActive, sktpContent, isCSDBDownloadQueued>>
      BY <1>6 DEF Downloading, Downloaded, Launch, NothingToLaunch, Saves, Save,
                  NothingToSave, Finished, NothingFinished, linkVars, screenVars, downloadVars
    <2>3. /\ pc \in {"download", "launch", "save", "finished"}
          /\ pc' \in {"loop", "launch", "render", "save", "finished"}
      BY <1>6 DEF Downloading, Downloaded, Launch, NothingToLaunch, Saves, Save,
                  NothingToSave, Finished, NothingFinished, ActionDone
    <2> QED
      BY <2>1, <2>2, <2>3
  <1>7. CASE Renders
    <2>1. pc \in {"loop", "render"} /\ pc' \in {"loop", "hung"}
      BY <1>7 DEF Renders, Refresh, Render, InMenu, RenderC64, PageWithTimeout
    <2>2. UNCHANGED <<isActive, isSktpScreenActive, sktpContent, isCSDBDownloadQueued>>
      BY <1>7 DEF Renders, Refresh, Render, RenderKeeps, screenVars, downloadVars
    <2>3. UserKey
      BY <1>7 DEF Renders, Refresh, Render, RenderC64, PageWithTimeout, QueueSktpKeypress,
                  UserKey, keyVars
    <2> QED
      BY <2>1, <2>2, <2>3
  <1> QED
    BY <1>1, <1>2, <1>3, <1>4, <1>5, <1>6, <1>7, Groups

\* The three together, from the start on.
LEMMA StepKeepsKeyInv == TypeOK /\ KeyInv /\ [Next]_vars => KeyInv'
  <1> SUFFICES ASSUME TypeOK, KeyInv, [Next]_vars PROVE KeyInv'
    OBVIOUS
  <1>1. CASE UNCHANGED vars
    <2>1. /\ UNCHANGED <<pc, isActive, queueDelay, isSktpScreenActive, sktpContent>>
          /\ UNCHANGED <<isSktpKeypressQueued, sktpKey, isCSDBDownloadQueued>>
      BY <1>1 DEF vars, linkVars, screenVars, keyVars, downloadVars
    <2>2. NetworkOn' /\ AddressStays'
      BY <2>1 DEF KeyInv, NetworkOn, AddressStays
    <2>3. KeyWaits'
      BY <2>1 DEF KeyInv, KeyWaits, UserKey
    <2> QED
      BY <2>2, <2>3 DEF KeyInv
  <1>2. CASE Next
    BY <1>2, StepKeepsNetworkOn, StepKeepsAddress, StepKeepsKeyWaits DEF KeyInv
  <1> QED
    BY <1>1, <1>2

\* No key waits when the menu begins.
LEMMA InitKeyInv == Init => KeyInv
  BY KeysAssumption DEF Init, KeyInv, NetworkOn, AddressStays, KeyWaits, UserKey

\* Where a typed key can wait: for a download, with its address on the screen, or for
\* the pass that takes it.
THEOREM KeyInvariant == Spec => []KeyInv
  BY InitKeyInv, StepKeepsKeyInv, TypeCorrect, PTL DEF Spec

\* A step that replaces a waiting key by that of a refresh is the answer to it.
LEMMA StepKeepsKey ==
  ASSUME KeyInv, Next, UserKey, sktpKey' = NoKey
  PROVE  pc = "keypress"
  <1> USE KeysAssumption DEF UserKey
  <1>1. CASE Asks \/ Switches \/ Passes \/ Serves \/ Links \/ Downloading \/ Saves
    BY <1>1, KeepsKeys DEF keyVars, Saves, Save
  <1>2. CASE Browses
    <2>1. isSktpScreenActive
      BY <1>2 DEF KeyInv, KeyWaits, Browses, LeaveSktp, PressSktp, RequestHandled, InMenu
    <2> QED
      BY <1>2, <2>1 DEF Browses, LeaveSktp, PressSktp, QueueSktpKeypress, keyVars
  <1>3. CASE Queues
    BY <1>3 DEF Queues, BeginDownload, BeginKeypress, DropKeypress, DropRefresh,
                NothingQueued, TickRefresh, RefreshDue, AnyQueued, keyVars
  <1>4. CASE Answers
    BY <1>4 DEF Answers, SessionAnswer, PageAnswer, DownloadAnswer
  <1>5. CASE Renders
    <2>1. sktpContent # "page"
      BY <1>5 DEF Renders, Refresh, Render, InMenu, KeyInv, KeyWaits
    <2> QED
      BY <1>5, <2>1 DEF Renders, Refresh, Render, RenderC64, PageWithTimeout, keyVars
  <1> QED
    BY <1>1, <1>2, <1>3, <1>4, <1>5, Groups

\* A key the user has typed in the SKTP browser is never replaced by a refresh before
\* it has been sent, for any refresh times the pages ask for: not even by one that is
\* due at once, which does not look at the queue (net.cpp:726-740).
THEOREM TypedKeyIsKept == Spec => UserKeyKept
  <1>1. KeyInv /\ [Next]_vars
          => [(sktpKey \in Keys /\ isSktpKeypressQueued /\ sktpKey' = NoKey)
                => (pc = "keypress")]_vars
    BY StepKeepsKey DEF UserKey
  <1> QED
    BY <1>1, KeyInvariant, PTL DEF Spec, UserKeyKept
=============================================================================
