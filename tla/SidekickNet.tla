----------------------------- MODULE SidekickNet -----------------------------
(***************************************************************************)
(* The network side of Sidekick64 (class CSidekickNet, net.cpp): the flags *)
(* by which the menu, the web server and the SKTP browser queue work for   *)
(* each other, and the one buffer (prgDataLaunch) through which uploads,   *)
(* downloads and local files get to the kernel that launches them.         *)
(*                                                                         *)
(* Tasks are cooperative: the web server runs only where the main task     *)
(* yields, which it does at the head of handleQueuedNetworkAction and      *)
(* while it waits for DNS, NTP or HTTP.  A payload is its origin and its   *)
(* type; name stands for m_CSDBDownloadFilename and m_CSDBDownloadExtension *)
(* (always written together), prgDataLaunch for the bytes.                 *)
(***************************************************************************)
EXTENDS Naturals, FiniteSets

CONSTANTS
  Types,          \* file types ("prg", "crt", ...)
  CartTypes,      \* those the EasyFlash kernel launches, without network code
  Keys, NoKey,    \* keys for the SKTP browser; key 0 asks for a refresh
  Timeouts,       \* refresh timeouts an SKTP page can ask for
  NoFile, Page, Local, Garbage,  \* no name; the web upload PRG; a local file; no file
  UseWLAN

ASSUME TypesAssumption == CartTypes \subseteq Types
ASSUME KeysAssumption == NoKey \notin Keys
ASSUME TimeoutsAssumption == Timeouts \subseteq Nat

VARIABLES
  at,             \* the kernel that runs: menu, launcher, other; reboot
  pc,             \* where its main task is
  doRender,       \* local of handleNetwork
  launchKernel,   \* what the menu has chosen: none, launcher, other
  modem,          \* SwiftLink cable configured (m_modemEmuType = 1) and, in the launcher,
                  \* unlocked (swiftLinkEnabled): none, configured, unlocked
  disableCart,    \* the menu has left for BASIC
  fiqOn,          \* the FIQ of the menu is enabled (keys and button work)
  currentKernelRunning,
  isActive, webServer, netEnableWebserver, isNetworkInitQueued, queueDelay,
  isSktpScreenActive, sktpSession, isSktpKeypressQueued, sktpKey,
  skipSktpRefresh, sktpRefreshTimeout,
  sktpContent,    \* what m_sktpScreenContent points to
  longResponse,   \* m_sktpResponseLength > 1
  isCSDBDownloadQueued, isCSDBDownloadSavingQueued,
  isDownloadReady, isDownloadReadyForLaunch, bSaveCSDBDownload2SD,
  path, name, savePath, prgDataLaunch,
  isRebootRequested, rebootDue, isReturnToMenuRequested, isMenuScreenUpdateNeeded,
  \* history
  deliveries,     \* payloads on their way that have not been launched or dropped
  overlapped      \* two of them have been on their way at the same time

menuVars == <<launchKernel, modem, disableCart, fiqOn, currentKernelRunning>>
linkVars == <<isActive, webServer, netEnableWebserver, isNetworkInitQueued, queueDelay>>
refreshVars == <<skipSktpRefresh, sktpRefreshTimeout>>
screenVars == <<isSktpScreenActive, sktpSession, sktpContent, longResponse>>
keyVars  == <<isSktpKeypressQueued, sktpKey>>
downloadVars == <<isCSDBDownloadQueued, isCSDBDownloadSavingQueued, isDownloadReady,
                  isDownloadReadyForLaunch, bSaveCSDBDownload2SD, path, name, savePath,
                  prgDataLaunch>>
returnVars == <<isRebootRequested, rebootDue, isReturnToMenuRequested>>
history == <<deliveries, overlapped>>
vars == <<at, pc, doRender, menuVars, linkVars, refreshVars, screenVars, keyVars,
          downloadVars, returnVars, isMenuScreenUpdateNeeded, history>>

-----------------------------------------------------------------------------
Uploads   == {"upload"} \X Types
Downloads == {"download"} \X Types
Names == Uploads \cup Downloads \cup {NoFile}
Bytes == Uploads \cup Downloads \cup {NoFile, Page, Local, Garbage}
ASSUME PayloadsAssumption == /\ Local \notin Names \cup {Page} /\ Page \notin Names
                             /\ NoFile \notin Uploads \cup Downloads

\* The points where the main task waits and the web server can run.
YieldPoints == {"yield", "time", "session", "keypress", "download"}
Points == YieldPoints \cup {"loop", "dispatch", "connect", "launch", "save", "finished",
                            "render", "hung"}

TypeOK ==
  /\ at \in {"menu", "launcher", "other", "reboot"} /\ pc \in Points
  /\ launchKernel \in {"none", "launcher", "other"} /\ currentKernelRunning \in {"m", "l"}
  /\ modem \in {"none", "configured", "unlocked"}
  /\ {doRender, disableCart, fiqOn, isActive, webServer, netEnableWebserver,
      isNetworkInitQueued, isSktpScreenActive, isSktpKeypressQueued, longResponse,
      isCSDBDownloadQueued, isCSDBDownloadSavingQueued, isDownloadReady,
      isDownloadReadyForLaunch, bSaveCSDBDownload2SD, isRebootRequested, rebootDue,
      isReturnToMenuRequested, isMenuScreenUpdateNeeded, overlapped} \subseteq BOOLEAN
  /\ queueDelay \in 0 .. 1 /\ sktpSession \in 0 .. 2 /\ sktpKey \in Keys \cup {NoKey}
  /\ sktpRefreshTimeout \in Timeouts \cup {0}
  /\ skipSktpRefresh \in 0 .. sktpRefreshTimeout + 1
  /\ sktpContent \in {"none", "page", "text", "url"}
  /\ path \in Downloads \cup {NoFile} /\ savePath \in Downloads \cup {NoFile}
  /\ name \in Names /\ prgDataLaunch \in Bytes
  /\ deliveries \subseteq Uploads \cup Downloads \cup {Page, Local}

\* isAnyNetworkActionQueued (frames are only queued by another kernel).
AnyQueued == isNetworkInitQueued \/ isSktpKeypressQueued \/ isCSDBDownloadQueued
             \/ isCSDBDownloadSavingQueued

Deliver(item) ==
  /\ deliveries' = deliveries \cup {item}
  /\ overlapped' = IF deliveries = {} THEN overlapped ELSE TRUE

-----------------------------------------------------------------------------
(* The web server.                                                         *)

WebServerRuns == webServer /\ pc \in YieldPoints

\* Mutant: the launcher is not told.
ReturnUnrequested == UNCHANGED isReturnToMenuRequested

\* The launcher has to give way.
RequestReturn ==
  isReturnToMenuRequested' = IF currentKernelRunning = "l" THEN TRUE
                             ELSE isReturnToMenuRequested

\* A file of a known type is uploaded (GetContent, prepareLaunchOfUpload).
Upload(type) ==
  /\ WebServerRuns
  /\ prgDataLaunch' = <<"upload", type>> /\ name' = <<"upload", type>>
  /\ isDownloadReadyForLaunch' = TRUE
  /\ RequestReturn
  /\ Deliver(<<"upload", type>>)
  /\ UNCHANGED <<at, pc, doRender, menuVars, linkVars, refreshVars, screenVars, keyVars,
                 isCSDBDownloadQueued, isCSDBDownloadSavingQueued, isDownloadReady,
                 bSaveCSDBDownload2SD, path, savePath, isRebootRequested, rebootDue,
                 isMenuScreenUpdateNeeded>>

\* Somebody opens the upload page (enterWebUploadMode): the modem is switched off, and
\* in the menu the C64 is given a program that shows how to upload.
OpenUploadPage ==
  /\ WebServerRuns
  /\ modem' = "none"
  /\ \/ /\ currentKernelRunning = "m"
        /\ prgDataLaunch' = Page /\ isDownloadReadyForLaunch' = TRUE
        /\ Deliver(Page)
     \/ /\ currentKernelRunning # "m"
        /\ UNCHANGED <<prgDataLaunch, isDownloadReadyForLaunch, history>>
  /\ UNCHANGED <<at, pc, doRender, launchKernel, disableCart, fiqOn, currentKernelRunning,
                 linkVars, refreshVars, screenVars, keyVars, isCSDBDownloadQueued,
                 isCSDBDownloadSavingQueued, isDownloadReady, bSaveCSDBDownload2SD, path,
                 name, savePath, returnVars, isMenuScreenUpdateNeeded>>

\* A kernel image is uploaded (requestReboot).
UploadKernel ==
  /\ WebServerRuns
  /\ isRebootRequested' = TRUE /\ rebootDue' = FALSE
  /\ UNCHANGED <<at, pc, doRender, menuVars, linkVars, refreshVars, screenVars, keyVars,
                 downloadVars, isReturnToMenuRequested, isMenuScreenUpdateNeeded, history>>

\* Three seconds after that.
RebootTimer ==
  /\ isRebootRequested /\ ~rebootDue /\ rebootDue' = TRUE
  /\ UNCHANGED <<at, pc, doRender, menuVars, linkVars, refreshVars, screenVars, keyVars,
                 downloadVars, isRebootRequested, isReturnToMenuRequested,
                 isMenuScreenUpdateNeeded, history>>

-----------------------------------------------------------------------------
(* The main loop of the menu.                                              *)

InMenu == at = "menu" /\ pc = "loop" /\ ~rebootDue

\* A network pass begins, with a yield if the web server or WLAN need one.
StartPass(render) ==
  /\ pc' = IF isActive /\ (netEnableWebserver \/ UseWLAN) THEN "yield" ELSE "dispatch"
  /\ doRender' = render

\* while ( !isRebootRequested() )
Reboot ==
  /\ at = "menu" /\ pc = "loop" /\ rebootDue
  /\ at' = "reboot"
  /\ UNCHANGED <<pc, doRender, menuVars, linkVars, refreshVars, screenVars, keyVars,
                 downloadVars, returnVars, isMenuScreenUpdateNeeded, history>>

\* Run returns and main() starts the chosen kernel.
LeaveMenu ==
  /\ InMenu /\ launchKernel # "none"
  /\ at' = launchKernel /\ launchKernel' = "none" /\ fiqOn' = FALSE
  /\ currentKernelRunning' = IF launchKernel = "launcher" THEN "l" ELSE currentKernelRunning
  /\ deliveries' = deliveries \ {Local}
  /\ UNCHANGED <<pc, doRender, modem, disableCart, linkVars, refreshVars, screenVars, keyVars,
                 downloadVars, returnVars, isMenuScreenUpdateNeeded, overlapped>>

\* Run is entered again; with disableCart set it does not enable the FIQ.  (The launcher
\* locks the modem when it is entered: nothing looks at swiftLinkEnabled in between.)
BackToMenu ==
  /\ at' = "menu" /\ currentKernelRunning' = "m"
  /\ modem' = IF modem = "unlocked" THEN "configured" ELSE modem
  /\ fiqOn' = IF disableCart THEN FALSE ELSE TRUE
  /\ UNCHANGED <<launchKernel, disableCart>>

\* The C64 asks for something: handleNetwork( true ), which calls handleC64 first.
\* renderC64 is due whatever the key was.
RequestHandled == InMenu /\ launchKernel = "none" /\ fiqOn /\ ~disableCart /\ StartPass(TRUE)

NoNetworkKey ==
  /\ RequestHandled
  /\ UNCHANGED <<at, menuVars, linkVars, refreshVars, screenVars, keyVars, downloadVars,
                 returnVars, isMenuScreenUpdateNeeded, history>>

\* A local program, cartridge or freezer; one out of a disk image goes through
\* the buffer.
PickLocal(kernel) ==
  /\ RequestHandled /\ ~isSktpScreenActive
  /\ launchKernel' = kernel
  /\ \/ UNCHANGED <<prgDataLaunch, history>>
     \/ kernel = "launcher" /\ prgDataLaunch' = Local /\ Deliver(Local)
  /\ UNCHANGED <<at, modem, disableCart, fiqOn, currentKernelRunning, linkVars, refreshVars,
                 screenVars, keyVars, isCSDBDownloadQueued, isCSDBDownloadSavingQueued,
                 isDownloadReady, isDownloadReadyForLaunch, bSaveCSDBDownload2SD, path,
                 name, savePath, returnVars, isMenuScreenUpdateNeeded>>

\* Exit to BASIC: deactivateCart.
ExitToBasic ==
  /\ RequestHandled /\ ~isSktpScreenActive
  /\ disableCart' = TRUE /\ currentKernelRunning' = "l"
  /\ UNCHANGED <<at, launchKernel, modem, fiqOn, linkVars, refreshVars, screenVars, keyVars,
                 downloadVars, returnVars, isMenuScreenUpdateNeeded, history>>

\* The button of the cartridge: activateCart, in the FIQ handler.
Button ==
  /\ InMenu /\ fiqOn /\ disableCart
  /\ disableCart' = FALSE /\ currentKernelRunning' = "m"
  /\ UNCHANGED <<at, pc, doRender, launchKernel, modem, fiqOn, linkVars, refreshVars,
                 screenVars, keyVars, downloadVars, returnVars, isMenuScreenUpdateNeeded,
                 history>>

\* Network menu, keys c, w and m: queueNetworkInit; enable the web server; choose the
\* modem (the one at the user port counts as none).
PressConnect ==
  /\ RequestHandled /\ ~isSktpScreenActive /\ ~isActive
  /\ isNetworkInitQueued' = TRUE /\ queueDelay' = 1
  /\ UNCHANGED <<at, menuVars, isActive, webServer, netEnableWebserver, refreshVars,
                 screenVars, keyVars, downloadVars, returnVars, isMenuScreenUpdateNeeded,
                 history>>

PressWebserver ==
  /\ RequestHandled /\ ~isSktpScreenActive /\ isActive
  /\ netEnableWebserver' = TRUE
  /\ UNCHANGED <<at, menuVars, isActive, webServer, isNetworkInitQueued, queueDelay,
                 refreshVars, screenVars, keyVars, downloadVars, returnVars,
                 isMenuScreenUpdateNeeded, history>>

PressModem ==
  /\ RequestHandled /\ ~isSktpScreenActive /\ isActive
  /\ modem' = IF modem = "none" THEN "configured" ELSE "none"
  /\ UNCHANGED <<at, launchKernel, disableCart, fiqOn, currentKernelRunning, linkVars,
                 refreshVars, screenVars, keyVars, downloadVars, returnVars,
                 isMenuScreenUpdateNeeded, history>>

QueueSktpKeypress(key) ==
  /\ isSktpKeypressQueued' = TRUE /\ sktpKey' = key
  /\ queueDelay' = IF AnyQueued THEN queueDelay ELSE 0

\* SKTP browser: entered (and, by handleC64( 0xffffffff ), a key that is none), a key
\* typed, and left.
PressSktp(key) ==
  /\ RequestHandled
  /\ \/ /\ isActive /\ ~isSktpScreenActive /\ key = NoKey
        /\ sktpSession' = IF sktpSession = 1 THEN 2 ELSE sktpSession
     \/ isSktpScreenActive /\ key \in Keys /\ UNCHANGED sktpSession
  /\ isSktpScreenActive' = TRUE
  /\ QueueSktpKeypress(key)
  /\ UNCHANGED <<at, menuVars, isActive, webServer, netEnableWebserver, isNetworkInitQueued,
                 refreshVars, sktpContent, longResponse, downloadVars, returnVars,
                 isMenuScreenUpdateNeeded, history>>

LeaveSktp ==
  /\ RequestHandled /\ isSktpScreenActive /\ isSktpScreenActive' = FALSE
  /\ UNCHANGED <<at, menuVars, linkVars, refreshVars, sktpSession, sktpContent, longResponse,
                 keyVars, downloadVars, returnVars, isMenuScreenUpdateNeeded, history>>

\* The periodic handleNetwork( false ).
PeriodicPass ==
  /\ InMenu /\ launchKernel = "none" /\ (isNetworkInitQueued \/ isActive)
  /\ StartPass(FALSE)
  /\ UNCHANGED <<at, menuVars, linkVars, refreshVars, screenVars, keyVars, downloadVars,
                 returnVars, isMenuScreenUpdateNeeded, history>>

-----------------------------------------------------------------------------
(* handleQueuedNetworkAction, in the menu and in the launcher.             *)

\* Back to what called it.
ActionDone == pc' = IF at = "launcher" THEN "loop" ELSE IF isActive THEN "launch" ELSE "render"

\* The web server is started at the first pass that finds it enabled.
StartWebServer ==
  webServer' = IF isActive /\ netEnableWebserver /\ ~(UseWLAN /\ AnyQueued)
               THEN TRUE ELSE webServer

AtDispatch == pc \in {"yield", "dispatch"} /\ StartWebServer

\* Mutant: every pass is delayed.
AlwaysDelayed == TRUE

Delayed == queueDelay > 0

\* Something has been queued that first wants the screen to be updated.
Delay ==
  /\ AtDispatch /\ Delayed
  /\ queueDelay' = queueDelay - 1
  /\ UNCHANGED <<isActive, netEnableWebserver, isNetworkInitQueued>>
  /\ ActionDone
  /\ UNCHANGED <<at, doRender, menuVars, refreshVars, screenVars, keyVars, downloadVars,
                 returnVars, isMenuScreenUpdateNeeded, history>>

\* Without a network there is at most a connection to be made.
Offline ==
  /\ AtDispatch /\ ~Delayed /\ ~isActive
  /\ UNCHANGED <<isActive, netEnableWebserver, isNetworkInitQueued, queueDelay>>
  /\ \/ isNetworkInitQueued /\ pc' = "connect"
     \/ ~isNetworkInitQueued /\ ActionDone
  /\ UNCHANGED <<at, doRender, menuVars, refreshVars, screenVars, keyVars, downloadVars,
                 returnVars, isMenuScreenUpdateNeeded, history>>

InitOver == isNetworkInitQueued' = FALSE

\* Initialize: on success it ends with the web server being started, and the time is
\* fetched; on failure the menu shows a message.
Connect ==
  /\ pc = "connect"
  /\ isMenuScreenUpdateNeeded' = TRUE
  /\ UNCHANGED <<netEnableWebserver, queueDelay>>
  /\ \/ /\ pc' = "time" /\ isActive' = TRUE /\ UNCHANGED isNetworkInitQueued
        /\ webServer' = IF netEnableWebserver THEN TRUE ELSE webServer
     \/ UNCHANGED <<isActive, webServer>> /\ InitOver /\ ActionDone
  /\ UNCHANGED <<at, doRender, menuVars, refreshVars, screenVars, keyVars, downloadVars,
                 returnVars, history>>

TimeUpdated ==
  /\ pc = "time" /\ InitOver
  /\ UNCHANGED <<isActive, webServer, netEnableWebserver, queueDelay>>
  /\ ActionDone
  /\ UNCHANGED <<at, doRender, menuVars, refreshVars, screenVars, keyVars, downloadVars,
                 returnVars, isMenuScreenUpdateNeeded, history>>

\* Mutant: a refresh does not wait for the queue to be empty.
RefreshDueAlways == skipSktpRefresh >= sktpRefreshTimeout

\* The refresh timer has run down and nothing else is queued.
RefreshDue == skipSktpRefresh >= sktpRefreshTimeout /\ ~AnyQueued

\* queuedSktpRefreshAllowed, called while the timer runs: a refresh is a keypress too.
\* (The code counts on while something is queued; the model stops at the timeout plus
\* one, a bound of its own: beyond it the count tells nothing apart.)
TickRefresh ==
  \/ /\ skipSktpRefresh > 0 /\ RefreshDue
     /\ skipSktpRefresh' = 0 /\ sktpRefreshTimeout' = 0
     /\ isSktpKeypressQueued' = TRUE /\ sktpKey' = NoKey
     /\ isMenuScreenUpdateNeeded' = TRUE
  \/ /\ skipSktpRefresh > 0 /\ ~RefreshDue
     /\ skipSktpRefresh' = IF skipSktpRefresh > sktpRefreshTimeout THEN skipSktpRefresh
                           ELSE skipSktpRefresh + 1
     /\ UNCHANGED <<sktpRefreshTimeout, keyVars, isMenuScreenUpdateNeeded>>
  \/ skipSktpRefresh = 0 /\ UNCHANGED <<refreshVars, keyVars, isMenuScreenUpdateNeeded>>

Online == AtDispatch /\ ~Delayed /\ isActive
          /\ UNCHANGED <<isActive, netEnableWebserver, isNetworkInitQueued, queueDelay>>
          /\ UNCHANGED <<at, doRender, menuVars, returnVars, history>>

\* A queued download goes before a queued keypress.
BeginDownload ==
  /\ Online /\ isCSDBDownloadQueued /\ TickRefresh
  /\ pc' = "download" /\ isCSDBDownloadQueued' = FALSE
  /\ UNCHANGED <<screenVars, isCSDBDownloadSavingQueued, isDownloadReady,
                 isDownloadReadyForLaunch, bSaveCSDBDownload2SD, path, name, savePath,
                 prgDataLaunch>>

\* updateSktpScreenContent: first a session, if there is none; getSktpPath notes that
\* the redraw has been asked for.
BeginKeypress ==
  /\ Online /\ ~isCSDBDownloadQueued /\ TickRefresh /\ isSktpKeypressQueued' /\ isSktpScreenActive
  /\ \/ sktpSession = 0 /\ pc' = "session" /\ UNCHANGED sktpSession
     \/ sktpSession > 0 /\ pc' = "keypress" /\ sktpSession' = 1
  /\ UNCHANGED <<isSktpScreenActive, sktpContent, longResponse, downloadVars>>

\* The browser has been left: the key is dropped, a text is shown instead of a page.
DropKeypress ==
  /\ Online /\ ~isCSDBDownloadQueued /\ isSktpKeypressQueued /\ ~isSktpScreenActive
  /\ skipSktpRefresh' = IF skipSktpRefresh = 0 \/ skipSktpRefresh > sktpRefreshTimeout
                        THEN skipSktpRefresh ELSE skipSktpRefresh + 1
  /\ UNCHANGED <<sktpRefreshTimeout, isMenuScreenUpdateNeeded>>
  /\ isSktpKeypressQueued' = FALSE /\ sktpContent' = "text" /\ UNCHANGED sktpKey
  /\ ActionDone
  /\ UNCHANGED <<isSktpScreenActive, sktpSession, longResponse, downloadVars>>

\* The same for a refresh that has come due.
DropRefresh ==
  /\ Online /\ ~isCSDBDownloadQueued /\ ~isSktpKeypressQueued /\ ~isSktpScreenActive
  /\ skipSktpRefresh > 0 /\ RefreshDue
  /\ skipSktpRefresh' = 0 /\ sktpRefreshTimeout' = 0 /\ isMenuScreenUpdateNeeded' = TRUE
  /\ sktpKey' = NoKey /\ sktpContent' = "text" /\ UNCHANGED isSktpKeypressQueued
  /\ ActionDone
  /\ UNCHANGED <<isSktpScreenActive, sktpSession, longResponse, downloadVars>>

NothingQueued ==
  /\ Online /\ ~isCSDBDownloadQueued /\ TickRefresh /\ ~isSktpKeypressQueued'
  /\ ActionDone
  /\ UNCHANGED <<screenVars, downloadVars>>

KeyTaken == isSktpKeypressQueued' = FALSE

\* The keypress has been dealt with.
KeypressDone ==
  /\ KeyTaken /\ ActionDone
  /\ UNCHANGED <<at, doRender, menuVars, linkVars, refreshVars, returnVars,
                 isMenuScreenUpdateNeeded>>

\* A session id (26 to 33 bytes) is a response too; without one the key is given up.
SessionAnswer ==
  /\ pc = "session"
  /\ UNCHANGED <<isSktpScreenActive, sktpContent, sktpKey, downloadVars, history>>
  /\ \/ /\ pc' = "keypress" /\ sktpSession' = 1 /\ longResponse' = TRUE
        /\ UNCHANGED <<at, doRender, menuVars, linkVars, refreshVars, isSktpKeypressQueued,
                       returnVars, isMenuScreenUpdateNeeded>>
     \/ KeypressDone /\ UNCHANGED <<sktpSession, longResponse>>

\* The answer to a keypress: a page, or none (a text is shown: the length of the response
\* before it stays what it was).
PageAnswer ==
  /\ pc = "keypress" /\ KeypressDone /\ sktpKey' = NoKey
  /\ \/ sktpContent' = "page" /\ longResponse' = TRUE
     \/ sktpContent' = "text" /\ UNCHANGED longResponse
  /\ UNCHANGED <<isSktpScreenActive, sktpSession, downloadVars, history>>

\* Mutant: the path of the last download is kept.
SavePathKept(type, save) == UNCHANGED savePath

NoteSavePath(type, save) == savePath' = IF save THEN <<"download", type>> ELSE NoFile

\* Or the address of a file to download, and whether it is to be saved.
DownloadAnswer(type, save) ==
  /\ pc = "keypress" /\ KeypressDone /\ sktpKey' = NoKey
  /\ sktpContent' = "url" /\ longResponse' = FALSE
  /\ isCSDBDownloadQueued' = TRUE /\ bSaveCSDBDownload2SD' = save
  /\ path' = <<"download", type>> /\ name' = <<"download", type>>
  /\ NoteSavePath(type, save)
  /\ Deliver(<<"download", type>>)
  /\ UNCHANGED <<isSktpScreenActive, sktpSession, isCSDBDownloadSavingQueued,
                 isDownloadReady, isDownloadReadyForLaunch, prgDataLaunch>>

\* getCSDBBinaryContent.  Asked for no path at all a server may send anything.
Downloaded ==
  /\ pc = "download" /\ ActionDone
  /\ \/ /\ prgDataLaunch' = IF path = NoFile THEN Garbage ELSE path
        /\ isDownloadReady' = TRUE /\ UNCHANGED <<isMenuScreenUpdateNeeded, history>>
     \/ /\ isMenuScreenUpdateNeeded' = TRUE        \* HTTP request failed
        /\ deliveries' = deliveries \ {path} /\ UNCHANGED overlapped
        /\ UNCHANGED <<prgDataLaunch, isDownloadReady>>
  /\ UNCHANGED <<at, doRender, menuVars, linkVars, refreshVars, screenVars, keyVars,
                 isCSDBDownloadQueued, isCSDBDownloadSavingQueued, isDownloadReadyForLaunch,
                 bSaveCSDBDownload2SD, path, name, savePath, returnVars>>

-----------------------------------------------------------------------------
(* What handleNetwork does after that.                                     *)

\* cleanupDownloadData forgets that something is ready.
NotReadyAnyMore == isDownloadReadyForLaunch' = FALSE

\* The kernel for a payload of that name (getCSDBDownloadLaunchType); the program of the
\* upload page, and what has no name, is a program.
KernelFor(n) ==
  IF n \in Uploads \cup Downloads /\ n[2] \in CartTypes THEN "other" ELSE "launcher"

\* What is ready is launched as what its name says, and cleanupDownloadData forgets all
\* about it.
Launch ==
  /\ pc = "launch" /\ isDownloadReadyForLaunch
  /\ launchKernel' = KernelFor(name)
  /\ NotReadyAnyMore
  /\ path' = NoFile /\ name' = NoFile /\ savePath' = NoFile /\ bSaveCSDBDownload2SD' = FALSE
  /\ sktpSession' = IF sktpSession = 1 THEN 2 ELSE sktpSession
  /\ deliveries' = deliveries \ {name, prgDataLaunch}
  /\ pc' = "save"
  /\ UNCHANGED <<at, doRender, modem, disableCart, fiqOn, currentKernelRunning, linkVars,
                 refreshVars, isSktpScreenActive, sktpContent, longResponse, keyVars,
                 isCSDBDownloadQueued, isCSDBDownloadSavingQueued, isDownloadReady,
                 prgDataLaunch, returnVars, isMenuScreenUpdateNeeded, overlapped>>

NothingToLaunch ==
  /\ pc = "launch" /\ ~isDownloadReadyForLaunch /\ pc' = "save"
  /\ UNCHANGED <<at, doRender, menuVars, linkVars, refreshVars, screenVars, keyVars,
                 downloadVars, returnVars, isMenuScreenUpdateNeeded, history>>

\* checkForSaveableDownload, saveDownload2SD: once saved it can be launched.
Save ==
  /\ pc = "save" /\ isCSDBDownloadSavingQueued /\ pc' = "finished"
  /\ isCSDBDownloadSavingQueued' = FALSE /\ isDownloadReadyForLaunch' = TRUE
  /\ isSktpKeypressQueued' = FALSE
  /\ UNCHANGED <<at, doRender, menuVars, linkVars, refreshVars, screenVars, sktpKey,
                 isCSDBDownloadQueued, isDownloadReady, bSaveCSDBDownload2SD, path, name,
                 savePath, prgDataLaunch, returnVars, isMenuScreenUpdateNeeded, history>>

NothingToSave ==
  /\ pc = "save" /\ ~isCSDBDownloadSavingQueued /\ pc' = "finished"
  /\ UNCHANGED <<at, doRender, menuVars, linkVars, refreshVars, screenVars, keyVars,
                 downloadVars, returnVars, isMenuScreenUpdateNeeded, history>>

\* checkForFinishedDownload: a finished download is saved in the next pass, after the
\* menu has said so; one that is not to be saved is forgotten.
Finished ==
  /\ pc = "finished" /\ isDownloadReady /\ pc' = "render"
  /\ isDownloadReady' = FALSE /\ isDownloadReadyForLaunch' = FALSE
  /\ \/ /\ bSaveCSDBDownload2SD
        /\ isCSDBDownloadSavingQueued' = TRUE /\ isMenuScreenUpdateNeeded' = TRUE
        /\ UNCHANGED deliveries
     \/ /\ ~bSaveCSDBDownload2SD
        /\ deliveries' = deliveries \ {path}
        /\ UNCHANGED <<isCSDBDownloadSavingQueued, isMenuScreenUpdateNeeded>>
  /\ UNCHANGED <<at, doRender, menuVars, linkVars, refreshVars, screenVars, keyVars,
                 isCSDBDownloadQueued, bSaveCSDBDownload2SD, path, name, savePath,
                 prgDataLaunch, returnVars, overlapped>>

NothingFinished ==
  /\ pc = "finished" /\ ~isDownloadReady /\ pc' = "render"
  /\ UNCHANGED <<at, doRender, menuVars, linkVars, refreshVars, screenVars, keyVars,
                 downloadVars, returnVars, isMenuScreenUpdateNeeded, history>>

\* renderC64.  A page of the browser may set the refresh timer, at once if it says 0.
\* A text is not a page: if the length of an earlier response is still there,
\* printSKTPScreen looks for chunks in it and never finds the end.
PageWithTimeout(t) ==
  /\ isSktpScreenActive /\ sktpContent = "page" /\ pc' = "loop"
  /\ \/ /\ t = 0 /\ skipSktpRefresh' = 0 /\ sktpRefreshTimeout' = 0
        /\ QueueSktpKeypress(NoKey) /\ isMenuScreenUpdateNeeded' = TRUE
     \/ /\ t > 0 /\ skipSktpRefresh' = 1 /\ sktpRefreshTimeout' = t
        /\ isMenuScreenUpdateNeeded' = FALSE /\ UNCHANGED <<keyVars, queueDelay>>

Hangs == isSktpScreenActive /\ sktpContent = "text" /\ longResponse

RenderC64(needed) ==
  \/ \E t \in Timeouts : PageWithTimeout(t)
  \/ /\ pc' = IF Hangs THEN "hung" ELSE "loop"
     /\ isMenuScreenUpdateNeeded' = needed /\ UNCHANGED <<refreshVars, keyVars, queueDelay>>

RenderKeeps == UNCHANGED <<at, doRender, menuVars, isActive, webServer, netEnableWebserver,
                           isNetworkInitQueued, screenVars, downloadVars, returnVars, history>>

\* The end of handleNetwork; isMenuScreenUpdateNeeded() is called, which clears the flag,
\* only if there is a network.
Render ==
  /\ pc = "render" /\ RenderKeeps
  /\ \/ /\ doRender \/ ~isActive \/ isMenuScreenUpdateNeeded
        /\ RenderC64(isMenuScreenUpdateNeeded /\ ~isActive)
     \/ /\ ~(doRender \/ ~isActive \/ isMenuScreenUpdateNeeded) /\ pc' = "loop"
        /\ UNCHANGED <<refreshVars, keyVars, queueDelay, isMenuScreenUpdateNeeded>>

\* The menu's own look at isMenuScreenUpdateNeeded.
Refresh ==
  /\ InMenu /\ launchKernel = "none" /\ isMenuScreenUpdateNeeded
  /\ RenderKeeps /\ RenderC64(FALSE)

-----------------------------------------------------------------------------
(* The other kernels.                                                      *)

\* isReturnToMenuRequired, which forgets one reason and not the other.
ReturnRequired == isRebootRequested \/ isReturnToMenuRequested

\* The launcher, when its C64 program has been started, counts netDelay down and then
\* looks whether it has to return, or else serves the network like the menu.  The first
\* such pass unlocks the SwiftLink cable, if that is configured; from then on netDelay is
\* not counted, and there is a pass only when the C64 program, talking to the modem, has
\* itself halted (swiftLinkReleaseDMA).
NetDelayCounts == modem # "unlocked"

LauncherReturns ==
  /\ at = "launcher" /\ pc = "loop" /\ isActive
  /\ ReturnRequired /\ isReturnToMenuRequested' = FALSE
  /\ BackToMenu
  /\ UNCHANGED <<pc, doRender, linkVars, refreshVars, screenVars, keyVars, downloadVars,
                 isRebootRequested, rebootDue, isMenuScreenUpdateNeeded, history>>

LauncherPass ==
  /\ at = "launcher" /\ pc = "loop" /\ isActive
  /\ ~ReturnRequired
  /\ pc' = IF netEnableWebserver \/ UseWLAN THEN "yield" ELSE "dispatch"
  /\ modem' = IF modem = "configured" THEN "unlocked" ELSE modem
  /\ UNCHANGED <<at, doRender, launchKernel, disableCart, fiqOn, currentKernelRunning, linkVars, refreshVars, screenVars, keyVars,
                 downloadVars, returnVars, isMenuScreenUpdateNeeded, history>>

\* The button, held for a second, ends any kernel.
UserReturns ==
  /\ at \in {"launcher", "other"} /\ pc = "loop"
  /\ BackToMenu
  /\ UNCHANGED <<pc, doRender, linkVars, refreshVars, screenVars, keyVars, downloadVars,
                 returnVars, isMenuScreenUpdateNeeded, history>>

-----------------------------------------------------------------------------
Init ==
  /\ at = "menu" /\ pc = "loop" /\ doRender = FALSE
  /\ launchKernel = "none" /\ modem = "none" /\ disableCart = FALSE /\ fiqOn = TRUE
  /\ currentKernelRunning = "m"
  /\ isActive = FALSE /\ webServer = FALSE /\ netEnableWebserver \in BOOLEAN
  /\ isNetworkInitQueued = FALSE /\ queueDelay = 0
  /\ isSktpScreenActive = FALSE /\ sktpSession = 0 /\ sktpContent = "none"
  /\ longResponse = FALSE /\ isSktpKeypressQueued = FALSE /\ sktpKey = NoKey
  /\ skipSktpRefresh = 0 /\ sktpRefreshTimeout = 0
  /\ isCSDBDownloadQueued = FALSE /\ isCSDBDownloadSavingQueued = FALSE
  /\ isDownloadReady = FALSE /\ isDownloadReadyForLaunch = FALSE
  /\ bSaveCSDBDownload2SD = FALSE /\ path = NoFile /\ name = NoFile /\ savePath = NoFile
  /\ prgDataLaunch = NoFile
  /\ isRebootRequested = FALSE /\ rebootDue = FALSE /\ isReturnToMenuRequested = FALSE
  /\ isMenuScreenUpdateNeeded = FALSE
  /\ deliveries = {} /\ overlapped = FALSE

User ==
  \/ NoNetworkKey \/ ExitToBasic \/ Button \/ PressConnect \/ PressWebserver \/ PressModem
  \/ LeaveSktp
  \/ \E k \in Keys \cup {NoKey} : PressSktp(k)
  \/ \E kernel \in {"launcher", "other"} : PickLocal(kernel)
  \/ UserReturns

Web == OpenUploadPage \/ UploadKernel \/ \E t \in Types : Upload(t)

Server == PageAnswer \/ \E t \in Types, save \in BOOLEAN : DownloadAnswer(t, save)

LauncherLooks == LauncherReturns \/ LauncherPass

Work ==
  \/ Reboot \/ LeaveMenu \/ Refresh \/ Delay \/ Offline \/ Connect \/ TimeUpdated
  \/ BeginDownload \/ BeginKeypress \/ DropKeypress \/ DropRefresh \/ NothingQueued
  \/ SessionAnswer \/ Server \/ Downloaded
  \/ Launch \/ NothingToLaunch \/ Save \/ NothingToSave \/ Finished \/ NothingFinished
  \/ Render \/ (NetDelayCounts /\ LauncherLooks)

\* The C64 program and its modem.
SwiftLinkPass == ~NetDelayCounts /\ LauncherLooks

Next == User \/ Web \/ Work \/ SwiftLinkPass \/ PeriodicPass \/ RebootTimer

Spec == Init /\ [][Next]_vars

\* The main task runs, every request to a server is answered or fails, the launcher counts
\* netDelay down unless a SwiftLink cable is unlocked, and the loop of the menu counts up
\* to the periodic pass whatever else it does.
Fairness == WF_vars(Work) /\ WF_vars(PeriodicPass) /\ WF_vars(RebootTimer)

FairSpec == Spec /\ Fairness

-----------------------------------------------------------------------------
(* What the network code promises.                                         *)

Launching == pc = "launch" /\ pc' = "save" /\ isDownloadReadyForLaunch

\* The name and the type of a download that has failed, or that was not to be saved, stay
\* until the next launch.
NameLeft == name # NoFile /\ name \notin deliveries

\* A payload that has the buffer for itself is launched and saved as what it is: what is
\* launched is the payload on its way, a file under its own name, by the kernel for it;
\* and what is saved is the download the file was named for (Launch and Save against
\* prepareLaunchOfUpload, enterWebUploadMode, getCSDBBinaryContent, saveDownload2SD and
\* the local files).  Not so the kernel for the program of the upload page: it has no name
\* of its own, and one left by a download that was given up decides.
Saving == pc = "save" /\ isCSDBDownloadSavingQueued /\ isDownloadReadyForLaunch'
SoloPayload ==
  [][~overlapped =>
       /\ Launching =>
            /\ prgDataLaunch \in deliveries
            /\ prgDataLaunch # Page => prgDataLaunch = name
            /\ \/ launchKernel' = KernelFor(prgDataLaunch)
               \/ prgDataLaunch = Page /\ NameLeft
       /\ Saving => prgDataLaunch = savePath]_vars

\* A key the user has typed in the SKTP browser and that has not been sent yet is never
\* replaced by a refresh (queueSktpKeypress( 0 ), by the timer or by a page).
UserKeyKept ==
  [][(sktpKey \in Keys /\ isSktpKeypressQueued /\ sktpKey' = NoKey) => (pc = "keypress")]_vars

Over == pc = "hung" \/ at = "reboot"

\* Nobody looks at requests unless the C64 program talks to its modem.
Unattended == at = "launcher" /\ ~NetDelayCounts

\* An upload that arrives while the launcher runs is launched: the launcher gives way.
UploadLaunched ==
  at = "launcher" /\ isDownloadReadyForLaunch /\ name \in Uploads
    ~> ~isDownloadReadyForLaunch \/ Over \/ Unattended

\* After a kernel update the Sidekick reboots, unless a kernel without network runs or
\* more kernel images come (each starts the three seconds again).
RebootHappens ==
  <>[][~UploadKernel]_vars => (isRebootRequested ~> at = "other" \/ Over \/ Unattended)

\* An attempt to connect ends, with or without a network, unless the user goes on asking
\* for one (each time the pass is delayed again).
ConnectEnds ==
  <>[][~PressConnect]_vars
    => (isNetworkInitQueued ~> ~isNetworkInitQueued \/ at # "menu" \/ Over)

\* A key for the SKTP server, typed or of a refresh, does not stay in the queue.
QueueEmpties ==
  isSktpKeypressQueued ~> ~isSktpKeypressQueued \/ at = "other" \/ Over \/ Unattended

\* What is queued for the main task does not wait for ever: an upload, a reboot, a
\* connection, a key (checkForFinishedDownload, isRebootRequested,
\* handleQueuedNetworkAction) - as long as no launcher runs with its SwiftLink cable
\* unlocked, which attends to nothing by itself.
RequestsEnd == UploadLaunched /\ RebootHappens /\ ConnectEnds /\ QueueEmpties

\* A failed request is shown as a text (msgNotFound); rendering it comes to an end.
NeverHangs == pc # "hung"
=============================================================================
