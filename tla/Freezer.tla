------------------------------ MODULE Freezer ------------------------------
(***************************************************************************)
(* The freezer cartridges: Action Replay (kernel_ar.cpp), Final Cartridge  *)
(* III (kernel_fc3.cpp), KCS Power Cartridge (kernel_kcs.cpp) and Super    *)
(* Snapshot 5 (kernel_ssnap5.cpp).  One FIQ handler per cycle of the C64's *)
(* processor serves the cartridge's memory and decides when to freeze: the *)
(* button pulls NMI, and when the processor has written three times in a   *)
(* row, as it does when it enters an interrupt, the cartridge goes to      *)
(* Ultimax mode, so that the vector is read from the freezer's ROM.        *)
(*                                                                         *)
(* A cycle of the processor is one of the following accesses.              *)
(*   "read", "write"  memory of the C64                                    *)
(*   "push"           the stack, when an interrupt is entered              *)
(*   "vector"         the interrupt vector                                 *)
(*   "rom"            a read the cartridge (or its KERNAL) answers         *)
(*   "register"       a write of the cartridge's register                  *)
(*   "mode"           a read that sets the register (KCS)                  *)
(*   "memory"         a write to memory of the cartridge                   *)
(* Which byte is read, the bank it is in and the LEDs are left out, and so *)
(* are the cycles the VIC takes: the processor only stops for it at a read.*)
(***************************************************************************)
EXTENDS Naturals, Sequences

CONSTANT MaxUserResets  \* resets of the C64

ASSUME ResetsAssumption == MaxUserResets \in Nat

AR == "AR"
FC3 == "FC3"
KCS == "KCS"
SS5 == "SS5"

VARIABLES
  type,       \* the cartridge
  freezerKernal,  \* it replaces the KERNAL
  cart,       \* the state of the FIQ handler and the lines it drives
  main,       \* the statement of the main loop
  counter, pressed, released,   \* resetCounter, resetPressed, resetReleased
  resetLow,   \* somebody holds the C64 in reset
  userResets, \* how often the user did
  cpu,        \* the cycles left of the instruction, and what it is
  latched,    \* the edge of NMI the processor has still to take
  fresh,      \* it came with the last cycle
  excused,    \* history: the last press came when no freeze can be expected
  raced       \* history: the handler changed the mode while it was initialised

resetVars == <<counter, pressed, released>>
userVars == <<resetLow, userResets>>
cpuVars == <<cpu, latched, fresh>>
historyVars == <<excused, raced>>
freezerVars == <<type, freezerKernal, cart, main, resetVars, userVars, cpuVars, historyVars>>

\* resetCounter: none, at most 30, more than 30, more than 500000 cycles
Short == 1
Long == 2
Held == 3

\* bound: countWrites is compared with 3 only, and 4 stands for every larger value
Many == 4

(* exrom, game, nmi: the levels of the lines                               *)
(* active: the cartridge is switched on; ultimax: bit 8 of active, or the  *)
(*   flag of that name                                                     *)
(* count: countWrites; armed: freezeNMICycles; debounce: lastFreezeButton  *)
Carts == [exrom : BOOLEAN, game : BOOLEAN, nmi : BOOLEAN, active : BOOLEAN,
          ultimax : BOOLEAN, count : 0 .. Many, armed : BOOLEAN,
          debounce : BOOLEAN]

\* what a write of the register asks for
Values == [exrom : BOOLEAN, game : BOOLEAN, nmi : BOOLEAN, off : BOOLEAN]

UltimaxLines(s) == s.exrom /\ ~s.game
Writes(c) == c \in {"write", "push", "register", "memory"}
----------------------------------------------------------------------------
(* The FIQ handler *)

\* the cartridge answers to its register
Visible(s) ==
  CASE type = AR -> s.active \/ s.ultimax
    [] type = FC3 -> s.active \/ s.ultimax
    [] type = KCS -> TRUE
    [] type = SS5 -> s.active

(* A read that is served before the code of the freezer is reached.  The   *)
(* vector lies in the upper ROM, which an Action Replay and a Super        *)
(* Snapshot do not serve when they are switched off.                       *)
Served(s, c) ==
  \/ c = "rom" /\ (type = AR => Visible(s) \/ freezerKernal)
  \/ /\ c = "vector" /\ (UltimaxLines(s) \/ freezerKernal)
     /\ type \in {AR, SS5} => Visible(s) \/ freezerKernal
  \/ c = "mode"

\* Mutant: an Action Replay, too, counts only the cycles it has not served
CountedLate(s, c) ==
  IF Served(s, c) THEN s
  ELSE [s EXCEPT !.count = IF ~Writes(c) THEN 0
                           ELSE IF @ < Many THEN @ + 1 ELSE @]

(* An Action Replay counts before it serves anything, the others only the *)
(* cycles they have not served.                                           *)
Counted(s, c) ==
  IF type # AR /\ Served(s, c) THEN s
  ELSE [s EXCEPT !.count = IF ~Writes(c) THEN 0
                           ELSE IF @ < Many THEN @ + 1 ELSE @]

\* Mutant: the flag of Ultimax mode is not taken back
RegisteredOnce(s, v) ==
  [s EXCEPT !.exrom = v.exrom, !.game = v.game, !.nmi = v.nmi,
            !.active = ~v.off, !.ultimax = @ \/ (v.exrom /\ ~v.game)]

(* ar_IO1_Write, the register $DFFF of the FC3, kcsConfig, ss5Config.  KCS *)
(* and Super Snapshot drive NMI high, an Action Replay only on demand.     *)
Registered(s, v) ==
  CASE type = AR ->
         [s EXCEPT !.exrom = v.exrom, !.game = v.game, !.nmi = @ \/ v.nmi,
                   !.active = @ /\ ~v.off,
                   !.ultimax = v.exrom /\ ~v.game /\ s.active /\ ~v.off]
    [] type = FC3 ->
         [s EXCEPT !.exrom = v.exrom, !.game = v.game, !.nmi = v.nmi,
                   !.active = ~v.off, !.ultimax = v.exrom /\ ~v.game]
    [] type = KCS ->
         [s EXCEPT !.exrom = v.exrom, !.game = v.game, !.nmi = TRUE,
                   !.ultimax = v.exrom /\ ~v.game]
    [] type = SS5 ->
         [s EXCEPT !.exrom = v.exrom, !.game = v.game, !.nmi = TRUE,
                   !.active = ~v.off,
                   !.ultimax = v.exrom /\ ~v.game /\ ~v.off]

\* KCS: EXROM is bit 1 of the address, GAME whether the access is a read
ValuesOf(c) ==
  IF type = KCS
  THEN [exrom : BOOLEAN, game : {c = "mode"}, nmi : {TRUE}, off : {FALSE}]
  ELSE Values

WithRegister(s, c) ==
  IF c \in {"register", "mode"} /\ Visible(s)
  THEN {Registered(s, v) : v \in ValuesOf(c)} ELSE {s}

\* the cycles after which the handler returns at once
Ends(s, c) ==
  \/ Served(s, c)
  \/ c = "register" /\ type \in {AR, FC3} /\ Visible(s)
  \/ c = "memory" /\ type # FC3 /\ Visible(s)

(* All but the Action Replay start to count with the button; KCS and Super *)
(* Snapshot are in Ultimax mode from here on.                              *)
Pressed(s) ==
  CASE type = AR ->
         [s EXCEPT !.armed = TRUE, !.debounce = TRUE, !.nmi = FALSE]
    [] type = FC3 ->
         [s EXCEPT !.armed = TRUE, !.debounce = TRUE, !.nmi = FALSE, !.count = 0]
    [] OTHER ->
         [s EXCEPT !.armed = TRUE, !.debounce = TRUE, !.nmi = FALSE, !.count = 0,
                   !.exrom = TRUE, !.game = FALSE, !.ultimax = TRUE,
                   !.active = TRUE]

\* Mutant: two writes are enough
ReadyEarly(s) == s.armed /\ s.count = 2

Ready(s) == s.armed /\ s.count = 3

Frozen(s) ==
  CASE type = AR ->
         [s EXCEPT !.exrom = TRUE, !.game = FALSE, !.nmi = TRUE,
                   !.active = TRUE, !.ultimax = TRUE, !.armed = FALSE]
    [] OTHER ->
         [s EXCEPT !.exrom = TRUE, !.game = FALSE, !.ultimax = TRUE,
                   !.armed = FALSE]

Access == IF resetLow THEN "read" ELSE Head(cpu.todo)

(* The first or second push of an interrupt: the processor turns it into   *)
(* the NMI, but the count has not all of its pushes.                       *)
PushesForgotten ==
  /\ Access = "push" /\ Len(cpu.todo) > 2
  /\ cart'.count # 5 - Len(cpu.todo)

\* UPDATE_COUNTERS
UpdateCounters ==
  IF resetLow
  THEN /\ released' = FALSE /\ pressed' = TRUE
       /\ counter' \in {IF counter = 0 THEN Short ELSE counter,
                        IF counter < Held THEN counter + 1 ELSE Held}
  ELSE /\ released' = (released \/ pressed) /\ pressed' = FALSE
       /\ UNCHANGED counter

(* What the processor does in the cycle.  Before the third push the edge   *)
(* of NMI turns any interrupt into an NMI.                                 *)
Advance ==
  LET edge == cart.nmi /\ ~cart'.nmi
      last == Access = "push" /\ cpu.todo[2] = "vector"
      taken == last /\ latched # "no"
  IN IF resetLow THEN UNCHANGED cpuVars
     ELSE /\ cpu' = [todo |-> Tail(cpu.todo),
                     kind |-> IF taken THEN latched ELSE cpu.kind]
          /\ fresh' = edge
          /\ latched' = IF ~edge THEN IF taken THEN "no" ELSE latched
                        ELSE IF cart'.debounce /\ ~cart.debounce THEN "button"
                        ELSE "line"

FIQStep ==
  /\ UpdateCounters
  /\ raced' = (raced \/ (main # "loop" /\ [cart' EXCEPT !.count = cart.count] # cart))
  /\ UNCHANGED <<type, freezerKernal, main, userVars>>

\* there is a cycle, and the interrupt is enabled
Cycle == main # "menu" /\ (resetLow \/ cpu.todo # <<>>)

\* the cartridge's memory or register, or the KERNAL
ServeCycle ==
  LET s == Counted(cart, Access) IN
  /\ Cycle
  /\ Ends(s, Access)
  /\ cart' \in WithRegister(s, Access)
  /\ FIQStep
  /\ Advance
  /\ UNCHANGED excused

\* the user holds the freeze button, for any number of cycles
PressCycle ==
  LET s == Counted(cart, Access) IN
  /\ Cycle
  /\ ~Ends(s, Access) /\ ~s.debounce
  /\ \E t \in WithRegister(s, Access) : cart' = Pressed(t)
  /\ FIQStep
  /\ Advance
  /\ excused' = (resetLow \/ main # "loop" \/ ~cart.nmi \/ PushesForgotten
                \/ (excused /\ cpu.kind = "button"))

(* The 500000 cycles of lastFreezeButton are longer than two instructions, *)
(* and so are not over before the processor has entered the NMI.           *)
Debounced(s) ==
  IF s.debounce /\ "button" \notin {latched, cpu.kind}
  THEN {s, [s EXCEPT !.debounce = FALSE]} ELSE {s}

FreezeCycle ==
  LET s == Counted(cart, Access) IN
  /\ Cycle
  /\ ~Ends(s, Access)
  /\ \E t \in WithRegister(s, Access) :
       \E d \in Debounced(t) : Ready(d) /\ cart' = Frozen(d)
  /\ FIQStep
  /\ Advance
  /\ UNCHANGED excused

QuietCycle ==
  LET s == Counted(cart, Access) IN
  /\ Cycle
  /\ ~Ends(s, Access)
  /\ \E t \in WithRegister(s, Access) :
       \E d \in Debounced(t) : ~Ready(d) /\ cart' = d
  /\ FIQStep
  /\ Advance
  /\ UNCHANGED excused
----------------------------------------------------------------------------
(* The main loop *)

\* the fields of ar, fc3, kcs, ss5 that say what is mapped
WithMode(s) == [s EXCEPT !.active = TRUE, !.ultimax = (type = SS5)]

WithLines(s) ==
  CASE type = AR -> [s EXCEPT !.exrom = FALSE, !.game = TRUE, !.ultimax = FALSE]
    [] type = FC3 -> [s EXCEPT !.exrom = FALSE, !.game = FALSE, !.nmi = FALSE]
    [] type = KCS -> [s EXCEPT !.exrom = FALSE, !.game = FALSE, !.nmi = TRUE]
    [] type = SS5 -> [s EXCEPT !.exrom = TRUE, !.game = FALSE, !.nmi = TRUE]

(* initAR, initFC3, initKCS, initSS5: what is mapped, the counts from the  *)
(* last to the first, and where the lines are set.                         *)
Statements ==
  IF type = AR THEN <<"loop", "mode", "lines", "debounce", "arm", "loop">>
               ELSE <<"loop", "mode", "debounce", "arm", "lines", "loop">>

NextStatement ==
  Statements[1 + CHOOSE i \in 1 .. Len(Statements) - 1 : Statements[i] = main]

WithStatement(s) ==
  CASE main = "mode" -> WithMode(s)
    [] main = "lines" -> WithLines(s)
    [] main = "debounce" -> [s EXCEPT !.count = 0, !.debounce = FALSE]
    [] main = "arm" -> [s EXCEPT !.armed = FALSE]

BeginReset ==
  /\ main = "loop" /\ counter >= Long /\ released
  /\ main' = NextStatement
  /\ excused' = TRUE /\ raced' = FALSE
  /\ UNCHANGED <<type, freezerKernal, cart, resetVars, userVars, cpuVars>>

\* an edge of NMI the main loop makes is seen in the next cycle
callbackReset ==
  /\ main \notin {"loop", "menu"}
  /\ cart' = WithStatement(cart)
  /\ IF main = "arm"
     THEN counter' = 0 /\ pressed' = FALSE /\ released' = FALSE
     ELSE UNCHANGED resetVars
  /\ main' = NextStatement
  /\ IF cart.nmi /\ ~cart'.nmi /\ ~resetLow
     THEN latched' = "line" /\ fresh' = TRUE
     ELSE UNCHANGED <<latched, fresh>>
  /\ excused' = TRUE
  /\ UNCHANGED <<type, freezerKernal, userVars, cpu, raced>>

\* TEST_FOR_JUMP_TO_MAINMENU
Leave ==
  /\ main = "loop" /\ counter = Held
  /\ main' = "menu" /\ excused' = TRUE
  /\ UNCHANGED <<type, freezerKernal, cart, resetVars, userVars, cpuVars, raced>>
----------------------------------------------------------------------------
(* The C64 and its user *)

Program(x) ==
  {<<x, "read">>, <<x, "rom">>, <<x, "write">>, <<x, "register">>,
   <<x, "memory">>, <<x, "read", "write", "write">>}
  \cup IF type = KCS THEN {<<x, "mode">>} ELSE {}

\* a program runs in the C64's memory, or in what the cartridge maps
Places == {"read"} \cup IF cart.exrom /\ cart.game /\ ~freezerKernal THEN {} ELSE {"rom"}

Entry(x) == <<x, "push", "push", "push", "vector">>

(* The next instruction, or an interrupt; an edge that came with the last  *)
(* cycle waits, and so does one at the first instruction of an interrupt.  *)
Decode ==
  /\ main # "menu" /\ ~resetLow /\ cpu.todo = <<>>
  /\ \E x \in Places :
       IF latched # "no" /\ ~fresh /\ cpu.kind = "program"
       THEN cpu' = [todo |-> Entry(x), kind |-> latched] /\ latched' = "no"
       ELSE /\ \/ \E p \in Program(x) : cpu' = [todo |-> p, kind |-> "program"]
               \/ cpu.kind = "program" /\ cpu' = [todo |-> Entry(x), kind |-> "irq"]
            /\ UNCHANGED latched
  /\ UNCHANGED <<type, freezerKernal, cart, main, resetVars, userVars, fresh, historyVars>>

PressResetButton ==
  /\ main # "menu" /\ ~resetLow /\ userResets < MaxUserResets
  /\ resetLow' = TRUE /\ userResets' = userResets + 1
  /\ cpu' = [todo |-> <<>>, kind |-> "program"]
  /\ latched' = "no" /\ fresh' = FALSE
  /\ excused' = TRUE
  /\ UNCHANGED <<type, freezerKernal, cart, main, resetVars, raced>>

ReleaseResetButton ==
  /\ main # "menu" /\ resetLow /\ resetLow' = FALSE
  /\ UNCHANGED <<type, freezerKernal, cart, main, resetVars, userResets, cpuVars,
                 historyVars>>

\* the main loop has handled the reset with which it starts the C64
FreezerInit ==
  /\ type \in {AR, FC3, KCS, SS5} /\ freezerKernal \in BOOLEAN
  /\ cart = [exrom |-> type = SS5, game |-> type = AR, nmi |-> type # FC3,
             active |-> TRUE, ultimax |-> type = SS5, count |-> 0,
             armed |-> FALSE, debounce |-> FALSE]
  /\ main = "loop" /\ counter = 0 /\ pressed = FALSE /\ released = FALSE
  /\ resetLow = FALSE /\ userResets = 0
  /\ cpu = [todo |-> <<>>, kind |-> "program"] /\ latched = "no" /\ fresh = FALSE
  /\ excused = TRUE /\ raced = FALSE

FIQHandler == ServeCycle \/ PressCycle \/ FreezeCycle \/ QuietCycle
Run == BeginReset \/ callbackReset \/ Leave
FreezerNext == FIQHandler \/ Run \/ Decode \/ PressResetButton \/ ReleaseResetButton

\* every cycle of the C64 raises an interrupt, and its processor goes on
FreezerFairness == WF_freezerVars(FIQHandler) /\ WF_freezerVars(Decode)
FreezerSpec == FreezerInit /\ [][FreezerNext]_freezerVars /\ FreezerFairness
----------------------------------------------------------------------------
(* The accesses left of an instruction, by the writes among them, or of    *)
(* the entry of an interrupt.                                              *)
Fetches == {"read", "rom"}
Writing == {"write", "register", "memory"}
Reading == {"read", "rom", "mode"}
TwoWrites == {<<x, "read", "write", "write">> : x \in Fetches}
               \cup {<<"read", "write", "write">>, <<"write", "write">>}
OneWrite == {<<x, c>> : x \in Fetches, c \in Writing} \cup {<<c>> : c \in Writing}
NoWrite == {<<x, c>> : x \in Fetches, c \in Reading} \cup {<<c>> : c \in Reading} \cup {<<>>}

Entries == {Entry(x) : x \in Fetches}
ThreePushes == <<"push", "push", "push", "vector">>
TwoPushes == <<"push", "push", "vector">>
OnePush == <<"push", "vector">>
Vector == <<"vector">>

AtProgram == cpu.kind = "program" /\ cpu.todo \in TwoWrites \cup OneWrite \cup NoWrite
AtEntry ==
  /\ cpu.kind \in {"irq", "button", "line"}
  /\ cpu.todo \in Entries \cup {ThreePushes, TwoPushes, OnePush, Vector, <<>>}
Processor == AtProgram \/ AtEntry

FieldsOK ==
  /\ type \in {AR, FC3, KCS, SS5} /\ freezerKernal \in BOOLEAN /\ cart \in Carts
  /\ main \in {"loop", "mode", "lines", "debounce", "arm", "menu"}
  /\ counter \in 0 .. Held /\ pressed \in BOOLEAN /\ released \in BOOLEAN
  /\ resetLow \in BOOLEAN /\ userResets \in 0 .. MaxUserResets
  /\ cpu.kind \in {"program", "irq", "button", "line"}
  /\ latched \in {"no", "button", "line"} /\ fresh \in BOOLEAN
  /\ excused \in BOOLEAN /\ raced \in BOOLEAN

(* Every field has its values, the processor is at an access of one of its *)
(* instructions or entries, and an Action Replay, which counts in every    *)
(* cycle, never counts more than the three writes it waits for.  The other *)
(* counts have no limit but that of the model.                             *)
FreezerTypeOK == FieldsOK /\ Processor /\ (type = AR => cart.count <= 3)

(* The flag by which the handler knows Ultimax mode, where it must not     *)
(* answer with the replaced KERNAL, agrees with the lines GAME and EXROM   *)
(* as long as the cartridge is on, whatever sequence of register writes,   *)
(* presses, freezes and resets led there; only a handler that changes the  *)
(* mode while the main loop initialises it can leave them apart.           *)
FlagMatchesLines ==
  main = "loop" /\ ~raced /\ Visible(cart) => (cart.ultimax <=> UltimaxLines(cart))

(* When the processor reads the vector of the NMI the button caused, it    *)
(* reads it from the freezer's ROM.  Excused are a press with NMI already  *)
(* low, one during a reset or its handling, and one at the first two       *)
(* pushes of another interrupt if the button starts the count anew: that   *)
(* entry takes the NMI, but has not three writes any more.  Excepted is a  *)
(* Super Snapshot that a write of its register has switched off between    *)
(* the press, which switches it on, and the entry: the freeze does not     *)
(* switch it on again, and nothing answers the vector.                     *)
ServedByFreezer ==
  /\ cpu.todo = <<"vector">> /\ cpu.kind = "button" /\ ~excused
  /\ type = SS5 => cart.active
  => Served(cart, "vector") /\ UltimaxLines(cart) /\ cart.ultimax

(* Both: the flag tells the handler which memory the processor sees, and   *)
(* at the vector of the button's NMI it is the freezer's.                  *)
MemoryServed == FlagMatchesLines /\ ServedByFreezer

\* the freeze, or another change of the memory map that no write asks for: KCS and
\* Super Snapshot make one at the press
Exchanged ==
  \/ cart.armed /\ ~cart'.armed
  \/ /\ type \in {AR, FC3} /\ Access \notin {"register", "mode"}
     /\ <<cart'.exrom, cart'.game>> # <<cart.exrom, cart.game>>

(* The freeze is completed while the processor pushes its state for the    *)
(* NMI of the button, and at no other access.  Action Replay and Final     *)
(* Cartridge exchange the memory then, and not under a running program;    *)
(* KCS and Super Snapshot have done so at the press, whatever runs.        *)
FreezesAtEntry ==
  [][ main = "loop" /\ cart' # cart /\ Exchanged =>
        excused \/ (Access = "push" /\ "button" \in {cpu.kind, cpu'.kind, latched}) ]_freezerVars

(* A press the processor has noticed leads to a freeze, unless the C64 is  *)
(* reset.                                                                  *)
PressFreezes ==
  cart.armed /\ latched = "button" /\ ~excused ~> ~cart.armed \/ excused

(* Both: a press leads to a freeze, at the entry of its NMI and nowhere    *)
(* else.                                                                   *)
FreezesOnPress == FreezesAtEntry /\ PressFreezes
=============================================================================
