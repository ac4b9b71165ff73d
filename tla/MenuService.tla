----------------------------- MODULE MenuService -----------------------------
(***************************************************************************)
(* What the menu kernel promises to the user of the C64, whatever passes   *)
(* on the bus (kernel_menu.cpp, C64Side/rpimenu.c): each key typed at a    *)
(* page is handled once before a page is shown again, the page shown is    *)
(* the one that was drawn last, whole, and no page is drawn while one is   *)
(* shown.  A reset takes back a key that has not been sent yet.            *)
(***************************************************************************)
CONSTANTS Keys, NoKey, Pages

VARIABLES
  page,    \* drawn last
  shown,   \* the page the waiting client shows, or none while it is busy
  key      \* typed and not handled yet
serviceVars == <<page, shown, key>>

Init == page \in Pages /\ shown = {} /\ key = NoKey

Type ==
  /\ shown # {} /\ shown' = {}
  /\ key' \in Keys
  /\ UNCHANGED page

\* a key is handled, or a report of the client that starts
Answer ==
  /\ shown = {}
  /\ page' \in Pages /\ key' = NoKey
  /\ UNCHANGED shown

Show ==
  /\ shown = {} /\ key = NoKey
  /\ shown' = {page}
  /\ UNCHANGED <<page, key>>

Restart ==
  /\ shown' = {} /\ key' = NoKey
  /\ UNCHANGED page

Next == Type \/ Answer \/ Show \/ Restart

Spec == Init /\ [][Next]_serviceVars
=============================================================================
