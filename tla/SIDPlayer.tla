------------------------------- MODULE SIDPlayer -------------------------------
(***************************************************************************)
(* What the emulation of the SIDs promises (kernel_sid.cpp): the registers *)
(* written by the C64 change at the cycle of the write, in the order of    *)
(* the writes, each once, although the emulation runs behind the C64.  It  *)
(* is no promise that none is lost: the buffer has no check for being full *)
(* and then looks empty, so that all that is in it is gone.  Nothing is    *)
(* promised while the kernel starts or restarts.                           *)
(*                                                                         *)
(* A write is the cycle in which it is made: the C64 makes at most one.    *)
(***************************************************************************)
EXTENDS Integers, Sequences

CONSTANT Capacity                      \* RING_SIZE

VARIABLES
  playing,   \* the kernel has started
  clock,     \* cycles of the C64
  emulated,  \* cycles the emulation has come to
  pending    \* writes that wait for it
playerVars == <<playing, clock, emulated, pending>>

Init ==
  /\ playing = FALSE
  /\ clock = 0 /\ emulated = 0 /\ pending = <<>>

Start ==
  /\ ~playing /\ playing' = TRUE
  /\ clock' \in Nat
  /\ emulated' = 0 /\ pending' = <<>>

Stop ==
  /\ playing /\ playing' = FALSE
  /\ clock' = 0 /\ emulated' = 0 /\ pending' = <<>>

Tick ==
  /\ playing
  /\ clock' = clock + 1
  /\ UNCHANGED <<playing, emulated, pending>>

Write ==
  /\ playing
  /\ clock' = clock + 1
  /\ pending' = IF Len(pending) + 1 = Capacity THEN <<>> ELSE Append(pending, clock')
  /\ UNCHANGED <<playing, emulated>>

\* emulation goes on, but not past a write
Emulate ==
  /\ playing
  /\ emulated' \in emulated + 1 .. clock
  /\ pending # <<>> => emulated' <= Head(pending)
  /\ UNCHANGED <<playing, clock, pending>>

Apply ==
  /\ playing /\ pending # <<>>
  /\ emulated = Head(pending)
  /\ pending' = Tail(pending)
  /\ UNCHANGED <<playing, clock, emulated>>

Next == Start \/ Stop \/ Tick \/ Write \/ Emulate \/ Apply

Spec == Init /\ [][Next]_playerVars
----------------------------------------------------------------------------
TypeOK ==
  /\ playing \in BOOLEAN
  /\ clock \in Nat /\ emulated \in Nat
  /\ pending \in Seq(Nat)

Ascending ==
  \A i \in 1 .. Len(pending) :
    /\ pending[i] <= clock
    /\ \A j \in 1 .. i - 1 : pending[j] < pending[i]

\* No write is overdue: the emulation never passes the cycle of a write that it
\* has not applied, and never the clock of the C64.
NoneOverdue ==
  /\ emulated <= clock
  /\ \A i \in 1 .. Len(pending) : emulated <= pending[i]
=============================================================================
