---------------------------- MODULE SwiftLinkProofs ----------------------------
(***************************************************************************)
(* The byte streams of SwiftLink, for every script of the terminal, any    *)
(* number of bytes from the remote end, of resets and uploads, and any     *)
(* length of the delays.                                                   *)
(*                                                                         *)
(* The argument: what is still owed to the terminal is what is offered,    *)
(* followed by what is unread in the input buffer; each action moves bytes *)
(* from the head of one to the end of the other, or adds at the end.  The  *)
(* other way the buffer and its read position are emptied in two steps of  *)
(* the main loop, between which the FIQ handler may add: a byte added      *)
(* before the first step is wiped, one added before the second is kept.    *)
(***************************************************************************)
EXTENDS SwiftLink, SequenceTheorems, TLAPS

Chars == [byte : Nat, kind : Kinds]

\* the input buffer, and what is owed from it
InOK ==
  /\ swiftLinkResponse \in Seq(Nat) /\ Len(swiftLinkResponse) <= 1
  /\ inBuf \in Seq(Nat) /\ inPos \in 0 .. Len(inBuf)
  /\ InputInOrder

\* the output buffer, and what is owed from it
OutOK ==
  /\ outBuf \in Seq(Chars) /\ outPos \in Nat
  /\ pc # "emptyPos" => outPos <= Len(outBuf)
  /\ OnlyRacedBytesLost

\* what is typed and received
ScriptOK ==
  /\ script \in Seq(Kinds) /\ typed \in 0 .. Len(script)
  /\ remote \in 0 .. MaxRemote

IInv == ControlOK /\ InOK /\ OutOK /\ ScriptOK
----------------------------------------------------------------------------
(* Sequences *)

\* What is behind a position when something is appended.
LEMMA RestOfConcat ==
  ASSUME NEW S, NEW s \in Seq(S), NEW t \in Seq(S), NEW k \in 0 .. Len(s)
  PROVE  SubSeq(s \o t, k + 1, Len(s \o t)) = SubSeq(s, k + 1, Len(s)) \o t
  <1> DEFINE u == s \o t
             l == SubSeq(u, k + 1, Len(u))
             r == SubSeq(s, k + 1, Len(s)) \o t
  <1>1. u \in Seq(S) /\ Len(u) = Len(s) + Len(t)
    OBVIOUS
  <1>2. Len(s) \in Nat /\ Len(t) \in Nat
    OBVIOUS
  <1>3. \A i \in 1 .. Len(u) : u[i] = IF i <= Len(s) THEN s[i] ELSE t[i - Len(s)]
    OBVIOUS
  <1>4. /\ SubSeq(s, k + 1, Len(s)) \in Seq(S)
        /\ Len(SubSeq(s, k + 1, Len(s))) = Len(s) - k
        /\ \A i \in 1 .. Len(s) - k : SubSeq(s, k + 1, Len(s))[i] = s[k + i]
    BY <1>2, SubSeqProperties
  <1> HIDE DEF u
  <1>5. l \in Seq(S) /\ Len(l) = Len(u) - k /\ \A i \in 1 .. Len(u) - k : l[i] = u[k + i]
    BY <1>1, <1>2, SubSeqProperties
  <1>6. r \in Seq(S) /\ Len(r) = Len(u) - k
    BY <1>1, <1>2, <1>4
  <1>7. ASSUME NEW i \in 1 .. Len(u) - k PROVE l[i] = r[i]
    <2>1. l[i] = u[k + i] /\ k + i \in 1 .. Len(u)
      BY <1>1, <1>2, <1>5
    <2>2. r[i] = IF i <= Len(s) - k THEN s[k + i] ELSE t[i - (Len(s) - k)]
      BY <1>1, <1>2, <1>4
    <2>3. i - (Len(s) - k) = k + i - Len(s)
      BY <1>2, <1>1
    <2> QED
      BY <1>1, <1>2, <1>3, <2>1, <2>2, <2>3
  <1>8. l = r
    <2> HIDE DEF l, r
    <2> QED
      BY <1>1, <1>2, <1>5, <1>6, <1>7, SeqEqual
  <1> QED
    BY <1>8 DEF u

\* What is behind a position is its first element, followed by the rest.
LEMMA RestHasHead ==
  ASSUME NEW S, NEW s \in Seq(S), NEW k \in 0 .. Len(s), k < Len(s)
  PROVE  /\ SubSeq(s, k + 1, Len(s)) = <<s[k + 1]>> \o SubSeq(s, k + 2, Len(s))
         /\ Tail(SubSeq(s, k + 1, Len(s))) = SubSeq(s, k + 2, Len(s))
         /\ s[k + 1] \in S
  OBVIOUS
\* A sequence of at most one, if it is not empty.
LEMMA ShortIsSingle ==
  ASSUME NEW S, NEW s \in Seq(S), Len(s) <= 1, s # <<>>
  PROVE  \E x \in S : s = <<x>>
  <1>1. Len(s) \in Nat \ {0}
    BY EmptySeq
  <1>2. Len(s) = 1
    BY <1>1
  <1>3. s[1] \in S
    BY <1>2
  <1>4. s = <<s[1]>>
    BY <1>2, <1>3
  <1> QED
    BY <1>3, <1>4
----------------------------------------------------------------------------
(* The input buffer *)

\* What is not touched stays in order.
LEMMA KeepsIn ==
  ASSUME InOK, UNCHANGED <<inVars, swiftLinkResponse>>
  PROVE  InOK'
  BY DEF InOK, InputInOrder, Unread, inVars

\* What waits in the input buffer is a stream of bytes.
LEMMA UnreadType ==
  ASSUME InOK
  PROVE  Unread \in Seq(Nat)
  BY DEF InOK, Unread

\* writeCharsToFrontend adds to what is owed, and drops only what was read.
LEMMA ToFrontendKeeps ==
  ASSUME InOK, NEW bytes \in Seq(Nat), ToFrontend(bytes),
         swiftLinkResponse' = swiftLinkResponse
  PROVE  InOK'
  <1> DEFINE allRead == inBuf # <<>> /\ inPos = Len(inBuf)
  <1>1. /\ inBuf' = IF allRead THEN bytes ELSE inBuf \o bytes
        /\ inPos' = IF allRead THEN 0 ELSE inPos
        /\ owedIn' = owedIn \o bytes
    BY DEF ToFrontend
  <1>2. /\ swiftLinkResponse \in Seq(Nat) /\ Len(swiftLinkResponse) <= 1
        /\ inBuf \in Seq(Nat) /\ inPos \in 0 .. Len(inBuf)
        /\ owedIn = swiftLinkResponse \o Unread
    BY DEF InOK, InputInOrder
  <1>3. Unread \in Seq(Nat)
    BY UnreadType
  <1>4. inBuf' \in Seq(Nat) /\ inPos' \in 0 .. Len(inBuf')
    BY <1>1, <1>2
  <1>5. Unread' = Unread \o bytes
    <2>1. CASE allRead
      <3>1. Unread = <<>>
        BY <1>2, <2>1 DEF Unread
      <3>2. Unread' = bytes
        <4>1. inBuf' = bytes /\ inPos' = 0
          BY <1>1, <2>1
        <4>2. SubSeq(bytes, 0 + 1, Len(bytes)) = bytes
          OBVIOUS
        <4> QED
          BY <4>1, <4>2 DEF Unread
      <3> QED
        BY <3>1, <3>2
    <2>2. CASE ~allRead
      <3>1. inBuf' = inBuf \o bytes /\ inPos' = inPos
        BY <1>1, <2>2
      <3> QED
        BY <3>1, <1>2, RestOfConcat DEF Unread
    <2> QED
      BY <2>1, <2>2
  <1>6. owedIn' = swiftLinkResponse' \o Unread'
    <2>1. (swiftLinkResponse \o Unread) \o bytes = swiftLinkResponse \o (Unread \o bytes)
      BY <1>2, <1>3
    <2> QED
      BY <1>1, <1>2, <1>5, <2>1
  <1> QED
    BY <1>2, <1>4, <1>6 DEF InOK, InputInOrder

\* A byte in command mode, whatever it is, keeps the stream to the terminal.
LEMMA InterpretKeeps ==
  ASSUME InOK, ControlOK, NEW b \in Chars, NEW silent \in BOOLEAN, Interpret(b, silent),
         swiftLinkResponse' = swiftLinkResponse
  PROVE  /\ InOK'
         /\ commandLength' \in Nat
         /\ {dialled', connected', firstReceive'} \subseteq BOOLEAN
  <1>1. b.byte \in Nat
    BY DEF Chars
  <1>2. <<b.byte>> \in Seq(Nat) /\ <<b.byte, Text>> \in Seq(Nat)
    BY <1>1 DEF Text
  <1>3. InOK'
    <2>1. CASE UNCHANGED inVars
      BY <2>1, KeepsIn
    <2>2. CASE ToFrontend(<<b.byte>>)
      BY <2>2, <1>2, ToFrontendKeeps
    <2>3. CASE ToFrontend(<<b.byte, Text>>)
      BY <2>3, <1>2, ToFrontendKeeps
    <2>4. CASE \E reply \in {<<>>, <<Text>>} : ToFrontend(<<b.byte>> \o reply)
      <3>1. PICK reply \in {<<>>, <<Text>>} : ToFrontend(<<b.byte>> \o reply)
        BY <2>4
      <3>2. reply \in Seq(Nat)
        <4>1. <<>> \in Seq(Nat) /\ <<Text>> \in Seq(Nat)
          BY DEF Text
        <4> QED
          BY <4>1, <3>1
      <3>3. <<b.byte>> \o reply \in Seq(Nat)
        BY <3>2, <1>2
      <3> QED
        BY <3>1, <3>3, ToFrontendKeeps
    <2> QED
      BY <2>1, <2>2, <2>3, <2>4 DEF Interpret
  <1>4. /\ commandLength' \in Nat
        /\ dialled' \in BOOLEAN /\ connected' \in BOOLEAN /\ firstReceive' \in BOOLEAN
    <2>1. commandLength \in Nat /\ {dialled, connected, firstReceive} \subseteq BOOLEAN
      BY DEF ControlOK
    <2>2. commandLength' = 0 \/ commandLength' = commandLength \/ commandLength' = commandLength + 1
          \/ commandLength' = Dec(commandLength)
      BY DEF Interpret, modemVars
    <2>3. dialled' = dialled \/ dialled' = TRUE
      BY DEF Interpret, modemVars
    <2>4. \/ UNCHANGED <<connected, firstReceive>>
          \/ connected' = TRUE /\ firstReceive' = TRUE
      BY DEF Interpret, Connect, modemVars
    <2>5. commandLength' \in Nat
      BY <2>1, <2>2 DEF Dec
    <2> QED
      BY <2>1, <2>3, <2>4, <2>5
  <1> QED
    BY <1>3, <1>4
----------------------------------------------------------------------------
(* The output buffer *)

\* the bytes of s behind position k
Bytes(s, k) == [i \in 1 .. Len(s) - k |-> s[k + i].byte]

\* Bytes of a buffer are a sequence of numbers.
LEMMA BytesType ==
  ASSUME NEW s \in Seq(Chars), NEW k \in 0 .. Len(s)
  PROVE  /\ Bytes(s, k) \in Seq(Nat)
         /\ Len(Bytes(s, k)) = Len(s) - k
         /\ \A i \in 1 .. Len(s) - k : Bytes(s, k)[i] = s[k + i].byte
  <1>1. Len(s) - k \in Nat
    OBVIOUS
  <1>2. ASSUME NEW i \in 1 .. Len(s) - k PROVE s[k + i].byte \in Nat
    <2>1. k + i \in 1 .. Len(s)
      OBVIOUS
    <2>2. s[k + i] \in Chars
      BY <2>1
    <2> QED
      BY <2>2 DEF Chars
  <1>3. Bytes(s, k) \in [1 .. Len(s) - k -> Nat]
    BY <1>2 DEF Bytes
  <1>4. Bytes(s, k) \in Seq(Nat) /\ Len(Bytes(s, k)) = Len(s) - k
    BY <1>1, <1>3
  <1> QED
    BY <1>4 DEF Bytes

\* An appended byte is behind the others.
LEMMA BytesAppend ==
  ASSUME NEW s \in Seq(Chars), NEW k \in 0 .. Len(s), NEW c \in Chars
  PROVE  Bytes(Append(s, c), k) = Append(Bytes(s, k), c.byte)
  <1> DEFINE t == Append(s, c)
             l == Bytes(t, k)
             r == Append(Bytes(s, k), c.byte)
  <1>1. /\ t \in Seq(Chars) /\ Len(t) = Len(s) + 1
        /\ \A i \in 1 .. Len(s) : t[i] = s[i]
        /\ t[Len(s) + 1] = c
    OBVIOUS
  <1>2. c.byte \in Nat
    BY DEF Chars
  <1>3. Bytes(s, k) \in Seq(Nat) /\ Len(Bytes(s, k)) = Len(s) - k
    BY BytesType
  <1>4. /\ l \in Seq(Nat) /\ Len(l) = Len(s) + 1 - k
        /\ \A i \in 1 .. Len(s) + 1 - k : l[i] = t[k + i].byte
    <2> HIDE DEF t
    <2>1. t \in Seq(Chars) /\ k \in 0 .. Len(t)
      BY <1>1
    <2>2. /\ Bytes(t, k) \in Seq(Nat) /\ Len(Bytes(t, k)) = Len(t) - k
          /\ \A i \in 1 .. Len(t) - k : Bytes(t, k)[i] = t[k + i].byte
      BY <2>1, BytesType
    <2>3. Len(t) = Len(s) + 1
      BY <1>1
    <2> QED
      BY <2>2, <2>3
  <1>5. r \in Seq(Nat) /\ Len(r) = Len(s) + 1 - k
    BY <1>2, <1>3
  <1>6. ASSUME NEW i \in 1 .. Len(s) + 1 - k PROVE l[i] = r[i]
    <2>1. CASE i = Len(s) + 1 - k
      <3>1. l[i] = t[Len(s) + 1].byte
        <4>1. k + i = Len(s) + 1
          BY <2>1
        <4>2. l[i] = t[k + i].byte
          BY <1>4
        <4> QED
          BY <4>1, <4>2
      <3>2. r[i] = c.byte
        BY <1>2, <1>3, <2>1
      <3> QED
        BY <1>1, <3>1, <3>2
    <2>2. CASE i < Len(s) + 1 - k
      <3>1. i \in 1 .. Len(s) - k /\ k + i \in 1 .. Len(s)
        BY <2>2
      <3>2. l[i] = s[k + i].byte
        <4>1. l[i] = t[k + i].byte
          BY <1>4
        <4>2. t[k + i] = s[k + i]
          BY <1>1, <3>1
        <4> QED
          BY <4>1, <4>2
      <3>3. r[i] = Bytes(s, k)[i]
        BY <1>2, <1>3, <3>1
      <3> QED
        BY <3>1, <3>2, <3>3, BytesType
    <2>3. i = Len(s) + 1 - k \/ i < Len(s) + 1 - k
      OBVIOUS
    <2> HIDE DEF l, r
    <2> QED
      BY <2>1, <2>2, <2>3
  <1>7. l = r
    <2> HIDE DEF l, r
    <2>1. Len(l) = Len(r)
      BY <1>4, <1>5
    <2> QED
      BY <1>4, <1>5, <1>6, <2>1, SeqEqual
  <1> QED
    BY <1>7

\* The first byte is taken by moving the position.
LEMMA BytesTail ==
  ASSUME NEW s \in Seq(Chars), NEW k \in 0 .. Len(s), k < Len(s)
  PROVE  Tail(Bytes(s, k)) = Bytes(s, k + 1)
  <1> DEFINE b == Bytes(s, k)
             l == Tail(b)
             r == Bytes(s, k + 1)
  <1>1. /\ b \in Seq(Nat) /\ Len(b) = Len(s) - k
        /\ \A i \in 1 .. Len(s) - k : b[i] = s[k + i].byte
    BY BytesType
  <1>2. k + 1 \in 0 .. Len(s)
    OBVIOUS
  <1>3. /\ r \in Seq(Nat) /\ Len(r) = Len(s) - (k + 1)
        /\ \A i \in 1 .. Len(s) - (k + 1) : r[i] = s[k + 1 + i].byte
    BY <1>2, BytesType
  <1>4. /\ l \in Seq(Nat) /\ Len(l) = Len(s) - (k + 1)
        /\ \A i \in 1 .. Len(s) - (k + 1) : l[i] = b[i + 1]
    <2> HIDE DEF b
    <2>1. b # <<>>
      BY <1>1
    <2> QED
      BY <1>1, <2>1
  <1>5. ASSUME NEW i \in 1 .. Len(s) - (k + 1) PROVE l[i] = r[i]
    <2>1. i + 1 \in 1 .. Len(s) - k /\ k + (i + 1) = k + 1 + i
      OBVIOUS
    <2>2. b[i + 1] = s[k + (i + 1)].byte
      BY <1>1, <2>1
    <2> QED
      BY <1>3, <1>4, <2>1, <2>2
  <1> HIDE DEF b, l, r
  <1>6. l = r
    BY <1>3, <1>4, <1>5, SeqEqual
  <1> QED
    BY <1>6 DEF b, l, r

\* Behind the end there is nothing.
LEMMA BytesNone ==
  ASSUME NEW s \in Seq(Chars)
  PROVE  Bytes(s, Len(s)) = <<>>
  <1>1. Bytes(s, Len(s)) \in Seq(Nat) /\ Len(Bytes(s, Len(s))) = Len(s) - Len(s)
    BY BytesType
  <1>2. Len(Bytes(s, Len(s))) = 0
    BY <1>1
  <1> QED
    BY <1>1, <1>2

\* What the modem will still read, in these words.
LEMMA OutPendingIs ==
  OutPending = Bytes(outBuf, IF pc = "emptyPos" THEN 0 ELSE outPos)
  BY DEF OutPending, Bytes

\* Between the steps that empty the buffer, nothing changes by itself.
LEMMA KeepsOut ==
  ASSUME OutOK, UNCHANGED outVars,
         pc' = pc \/ {pc, pc'} \cap {"emptyLength", "emptyPos"} = {}
  PROVE  OutOK'
  <1>1. UNCHANGED <<outBuf, outPos, owedOut>>
    BY DEF outVars
  <1>2. pc = "emptyPos" <=> pc' = "emptyPos"
    OBVIOUS
  <1>3. AboutToEmpty <=> AboutToEmpty'
    BY DEF AboutToEmpty
  <1>4. OutPending' = OutPending
    BY <1>1, <1>2 DEF OutPending
  <1> QED
    BY <1>1, <1>2, <1>3, <1>4 DEF OutOK, OnlyRacedBytesLost

\* A byte is taken from the head of what is owed.
LEMMA TakeOutKeeps ==
  ASSUME OutOK, OutUnread, TakeOut, {pc, pc'} \cap {"emptyLength", "emptyPos"} = {}
  PROVE  OutOK' /\ outBuf[outPos + 1] \in Chars
  <1>1. /\ outBuf \in Seq(Chars) /\ outPos \in Nat
        /\ outPos <= Len(outBuf) /\ outPos < Len(outBuf)
        /\ pc # "emptyPos" /\ pc' # "emptyPos" /\ ~AboutToEmpty /\ ~AboutToEmpty'
    BY DEF OutOK, OutUnread, AboutToEmpty
  <1>2. outPos' = outPos + 1 /\ outBuf' = outBuf /\ owedOut' = Tail(owedOut)
    BY DEF TakeOut
  <1>3. owedOut = Bytes(outBuf, outPos)
    BY <1>1, OutPendingIs DEF OutOK, OnlyRacedBytesLost
  <1>4. owedOut' = Bytes(outBuf, outPos + 1)
    BY <1>1, <1>2, <1>3, BytesTail
  <1>5. OutPending' = Bytes(outBuf, outPos + 1)
    BY <1>1, <1>2 DEF OutPending, Bytes
  <1>6. outPos + 1 <= Len(outBuf) /\ outBuf[outPos + 1] \in Chars
    BY <1>1
  <1> QED
    BY <1>1, <1>2, <1>4, <1>5, <1>6 DEF OutOK, OnlyRacedBytesLost

\* The emptied buffer owes nothing.
LEMMA EmptyOut ==
  ASSUME outBuf' = <<>>, outPos' = 0 \/ (outPos' \in Nat /\ pc' = "emptyPos"),
         owedOut' = <<>>
  PROVE  OutOK'
  <1>1. OutPending' = <<>>
    <2>1. OutPending' = [i \in 1 .. 0 |-> outBuf'[i].byte]
      <3> DEFINE from == IF pc' = "emptyPos" THEN 0 ELSE outPos'
      <3>1. from = 0 /\ Len(outBuf') = 0
        OBVIOUS
      <3>2. OutPending' = [i \in 1 .. Len(outBuf') - from |-> outBuf'[from + i].byte]
        BY DEF OutPending
      <3>3. 1 .. Len(outBuf') - from = {} /\ 1 .. 0 = {}
        BY <3>1
      <3> HIDE DEF from
      <3> QED
        BY <3>2, <3>3
    <2> QED
      BY <2>1
  <1>2. <<>> \in Seq(Chars)
    OBVIOUS
  <1> QED
    BY <1>1, <1>2 DEF OutOK, OnlyRacedBytesLost
----------------------------------------------------------------------------
(* The actions that touch neither buffer *)

\* The actions that leave both buffers and what is typed alone.
Quiet ==
  \/ Look \/ ReadStatus \/ WriteCommand \/ Boot \/ Reset \/ ResetCycle \/ ReleaseReset
  \/ Received \/ LoopHead \/ Serve \/ Reconnect \/ Release \/ SetModem

\* What such an action leaves alone.
Untouched ==
  /\ UNCHANGED <<inVars, outVars, swiftLinkResponse, script, typed, remote>>
  /\ pc' = pc \/ {pc, pc'} \cap {"emptyLength", "emptyPos"} = {}

\* An action that leaves the buffers alone keeps their invariants.
LEMMA UntouchedKeeps ==
  ASSUME InOK, OutOK, ScriptOK, Untouched
  PROVE  InOK' /\ OutOK' /\ ScriptOK'
  BY KeepsIn, KeepsOut DEF Untouched, ScriptOK

\* The quiet actions are such.
LEMMA QuietIsUntouched ==
  ASSUME Quiet
  PROVE  Untouched
  <1>1. CASE Look
    BY <1>1 DEF Look, Untouched, boundVars
  <1>2. CASE ReadStatus
    BY <1>2 DEF ReadStatus, Untouched, boundVars
  <1>3. CASE WriteCommand
    BY <1>3 DEF WriteCommand, Untouched, boundVars
  <1>4. CASE Boot
    BY <1>4 DEF Boot, Untouched, boundVars
  <1>5. CASE Reset
    BY <1>5 DEF Reset, Untouched, boundVars
  <1>6. CASE ResetCycle
    BY <1>6 DEF ResetCycle, Untouched, boundVars
  <1>7. CASE ReleaseReset
    BY <1>7 DEF ReleaseReset, Untouched, boundVars
  <1>8. CASE Received
    BY <1>8 DEF Received, Untouched, boundVars
  <1>9. CASE LoopHead
    BY <1>9 DEF LoopHead, ToMenu, Untouched, boundVars
  <1>10. CASE Serve
    BY <1>10 DEF Serve, ToMenu, Untouched, boundVars
  <1>11. CASE Reconnect
    BY <1>11 DEF Reconnect, Untouched, boundVars
  <1>12. CASE Release
    BY <1>12 DEF Release, Untouched, boundVars
  <1>13. CASE SetModem
    BY <1>13 DEF SetModem, Untouched, boundVars
  <1> QED
    BY <1>1, <1>2, <1>3, <1>4, <1>5, <1>6, <1>7, <1>8, <1>9, <1>10, <1>11, <1>12, <1>13 DEF Quiet

\* Whether the C64 is halted is decided by truth values and the delay.
DMATypes ==
  /\ swiftLinkReleaseDMA \in BOOLEAN /\ dmaLow \in BOOLEAN
  /\ swiftLinknetDelayDMA \in 0 .. DMADelay

\* Halting and releasing the C64 keep those types.
LEMMA PullTypes ==
  ASSUME ControlOK, PullDMA \/ PullAfterRead \/ PullAfterWrite \/ UNCHANGED dmaVars
  PROVE  DMATypes'
  <1>1. DMATypes
    BY DEF ControlOK, DMATypes
  <1>2. UNCHANGED dmaVars \/ PullDMA
    BY DEF PullAfterRead, PullAfterWrite
  <1>3. CASE UNCHANGED dmaVars
    BY <1>1, <1>3 DEF dmaVars, DMATypes
  <1>4. CASE PullDMA
    <2>1. swiftLinknetDelayDMA' \in 0 .. DMADelay
      BY <1>4, DelaysAssumption DEF PullDMA
    <2>2. swiftLinkReleaseDMA' = TRUE /\ dmaLow' = TRUE
      BY <1>4 DEF PullDMA
    <2> QED
      BY <2>1, <2>2 DEF DMATypes
  <1> QED
    BY <1>2, <1>3, <1>4

\* Such an action keeps the types.
LEMMA QuietKeepsTypes ==
  ASSUME ControlOK, Quiet
  PROVE  ControlOK'
  <1> USE DelaysAssumption DEF ControlOK, loopVars, irqVars, dmaVars, modemVars, webVars, c64Vars
  <1>1. CASE Look
    BY <1>1 DEF Look
  <1>2. CASE ReadStatus
    <2>1. DMATypes'
      BY <1>2, PullTypes DEF ReadStatus
    <2>2. handler' \in {"idle", "status", "data"}
      BY <1>2 DEF ReadStatus
    <2> QED
      BY <1>2, <2>1, <2>2 DEF ReadStatus, DMATypes
  <1>3. CASE WriteCommand
    <2>1. DMATypes'
      BY <1>3, PullTypes DEF WriteCommand
    <2>2. cmdInt' \in BOOLEAN
      <3>1. cmdInt \in BOOLEAN
        OBVIOUS
      <3>2. cmdInt' = TRUE \/ cmdInt' = cmdInt
        BY <1>3 DEF WriteCommand
      <3> QED
        BY <3>1, <3>2
    <2> QED
      BY <1>3, <2>1, <2>2 DEF WriteCommand, DMATypes
  <1>4. CASE Boot
    BY <1>4 DEF Boot, LaunchServed
  <1>5. CASE Reset
    BY <1>5 DEF Reset
  <1>6. CASE ResetCycle
    BY <1>6 DEF ResetCycle
  <1>7. CASE ReleaseReset
    BY <1>7 DEF ReleaseReset
  <1>8. CASE Received
    BY <1>8 DEF Received
  <1>9. CASE LoopHead
    <2>1. keepNMILow' \in 0 .. NMILow
      BY <1>9 DEF LoopHead, Dec
    <2>2. swiftLinknetDelayDMA' \in 0 .. DMADelay
      BY <1>9 DEF LoopHead, Dec
    <2>3. netDelay' \in Nat
      BY <1>9 DEF LoopHead, Dec
    <2>4. nmiLow' \in BOOLEAN
      <3>1. nmiLow' = FALSE \/ nmiLow' = NMIKept
        BY <1>9 DEF LoopHead, ToMenu
      <3>2. NMIKept \in BOOLEAN
        BY DEF NMIKept
      <3> QED
        BY <3>1, <3>2
    <2>5. fiqOn' \in BOOLEAN /\ dmaLow' \in BOOLEAN
      <3>1. fiqOn \in BOOLEAN /\ dmaLow \in BOOLEAN
        OBVIOUS
      <3>2. (fiqOn' = FALSE \/ fiqOn' = fiqOn) /\ (dmaLow' = FALSE \/ dmaLow' = dmaLow)
        BY <1>9 DEF LoopHead, ToMenu
      <3> QED
        BY <3>1, <3>2
    <2>6. pc' \in {"menu", "serve", "silent", "input"}
      BY <1>9 DEF LoopHead, ToMenu
    <2> QED
      BY <1>9, <2>1, <2>2, <2>3, <2>4, <2>5, <2>6 DEF LoopHead
  <1>10. CASE Serve
    <2>1. swiftLinknetDelayDMA' \in 0 .. DMADelay
      BY <1>10 DEF Serve
    <2>2. swiftLinkEnabled' \in BOOLEAN
      BY <1>10 DEF Serve
    <2>3. /\ fiqOn' = FALSE \/ fiqOn' = fiqOn
          /\ dmaLow' = FALSE \/ dmaLow' = dmaLow
          /\ nmiLow' = FALSE \/ nmiLow' = nmiLow
      BY <1>10 DEF Serve, ToMenu
    <2>4. returnRequested' \in BOOLEAN
      <3>1. (disturbances < MaxDisturbances) \in BOOLEAN
        OBVIOUS
      <3>2. returnRequested' = FALSE \/ returnRequested' = (disturbances < MaxDisturbances)
        BY <1>10 DEF Serve
      <3> QED
        BY <3>1, <3>2
    <2>5. modemEmuType' \in {0, 1}
      BY <1>10 DEF Serve
    <2>6. pc' \in {"menu", "modem", "reconnect"}
      BY <1>10 DEF Serve, ToMenu
    <2>7. {fiqOn', dmaLow', nmiLow'} \subseteq BOOLEAN
      BY <2>3
    <2> QED
      BY <1>10, <2>1, <2>2, <2>4, <2>5, <2>6, <2>7 DEF Serve
  <1>11. CASE Reconnect
    BY <1>11 DEF Reconnect
  <1>12. CASE Release
    BY <1>12 DEF Release
  <1>13. CASE SetModem
    BY <1>13 DEF SetModem
  <1> QED
    BY <1>1, <1>2, <1>3, <1>4, <1>5, <1>6, <1>7, <1>8, <1>9, <1>10, <1>11, <1>12, <1>13 DEF Quiet
----------------------------------------------------------------------------
(* The actions of the terminal that move bytes *)

\* The byte read from $DE00 is the next one owed.
LEMMA ReadDataKeeps ==
  ASSUME IInv, ReadData
  PROVE  IInv'
  <1>1. OutOK' /\ ScriptOK'
    BY KeepsOut DEF ReadData, IInv, boundVars, ScriptOK
  <1>2. ControlOK'
    <2>1. DMATypes'
      BY PullTypes DEF ReadData, IInv
    <2> QED
      BY <2>1 DEF IInv, ControlOK, ReadData, DMATypes, loopVars, irqVars, modemVars, webVars
  <1>3. InOK'
    <2>1. CASE UNCHANGED <<swiftLinkResponse, owedIn>>
      <3>1. UNCHANGED <<inVars, swiftLinkResponse>>
        BY <2>1 DEF ReadData, inVars
      <3> QED
        BY <3>1, KeepsIn DEF IInv
    <2>2. CASE swiftLinkResponse' = <<>> /\ owedIn' = Tail(owedIn) /\ swiftLinkResponse # <<>>
      <3>1. /\ swiftLinkResponse \in Seq(Nat) /\ Len(swiftLinkResponse) <= 1
            /\ owedIn = swiftLinkResponse \o Unread
        BY DEF IInv, InOK, InputInOrder
      <3>2. Tail(swiftLinkResponse \o Unread) = Unread
        <4>1. Unread \in Seq(Nat)
          BY UnreadType DEF IInv
        <4>2. PICK byte \in Nat : swiftLinkResponse = <<byte>>
          BY <2>2, <3>1, ShortIsSingle
        <4> QED
          BY <4>1, <4>2
      <3>3. Unread' = Unread /\ UNCHANGED <<inBuf, inPos>>
        BY DEF ReadData, Unread
      <3>4. owedIn' = <<>> \o Unread
        <4>1. Unread \in Seq(Nat)
          BY UnreadType DEF IInv
        <4>2. <<>> \o Unread = Unread
          BY <4>1
        <4> QED
          BY <2>2, <3>1, <3>2, <4>2
      <3> QED
        BY <2>2, <3>3, <3>4 DEF IInv, InOK, InputInOrder
    <2> QED
      BY <2>1, <2>2 DEF ReadData
  <1> QED
    BY <1>1, <1>2, <1>3 DEF IInv

\* A written byte is owed after the others, unless it will be wiped.
LEMMA WriteDataKeeps ==
  ASSUME IInv, WriteData
  PROVE  IInv'
  <1>1. InOK'
    BY KeepsIn DEF WriteData, IInv
  <1>2. ControlOK'
    <2>1. DMATypes'
      BY PullTypes DEF WriteData, IInv
    <2> QED
      BY <2>1 DEF IInv, ControlOK, WriteData, DMATypes, loopVars, irqVars, modemVars, webVars,
                  c64Vars
  <1>3. /\ script \in Seq(Kinds) /\ typed' = typed + 1 /\ typed' \in 1 .. Len(script)
        /\ UNCHANGED <<script, remote>>
    BY DEF WriteData, IInv, ScriptOK
  <1>4. ScriptOK'
    BY <1>3 DEF ScriptOK, IInv
  <1>5. OutOK'
    <2>1. CASE Served
      <3> DEFINE c == [byte |-> typed', kind |-> script[typed']]
      <3>1. /\ outBuf' = Append(outBuf, c)
            /\ owedOut' = IF AboutToEmpty THEN owedOut ELSE Append(owedOut, typed')
            /\ outPos' = outPos /\ pc' = pc
        BY <2>1 DEF WriteData
      <3>2. c \in Chars /\ c.byte = typed'
        <4>1. script[typed'] \in Kinds
          BY <1>3
        <4> QED
          BY <1>3, <4>1 DEF Chars
      <3>3. /\ outBuf \in Seq(Chars) /\ outPos \in Nat
            /\ pc # "emptyPos" => outPos <= Len(outBuf)
        BY DEF IInv, OutOK
      <3> HIDE DEF c
      <3>4. outBuf' \in Seq(Chars) /\ Len(outBuf') = Len(outBuf) + 1
        BY <3>1, <3>2, <3>3
      <3> DEFINE from == IF pc = "emptyPos" THEN 0 ELSE outPos
      <3>5. from \in 0 .. Len(outBuf)
        BY <3>3
      <3>6. OutPending = Bytes(outBuf, from) /\ OutPending' = Bytes(outBuf', from)
        BY <3>1 DEF OutPending, Bytes
      <3>7. AboutToEmpty' = AboutToEmpty
        BY <3>1 DEF AboutToEmpty
      <3> HIDE DEF from
      <3>8. OutPending' = Append(OutPending, typed')
        BY <3>1, <3>2, <3>3, <3>5, <3>6, BytesAppend
      <3>9. OnlyRacedBytesLost'
        <4>1. owedOut = IF AboutToEmpty THEN <<>> ELSE OutPending
          BY DEF IInv, OutOK, OnlyRacedBytesLost
        <4> QED
          BY <4>1, <3>1, <3>7, <3>8 DEF OnlyRacedBytesLost
      <3> QED
        BY <3>1, <3>3, <3>4, <3>9 DEF OutOK
    <2>2. CASE ~Served
      BY <2>2, KeepsOut DEF WriteData, IInv, outVars
    <2> QED
      BY <2>1, <2>2
  <1> QED
    BY <1>1, <1>2, <1>4, <1>5 DEF IInv

\* What the remote end sends is owed after the rest.
LEMMA RemoteKeeps ==
  ASSUME IInv, Remote
  PROVE  IInv'
  <1>1. OutOK'
    BY KeepsOut DEF Remote, IInv
  <1>2. ControlOK'
    BY DEF IInv, ControlOK, Remote, loopVars, irqVars, dmaVars, webVars, c64Vars
  <1>3. PICK n \in 0 .. MaxRemote - remote, zero \in BOOLEAN :
          /\ remote' = remote + n
          /\ ToFrontend([i \in 1 .. n |-> IF zero /\ i = 1 THEN Zero ELSE Len(script) + remote + i])
    BY DEF Remote
  <1>4. remote \in Nat /\ script \in Seq(Kinds) /\ MaxRemote \in Nat
    BY BoundsAssumption DEF IInv, ScriptOK
  <1>5. ScriptOK'
    BY <1>3, <1>4 DEF ScriptOK, IInv, Remote
  <1>6. InOK'
    <2> DEFINE bytes == [i \in 1 .. n |-> IF zero /\ i = 1 THEN Zero ELSE Len(script) + remote + i]
    <2>1. n \in Nat
      BY <1>3, <1>4
    <2>2. \A i \in 1 .. n : (IF zero /\ i = 1 THEN Zero ELSE Len(script) + remote + i) \in Nat
      BY <1>4, <2>1 DEF Zero
    <2>3. bytes \in Seq(Nat)
      BY <2>1, <2>2
    <2> QED
      BY <1>3, <2>3, ToFrontendKeeps DEF IInv, Remote
  <1> QED
    BY <1>1, <1>2, <1>5, <1>6 DEF IInv
----------------------------------------------------------------------------
(* The modem and the main loop *)

\* The modem takes a byte that the FIQ handler has added, or finds none.
LEMMA SilentModemKeeps ==
  ASSUME IInv, SilentModem
  PROVE  IInv'
  <1>1. /\ pc = "silent" /\ pc' \in {"input", "emptyLength"}
        /\ swiftLinkResponse' = swiftLinkResponse
        /\ UNCHANGED <<script, typed, remote>>
    BY DEF SilentModem, boundVars
  <1>2. ScriptOK'
    BY <1>1 DEF IInv, ScriptOK
  <1>3. InOK /\ OutOK /\ ControlOK
    BY DEF IInv
  <1>4. CASE OutUnread
    <2>1. TakeOut /\ Interpret(outBuf[outPos + 1], TRUE) /\ pc' = "input"
      BY <1>4 DEF SilentModem
    <2>2. OutOK' /\ outBuf[outPos + 1] \in Chars
      BY <1>1, <1>3, <1>4, <2>1, TakeOutKeeps
    <2>3. /\ InOK' /\ commandLength' \in Nat
          /\ {dialled', connected', firstReceive'} \subseteq BOOLEAN
      BY <1>1, <1>3, <2>1, <2>2, InterpretKeeps
    <2>4. ControlOK'
      BY <1>3, <2>1, <2>3 DEF SilentModem, ControlOK, loopVars, irqVars, dmaVars, webVars,
                              c64Vars
    <2> QED
      BY <1>2, <2>2, <2>3, <2>4 DEF IInv
  <1>5. CASE ~OutUnread
    <2>1. /\ UNCHANGED <<outVars, inVars, modemVars>>
          /\ pc' = IF OutAllRead THEN "emptyLength" ELSE "input"
      BY <1>5 DEF SilentModem
    <2>2. InOK'
      BY <1>1, <1>3, <2>1, KeepsIn
    <2>3. ControlOK'
      BY <1>1, <1>3, <2>1 DEF SilentModem, ControlOK, loopVars, irqVars, dmaVars, modemVars,
                              webVars, c64Vars
    <2>4. OutOK'
      <3>1. CASE OutAllRead
        <4>1. /\ outBuf \in Seq(Chars) /\ outPos = Len(outBuf) /\ pc' = "emptyLength"
              /\ UNCHANGED <<outBuf, outPos, owedOut>>
          BY <1>3, <2>1, <3>1 DEF OutAllRead, OutOK, outVars
        <4>2. owedOut = Bytes(outBuf, Len(outBuf))
          BY <1>1, <1>3, <4>1, OutPendingIs DEF OutOK, OnlyRacedBytesLost, AboutToEmpty
        <4>3. owedOut' = <<>>
          BY <4>1, <4>2, BytesNone
        <4> QED
          BY <4>1, <4>3 DEF OutOK, OnlyRacedBytesLost, AboutToEmpty
      <3>2. CASE ~OutAllRead
        BY <1>1, <1>3, <2>1, <3>2, KeepsOut
      <3> QED
        BY <3>1, <3>2
    <2> QED
      BY <1>2, <2>2, <2>3, <2>4 DEF IInv
  <1> QED
    BY <1>4, <1>5

\* The first of the two steps wipes what came after the test.
LEMMA EmptyLengthKeeps ==
  ASSUME IInv, EmptyLength
  PROVE  IInv'
  <1>1. ControlOK' /\ ScriptOK'
    BY DEF IInv, ControlOK, ScriptOK, EmptyLength, loopVars, irqVars, dmaVars, modemVars,
           webVars, c64Vars, boundVars
  <1>2. InOK'
    BY KeepsIn DEF IInv, EmptyLength
  <1>3. OutOK'
    BY EmptyOut DEF IInv, OutOK, EmptyLength, OnlyRacedBytesLost, AboutToEmpty
  <1> QED
    BY <1>1, <1>2, <1>3 DEF IInv

\* The second leaves what came after the first.
LEMMA EmptyPosKeeps ==
  ASSUME IInv, EmptyPos
  PROVE  IInv'
  <1>1. ControlOK' /\ ScriptOK'
    BY DEF IInv, ControlOK, ScriptOK, EmptyPos, loopVars, irqVars, dmaVars, modemVars,
           webVars, c64Vars, boundVars
  <1>2. InOK'
    BY KeepsIn DEF IInv, EmptyPos
  <1>3. OutOK'
    <2>1. OutPending' = OutPending
      BY DEF EmptyPos, OutPending
    <2>2. outBuf' = outBuf /\ outBuf \in Seq(Chars) /\ outPos' = 0 /\ owedOut' = owedOut
      BY DEF EmptyPos, IInv, OutOK
    <2>3. 0 <= Len(outBuf)
      BY <2>2
    <2> QED
      BY <2>1, <2>2, <2>3 DEF EmptyPos, IInv, OutOK, OnlyRacedBytesLost, AboutToEmpty
  <1> QED
    BY <1>1, <1>2, <1>3 DEF IInv

\* A byte is moved from the buffer to the terminal, or dropped if it is 0.
LEMMA InputKeeps ==
  ASSUME IInv, Input
  PROVE  IInv'
  <1>1. ScriptOK' /\ OutOK'
    BY KeepsOut DEF IInv, ScriptOK, Input, boundVars
  <1>2. InOK'
    <2>1. CASE UNCHANGED <<inPos, swiftLinkResponse, owedIn>>
      BY <2>1, KeepsIn DEF Input, IInv, inVars
    <2>2. CASE /\ swiftLinkResponse = <<>> /\ AreCharsInInputBuffer
               /\ inPos' = inPos + 1
               /\ swiftLinkResponse' = Offered(inBuf[inPos + 1])
               /\ owedIn' = IF swiftLinkResponse' = <<>> THEN Tail(owedIn) ELSE owedIn
      <3> DEFINE b == inBuf[inPos + 1]
      <3>1. /\ inBuf' = inBuf /\ inBuf \in Seq(Nat) /\ inPos \in 0 .. Len(inBuf)
            /\ inPos < Len(inBuf) /\ owedIn = <<>> \o Unread /\ Unread \in Seq(Nat)
        BY <2>2, UnreadType DEF Input, IInv, InOK, InputInOrder, AreCharsInInputBuffer
      <3>2. /\ Unread = <<b>> \o Unread' /\ Tail(Unread) = Unread' /\ b \in Nat
        <4>1. /\ SubSeq(inBuf, inPos + 1, Len(inBuf))
                   = <<inBuf[inPos + 1]>> \o SubSeq(inBuf, inPos + 2, Len(inBuf))
              /\ Tail(SubSeq(inBuf, inPos + 1, Len(inBuf))) = SubSeq(inBuf, inPos + 2, Len(inBuf))
              /\ inBuf[inPos + 1] \in Nat
          BY <3>1, RestHasHead
        <4>2. inPos' + 1 = inPos + 2
          BY <2>2, <3>1
        <4> QED
          BY <3>1, <4>1, <4>2 DEF Unread
      <3>3. owedIn = Unread
        BY <3>1
      <3>4. inPos' \in 0 .. Len(inBuf')
        BY <2>2, <3>1
      <3>5. Unread' \in Seq(Nat)
        <4>1. Unread' = SubSeq(inBuf, inPos + 2, Len(inBuf))
          <5>1. Unread' = SubSeq(inBuf', inPos' + 1, Len(inBuf'))
            BY DEF Unread
          <5>2. inPos' + 1 = inPos + 2
            BY <2>2, <3>1
          <5> QED
            BY <3>1, <5>1, <5>2
        <4> QED
          BY <3>1, <4>1
      <3> HIDE DEF b
      <3>6. CASE b = Zero
        <4>1. swiftLinkResponse' = <<>> /\ owedIn' = Unread'
          BY <2>2, <3>2, <3>3, <3>6 DEF Offered, b
        <4>2. <<>> \o Unread' = Unread'
          BY <3>5
        <4>3. swiftLinkResponse' \in Seq(Nat) /\ Len(swiftLinkResponse') <= 1
          BY <4>1
        <4> QED
          BY <3>1, <3>4, <4>1, <4>2, <4>3 DEF InOK, InputInOrder
      <3>7. CASE b # Zero
        <4>1. swiftLinkResponse' = <<b>>
          BY <2>2, <3>7 DEF Offered, b
        <4>2. swiftLinkResponse' \in Seq(Nat) /\ Len(swiftLinkResponse') = 1
          BY <3>2, <4>1
        <4>3. owedIn' = owedIn
          BY <2>2, <4>1
        <4> QED
          BY <3>1, <3>2, <3>3, <3>4, <4>1, <4>2, <4>3 DEF InOK, InputInOrder
      <3> QED
        BY <3>6, <3>7
    <2> QED
      BY <2>1, <2>2 DEF Input
  <1>3. ControlOK'
    <2>1. /\ swiftLinkDoNMI \in 0 .. NMIDelay /\ keepNMILow \in 0 .. NMILow
          /\ nmiLow \in BOOLEAN /\ nmiPending \in BOOLEAN
      BY DEF IInv, ControlOK
    <2>2. swiftLinkDoNMI' \in 0 .. NMIDelay
      BY <2>1, DelaysAssumption DEF Input
    <2>3. keepNMILow' \in 0 .. NMILow
      <3>1. keepNMILow' = NMILow \/ keepNMILow' = keepNMILow
        BY DEF Input
      <3> QED
        BY <2>1, <3>1, DelaysAssumption
    <2>4. nmiLow' \in BOOLEAN /\ nmiPending' \in BOOLEAN
      <3>1. /\ nmiLow' = TRUE \/ nmiLow' = nmiLow
            /\ nmiPending' = nmiPending \/ nmiPending' = (nmiPending \/ (~nmiLow /\ c64 = "run"))
        BY DEF Input
      <3> QED
        BY <2>1, <3>1
    <2>5. pc' = "top"
      BY DEF Input
    <2> QED
      BY <2>2, <2>3, <2>4, <2>5 DEF IInv, ControlOK, Input, irqVars, dmaVars, modemVars, webVars
  <1> QED
    BY <1>1, <1>2, <1>3 DEF IInv

\* The launcher begins: what was offered to the program before is not owed.
LEMMA LaunchKeeps ==
  ASSUME IInv, Launch
  PROVE  IInv'
  <1>1. ScriptOK' /\ OutOK'
    BY KeepsOut DEF IInv, ScriptOK, Launch, boundVars
  <1>2. InOK'
    <2>1. Unread \in Seq(Nat) /\ Unread' = Unread
      BY UnreadType DEF IInv, Launch, Unread
    <2>2. <<>> \o Unread = Unread
      BY <2>1
    <2>3. <<>> \in Seq(Nat) /\ Len(<<>>) <= 1
      OBVIOUS
    <2> QED
      BY <2>1, <2>2, <2>3 DEF IInv, InOK, InputInOrder, Launch
  <1>3. ControlOK'
    <2>1. netDelay' \in Nat /\ swiftLinkDoNMI' \in 0 .. NMIDelay /\ keepNMILow' \in 0 .. NMILow
      BY DelaysAssumption DEF Launch
    <2>2. swiftLinknetDelayDMA' \in 0 .. DMADelay
      BY DelaysAssumption DEF Launch
    <2> QED
      BY <2>1, <2>2 DEF IInv, ControlOK, Launch, modemVars, webVars
  <1> QED
    BY <1>1, <1>2, <1>3 DEF IInv
\* With the FIQ handler off the modem dials, hangs up, takes a byte, or empties the
\* buffer that it has read.
LEMMA ModemKeeps ==
  ASSUME IInv, Modem
  PROVE  IInv'
  <1>1. /\ pc \in {"modem", "menu"} /\ pc' \in {"menu", "receive", "reconnect"}
        /\ swiftLinkResponse' = swiftLinkResponse
        /\ {pc, pc'} \cap {"emptyLength", "emptyPos"} = {}
    BY DEF Modem
  <1>2. InOK /\ OutOK /\ ControlOK
    BY DEF IInv
  <1>3. ScriptOK'
    BY DEF IInv, ScriptOK, Modem, boundVars
  <1>4. SUFFICES /\ InOK' /\ OutOK' /\ commandLength' \in Nat
                 /\ {dialled', connected', firstReceive'} \subseteq BOOLEAN
    BY <1>1, <1>2, <1>3, <1>4 DEF IInv, ControlOK, Modem, loopVars, irqVars, dmaVars, webVars,
                                  c64Vars
  <1>5. /\ commandLength \in Nat
        /\ dialled \in BOOLEAN /\ connected \in BOOLEAN /\ firstReceive \in BOOLEAN
    BY <1>2 DEF ControlOK
  <1>6. CASE /\ ToFrontend(<<Text>>) /\ Connect /\ dialled' = FALSE
             /\ UNCHANGED <<outVars, commandLength>>
    <2>1. <<Text>> \in Seq(Nat)
      BY DEF Text
    <2>2. InOK' /\ OutOK'
      BY <1>1, <1>2, <1>6, <2>1, ToFrontendKeeps, KeepsOut
    <2>3. \/ UNCHANGED <<connected, firstReceive>>
          \/ connected' = TRUE /\ firstReceive' = TRUE
      BY <1>6 DEF Connect
    <2> QED
      BY <1>5, <1>6, <2>2, <2>3
  <1>7. CASE CleanUp
    <2>1. /\ inBuf' = <<>> /\ inPos' = 0 /\ owedIn' = swiftLinkResponse
          /\ outBuf' = <<>> /\ outPos' = 0 /\ owedOut' = <<>>
          /\ connected' = FALSE /\ firstReceive' = FALSE /\ commandLength' = 0
          /\ dialled' = dialled
      BY <1>7 DEF CleanUp
    <2>2. OutOK'
      BY <2>1, EmptyOut
    <2>3. InOK'
      <3>1. Unread' = <<>>
        BY <2>1 DEF Unread
      <3>2. swiftLinkResponse \in Seq(Nat) /\ Len(swiftLinkResponse) <= 1
        BY <1>2 DEF InOK
      <3>3. swiftLinkResponse \o <<>> = swiftLinkResponse
        BY <3>2
      <3>4. <<>> \in Seq(Nat) /\ 0 \in 0 .. Len(<<>>)
        OBVIOUS
      <3> QED
        BY <1>1, <2>1, <3>1, <3>2, <3>3, <3>4 DEF InOK, InputInOrder
    <2> QED
      BY <1>5, <2>1, <2>2, <2>3
  <1>8. CASE OutUnread /\ TakeOut /\ Interpret(outBuf[outPos + 1], FALSE)
    <2>1. OutOK' /\ outBuf[outPos + 1] \in Chars
      BY <1>1, <1>2, <1>8, TakeOutKeeps
    <2>2. /\ InOK' /\ commandLength' \in Nat
          /\ {dialled', connected', firstReceive'} \subseteq BOOLEAN
      BY <1>1, <1>2, <1>8, <2>1, InterpretKeeps
    <2> QED
      BY <2>1, <2>2
  <1>9. CASE /\ OutUnread /\ TakeOut /\ firstReceive' = TRUE
             /\ UNCHANGED <<inVars, commandLength, dialled, connected>>
    <2>1. OutOK' /\ InOK'
      BY <1>1, <1>2, <1>9, TakeOutKeeps, KeepsIn
    <2> QED
      BY <1>5, <1>9, <2>1
  <1>10. CASE /\ ~OutUnread /\ outBuf' = <<>> /\ outPos' = 0
              /\ UNCHANGED <<owedOut, inVars, modemVars>>
    <2>1. outBuf \in Seq(Chars) /\ outPos = Len(outBuf)
      BY <1>1, <1>2, <1>10 DEF OutUnread, OutOK
    <2>2. owedOut = Bytes(outBuf, Len(outBuf))
      BY <1>1, <1>2, <2>1, OutPendingIs DEF OutOK, OnlyRacedBytesLost, AboutToEmpty
    <2>3. owedOut' = <<>>
      BY <1>10, <2>1, <2>2, BytesNone
    <2>4. OutOK' /\ InOK'
      BY <1>1, <1>2, <1>10, <2>3, EmptyOut, KeepsIn
    <2> QED
      BY <1>5, <1>10, <2>4 DEF modemVars
  <1> QED
    BY <1>6, <1>7, <1>8, <1>9, <1>10 DEF Modem
----------------------------------------------------------------------------
(* The invariant *)

\* The quiet actions keep the invariant.
LEMMA QuietKeeps ==
  ASSUME IInv, Quiet
  PROVE  IInv'
  BY QuietIsUntouched, UntouchedKeeps, QuietKeepsTypes DEF IInv

\* When the launcher has not been started, nothing is owed either way.
THEOREM InitIInv == Init => IInv
  <1> SUFFICES ASSUME Init PROVE IInv
    OBVIOUS
  <1>1. ControlOK
    <2>1. netDelay \in Nat /\ swiftLinkDoNMI \in 0 .. NMIDelay /\ keepNMILow \in 0 .. NMILow
      BY DelaysAssumption DEF Init
    <2>2. swiftLinknetDelayDMA \in 0 .. DMADelay
      BY DelaysAssumption DEF Init
    <2> QED
      BY <2>1, <2>2 DEF Init, ControlOK
  <1>2. ScriptOK
    <2>1. script \in Seq(Kinds) /\ typed = 0 /\ remote = 0 /\ MaxRemote \in Nat
      BY ScriptsAssumption, BoundsAssumption DEF Init
    <2> QED
      BY <2>1 DEF ScriptOK
  <1>3. InOK
    <2>1. swiftLinkResponse = <<>> /\ inBuf = <<>> /\ inPos = 0 /\ owedIn = <<>>
      BY DEF Init
    <2>2. Unread = <<>>
      BY <2>1 DEF Unread
    <2> QED
      BY <2>1, <2>2 DEF InOK, InputInOrder
  <1>4. OutOK
    <2>1. /\ pc = "menu" /\ outBuf = <<>> /\ outPos = 0 /\ owedOut = <<>>
          /\ outBuf \in Seq(Chars) /\ Len(outBuf) = 0
      BY DEF Init
    <2>2. OutPending = <<>>
      BY <2>1, OutPendingIs, BytesNone
    <2> QED
      BY <2>1, <2>2 DEF OutOK, OnlyRacedBytesLost, AboutToEmpty
  <1> QED
    BY <1>1, <1>2, <1>3, <1>4 DEF IInv

\* Every step of the terminal, of the main loop, of the C64 and of the remote end keeps
\* both streams.
THEOREM NextIInv == IInv /\ [Next]_vars => IInv'
  <1> SUFFICES ASSUME IInv, [Next]_vars PROVE IInv'
    OBVIOUS
  <1>1. CASE ReadData
    BY <1>1, ReadDataKeeps
  <1>2. CASE WriteData
    BY <1>2, WriteDataKeeps
  <1>3. CASE SilentModem
    BY <1>3, SilentModemKeeps
  <1>4. CASE EmptyLength
    BY <1>4, EmptyLengthKeeps
  <1>5. CASE EmptyPos
    BY <1>5, EmptyPosKeeps
  <1>6. CASE Modem
    BY <1>6, ModemKeeps
  <1>7. CASE Remote
    BY <1>7, RemoteKeeps
  <1>8. CASE Input
    BY <1>8, InputKeeps
  <1>9. CASE Launch
    BY <1>9, LaunchKeeps
  <1>10. CASE Quiet
    BY <1>10, QuietKeeps
  <1>11. CASE UNCHANGED vars
    <2>1. Untouched
      BY <1>11 DEF vars, Untouched, boundVars
    <2>2. ControlOK'
      BY <1>11 DEF IInv, ControlOK, vars, loopVars, irqVars, dmaVars, modemVars, webVars, c64Vars
    <2> QED
      BY <2>1, <2>2, UntouchedKeeps DEF IInv
  <1> QED
    BY <1>1, <1>2, <1>3, <1>4, <1>5, <1>6, <1>7, <1>8, <1>9, <1>10, <1>11
       DEF Next, Terminal, MainLoop, Menu, Quiet

\* The inductive invariant: the streams, the types, and the bounds of the positions.
THEOREM StreamInvariant == Spec => []IInv
  <1>1. Init => IInv
    BY InitIInv
  <1>2. IInv /\ [Next]_vars => IInv'
    BY NextIInv
  <1> QED
    BY <1>1, <1>2, PTL DEF Spec

\* The positions in both buffers stay inside of them, except in the moment between the
\* two steps that empty the output buffer.
THEOREM TypeCorrect == Spec => []TypeOK
  <1>1. IInv => TypeOK
    BY DEF IInv, InOK, OutOK, TypeOK
  <1> QED
    BY <1>1, StreamInvariant, PTL

\* For every script, every length of the delays and any number of resets: nothing is
\* lost, doubled or put out of order in either direction, but a 0 from the remote end
\* and the byte that is written between the test of the output buffer and its
\* emptying (handleModemEmulation, writeCharsToFrontend, addToModemOutputBuffer).
THEOREM StreamsStayInOrder == Spec => []StreamsInOrder
  <1>1. IInv => StreamsInOrder
    BY DEF IInv, InOK, OutOK, StreamsInOrder
  <1> QED
    BY <1>1, StreamInvariant, PTL
=============================================================================
