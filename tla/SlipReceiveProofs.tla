-------------------------- MODULE SlipReceiveProofs --------------------------
(* Proofs about SlipReceive, for every buffer size, every set of byte values   *)
(* and every sequence of bytes on the line, and about SlipLink, which puts a   *)
(* host at the other end.                                                      *)
EXTENDS SlipLink, WellFoundedInduction, SequenceTheorems, TLAPS

USE SpecialsDiffer, ZeroAssumption, SizeAssumption, NullAssumption DEF Idx

(* The three ways a byte can end: stored, ending its frame, or giving it up.   *)

\* A byte of a frame ends it, begins an escape, or is stored.
LEMMA InFrameCases ==
  ASSUME NEW b, InFrameByte(b)
  PROVE  \/ b = END /\ CloseFrame
         \/ b = ESC /\ s_state' = "ESCAPING"
            /\ UNCHANGED <<s_rx_buf, s_rx_len, s_rx_cap, bufVars>>
         \/ b # END /\ b # ESC /\ RxPut(b)
<1>1. CASE b = END
  BY <1>1 DEF InFrameByte
<1>2. CASE b = ESC
  BY <1>2 DEF InFrameByte
<1>3. CASE b # END /\ b # ESC
  BY <1>3 DEF InFrameByte
<1> QED BY <1>1, <1>2, <1>3

\* A byte after ESC stands for END or ESC, or gives the frame up.
LEMMA EscapedCases ==
  ASSUME NEW b, EscapedByte(b)
  PROVE  RxPut(END) \/ RxPut(ESC) \/ Abort
<1>1. CASE b = ESC_END
  BY <1>1 DEF EscapedByte
<1>2. CASE b = ESC_ESC
  BY <1>2 DEF EscapedByte
<1>3. CASE b # ESC_END /\ b # ESC_ESC
  BY <1>3 DEF EscapedByte
<1> QED BY <1>1, <1>2, <1>3

\* Storing one element of a two-dimensional array keeps its type.
LEMMA StoreTypes ==
  ASSUME NEW I, NEW J, NEW V, NEW f \in [I -> [J -> V]],
         NEW i, NEW j, NEW v \in V
  PROVE  [f EXCEPT ![i][j] = v] \in [I -> [J -> V]]
OBVIOUS

\* Giving a frame up keeps the types.
LEMMA AbortTypes ==
  ASSUME TypeOK, Abort, UNCHANGED <<idxVars, mainVars>>
  PROVE  TypeOK'
BY DEF TypeOK, Labels, Abort, MarkError, idxVars, mainVars

\* Storing a byte, or finding no room for it, keeps the types.
LEMMA RxPutTypes ==
  ASSUME TypeOK, NEW b \in Byte, RxPut(b), UNCHANGED <<idxVars, mainVars>>
  PROVE  TypeOK'
<1>1. CASE s_rx_len < s_rx_cap
  <2>1. buffer' \in [Idx -> [1..FRAME_BUFFER_SIZE -> Byte]]
    <3>1. buffer' = [buffer EXCEPT ![s_rx_buf][s_rx_len + 1] = b]
      BY <1>1 DEF RxPut
    <3>2. buffer \in [Idx -> [1..FRAME_BUFFER_SIZE -> Byte]]
      BY DEF TypeOK
    <3> QED BY <3>1, <3>2, StoreTypes
  <2>2. s_rx_len' \in 0..FRAME_BUFFER_SIZE
    BY <1>1 DEF RxPut, TypeOK
  <2>3. /\ s_state' = "IN_FRAME"
        /\ UNCHANGED <<s_rx_buf, s_rx_cap, frame_length, frame_complete, frame_error>>
    BY <1>1 DEF RxPut, flagVars
  <2> QED BY <2>1, <2>2, <2>3 DEF TypeOK, idxVars, mainVars
<1>2. CASE ~(s_rx_len < s_rx_cap)
  BY <1>2, AbortTypes DEF RxPut
<1> QED BY <1>1, <1>2

\* Ending a frame keeps the types: its length is that of a buffer.
LEMMA CloseFrameTypes ==
  ASSUME TypeOK, CloseFrame, UNCHANGED <<idxVars, mainVars>>
  PROVE  TypeOK'
<1>1. CASE s_rx_len > 0
  <2>1. s_rx_len =< FRAME_BUFFER_SIZE
    BY DEF TypeOK
  <2>2. /\ frame_length' \in [Idx -> 0..FRAME_BUFFER_SIZE]
        /\ frame_complete' \in [Idx -> BOOLEAN]
        /\ frame_error' \in [Idx -> BOOLEAN]
    <3>1. /\ frame_length' = [frame_length EXCEPT ![s_rx_idx] = s_rx_len]
          /\ frame_complete' = [frame_complete EXCEPT ![s_rx_idx] = TRUE]
          /\ frame_error' = frame_error
      BY <1>1, <2>1 DEF CloseFrame, MarkComplete, TypeOK
    <3> QED BY <3>1 DEF TypeOK
  <2>3. /\ s_rx_buf' = NULL /\ s_rx_len' = 0 /\ s_state' = "NO_FRAME"
        /\ UNCHANGED <<s_rx_cap, buffer>>
    BY <1>1 DEF CloseFrame
  <2> QED BY <2>2, <2>3 DEF TypeOK, idxVars, mainVars
<1>2. CASE ~(s_rx_len > 0)
  BY <1>2 DEF CloseFrame, TypeOK, flagVars, idxVars, mainVars
<1> QED BY <1>1, <1>2

\* Every byte the decoder takes keeps the types.
LEMMA ByteTypes ==
  ASSUME TypeOK, NEW b \in Byte, SlipRecvByte(b)
  PROVE  TypeOK'
<1>0. UNCHANGED <<idxVars, mainVars>>
  BY DEF SlipRecvByte
<1>1. CASE NoFrameByte(b)
  BY <1>0, <1>1 DEF NoFrameByte, TypeOK, bufVars, idxVars, mainVars
<1>2. CASE InFrameByte(b)
  <2>1. CASE b = ESC
    BY <1>0, <1>2, <2>1, InFrameCases DEF TypeOK, bufVars, idxVars, mainVars
  <2> QED BY <1>0, <1>2, <2>1, InFrameCases, CloseFrameTypes, RxPutTypes
<1>3. CASE EscapedByte(b)
  <2>1. END \in Byte /\ ESC \in Byte
    BY DEF Byte, Special
  <2> QED BY <1>0, <1>3, <2>1, EscapedCases, RxPutTypes, AbortTypes
<1> QED BY <1>1, <1>2, <1>3 DEF SlipRecvByte

\* Every step of the main loop keeps the types.
LEMMA MainTypes ==
  ASSUME TypeOK, Main
  PROVE  TypeOK'
<1> USE DEF TypeOK, Labels, isrVars, bufVars, flagVars, idxVars, Goto
<1>1. CASE TestOtherError
  BY <1>1 DEF TestOtherError, TestFlag, Other
<1>2. CASE TestRxError
  BY <1>2 DEF TestRxError, TestFlag
<1>3. CASE TestOtherComplete
  BY <1>3 DEF TestOtherComplete, TestFlag, Other
<1>4. CASE TestRxComplete
  BY <1>4 DEF TestRxComplete, TestFlag
<1>5. CASE AcquireRxComplete
  BY <1>5 DEF AcquireRxComplete, AcquireTest
<1>6. CASE AcquireRxError
  BY <1>6 DEF AcquireRxError, AcquireTest
<1>7. CASE AcquireOther
  BY <1>7 DEF AcquireOther, Other
<1>8. CASE AcquireLength
  BY <1>8 DEF AcquireLength
<1>9. CASE ArmBuf
  BY <1>9 DEF ArmBuf
<1>10. CASE ArmCap
  BY <1>10 DEF ArmCap
<1>11. CASE ReleaseLength
  BY <1>11 DEF ReleaseLength
<1>12. CASE ReleaseComplete
  BY <1>12 DEF ReleaseComplete
<1>13. CASE ReleaseError
  BY <1>13 DEF ReleaseError
<1>14. CASE Loops
  BY <1>14 DEF Loops, SendOhai, HandleCommand, FinishCommand, HandleRead,
     ReadRefused, StreamStart, StreamPoll, StreamEnd, StreamAck, StreamBreak, MainStep
<1> QED
  BY <1>1, <1>2, <1>3, <1>4, <1>5, <1>6, <1>7, <1>8, <1>9, <1>10, <1>11, <1>12,
     <1>13, <1>14 DEF Main, GetState, Rearm, Reset

\* Every step keeps the types.
LEMMA TypeStep == TypeOK /\ [Next]_vars => TypeOK'
<1> SUFFICES ASSUME TypeOK, [Next]_vars PROVE TypeOK'
  OBVIOUS
<1>1. CASE \E b \in Byte : SlipRecvByte(b)
  BY <1>1, ByteTypes
<1>2. CASE Main
  BY <1>2, MainTypes
<1>3. CASE UNCHANGED vars
  BY <1>3 DEF TypeOK, vars, isrVars, bufVars, flagVars, idxVars, mainVars
<1> QED BY <1>1, <1>2, <1>3 DEF Next

-----------------------------------------------------------------------------
(* What a byte does to the two buffers, in three outcomes.                     *)

\* The byte is ignored, stored or counted; nothing is published.
Absorbed ==
  /\ UNCHANGED <<s_rx_buf, frame_length, frame_complete, frame_error>>
  /\ s_rx_buf = NULL => buffer' = buffer
  /\ \A i \in Idx : i # s_rx_idx => buffer'[i] = buffer[i]
  /\ DecoderInBounds'

\* The frame in the armed buffer is published, and the decoder disarmed.
Completed ==
  /\ s_rx_buf # NULL /\ s_rx_buf' = NULL /\ s_state' = "NO_FRAME"
  /\ s_rx_len \in 1..FRAME_BUFFER_SIZE
  /\ frame_length' = [frame_length EXCEPT ![s_rx_idx] = s_rx_len]
  /\ frame_complete' = [frame_complete EXCEPT ![s_rx_idx] = TRUE]
  /\ UNCHANGED <<frame_error, buffer>>

\* The reception has failed, and the decoder is disarmed.
Failed ==
  /\ s_rx_buf # NULL /\ s_rx_buf' = NULL /\ s_state' = "NO_FRAME"
  /\ frame_error' = [frame_error EXCEPT ![s_rx_idx] = TRUE]
  /\ UNCHANGED <<frame_length, frame_complete, buffer>>

\* Giving a frame up fails it in the buffer the interrupt is to fill.
LEMMA AbortOutcome ==
  ASSUME DecoderInBounds, s_state # "NO_FRAME", Abort
  PROVE  Failed
BY DEF DecoderInBounds, Abort, MarkError, Failed

\* Storing a byte leaves the frame open, or fails it when the buffer is full.
LEMMA RxPutOutcome ==
  ASSUME TypeOK, DecoderInBounds, ArmedBufferIsFree, s_state # "NO_FRAME",
         NEW b, RxPut(b)
  PROVE  Absorbed \/ Failed
<1>1. CASE s_rx_len < s_rx_cap
  <2>1. s_rx_buf = s_rx_idx /\ s_rx_buf # NULL
    BY DEF DecoderInBounds, ArmedBufferIsFree
  <2>2. /\ UNCHANGED <<s_rx_buf, s_rx_cap, frame_length, frame_complete, frame_error>>
        /\ s_rx_len' = s_rx_len + 1
    BY <1>1 DEF RxPut, flagVars
  <2>3. \A i \in Idx : i # s_rx_idx => buffer'[i] = buffer[i]
    BY <1>1, <2>1 DEF RxPut, TypeOK
  <2>4. DecoderInBounds'
    BY <1>1, <2>1, <2>2 DEF DecoderInBounds, TypeOK
  <2> QED BY <2>1, <2>2, <2>3, <2>4 DEF Absorbed
<1>2. CASE ~(s_rx_len < s_rx_cap)
  BY <1>2, AbortOutcome DEF RxPut
<1> QED BY <1>1, <1>2

\* The END after a frame completes it; that of an empty frame changes nothing
\* but the decoder's state.
LEMMA CloseFrameOutcome ==
  ASSUME TypeOK, DecoderInBounds, s_state # "NO_FRAME", CloseFrame
  PROVE  Absorbed \/ Completed
<1>1. CASE s_rx_len > 0
  <2>1. s_rx_len \in 1..FRAME_BUFFER_SIZE
    BY <1>1 DEF TypeOK
  <2> QED BY <1>1, <2>1 DEF CloseFrame, MarkComplete, Completed, DecoderInBounds
<1>2. CASE ~(s_rx_len > 0)
  BY <1>2 DEF CloseFrame, Absorbed, DecoderInBounds, flagVars
<1> QED BY <1>1, <1>2

\* To the main loop a byte is one of three things: absorbed, the end of a whole
\* frame, or the end of a broken one; and it never moves the main loop's indices.
LEMMA ByteOutcome ==
  ASSUME TypeOK, DecoderInBounds, ArmedBufferIsFree, NEW b \in Byte, SlipRecvByte(b)
  PROVE  /\ Absorbed \/ Completed \/ Failed
         /\ UNCHANGED <<s_rx_idx, s_proc_idx, pc, caller, state, acquired>>
<1>0. UNCHANGED <<s_rx_idx, s_proc_idx, pc, caller, state, acquired>>
  BY DEF SlipRecvByte, idxVars, mainVars
<1>1. ASSUME NoFrameByte(b) PROVE Absorbed
  <2>1. UNCHANGED <<s_rx_buf, s_rx_cap, buffer, frame_length, frame_complete, frame_error>>
    BY <1>1 DEF NoFrameByte, bufVars
  <2>2. DecoderInBounds'
    BY <1>1, <2>1 DEF NoFrameByte, DecoderInBounds, TypeOK
  <2> QED BY <2>1, <2>2 DEF Absorbed
<1>2. ASSUME InFrameByte(b) PROVE Absorbed \/ Completed \/ Failed
  <2>1. s_state # "NO_FRAME"
    BY <1>2 DEF InFrameByte
  <2>2. CASE b = ESC
    <3>1. UNCHANGED <<s_rx_buf, s_rx_len, s_rx_cap, bufVars>>
      BY <1>2, <2>2, InFrameCases, SpecialsDiffer
    <3> QED BY <2>1, <3>1 DEF Absorbed, DecoderInBounds, bufVars
  <2> QED BY <1>2, <2>1, <2>2, InFrameCases, CloseFrameOutcome, RxPutOutcome
<1>3. ASSUME EscapedByte(b) PROVE Absorbed \/ Failed
  <2>1. s_state # "NO_FRAME"
    BY <1>3 DEF EscapedByte
  <2> QED BY <1>3, <2>1, EscapedCases, RxPutOutcome, AbortOutcome
<1> QED BY <1>0, <1>1, <1>2, <1>3 DEF SlipRecvByte

-----------------------------------------------------------------------------
(* The inductive invariant.                                                    *)

\* The inductive invariant holds at boot.
LEMMA InitInv == Init => IInv
<1> SUFFICES ASSUME Init PROVE IInv
  OBVIOUS
<1>1. TypeOK
  <2>1. ZERO \in Byte
    BY DEF Byte
  <2> QED BY <2>1 DEF Init, TypeOK, Labels
<1>2. ~Full(0) /\ ~Full(1)
  BY DEF Init, Full
<1>3. ArmedBufferIsFree /\ DecoderInBounds /\ NeverDeaf /\ LengthDiscipline
  BY DEF Init, ArmedBufferIsFree, DecoderInBounds, NeverDeaf, LengthDiscipline
<1>4. RearmDiscipline /\ BootDiscipline
  BY <1>2 DEF Init, RearmDiscipline, BootDiscipline, SelectLabels, SwitchLabels
<1>5. SpareDiscipline /\ ProcDiscipline
  BY <1>2 DEF Init, SpareDiscipline, ProcDiscipline, Other
<1> QED BY <1>1, <1>3, <1>4, <1>5 DEF IInv

\* Every byte the interrupt handles keeps the inductive invariant.
LEMMA ByteInv ==
  ASSUME IInv, NEW b \in Byte, SlipRecvByte(b)
  PROVE  IInv'
<1>0. TypeOK /\ TypeOK'
  BY ByteTypes DEF IInv
<1>1. UNCHANGED <<s_rx_idx, s_proc_idx, pc, caller, state, acquired>>
  BY ByteOutcome DEF IInv
<1>2. CASE Absorbed
  BY <1>0, <1>1, <1>2
  DEF IInv, Absorbed, ArmedBufferIsFree, NeverDeaf, RearmDiscipline,
      BootDiscipline, SpareDiscipline, ProcDiscipline, LengthDiscipline, Full, Other
<1>3. ASSUME Completed \/ Failed PROVE IInv'
  <2> USE <1>0, <1>1, <1>3 DEF Full, Other, TypeOK
  <2>1. /\ s_rx_buf # NULL /\ s_rx_buf' = NULL /\ s_state' = "NO_FRAME"
        /\ Full(s_rx_idx)' /\ ~Full(s_rx_idx)
        /\ frame_complete[Other]' = frame_complete[Other]
        /\ Full(Other)' = Full(Other)
    BY DEF IInv, Completed, Failed, ArmedBufferIsFree
  <2>2. ArmedBufferIsFree' /\ DecoderInBounds' /\ NeverDeaf'
    BY <2>1 DEF ArmedBufferIsFree, DecoderInBounds, NeverDeaf
  <2>3. RearmDiscipline' /\ BootDiscipline'
    BY <2>1 DEF IInv, RearmDiscipline, BootDiscipline, SelectLabels, SwitchLabels
  <2>4. SpareDiscipline' /\ ProcDiscipline'
    BY <2>1 DEF IInv, SpareDiscipline, ProcDiscipline
  <2>5. LengthDiscipline'
    BY <2>1 DEF IInv, LengthDiscipline, Completed, Failed
  <2> QED BY <2>2, <2>3, <2>4, <2>5 DEF IInv
<1> QED BY <1>2, <1>3, ByteOutcome DEF IInv

\* Every step of the main loop keeps the inductive invariant.
LEMMA MainInv ==
  ASSUME IInv, Main
  PROVE  IInv'
<1> USE DEF Full, Other, isrVars, bufVars, flagVars, idxVars, Goto
<1>0. TypeOK /\ TypeOK'
  BY MainTypes DEF IInv
<1>1. ASSUME TestOtherError PROVE IInv'
  <2> USE <1>0, <1>1 DEF TestOtherError, TestFlag, TypeOK
  <2>1. ArmedBufferIsFree' /\ DecoderInBounds' /\ NeverDeaf' /\ LengthDiscipline'
    BY DEF IInv, ArmedBufferIsFree, DecoderInBounds, NeverDeaf, LengthDiscipline,
       RearmDiscipline, SpareDiscipline, SelectLabels, SwitchLabels,
       WorkLabels, ReleaseLabels
  <2>2. RearmDiscipline' /\ BootDiscipline'
    BY DEF IInv, RearmDiscipline, BootDiscipline, ArmedBufferIsFree,
       SpareDiscipline, SelectLabels, SwitchLabels, WorkLabels, ReleaseLabels
  <2>3. SpareDiscipline' /\ ProcDiscipline'
    BY DEF IInv, SpareDiscipline, ProcDiscipline, RearmDiscipline, BootDiscipline,
       StateLabels, SelectLabels, SwitchLabels, WorkLabels, ReleaseLabels
  <2> QED BY <2>1, <2>2, <2>3 DEF IInv
<1>2. ASSUME TestRxError PROVE IInv'
  <2> USE <1>0, <1>2 DEF TestRxError, TestFlag, TypeOK
  <2>1. ArmedBufferIsFree' /\ DecoderInBounds' /\ NeverDeaf' /\ LengthDiscipline'
    BY DEF IInv, ArmedBufferIsFree, DecoderInBounds, NeverDeaf, LengthDiscipline,
       RearmDiscipline, SpareDiscipline, SelectLabels, SwitchLabels,
       WorkLabels, ReleaseLabels
  <2>2. RearmDiscipline' /\ BootDiscipline'
    BY DEF IInv, RearmDiscipline, BootDiscipline, ArmedBufferIsFree,
       SpareDiscipline, SelectLabels, SwitchLabels, WorkLabels, ReleaseLabels
  <2>3. SpareDiscipline' /\ ProcDiscipline'
    BY DEF IInv, SpareDiscipline, ProcDiscipline, RearmDiscipline, BootDiscipline,
       StateLabels, SelectLabels, SwitchLabels, WorkLabels, ReleaseLabels
  <2> QED BY <2>1, <2>2, <2>3 DEF IInv
<1>3. ASSUME TestOtherComplete PROVE IInv'
  <2> USE <1>0, <1>3 DEF TestOtherComplete, TestFlag, TypeOK
  <2>1. ArmedBufferIsFree' /\ DecoderInBounds' /\ NeverDeaf' /\ LengthDiscipline'
    BY DEF IInv, ArmedBufferIsFree, DecoderInBounds, NeverDeaf, LengthDiscipline,
       RearmDiscipline, SpareDiscipline, SelectLabels, SwitchLabels,
       WorkLabels, ReleaseLabels
  <2>2. RearmDiscipline' /\ BootDiscipline'
    BY DEF IInv, RearmDiscipline, BootDiscipline, ArmedBufferIsFree,
       SpareDiscipline, SelectLabels, SwitchLabels, WorkLabels, ReleaseLabels
  <2>3. SpareDiscipline' /\ ProcDiscipline'
    BY DEF IInv, SpareDiscipline, ProcDiscipline, RearmDiscipline, BootDiscipline,
       StateLabels, SelectLabels, SwitchLabels, WorkLabels, ReleaseLabels
  <2> QED BY <2>1, <2>2, <2>3 DEF IInv
<1>4. ASSUME TestRxComplete PROVE IInv'
  <2> USE <1>0, <1>4 DEF TestRxComplete, TestFlag, TypeOK
  <2>1. ArmedBufferIsFree' /\ DecoderInBounds' /\ NeverDeaf' /\ LengthDiscipline'
    BY DEF IInv, ArmedBufferIsFree, DecoderInBounds, NeverDeaf, LengthDiscipline,
       RearmDiscipline, SpareDiscipline, SelectLabels, SwitchLabels,
       WorkLabels, ReleaseLabels
  <2>2. RearmDiscipline' /\ BootDiscipline'
    BY DEF IInv, RearmDiscipline, BootDiscipline, ArmedBufferIsFree,
       SpareDiscipline, SelectLabels, SwitchLabels, WorkLabels, ReleaseLabels
  <2>3. SpareDiscipline' /\ ProcDiscipline'
    BY DEF IInv, SpareDiscipline, ProcDiscipline, RearmDiscipline, BootDiscipline,
       StateLabels, SelectLabels, SwitchLabels, WorkLabels, ReleaseLabels
  <2> QED BY <2>1, <2>2, <2>3 DEF IInv
<1>5. ASSUME AcquireRxComplete PROVE IInv'
  <2> USE <1>0, <1>5 DEF AcquireRxComplete, AcquireTest, TypeOK
  <2>1. ArmedBufferIsFree' /\ DecoderInBounds' /\ NeverDeaf' /\ LengthDiscipline'
    BY DEF IInv, ArmedBufferIsFree, DecoderInBounds, NeverDeaf, LengthDiscipline,
       RearmDiscipline, SpareDiscipline, SelectLabels, SwitchLabels,
       WorkLabels, ReleaseLabels
  <2>2. RearmDiscipline' /\ BootDiscipline'
    BY DEF IInv, RearmDiscipline, BootDiscipline, ArmedBufferIsFree,
       SpareDiscipline, SelectLabels, SwitchLabels, WorkLabels, ReleaseLabels
  <2>3. SpareDiscipline' /\ ProcDiscipline'
    BY DEF IInv, SpareDiscipline, ProcDiscipline, RearmDiscipline, BootDiscipline,
       StateLabels, SelectLabels, SwitchLabels, WorkLabels, ReleaseLabels
  <2> QED BY <2>1, <2>2, <2>3 DEF IInv
<1>6. ASSUME AcquireRxError PROVE IInv'
  <2> USE <1>0, <1>6 DEF AcquireRxError, AcquireTest, TypeOK
  <2>1. ArmedBufferIsFree' /\ DecoderInBounds' /\ NeverDeaf' /\ LengthDiscipline'
    BY DEF IInv, ArmedBufferIsFree, DecoderInBounds, NeverDeaf, LengthDiscipline,
       RearmDiscipline, SpareDiscipline, SelectLabels, SwitchLabels,
       WorkLabels, ReleaseLabels
  <2>2. RearmDiscipline' /\ BootDiscipline'
    BY DEF IInv, RearmDiscipline, BootDiscipline, ArmedBufferIsFree,
       SpareDiscipline, SelectLabels, SwitchLabels, WorkLabels, ReleaseLabels
  <2>3. SpareDiscipline' /\ ProcDiscipline'
    BY DEF IInv, SpareDiscipline, ProcDiscipline, RearmDiscipline, BootDiscipline,
       StateLabels, SelectLabels, SwitchLabels, WorkLabels, ReleaseLabels
  <2> QED BY <2>1, <2>2, <2>3 DEF IInv
<1>7. ASSUME AcquireOther PROVE IInv'
  <2> USE <1>0, <1>7 DEF AcquireOther, TypeOK
  <2>1. caller # "boot" /\ s_proc_idx = s_rx_idx /\ Full(s_rx_idx) /\ s_rx_buf = NULL
    BY DEF IInv, RearmDiscipline, BootDiscipline, SelectLabels, SwitchLabels
  <2>2. ~Full(Other)
    BY DEF IInv, SpareDiscipline, SwitchLabels, WorkLabels, ReleaseLabels
  <2>3. /\ s_rx_idx' = Other /\ Other' = s_rx_idx /\ pc' = "acq_length"
        /\ ~Full(s_rx_idx)'
    BY <2>2
  <2>4. ArmedBufferIsFree' /\ DecoderInBounds' /\ NeverDeaf' /\ LengthDiscipline'
    BY <2>1, <2>3 DEF IInv, ArmedBufferIsFree, DecoderInBounds, NeverDeaf, LengthDiscipline
  <2>5. RearmDiscipline' /\ BootDiscipline'
    BY <2>1, <2>3 DEF RearmDiscipline, BootDiscipline, SelectLabels, SwitchLabels
  <2>6. SpareDiscipline' /\ ProcDiscipline'
    BY <2>1, <2>3 DEF SpareDiscipline, ProcDiscipline, StateLabels, SwitchLabels
  <2> QED BY <2>4, <2>5, <2>6 DEF IInv
<1>8. ASSUME AcquireLength PROVE IInv'
  <2> USE <1>0, <1>8 DEF AcquireLength, TypeOK
  <2>1. ArmedBufferIsFree' /\ DecoderInBounds' /\ NeverDeaf' /\ LengthDiscipline'
    BY DEF IInv, ArmedBufferIsFree, DecoderInBounds, NeverDeaf, LengthDiscipline,
       RearmDiscipline, SpareDiscipline, SelectLabels, SwitchLabels,
       WorkLabels, ReleaseLabels
  <2>2. RearmDiscipline' /\ BootDiscipline'
    BY DEF IInv, RearmDiscipline, BootDiscipline, ArmedBufferIsFree,
       SpareDiscipline, SelectLabels, SwitchLabels, WorkLabels, ReleaseLabels
  <2>3. SpareDiscipline' /\ ProcDiscipline'
    BY DEF IInv, SpareDiscipline, ProcDiscipline, RearmDiscipline, BootDiscipline,
       StateLabels, SelectLabels, SwitchLabels, WorkLabels, ReleaseLabels
  <2> QED BY <2>1, <2>2, <2>3 DEF IInv
<1>9. ASSUME ArmBuf PROVE IInv'
  <2> USE <1>0, <1>9 DEF ArmBuf, TypeOK
  <2>1. ArmedBufferIsFree' /\ DecoderInBounds' /\ NeverDeaf' /\ LengthDiscipline'
    BY DEF IInv, ArmedBufferIsFree, DecoderInBounds, NeverDeaf, LengthDiscipline,
       RearmDiscipline, SpareDiscipline, SelectLabels, SwitchLabels,
       WorkLabels, ReleaseLabels
  <2>2. RearmDiscipline' /\ BootDiscipline'
    BY DEF IInv, RearmDiscipline, BootDiscipline, ArmedBufferIsFree,
       SpareDiscipline, SelectLabels, SwitchLabels, WorkLabels, ReleaseLabels
  <2>3. SpareDiscipline' /\ ProcDiscipline'
    BY DEF IInv, SpareDiscipline, ProcDiscipline, RearmDiscipline, BootDiscipline,
       StateLabels, SelectLabels, SwitchLabels, WorkLabels, ReleaseLabels
  <2> QED BY <2>1, <2>2, <2>3 DEF IInv
<1>10. ASSUME ArmCap PROVE IInv'
  <2> USE <1>0, <1>10 DEF ArmCap, TypeOK
  <2>1. ArmedBufferIsFree' /\ DecoderInBounds' /\ NeverDeaf' /\ LengthDiscipline'
    BY DEF IInv, ArmedBufferIsFree, DecoderInBounds, NeverDeaf, LengthDiscipline,
       RearmDiscipline, SpareDiscipline, SelectLabels, SwitchLabels,
       WorkLabels, ReleaseLabels
  <2>2. RearmDiscipline' /\ BootDiscipline'
    BY DEF IInv, RearmDiscipline, BootDiscipline, ArmedBufferIsFree,
       SpareDiscipline, SelectLabels, SwitchLabels, WorkLabels, ReleaseLabels
  <2>3. SpareDiscipline' /\ ProcDiscipline'
    BY DEF IInv, SpareDiscipline, ProcDiscipline, RearmDiscipline, BootDiscipline,
       StateLabels, SelectLabels, SwitchLabels, WorkLabels, ReleaseLabels
  <2> QED BY <2>1, <2>2, <2>3 DEF IInv
<1>11. ASSUME ReleaseLength PROVE IInv'
  <2> USE <1>0, <1>11 DEF ReleaseLength, TypeOK
  <2>1. s_proc_idx = Other /\ s_proc_idx # s_rx_idx /\ caller # "boot"
    BY DEF IInv, BootDiscipline, ProcDiscipline, SwitchLabels, ReleaseLabels
  <2>2. /\ frame_length'[s_rx_idx] = frame_length[s_rx_idx]
        /\ frame_complete'[s_rx_idx] = frame_complete[s_rx_idx]
        /\ frame_error'[s_rx_idx] = frame_error[s_rx_idx]
    BY <2>1
  <2>3. ArmedBufferIsFree' /\ DecoderInBounds' /\ NeverDeaf' /\ LengthDiscipline'
    BY <2>2 DEF IInv, ArmedBufferIsFree, DecoderInBounds, NeverDeaf, LengthDiscipline
  <2>4. RearmDiscipline' /\ BootDiscipline'
    BY <2>1 DEF RearmDiscipline, BootDiscipline, SelectLabels, SwitchLabels
  <2>5. SpareDiscipline' /\ ProcDiscipline'
    BY <2>1 DEF IInv, SpareDiscipline, ProcDiscipline, StateLabels, SwitchLabels,
       WorkLabels, ReleaseLabels
  <2> QED BY <2>3, <2>4, <2>5 DEF IInv
<1>12. ASSUME ReleaseComplete PROVE IInv'
  <2> USE <1>0, <1>12 DEF ReleaseComplete, TypeOK
  <2>1. s_proc_idx = Other /\ s_proc_idx # s_rx_idx /\ caller # "boot"
    BY DEF IInv, BootDiscipline, ProcDiscipline, SwitchLabels, ReleaseLabels
  <2>2. /\ frame_length'[s_rx_idx] = frame_length[s_rx_idx]
        /\ frame_complete'[s_rx_idx] = frame_complete[s_rx_idx]
        /\ frame_error'[s_rx_idx] = frame_error[s_rx_idx]
    BY <2>1
  <2>3. ArmedBufferIsFree' /\ DecoderInBounds' /\ NeverDeaf' /\ LengthDiscipline'
    BY <2>2 DEF IInv, ArmedBufferIsFree, DecoderInBounds, NeverDeaf, LengthDiscipline
  <2>4. RearmDiscipline' /\ BootDiscipline'
    BY <2>1 DEF RearmDiscipline, BootDiscipline, SelectLabels, SwitchLabels
  <2>5. SpareDiscipline' /\ ProcDiscipline'
    BY <2>1 DEF IInv, SpareDiscipline, ProcDiscipline, StateLabels, SwitchLabels,
       WorkLabels, ReleaseLabels
  <2> QED BY <2>3, <2>4, <2>5 DEF IInv
<1>13. ASSUME ReleaseError PROVE IInv'
  <2> USE <1>0, <1>13 DEF ReleaseError, TypeOK
  <2>1. s_proc_idx = Other /\ s_proc_idx # s_rx_idx /\ caller # "boot"
    BY DEF IInv, BootDiscipline, ProcDiscipline, SwitchLabels, ReleaseLabels
  <2>2. /\ frame_length'[s_rx_idx] = frame_length[s_rx_idx]
        /\ frame_complete'[s_rx_idx] = frame_complete[s_rx_idx]
        /\ frame_error'[s_rx_idx] = frame_error[s_rx_idx]
    BY <2>1
  <2>3. ArmedBufferIsFree' /\ DecoderInBounds' /\ NeverDeaf' /\ LengthDiscipline'
    BY <2>2 DEF IInv, ArmedBufferIsFree, DecoderInBounds, NeverDeaf, LengthDiscipline
  <2>4. RearmDiscipline' /\ BootDiscipline'
    BY <2>1 DEF RearmDiscipline, BootDiscipline, SelectLabels, SwitchLabels
  <2>5. SpareDiscipline' /\ ProcDiscipline'
    BY <2>1 DEF IInv, SpareDiscipline, ProcDiscipline, StateLabels, SwitchLabels,
       WorkLabels, ReleaseLabels
  <2> QED BY <2>3, <2>4, <2>5 DEF IInv
<1>14. ASSUME Loops PROVE IInv'
  <2>1. /\ UNCHANGED <<isrVars, bufVars, idxVars, state, acquired>>
        /\ \/ pc = "ohai" /\ pc' = "state_other_error" /\ caller' = "main"
           \/ pc \in {"handle", "post", "read", "ack", "stream"} /\ caller' \in {"main", "stream"}
              /\ pc' \in {"post", "read", "rel_length"}
           \/ pc = "stream" /\ pc' = "state_other_error" /\ caller' = "stream"
    BY <1>14 DEF Loops, SendOhai, HandleCommand, FinishCommand, HandleRead,
       ReadRefused, StreamStart, StreamPoll, StreamEnd, StreamAck, StreamBreak, MainStep
  <2>2. ArmedBufferIsFree' /\ DecoderInBounds' /\ NeverDeaf' /\ LengthDiscipline'
    BY <2>1 DEF IInv, ArmedBufferIsFree, DecoderInBounds, NeverDeaf, LengthDiscipline
  <2>3. RearmDiscipline' /\ BootDiscipline'
    BY <2>1 DEF RearmDiscipline, BootDiscipline, SelectLabels, SwitchLabels
  <2>4. SpareDiscipline' /\ ProcDiscipline'
    BY <2>1 DEF IInv, SpareDiscipline, ProcDiscipline, BootDiscipline, StateLabels,
       SwitchLabels, WorkLabels, ReleaseLabels
  <2> QED BY <1>0, <2>2, <2>3, <2>4 DEF IInv
<1> QED
  BY <1>1, <1>2, <1>3, <1>4, <1>5, <1>6, <1>7, <1>8, <1>9, <1>10, <1>11, <1>12,
     <1>13, <1>14 DEF Main, GetState, Rearm, Reset

\* Every step keeps the inductive invariant.
LEMMA InvStep == IInv /\ [Next]_vars => IInv'
<1> SUFFICES ASSUME IInv, [Next]_vars PROVE IInv'
  OBVIOUS
<1>1. CASE \E b \in Byte : SlipRecvByte(b)
  BY <1>1, ByteInv
<1>2. CASE Main
  BY <1>2, MainInv
<1>3. CASE UNCHANGED vars
  BY <1>3 DEF vars, isrVars, bufVars, flagVars, idxVars, mainVars, IInv, TypeOK,
     ArmedBufferIsFree, DecoderInBounds, NeverDeaf, RearmDiscipline, BootDiscipline,
     SpareDiscipline, ProcDiscipline, LengthDiscipline, Full, Other
<1> QED BY <1>1, <1>2, <1>3 DEF Next

\* The inductive invariant holds in every reachable state.
LEMMA Invariance == Spec => []IInv
BY InitInv, InvStep, PTL DEF Spec

-----------------------------------------------------------------------------
(* The invariants.                                                             *)

\* Every variable of the receive path keeps its type: the decoder (slip.c), the
\* buffers (frame_buffer.c) and the loops over them.
THEOREM TypeCorrect == Spec => []TypeOK
BY Invariance, PTL DEF IInv

\* slip.c and frame_buffer.c agree on the buffer that is being filled, and
\* nobody else is using it.
THEOREM ArmedBufferSafe == Spec => []ArmedBufferIsFree
BY Invariance, PTL DEF IInv

\* rx_put() never writes through NULL or past the end of its buffer.
THEOREM DecoderSafe == Spec => []DecoderInBounds
BY Invariance, PTL DEF IInv

\* frame_buffer_reset() never touches the buffer being filled, the redundant
\* release after a flash read included.
THEOREM ReleaseSafe == Spec => []ReleaseSparesRx
<1>1. IInv => ReleaseSparesRx
  BY DEF IInv, TypeOK, BootDiscipline, ProcDiscipline, ReleaseSparesRx, ReleaseLabels,
     SwitchLabels, Other
<1> QED BY <1>1, Invariance, PTL

\* frame_buffer_acquire() never returns NULL to slip_do_rearm().
THEOREM AcquireNeverFails == Spec => []AcquireSucceeds
<1>1. IInv => AcquireSucceeds
  BY DEF IInv, SpareDiscipline, AcquireSucceeds, SwitchLabels, WorkLabels, ReleaseLabels
<1> QED BY <1>1, Invariance, PTL

\* Outside slip_do_rearm() the decoder is armed, or a frame waits for the poll.
THEOREM LinkNeverDeaf == Spec => []NeverDeaf
BY Invariance, PTL DEF IInv

-----------------------------------------------------------------------------
(* Refinement: every step is a Receive, a Take, a Release or a stutter of      *)
(* FrameChannel.                                                               *)

\* A buffer whose length, flags and contents are left alone shows the same frame.
LEMMA SameFrame ==
  ASSUME NEW i \in Idx,
         frame_error'[i] = frame_error[i], frame_length'[i] = frame_length[i],
         buffer'[i] = buffer[i]
  PROVE  FrameIn(i)' = FrameIn(i)
BY DEF FrameIn

\* What waits in the buffer being received into is a frame or the error mark.
LEMMA ReceivedIsFrame ==
  TypeOK /\ LengthDiscipline /\ Full(s_rx_idx) => FrameIn(s_rx_idx) \in Frame
<1> SUFFICES ASSUME TypeOK, LengthDiscipline, Full(s_rx_idx)
             PROVE  FrameIn(s_rx_idx) \in Frame
  OBVIOUS
<1>1. CASE frame_error[s_rx_idx]
  BY <1>1 DEF FrameIn, Frame
<1>2. CASE ~frame_error[s_rx_idx]
  <2> DEFINE n == frame_length[s_rx_idx]
  <2>1. n \in 1..FRAME_BUFFER_SIZE
    BY <1>2 DEF TypeOK, LengthDiscipline, Full
  <2>2. [j \in 1..n |-> buffer[s_rx_idx][j]] \in [1..n -> Byte]
    BY <2>1 DEF TypeOK
  <2>3. [j \in 1..n |-> buffer[s_rx_idx][j]] \in Payload
    BY <2>1, <2>2 DEF Payload
  <2> QED BY <1>2, <2>3 DEF FrameIn, Frame
<1> QED BY <1>1, <1>2

\* A byte puts a frame in the channel, or leaves the channel as it is.
LEMMA ByteRefines ==
  ASSUME IInv, IInv', NEW b \in Byte, SlipRecvByte(b)
  PROVE  Channel!Next \/ UNCHANGED Channel!vars
<1>0. /\ TypeOK /\ TypeOK' /\ ArmedBufferIsFree
      /\ UNCHANGED <<s_rx_idx, s_proc_idx, pc, caller, state, acquired>>
  BY ByteOutcome DEF IInv
<1>1. CASE Absorbed
  <2>1. \A i \in Idx : Full(i)' = Full(i)
    BY <1>1 DEF Absorbed, Full
  <2>2. \A i \in Idx : Full(i) => FrameIn(i)' = FrameIn(i)
    BY <1>0, <1>1, SameFrame DEF Absorbed, ArmedBufferIsFree, TypeOK
  <2>3. (Holding' <=> Holding)
    BY <1>0, <2>1 DEF Holding, TypeOK
  <2>4. Held' = Held
    BY <1>0, <2>2, <2>3 DEF Held, Holding, TypeOK
  <2>5. Pending' = Pending
    BY <1>0, <2>1, <2>2, <2>3 DEF Pending, TypeOK
  <2> QED BY <2>4, <2>5 DEF Channel!vars
<1>2. ASSUME Completed \/ Failed PROVE Channel!Receive
  <2>1. /\ s_rx_buf # NULL /\ ~Full(s_rx_idx) /\ Full(s_rx_idx)'
        /\ UNCHANGED <<s_rx_idx, s_proc_idx, pc, caller>>
    BY <1>0, <1>2 DEF Completed, Failed, ArmedBufferIsFree, Full, TypeOK
  <2>2. pc \in HoldingLabels /\ caller # "boot" => s_proc_idx # s_rx_idx
    BY <1>0, <2>1 DEF IInv, RearmDiscipline, ProcDiscipline, HoldingLabels, SelectLabels,
       SwitchLabels, WorkLabels, ReleaseLabels, Other, TypeOK
  <2>3. \A i \in Idx : i # s_rx_idx => Full(i)' = Full(i) /\ FrameIn(i)' = FrameIn(i)
    BY <1>0, <1>2, SameFrame DEF Completed, Failed, Full, TypeOK
  <2>4. (Holding' <=> Holding)
    BY <1>0, <2>1, <2>2, <2>3 DEF Holding, TypeOK
  <2>5. Held' = Held
    BY <1>0, <2>1, <2>2, <2>3, <2>4 DEF Held, Holding, TypeOK
  <2>6. Pending = NONE
    BY <2>1 DEF Pending
  <2>7. Pending' = FrameIn(s_rx_idx)'
    BY <2>1, <2>2, <2>4 DEF Pending, Holding
  <2>8. Pending' \in Frame
    <3>1. (TypeOK /\ LengthDiscipline /\ Full(s_rx_idx)
             => FrameIn(s_rx_idx) \in Frame)'
      BY ReceivedIsFrame, PTL
    <3> QED BY <1>0, <2>1, <2>7, <3>1 DEF IInv
  <2> QED BY <2>5, <2>6, <2>8 DEF Channel!Receive
<1> QED BY <1>0, <1>1, <1>2, ByteOutcome DEF IInv, Channel!Next

\* Main steps that leave the frames in place and do not enter or leave HoldingLabels.
LEMMA SteadyStep ==
  ASSUME IInv, IInv', UNCHANGED <<bufVars, s_proc_idx>>, (Holding' <=> Holding),
         s_rx_idx' = s_rx_idx \/ (~Full(s_rx_idx)' /\ Holding /\ s_proc_idx = s_rx_idx)
  PROVE  UNCHANGED Channel!vars
<1>1. \A i \in Idx : Full(i)' = Full(i) /\ FrameIn(i)' = FrameIn(i)
  BY SameFrame DEF bufVars, flagVars, Full
<1>2. Held' = Held
  BY <1>1 DEF Held, IInv, TypeOK
<1>3. Pending' = Pending
  BY <1>1 DEF Pending, IInv, TypeOK
<1> QED BY <1>2, <1>3 DEF Channel!vars

\* Selecting the buffer received into takes the frame in it.
LEMMA SelectTakes ==
  ASSUME IInv, pc \in StateLabels, UNCHANGED <<bufVars, s_rx_idx, caller>>,
         Full(s_rx_idx), s_proc_idx' = s_rx_idx, pc' = "acq_rx_complete"
  PROVE  Channel!Take
<1>1. caller # "boot"
  BY DEF IInv, BootDiscipline, StateLabels, SwitchLabels
<1>2. /\ ~Holding
      /\ Full(s_rx_idx)' = Full(s_rx_idx) /\ FrameIn(s_rx_idx)' = FrameIn(s_rx_idx)
  BY DEF Holding, HoldingLabels, StateLabels, Full, FrameIn, bufVars, flagVars
<1>3. Holding'
  BY <1>1, <1>2 DEF Holding, HoldingLabels, Full, bufVars, flagVars
<1>4. Held = NONE /\ Pending = FrameIn(s_rx_idx) /\ Pending # NONE
  BY <1>2, ReceivedIsFrame, NoneAssumption DEF Held, Pending, IInv
<1>5. Held' = FrameIn(s_rx_idx) /\ Pending' = NONE
  BY <1>2, <1>3 DEF Held, Pending, FrameIn, bufVars, flagVars
<1> QED BY <1>4, <1>5 DEF Channel!Take

\* A step of the main loop takes a frame from the channel, or leaves it as it is.
LEMMA MainRefines ==
  ASSUME IInv, IInv', Main
  PROVE  Channel!Next \/ UNCHANGED Channel!vars
<1> USE DEF StateLabels, SelectLabels, SwitchLabels, WorkLabels, ReleaseLabels
<1>0. /\ TypeOK /\ TypeOK' /\ RearmDiscipline /\ BootDiscipline
      /\ SpareDiscipline /\ ProcDiscipline
  BY DEF IInv
<1>1. ASSUME TestOtherError \/ TestOtherComplete PROVE UNCHANGED Channel!vars
  <2>1. ~Full(Other)
    BY <1>0, <1>1 DEF SpareDiscipline, TestOtherError, TestOtherComplete, TestFlag
  <2>2. /\ pc \in StateLabels /\ pc' \in StateLabels
        /\ UNCHANGED <<bufVars, s_rx_idx, s_proc_idx, caller>>
    BY <1>1, <2>1 DEF TestOtherError, TestOtherComplete, TestFlag, Full
  <2>3. ~Holding /\ ~Holding'
    BY <2>2 DEF Holding, HoldingLabels
  <2> QED BY <2>2, <2>3, SteadyStep
<1>2. ASSUME TestRxError \/ TestRxComplete PROVE Channel!Take \/ UNCHANGED Channel!vars
  <2>1. pc \in StateLabels /\ UNCHANGED <<bufVars, s_rx_idx, caller>>
    BY <1>2 DEF TestRxError, TestRxComplete, TestFlag
  <2>2. CASE Full(s_rx_idx) /\ s_proc_idx' = s_rx_idx /\ pc' = "acq_rx_complete"
    BY <2>1, <2>2, SelectTakes
  <2>3. CASE pc' \in StateLabels \cup {"stream"} /\ UNCHANGED s_proc_idx
    <3>1. ~Holding /\ ~Holding'
      BY <2>1, <2>3 DEF Holding, HoldingLabels
    <3> QED BY <2>1, <2>3, <3>1, SteadyStep
  <2> QED BY <1>2, <2>2, <2>3 DEF TestRxError, TestRxComplete, TestFlag, Full
<1>3. ASSUME AcquireRxComplete \/ AcquireRxError \/ ArmBuf
      PROVE  UNCHANGED Channel!vars
  <2>1. /\ pc \in HoldingLabels /\ pc' \in HoldingLabels
        /\ UNCHANGED <<bufVars, s_rx_idx, s_proc_idx, caller>>
    BY <1>3 DEF AcquireRxComplete, AcquireRxError, AcquireTest, ArmBuf, Goto,
       HoldingLabels, idxVars
  <2>2. (Holding' <=> Holding)
    BY <2>1 DEF Holding, Full, bufVars, flagVars
  <2> QED BY <2>1, <2>2, SteadyStep
<1>4. ASSUME AcquireOther PROVE UNCHANGED Channel!vars
  <2>1. /\ s_proc_idx = s_rx_idx /\ Full(s_rx_idx) /\ ~Full(Other) /\ caller # "boot"
    BY <1>0, <1>4 DEF AcquireOther, RearmDiscipline, BootDiscipline, SpareDiscipline
  <2>2. /\ pc = "acq_other" /\ pc' = "acq_length" /\ s_rx_idx' = Other
        /\ UNCHANGED <<bufVars, s_proc_idx, caller>>
    BY <1>4, <2>1 DEF AcquireOther, Full
  <2>3. Holding /\ Holding' /\ ~Full(s_rx_idx)'
    BY <2>1, <2>2 DEF Holding, HoldingLabels, Full, bufVars, flagVars
  <2> QED BY <2>1, <2>2, <2>3, SteadyStep
<1>5. ASSUME AcquireLength PROVE UNCHANGED Channel!vars
  <2>1. /\ ~Full(s_rx_idx)
        /\ caller # "boot" => s_proc_idx # s_rx_idx
        /\ UNCHANGED <<s_rx_idx, s_proc_idx, caller>>
    BY <1>0, <1>5 DEF AcquireLength, RearmDiscipline, ProcDiscipline, Other, idxVars, TypeOK
  <2>2. \A i \in Idx : Full(i)' = Full(i)
    BY <1>5 DEF AcquireLength, Full, flagVars
  <2>3. \A i \in Idx : i # s_rx_idx => FrameIn(i)' = FrameIn(i)
    BY <1>0, <1>5, SameFrame DEF AcquireLength, flagVars, TypeOK
  <2>4. /\ pc \in HoldingLabels /\ pc' \in HoldingLabels
        /\ s_proc_idx \in Idx /\ s_rx_idx \in Idx
    BY <1>0, <1>5 DEF AcquireLength, HoldingLabels, TypeOK
  <2>5. (Holding' <=> Holding) /\ (Holding => s_proc_idx # s_rx_idx)
    BY <2>1, <2>2, <2>4 DEF Holding
  <2>6. Held' = Held /\ Pending' = Pending
    BY <2>1, <2>2, <2>3, <2>4, <2>5 DEF Held, Pending
  <2> QED BY <2>6 DEF Channel!vars
<1>6. ASSUME ArmCap \/ Loops PROVE UNCHANGED Channel!vars
  <2>1. UNCHANGED <<bufVars, s_rx_idx, s_proc_idx>>
    BY <1>6 DEF ArmCap, Loops, SendOhai, HandleCommand, FinishCommand, HandleRead,
       ReadRefused, StreamStart, StreamPoll, StreamEnd, StreamAck, StreamBreak,
       MainStep, idxVars
  <2>2. \A i \in Idx : Full(i)' = Full(i)
    BY <2>1 DEF Full, bufVars, flagVars
  <2>3. (Holding' <=> Holding)
    <3>1. ASSUME ArmCap PROVE (Holding' <=> Holding)
      BY <1>0, <2>1, <2>2, <3>1 DEF ArmCap, Goto, Holding, HoldingLabels, TypeOK
    <3>2. ASSUME Loops PROVE (Holding' <=> Holding)
      <4>1. CASE pc = "ohai" \/ pc = "stream"
        <5>1. ~Full(s_proc_idx) \/ pc = "ohai"
          BY <1>0, <4>1 DEF SpareDiscipline, ProcDiscipline, BootDiscipline
        <5> QED BY <1>0, <2>1, <2>2, <3>2, <4>1, <5>1 DEF Loops, SendOhai, HandleCommand,
              FinishCommand, HandleRead, ReadRefused, StreamStart, StreamPoll, StreamEnd,
              StreamAck, StreamBreak, MainStep, Holding, HoldingLabels, TypeOK
      <4>2. CASE pc # "ohai" /\ pc # "stream"
        <5>1. /\ pc \in WorkLabels /\ pc' \in WorkLabels \cup {"rel_length"}
              /\ caller' # "boot"
          BY <3>2, <4>2 DEF Loops, SendOhai, HandleCommand, FinishCommand, HandleRead,
             ReadRefused, StreamStart, StreamPoll, StreamEnd, StreamAck, StreamBreak, MainStep
        <5> QED BY <1>0, <2>1, <2>2, <5>1 DEF BootDiscipline, Holding, HoldingLabels, TypeOK
      <4> QED BY <4>1, <4>2
    <3> QED BY <1>6, <3>1, <3>2
  <2> QED BY <2>1, <2>3, SteadyStep
<1>7. ASSUME ReleaseLength PROVE Channel!Release \/ UNCHANGED Channel!vars
  <2>1. /\ s_proc_idx = Other /\ s_proc_idx # s_rx_idx
        /\ UNCHANGED <<s_rx_idx, s_proc_idx, caller>> /\ ~Holding'
    BY <1>0, <1>7 DEF ReleaseLength, BootDiscipline, ProcDiscipline, Other, Goto, idxVars,
       Holding, HoldingLabels, TypeOK
  <2>2. \A i \in Idx : Full(i)' = Full(i)
    BY <1>7 DEF ReleaseLength, Full, flagVars
  <2>3. FrameIn(s_rx_idx)' = FrameIn(s_rx_idx)
    BY <1>0, <1>7, <2>1 DEF ReleaseLength, FrameIn, flagVars, TypeOK
  <2>4. Pending' = Pending /\ Held' = NONE
    BY <1>0, <2>1, <2>2, <2>3 DEF Pending, Held, TypeOK
  <2> QED BY <2>4 DEF Channel!Release, Channel!vars
<1>8. ASSUME ReleaseComplete \/ ReleaseError PROVE UNCHANGED Channel!vars
  <2>1. /\ s_proc_idx = Other /\ s_proc_idx # s_rx_idx
        /\ UNCHANGED <<s_rx_idx, s_proc_idx>> /\ ~Holding /\ ~Holding'
    BY <1>0, <1>8 DEF ReleaseComplete, ReleaseError, BootDiscipline, ProcDiscipline, Other,
       Goto, idxVars, Holding, HoldingLabels, TypeOK
  <2>2. Full(s_rx_idx)' = Full(s_rx_idx) /\ FrameIn(s_rx_idx)' = FrameIn(s_rx_idx)
    BY <1>0, <1>8, <2>1 DEF ReleaseComplete, ReleaseError, Full, FrameIn, TypeOK
  <2>3. Pending' = Pending /\ Held' = Held
    BY <2>1, <2>2 DEF Pending, Held
  <2> QED BY <2>3 DEF Channel!vars
<1> QED
  BY <1>1, <1>2, <1>3, <1>4, <1>5, <1>6, <1>7, <1>8
  DEF Main, GetState, Rearm, Reset, Channel!Next

\* Frames are received whole, taken once each and in order, and are not altered
\* while the main program holds them: recv_poll() and recv_release() over the
\* interrupt's decoder behave as FrameChannel.
THEOREM ChannelRefinement == Spec => ImplementsChannel
<1>1. Init => Channel!Init
  BY DEF Init, Channel!Init, Held, Pending, Holding, Full
<1>2. IInv /\ IInv' /\ [Next]_vars => [Channel!Next]_(Channel!vars)
  <2> SUFFICES ASSUME IInv, IInv', [Next]_vars
               PROVE  Channel!Next \/ UNCHANGED Channel!vars
    OBVIOUS
  <2>1. CASE UNCHANGED vars
    BY <2>1 DEF vars, isrVars, bufVars, flagVars, idxVars, mainVars, Channel!vars,
       Held, Pending, Holding, Full, FrameIn
  <2> QED BY <2>1, ByteRefines, MainRefines DEF Next
<1> QED BY <1>1, <1>2, Invariance, PTL DEF Spec, ImplementsChannel, Channel!Spec

-----------------------------------------------------------------------------
(* Induction over data.  The library's induction theorems range over           *)
(* operators; the least element of a set of numbers does the same work.        *)

NatOrder == {p \in Nat \X Nat : p[1] < p[2]}

\* A set of natural numbers that is not empty has a least element.
LEMMA LeastElement ==
  ASSUME NEW T, T \subseteq Nat, T # {}
  PROVE  \E m \in T : \A k \in T : m =< k
<1>1. IsWellFoundedOn(NatOrder, Nat)
  <2>1. OpToRel(<, Nat) = NatOrder
    BY Zenon DEF OpToRel, NatOrder
  <2> QED BY <2>1, NatLessThanWellFounded, Zenon
<1>2. PICK m \in T : \A k \in T : <<k, m>> \notin NatOrder
  BY <1>1, WFMin
<1>3. ASSUME NEW k \in T PROVE m =< k
  <2>1. <<k, m>> \notin NatOrder /\ k \in Nat /\ m \in Nat
    BY <1>2
  <2> QED BY <2>1 DEF NatOrder
<1> QED BY <1>3

\* A set that holds 0, and with each number the next one, holds them all.
LEMMA SetInduction ==
  ASSUME NEW T, 0 \in T, \A n \in Nat : n \in T => n + 1 \in T
  PROVE  Nat \subseteq T
<1> DEFINE U == Nat \ T
<1> SUFFICES ASSUME U # {} PROVE FALSE
  OBVIOUS
<1>1. PICK m \in U : \A k \in U : m =< k
  BY LeastElement
<1>2. m # 0 /\ m \in Nat /\ m - 1 \in Nat
  OBVIOUS
<1>3. m - 1 \notin U
  BY <1>1, <1>2
<1> QED BY <1>2, <1>3

\* The first n sequences of s joined, for every n up to the bound.
Joined(s, g, n) == g = [i \in 1..n |-> IF i = 1 THEN s[i] ELSE g[i - 1] \o s[i]]

\* Such a function exists, so the recursive one inside FlattenSeq is one.
LEMMA JoinExists ==
  ASSUME NEW s, NEW n \in Nat
  PROVE  \E g : Joined(s, g, n)
<1> DEFINE T == {k \in Nat : \E g : Joined(s, g, k)}
<1>1. 0 \in T
  <2>1. Joined(s, [i \in 1..0 |-> 0], 0)
    BY DEF Joined
  <2> QED BY <2>1
<1>2. ASSUME NEW k \in Nat, k \in T PROVE k + 1 \in T
  <2>1. PICK g : Joined(s, g, k)
    BY <1>2
  <2> DEFINE h == [i \in 1..(k + 1) |-> IF i = 1 THEN s[i] ELSE g[i - 1] \o s[i]]
  <2>2. ASSUME NEW i \in 1..k PROVE h[i] = g[i]
    <3>1. g = [j \in 1..k |-> IF j = 1 THEN s[j] ELSE g[j - 1] \o s[j]]
      BY <2>1 DEF Joined
    <3>2. g[i] = IF i = 1 THEN s[i] ELSE g[i - 1] \o s[i]
      BY <3>1, Zenon
    <3>3. i \in 1..(k + 1)
      OBVIOUS
    <3>4. h[i] = IF i = 1 THEN s[i] ELSE g[i - 1] \o s[i]
      BY <3>3, Zenon
    <3> QED BY <3>2, <3>4
  <2>3. ASSUME NEW i \in 1..(k + 1), i # 1 PROVE h[i - 1] = g[i - 1]
    <3>1. i - 1 \in 1..k
      BY <2>3
    <3> QED BY <3>1, <2>2
  <2>4. Joined(s, h, k + 1)
    BY <2>3 DEF Joined
  <2> QED BY <2>4
<1>3. Nat \subseteq T
  BY <1>1, <1>2, SetInduction
<1> QED BY <1>3

\* What the library computes is such a sequence of partial results.
LEMMA FlattenIsJoined ==
  ASSUME NEW s, Len(s) \in Nat \ {0}
  PROVE  \E g : Joined(s, g, Len(s)) /\ FlattenSeq(s) = g[Len(s)]
<1>1. \E g : Joined(s, g, Len(s))
  BY JoinExists
<1> QED BY <1>1 DEF FlattenSeq, Joined

\* Joining sequences over S that are not empty gives one that is not.
LEMMA FlattenType ==
  ASSUME NEW S, NEW s, Len(s) \in Nat \ {0},
         \A i \in 1..Len(s) : s[i] \in Seq(S) /\ s[i] # <<>>
  PROVE  FlattenSeq(s) \in Seq(S) /\ FlattenSeq(s) # <<>>
<1>1. PICK g : Joined(s, g, Len(s)) /\ FlattenSeq(s) = g[Len(s)]
  BY FlattenIsJoined
<1> DEFINE T == {k \in Nat : k \in 1..Len(s) => g[k] \in Seq(S) /\ g[k] # <<>>}
<1>2. \A i \in 1..Len(s) : g[i] = IF i = 1 THEN s[i] ELSE g[i - 1] \o s[i]
  <2>1. g = [i \in 1..Len(s) |-> IF i = 1 THEN s[i] ELSE g[i - 1] \o s[i]]
    BY <1>1 DEF Joined
  <2> QED BY <2>1, Zenon
<1>3. 0 \in T
  OBVIOUS
<1>4. ASSUME NEW k \in Nat, k \in T PROVE k + 1 \in T
  <2> SUFFICES ASSUME k + 1 \in 1..Len(s) PROVE g[k + 1] \in Seq(S) /\ g[k + 1] # <<>>
    OBVIOUS
  <2>1. s[k + 1] \in Seq(S) /\ s[k + 1] # <<>>
    OBVIOUS
  <2>2. CASE k = 0
    BY <1>2, <2>1, <2>2
  <2>3. CASE k # 0
    <3>1. k \in 1..Len(s) /\ k + 1 # 1 /\ (k + 1) - 1 = k
      BY <2>3
    <3>2. g[k] \in Seq(S) /\ g[k] # <<>>
      BY <1>4, <3>1
    <3>3. g[k + 1] = g[k] \o s[k + 1]
      BY <1>2, <3>1
    <3> QED BY <2>1, <3>2, <3>3, ConcatProperties, ConcatEmptySeq, EmptySeq
  <2> QED BY <2>2, <2>3
<1>5. Nat \subseteq T
  BY <1>3, <1>4, SetInduction
<1>6. Len(s) \in T /\ Len(s) \in 1..Len(s)
  BY <1>5
<1> QED BY <1>1, <1>6

\* What a frame looks like on the line: END first, END last, and none between.
LEMMA EncodeShape ==
  ASSUME NEW p \in Payloads
  PROVE  /\ Encode(p) \in Seq(Byte) /\ Len(Encode(p)) >= 3
         /\ Encode(p)[1] = END /\ Encode(p)[Len(Encode(p))] = END
         /\ \A k \in 2..(Len(Encode(p)) - 1) : Encode(p)[k] # END
<1> DEFINE s == [i \in DOMAIN p |-> Escape(p[i])]
           body == FlattenSeq(s)
           Plain == Byte \ {END}
<1>1. p \in Seq(Byte) /\ p # <<>>
  BY PayloadAssumption
<1>2. Len(p) \in Nat \ {0} /\ DOMAIN p = 1..Len(p)
  BY <1>1
<1>3. DOMAIN s = 1..Len(p) /\ Len(s) = Len(p)
  BY <1>2
<1>4. ASSUME NEW b \in Byte PROVE Escape(b) \in Seq(Plain) /\ Escape(b) # <<>>
  <2>1. ESC \in Plain /\ ESC_END \in Plain /\ ESC_ESC \in Plain
    BY DEF Byte, Special
  <2>2. CASE b = END
    <3>1. Escape(b) = <<ESC, ESC_END>>
      BY <2>2 DEF Escape
    <3> QED BY <2>1, <3>1
  <2>3. CASE b = ESC
    <3>1. Escape(b) = <<ESC, ESC_ESC>>
      BY <2>3 DEF Escape
    <3> QED BY <2>1, <3>1
  <2>4. CASE b # END /\ b # ESC
    <3>1. Escape(b) = <<b>>
      BY <2>4 DEF Escape
    <3> QED BY <2>4, <3>1
  <2> QED BY <2>2, <2>3, <2>4
<1>5. \A i \in 1..Len(s) : s[i] \in Seq(Plain) /\ s[i] # <<>>
  BY <1>1, <1>2, <1>3, <1>4
<1> HIDE DEF s, Plain
<1>6. body \in Seq(Plain) /\ body # <<>>
  BY <1>2, <1>3, <1>5, FlattenType
<1> HIDE DEF body
<1>7. Encode(p) = <<END>> \o body \o <<END>>
  BY DEF Encode, body, s
<1>8. Len(body) \in Nat \ {0} /\ \A k \in 1..Len(body) : body[k] \in Byte /\ body[k] # END
  BY <1>6, EmptySeq DEF Plain
<1>9. body \in Seq(Byte) /\ END \in Byte
  BY <1>6, <1>8 DEF Plain, Byte, Special
<1> QED BY <1>7, <1>8, <1>9

-----------------------------------------------------------------------------
(* SlipLink: whose turn it is, when no byte is lost or garbled and the host    *)
(* waits for its answers.                                                      *)

\* A byte that is not END: stored, or the start of an escape, or fatal.
LEMMA DataByteOutcome ==
  ASSUME IInv, NEW b \in Byte, b # END, SlipRecvByte(b)
  PROVE  /\ UNCHANGED frame_complete
         /\ s_state = "NO_FRAME" => UNCHANGED <<s_state, s_rx_buf, s_rx_len, frame_error>>
         /\ s_state # "NO_FRAME" =>
              \/ Failed
              \/ /\ s_state' # "NO_FRAME" /\ (s_rx_len' > 0 \/ s_state' = "ESCAPING")
                 /\ UNCHANGED <<s_rx_buf, frame_error>>
<1>0. TypeOK /\ DecoderInBounds
  BY DEF IInv
<1>1. CASE NoFrameByte(b)
  BY <1>1 DEF NoFrameByte, bufVars
<1>2. ASSUME NEW c, RxPut(c), s_state # "NO_FRAME"
      PROVE  /\ UNCHANGED frame_complete
             /\ \/ Failed
                \/ /\ s_state' # "NO_FRAME" /\ s_rx_len' > 0
                   /\ UNCHANGED <<s_rx_buf, frame_error>>
  <2>1. CASE s_rx_len < s_rx_cap
    BY <1>0, <1>2, <2>1 DEF RxPut, flagVars, TypeOK
  <2>2. CASE ~(s_rx_len < s_rx_cap)
    BY <1>0, <1>2, <2>2, AbortOutcome DEF RxPut, Failed
  <2> QED BY <2>1, <2>2
<1>3. CASE InFrameByte(b)
  <2>1. s_state = "IN_FRAME"
    BY <1>3 DEF InFrameByte
  <2>2. CASE b = ESC
    <3>1. s_state' = "ESCAPING" /\ UNCHANGED <<s_rx_buf, s_rx_len, s_rx_cap, bufVars>>
      BY <1>3, <2>2, InFrameCases
    <3> QED BY <2>1, <3>1 DEF bufVars
  <2>3. CASE b # ESC
    <3>1. RxPut(b)
      BY <1>3, <2>3, InFrameCases
    <3> QED BY <1>2, <2>1, <3>1
  <2> QED BY <2>2, <2>3
<1>4. CASE EscapedByte(b)
  <2>1. s_state = "ESCAPING"
    BY <1>4 DEF EscapedByte
  <2>2. CASE Abort
    BY <1>0, <2>1, <2>2, AbortOutcome DEF Failed
  <2> QED BY <1>2, <1>4, <2>1, <2>2, EscapedCases
<1> QED BY <1>1, <1>3, <1>4 DEF SlipRecvByte

\* END opens a frame, completes the one at hand, or breaks off an escape.
LEMMA EndOutcome ==
  ASSUME IInv, SlipRecvByte(END)
  PROVE  /\ s_state = "NO_FRAME" =>
              /\ UNCHANGED <<s_rx_buf, frame_complete, frame_error>>
              /\ s_rx_buf # NULL => s_state' = "IN_FRAME" /\ s_rx_len' = 0
         /\ s_state = "ESCAPING" => Failed
         /\ s_state = "IN_FRAME" =>
              /\ s_state' = "NO_FRAME"
              /\ s_rx_len > 0 => Completed
              /\ s_rx_len = 0 => UNCHANGED <<frame_complete, frame_error>>
<1>0. TypeOK /\ DecoderInBounds
  BY DEF IInv
<1>1. CASE NoFrameByte(END)
  BY <1>1 DEF NoFrameByte, bufVars
<1>2. CASE InFrameByte(END)
  <2>1. s_state = "IN_FRAME" /\ CloseFrame
    BY <1>2, InFrameCases DEF InFrameByte
  <2>2. s_rx_len \in Nat /\ s_rx_len =< FRAME_BUFFER_SIZE
    BY <1>0 DEF TypeOK
  <2> QED BY <1>0, <2>1, <2>2 DEF CloseFrame, MarkComplete, Completed, DecoderInBounds, flagVars
<1>3. CASE EscapedByte(END)
  <2>1. s_state = "ESCAPING" /\ Abort
    BY <1>3 DEF EscapedByte
  <2> QED BY <1>0, <2>1, AbortOutcome
<1> QED BY <1>1, <1>2, <1>3 DEF SlipRecvByte

\* The main program never takes the buffer from an armed decoder.
LEMMA StaysArmed ==
  ASSUME IInv, Main
  PROVE  /\ UNCHANGED <<s_state, s_rx_len>>
         /\ s_rx_buf # NULL => s_rx_buf' = s_rx_buf
<1>1. CASE ArmBuf
  BY <1>1 DEF ArmBuf, IInv, RearmDiscipline, SwitchLabels
<1>2. CASE ArmCap
  BY <1>2 DEF ArmCap
<1>3. CASE Main /\ ~ArmBuf /\ ~ArmCap
  <2>1. UNCHANGED isrVars
    BY <1>3 DEF Main, GetState, TestOtherError, TestRxError, TestOtherComplete,
       TestRxComplete, TestFlag, Rearm, AcquireRxComplete, AcquireRxError, AcquireTest,
       AcquireOther, AcquireLength, Reset, ReleaseLength, ReleaseComplete, ReleaseError,
       Loops, SendOhai, HandleCommand, FinishCommand, HandleRead, ReadRefused, StreamStart,
       StreamPoll, StreamEnd, StreamAck, StreamBreak, MainStep
  <2> QED BY <2>1 DEF isrVars
<1> QED BY <1>1, <1>2, <1>3

\* A step of the stub is one of SlipReceive's main program, or one of the stream
\* that SlipReceive does not see; the line is not touched.
LEMMA StubIsMain ==
  ASSUME Stub
  PROVE  /\ Main \/ UNCHANGED vars
         /\ UNCHANGED <<wire, frames, faults, timeouts, fresh>>
<1>1. CASE SendPacket
  BY <1>1 DEF SendPacket, Answer
<1>2. CASE Stub /\ ~SendPacket
  <2>1. Main
    BY <1>2 DEF Stub, Greet, Respond, RespondRead, StartRead, RefuseRead, CountAck, EndRead,
       BreakRead, FailRead, Quietly, Main, Loops
  <2>2. UNCHANGED <<wire, frames, faults, timeouts, fresh>>
    BY <1>2 DEF Stub, Greet, Respond, RespondRead, StartRead, RefuseRead, CountAck, EndRead,
       BreakRead, FailRead, Quietly, Answer, Silent, NoNews
  <2> QED BY <2>1, <2>2
<1> QED BY <1>1, <1>2

\* A step of the link is a step of the receive path or none, and puts bytes on the wire.
LEMMA LinkStep ==
  ASSUME wire \in Seq(Byte), [LinkNext]_linkVars
  PROVE  [Next]_vars /\ wire' \in Seq(Byte)
<1>1. CASE \E p \in Payloads : HostSend(p)
  <2>1. PICK p \in Payloads : HostSend(p)
    BY <1>1
  <2>2. Encode(p) \in Seq(Byte)
    BY EncodeShape
  <2>3. wire' = wire \o Encode(p) /\ UNCHANGED vars
    BY <2>1 DEF HostSend
  <2> QED BY <2>2, <2>3, ConcatProperties
<1>2. CASE HostTimeout
  BY <1>2 DEF HostTimeout
<1>3. CASE LoseByte
  BY <1>3 DEF LoseByte
<1>4. CASE \E b \in Byte : GarbleByte(b)
  BY <1>4 DEF GarbleByte
<1>5. CASE LineByte
  <2>1. Head(wire) \in Byte /\ wire' \in Seq(Byte)
    BY <1>5 DEF LineByte
  <2> QED BY <1>5, <2>1 DEF LineByte, Next
<1>6. CASE Stub
  BY <1>6, StubIsMain DEF Next
<1>7. CASE UNCHANGED linkVars
  BY <1>7 DEF linkVars, hostVars
<1> QED BY <1>1, <1>2, <1>3, <1>4, <1>5, <1>6, <1>7 DEF LinkNext

RearmLabels == SelectLabels \cup SwitchLabels \cup {"arm_cap"}

\* The stub has the turn: it has a frame to answer, or a packet to send.
Owes ==
  \/ caller = "boot"
  \/ pc \in {"handle", "read", "ack"}
  \/ pc \in RearmLabels /\ state # "ERROR"
  \/ caller = "stream" /\ unacked = 0

\* Nothing is on the line, nor half received.
LineIdle == wire = <<>> /\ s_state = "NO_FRAME"

\* The turn is the host's, the stub's, or that of the frame between the two.
HostsTurn  == ~waiting => LineIdle /\ s_rx_buf # NULL /\ ~Owes
StubsTurn  == Owes => waiting /\ LineIdle /\ (pc \notin SelectLabels => ~Full(s_rx_idx))
FramesTurn == frame_complete[s_rx_idx] => waiting /\ LineIdle

\* Which loop is where, and that its count of packets is 0 or 1.
Labelled ==
  /\ pc \in {"stream", "ack"} => caller = "stream"
  /\ pc \in {"handle", "post", "read"} => caller = "main"
  /\ pc = "ohai" => caller = "boot"
  /\ caller = "stream" => unacked \in {0, 1}
  /\ caller = "stream" /\ pc \in RearmLabels \cup {"ack"} => unacked = 1

Turns == HostsTurn /\ StubsTurn /\ FramesTurn /\ Labelled

\* The line holds at most one frame; before its first END is taken, the decoder is
\* ready to begin a frame.
EndsOnlyLast(first) ==
  /\ wire # <<>> => wire[Len(wire)] = END
  /\ \A k \in first..(Len(wire) - 1) : wire[k] # END
OneFrameOnLine ==
  \/ EndsOnlyLast(1)
  \/ EndsOnlyLast(2) /\ wire # <<>> /\ wire[1] = END /\ s_state = "NO_FRAME" /\ s_rx_buf # NULL

\* What a fresh frame still needs: its two ENDs with something between them.
StillComplete ==
  /\ wire # <<>> /\ s_rx_buf # NULL
  /\ \/ s_state = "NO_FRAME" /\ wire[1] = END /\ Len(wire) >= 3 /\ EndsOnlyLast(2)
     \/ /\ s_state # "NO_FRAME" /\ EndsOnlyLast(1)
        /\ s_rx_len > 0 \/ s_state = "ESCAPING" \/ Len(wire) >= 2
FreshOnItsWay == fresh => StillComplete

Faultless == faults = 0 /\ timeouts = 0

LockStep == IInv /\ wire \in Seq(Byte) /\ Turns /\ OneFrameOnLine /\ FreshOnItsWay /\ Faultless

\* The tests of frame_buffer_get_state() pass the turn from a frame to the stub.
LEMMA GetStateTurns ==
  ASSUME IInv, IInv', Turns, GetState, NoNews, UNCHANGED unacked
  PROVE  Turns'
<1>0. /\ UNCHANGED <<s_state, s_rx_buf, wire, waiting, s_rx_idx, caller, frame_complete, frame_error>>
  BY DEF GetState, TestOtherError, TestRxError, TestOtherComplete, TestRxComplete, TestFlag,
     isrVars, bufVars, NoNews, Silent
<1>1. pc \in StateLabels /\ caller # "boot" /\ ~Full(Other)
  <2>1. pc \in StateLabels
    BY DEF GetState, TestOtherError, TestRxError, TestOtherComplete, TestRxComplete, TestFlag,
       StateLabels
  <2> QED BY <2>1 DEF IInv, SpareDiscipline, BootDiscipline, StateLabels, SwitchLabels,
         SelectLabels, WorkLabels, ReleaseLabels
<1>2. \/ /\ pc' \in StateLabels \cup {"stream"}
         /\ pc' = "stream" => caller = "stream"
      \/ /\ pc' = "acq_rx_complete" /\ Full(s_rx_idx)
         /\ (state' = "ERROR" \/ frame_complete[s_rx_idx])
  <2>1. CASE TestOtherError \/ TestOtherComplete
    <3>1. ~frame_error[Other] /\ ~frame_complete[Other]
      BY <1>1 DEF Full
    <3> QED BY <2>1, <3>1 DEF TestOtherError, TestOtherComplete, TestFlag, StateLabels
  <2>2. CASE TestRxError
    BY <2>2 DEF TestRxError, TestFlag, StateLabels, Full
  <2>3. CASE TestRxComplete
    BY <1>1, <2>3 DEF TestRxComplete, TestFlag, StateLabels, Full
  <2> QED BY <2>1, <2>2, <2>3 DEF GetState
<1>3. Labelled'
  <2>1. CASE pc' \in StateLabels \cup {"stream"}
    BY <1>0, <1>1, <2>1, <1>2 DEF Turns, Labelled, StateLabels, RearmLabels, SelectLabels, SwitchLabels
  <2>2. CASE pc' = "acq_rx_complete" /\ Full(s_rx_idx)
    <3>1. caller = "stream" => unacked # 0
      BY <1>1, <2>2 DEF Turns, StubsTurn, Owes, StateLabels, SelectLabels
    <3> QED BY <1>0, <2>2, <3>1 DEF Turns, Labelled, RearmLabels, SelectLabels, SwitchLabels
  <2> QED BY <1>2, <2>1, <2>2
<1>4. CASE pc' \in StateLabels \cup {"stream"}
  <2>1. Owes' => Owes
    BY <1>0, <1>4 DEF Owes, StateLabels, RearmLabels, SelectLabels, SwitchLabels
  <2> QED BY <1>0, <1>1, <1>3, <1>4, <2>1 DEF Turns, HostsTurn, StubsTurn, FramesTurn, LineIdle,
         Full, StateLabels, SelectLabels
<1>5. CASE pc' = "acq_rx_complete" /\ Full(s_rx_idx) /\ (state' = "ERROR" \/ frame_complete[s_rx_idx])
  <2>1. ~Owes
    BY <1>1, <1>5 DEF Turns, StubsTurn, StateLabels, SelectLabels
  <2>2. Owes' => frame_complete[s_rx_idx]
    BY <1>0, <1>5, <2>1 DEF Owes, RearmLabels, SelectLabels, SwitchLabels
  <2> QED BY <1>0, <1>3, <1>5, <2>2 DEF Turns, HostsTurn, StubsTurn, FramesTurn, LineIdle, SelectLabels
<1> QED BY <1>2, <1>4, <1>5

\* A rearm keeps the turn, and hands it to the code the frame is for.
LEMMA RearmTurns ==
  ASSUME IInv, IInv', Turns, Rearm, NoNews, UNCHANGED unacked
  PROVE  Turns'
<1>0. /\ UNCHANGED <<s_state, wire, waiting, caller, state, frame_complete, frame_error>>
      /\ pc \in RearmLabels
  BY DEF Rearm, AcquireRxComplete, AcquireRxError, AcquireTest, AcquireOther, AcquireLength,
     ArmBuf, ArmCap, Goto, isrVars, bufVars, flagVars, NoNews, Silent, RearmLabels,
     SelectLabels, SwitchLabels
<1>1. s_rx_buf # NULL => s_rx_buf' # NULL
  BY StaysArmed DEF Main
<1>2. CASE pc # "arm_cap"
  <2>1. pc' \in RearmLabels /\ (pc \notin SelectLabels => pc' \notin SelectLabels)
    BY <1>2 DEF Rearm, AcquireRxComplete, AcquireRxError, AcquireTest, AcquireOther, AcquireLength,
       ArmBuf, ArmCap, Goto, RearmLabels, SelectLabels, SwitchLabels
  <2>2. Owes' <=> Owes
    BY <1>0, <1>2, <2>1 DEF Owes, RearmLabels, SelectLabels, SwitchLabels, NoNews
  <2>3. pc' \notin SelectLabels => ~Full(s_rx_idx)'
    <3>1. CASE pc' \in SwitchLabels
      BY <3>1 DEF IInv, RearmDiscipline, Full
    <3>2. CASE pc' = "arm_cap"
      <4>1. pc = "arm_buf" /\ UNCHANGED <<s_rx_idx, frame_complete, frame_error>>
        BY <1>2, <3>2 DEF Rearm, AcquireRxComplete, AcquireRxError, AcquireTest, AcquireOther,
           AcquireLength, ArmBuf, ArmCap, Goto, idxVars, bufVars
      <4> QED BY <4>1 DEF IInv, RearmDiscipline, SwitchLabels, Full
    <3> QED BY <2>1, <3>1, <3>2 DEF RearmLabels
  <2>4. frame_complete'[s_rx_idx'] => frame_complete[s_rx_idx]
    <3>1. CASE AcquireOther
      BY <1>0, <2>3, <3>1 DEF AcquireOther, IInv, SpareDiscipline, Full, SwitchLabels, WorkLabels,
         ReleaseLabels, idxVars
    <3>2. CASE ~AcquireOther
      BY <1>0, <3>2 DEF Rearm, AcquireRxComplete, AcquireRxError, AcquireTest, AcquireLength,
         ArmBuf, ArmCap, Goto, idxVars
    <3> QED BY <3>1, <3>2
  <2>5. Labelled'
    BY <1>0, <1>2, <2>1 DEF Turns, Labelled, RearmLabels, SelectLabels, SwitchLabels
  <2> QED BY <1>0, <1>1, <2>2, <2>3, <2>4, <2>5 DEF Turns, HostsTurn, StubsTurn, FramesTurn, LineIdle
<1>3. CASE pc = "arm_cap"
  <2>0. ArmCap /\ UNCHANGED <<s_rx_idx, s_rx_buf>>
    BY <1>3 DEF Rearm, AcquireRxComplete, AcquireRxError, AcquireTest, AcquireOther,
       AcquireLength, ArmBuf, ArmCap, idxVars
  <2>1. \/ caller = "boot" /\ pc' = "ohai"
        \/ caller # "boot" /\ state = "ERROR" /\ pc' = "rel_length"
        \/ caller = "stream" /\ state # "ERROR" /\ pc' = "ack"
        \/ caller = "main" /\ state # "ERROR" /\ pc' = "handle"
    <3>1. caller \in {"boot", "main", "stream"}
      BY DEF IInv, TypeOK
    <3>2. pc' = (CASE caller = "boot" -> "ohai"
                   [] caller # "boot" /\ state = "ERROR" -> "rel_length"
                   [] caller = "stream" /\ state # "ERROR" -> "ack"
                   [] caller = "main" /\ state # "ERROR" -> "handle")
      BY <2>0 DEF ArmCap, Goto
    <3>3. CASE caller = "boot"
      BY <3>2, <3>3
    <3>4. CASE caller # "boot" /\ state = "ERROR"
      BY <3>2, <3>4
    <3>5. CASE caller = "stream" /\ state # "ERROR"
      BY <3>2, <3>5
    <3>6. CASE caller = "main" /\ state # "ERROR"
      BY <3>2, <3>6
    <3> QED BY <3>1, <3>3, <3>4, <3>5, <3>6
  <2>2. caller = "stream" => unacked = 1
    BY <1>3 DEF Turns, Labelled, RearmLabels
  <2>3. Owes' => Owes
    BY <1>0, <1>3, <2>1, <2>2 DEF Owes, RearmLabels, SelectLabels, SwitchLabels
  <2>4. Labelled'
    BY <1>0, <2>1, <2>2 DEF Labelled, RearmLabels, SelectLabels, SwitchLabels
  <2> QED BY <1>0, <1>3, <2>0, <2>3, <2>4 DEF Turns, HostsTurn, StubsTurn, FramesTurn, LineIdle,
         Full, SelectLabels
<1> QED BY <1>2, <1>3

\* Releasing a buffer, and going round a loop, give the turn to nobody.
LEMMA LoopTurns ==
  ASSUME IInv, Turns, Reset \/ FinishCommand \/ StreamPoll, NoNews, UNCHANGED unacked
  PROVE  Turns'
<1>0. /\ UNCHANGED <<s_state, s_rx_buf, wire, waiting, s_rx_idx>>
      /\ \A i \in Idx : /\ frame_complete'[i] => frame_complete[i]
                        /\ frame_error'[i] => frame_error[i]
  BY DEF Reset, ReleaseLength, ReleaseComplete, ReleaseError, FinishCommand, StreamPoll,
     MainStep, isrVars, idxVars, bufVars, flagVars, NoNews, Silent, IInv, TypeOK
<1>1. /\ pc \in ReleaseLabels \cup {"post", "stream"}
      /\ pc' \in ReleaseLabels \cup {"stream", "state_other_error"}
      /\ caller' = caller /\ (pc' = "stream" => caller = "stream")
  BY DEF Reset, ReleaseLength, ReleaseComplete, ReleaseError, FinishCommand, StreamPoll,
     MainStep, Goto, ReleaseLabels, Turns, Labelled
<1>2. Owes' <=> Owes
  BY <1>1 DEF Owes, ReleaseLabels, RearmLabels, SelectLabels, SwitchLabels
<1>3. Labelled'
  BY <1>1 DEF Turns, Labelled, ReleaseLabels, RearmLabels, SelectLabels, SwitchLabels
<1>4. s_rx_idx \in Idx
  BY DEF IInv, TypeOK
<1>5. Full(s_rx_idx)' => Full(s_rx_idx)
  BY <1>0, <1>4 DEF Full
<1>6. pc \notin SelectLabels
  BY <1>1 DEF ReleaseLabels, SelectLabels
<1> QED BY <1>0, <1>2, <1>3, <1>4, <1>5, <1>6 DEF Turns, HostsTurn, StubsTurn, FramesTurn, LineIdle

\* The handlers and the stream: what each does with the turn it has.
LEMMA WorkTurns ==
  ASSUME IInv, Turns, Faultless, Stub, ~Quietly
  PROVE  Turns'
<1>0. /\ UNCHANGED <<isrVars, bufVars, s_rx_idx, wire>>
      /\ pc \in {"ohai", "handle", "read", "stream", "ack"}
      /\ pc' \in {"state_other_error", "post", "read", "rel_length", "stream"}
  BY DEF Stub, Greet, Respond, RespondRead, StartRead, RefuseRead, SendPacket, CountAck,
     EndRead, BreakRead, FailRead, SendOhai, HandleCommand, HandleRead, StreamStart,
     ReadRefused, StreamAck, StreamEnd, StreamBreak, MainStep, Answer, Silent, NoNews,
     vars, idxVars, mainVars
<1>1. /\ UNCHANGED <<s_state, s_rx_buf, frame_complete, frame_error>>
      /\ Full(s_rx_idx)' = Full(s_rx_idx) /\ LineIdle' = LineIdle
  BY <1>0 DEF isrVars, bufVars, flagVars, LineIdle, Full
<1>2. pc # "stream" \/ unacked = 0 \/ (UNCHANGED <<pc, caller, waiting, unacked>>)
  BY DEF Faultless, Stub, Greet, Respond, RespondRead, StartRead, RefuseRead, SendPacket, CountAck,
     EndRead, BreakRead, FailRead, SendOhai, HandleCommand, HandleRead, StreamStart,
     ReadRefused, StreamAck, StreamEnd, StreamBreak, MainStep
<1>3. CASE UNCHANGED <<pc, caller, waiting, unacked>>
  <2>1. (Owes' <=> Owes) /\ Labelled'
    BY <1>0, <1>3 DEF Owes, Labelled, Turns, RearmLabels, SelectLabels, SwitchLabels
  <2> QED BY <1>0, <1>1, <1>3, <2>1 DEF Turns, HostsTurn, StubsTurn, FramesTurn
<1>4. CASE ~(UNCHANGED <<pc, caller, waiting, unacked>>)
  <2>1. Owes
    BY <1>0, <1>2, <1>4 DEF Owes, Turns, Labelled
  <2>2. waiting /\ LineIdle /\ ~Full(s_rx_idx)
    BY <1>0, <2>1 DEF Turns, StubsTurn, SelectLabels
  <2>3. s_rx_buf # NULL
    BY <1>0, <2>2 DEF IInv, NeverDeaf
  <2>4. Labelled'
    BY <1>0, <2>1 DEF Turns, Labelled, RearmLabels, SelectLabels, SwitchLabels,
       Stub, Greet, Respond, RespondRead, StartRead, RefuseRead, SendPacket, CountAck,
       EndRead, BreakRead, FailRead, SendOhai, HandleCommand, HandleRead, StreamStart,
       ReadRefused, StreamAck, StreamEnd, StreamBreak, MainStep, vars, mainVars
  <2>5. ~waiting' => ~Owes'
    <3>1. CASE ~waiting'
      <4>1. \/ pc' \in {"state_other_error", "post", "rel_length"} /\ caller' = "main"
            \/ pc' = "stream" /\ unacked' = 1 /\ UNCHANGED caller
        BY <2>2, <3>1 DEF Stub, Greet, Respond, RespondRead, StartRead, RefuseRead, SendPacket,
           CountAck, EndRead, BreakRead, FailRead, SendOhai, HandleCommand, HandleRead,
           StreamStart, ReadRefused, StreamAck, StreamEnd, StreamBreak, MainStep, vars,
           mainVars, Silent, NoNews
      <4>2. pc' = "stream" /\ UNCHANGED caller => caller' = "stream"
        BY <1>0, <2>4 DEF Labelled
      <4> QED BY <4>1, <4>2 DEF Owes, RearmLabels, SelectLabels, SwitchLabels
    <3> QED BY <3>1
  <2>6. ~frame_complete[s_rx_idx]
    BY <2>2 DEF Full
  <2> QED BY <1>0, <1>1, <2>2, <2>3, <2>4, <2>5, <2>6 DEF Turns, HostsTurn, StubsTurn, FramesTurn
<1> QED BY <1>3, <1>4

\* The host uses its turn for one frame, over a quiet line to a decoder that is
\* ready: the frame is fresh.
LEMMA SendTurns ==
  ASSUME LockStep, NEW p \in Payloads, HostSend(p)
  PROVE  Turns' /\ OneFrameOnLine' /\ FreshOnItsWay'
<1>1. ~waiting /\ waiting' = TRUE /\ wire' = wire \o Encode(p) /\ UNCHANGED <<vars, unacked>>
  BY DEF HostSend
<1>2. UNCHANGED <<s_state, s_rx_buf, s_rx_idx, frame_complete, frame_error, pc, caller, state>>
  BY <1>1 DEF vars, isrVars, bufVars, flagVars, idxVars, mainVars
<1>3. LineIdle /\ s_rx_buf # NULL /\ ~Owes
  BY <1>1 DEF LockStep, Turns, HostsTurn
<1>4. ~frame_complete[s_rx_idx]
  BY <1>1 DEF LockStep, Turns, FramesTurn
<1>5. ~Owes' /\ Labelled'
  BY <1>1, <1>2, <1>3 DEF LockStep, Turns, Owes, Labelled
<1>6. Turns'
  BY <1>1, <1>2, <1>4, <1>5 DEF Turns, HostsTurn, StubsTurn, FramesTurn
<1>7. wire' = Encode(p)
  BY <1>1, <1>3, EncodeShape, ConcatEmptySeq DEF LineIdle
<1>8. /\ wire' # <<>> /\ wire'[1] = END /\ Len(wire') >= 3 /\ EndsOnlyLast(2)'
  BY <1>7, EncodeShape DEF EndsOnlyLast
<1> QED BY <1>2, <1>3, <1>6, <1>8 DEF LineIdle, OneFrameOnLine, FreshOnItsWay, StillComplete

\* The bytes of the frame go by, one at a time.
LEMMA ByteTurns ==
  ASSUME LockStep, LineByte
  PROVE  Turns' /\ OneFrameOnLine' /\ FreshOnItsWay'
<1> DEFINE b == Head(wire)
<1>0. IInv /\ wire \in Seq(Byte) /\ wire # <<>> /\ wire' = Tail(wire) /\ SlipRecvByte(b)
      /\ UNCHANGED <<waiting, unacked>>
  BY DEF LineByte, LockStep
<1>1. /\ b \in Byte /\ b = wire[1] /\ Len(wire) \in Nat \ {0} /\ Len(wire') = Len(wire) - 1
      /\ \A k \in 1..Len(wire') : wire'[k] = wire[k + 1]
      /\ (wire' = <<>> <=> Len(wire) = 1)
  <2>1. wire \in Seq(Byte) /\ wire # <<>> /\ wire' = Tail(wire)
    BY <1>0
  <2>2. wire' \in Seq(Byte) /\ Len(wire') = Len(wire) - 1
        /\ \A k \in 1..Len(wire') : wire'[k] = wire[k + 1]
    BY <2>1, HeadTailProperties
  <2>3. b \in Byte /\ b = wire[1] /\ Len(wire) \in Nat \ {0}
    BY <2>1
  <2> QED BY <2>2, <2>3, EmptySeq
<1>2. waiting /\ ~Owes /\ ~frame_complete[s_rx_idx]
  BY <1>0 DEF LockStep, Turns, HostsTurn, StubsTurn, FramesTurn, LineIdle
<1>3. UNCHANGED <<s_rx_idx, s_proc_idx, pc, caller, state, acquired>> /\ s_rx_idx \in Idx
  BY <1>0, <1>1, ByteOutcome DEF IInv, TypeOK
<1>4. ~Owes' /\ Labelled'
  BY <1>0, <1>2, <1>3 DEF Owes, Labelled, LockStep, Turns
<1> HIDE DEF b
<1>11. EndsOnlyLast(1) /\ b = END => Len(wire) = 1
  <2> SUFFICES ASSUME EndsOnlyLast(1), Len(wire) # 1 PROVE b # END
    OBVIOUS
  <2>1. 1 \in 1..(Len(wire) - 1)
    BY <1>1
  <2> QED BY <1>1, <2>1 DEF EndsOnlyLast
<1>5. EndsOnlyLast(1)'
  BY <1>1 DEF LockStep, OneFrameOnLine, EndsOnlyLast
<1>6. b = END => wire' = <<>> \/ (s_state = "NO_FRAME" /\ s_rx_buf # NULL)
  BY <1>1, <1>11 DEF LockStep, OneFrameOnLine
<1>7. frame_complete'[s_rx_idx'] => b = END /\ s_state = "IN_FRAME" /\ s_state' = "NO_FRAME"
  <2>1. CASE b # END
    BY <1>0, <1>1, <1>2, <1>3, <2>1, DataByteOutcome
  <2>2. CASE b = END
    <3>1. s_state \in {"NO_FRAME", "IN_FRAME", "ESCAPING"}
      BY <1>0 DEF IInv, TypeOK
    <3>2. s_state = "ESCAPING" => UNCHANGED frame_complete
      BY <1>0, <2>2, EndOutcome DEF Failed
    <3> QED BY <1>0, <1>2, <1>3, <2>2, <3>1, <3>2, EndOutcome
  <2> QED BY <2>1, <2>2
<1>8. Turns'
  BY <1>0, <1>2, <1>3, <1>4, <1>6, <1>7 DEF Turns, HostsTurn, StubsTurn, FramesTurn, LineIdle
<1>9. OneFrameOnLine'
  BY <1>5 DEF OneFrameOnLine
<1>10. FreshOnItsWay'
  <2> SUFFICES ASSUME fresh' PROVE StillComplete'
    BY DEF FreshOnItsWay
  <2>1. fresh /\ ~(\E i \in Idx : Full(i)' /\ ~Full(i))
    BY DEF LineByte
  <2>2. s_rx_buf # NULL /\ ~Full(s_rx_idx)
    BY <1>0, <2>1 DEF LockStep, FreshOnItsWay, StillComplete, IInv, ArmedBufferIsFree
  <2>3. ~Full(s_rx_idx)'
    BY <1>3, <2>1, <2>2
  <2>4. ~Failed /\ ~Completed
    BY <1>0, <1>3, <2>3 DEF Failed, Completed, Full, IInv, TypeOK
  <2>5. CASE s_state = "NO_FRAME"
    <3>1. b = END /\ Len(wire) >= 3
      BY <1>1, <2>1, <2>5 DEF LockStep, FreshOnItsWay, StillComplete
    <3>2. s_state' = "IN_FRAME" /\ s_rx_buf' # NULL
      BY <1>0, <2>2, <2>5, <3>1, EndOutcome
    <3> QED BY <1>1, <1>5, <3>1, <3>2 DEF StillComplete
  <2>6. CASE s_state # "NO_FRAME"
    <3>1. EndsOnlyLast(1) /\ (s_rx_len > 0 \/ s_state = "ESCAPING" \/ Len(wire) >= 2)
      BY <2>1, <2>6 DEF LockStep, FreshOnItsWay, StillComplete
    <3>2. b # END
      <4>1. SUFFICES ASSUME b = END PROVE FALSE
        OBVIOUS
      <4>2. Len(wire) = 1
        BY <1>11, <3>1, <4>1
      <4>3. s_state = "ESCAPING" => Failed
        BY <1>0, <4>1, EndOutcome
      <4>4. s_state = "IN_FRAME" /\ s_rx_len > 0 => Completed
        BY <1>0, <4>1, EndOutcome
      <4> QED BY <1>0, <2>4, <2>6, <3>1, <4>2, <4>3, <4>4 DEF IInv, TypeOK
    <3>3. /\ s_state' # "NO_FRAME" /\ (s_rx_len' > 0 \/ s_state' = "ESCAPING")
          /\ s_rx_buf' # NULL
      BY <1>0, <1>1, <2>2, <2>4, <2>6, <3>2, DataByteOutcome
    <3>4. wire' # <<>>
      BY <1>1, <3>1, <3>2 DEF EndsOnlyLast
    <3> QED BY <1>5, <3>3, <3>4 DEF StillComplete
  <2> QED BY <2>5, <2>6
<1> QED BY <1>8, <1>9, <1>10

\* The stub's steps leave a frame on the line, or half received, as it is.
LEMMA StubLeavesLine ==
  ASSUME LockStep, Stub
  PROVE  OneFrameOnLine' /\ FreshOnItsWay'
<1>1. UNCHANGED <<wire, fresh>> /\ (Main \/ UNCHANGED vars)
  BY StubIsMain
<1>2. UNCHANGED <<s_state, s_rx_len>> /\ (s_rx_buf # NULL => s_rx_buf' # NULL)
  BY <1>1, StaysArmed DEF LockStep, vars, isrVars
<1> QED BY <1>1, <1>2 DEF LockStep, OneFrameOnLine, FreshOnItsWay, StillComplete, EndsOnlyLast

\* The stub and the frames keep the order of turns.
LEMMA StubTurns ==
  ASSUME LockStep, IInv', Stub
  PROVE  Turns'
<1>1. CASE Quietly
  <2>1. NoNews /\ UNCHANGED unacked /\ (GetState \/ Rearm \/ Reset \/ FinishCommand \/ StreamPoll)
    BY <1>1 DEF Quietly
  <2> QED BY <2>1, GetStateTurns, RearmTurns, LoopTurns DEF LockStep
<1>2. CASE ~Quietly
  BY <1>2, WorkTurns DEF LockStep
<1> QED BY <1>1, <1>2

\* Without faults and timeouts every step of the link keeps the lock step.
LEMMA LockStepHolds ==
  ASSUME MAX_FAULTS = 0, MAX_TIMEOUTS = 0, LockStep, [LinkNext]_linkVars
  PROVE  LockStep'
<1>1. [Next]_vars /\ wire' \in Seq(Byte)
  BY LinkStep DEF LockStep
<1>2. IInv'
  BY <1>1, InvStep DEF LockStep
<1>3. faults = 0 /\ timeouts = 0
  BY DEF LockStep, Faultless
<1>4. CASE \E p \in Payloads : HostSend(p)
  <2>1. Turns' /\ OneFrameOnLine' /\ FreshOnItsWay'
    BY <1>4, SendTurns
  <2>2. Faultless'
    BY <1>3, <1>4 DEF HostSend, Faultless
  <2> QED BY <1>1, <1>2, <2>1, <2>2 DEF LockStep
<1>5. CASE LineByte
  <2>1. Faultless'
    BY <1>3, <1>5 DEF LineByte, Faultless
  <2> QED BY <1>1, <1>2, <1>5, <2>1, ByteTurns DEF LockStep
<1>6. CASE Stub
  <2>1. Faultless'
    BY <1>3, <1>6, StubIsMain DEF Faultless
  <2> QED BY <1>1, <1>2, <1>6, <2>1, StubTurns, StubLeavesLine DEF LockStep
<1>7. ~HostTimeout /\ ~LoseByte /\ ~(\E b \in Byte : GarbleByte(b))
  BY <1>3 DEF HostTimeout, LoseByte, GarbleByte
<1>8. CASE UNCHANGED linkVars
  <2>1. Turns'
    BY <1>8 DEF LockStep, Turns, HostsTurn, StubsTurn, FramesTurn, Labelled, Owes, LineIdle, Full,
       linkVars, vars, hostVars, isrVars, bufVars, flagVars, idxVars, mainVars
  <2>2. OneFrameOnLine' /\ FreshOnItsWay' /\ Faultless'
    BY <1>8 DEF LockStep, OneFrameOnLine, FreshOnItsWay, StillComplete, EndsOnlyLast, Faultless,
       linkVars, vars, hostVars, isrVars
  <2> QED BY <1>1, <1>2, <2>1, <2>2 DEF LockStep
<1> QED BY <1>4, <1>5, <1>6, <1>7, <1>8 DEF LinkNext

\* It holds at first: the stub starts and the host waits for its greeting.
LEMMA LockStepAtFirst == LinkInit => LockStep
<1> SUFFICES ASSUME LinkInit PROVE LockStep
  OBVIOUS
<1>1. Init /\ IInv
  BY InitInv DEF LinkInit
<1>2. wire = <<>> /\ waiting /\ ~fresh /\ Faultless
  BY DEF LinkInit, Faultless
<1>3. caller = "boot" /\ pc = "acq_rx_complete" /\ s_state = "NO_FRAME" /\ ~Full(s_rx_idx)
  BY <1>1 DEF Init, Full
<1>4. Turns
  BY <1>2, <1>3 DEF Turns, HostsTurn, StubsTurn, FramesTurn, Labelled, LineIdle, Full
<1> QED BY <1>1, <1>2, <1>4 DEF LockStep, OneFrameOnLine, FreshOnItsWay, EndsOnlyLast

\* With a host that waits for its answers and a line that does not err, whenever the
\* host may speak the line is empty and the decoder armed between two frames,
\* although the stub answers before it has finished (handle_command()), for every
\* size of the buffers and all payloads, also those that do not fit.
THEOREM StubListens ==
  ASSUME MAX_FAULTS = 0, MAX_TIMEOUTS = 0
  PROVE  LinkSpec => []ListensWhenSpokenTo
<1>1. LockStep => ListensWhenSpokenTo
  BY DEF LockStep, Turns, HostsTurn, LineIdle, ListensWhenSpokenTo
<1>2. LockStep /\ [LinkNext]_linkVars => LockStep'
  BY LockStepHolds
<1> QED BY <1>1, <1>2, LockStepAtFirst, PTL DEF LinkSpec

\* Under the same conditions no frame is sent in vain: before its last byte has been
\* taken it is in a buffer, whole or marked as an error.
THEOREM FramesArrive ==
  ASSUME MAX_FAULTS = 0, MAX_TIMEOUTS = 0
  PROVE  LinkSpec => []FreshFrameIsReceived
<1>1. LockStep => FreshFrameIsReceived
  BY DEF LockStep, FreshOnItsWay, StillComplete, FreshFrameIsReceived
<1>2. LockStep /\ [LinkNext]_linkVars => LockStep'
  BY LockStepHolds
<1> QED BY <1>1, <1>2, LockStepAtFirst, PTL DEF LinkSpec

-----------------------------------------------------------------------------
(* SlipLink: what is handed over, when no byte is lost or garbled but the host *)
(* may send again into a stub that is busy.                                    *)

\* Where the elements of two sequences are when they are joined.
LEMMA JoinedElements ==
  ASSUME NEW S, NEW a \in Seq(S), NEW b \in Seq(S)
  PROVE  /\ a \o b \in Seq(S) /\ Len(a \o b) = Len(a) + Len(b)
         /\ \A k \in 1..Len(a) : (a \o b)[k] = a[k]
         /\ \A k \in 1..Len(b) : (a \o b)[Len(a) + k] = b[k]
<1>1. a \o b \in Seq(S) /\ Len(a \o b) = Len(a) + Len(b)
  BY ConcatProperties
<1>2. \A k \in 1..Len(a) : (a \o b)[k] = a[k]
  OBVIOUS
<1>3. ASSUME NEW k \in 1..Len(b) PROVE (a \o b)[Len(a) + k] = b[k]
  OBVIOUS
<1> QED BY <1>1, <1>2, <1>3

\* Where they are when the sequence is put between two marks.
LEMMA FramedElements ==
  ASSUME NEW S, NEW a \in Seq(S), NEW e \in S
  PROVE  /\ Len(<<e>> \o a \o <<e>>) = Len(a) + 2
         /\ \A k \in 1..Len(a) : (<<e>> \o a \o <<e>>)[k + 1] = a[k]
<1>1. <<e>> \in Seq(S) /\ Len(<<e>>) = 1
  OBVIOUS
<1> DEFINE c == <<e>> \o a
<1>2. c \in Seq(S) /\ Len(c) = 1 + Len(a) /\ \A k \in 1..Len(a) : c[1 + k] = a[k]
  BY <1>1, JoinedElements
<1> HIDE DEF c
<1>3. Len(c \o <<e>>) = Len(c) + 1 /\ \A k \in 1..Len(c) : (c \o <<e>>)[k] = c[k]
  BY <1>1, <1>2, JoinedElements
<1>4. Len(a) \in Nat
  OBVIOUS
<1>5. Len(c \o <<e>>) = Len(a) + 2
  BY <1>2, <1>3, <1>4
<1>6. ASSUME NEW k \in 1..Len(a) PROVE (c \o <<e>>)[k + 1] = a[k]
  <2>1. k + 1 \in 1..Len(c) /\ k + 1 = 1 + k
    BY <1>2, <1>4
  <2> QED BY <1>2, <1>3, <2>1, Zenon
<1> QED BY <1>5, <1>6 DEF c

\* Where in its frame the code of each byte of p ends; END comes before the first.
Layout(p, o) ==
  /\ o \in [0..Len(p) -> Nat] /\ o[0] = 1
  /\ Len(Encode(p)) = o[Len(p)] + 1
  /\ \A j \in 0..(Len(p) - 1) :
       /\ o[j + 1] = o[j] + Len(Escape(p[j + 1]))
       /\ \A k \in 1..Len(Escape(p[j + 1])) : Encode(p)[o[j] + k] = Escape(p[j + 1])[k]

Ends(p) == CHOOSE o : Layout(p, o)

\* A byte is its own code, or ESC and another byte.
LEMMA EscapeCases ==
  ASSUME NEW b \in Byte
  PROVE  /\ Escape(b) \in Seq(Byte) /\ Len(Escape(b)) \in {1, 2} /\ Escape(b)[1] # END
         /\ Len(Escape(b)) = 1 => Escape(b)[1] = b /\ b # END /\ b # ESC
         /\ Len(Escape(b)) = 2 =>
              /\ Escape(b)[1] = ESC /\ Escape(b)[2] # END
              /\ \/ b = END /\ Escape(b)[2] = ESC_END
                 \/ b = ESC /\ Escape(b)[2] = ESC_ESC
<1>1. ESC \in Byte /\ ESC_END \in Byte /\ ESC_ESC \in Byte
  BY DEF Byte, Special
<1>2. CASE b = END
  <2>1. Escape(b) = <<ESC, ESC_END>>
    BY <1>2 DEF Escape
  <2>2. /\ Escape(b) \in Seq(Byte) /\ Len(Escape(b)) = 2
        /\ Escape(b)[1] = ESC /\ Escape(b)[2] = ESC_END
    BY <1>1, <2>1
  <2> QED BY <1>2, <2>2, SpecialsDiffer
<1>3. CASE b = ESC
  <2>1. Escape(b) = <<ESC, ESC_ESC>>
    BY <1>3, SpecialsDiffer DEF Escape
  <2>2. /\ Escape(b) \in Seq(Byte) /\ Len(Escape(b)) = 2
        /\ Escape(b)[1] = ESC /\ Escape(b)[2] = ESC_ESC
    BY <1>1, <2>1
  <2> QED BY <1>3, <2>2, SpecialsDiffer
<1>4. CASE b # END /\ b # ESC
  <2>1. Escape(b) = <<b>>
    BY <1>4 DEF Escape
  <2>2. Escape(b) \in Seq(Byte) /\ Len(Escape(b)) = 1 /\ Escape(b)[1] = b
    BY <2>1
  <2> QED BY <1>4, <2>2
<1> QED BY <1>2, <1>3, <1>4

\* The partial results of joining s are sequences, each the beginning of the next ones.
LEMMA JoinedPrefix ==
  ASSUME NEW S, NEW s, NEW n \in Nat, NEW g, Joined(s, g, n), \A i \in 1..n : s[i] \in Seq(S)
  PROVE  /\ \A i \in 1..n : g[i] \in Seq(S)
         /\ \A i \in 1..n : \A j \in i..n :
              Len(g[i]) =< Len(g[j]) /\ \A k \in 1..Len(g[i]) : g[j][k] = g[i][k]
<1>1. \A i \in 1..n : g[i] = IF i = 1 THEN s[i] ELSE g[i - 1] \o s[i]
  <2>1. g = [i \in 1..n |-> IF i = 1 THEN s[i] ELSE g[i - 1] \o s[i]]
    BY DEF Joined
  <2> QED BY <2>1, Zenon
<1> DEFINE Extends(i, j) == Len(g[i]) =< Len(g[j]) /\ \A k \in 1..Len(g[i]) : g[j][k] = g[i][k]
           Begins(j) == \A i \in 1..j : g[i] \in Seq(S) /\ Extends(i, j)
           T == {j \in Nat : j \in 1..n => Begins(j)}
<1>2. 0 \in T
  OBVIOUS
<1>3. ASSUME NEW j \in Nat, j \in T PROVE j + 1 \in T
  <2> SUFFICES ASSUME j + 1 \in 1..n PROVE Begins(j + 1)
    OBVIOUS
  <2>1. s[j + 1] \in Seq(S)
    OBVIOUS
  <2>2. CASE j = 0
    <3>1. g[1] = s[1] /\ g[1] \in Seq(S)
      BY <1>1, <2>1, <2>2
    <3>2. Extends(1, 1)
      BY <3>1
    <3>3. \A i \in 1..1 : i = 1
      OBVIOUS
    <3>4. Begins(1)
      BY <3>1, <3>2, <3>3, Zenon
    <3>5. j + 1 = 1
      BY <2>2
    <3> HIDE DEF Begins
    <3> QED BY <3>4, <3>5, Zenon
  <2>3. CASE j # 0
    <3>1. j \in 1..n /\ j + 1 # 1 /\ (j + 1) - 1 = j
      BY <2>3
    <3>2. \A i \in 1..j : g[i] \in Seq(S) /\ Extends(i, j)
      BY <1>3, <3>1
    <3>3. g[j + 1] = g[j] \o s[j + 1]
      BY <1>1, <3>1
    <3>4. g[j] \in Seq(S)
      BY <3>1, <3>2
    <3>5. /\ g[j + 1] \in Seq(S) /\ Len(g[j]) =< Len(g[j + 1])
          /\ \A k \in 1..Len(g[j]) : g[j + 1][k] = g[j][k]

      <4> DEFINE u == g[j]
                 v == s[j + 1]
      <4>1. u \in Seq(S) /\ v \in Seq(S) /\ g[j + 1] = u \o v
        BY <2>1, <3>3, <3>4
      <4> HIDE DEF u, v
      <4>2. /\ u \o v \in Seq(S) /\ Len(u) =< Len(u \o v)
            /\ \A k \in 1..Len(u) : (u \o v)[k] = u[k]
        BY <4>1, JoinedElements
      <4>3. /\ g[j + 1] \in Seq(S) /\ Len(u) =< Len(g[j + 1])
            /\ \A k \in 1..Len(u) : g[j + 1][k] = u[k]
        BY <4>1, <4>2, Zenon
      <4> QED BY <4>3, Zenon DEF u
    <3>6. ASSUME NEW i \in 1..(j + 1) PROVE g[i] \in Seq(S) /\ Extends(i, j + 1)
      <4>1. CASE i = j + 1
        BY <3>5, <4>1
      <4>2. CASE i # j + 1
        <5>1. i \in 1..j
          BY <4>2
        <5>2. g[i] \in Seq(S) /\ Extends(i, j)
          BY <3>2, <5>1
        <5> QED BY <3>4, <3>5, <5>2
      <4> QED BY <4>1, <4>2
    <3> HIDE DEF Extends
    <3> QED BY <3>6
  <2> QED BY <2>2, <2>3
<1>4. Nat \subseteq T
  BY <1>2, <1>3, SetInduction
<1>5. ASSUME NEW j \in 1..n PROVE Begins(j)
  <2>1. j \in T
    BY <1>4
  <2> QED BY <2>1
<1> QED BY <1>5

\* The code of a frame is laid out byte after byte.
LEMMA EncodeLayout ==
  ASSUME NEW p \in Payloads
  PROVE  Layout(p, Ends(p))
<1> DEFINE s == [i \in DOMAIN p |-> Escape(p[i])]
           n == Len(p)
<1>1. p \in Seq(Byte) /\ p # <<>>
  BY PayloadAssumption
<1>2. n \in Nat \ {0} /\ DOMAIN p = 1..n /\ \A i \in 1..n : p[i] \in Byte
  BY <1>1, EmptySeq
<1>3. Len(s) = n /\ \A i \in 1..n : s[i] = Escape(p[i])
  BY <1>2
<1>4. \A i \in 1..n : s[i] \in Seq(Byte)
  BY <1>2, <1>3, EscapeCases
<1>5. PICK g : Joined(s, g, Len(s)) /\ FlattenSeq(s) = g[Len(s)]
  <2>1. Len(s) \in Nat \ {0}
    BY <1>2, <1>3, Zenon
  <2> HIDE DEF s
  <2> QED BY <2>1, FlattenIsJoined
<1> HIDE DEF s
<1>6. Joined(s, g, n) /\ FlattenSeq(s) = g[n]
  BY <1>3, <1>5, Zenon
<1>7. Encode(p) = <<END>> \o g[n] \o <<END>>
  BY <1>6 DEF Encode, s
<1> HIDE DEF n
<1>8. /\ \A i \in 1..n : g[i] \in Seq(Byte)
      /\ \A i \in 1..n : \A j \in i..n :
           Len(g[i]) =< Len(g[j]) /\ \A k \in 1..Len(g[i]) : g[j][k] = g[i][k]
  BY <1>2, <1>4, <1>6, JoinedPrefix
<1>9. \A i \in 1..n : g[i] = IF i = 1 THEN s[i] ELSE g[i - 1] \o s[i]
  <2>1. g = [i \in 1..n |-> IF i = 1 THEN s[i] ELSE g[i - 1] \o s[i]]
    BY <1>6 DEF Joined
  <2> QED BY <2>1, Zenon
<1>10. /\ g[n] \in Seq(Byte)
       /\ Len(Encode(p)) = Len(g[n]) + 2
       /\ \A k \in 1..Len(g[n]) : Encode(p)[k + 1] = g[n][k]
  <2>1. g[n] \in Seq(Byte) /\ END \in Byte
    BY <1>2, <1>8 DEF Byte, Special
  <2> DEFINE c == g[n]
  <2>2. c \in Seq(Byte) /\ END \in Byte /\ Encode(p) = <<END>> \o c \o <<END>>
    BY <1>7, <2>1
  <2> HIDE DEF c
  <2>3. Len(Encode(p)) = Len(c) + 2 /\ \A k \in 1..Len(c) : Encode(p)[k + 1] = c[k]
    BY <2>2, FramedElements
  <2> QED BY <2>2, <2>3, Zenon DEF c
<1> DEFINE o == [j \in 0..n |-> IF j = 0 THEN 1 ELSE 1 + Len(g[j])]
<1>11. o[0] = 1 /\ \A j \in 1..n : o[j] = 1 + Len(g[j])
  BY <1>2
<1>12. o \in [0..n -> Nat]
  BY <1>8
<1> HIDE DEF o
<1>13. Len(Encode(p)) = o[n] + 1
  <2>1. o[n] = 1 + Len(g[n]) /\ Len(g[n]) \in Nat
    BY <1>2, <1>10, <1>11
  <2> QED BY <1>10, <2>1
<1>14. ASSUME NEW j \in 0..(n - 1)
       PROVE  /\ o[j + 1] = o[j] + Len(Escape(p[j + 1]))
              /\ \A k \in 1..Len(Escape(p[j + 1])) : Encode(p)[o[j] + k] = Escape(p[j + 1])[k]
  <2>1. j + 1 \in 1..n /\ s[j + 1] = Escape(p[j + 1]) /\ s[j + 1] \in Seq(Byte)
        /\ g[j + 1] \in Seq(Byte) /\ o[j + 1] = 1 + Len(g[j + 1])
        /\ Len(g[j + 1]) \in Nat /\ Len(g[j + 1]) =< Len(g[n])
        /\ \A k \in 1..Len(g[j + 1]) : g[n][k] = g[j + 1][k]
    <3>1. j + 1 \in 1..n /\ n \in (j + 1)..n
      BY <1>2
    <3> QED BY <1>3, <1>4, <1>8, <1>11, <3>1
  <2>2. PICK a : /\ a \in Nat /\ o[j] = 1 + a
                 /\ Len(g[j + 1]) = a + Len(s[j + 1])
                 /\ \A k \in 1..Len(s[j + 1]) : g[j + 1][a + k] = s[j + 1][k]
    <3>1. CASE j = 0
      <4>1. g[j + 1] = s[j + 1]
        BY <1>9, <2>1, <3>1
      <4>2. o[j] = 1 + 0
        BY <1>11, <3>1
      <4>3. Len(g[j + 1]) = 0 + Len(s[j + 1])
            /\ \A k \in 1..Len(s[j + 1]) : g[j + 1][0 + k] = s[j + 1][k]
        BY <2>1, <4>1
      <4> QED BY <4>2, <4>3
    <3>2. CASE j # 0
      <4>1. j \in 1..n /\ j + 1 # 1 /\ (j + 1) - 1 = j
        BY <1>2, <3>2
      <4>2. g[j + 1] = g[j] \o s[j + 1]
        BY <1>9, <2>1, <4>1
      <4>3. g[j] \in Seq(Byte)
        BY <1>8, <4>1
      <4>4. Len(g[j]) \in Nat /\ o[j] = 1 + Len(g[j])
        BY <1>11, <4>1, <4>3
      <4>5. /\ Len(g[j + 1]) = Len(g[j]) + Len(s[j + 1])
            /\ \A k \in 1..Len(s[j + 1]) : g[j + 1][Len(g[j]) + k] = s[j + 1][k]
        <5> DEFINE u == g[j]
                   v == s[j + 1]
        <5>1. u \in Seq(Byte) /\ v \in Seq(Byte) /\ g[j + 1] = u \o v
          BY <2>1, <4>2, <4>3
        <5> HIDE DEF u, v
        <5>2. /\ Len(g[j + 1]) = Len(u) + Len(v)
              /\ \A k \in 1..Len(v) : g[j + 1][Len(u) + k] = v[k]
          BY <5>1, JoinedElements
        <5> QED BY <5>2, Zenon DEF u, v
      <4> QED BY <4>4, <4>5
    <3> QED BY <3>1, <3>2
  <2>3. PICK m \in Nat : m = Len(s[j + 1])
    BY <2>1
  <2>4. PICK l \in Nat : l = Len(g[n])
    BY <1>10
  <2>5. Len(g[j + 1]) = a + m /\ a + m =< l /\ o[j + 1] = 1 + (a + m)
    BY <2>1, <2>2, <2>3, <2>4, Zenon
  <2>6. o[j + 1] = o[j] + m
    BY <2>2, <2>5
  <2>7. ASSUME NEW k \in 1..m PROVE Encode(p)[o[j] + k] = s[j + 1][k]
    <3>1. a + k \in 1..(a + m) /\ a + k \in 1..l /\ (a + k) + 1 = (1 + a) + k
      BY <2>2, <2>5
    <3>2. g[j + 1][a + k] = s[j + 1][k]
      BY <2>2, <2>3, Zenon
    <3>3. g[n][a + k] = g[j + 1][a + k]
      BY <2>1, <2>5, <3>1, Zenon
    <3>4. Encode(p)[(a + k) + 1] = g[n][a + k]
      BY <1>10, <2>4, <3>1, Zenon
    <3> QED BY <2>2, <3>1, <3>2, <3>3, <3>4, Zenon
  <2> QED BY <2>1, <2>3, <2>6, <2>7, Zenon
<1>15. Layout(p, o)
  <2>1. o \in [0..Len(p) -> Nat] /\ Len(Encode(p)) = o[Len(p)] + 1
    BY <1>12, <1>13 DEF n
  <2>2. \A j \in 0..(Len(p) - 1) :
          /\ o[j + 1] = o[j] + Len(Escape(p[j + 1]))
          /\ \A k \in 1..Len(Escape(p[j + 1])) : Encode(p)[o[j] + k] = Escape(p[j + 1])[k]
    BY <1>14, Zenon DEF n
  <2> QED BY <1>11, <2>1, <2>2, Zenon DEF Layout
<1> QED BY <1>15, Zenon DEF Ends

\* How many frames went to the code or were lost, and frame number k, which did not.
Gone == frames - Len(inbox)
Sent(k) == inbox[k - Gone]
Code(k) == Encode(Sent(k))

\* The decoder has got to the byte at place q of the frame that carries p.
At(p, q) ==
  /\ s_state # "NO_FRAME" /\ s_rx_len =< Len(p)
  /\ \A i \in 1..s_rx_len : buffer[s_rx_buf][i] = p[i]
  /\ s_state = "IN_FRAME" => q = Ends(p)[s_rx_len] + 1
  /\ s_state = "ESCAPING" => /\ s_rx_len < Len(p) /\ Len(Escape(p[s_rx_len + 1])) = 2
                             /\ q = Ends(p)[s_rx_len] + 2

\* Storing the next byte of p, if there is room for it, brings the decoder past its code.
LEMMA NextByteStored ==
  ASSUME IInv, NEW p \in Payloads, NEW q \in Nat, s_state # "NO_FRAME", s_rx_len < Len(p),
         \A i \in 1..s_rx_len : buffer[s_rx_buf][i] = p[i],
         RxPut(p[s_rx_len + 1]), q = Ends(p)[s_rx_len + 1] + 1
  PROVE  Failed \/ (Absorbed /\ At(p, q)')
<1>0. TypeOK /\ DecoderInBounds /\ ArmedBufferIsFree
  BY DEF IInv
<1>1. CASE s_rx_len < s_rx_cap
  <2>1. s_rx_buf \in Idx /\ s_rx_buf = s_rx_idx /\ s_rx_len \in Nat /\ s_rx_len + 1 \in 1..FRAME_BUFFER_SIZE
    BY <1>0, <1>1 DEF TypeOK, DecoderInBounds, ArmedBufferIsFree
  <2>2. /\ buffer' = [buffer EXCEPT ![s_rx_buf][s_rx_len + 1] = p[s_rx_len + 1]]
        /\ s_rx_len' = s_rx_len + 1 /\ s_state' = "IN_FRAME"
        /\ UNCHANGED <<s_rx_buf, frame_complete>>
    BY <1>1 DEF RxPut, flagVars
  <2>3. Absorbed
    <3>1. Absorbed \/ Failed
      BY <1>0, RxPutOutcome
    <3> QED BY <2>1, <2>2, <3>1 DEF Failed
  <2>4. ASSUME NEW i \in 1..(s_rx_len + 1) PROVE buffer'[s_rx_buf][i] = p[i]
    <3>1. buffer \in [Idx -> [1..FRAME_BUFFER_SIZE -> Byte]]
      BY <1>0 DEF TypeOK
    <3>2. i \in 1..FRAME_BUFFER_SIZE
      BY <2>1
    <3>3. buffer'[s_rx_buf] = [buffer[s_rx_buf] EXCEPT ![s_rx_len + 1] = p[s_rx_len + 1]]
      BY <2>1, <2>2, <3>1
    <3>4. CASE i = s_rx_len + 1
      BY <2>1, <3>1, <3>3, <3>4
    <3>5. CASE i # s_rx_len + 1
      <4>1. buffer'[s_rx_buf][i] = buffer[s_rx_buf][i]
        BY <2>1, <3>1, <3>2, <3>3, <3>5
      <4>2. i \in 1..s_rx_len
        BY <2>1, <3>5
      <4> QED BY <4>1, <4>2
    <3> QED BY <3>4, <3>5
  <2>5. s_rx_len + 1 =< Len(p)
    <3>1. Len(p) \in Nat
      BY PayloadAssumption
    <3> QED BY <2>1, <3>1
  <2> QED BY <2>2, <2>3, <2>4, <2>5 DEF At
<1>2. CASE ~(s_rx_len < s_rx_cap)
  <2>1. Abort
    BY <1>2 DEF RxPut
  <2> QED BY <1>0, <2>1, AbortOutcome
<1> QED BY <1>1, <1>2

\* Inside a frame the decoder takes its next byte, completes it, or gives it up.
LEMMA DecodeStep ==
  ASSUME IInv, NEW p \in Payloads, NEW q \in 1..Len(Encode(p)), At(p, q),
         SlipRecvByte(Encode(p)[q])
  PROVE  \/ q = Len(Encode(p)) /\ Completed /\ s_rx_len = Len(p)
         \/ q < Len(Encode(p)) /\ (Failed \/ (Absorbed /\ At(p, q + 1)'))
<1> DEFINE b == Encode(p)[q]
           j == s_rx_len
<1>0. TypeOK /\ DecoderInBounds /\ ArmedBufferIsFree
  BY DEF IInv
<1>1. /\ p \in Seq(Byte) /\ p # <<>> /\ Len(p) \in Nat \ {0}
      /\ \A i \in 1..Len(p) : p[i] \in Byte
  <2>1. p \in Seq(Byte) /\ p # <<>>
    BY PayloadAssumption
  <2> QED BY <2>1, EmptySeq
<1>2. Layout(p, Ends(p))
  BY EncodeLayout
<1>3. /\ Encode(p) \in Seq(Byte) /\ Len(Encode(p)) \in Nat
      /\ b \in Byte /\ Encode(p)[Len(Encode(p))] = END
  BY EncodeShape
<1>4. j \in 0..Len(p) /\ Ends(p)[j] \in Nat
  <2>1. j \in Nat /\ j =< Len(p)
    BY <1>0 DEF TypeOK, At
  <2>2. j \in 0..Len(p)
    BY <1>1, <2>1
  <2>3. Ends(p) \in [0..Len(p) -> Nat]
    BY <1>2, Zenon DEF Layout
  <2> QED BY <2>2, <2>3, Zenon
<1>5. s_state \in {"IN_FRAME", "ESCAPING"}
  BY <1>0 DEF TypeOK, At
<1>6. /\ ~NoFrameByte(b)
      /\ s_state = "IN_FRAME" => InFrameByte(b)
      /\ s_state = "ESCAPING" => EscapedByte(b)
  BY <1>5 DEF SlipRecvByte, NoFrameByte, InFrameByte, EscapedByte
<1> HIDE DEF b
<1>7. CASE j = Len(p)
  <2>1. s_state = "IN_FRAME"
    BY <1>1, <1>4, <1>5, <1>7 DEF At
  <2>2. q = Len(Encode(p))
    BY <1>2, <1>7, <2>1 DEF At, Layout
  <2>3. b = END
    BY <1>3, <2>2 DEF b
  <2>4. CloseFrame
    BY <1>6, <2>1, <2>3, InFrameCases
  <2>5. Completed
    BY <1>0, <1>1, <1>4, <1>7, <2>4 DEF CloseFrame, MarkComplete, Completed, TypeOK, DecoderInBounds, At
  <2> QED BY <1>7, <2>2, <2>5
<1>8. CASE j # Len(p)
  <2> DEFINE c == p[j + 1]
             m == Len(Escape(c))
  <2>1. j \in 0..(Len(p) - 1) /\ j + 1 \in 1..Len(p) /\ c \in Byte /\ s_rx_len < Len(p)
    <3>1. j \in 0..(Len(p) - 1) /\ j + 1 \in 1..Len(p) /\ s_rx_len < Len(p)
      BY <1>1, <1>4, <1>8
    <3> QED BY <1>1, <3>1
  <2>2. /\ Ends(p)[j + 1] = Ends(p)[j] + m
        /\ \A k \in 1..m : Encode(p)[Ends(p)[j] + k] = Escape(c)[k]
    BY <1>2, <2>1 DEF Layout
  <2> HIDE DEF c
  <2>3. /\ m \in {1, 2} /\ Escape(c)[1] # END
        /\ m = 1 => Escape(c)[1] = c /\ c # END /\ c # ESC
        /\ m = 2 => /\ Escape(c)[1] = ESC /\ Escape(c)[2] # END
                    /\ (c = END /\ Escape(c)[2] = ESC_END) \/ (c = ESC /\ Escape(c)[2] = ESC_ESC)
    BY <2>1, EscapeCases
  <2> HIDE DEF m
  <2>4. CASE s_state = "IN_FRAME"
    <3>1. q = Ends(p)[j] + 1
      BY <2>4 DEF At
    <3>2. b = Escape(c)[1] /\ b # END
      BY <2>2, <2>3, <3>1 DEF b
    <3>3. q < Len(Encode(p))
      <4>1. q # Len(Encode(p))
        BY <1>3, <3>2 DEF b
      <4> QED BY <1>3, <4>1
    <3>4. CASE m = 2
      <4>1. b = ESC
        BY <2>3, <3>2, <3>4
      <4>2. s_state' = "ESCAPING" /\ UNCHANGED <<s_rx_buf, s_rx_len, s_rx_cap, bufVars>>
        BY <1>6, <2>4, <4>1, InFrameCases
      <4>3. Absorbed
        BY <1>0, <2>4, <4>2 DEF Absorbed, DecoderInBounds, bufVars
      <4>4. q + 1 = Ends(p)[j] + 2
        BY <1>4, <3>1
      <4>5. buffer' = buffer /\ s_rx_buf' = s_rx_buf /\ s_rx_len' = s_rx_len
        BY <4>2 DEF bufVars
      <4>6. At(p, q + 1)'
        BY <2>1, <3>4, <4>2, <4>4, <4>5 DEF At, c, m
      <4> QED BY <3>3, <4>3, <4>6
    <3>5. CASE m = 1
      <4>1. b = c /\ b # END /\ b # ESC
        BY <2>3, <3>2, <3>5
      <4>2. RxPut(c)
        BY <1>6, <2>4, <4>1, InFrameCases
      <4>3. q + 1 = Ends(p)[j + 1] + 1 /\ q + 1 \in Nat
        BY <1>4, <2>2, <3>1, <3>5
      <4>4. Failed \/ (Absorbed /\ At(p, q + 1)')
        BY <2>1, <2>4, <4>2, <4>3, NextByteStored DEF At, c
      <4> QED BY <3>3, <4>4
    <3> QED BY <2>3, <3>4, <3>5
  <2>5. CASE s_state = "ESCAPING"
    <3>1. q = Ends(p)[j] + 2 /\ m = 2
      BY <2>5 DEF At, c, m
    <3>2. b = Escape(c)[2] /\ b # END
      BY <2>2, <2>3, <3>1 DEF b
    <3>3. q < Len(Encode(p))
      <4>1. q # Len(Encode(p))
        BY <1>3, <3>2 DEF b
      <4> QED BY <1>3, <4>1
    <3>4. RxPut(c)
      <4>1. EscapedByte(b)
        BY <1>6, <2>5
      <4>2. CASE c = END /\ Escape(c)[2] = ESC_END
        BY <3>2, <4>1, <4>2 DEF EscapedByte
      <4>3. CASE c = ESC /\ Escape(c)[2] = ESC_ESC
        BY <3>2, <4>1, <4>3 DEF EscapedByte
      <4> QED BY <2>3, <3>1, <4>2, <4>3
    <3>5. q + 1 = Ends(p)[j + 1] + 1 /\ q + 1 \in Nat
      BY <1>4, <2>2, <3>1
    <3>6. Failed \/ (Absorbed /\ At(p, q + 1)')
      BY <2>1, <2>5, <3>4, <3>5, NextByteStored DEF At, c
    <3> QED BY <3>3, <3>6
  <2> QED BY <1>5, <2>4, <2>5
<1> QED BY <1>7, <1>8

\* The bytes on the line: byte n is at place pos[n] of the frame num[n].  Every frame
\* is there to its end, and they follow each other in the order they were sent in.
LineHolds(num, pos) ==
  /\ num \in [1..Len(wire) -> Nat] /\ pos \in [1..Len(wire) -> Nat]
  /\ \A n \in 1..Len(wire) :
       /\ Gone < num[n] /\ num[n] =< frames
       /\ pos[n] \in 1..Len(Code(num[n])) /\ wire[n] = Code(num[n])[pos[n]]
       /\ pos[n] = Len(Code(num[n])) /\ n < Len(wire) => pos[n + 1] = 1
       /\ pos[n] < Len(Code(num[n])) =>
            n < Len(wire) /\ num[n + 1] = num[n] /\ pos[n + 1] = pos[n] + 1
  /\ \A n, m \in 1..Len(wire) :
       n < m => num[n] =< num[m] /\ (pos[n] = Len(Code(num[n])) => num[n] < num[m])

\* The decoder is between two frames, although it may take the end of one for the
\* beginning of another, or inside one that the line still carries.
Between(pos)  == s_state = "IN_FRAME" /\ s_rx_len = 0 /\ (wire # <<>> => pos[1] = 1)
Within(num, pos) == wire # <<>> /\ At(Sent(num[1]), pos[1])
DecoderHolds(num, pos) == s_state = "NO_FRAME" \/ Between(pos) \/ Within(num, pos)

\* A complete frame that the stub has still to hand to its code.
Unread(i) == frame_complete[i] /\ (i = s_rx_idx \/ pc \in SwitchLabels \cup {"arm_cap", "handle", "ack"})

\* It is the frame N[i], and older than what was received or sent after it.
FramesHold(num, N) ==
  /\ N \in [Idx -> Nat]
  /\ \A i \in Idx : Unread(i) =>
       /\ Gone < N[i] /\ N[i] =< frames /\ FrameIn(i) = Sent(N[i])
       /\ \A n \in 1..Len(wire) : N[i] < num[n]
  /\ Unread(Other) /\ Unread(s_rx_idx) => N[Other] < N[s_rx_idx]

Intact(num, pos, N) == LineHolds(num, pos) /\ DecoderHolds(num, pos) /\ FramesHold(num, N)

\* A frame is not both whole and broken, and only a whole one gets to the code.
Exclusive == \A i \in Idx : ~(frame_complete[i] /\ frame_error[i])
Selected ==
  /\ pc \in RearmLabels /\ caller # "boot" =>
       state \in {"COMPLETE", "ERROR"} /\ (state = "COMPLETE" => frame_complete[s_proc_idx])
  /\ pc \in {"handle", "ack"} => frame_complete[s_proc_idx]

Counted == /\ wire \in Seq(Byte) /\ inbox \in Seq(Payloads)
           /\ frames \in Nat /\ Len(inbox) =< frames /\ faults = 0 /\ altered = 0

Delivery == /\ IInv /\ Exclusive /\ Selected /\ Counted
            /\ \E num, pos, N : Intact(num, pos, N)

\* The frames that are not gone are the payloads in the inbox.
LEMMA SentPayload ==
  ASSUME Counted
  PROVE  /\ Gone \in Nat /\ Len(inbox) \in Nat /\ Gone + Len(inbox) = frames
         /\ \A k \in Nat : Gone < k /\ k =< frames =>
              k - Gone \in 1..Len(inbox) /\ Sent(k) \in Payloads
<1>1. Len(inbox) \in Nat /\ frames \in Nat /\ Len(inbox) =< frames
  BY DEF Counted
<1>2. Gone \in Nat /\ Gone + Len(inbox) = frames
  BY <1>1 DEF Gone
<1>3. ASSUME NEW k \in Nat, Gone < k, k =< frames
      PROVE  k - Gone \in 1..Len(inbox) /\ Sent(k) \in Payloads
  <2>1. k - Gone \in 1..Len(inbox)
    BY <1>1, <1>2, <1>3
  <2> QED BY <2>1 DEF Counted, Sent
<1> QED BY <1>1, <1>2, <1>3

\* Handing over a frame that is in the inbox takes it and the older ones out of it,
\* and possibly less, when the same payload was sent before.
LEMMA HandOverTakes ==
  ASSUME Counted, HandOver, UNCHANGED frames, NEW k \in Nat, Gone < k, k =< frames,
         FrameIn(s_proc_idx) = Sent(k)
  PROVE  /\ UNCHANGED altered /\ inbox' \in Seq(Payloads) /\ Len(inbox') =< frames
         /\ Gone =< Gone' /\ Gone' =< k
         /\ \A l \in Nat : Gone' < l /\ l =< frames => Sent(l)' = Sent(l)
<1> DEFINE I == {j \in 1..Len(inbox) : inbox[j] = FrameIn(s_proc_idx)}
<1>1. Gone \in Nat /\ Len(inbox) \in Nat /\ Gone + Len(inbox) = frames /\ k - Gone \in I
  BY SentPayload DEF Sent
<1>2. PICK i \in I : \A j \in I : i =< j
  <2>1. I \subseteq Nat /\ I # {}
    BY <1>1
  <2> HIDE DEF I
  <2> QED BY <2>1, LeastElement
<1>3. SelectInSeq(inbox, LAMBDA p : p = FrameIn(s_proc_idx)) = i
  <2>1. (CHOOSE x \in I : \A y \in I : x =< y) = i
    BY <1>2
  <2> QED BY <1>1, <2>1 DEF SelectInSeq, Min
<1>4. i \in 1..Len(inbox) /\ i > 0 /\ i =< k - Gone
  BY <1>1, <1>2
<1>5. inbox' = SubSeq(inbox, i + 1, Len(inbox)) /\ UNCHANGED altered
  BY <1>3, <1>4 DEF HandOver
<1>6. inbox \in Seq(Payloads)
  BY DEF Counted
<1> HIDE DEF I
<1>7. /\ inbox' \in Seq(Payloads) /\ Len(inbox') = Len(inbox) - i
      /\ \A j \in 1..(Len(inbox) - i) : inbox'[j] = inbox[i + j]
  <2>1. i + 1 \in 1..(Len(inbox) + 1) /\ Len(inbox) \in ((i + 1) - 1)..Len(inbox)
    BY <1>1, <1>4
  <2>2. /\ inbox' \in Seq(Payloads) /\ Len(inbox') = Len(inbox) - (i + 1) + 1
        /\ \A j \in 1..(Len(inbox) - (i + 1) + 1) : inbox'[j] = inbox[(i + 1) + j - 1]
    BY <1>5, <1>6, <2>1, SubSeqProperties
  <2>3. Len(inbox) - (i + 1) + 1 = Len(inbox) - i
    BY <1>1, <1>4
  <2>4. \A j \in 1..(Len(inbox) - i) : (i + 1) + j - 1 = i + j
    BY <1>1, <1>4
  <2>5. /\ inbox' \in Seq(Payloads) /\ Len(inbox') = Len(inbox) - i
        /\ \A j \in 1..(Len(inbox) - i) : inbox'[j] = inbox[(i + 1) + j - 1]
    BY <2>2, <2>3, Zenon
  <2> QED BY <2>4, <2>5, Zenon
<1>8. Gone' = Gone + i
  BY <1>1, <1>4, <1>7 DEF Gone
<1>9. ASSUME NEW l \in Nat, Gone' < l, l =< frames PROVE Sent(l)' = Sent(l)
  <2>1. l - Gone' \in 1..(Len(inbox) - i) /\ i + (l - Gone') = l - Gone
    BY <1>1, <1>4, <1>8, <1>9
  <2>2. inbox'[l - Gone'] = inbox[i + (l - Gone')]
    BY <1>7, <2>1, Zenon
  <2> QED BY <2>1, <2>2, Zenon DEF Sent
<1>10. Len(inbox') =< frames /\ Gone =< Gone' /\ Gone' =< k
  BY <1>1, <1>4, <1>7, <1>8
<1> QED BY <1>5, <1>7, <1>9, <1>10

\* The byte at the head of the line is taken: the others move up.
LEMMA TailHolds ==
  ASSUME Counted, NEW num, NEW pos, LineHolds(num, pos), wire # <<>>, wire' = Tail(wire),
         UNCHANGED <<inbox, frames>>,
         NEW num2 \in [1..(Len(wire) - 1) -> Nat], NEW pos2 \in [1..(Len(wire) - 1) -> Nat],
         \A n \in 1..(Len(wire) - 1) : num2[n] = num[n + 1] /\ pos2[n] = pos[n + 1]
  PROVE  /\ LineHolds(num2, pos2)'
         /\ wire' # <<>> => num2[1] = num[2] /\ pos2[1] = pos[2]
         /\ \A n \in 1..Len(wire') : n + 1 \in 1..Len(wire) /\ num2[n] = num[n + 1]
         /\ wire' # <<>> <=> 1 < Len(wire)
         /\ Gone' = Gone /\ \A k : Sent(k)' = Sent(k) /\ Code(k)' = Code(k)
<1>1. /\ Len(wire) \in Nat \ {0} /\ wire' \in Seq(Byte) /\ Len(wire') = Len(wire) - 1
      /\ \A n \in 1..Len(wire') : wire'[n] = wire[n + 1]
  <2>1. wire \in Seq(Byte)
    BY DEF Counted
  <2>2. Len(wire) \in Nat \ {0}
    BY <2>1, EmptySeq
  <2> QED BY <2>1, <2>2, HeadTailProperties
<1>2. Gone' = Gone
  BY DEF Gone
<1>3. \A k : Sent(k)' = Sent(k) /\ Code(k)' = Code(k)
  BY <1>2 DEF Sent, Code
<1>4. wire' # <<>> <=> 1 < Len(wire)
  <2>1. wire' = <<>> <=> Len(wire') = 0
    BY <1>1, EmptySeq
  <2>2. Len(wire) \in Nat \ {0} /\ Len(wire') = Len(wire) - 1
    BY <1>1, Zenon
  <2>3. Len(wire') = 0 <=> ~(1 < Len(wire))
    BY <2>2
  <2> QED BY <2>1, <2>3, Zenon
<1>5. \A n \in 1..Len(wire') : /\ n + 1 \in 1..Len(wire) /\ n \in 1..(Len(wire) - 1)
                               /\ num2[n] = num[n + 1] /\ pos2[n] = pos[n + 1]
  BY <1>1
<1>6. wire' # <<>> => num2[1] = num[2] /\ pos2[1] = pos[2]
  BY <1>1, <1>4
<1>7. num2 \in [1..Len(wire') -> Nat] /\ pos2 \in [1..Len(wire') -> Nat]
  BY <1>1 DEF LineHolds
<1>8. ASSUME NEW n \in 1..Len(wire')
      PROVE  /\ Gone < num2[n] /\ num2[n] =< frames
             /\ pos2[n] \in 1..Len(Code(num2[n])) /\ wire'[n] = Code(num2[n])[pos2[n]]
             /\ pos2[n] = Len(Code(num2[n])) /\ n < Len(wire') => pos2[n + 1] = 1
             /\ pos2[n] < Len(Code(num2[n])) =>
                  n < Len(wire') /\ num2[n + 1] = num2[n] /\ pos2[n + 1] = pos2[n] + 1
  <2>1. n + 1 \in 1..Len(wire) /\ num2[n] = num[n + 1] /\ pos2[n] = pos[n + 1] /\ wire'[n] = wire[n + 1]
    BY <1>1, <1>5
  <2>2. n < Len(wire') <=> n + 1 < Len(wire)
    BY <1>1
  <2>3. n < Len(wire') => num2[n + 1] = num[(n + 1) + 1] /\ pos2[n + 1] = pos[(n + 1) + 1]
    BY <1>1, <1>5
  <2> QED BY <2>1, <2>2, <2>3 DEF LineHolds
<1>9. ASSUME NEW n \in 1..Len(wire'), NEW m \in 1..Len(wire'), n < m
      PROVE  num2[n] =< num2[m] /\ (pos2[n] = Len(Code(num2[n])) => num2[n] < num2[m])
  <2>1. n + 1 \in 1..Len(wire) /\ m + 1 \in 1..Len(wire) /\ n + 1 < m + 1
    BY <1>1, <1>9
  <2> QED BY <1>5, <2>1 DEF LineHolds
<1>10. LineHolds(num2, pos2)'
  BY <1>2, <1>3, <1>7, <1>8, <1>9 DEF LineHolds
<1> QED BY <1>2, <1>3, <1>4, <1>5, <1>6, <1>10

\* What a byte that does not complete a frame does to the frames that are complete.
LEMMA FramesStay ==
  ASSUME IInv, Exclusive, NEW num, NEW N, FramesHold(num, N), Absorbed \/ Failed,
         UNCHANGED <<s_rx_idx, pc, inbox, frames>>, NEW num2, Len(wire') \in Nat,
         \A n \in 1..Len(wire') : n + 1 \in 1..Len(wire) /\ num2[n] = num[n + 1]
  PROVE  FramesHold(num2, N)' /\ Exclusive'
<1>0. /\ frame_complete \in [Idx -> BOOLEAN] /\ frame_error \in [Idx -> BOOLEAN] /\ s_rx_idx \in Idx
      /\ s_rx_buf # NULL => ~frame_complete[s_rx_idx] /\ ~frame_error[s_rx_idx]
  BY DEF IInv, TypeOK, ArmedBufferIsFree, Full
<1>1. UNCHANGED <<frame_complete, frame_length>>
  BY DEF Absorbed, Failed
<1>2. \A i \in Idx : frame_complete[i] => frame_error'[i] = frame_error[i]
  BY <1>0 DEF Absorbed, Failed
<1>3. Exclusive'
  BY <1>0, <1>1, <1>2 DEF Exclusive, Absorbed, Failed
<1>4. \A i \in Idx : frame_complete[i] => buffer'[i] = buffer[i]
  BY <1>0 DEF Absorbed, Failed
<1>5. \A i \in Idx : Unread(i)' = Unread(i) /\ (Unread(i) => FrameIn(i)' = FrameIn(i))
  BY <1>1, <1>2, <1>4 DEF Unread, FrameIn
<1>6. Gone' = Gone /\ Other' = Other /\ Other \in Idx /\ \A k : Sent(k)' = Sent(k)
  BY <1>0 DEF Gone, Sent, Other
<1>7. ASSUME NEW i \in Idx, Unread(i)'
      PROVE  /\ Gone' < N[i] /\ N[i] =< frames' /\ FrameIn(i)' = Sent(N[i])'
             /\ \A n \in 1..Len(wire') : N[i] < num2[n]
  BY <1>5, <1>6, <1>7 DEF FramesHold
<1>8. (Unread(Other) /\ Unread(s_rx_idx))' => N[Other'] < N[s_rx_idx']
  BY <1>0, <1>5, <1>6 DEF FramesHold
<1> QED BY <1>3, <1>7, <1>8 DEF FramesHold

\* A completed frame is the one whose last byte was at the head of the line.
LEMMA FrameArrives ==
  ASSUME IInv, IInv', Counted, Exclusive, NEW num, NEW pos, NEW N, LineHolds(num, pos), FramesHold(num, N),
         wire # <<>>, At(Sent(num[1]), pos[1]), pos[1] = Len(Code(num[1])), Completed,
         s_rx_len = Len(Sent(num[1])),
         UNCHANGED <<s_rx_idx, pc, inbox, frames>>, NEW num2, Len(wire') \in Nat,
         \A n \in 1..Len(wire') : n + 1 \in 1..Len(wire) /\ num2[n] = num[n + 1]
  PROVE  Exclusive' /\ \E N2 : FramesHold(num2, N2)'
<1> DEFINE p == Sent(num[1])
           k == num[1]
<1>0. /\ frame_complete \in [Idx -> BOOLEAN] /\ frame_error \in [Idx -> BOOLEAN] /\ s_rx_idx \in Idx
      /\ frame_length \in [Idx -> 0..FRAME_BUFFER_SIZE]
      /\ s_rx_buf = s_rx_idx /\ ~frame_complete[s_rx_idx] /\ ~frame_error[s_rx_idx]
  BY DEF IInv, TypeOK, ArmedBufferIsFree, Full, Completed
<1>1. 1 \in 1..Len(wire) /\ Len(wire) \in Nat
  <2>1. wire \in Seq(Byte)
    BY DEF Counted
  <2> QED BY <2>1, EmptySeq
<1>2. k \in Nat /\ Gone < k /\ k =< frames
  BY <1>1 DEF LineHolds
<1>3. p \in Payloads /\ p = [i \in 1..Len(p) |-> p[i]]
  <2>1. p \in Payloads
    BY <1>2, SentPayload
  <2>2. p \in Seq(Byte)
    BY <2>1, PayloadAssumption
  <2> HIDE DEF p
  <2> QED BY <2>1, <2>2
<1>4. /\ frame_complete' = [frame_complete EXCEPT ![s_rx_idx] = TRUE]
      /\ frame_length' = [frame_length EXCEPT ![s_rx_idx] = s_rx_len]
      /\ UNCHANGED <<frame_error, buffer>>
  BY DEF Completed
<1>5. Exclusive'
  BY <1>0, <1>4 DEF Exclusive
<1>6. FrameIn(s_rx_idx)' = p
  <2>1. ~frame_error'[s_rx_idx'] /\ frame_length'[s_rx_idx'] = Len(p) /\ buffer' = buffer
    BY <1>0, <1>4
  <2>2. FrameIn(s_rx_idx)' = [i \in 1..Len(p) |-> buffer[s_rx_idx][i]]
    BY <2>1 DEF FrameIn
  <2>3. \A i \in 1..Len(p) : buffer[s_rx_idx][i] = p[i]
    BY <1>0 DEF At
  <2> HIDE DEF p
  <2> QED BY <1>3, <2>2, <2>3
<1>7. \A i \in Idx : i # s_rx_idx => Unread(i)' = Unread(i) /\ FrameIn(i)' = FrameIn(i)
  BY <1>0, <1>4 DEF Unread, FrameIn
<1>8. Gone' = Gone /\ Other' = Other /\ Other \in Idx /\ Other # s_rx_idx /\ \A l : Sent(l)' = Sent(l)
  BY <1>0 DEF Gone, Sent, Other
<1>9. \A n \in 1..Len(wire') : k < num2[n]
  <2>1. ASSUME NEW n \in 1..Len(wire') PROVE k < num2[n]
    <3>1. n + 1 \in 1..Len(wire) /\ 1 < n + 1 /\ num2[n] = num[n + 1]
      OBVIOUS
    <3> QED BY <1>1, <3>1 DEF LineHolds
  <2> QED BY <2>1
<1> HIDE DEF p, k
<1>10. PICK N2 \in [Idx -> Nat] : N2[s_rx_idx] = k /\ \A i \in Idx : i # s_rx_idx => N2[i] = N[i]
  <2>1. [N EXCEPT ![s_rx_idx] = k] \in [Idx -> Nat]
    BY <1>0, <1>2 DEF FramesHold
  <2> QED BY <1>0, <2>1 DEF FramesHold
<1>11. ASSUME NEW i \in Idx, Unread(i)'
       PROVE  /\ Gone' < N2[i] /\ N2[i] =< frames' /\ FrameIn(i)' = Sent(N2[i])'
              /\ \A n \in 1..Len(wire') : N2[i] < num2[n]
  <2>1. CASE i = s_rx_idx
    <3>1. Sent(k)' = p
      BY <1>8 DEF p, k
    <3>2. FrameIn(i)' = p
      BY <1>6, <2>1
    <3> QED BY <1>2, <1>8, <1>9, <1>10, <2>1, <3>1, <3>2
  <2>2. CASE i # s_rx_idx
    <3>1. Unread(i) /\ FrameIn(i)' = FrameIn(i) /\ N2[i] = N[i]
      BY <1>7, <1>10, <1>11, <2>2
    <3> QED BY <1>8, <3>1 DEF FramesHold
  <2> QED BY <2>1, <2>2
<1>12. (Unread(Other) /\ Unread(s_rx_idx))' => N2[Other'] < N2[s_rx_idx']
  <2> SUFFICES ASSUME Unread(Other)' PROVE N2[Other] < N2[s_rx_idx]
    BY <1>8
  <2>1. Unread(Other)
    BY <1>7, <1>8 DEF Unread
  <2>2. N[Other] < num[1]
    BY <1>1, <1>8, <2>1 DEF FramesHold
  <2> QED BY <1>8, <1>10, <2>2 DEF k
<1>13. FramesHold(num2, N2)'
  BY <1>10, <1>11, <1>12 DEF FramesHold
<1> QED BY <1>5, <1>13

\* A byte that the line carries whole is decoded as what the host meant by it.
LEMMA ByteDelivers ==
  ASSUME Delivery, IInv', LineByte
  PROVE  Delivery'
<1> DEFINE b == Head(wire)
<1>0. /\ IInv /\ Exclusive /\ Selected /\ Counted
      /\ wire # <<>> /\ wire' = Tail(wire) /\ SlipRecvByte(b)
      /\ UNCHANGED <<inbox, frames, faults, altered>>
  BY DEF LineByte, Delivery
<1>1. PICK num, pos, N : Intact(num, pos, N)
  BY DEF Delivery
<1>2. /\ wire \in Seq(Byte) /\ Len(wire) \in Nat \ {0} /\ b = wire[1] /\ b \in Byte
      /\ wire' \in Seq(Byte) /\ Len(wire') \in Nat /\ 1 \in 1..Len(wire)
  <2>1. wire \in Seq(Byte) /\ wire # <<>>
    BY <1>0 DEF Counted
  <2>2. Len(wire) \in Nat \ {0}
    BY <2>1, EmptySeq
  <2> QED BY <1>0, <2>1, <2>2
<1>3. UNCHANGED <<s_rx_idx, s_proc_idx, pc, caller, state, acquired>>
  BY <1>0, <1>2, ByteOutcome DEF IInv
<1> HIDE DEF b
<1>4. Counted' /\ Gone' = Gone
  BY <1>0, <1>2 DEF Counted, Gone
<1>5. TypeOK /\ DecoderInBounds /\ ArmedBufferIsFree
  BY <1>0 DEF IInv
<1>6. Absorbed \/ Completed \/ Failed
  BY <1>0, <1>2, <1>5, ByteOutcome
<1>7. Selected'
  <2>1. \A i \in Idx : frame_complete[i] => frame_complete'[i]
    BY <1>5, <1>6 DEF Absorbed, Completed, Failed, TypeOK
  <2>2. s_proc_idx \in Idx
    BY <1>5 DEF TypeOK
  <2> QED BY <1>0, <1>3, <2>1, <2>2 DEF Selected
<1>8. /\ LineHolds(num, pos) /\ FramesHold(num, N)
      /\ s_state = "NO_FRAME" \/ Between(pos) \/ Within(num, pos)
  BY <1>1 DEF Intact, DecoderHolds
<1>20. PICK k, q, p : k = num[1] /\ q = pos[1] /\ p = Sent(k)
  OBVIOUS
<1>9. /\ k \in Nat /\ Gone < k /\ k =< frames /\ q \in 1..Len(Encode(p)) /\ b = Encode(p)[q]
      /\ q = Len(Encode(p)) /\ 1 < Len(wire) => pos[2] = 1
      /\ q < Len(Encode(p)) => 1 < Len(wire) /\ num[2] = k /\ pos[2] = q + 1
  BY <1>2, <1>8, <1>20 DEF LineHolds, Code
<1>10. p \in Payloads
  BY <1>0, <1>9, <1>20, SentPayload
<1>11. /\ Len(Encode(p)) \in Nat /\ Len(Encode(p)) >= 3
       /\ b = END => q = 1 \/ q = Len(Encode(p))
       /\ q = 1 => b = END
  <2>1. /\ Encode(p) \in Seq(Byte) /\ Len(Encode(p)) >= 3 /\ Encode(p)[1] = END
        /\ \A j \in 2..(Len(Encode(p)) - 1) : Encode(p)[j] # END
    BY <1>10, EncodeShape
  <2>2. Len(Encode(p)) \in Nat
    BY <2>1
  <2>3. ASSUME q # 1, q # Len(Encode(p)) PROVE b # END
    <3>1. q \in 2..(Len(Encode(p)) - 1)
      BY <1>9, <2>2, <2>3
    <3> QED BY <1>9, <2>1, <3>1
  <2> QED BY <1>9, <2>1, <2>2, <2>3
<1>12. PICK num2 \in [1..(Len(wire) - 1) -> Nat], pos2 \in [1..(Len(wire) - 1) -> Nat] :
         \A n \in 1..(Len(wire) - 1) : num2[n] = num[n + 1] /\ pos2[n] = pos[n + 1]
  <2>1. /\ [n \in 1..(Len(wire) - 1) |-> num[n + 1]] \in [1..(Len(wire) - 1) -> Nat]
        /\ [n \in 1..(Len(wire) - 1) |-> pos[n + 1]] \in [1..(Len(wire) - 1) -> Nat]
    BY <1>2, <1>8 DEF LineHolds
  <2> QED BY <2>1
<1>13. /\ LineHolds(num2, pos2)'
       /\ wire' # <<>> => num2[1] = num[2] /\ pos2[1] = pos[2]
       /\ \A n \in 1..Len(wire') : n + 1 \in 1..Len(wire) /\ num2[n] = num[n + 1]
       /\ wire' # <<>> <=> 1 < Len(wire)
       /\ \A l : Sent(l)' = Sent(l)
  <2>1. UNCHANGED <<inbox, frames>> /\ Counted /\ wire # <<>> /\ wire' = Tail(wire)
    BY <1>0
  <2> QED BY <1>8, <1>12, <2>1, TailHolds
<1>14. q < Len(Encode(p)) => /\ wire' # <<>> /\ num2[1] = k /\ pos2[1] = q + 1
                             /\ Sent(num2[1])' = p
  BY <1>9, <1>13, <1>20, Zenon
<1>15. q = Len(Encode(p)) => (wire' # <<>> => pos2[1] = 1)
  BY <1>9, <1>13, <1>20, Zenon
<1>16. ASSUME DecoderHolds(num2, pos2)', Absorbed \/ Failed
       PROVE  Delivery'
  <2>1. FramesHold(num2, N)' /\ Exclusive'
    BY <1>0, <1>2, <1>3, <1>8, <1>13, <1>16, FramesStay
  <2>2. Intact(num2, pos2, N)'
    BY <1>13, <1>16, <2>1 DEF Intact
  <2> QED BY <1>4, <1>7, <2>1, <2>2 DEF Delivery
<1>17. CASE s_state = "NO_FRAME"
  <2>1. ~InFrameByte(b) /\ ~EscapedByte(b)
    BY <1>17 DEF InFrameByte, EscapedByte
  <2>2. NoFrameByte(b)
    BY <1>0, <2>1 DEF SlipRecvByte
  <2>3. /\ UNCHANGED <<frame_complete, s_rx_buf>>
        /\ \/ s_state' = "NO_FRAME"
           \/ b = END /\ s_state' = "IN_FRAME" /\ s_rx_len' = 0
    BY <1>17, <2>2 DEF NoFrameByte, bufVars
  <2>4. Absorbed \/ Failed
    BY <1>5, <1>6, <2>3 DEF Completed, ArmedBufferIsFree, Full, TypeOK
  <2>5. CASE s_state' = "NO_FRAME"
    BY <1>16, <2>4, <2>5 DEF DecoderHolds
  <2>6. CASE b = END /\ s_state' = "IN_FRAME" /\ s_rx_len' = 0
    <3>1. CASE q = 1
      <4>1. q < Len(Encode(p)) /\ q + 1 = 2
        BY <1>9, <1>11, <3>1
      <4>2. wire' # <<>> /\ Sent(num2[1])' = p /\ pos2[1] = 2
        BY <1>14, <4>1
      <4>3. p \in Seq(Byte) /\ Ends(p)[0] = 1
        BY <1>10, EncodeLayout, PayloadAssumption DEF Layout
      <4>4. 0 =< Len(p)
        BY <4>3
      <4>5. At(p, 2)'
        BY <2>6, <4>3, <4>4 DEF At
      <4> QED BY <1>16, <2>4, <4>2, <4>5 DEF DecoderHolds, Within
    <3>2. CASE q = Len(Encode(p))
      BY <1>15, <1>16, <2>4, <2>6, <3>2 DEF DecoderHolds, Between
    <3> QED BY <1>11, <2>6, <3>1, <3>2
  <2> QED BY <2>3, <2>5, <2>6
<1>18. CASE Between(pos)
  <2>1. q = 1 /\ b = END /\ s_state = "IN_FRAME" /\ s_rx_len = 0
    BY <1>0, <1>11, <1>18, <1>20 DEF Between
  <2>2. s_state' = "NO_FRAME" /\ UNCHANGED frame_complete
    BY <1>0, <2>1, EndOutcome
  <2>3. Absorbed \/ Failed
    BY <1>5, <1>6, <2>2 DEF Completed, ArmedBufferIsFree, Full, TypeOK
  <2> QED BY <1>16, <2>2, <2>3 DEF DecoderHolds
<1>19. CASE Within(num, pos)
  <2>1. At(p, q)
    BY <1>19, <1>20 DEF Within
  <2>2. \/ q = Len(Encode(p)) /\ Completed /\ s_rx_len = Len(p)
        \/ q < Len(Encode(p)) /\ (Failed \/ (Absorbed /\ At(p, q + 1)'))
    BY <1>0, <1>9, <1>10, <2>1, DecodeStep
  <2>3. CASE q = Len(Encode(p)) /\ Completed /\ s_rx_len = Len(p)
    <3>1. pos[1] = Len(Code(num[1])) /\ s_rx_len = Len(Sent(num[1])) /\ At(Sent(num[1]), pos[1])
      BY <2>1, <2>3, <1>20 DEF Code
    <3>2. Exclusive' /\ \E N2 : FramesHold(num2, N2)'
      BY <1>0, <1>2, <1>3, <1>8, <1>13, <2>3, <3>1, FrameArrives
    <3>3. DecoderHolds(num2, pos2)'
      BY <2>3 DEF Completed, DecoderHolds
    <3> QED BY <1>4, <1>7, <1>13, <3>2, <3>3 DEF Delivery, Intact
  <2>4. CASE q < Len(Encode(p)) /\ Failed
    <3>1. DecoderHolds(num2, pos2)'
      BY <2>4 DEF Failed, DecoderHolds
    <3> QED BY <1>16, <2>4, <3>1
  <2>5. CASE q < Len(Encode(p)) /\ Absorbed /\ At(p, q + 1)'
    <3>1. At(Sent(num2[1]), pos2[1])'
      BY <1>14, <2>5 DEF At
    <3>2. DecoderHolds(num2, pos2)'
      BY <1>14, <2>5, <3>1 DEF DecoderHolds, Within
    <3> QED BY <1>16, <2>5, <3>2
  <2> QED BY <2>2, <2>3, <2>4, <2>5
<1> QED BY <1>8, <1>17, <1>18, <1>19

\* A frame sent goes to the end of the line and of the inbox.
LEMMA SendDelivers ==
  ASSUME Delivery, IInv', NEW p \in Payloads, HostSend(p)
  PROVE  Delivery'
<1>0. /\ IInv /\ Exclusive /\ Selected /\ Counted
      /\ wire' = wire \o Encode(p) /\ inbox' = Append(inbox, p) /\ frames' = frames + 1
      /\ UNCHANGED <<vars, faults, altered>>
  BY DEF Delivery, HostSend
<1>1. PICK num, pos, N : Intact(num, pos, N)
  BY DEF Delivery
<1>2. UNCHANGED <<s_state, s_rx_buf, s_rx_len, buffer, frame_length, frame_complete, frame_error,
                  s_rx_idx, s_proc_idx, pc, caller, state>>
  BY <1>0 DEF vars, isrVars, bufVars, flagVars, idxVars, mainVars
<1>3. Exclusive' /\ Selected' /\ \A i \in Idx : Unread(i)' = Unread(i) /\ FrameIn(i)' = FrameIn(i)
  BY <1>0, <1>2 DEF Exclusive, Selected, Unread, FrameIn
<1>4. PICK L, m, f \in Nat, c \in Seq(Byte) :
        /\ L = Len(wire) /\ m = Len(c) /\ m >= 3 /\ f = frames /\ c = Encode(p)
  <2>1. Len(wire) \in Nat /\ frames \in Nat
    BY <1>0 DEF Counted
  <2>2. Encode(p) \in Seq(Byte) /\ Len(Encode(p)) \in Nat /\ Len(Encode(p)) >= 3
    BY EncodeShape
  <2> QED BY <2>1, <2>2
<1>5. /\ wire' \in Seq(Byte) /\ Len(wire') = L + m
      /\ \A n \in 1..L : wire'[n] = wire[n]
      /\ \A n \in 1..m : wire'[L + n] = c[n]
  <2>1. wire \in Seq(Byte)
    BY <1>0 DEF Counted
  <2> QED BY <1>0, <1>4, <2>1, JoinedElements
<1>6. /\ Gone \in Nat /\ Len(inbox) \in Nat /\ Gone + Len(inbox) = f
      /\ \A l \in Nat : Gone < l /\ l =< f => l - Gone \in 1..Len(inbox)
  BY <1>0, <1>4, SentPayload
<1>7. /\ inbox' \in Seq(Payloads) /\ Len(inbox') = Len(inbox) + 1
      /\ inbox'[Len(inbox) + 1] = p /\ \A l \in 1..Len(inbox) : inbox'[l] = inbox[l]
  <2>1. inbox \in Seq(Payloads)
    BY <1>0 DEF Counted
  <2> QED BY <1>0, <2>1
<1>8. Gone' = Gone
  BY <1>0, <1>4, <1>6, <1>7 DEF Gone
<1>9. \A l \in Nat : Gone < l /\ l =< f => Sent(l)' = Sent(l) /\ Code(l)' = Code(l)
  BY <1>6, <1>7, <1>8 DEF Sent, Code
<1>10. Sent(f + 1)' = p /\ Code(f + 1)' = c
  <2>1. (f + 1) - Gone = Len(inbox) + 1
    BY <1>4, <1>6
  <2> QED BY <1>4, <1>7, <1>8, <2>1 DEF Sent, Code
<1>11. Counted'
  <2>1. Len(inbox') =< frames' /\ frames' \in Nat
    BY <1>0, <1>4, <1>6, <1>7
  <2> QED BY <1>0, <1>5, <1>7, <2>1 DEF Counted
<1>12. PICK num2 \in [1..(L + m) -> Nat], pos2 \in [1..(L + m) -> Nat] :
         /\ \A n \in 1..L : num2[n] = num[n] /\ pos2[n] = pos[n]
         /\ \A n \in (L + 1)..(L + m) : num2[n] = f + 1 /\ pos2[n] = n - L
  <2>1. num \in [1..L -> Nat] /\ pos \in [1..L -> Nat]
    BY <1>1, <1>4 DEF Intact, LineHolds
  <2> DEFINE u == [n \in 1..(L + m) |-> IF n =< L THEN num[n] ELSE f + 1]
             v == [n \in 1..(L + m) |-> IF n =< L THEN pos[n] ELSE n - L]
  <2>2. u \in [1..(L + m) -> Nat] /\ v \in [1..(L + m) -> Nat]
    BY <1>4, <2>1
  <2>3. /\ \A n \in 1..L : u[n] = num[n] /\ v[n] = pos[n]
        /\ \A n \in (L + 1)..(L + m) : u[n] = f + 1 /\ v[n] = n - L
    BY <1>4
  <2> HIDE DEF u, v
  <2> QED BY <2>2, <2>3
<1>13. ASSUME NEW n \in 1..L
       PROVE  /\ Gone < num[n] /\ num[n] =< f /\ num[n] \in Nat
              /\ pos[n] \in 1..Len(Code(num[n])) /\ wire[n] = Code(num[n])[pos[n]]
              /\ pos[n] = Len(Code(num[n])) /\ n < L => pos[n + 1] = 1
              /\ pos[n] < Len(Code(num[n])) => n < L /\ num[n + 1] = num[n] /\ pos[n + 1] = pos[n] + 1
              /\ Code(num[n])' = Code(num[n]) /\ Sent(num[n])' = Sent(num[n])
              /\ Len(Code(num[n])) \in Nat
  <2>1. /\ Gone < num[n] /\ num[n] =< f /\ num[n] \in Nat
        /\ pos[n] \in 1..Len(Code(num[n])) /\ wire[n] = Code(num[n])[pos[n]]
        /\ pos[n] = Len(Code(num[n])) /\ n < L => pos[n + 1] = 1
        /\ pos[n] < Len(Code(num[n])) => n < L /\ num[n + 1] = num[n] /\ pos[n + 1] = pos[n] + 1
    BY <1>1, <1>4 DEF Intact, LineHolds
  <2>2. Sent(num[n]) \in Payloads
    BY <1>0, <1>4, <2>1, SentPayload
  <2>3. Encode(Sent(num[n])) \in Seq(Byte)
    BY <2>2, EncodeShape
  <2> QED BY <1>9, <2>1, <2>3 DEF Code
<1>14. ASSUME NEW n \in 1..(L + m)
       PROVE  /\ Gone < num2[n] /\ num2[n] =< f + 1
              /\ pos2[n] \in 1..Len(Code(num2[n])') /\ wire'[n] = Code(num2[n])'[pos2[n]]
              /\ pos2[n] = Len(Code(num2[n])') /\ n < L + m => pos2[n + 1] = 1
              /\ pos2[n] < Len(Code(num2[n])') =>
                   n < L + m /\ num2[n + 1] = num2[n] /\ pos2[n + 1] = pos2[n] + 1
  <2>1. CASE n \in 1..L
    <3>1. num2[n] = num[n] /\ pos2[n] = pos[n] /\ wire'[n] = wire[n]
      BY <1>5, <1>12, <2>1
    <3>2. PICK k, d : k = num[n] /\ d = Code(k) /\ d = Code(k)'
      BY <1>13, <2>1
    <3>3. /\ Gone < k /\ k =< f /\ k \in Nat /\ Len(d) \in Nat
          /\ pos[n] \in 1..Len(d) /\ wire[n] = d[pos[n]]
          /\ pos[n] = Len(d) /\ n < L => pos[n + 1] = 1
          /\ pos[n] < Len(d) => n < L /\ num[n + 1] = num[n] /\ pos[n + 1] = pos[n] + 1
      BY <1>13, <2>1, <3>2, Zenon
    <3>4. CASE n < L
      <4>1. num2[n + 1] = num[n + 1] /\ pos2[n + 1] = pos[n + 1]
        BY <1>12, <2>1, <3>4
      <4>2. n < L + m /\ k =< f + 1
        BY <1>4, <3>3, <3>4
      <4> QED BY <3>1, <3>2, <3>3, <3>4, <4>1, <4>2, Zenon
    <3>5. CASE ~(n < L)
      <4>1. n = L /\ n + 1 \in (L + 1)..(L + m) /\ (n + 1) - L = 1
        BY <1>4, <2>1, <3>5
      <4>2. pos2[n + 1] = 1
        BY <1>12, <4>1
      <4>3. n < L + m /\ k =< f + 1
        BY <1>4, <3>3, <4>1
      <4> QED BY <3>1, <3>2, <3>3, <3>5, <4>2, <4>3, Zenon
    <3> QED BY <3>4, <3>5
  <2>2. CASE n \notin 1..L
    <3>1. /\ n \in (L + 1)..(L + m) /\ n - L \in 1..m /\ L + (n - L) = n
      BY <1>4, <2>2
    <3>2. num2[n] = f + 1 /\ pos2[n] = n - L /\ wire'[n] = c[n - L]
      BY <1>5, <1>12, <3>1
    <3>3. Code(num2[n])' = c
      BY <1>10, <3>2
    <3>4. n < L + m => num2[n + 1] = f + 1 /\ pos2[n + 1] = (n - L) + 1
      <4>1. n < L + m => n + 1 \in (L + 1)..(L + m) /\ (n + 1) - L = (n - L) + 1
        BY <3>1
      <4> QED BY <1>12, <4>1
    <3>5. /\ (n - L = m => ~(n < L + m)) /\ (n - L < m => n < L + m)
          /\ Gone < f + 1 /\ f + 1 =< f + 1
      BY <1>4, <1>6, <3>1
    <3> QED BY <1>4, <3>1, <3>2, <3>3, <3>4, <3>5, Zenon
  <2> QED BY <2>1, <2>2
<1>15. ASSUME NEW n \in 1..(L + m), NEW k \in 1..(L + m), n < k
       PROVE  num2[n] =< num2[k] /\ (pos2[n] = Len(Code(num2[n])') => num2[n] < num2[k])
  <2>1. CASE k \in 1..L
    <3>1. n \in 1..L
      BY <1>15, <2>1
    <3>2. /\ num2[n] = num[n] /\ pos2[n] = pos[n] /\ num2[k] = num[k]
          /\ Code(num[n])' = Code(num[n])
      BY <1>12, <1>13, <2>1, <3>1
    <3>3. num[n] =< num[k] /\ (pos[n] = Len(Code(num[n])) => num[n] < num[k])
      BY <1>1, <1>4, <1>15, <2>1, <3>1 DEF Intact, LineHolds
    <3> QED BY <3>2, <3>3
  <2>2. CASE k \notin 1..L /\ n \in 1..L
    <3>1. k \in (L + 1)..(L + m) /\ num2[k] = f + 1
      BY <1>4, <1>12, <2>2
    <3>2. num2[n] = num[n] /\ num[n] \in Nat /\ num[n] =< f
      BY <1>12, <1>13, <2>2
    <3> QED BY <3>1, <3>2
  <2>3. CASE k \notin 1..L /\ n \notin 1..L
    <3>1. n \in (L + 1)..(L + m) /\ k \in (L + 1)..(L + m) /\ n - L < m /\ n - L # m
      BY <1>4, <1>15, <2>3
    <3>2. num2[n] = f + 1 /\ num2[k] = f + 1 /\ pos2[n] = n - L
      BY <1>12, <3>1
    <3>3. pos2[n] # Len(Code(num2[n])')
      BY <1>4, <1>10, <3>1, <3>2
    <3> QED BY <3>2, <3>3
  <2>4. n \in 1..L \/ n \notin 1..L
    OBVIOUS
  <2>5. k \in 1..L => n \in 1..L
    BY <1>15
  <2> QED BY <2>1, <2>2, <2>3, <2>4, <2>5
<1>16. LineHolds(num2, pos2)'
  BY <1>0, <1>4, <1>5, <1>8, <1>12, <1>14, <1>15 DEF LineHolds
<1>17. wire = <<>> <=> L = 0
  <2>1. wire \in Seq(Byte)
    BY <1>0 DEF Counted
  <2> QED BY <1>4, <2>1, EmptySeq
<1>18. wire' # <<>> /\ 1 \in 1..(L + m)
  <2>1. L + m # 0 /\ 1 \in 1..(L + m)
    BY <1>4
  <2> QED BY <1>5, <2>1, EmptySeq
<1>19. DecoderHolds(num2, pos2)'
  <2>1. CASE L = 0
    <3>1. 1 \in (L + 1)..(L + m) /\ 1 - L = 1
      BY <1>4, <2>1
    <3>2. pos2[1] = 1
      BY <1>12, <3>1
    <3>3. s_state = "NO_FRAME" \/ Between(pos)
      BY <1>1, <1>17, <2>1 DEF Intact, DecoderHolds, Within
    <3> QED BY <1>2, <3>2, <3>3 DEF DecoderHolds, Between
  <2>2. CASE L # 0
    <3>1. 1 \in 1..L /\ wire # <<>>
      BY <1>4, <1>17, <2>2
    <3>2. num2[1] = num[1] /\ pos2[1] = pos[1] /\ Sent(num[1])' = Sent(num[1])
      BY <1>12, <1>13, <3>1
    <3>3. At(Sent(num[1]), pos[1]) => At(Sent(num2[1]), pos2[1])'
      BY <1>2, <3>2 DEF At
    <3> QED BY <1>1, <1>2, <1>18, <3>1, <3>2, <3>3 DEF Intact, DecoderHolds, Between, Within
  <2> QED BY <2>1, <2>2
<1>20. FramesHold(num2, N)'
  <2>1. FramesHold(num, N)
    BY <1>1 DEF Intact
  <2>2. ASSUME NEW i \in Idx, Unread(i)
        PROVE  /\ Gone < N[i] /\ N[i] =< f + 1 /\ FrameIn(i)' = Sent(N[i])'
               /\ \A n \in 1..(L + m) : N[i] < num2[n]
    <3>1. /\ N[i] \in Nat /\ Gone < N[i] /\ N[i] =< f /\ FrameIn(i) = Sent(N[i])
          /\ \A n \in 1..L : N[i] < num[n]
      BY <1>4, <2>1, <2>2 DEF FramesHold
    <3>2. FrameIn(i)' = Sent(N[i])'
      BY <1>3, <1>9, <3>1
    <3>3. ASSUME NEW n \in 1..(L + m) PROVE N[i] < num2[n]
      <4>1. CASE n \in 1..L
        BY <1>12, <3>1, <4>1
      <4>2. CASE n \notin 1..L
        <5>1. n \in (L + 1)..(L + m)
          BY <1>4, <4>2
        <5> QED BY <1>12, <3>1, <5>1
      <4> QED BY <4>1, <4>2
    <3>4. N[i] =< f + 1
      BY <1>4, <3>1
    <3> QED BY <3>1, <3>2, <3>3, <3>4
  <2>3. Other' = Other /\ Other \in Idx /\ s_rx_idx \in Idx
    BY <1>0, <1>2 DEF Other, IInv, TypeOK
  <2>4. (Unread(Other) /\ Unread(s_rx_idx))' => N[Other'] < N[s_rx_idx']
    BY <1>2, <1>3, <2>1, <2>3 DEF FramesHold
  <2> QED BY <1>0, <1>3, <1>4, <1>5, <1>8, <2>1, <2>2, <2>4 DEF FramesHold
<1> QED BY <1>3, <1>11, <1>16, <1>19, <1>20 DEF Delivery, Intact

\* The main program writes nothing into a buffer, sets no flag, and changes neither the
\* length of a frame it has still to hand over nor the order of two of them.
LEMMA MainLeavesUnread ==
  ASSUME IInv, Main
  PROVE  /\ UNCHANGED <<buffer, s_state, s_rx_len>>
         /\ \A i \in Idx : /\ frame_complete'[i] => frame_complete[i]
                           /\ frame_error'[i] => frame_error[i]
         /\ \A i \in Idx : Unread(i)' => Unread(i) /\ frame_length'[i] = frame_length[i]
         /\ Unread(Other)' /\ Unread(s_rx_idx)' => s_rx_idx' = s_rx_idx
<1>0. /\ UNCHANGED <<s_state, s_rx_len>> /\ s_rx_idx \in Idx /\ s_proc_idx \in Idx /\ Other \in Idx
      /\ Other # s_rx_idx
  BY StaysArmed DEF IInv, TypeOK, Other
<1>1. CASE GetState \/ AcquireRxComplete \/ AcquireRxError \/ ArmBuf \/ ArmCap \/ Loops
  <2>1. UNCHANGED <<buffer, frame_length, frame_complete, frame_error, s_rx_idx>>
    BY <1>1 DEF GetState, TestOtherError, TestRxError, TestOtherComplete, TestRxComplete, TestFlag,
       AcquireRxComplete, AcquireRxError, AcquireTest, ArmBuf, ArmCap,
       Loops, SendOhai, HandleCommand, FinishCommand, HandleRead, ReadRefused, StreamStart,
       StreamPoll, StreamEnd, StreamAck, StreamBreak, MainStep, bufVars, idxVars
  <2>2. ASSUME NEW i \in Idx, Unread(i)', i # s_rx_idx PROVE Unread(i)
    <3>1. frame_complete[i] /\ i = Other
      BY <1>0, <2>1, <2>2 DEF Unread, Other
    <3>2. pc \in SwitchLabels \cup WorkLabels \cup ReleaseLabels \cup {"arm_cap"}
      BY <3>1 DEF IInv, SpareDiscipline, Full
    <3>3. pc' \in SwitchLabels \cup {"arm_cap", "handle", "ack"}
      BY <2>1, <2>2 DEF Unread
    <3>4. pc \in SwitchLabels \cup {"arm_cap", "handle", "ack"}
      BY <1>1, <3>2, <3>3 DEF GetState, TestOtherError, TestRxError, TestOtherComplete,
         TestRxComplete, TestFlag, AcquireRxComplete, AcquireRxError, AcquireTest, ArmBuf, ArmCap, Goto,
         Loops, SendOhai, HandleCommand, FinishCommand, HandleRead, ReadRefused, StreamStart,
         StreamPoll, StreamEnd, StreamAck, StreamBreak, MainStep,
         SwitchLabels, WorkLabels, ReleaseLabels
    <3> QED BY <3>1, <3>4 DEF Unread
  <2>3. \A i \in Idx : Unread(i)' => Unread(i)
    BY <2>1, <2>2 DEF Unread
  <2> QED BY <1>0, <2>1, <2>3
<1>2. CASE AcquireOther
  <2>1. /\ UNCHANGED <<buffer, frame_length, frame_complete, frame_error>> /\ pc = "acq_other"
        /\ s_rx_idx' \in {s_rx_idx, Other}
    BY <1>2 DEF AcquireOther, bufVars
  <2>2. ~frame_complete[Other]
    BY <2>1 DEF IInv, SpareDiscipline, Full, SwitchLabels, WorkLabels, ReleaseLabels
  <2>3. \A i \in Idx : /\ Unread(i)' => i # Other
                       /\ i = Other \/ i = s_rx_idx
    BY <1>0, <2>1, <2>2 DEF Unread, Other
  <2>4. \A i \in Idx : Unread(i)' => Unread(i)
    BY <2>1, <2>3, <2>2 DEF Unread
  <2>5. Unread(Other)' /\ Unread(s_rx_idx)' => s_rx_idx' = s_rx_idx
    BY <1>0, <2>1, <2>2 DEF Unread, Other
  <2> QED BY <1>0, <2>1, <2>4, <2>5
<1>3. CASE AcquireLength
  <2>1. /\ UNCHANGED <<buffer, frame_complete, frame_error, s_rx_idx>> /\ pc = "acq_length"
        /\ frame_length' = [frame_length EXCEPT ![s_rx_idx] = 0]
    BY <1>3 DEF AcquireLength, flagVars, idxVars
  <2>2. ~frame_complete[s_rx_idx]
    BY <2>1 DEF IInv, RearmDiscipline, SwitchLabels, Full
  <2>3. \A i \in Idx : Unread(i)' => i # s_rx_idx /\ Unread(i) /\ frame_length'[i] = frame_length[i]
    BY <2>1, <2>2 DEF Unread, SwitchLabels, IInv, TypeOK
  <2> QED BY <1>0, <2>1, <2>3
<1>4. CASE Reset
  <2>1. /\ UNCHANGED <<buffer, s_rx_idx>> /\ pc \in ReleaseLabels
        /\ pc' \in ReleaseLabels \cup {"stream", "state_other_error"}
        /\ \A i \in Idx : /\ frame_complete'[i] => frame_complete[i]
                          /\ frame_error'[i] => frame_error[i]
                          /\ i # s_proc_idx => frame_length'[i] = frame_length[i]
    BY <1>4 DEF Reset, ReleaseLength, ReleaseComplete, ReleaseError, Goto, flagVars, idxVars,
       ReleaseLabels, IInv, TypeOK
  <2>2. s_proc_idx = Other
    BY <2>1 DEF IInv, ProcDiscipline, BootDiscipline, ReleaseLabels, SwitchLabels
  <2>3. \A i \in Idx : Unread(i)' => i = s_rx_idx /\ Unread(i) /\ frame_length'[i] = frame_length[i]
    BY <1>0, <2>1, <2>2 DEF Unread, SwitchLabels, ReleaseLabels
  <2> QED BY <1>0, <2>1, <2>3
<1>5. GetState \/ Rearm \/ Reset \/ Loops
  BY DEF Main
<1> QED BY <1>1, <1>2, <1>3, <1>4, <1>5 DEF Rearm

\* What the main program takes to be a whole frame is one.
LEMMA MainSelects ==
  ASSUME IInv, Selected, Main
  PROVE  Selected'
<1>0. caller \in {"boot", "main", "stream"} /\ state \in {"IDLE", "ERROR", "COMPLETE"}
  BY DEF IInv, TypeOK
<1>1. CASE GetState
  BY <1>1 DEF GetState, TestOtherError, TestRxError, TestOtherComplete, TestRxComplete, TestFlag,
     Selected, bufVars, RearmLabels, SelectLabels, SwitchLabels, IInv, TypeOK
<1>2. CASE Rearm /\ ~ArmCap
  <2>1. /\ UNCHANGED <<frame_complete, s_proc_idx, caller, state>>
        /\ pc \in RearmLabels /\ pc' \in RearmLabels
    BY <1>2 DEF Rearm, AcquireRxComplete, AcquireRxError, AcquireTest, AcquireOther, AcquireLength,
       ArmBuf, Goto, bufVars, flagVars, idxVars, RearmLabels, SelectLabels, SwitchLabels
  <2> QED BY <2>1 DEF Selected, RearmLabels, SelectLabels, SwitchLabels
<1>3. CASE ArmCap
  <2>1. /\ UNCHANGED <<frame_complete, s_proc_idx, caller, state>> /\ pc \in RearmLabels
    BY <1>3 DEF ArmCap, Goto, bufVars, idxVars, RearmLabels
  <2>2. \/ pc' = "ohai"
        \/ pc' = "rel_length"
        \/ caller # "boot" /\ state # "ERROR" /\ pc' \in {"handle", "ack"}
    <3>1. pc' = (CASE caller = "boot" -> "ohai"
                   [] caller # "boot" /\ state = "ERROR" -> "rel_length"
                   [] caller = "stream" /\ state # "ERROR" -> "ack"
                   [] caller = "main" /\ state # "ERROR" -> "handle")
      BY <1>3 DEF ArmCap, Goto
    <3>2. CASE caller = "boot"
      BY <3>1, <3>2
    <3>3. CASE caller # "boot" /\ state = "ERROR"
      BY <3>1, <3>3
    <3>4. CASE caller = "stream" /\ state # "ERROR"
      BY <3>1, <3>4
    <3>5. CASE caller = "main" /\ state # "ERROR"
      BY <3>1, <3>5
    <3> QED BY <1>0, <3>2, <3>3, <3>4, <3>5
  <2> QED BY <2>1, <2>2 DEF Selected, RearmLabels, SelectLabels, SwitchLabels
<1>4. CASE Reset \/ Loops
  <2>1. pc' \notin RearmLabels \cup {"handle", "ack"}
    BY <1>4 DEF Reset, ReleaseLength, ReleaseComplete, ReleaseError, Goto,
       Loops, SendOhai, HandleCommand, FinishCommand, HandleRead, ReadRefused, StreamStart,
       StreamPoll, StreamEnd, StreamAck, StreamBreak, MainStep, RearmLabels, SelectLabels, SwitchLabels
  <2> QED BY <2>1 DEF Selected
<1> QED BY <1>1, <1>2, <1>3, <1>4 DEF Main

\* The stub hands over the frame it selected, which is the oldest there is.
LEMMA StubHandsOver ==
  ASSUME Delivery, NEW num, NEW pos, NEW N, Intact(num, pos, N), Stub
  PROVE  /\ UNCHANGED altered /\ inbox' \in Seq(Payloads) /\ Len(inbox') =< frames
         /\ Gone =< Gone' /\ \A l \in Nat : Gone' < l /\ l =< frames => Sent(l)' = Sent(l)
         /\ \A i \in Idx : Unread(i)' => Gone' < N[i]
         /\ \A n \in 1..Len(wire) : Gone' < num[n]
<1>0. IInv /\ Exclusive /\ Selected /\ Counted /\ FramesHold(num, N) /\ LineHolds(num, pos)
  BY DEF Delivery, Intact
<1>1. UNCHANGED <<wire, frames>> /\ (Main \/ UNCHANGED vars)
  BY StubIsMain
<1>2. \A i \in Idx : Unread(i)' => Unread(i)
  <2>1. UNCHANGED vars => \A i \in Idx : Unread(i)' = Unread(i)
    BY DEF Unread, vars, bufVars, idxVars, mainVars
  <2> QED BY <1>0, <1>1, <2>1, MainLeavesUnread
<1>3. Gone \in Nat /\ Len(inbox) \in Nat /\ Gone + Len(inbox) = frames
  BY <1>0, SentPayload
<1>4. CASE UNCHANGED <<inbox, altered>>
  <2>1. Gone' = Gone /\ \A l : Sent(l)' = Sent(l)
    BY <1>1, <1>4 DEF Gone, Sent
  <2>2. \A i \in Idx : Unread(i)' => Gone' < N[i]
    BY <1>0, <1>2, <2>1 DEF FramesHold
  <2>3. \A n \in 1..Len(wire) : Gone' < num[n]
    BY <1>0, <2>1 DEF LineHolds
  <2> QED BY <1>0, <1>3, <1>4, <2>1, <2>2, <2>3 DEF Counted
<1>5. CASE ~(UNCHANGED <<inbox, altered>>)
  <2>1. /\ HandOver /\ pc \in {"handle", "ack"} /\ pc' \in {"post", "read", "rel_length"}
        /\ UNCHANGED <<s_rx_idx, s_proc_idx>>
    BY <1>5 DEF Stub, Greet, Respond, RespondRead, StartRead, RefuseRead, SendPacket, CountAck,
       EndRead, BreakRead, FailRead, Quietly, HandleCommand, HandleRead, StreamAck, StreamBreak,
       MainStep, NoNews, idxVars
  <2>2. s_proc_idx \in Idx /\ s_rx_idx \in Idx /\ Other # s_rx_idx /\ s_proc_idx = Other
    BY <1>0, <2>1 DEF IInv, TypeOK, ProcDiscipline, BootDiscipline, WorkLabels, SwitchLabels, Other
  <2>3. Unread(s_proc_idx)
    BY <1>0, <2>1 DEF Selected, Unread
  <2>4. PICK k \in Nat : k = N[s_proc_idx] /\ Gone < k /\ k =< frames /\ FrameIn(s_proc_idx) = Sent(k)
    BY <1>0, <2>2, <2>3 DEF FramesHold
  <2>5. /\ UNCHANGED altered /\ inbox' \in Seq(Payloads) /\ Len(inbox') =< frames
        /\ Gone =< Gone' /\ Gone' =< k
        /\ \A l \in Nat : Gone' < l /\ l =< frames => Sent(l)' = Sent(l)
    BY <1>0, <1>1, <2>1, <2>4, HandOverTakes
  <2>6. Gone' \in Int
    <3>1. Len(inbox') \in Nat /\ frames' = frames /\ frames \in Nat
      BY <1>0, <1>1, <2>5 DEF Counted
    <3> QED BY <3>1 DEF Gone
  <2>7. ASSUME NEW i \in Idx, Unread(i)' PROVE Gone' < N[i]
    <3>1. i = s_rx_idx
      BY <2>1, <2>7 DEF Unread, SwitchLabels
    <3>2. k < N[i] /\ N[i] \in Nat
      BY <1>0, <1>2, <2>2, <2>3, <2>4, <2>7, <3>1 DEF FramesHold
    <3> QED BY <2>4, <2>5, <2>6, <3>2
  <2>8. ASSUME NEW n \in 1..Len(wire) PROVE Gone' < num[n]
    <3>1. k < num[n] /\ num[n] \in Nat
      BY <1>0, <2>2, <2>3, <2>4 DEF FramesHold, LineHolds
    <3> QED BY <2>4, <2>5, <2>6, <3>1
  <2> QED BY <2>5, <2>7, <2>8
<1> QED BY <1>4, <1>5

\* No step of the stub alters a frame that it has still to hand over.
LEMMA StubDelivers ==
  ASSUME Delivery, IInv', Stub
  PROVE  Delivery'
<1>0. IInv /\ Exclusive /\ Selected /\ Counted
  BY DEF Delivery
<1>1. PICK num, pos, N : Intact(num, pos, N)
  BY DEF Delivery
<1>2. LineHolds(num, pos) /\ DecoderHolds(num, pos) /\ FramesHold(num, N)
  BY <1>1 DEF Intact
<1>3. UNCHANGED <<wire, frames, faults>> /\ (Main \/ UNCHANGED vars)
  BY StubIsMain
<1>4. /\ UNCHANGED altered /\ inbox' \in Seq(Payloads) /\ Len(inbox') =< frames
      /\ Gone =< Gone' /\ \A l \in Nat : Gone' < l /\ l =< frames => Sent(l)' = Sent(l)
      /\ \A i \in Idx : Unread(i)' => Gone' < N[i]
      /\ \A n \in 1..Len(wire) : Gone' < num[n]
  BY <1>1, StubHandsOver
<1>5. /\ UNCHANGED <<buffer, s_state, s_rx_len>>
      /\ \A i \in Idx : /\ frame_complete'[i] => frame_complete[i]
                        /\ frame_error'[i] => frame_error[i]
      /\ \A i \in Idx : Unread(i)' => Unread(i) /\ frame_length'[i] = frame_length[i]
      /\ Unread(Other)' /\ Unread(s_rx_idx)' => s_rx_idx' = s_rx_idx
      /\ s_rx_buf # NULL => s_rx_buf' = s_rx_buf
  <2>1. CASE Main
    BY <1>0, <2>1, MainLeavesUnread, StaysArmed
  <2>2. CASE UNCHANGED vars
    BY <2>2 DEF vars, isrVars, bufVars, flagVars, idxVars, mainVars, Unread
  <2> QED BY <1>3, <2>1, <2>2
<1>6. Selected'
  <2>1. UNCHANGED vars => Selected'
    BY <1>0 DEF Selected, vars, bufVars, flagVars, idxVars, mainVars
  <2> QED BY <1>0, <1>3, <2>1, MainSelects
<1>7. Exclusive'
  BY <1>0, <1>5 DEF Exclusive
<1>8. Counted'
  BY <1>0, <1>3, <1>4 DEF Counted
<1>9. \A n \in 1..Len(wire) : /\ num[n] \in Nat /\ num[n] =< frames
                              /\ Sent(num[n])' = Sent(num[n]) /\ Code(num[n])' = Code(num[n])
  <2>1. \A n \in 1..Len(wire) : num[n] \in Nat /\ num[n] =< frames
    BY <1>2 DEF LineHolds
  <2> QED BY <1>4, <2>1 DEF Code
<1>10. LineHolds(num, pos)'
  BY <1>2, <1>3, <1>4, <1>9 DEF LineHolds
<1>11. DecoderHolds(num, pos)'
  <2>1. CASE Within(num, pos)
    <3>1. wire # <<>> /\ At(Sent(num[1]), pos[1])
      BY <2>1 DEF Within
    <3>2. 1 \in 1..Len(wire)
      <4>1. wire \in Seq(Byte)
        BY <1>0 DEF Counted
      <4> QED BY <3>1, <4>1, EmptySeq
    <3>3. s_rx_buf' = s_rx_buf
      BY <1>0, <1>5, <3>1 DEF IInv, DecoderInBounds, At
    <3>4. At(Sent(num[1]), pos[1])'
      BY <1>5, <1>9, <3>1, <3>2, <3>3 DEF At
    <3> QED BY <1>3, <3>1, <3>4 DEF DecoderHolds, Within
  <2>2. CASE ~Within(num, pos)
    BY <1>2, <1>3, <1>5, <2>2 DEF DecoderHolds, Between
  <2> QED BY <2>1, <2>2
<1>12. ASSUME NEW i \in Idx, Unread(i)'
       PROVE  /\ Gone' < N[i] /\ N[i] =< frames' /\ FrameIn(i)' = Sent(N[i])'
              /\ \A n \in 1..Len(wire') : N[i] < num[n]
  <2>1. /\ Unread(i) /\ frame_complete[i] /\ frame_complete'[i]
        /\ ~frame_error[i] /\ ~frame_error'[i] /\ frame_length'[i] = frame_length[i]
    BY <1>0, <1>5, <1>7, <1>12 DEF Unread, Exclusive
  <2>2. FrameIn(i)' = FrameIn(i)
    BY <1>5, <2>1 DEF FrameIn
  <2>3. /\ N[i] \in Nat /\ N[i] =< frames /\ FrameIn(i) = Sent(N[i])
        /\ \A n \in 1..Len(wire) : N[i] < num[n]
    BY <1>2, <2>1 DEF FramesHold
  <2>4. Gone' < N[i]
    BY <1>4, <1>12
  <2>5. Sent(N[i])' = Sent(N[i])
    BY <1>4, <2>3, <2>4
  <2> QED BY <1>3, <2>2, <2>3, <2>4, <2>5
<1>13. (Unread(Other) /\ Unread(s_rx_idx))' => N[Other'] < N[s_rx_idx']
  <2> SUFFICES ASSUME Unread(Other)', Unread(s_rx_idx)' PROVE N[Other'] < N[s_rx_idx']
    OBVIOUS
  <2>1. s_rx_idx' = s_rx_idx /\ Other' = Other /\ Other \in Idx /\ s_rx_idx \in Idx
    BY <1>0, <1>5 DEF Other, IInv, TypeOK
  <2>2. Unread(Other) /\ Unread(s_rx_idx)
    BY <1>5, <2>1
  <2> QED BY <1>2, <2>1, <2>2 DEF FramesHold
<1>14. FramesHold(num, N)'
  BY <1>2, <1>12, <1>13 DEF FramesHold
<1> QED BY <1>6, <1>7, <1>8, <1>10, <1>11, <1>14 DEF Delivery, Intact

\* Without faults every step of the link keeps what is to be delivered.
LEMMA DeliveryHolds ==
  ASSUME MAX_FAULTS = 0, Delivery, [LinkNext]_linkVars
  PROVE  Delivery'
<1>1. IInv'
  BY LinkStep, InvStep DEF Delivery, Counted
<1>2. ~LoseByte /\ ~(\E b \in Byte : GarbleByte(b))
  BY DEF Delivery, Counted, LoseByte, GarbleByte
<1>3. CASE \E p \in Payloads : HostSend(p)
  BY <1>1, <1>3, SendDelivers
<1>4. CASE LineByte
  BY <1>1, <1>4, ByteDelivers
<1>5. CASE Stub
  BY <1>1, <1>5, StubDelivers
<1>6. CASE HostTimeout \/ UNCHANGED linkVars
  <2>1. UNCHANGED <<vars, wire, inbox, frames, faults, altered>>
    BY <1>6 DEF HostTimeout, linkVars, hostVars
  <2>2. Gone' = Gone /\ \A k : Sent(k)' = Sent(k) /\ Code(k)' = Code(k)
    BY <2>1 DEF Gone, Sent, Code
  <2>3. UNCHANGED <<s_state, s_rx_buf, s_rx_len, buffer, frame_length, frame_complete, frame_error,
                    s_rx_idx, s_proc_idx, pc, caller, state>>
    BY <2>1 DEF vars, isrVars, bufVars, flagVars, idxVars, mainVars
  <2>4. Exclusive' /\ Selected' /\ Counted'
    BY <2>1, <2>3 DEF Delivery, Exclusive, Selected, Counted
  <2>5. PICK num, pos, N : Intact(num, pos, N)
    BY DEF Delivery
  <2>6. LineHolds(num, pos)'
    BY <2>1, <2>2, <2>5 DEF Intact, LineHolds
  <2>7. DecoderHolds(num, pos)'
    BY <2>1, <2>2, <2>3, <2>5 DEF Intact, DecoderHolds, Between, Within, At
  <2>8. FramesHold(num, N)'
    BY <2>1, <2>2, <2>3, <2>5 DEF Intact, FramesHold, Unread, FrameIn, Other
  <2> QED BY <1>1, <2>4, <2>6, <2>7, <2>8 DEF Delivery, Intact
<1> QED BY <1>2, <1>3, <1>4, <1>5, <1>6 DEF LinkNext

\* At first nothing is on the line and nothing has been received.
LEMMA DeliveryAtFirst == LinkInit => Delivery
<1> SUFFICES ASSUME LinkInit PROVE Delivery
  OBVIOUS
<1>1. Init /\ IInv /\ wire = <<>> /\ inbox = <<>> /\ frames = 0 /\ faults = 0 /\ altered = 0
  BY InitInv DEF LinkInit
<1>2. Exclusive /\ Selected /\ \A i \in Idx : ~Unread(i)
  BY <1>1 DEF Init, Exclusive, Selected, Unread
<1>3. Counted
  BY <1>1 DEF Counted
<1>4. PICK e : e = [n \in 1..0 |-> 0]
  OBVIOUS
<1>5. LineHolds(e, e) /\ DecoderHolds(e, e)
  BY <1>1, <1>4 DEF LineHolds, DecoderHolds, Init
<1>6. FramesHold(e, [i \in Idx |-> 0])
  <2>1. s_rx_idx \in Idx
    BY <1>1 DEF IInv, TypeOK
  <2> QED BY <1>2, <2>1 DEF FramesHold
<1> QED BY <1>1, <1>2, <1>3, <1>5, <1>6 DEF Delivery, Intact

\* On a line that neither loses nor garbles a byte, every frame the stub hands to its
\* code is one the host sent, whole, in order and no more than once, whatever is in it
\* and however long it is, even when the host sends again and again into a stub that is
\* busy and misses frames, or takes the end of one for the beginning of the next.
THEOREM FramesAreWhole ==
  ASSUME MAX_FAULTS = 0
  PROVE  LinkSpec => []DamageIsBounded
<1>1. Delivery => DamageIsBounded
  BY DEF Delivery, Counted, DamageIsBounded
<1>2. Delivery /\ [LinkNext]_linkVars => Delivery'
  BY DeliveryHolds
<1> QED BY <1>1, <1>2, DeliveryAtFirst, PTL DEF LinkSpec
=============================================================================
