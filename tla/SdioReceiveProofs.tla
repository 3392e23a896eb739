-------------------------- MODULE SdioReceiveProofs --------------------------
(* Proofs about SdioReceive, for every set of payloads and every order of what *)
(* the DMA and the main program do.                                            *)
EXTENDS SdioReceive, TLAPS

(* A step of the main program that only changes where it is.                   *)

Moves == UNCHANGED <<buffer, flagVars, idxVars, dmaVars>>

\* The inductive invariant holds at boot.
LEMMA InitInv == Init => IInv
BY NullAssumption DEF Init, IInv, TypeOK, DriverAgrees, SpareIsFree, ProcDiscipline, Full, Idx

\* Whatever the driver does keeps the inductive invariant.
LEMMA DmaInv == IInv /\ Dma => IInv'
<1> SUFFICES ASSUME IInv, Dma PROVE IInv'
  OBVIOUS
<1> USE DEF IInv, TypeOK, DriverAgrees, SpareIsFree, ProcDiscipline, Full,
            flagVars, idxVars, mainVars, dmaVars, Idx
<1>1. ASSUME NEW p \in Payload, DmaWrites(p) PROVE IInv'
  BY <1>1 DEF DmaWrites
<1>2. ASSUME NEW long \in BOOLEAN, DmaEnds(long) PROVE IInv'
  BY <1>2 DEF DmaEnds
<1>3. CASE DmaGivesUp
  BY <1>3 DEF DmaGivesUp
<1> QED BY <1>1, <1>2, <1>3 DEF Dma

\* sdio_arm() switches to the spare buffer if the other holds a frame, and the
\* driver gets a buffer that is free.
LEMMA ArmInv == IInv /\ SdioArm => IInv'
<1> SUFFICES ASSUME IInv, SdioArm PROVE IInv'
  OBVIOUS
<1>1. /\ pc = "arm" /\ pc' = AfterArm /\ s_rx_idx' = NextRx
      /\ DriverRearm(Acquired)
      /\ UNCHANGED <<buffer, flagVars, s_proc_idx, caller, state>>
  BY DEF SdioArm, Goto
<1>2. /\ s_rx_idx' \in Idx /\ ~Full(s_rx_idx)'
      /\ Acquired = s_rx_idx'
  BY <1>1 DEF IInv, TypeOK, SpareIsFree, ProcDiscipline, NextRx, Acquired, Full, Other, Idx, flagVars
<1>3. /\ dma' \in {"disarmed", "armed", "pending"} /\ dma_buf' \in Idx \cup {NULL}
      /\ dma_long' \in BOOLEAN
  BY <1>1, <1>2 DEF DriverRearm, dmaVars, IInv, TypeOK
<1>4. AfterArm \in {"ohai", "poll", "stream", "release", "handle", "ack"}
      /\ (state = "IDLE" => AfterArm \in {"ohai", "poll", "stream"})
      /\ (caller = "boot" <=> AfterArm = "ohai")
      /\ (state # "IDLE" => AfterArm \in {"release", "handle", "ack"})
  BY DEF AfterArm, Resume, Return, IInv, TypeOK, ProcDiscipline
<1>5. TypeOK'
  BY <1>1, <1>2, <1>3, <1>4 DEF IInv, TypeOK, flagVars
<1>6. DriverAgrees'
  <2>1. CASE dma = "disarmed"
    BY <1>1, <1>2, <2>1 DEF DriverRearm, DriverAgrees, Full, dmaVars
  <2>2. CASE dma # "disarmed"
    <3>1. dma_buf = s_rx_idx /\ ~Full(s_rx_idx)
      BY <2>2 DEF IInv, DriverAgrees
    <3>2. s_rx_idx' = s_rx_idx /\ UNCHANGED dmaVars
      BY <1>1, <2>2, <3>1 DEF NextRx, DriverRearm
    <3> QED BY <1>2, <3>1, <3>2 DEF DriverAgrees, dmaVars
  <2> QED BY <2>1, <2>2
<1>7. SpareIsFree' /\ ProcDiscipline'
  BY <1>1, <1>2, <1>4 DEF IInv, TypeOK, SpareIsFree, ProcDiscipline, Full, flagVars, Idx
<1> QED BY <1>5, <1>6, <1>7 DEF IInv

\* Taking a frame from the driver puts it in the buffer that was received into,
\* and selects that buffer.
LEMMA TakeSelects ==
  ASSUME IInv, TakeFrame
  PROVE  /\ s_proc_idx' = s_rx_idx /\ state' \in {"COMPLETE", "ERROR"}
         /\ \A i \in Idx : Full(i)' <=> i = s_rx_idx
         /\ frame_complete' \in [Idx -> BOOLEAN] /\ frame_error' \in [Idx -> BOOLEAN]
         /\ frame_error'[s_rx_idx] = dma_long
<1>1. \A i \in Idx : ~frame_complete[i] /\ ~frame_error[i]
  BY DEF IInv, ProcDiscipline, TakeFrame, Full
<1>2. /\ frame_complete' = [frame_complete EXCEPT ![s_rx_idx] = ~dma_long]
      /\ frame_error' = [frame_error EXCEPT ![s_rx_idx] = dma_long]
  BY <1>1 DEF TakeFrame, IInv, TypeOK
<1>3. s_rx_idx \in Idx /\ Other \in Idx /\ Other # s_rx_idx
  BY DEF IInv, TypeOK, Other, Idx
<1>4. /\ frame_complete' \in [Idx -> BOOLEAN] /\ frame_error' \in [Idx -> BOOLEAN]
      /\ frame_error'[s_rx_idx] = dma_long
  BY <1>2, <1>3 DEF IInv, TypeOK
<1>5. \A i \in Idx : Full(i)' <=> i = s_rx_idx
  BY <1>1, <1>2, <1>3 DEF IInv, TypeOK, Full
<1>6. ~frame_complete'[Other] /\ ~frame_error'[Other]
  BY <1>3, <1>5 DEF Full
<1>7. s_proc_idx' = s_rx_idx /\ state' \in {"COMPLETE", "ERROR"}
  BY <1>6 DEF TakeFrame, Selects
<1> QED BY <1>4, <1>5, <1>7

\* Taking a frame keeps the inductive invariant.
LEMMA TakeInv == IInv /\ TakeFrame => IInv'
<1> SUFFICES ASSUME IInv, TakeFrame PROVE IInv'
  OBVIOUS
<1>1. /\ pc = "take" /\ pc' = "arm" /\ dma' = "disarmed"
      /\ UNCHANGED <<buffer, s_rx_idx, dma_buf, dma_long, caller>>
  BY DEF TakeFrame
<1>2. s_rx_idx \in Idx /\ caller # "boot"
  BY <1>1 DEF IInv, TypeOK, ProcDiscipline
<1>3. \E i \in Idx : i # s_rx_idx
  BY DEF Idx
<1>4. TypeOK'
  BY <1>1, <1>2, TakeSelects DEF IInv, TypeOK
<1>5. DriverAgrees'
  BY <1>1 DEF DriverAgrees
<1>6. SpareIsFree'
  BY <1>1, TakeSelects DEF SpareIsFree, Idx
<1>7. ProcDiscipline'
  BY <1>1, <1>2, TakeSelects DEF ProcDiscipline, Idx
<1> QED BY <1>4, <1>5, <1>6, <1>7 DEF IInv

\* The other steps of the main program keep the inductive invariant.
LEMMA MainInv == IInv /\ Main => IInv'
<1> SUFFICES ASSUME IInv, Main PROVE IInv'
  OBVIOUS
<1>1. CASE PollState
  <2>1. ~Full(0) /\ ~Full(1)
    BY <1>1 DEF PollState, IInv, SpareIsFree
  <2>2. /\ pc = "poll" /\ pc' = "take" /\ state' = "IDLE"
        /\ UNCHANGED <<buffer, flagVars, idxVars, dmaVars, caller>>
    BY <1>1, <2>1 DEF PollState, idxVars
  <2> QED BY <2>1, <2>2 DEF IInv, TypeOK, DriverAgrees, SpareIsFree, ProcDiscipline, Full,
            flagVars, idxVars, dmaVars, Idx
<1>2. CASE TakeNothing
  BY <1>2 DEF TakeNothing, Goto, IInv, TypeOK, DriverAgrees, SpareIsFree, ProcDiscipline, Full,
            flagVars, idxVars, dmaVars, Idx
<1>3. CASE Release
  <2>1. /\ pc = "release" /\ pc' \in {"poll", "stream"}
        /\ frame_complete' = [frame_complete EXCEPT ![s_proc_idx] = FALSE]
        /\ frame_error' = [frame_error EXCEPT ![s_proc_idx] = FALSE]
        /\ UNCHANGED <<buffer, idxVars, dmaVars, caller, state>>
    BY <1>3 DEF Release, Goto, Resume
  <2>2. /\ \A i \in Idx : ~Full(i)'
        /\ frame_complete' \in [Idx -> BOOLEAN] /\ frame_error' \in [Idx -> BOOLEAN]
    BY <2>1 DEF IInv, TypeOK, ProcDiscipline, Full
  <2>3. caller # "boot" /\ s_rx_idx \in Idx
    BY <2>1 DEF IInv, TypeOK, ProcDiscipline
  <2> QED BY <2>1, <2>2, <2>3 DEF IInv, TypeOK, DriverAgrees, SpareIsFree, ProcDiscipline,
            idxVars, dmaVars, Idx
<1>4. CASE Loops
  <2>1. Moves /\ state' = state
    BY <1>4 DEF Loops, SendOhai, HandleCommand, FinishCommand, StreamStart, StreamPoll,
       StreamAck, StreamBreak, StreamEnd, MainStep, Moves
  <2>2. \/ pc = "ohai" /\ pc' = "poll" /\ caller' = "main"
        \/ pc \in {"handle", "post", "ack"} /\ pc' \in {"post", "release"}
           /\ caller' \in {"main", "stream"}
        \/ pc = "stream" /\ pc' \in {"poll", "release"} /\ caller' \in {"main", "stream"}
    BY <1>4 DEF Loops, SendOhai, HandleCommand, FinishCommand, StreamStart, StreamPoll,
       StreamAck, StreamBreak, StreamEnd, MainStep
  <2> QED BY <2>1, <2>2 DEF Moves, IInv, TypeOK, DriverAgrees, SpareIsFree, ProcDiscipline, Full,
            flagVars, idxVars, dmaVars, Idx
<1> QED BY <1>1, <1>2, <1>3, <1>4, ArmInv, TakeInv DEF Main, Poll

\* Every step keeps the inductive invariant.
LEMMA InvStep == IInv /\ [Next]_vars => IInv'
<1> SUFFICES ASSUME IInv, [Next]_vars PROVE IInv'
  OBVIOUS
<1>1. CASE UNCHANGED vars
  BY <1>1 DEF vars, flagVars, idxVars, dmaVars, mainVars, IInv, TypeOK, DriverAgrees,
     SpareIsFree, ProcDiscipline, Full
<1> QED BY <1>1, DmaInv, MainInv DEF Next

\* The inductive invariant holds in every reachable state.
LEMMA Invariance == Spec => []IInv
BY InitInv, InvStep, PTL DEF Spec

-----------------------------------------------------------------------------
(* The invariants.                                                             *)

\* Every variable of the SDIO receive path keeps its type.
THEOREM TypeCorrect == Spec => []TypeOK
BY Invariance, PTL DEF IInv

\* The driver fills the buffer that frame_buffer.c counts as being received
\* into, and nothing waits in it.
THEOREM DriverBufferSafe == Spec => []DriverAgrees
BY Invariance, PTL DEF IInv

\* sdio_arm() always has a buffer to give, whatever the host sends.
THEOREM ArmAlwaysFinds == Spec => []SpareIsFree
BY Invariance, PTL DEF IInv

-----------------------------------------------------------------------------
(* Refinement: every step is a Receive, a Take, a Release or a stutter of      *)
(* FrameChannel.                                                               *)

\* At boot the channel is empty.
LEMMA InitChannel == Init => Channel!Init
BY DEF Init, Channel!Init, Held, Pending, Full, Idx

\* While no flag, index or driver state changes, and no buffer but the one the
\* DMA is writing, the channel stays as it is.
LEMMA SameChannel ==
  ASSUME IInv, UNCHANGED <<flagVars, s_proc_idx>>,
         \A i \in Idx : Full(i) => buffer'[i] = buffer[i],
         dma = "pending" => UNCHANGED <<buffer, dmaVars>>,
         dma # "pending" => dma' # "pending"
  PROVE  UNCHANGED Channel!vars
<1>1. Held' = Held
  BY DEF Held, Full, IInv, TypeOK, flagVars
<1>2. Pending' = Pending
  BY DEF Pending, dmaVars
<1> QED BY <1>1, <1>2 DEF Channel!vars

\* The DMA puts a frame in the channel when it ends one, and does not show before.
LEMMA DmaRefines == IInv /\ Dma => Channel!Next \/ UNCHANGED Channel!vars
<1> SUFFICES ASSUME IInv, Dma PROVE Channel!Next \/ UNCHANGED Channel!vars
  OBVIOUS
<1>1. ASSUME NEW p \in Payload, DmaWrites(p) PROVE UNCHANGED Channel!vars
  <2>1. dma = "armed" /\ dma' = "armed" /\ UNCHANGED <<flagVars, s_proc_idx>>
    BY <1>1 DEF DmaWrites, dmaVars, idxVars
  <2>2. \A i \in Idx : Full(i) => buffer'[i] = buffer[i]
    BY <1>1, <2>1 DEF DmaWrites, IInv, TypeOK, DriverAgrees
  <2> QED BY <2>1, <2>2, SameChannel
<1>2. ASSUME NEW long \in BOOLEAN, DmaEnds(long) PROVE Channel!Receive
  <2>1. /\ dma = "armed" /\ dma' = "pending"
        /\ UNCHANGED <<buffer, flagVars, s_proc_idx, dma_buf>>
    BY <1>2 DEF DmaEnds, idxVars
  <2>2. Held' = Held
    BY <2>1 DEF Held, Full, flagVars
  <2>3. Pending = NONE
    BY <2>1 DEF Pending
  <2>4. Pending' \in Frame
    BY <2>1 DEF Pending, Frame, IInv, TypeOK, DriverAgrees
  <2> QED BY <2>2, <2>3, <2>4 DEF Channel!Receive
<1>3. CASE DmaGivesUp
  BY <1>3, SameChannel DEF DmaGivesUp, idxVars
<1> QED BY <1>1, <1>2, <1>3 DEF Dma, Channel!Next

\* A frame taken from the driver is the one that waited in the channel.
LEMMA TakeRefines == IInv /\ TakeFrame => Channel!Take
<1> SUFFICES ASSUME IInv, TakeFrame PROVE Channel!Take
  OBVIOUS
<1>1. /\ pc = "take" /\ dma = "pending" /\ dma' = "disarmed" /\ buffer' = buffer
  BY DEF TakeFrame
<1>2. dma_buf = s_rx_idx /\ s_rx_idx \in Idx
  BY <1>1 DEF IInv, TypeOK, DriverAgrees
<1>3. Held = NONE
  BY <1>1 DEF Held, IInv, TypeOK, ProcDiscipline
<1>4. Pending \in Frame
  BY <1>1, <1>2 DEF Pending, Frame, IInv, TypeOK
<1>5. Held' = Pending
  BY <1>1, <1>2, TakeSelects DEF Held, Pending
<1>6. Pending' = NONE
  BY <1>1 DEF Pending
<1> QED BY <1>3, <1>4, <1>5, <1>6, FrameAssumption DEF Channel!Take

\* frame_buffer_reset() gives up the held frame; done again, it does nothing.
LEMMA ReleaseRefines == IInv /\ Release => Channel!Release \/ UNCHANGED Channel!vars
<1> SUFFICES ASSUME IInv, Release PROVE Channel!Release \/ UNCHANGED Channel!vars
  OBVIOUS
<1>1. /\ frame_complete' = [frame_complete EXCEPT ![s_proc_idx] = FALSE]
      /\ frame_error' = [frame_error EXCEPT ![s_proc_idx] = FALSE]
      /\ UNCHANGED <<buffer, s_proc_idx, dmaVars>>
  BY DEF Release, idxVars
<1>2. Pending' = Pending
  BY <1>1 DEF Pending, dmaVars
<1>3. Held' = NONE
  BY <1>1 DEF Held, Full, IInv, TypeOK
<1> QED BY <1>2, <1>3 DEF Channel!Release, Channel!vars

\* The main program takes and releases frames, and leaves the channel alone
\* otherwise.
LEMMA MainRefines == IInv /\ Main => Channel!Next \/ UNCHANGED Channel!vars
<1> SUFFICES ASSUME IInv, Main PROVE Channel!Next \/ UNCHANGED Channel!vars
  OBVIOUS
<1>1. CASE PollState
  <2>1. ~Full(0) /\ ~Full(1)
    BY <1>1 DEF PollState, IInv, SpareIsFree
  <2>2. UNCHANGED <<buffer, flagVars, s_proc_idx, dmaVars>>
    BY <1>1, <2>1 DEF PollState
  <2> QED BY <2>2, SameChannel DEF dmaVars
<1>2. CASE TakeNothing
  BY <1>2, SameChannel DEF TakeNothing, idxVars, dmaVars
<1>3. CASE SdioArm
  BY <1>3, SameChannel DEF SdioArm, DriverRearm, dmaVars
<1>4. CASE Loops
  BY <1>4, SameChannel DEF Loops, SendOhai, HandleCommand, FinishCommand, StreamStart, StreamPoll,
     StreamAck, StreamBreak, StreamEnd, MainStep, idxVars, dmaVars
<1> QED BY <1>1, <1>2, <1>3, <1>4, TakeRefines, ReleaseRefines DEF Main, Poll, Channel!Next

\* The SDIO receive path implements the channel of two frames.
THEOREM ChannelRefinement == Spec => ImplementsChannel
<1>1. IInv /\ [Next]_vars => [Channel!Next]_(Channel!vars)
  <2> SUFFICES ASSUME IInv, [Next]_vars PROVE Channel!Next \/ UNCHANGED Channel!vars
    OBVIOUS
  <2>1. CASE UNCHANGED vars
    BY <2>1, SameChannel DEF vars, flagVars, idxVars, dmaVars
  <2> QED BY <2>1, DmaRefines, MainRefines DEF Next
<1> QED BY <1>1, Invariance, InitChannel, PTL DEF Spec, ImplementsChannel, Channel!Spec
=============================================================================
