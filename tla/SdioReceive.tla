----------------------------- MODULE SdioReceive -----------------------------
(* The receive path over SDIO: sdio_recv_poll() (transport.c), the two frame   *)
(* buffers (frame_buffer.c) and the loops that poll.  A frame comes by DMA     *)
(* into the buffer the driver was given; the interrupt keeps its length for    *)
(* stub_lib_sdio_take_rx_frame().  The driver is external, and as the comments *)
(* of transport.c describe it: it also gives its buffer up without a frame,    *)
(* rearming it is a no-op while it is armed and fails while a frame waits.     *)
(*                                                                             *)
(* Only the main program touches the frame buffers' flags and indices, so its  *)
(* steps are those between two calls of the driver.                            *)
EXTENDS Integers

CONSTANTS Payload,             \* what a frame may hold
          NULL, NONE, ERROR    \* no buffer, no frame, the error mark

Idx == {0, 1}
Frame == Payload \cup {ERROR}

ASSUME NullAssumption == NULL \notin Idx
ASSUME FrameAssumption == NONE \notin Frame /\ ERROR \notin Payload /\ Payload # {}

VARIABLES
  buffer, frame_complete, frame_error, s_rx_idx, s_proc_idx,   \* frame_buffer.c
  dma,          \* the driver: "disarmed", "armed", or a frame is "pending"
  dma_buf,      \* the buffer it was armed with
  dma_long,     \* the pending frame is longer than a buffer
  pc, caller,   \* where the main program is, and for whom: "boot", "main", "stream"
  state         \* the local of sdio_recv_poll()

flagVars == <<frame_complete, frame_error>>
idxVars  == <<s_rx_idx, s_proc_idx>>
dmaVars  == <<dma, dma_buf, dma_long>>
mainVars == <<pc, caller, state>>
vars == <<buffer, flagVars, idxVars, dmaVars, mainVars>>

Other == 1 - s_rx_idx
Full(i) == frame_complete[i] \/ frame_error[i]

-----------------------------------------------------------------------------
(* The driver.                                                                 *)

\* The DMA fills the buffer while the host sends.
DmaWrites(p) ==
  /\ dma = "armed"
  /\ buffer' = [buffer EXCEPT ![dma_buf] = p]
  /\ UNCHANGED <<flagVars, idxVars, dmaVars, mainVars>>

DmaEnds(long) ==
  /\ dma = "armed"
  /\ dma' = "pending" /\ dma_long' = long
  /\ UNCHANGED <<buffer, flagVars, idxVars, dma_buf, mainVars>>

\* sdio_slc_isr on an empty descriptor chain: no frame, and no buffer either.
DmaGivesUp ==
  /\ dma = "armed"
  /\ dma' = "disarmed"
  /\ UNCHANGED <<buffer, flagVars, idxVars, dma_buf, dma_long, mainVars>>

\* stub_lib_sdio_rearm(buf).
DriverRearm(buf) ==
  IF dma = "disarmed" /\ buf # NULL
    THEN dma' = "armed" /\ dma_buf' = buf /\ UNCHANGED dma_long
    ELSE UNCHANGED dmaVars

-----------------------------------------------------------------------------
(* The frame buffers.                                                          *)

\* frame_buffer_acquire(): what it leaves in s_rx_idx, and what it returns.
NextRx == IF Full(s_rx_idx) /\ ~Full(Other) THEN Other ELSE s_rx_idx
Acquired == IF Full(s_rx_idx) /\ Full(Other) THEN NULL ELSE NextRx

\* frame_buffer_get_state() with the flags as given.
Selects(complete, error, i, result) ==
  \/ error[Other] /\ i = Other /\ result = "ERROR"
  \/ ~error[Other] /\ error[s_rx_idx] /\ i = s_rx_idx /\ result = "ERROR"
  \/ /\ ~error[Other] /\ ~error[s_rx_idx] /\ complete[Other]
     /\ i = Other /\ result = "COMPLETE"
  \/ /\ ~error[Other] /\ ~error[s_rx_idx] /\ ~complete[Other] /\ complete[s_rx_idx]
     /\ i = s_rx_idx /\ result = "COMPLETE"

-----------------------------------------------------------------------------
(* sdio_recv_poll().                                                           *)

Goto(label) == pc' = label /\ UNCHANGED <<caller, state>>

\* Where the caller goes with a frame or an error.
Return(result) ==
  IF result = "ERROR" THEN "release" ELSE IF caller = "stream" THEN "ack" ELSE "handle"
Resume == IF caller = "stream" THEN "stream" ELSE "poll"

\* A frame that awaits its release is returned again, without arming anything.
PollState ==
  /\ pc = "poll"
  /\ IF Full(0) \/ Full(1)
       THEN \E i \in Idx, result \in {"COMPLETE", "ERROR"} :
              /\ Selects(frame_complete, frame_error, i, result)
              /\ s_proc_idx' = i /\ state' = result /\ pc' = Return(result)
       ELSE state' = "IDLE" /\ pc' = "take" /\ UNCHANGED s_proc_idx
  /\ UNCHANGED <<buffer, flagVars, s_rx_idx, dmaVars, caller>>

\* stub_lib_sdio_take_rx_frame() has none.
TakeNothing ==
  /\ pc = "take" /\ dma # "pending"
  /\ Goto("arm")
  /\ UNCHANGED <<buffer, flagVars, idxVars, dmaVars>>

\* frame_buffer_mark_complete() and frame_buffer_get_state() on what it took.
TakeFrame ==
  /\ pc = "take" /\ dma = "pending"
  /\ dma' = "disarmed"
  /\ IF dma_long
       THEN frame_error' = [frame_error EXCEPT ![s_rx_idx] = TRUE] /\ UNCHANGED frame_complete
       ELSE frame_complete' = [frame_complete EXCEPT ![s_rx_idx] = TRUE]
            /\ UNCHANGED frame_error
  /\ \E i \in Idx, result \in {"COMPLETE", "ERROR"} :
       /\ Selects(frame_complete', frame_error', i, result)
       /\ s_proc_idx' = i /\ state' = result
  /\ pc' = "arm"
  /\ UNCHANGED <<buffer, s_rx_idx, dma_buf, dma_long, caller>>

\* The poll returns, or the boot goes on.
AfterArm ==
  CASE caller = "boot"                      -> "ohai"
    [] caller # "boot" /\ state = "IDLE"   -> Resume
    [] caller # "boot" /\ state # "IDLE"   -> Return(state)

\* Mutant of SdioArm: only a frame that was taken leads to a rearm.
SdioArmAfterFrame ==
  /\ pc = "arm"
  /\ IF state = "IDLE" /\ caller # "boot"
       THEN UNCHANGED <<s_rx_idx, dmaVars>>
       ELSE DriverRearm(Acquired) /\ s_rx_idx' = NextRx
  /\ Goto(AfterArm)
  /\ UNCHANGED <<buffer, flagVars, s_proc_idx>>

\* Mutant of SdioArm: the driver is given the buffer that was just filled.
SdioArmSame ==
  /\ pc = "arm"
  /\ DriverRearm(s_rx_idx)
  /\ Goto(AfterArm)
  /\ UNCHANGED <<buffer, flagVars, idxVars>>

\* sdio_arm(), with a frame or without.
SdioArm ==
  /\ pc = "arm"
  /\ DriverRearm(Acquired) /\ s_rx_idx' = NextRx
  /\ Goto(AfterArm)
  /\ UNCHANGED <<buffer, flagVars, s_proc_idx>>

\* Mutant of Release: the error flag is forgotten.
ReleaseForgetsError ==
  /\ pc = "release"
  /\ frame_complete' = [frame_complete EXCEPT ![s_proc_idx] = FALSE]
  /\ Goto(Resume)
  /\ UNCHANGED <<buffer, frame_error, idxVars, dmaVars>>

\* frame_buffer_reset().
Release ==
  /\ pc = "release"
  /\ frame_complete' = [frame_complete EXCEPT ![s_proc_idx] = FALSE]
  /\ frame_error' = [frame_error EXCEPT ![s_proc_idx] = FALSE]
  /\ Goto(Resume)
  /\ UNCHANGED <<buffer, idxVars, dmaVars>>

-----------------------------------------------------------------------------
(* esp_main(), and the acknowledgement loop of a flash read.                   *)

MainStep(here, label, who) ==
  /\ pc = here
  /\ pc' = label /\ caller' = who
  /\ UNCHANGED <<buffer, flagVars, idxVars, dmaVars, state>>

SendOhai == MainStep("ohai", "poll", "main")

\* The command is answered, then post-processed with its frame held.
HandleCommand == MainStep("handle", "post", "main")
FinishCommand == MainStep("post", "release", "main")

\* A flash read releases its command and polls for ACKs itself; the main loop
\* then releases whatever buffer was selected last.
StreamStart == MainStep("post", "release", "stream")
StreamPoll  == MainStep("stream", "poll", "stream")
StreamAck   == MainStep("ack", "release", "stream")
StreamBreak == MainStep("ack", "release", "main")
StreamEnd   == MainStep("stream", "release", "main")

Poll == PollState \/ TakeNothing \/ TakeFrame \/ SdioArm
Loops == \/ SendOhai \/ HandleCommand \/ FinishCommand
         \/ StreamStart \/ StreamPoll \/ StreamAck \/ StreamBreak \/ StreamEnd
Main == Poll \/ Release \/ Loops

Dma == (\E p \in Payload : DmaWrites(p)) \/ (\E long \in BOOLEAN : DmaEnds(long)) \/ DmaGivesUp

\* stub_transport_init() has initialised the driver and calls sdio_arm().
Init ==
  /\ buffer \in [Idx -> Payload]
  /\ frame_complete = [i \in Idx |-> FALSE] /\ frame_error = [i \in Idx |-> FALSE]
  /\ s_rx_idx = 0 /\ s_proc_idx = 0
  /\ dma = "disarmed" /\ dma_buf = NULL /\ dma_long = FALSE
  /\ pc = "arm" /\ caller = "boot" /\ state = "IDLE"

Next == Dma \/ Main

\* The main program runs; nothing is assumed of the host and the DMA.
Spec == Init /\ [][Next]_vars /\ WF_vars(Main)

-----------------------------------------------------------------------------
(* Properties.                                                                 *)

\* Every variable keeps to the values its C type and use allow.
TypeOK ==
  /\ buffer \in [Idx -> Payload]
  /\ frame_complete \in [Idx -> BOOLEAN] /\ frame_error \in [Idx -> BOOLEAN]
  /\ s_rx_idx \in Idx /\ s_proc_idx \in Idx
  /\ dma \in {"disarmed", "armed", "pending"} /\ dma_buf \in Idx \cup {NULL}
  /\ dma_long \in BOOLEAN
  /\ pc \in {"poll", "take", "arm", "release", "ohai", "handle", "post", "ack", "stream"}
  /\ caller \in {"boot", "main", "stream"} /\ state \in {"IDLE", "COMPLETE", "ERROR"}

\* The driver fills the buffer frame_buffer.c counts as being received into, and
\* that buffer waits for nobody: the length that is latched goes to the frame
\* that was written.
DriverAgrees == dma # "disarmed" => dma_buf = s_rx_idx /\ ~Full(s_rx_idx)

\* "A NULL buffer means both frame buffers are occupied, which cannot happen":
\* whatever the host sends, sdio_arm() has a buffer to give, and no poll comes
\* upon a frame that awaits its release, when it would arm nothing.
SpareIsFree ==
  /\ pc = "arm" => ~(Full(0) /\ Full(1))
  /\ pc = "poll" => ~Full(0) /\ ~Full(1)

\* "recv_poll MUST re-arm whenever it finds no pending frame -- otherwise the
\* link silently dies": a driver that gave its buffer up gets another.
LinkRevives == dma = "disarmed" ~> dma = "armed"

(* With these the properties above are inductive.                              *)

\* Something in a buffer is the frame being worked on; the spare was given to
\* the driver once the frame was taken.
ProcDiscipline ==
  /\ \A i \in Idx : Full(i) => i = s_proc_idx /\ caller # "boot"
                               /\ pc \in {"arm", "release", "handle", "post", "ack"}
  /\ pc = "arm" /\ state = "IDLE" => ~Full(0) /\ ~Full(1)
  /\ Full(s_rx_idx) => pc = "arm" /\ dma = "disarmed"
  /\ pc = "take" => state = "IDLE"
  /\ pc = "arm" /\ state # "IDLE" => Full(s_proc_idx)
  /\ caller = "boot" => pc \in {"arm", "ohai"} /\ state = "IDLE"

IInv == TypeOK /\ DriverAgrees /\ SpareIsFree /\ ProcDiscipline

(* The receive path implements FrameChannel.                                   *)

Held == IF Full(s_proc_idx)
          THEN IF frame_error[s_proc_idx] THEN ERROR ELSE buffer[s_proc_idx]
          ELSE NONE
Pending == IF dma = "pending" THEN IF dma_long THEN ERROR ELSE buffer[dma_buf] ELSE NONE

Channel == INSTANCE FrameChannel WITH held <- Held, next <- Pending

\* Received frames are taken whole, once each, in order, and are not altered
\* while they wait or are worked on.
ImplementsChannel == Channel!Spec
=============================================================================
