----------------------------- MODULE SlipReceive -----------------------------
(* The receive path over SLIP: the decoder run by the UART / USB interrupt     *)
(* (slip.c), the two frame buffers (frame_buffer.c), slip_recv_poll()          *)
(* (transport.c) and the loops that call it (main.c, and the acknowledgement   *)
(* loop of a flash read in command_handler.c and nand_plugin.c).               *)
(*                                                                             *)
(* The interrupt handles a byte in one step: it preempts the main program and  *)
(* runs to completion.  The main program moves by one access to a volatile     *)
(* variable at a time, so a byte may arrive between any two of them.  The      *)
(* line is arbitrary here: any byte may come at any moment (SlipLink puts a    *)
(* host at the other end).                                                     *)
EXTENDS Integers

CONSTANTS END, ESC, ESC_END, ESC_ESC,   \* the four bytes SLIP gives a meaning
          Data, ZERO,                   \* the other byte values, one of them 0
          FRAME_BUFFER_SIZE,            \* bytes in a frame buffer
          ACK_SIZE,                     \* length of an acknowledgement frame
          NULL, NONE, ERROR             \* no buffer, no frame, the error mark

Special == {END, ESC, ESC_END, ESC_ESC}
Byte == Special \cup Data
Idx == {0, 1}
Payload == UNION {[1..n -> Byte] : n \in 1..FRAME_BUFFER_SIZE}
Frame == Payload \cup {ERROR}

ASSUME SpecialsDiffer ==
  /\ END # ESC /\ END # ESC_END /\ END # ESC_ESC
  /\ ESC # ESC_END /\ ESC # ESC_ESC /\ ESC_END # ESC_ESC
ASSUME ZeroAssumption == ZERO \in Data
ASSUME SizeAssumption == FRAME_BUFFER_SIZE \in Nat \ {0} /\ ACK_SIZE \in Nat
ASSUME NullAssumption == NULL \notin Idx
ASSUME NoneAssumption == NONE \notin Frame

VARIABLES
  s_state, s_rx_buf, s_rx_len, s_rx_cap,               \* slip.c
  buffer, frame_length, frame_complete, frame_error,   \* s_buffers[2]
  s_rx_idx, s_proc_idx,                                \* frame_buffer.c
  pc,           \* where the main program is
  caller,       \* whose call it serves: "boot", "main" or "stream"
  state,        \* the local of slip_recv_poll()
  acquired      \* what frame_buffer_acquire() returned

isrVars  == <<s_state, s_rx_buf, s_rx_len, s_rx_cap>>
flagVars == <<frame_complete, frame_error>>
bufVars  == <<buffer, frame_length, frame_complete, frame_error>>
idxVars  == <<s_rx_idx, s_proc_idx>>
mainVars == <<pc, caller, state, acquired>>
vars == <<isrVars, bufVars, idxVars, mainVars>>

Other == 1 - s_rx_idx

-----------------------------------------------------------------------------
(* The interrupt: slip_recv_byte().                                            *)

MarkError ==
  /\ frame_error' = [frame_error EXCEPT ![s_rx_idx] = TRUE]
  /\ UNCHANGED <<frame_length, frame_complete>>

MarkComplete(len) ==
  IF len > FRAME_BUFFER_SIZE
    THEN MarkError
    ELSE /\ frame_length' = [frame_length EXCEPT ![s_rx_idx] = len]
         /\ frame_complete' = [frame_complete EXCEPT ![s_rx_idx] = TRUE]
         /\ UNCHANGED frame_error

\* Mutant of Abort: the decoder stays inside the frame it gave up.
AbortStaysInFrame ==
  /\ MarkError
  /\ s_rx_buf' = NULL
  /\ UNCHANGED <<s_state, s_rx_len, s_rx_cap, buffer>>

\* The frame is given up and the decoder disarmed.
Abort ==
  /\ MarkError
  /\ s_rx_buf' = NULL
  /\ s_state' = "NO_FRAME"
  /\ UNCHANGED <<s_rx_len, s_rx_cap, buffer>>

RxPut(byte) ==
  IF s_rx_len < s_rx_cap
    THEN /\ buffer' = [buffer EXCEPT ![s_rx_buf][s_rx_len + 1] = byte]
         /\ s_rx_len' = s_rx_len + 1
         /\ s_state' = "IN_FRAME"
         /\ UNCHANGED <<s_rx_buf, s_rx_cap, frame_length, flagVars>>
    ELSE Abort

NoFrameByte(b) ==
  /\ s_state = "NO_FRAME"
  /\ IF b = END /\ s_rx_buf # NULL
       THEN s_rx_len' = 0 /\ s_state' = "IN_FRAME"
       ELSE UNCHANGED <<s_rx_len, s_state>>
  /\ UNCHANGED <<s_rx_buf, s_rx_cap, bufVars>>

\* Mutant of CloseFrame: the decoder keeps the buffer it completed.
CloseFrameStaysArmed ==
  /\ IF s_rx_len > 0 THEN MarkComplete(s_rx_len) ELSE UNCHANGED <<frame_length, flagVars>>
  /\ s_rx_len' = 0
  /\ s_state' = "NO_FRAME"
  /\ UNCHANGED <<s_rx_buf, s_rx_cap, buffer>>

\* Mutant of CloseFrame: a frame of one byte counts as empty.
CloseFrameOffByOne ==
  /\ IF s_rx_len > 1
       THEN MarkComplete(s_rx_len) /\ s_rx_buf' = NULL
       ELSE UNCHANGED <<s_rx_buf, frame_length, flagVars>>
  /\ s_rx_len' = 0
  /\ s_state' = "NO_FRAME"
  /\ UNCHANGED <<s_rx_cap, buffer>>

\* END closes the frame.  Two of them in a row leave the decoder armed.
CloseFrame ==
  /\ IF s_rx_len > 0
       THEN MarkComplete(s_rx_len) /\ s_rx_buf' = NULL
       ELSE UNCHANGED <<s_rx_buf, frame_length, flagVars>>
  /\ s_rx_len' = 0
  /\ s_state' = "NO_FRAME"
  /\ UNCHANGED <<s_rx_cap, buffer>>

InFrameByte(b) ==
  /\ s_state = "IN_FRAME"
  /\ CASE b = END -> CloseFrame
       [] b = ESC -> s_state' = "ESCAPING"
                     /\ UNCHANGED <<s_rx_buf, s_rx_len, s_rx_cap, bufVars>>
       [] OTHER   -> RxPut(b)

EscapedByte(b) ==
  /\ s_state = "ESCAPING"
  /\ CASE b = ESC_END -> RxPut(END)
       [] b = ESC_ESC -> RxPut(ESC)
       [] OTHER       -> Abort

SlipRecvByte(b) ==
  /\ NoFrameByte(b) \/ InFrameByte(b) \/ EscapedByte(b)
  /\ UNCHANGED <<idxVars, mainVars>>

-----------------------------------------------------------------------------
(* The main program: frame_buffer_get_state(), a flag at a time.               *)

Goto(label) == pc' = label /\ UNCHANGED <<caller, state, acquired>>

\* One test of frame_buffer_get_state(): a flag that is set selects its buffer.
TestFlag(here, flag, i, result, otherwise) ==
  /\ pc = here
  /\ IF flag[i]
       THEN s_proc_idx' = i /\ state' = result /\ pc' = "acq_rx_complete"
       ELSE pc' = otherwise /\ UNCHANGED <<s_proc_idx, state>>
  /\ UNCHANGED <<isrVars, bufVars, s_rx_idx, caller, acquired>>

\* One test of a mutated slip_recv_poll(), which does not rearm.
TestFlagNoRearm(here, flag, i, result, found, otherwise) ==
  /\ pc = here
  /\ IF flag[i]
       THEN s_proc_idx' = i /\ state' = result /\ pc' = found
       ELSE pc' = otherwise /\ UNCHANGED <<s_proc_idx, state>>
  /\ UNCHANGED <<isrVars, bufVars, s_rx_idx, caller, acquired>>

\* Mutant of TestRxError: a failed reception returns before slip_do_rearm().
TestRxErrorNoRearm ==
  TestFlagNoRearm("state_rx_error", frame_error, s_rx_idx, "ERROR",
                  "rel_length", "state_other_complete")

\* Mutant of TestRxComplete: a frame is returned before slip_do_rearm().
TestRxCompleteNoRearm ==
  TestFlagNoRearm("state_rx_complete", frame_complete, s_rx_idx, "COMPLETE",
                  IF caller = "stream" THEN "ack" ELSE "handle",
                  IF caller = "stream" THEN "stream" ELSE "state_other_error")

\* Mutant of TestRxComplete: only the other buffer is looked at.
TestRxCompleteNever ==
  /\ pc = "state_rx_complete"
  /\ Goto(IF caller = "stream" THEN "stream" ELSE "state_other_error")
  /\ UNCHANGED <<isrVars, bufVars, idxVars>>

TestOtherError ==
  TestFlag("state_other_error", frame_error, Other, "ERROR", "state_rx_error")
TestRxError ==
  TestFlag("state_rx_error", frame_error, s_rx_idx, "ERROR", "state_other_complete")
TestOtherComplete ==
  TestFlag("state_other_complete", frame_complete, Other, "COMPLETE", "state_rx_complete")
TestRxComplete ==
  TestFlag("state_rx_complete", frame_complete, s_rx_idx, "COMPLETE",
           IF caller = "stream" THEN "stream" ELSE "state_other_error")

(* slip_do_rearm(): frame_buffer_acquire(), then slip_rearm().                 *)

AcquireTest(here, flag, otherwise) ==
  /\ pc = here
  /\ Goto(IF flag[s_rx_idx] THEN "acq_other" ELSE otherwise)
  /\ UNCHANGED <<isrVars, bufVars, idxVars>>

\* Mutant of AcquireRxComplete: a complete frame does not make it switch.
AcquireIgnoresComplete ==
  /\ pc = "acq_rx_complete"
  /\ Goto("acq_rx_error")
  /\ UNCHANGED <<isrVars, bufVars, idxVars>>

AcquireRxComplete == AcquireTest("acq_rx_complete", frame_complete, "acq_rx_error")
AcquireRxError    == AcquireTest("acq_rx_error", frame_error, "acq_length")

\* The other buffer is only ever written by the main program here.
AcquireOther ==
  /\ pc = "acq_other"
  /\ IF frame_complete[Other] \/ frame_error[Other]
       THEN acquired' = NULL /\ pc' = "arm_buf" /\ UNCHANGED s_rx_idx
       ELSE s_rx_idx' = Other /\ pc' = "acq_length" /\ UNCHANGED acquired
  /\ UNCHANGED <<isrVars, bufVars, s_proc_idx, caller, state>>

AcquireLength ==
  /\ pc = "acq_length"
  /\ frame_length' = [frame_length EXCEPT ![s_rx_idx] = 0]
  /\ acquired' = s_rx_idx
  /\ pc' = "arm_buf"
  /\ UNCHANGED <<isrVars, buffer, flagVars, idxVars, caller, state>>

ArmBuf ==
  /\ pc = "arm_buf"
  /\ s_rx_buf' = acquired
  /\ Goto("arm_cap")
  /\ UNCHANGED <<s_state, s_rx_len, s_rx_cap, bufVars, idxVars>>

\* The second half of slip_rearm(), and where the caller goes with the result.
ArmCap ==
  /\ pc = "arm_cap"
  /\ s_rx_cap' = FRAME_BUFFER_SIZE
  /\ Goto(CASE caller = "boot" -> "ohai"
            [] caller # "boot" /\ state = "ERROR" -> "rel_length"
            [] caller = "stream" /\ state # "ERROR" -> "ack"
            [] caller = "main" /\ state # "ERROR" -> "handle")
  /\ UNCHANGED <<s_state, s_rx_buf, s_rx_len, bufVars, idxVars>>

(* recv_release() = frame_buffer_reset().                                      *)

ReleaseLength ==
  /\ pc = "rel_length"
  /\ frame_length' = [frame_length EXCEPT ![s_proc_idx] = 0]
  /\ Goto("rel_complete")
  /\ UNCHANGED <<isrVars, buffer, flagVars, idxVars>>

\* Mutant of ReleaseComplete: the buffer being filled is cleared instead.
ReleaseCompleteOfRx ==
  /\ pc = "rel_complete"
  /\ frame_complete' = [frame_complete EXCEPT ![s_rx_idx] = FALSE]
  /\ Goto("rel_error")
  /\ UNCHANGED <<isrVars, buffer, frame_length, frame_error, idxVars>>

ReleaseComplete ==
  /\ pc = "rel_complete"
  /\ frame_complete' = [frame_complete EXCEPT ![s_proc_idx] = FALSE]
  /\ Goto("rel_error")
  /\ UNCHANGED <<isrVars, buffer, frame_length, frame_error, idxVars>>

\* Mutant of ReleaseError: the error flag is forgotten.
ReleaseErrorForgotten ==
  /\ pc = "rel_error"
  /\ Goto(IF caller = "stream" THEN "stream" ELSE "state_other_error")
  /\ UNCHANGED <<isrVars, bufVars, idxVars>>

ReleaseError ==
  /\ pc = "rel_error"
  /\ frame_error' = [frame_error EXCEPT ![s_proc_idx] = FALSE]
  /\ Goto(IF caller = "stream" THEN "stream" ELSE "state_other_error")
  /\ UNCHANGED <<isrVars, buffer, frame_length, frame_complete, idxVars>>

(* esp_main(), and the acknowledgement loop of a flash read.                   *)

MainStep(here, label, who) ==
  /\ pc = here
  /\ pc' = label /\ caller' = who
  /\ UNCHANGED <<isrVars, bufVars, idxVars, state, acquired>>

SendOhai == MainStep("ohai", "state_other_error", "main")

\* handle_command() answers, then may run a post-process with the frame held.
HandleCommand == MainStep("handle", "post", "main")
FinishCommand == MainStep("post", "rel_length", "main")

\* Of the post-processes, that of READ_FLASH releases its own command frame
\* and then polls for ACKs, unless it refuses the packet size.
HandleRead  == MainStep("handle", "read", "main")
ReadRefused == MainStep("read", "rel_length", "main")
StreamStart == MainStep("read", "rel_length", "stream")

StreamPoll == MainStep("stream", "state_other_error", "stream")

\* All data read and acknowledged, or the read failed: back to the main loop,
\* which releases the last selected buffer once more.
StreamEnd == MainStep("stream", "rel_length", "main")

\* The ACK is counted and its buffer released.
StreamAck == MainStep("ack", "rel_length", "stream")

\* A frame of another length ends READ_FLASH; the main loop releases it.
StreamBreak ==
  /\ frame_length[s_proc_idx] # ACK_SIZE
  /\ MainStep("ack", "rel_length", "main")

GetState == TestOtherError \/ TestRxError \/ TestOtherComplete \/ TestRxComplete
Rearm == \/ AcquireRxComplete \/ AcquireRxError \/ AcquireOther \/ AcquireLength
         \/ ArmBuf \/ ArmCap
Reset == ReleaseLength \/ ReleaseComplete \/ ReleaseError
Loops == \/ SendOhai \/ HandleCommand \/ FinishCommand
         \/ HandleRead \/ ReadRefused \/ StreamStart
         \/ StreamPoll \/ StreamEnd \/ StreamAck \/ StreamBreak
Main == GetState \/ Rearm \/ Reset \/ Loops

\* stub_transport_init() has attached the interrupt and calls slip_do_rearm();
\* the .bss is zeroed.
Init ==
  /\ s_state = "NO_FRAME" /\ s_rx_buf = NULL /\ s_rx_len = 0 /\ s_rx_cap = 0
  /\ buffer = [i \in Idx |-> [j \in 1..FRAME_BUFFER_SIZE |-> ZERO]]
  /\ frame_length = [i \in Idx |-> 0]
  /\ frame_complete = [i \in Idx |-> FALSE]
  /\ frame_error = [i \in Idx |-> FALSE]
  /\ s_rx_idx = 0 /\ s_proc_idx = 0
  /\ pc = "acq_rx_complete" /\ caller = "boot"
  /\ state = "IDLE" /\ acquired = NULL

Next == (\E b \in Byte : SlipRecvByte(b)) \/ Main

Spec == Init /\ [][Next]_vars

-----------------------------------------------------------------------------
(* Properties.                                                                 *)

Labels == {"acq_rx_complete", "acq_rx_error", "acq_other", "acq_length",
           "arm_buf", "arm_cap", "ohai", "handle", "post", "read", "ack",
           "stream", "state_other_error", "state_rx_error", "state_other_complete",
           "state_rx_complete", "rel_length", "rel_complete", "rel_error"}

\* Every variable keeps to the values its C type and use allow.
TypeOK ==
  /\ s_state \in {"NO_FRAME", "IN_FRAME", "ESCAPING"}
  /\ s_rx_buf \in Idx \cup {NULL}
  /\ s_rx_len \in 0..FRAME_BUFFER_SIZE /\ s_rx_cap \in {0, FRAME_BUFFER_SIZE}
  /\ buffer \in [Idx -> [1..FRAME_BUFFER_SIZE -> Byte]]
  /\ frame_length \in [Idx -> 0..FRAME_BUFFER_SIZE]
  /\ frame_complete \in [Idx -> BOOLEAN] /\ frame_error \in [Idx -> BOOLEAN]
  /\ s_rx_idx \in Idx /\ s_proc_idx \in Idx
  /\ pc \in Labels /\ caller \in {"boot", "main", "stream"}
  /\ state \in {"IDLE", "ERROR", "COMPLETE"} /\ acquired \in Idx \cup {NULL}

Full(i) == frame_complete[i] \/ frame_error[i]

\* An armed decoder fills the buffer whose flags it will set, and that buffer
\* waits for nobody: rx_put() writes through s_rx_buf, frame_buffer_mark_*()
\* go through s_rx_idx, and the main program moves both (slip.c, frame_buffer.c).
ArmedBufferIsFree == s_rx_buf # NULL => s_rx_buf = s_rx_idx /\ ~Full(s_rx_idx)

\* Inside a frame the decoder has a buffer and has not run past its capacity,
\* whatever slip_rearm() did to s_rx_buf and s_rx_cap meanwhile: rx_put() never
\* writes through NULL or outside the array.
DecoderInBounds == s_state # "NO_FRAME" => s_rx_buf # NULL /\ s_rx_len =< s_rx_cap

\* "It must never touch the buffer the ISR/DMA is currently filling": during a
\* frame_buffer_reset(), the redundant ones included, s_proc_idx # s_rx_idx.
ReleaseSparesRx ==
  pc \in {"rel_length", "rel_complete", "rel_error"} => s_proc_idx # s_rx_idx

\* frame_buffer_acquire() always finds a free buffer: the branch that returns
\* NULL, and leaves the link without a buffer, is dead on the SLIP transports.
AcquireSucceeds == pc = "acq_other" => ~Full(Other)

\* Except while slip_do_rearm() is about to arm it, the decoder is armed or has
\* left a frame for the next poll: no order of bytes and polls makes it deaf.
NeverDeaf ==
  \/ s_rx_buf # NULL \/ Full(s_rx_idx)
  \/ pc \in {"acq_rx_complete", "acq_rx_error", "acq_length", "arm_buf"}

(* What the main program knows at each label; with the properties above it is  *)
(* inductive (SlipReceiveProofs).                                              *)

StateLabels   == {"state_other_error", "state_rx_error",
                  "state_other_complete", "state_rx_complete"}
SelectLabels  == {"acq_rx_complete", "acq_rx_error", "acq_other"}
SwitchLabels  == {"acq_length", "arm_buf"}
ReleaseLabels == {"rel_length", "rel_complete", "rel_error"}
WorkLabels    == {"handle", "post", "read", "ack"}

\* slip_do_rearm() finds the decoder disarmed and leaves it a clean buffer.
RearmDiscipline ==
  /\ pc \in SelectLabels \cup SwitchLabels => s_rx_buf = NULL
  /\ pc \in SelectLabels /\ caller # "boot" => s_proc_idx = s_rx_idx /\ Full(s_rx_idx)
  /\ pc = "acq_rx_error" => ~frame_complete[s_rx_idx]
  /\ pc \in SwitchLabels => ~Full(s_rx_idx)
  /\ pc = "arm_buf" => acquired = s_rx_idx

\* Before the greeting nothing has been received into the other buffer.
BootDiscipline ==
  caller = "boot" =>
    /\ pc \in {"acq_rx_complete", "acq_rx_error", "arm_cap", "ohai"} \cup SwitchLabels
    /\ pc \in SelectLabels => ~Full(s_rx_idx)

\* The other buffer is occupied only by the frame the main program works on.
SpareDiscipline ==
  Full(Other) =>
    /\ caller # "boot" /\ s_proc_idx = Other
    /\ pc \in SwitchLabels \cup WorkLabels \cup ReleaseLabels \cup {"arm_cap"}
    /\ pc = "rel_error" => ~frame_complete[Other]

\* Once a frame was selected and the buffers were switched, they stay apart.
ProcDiscipline ==
  caller # "boot" =>
    /\ pc \in SwitchLabels \cup WorkLabels \cup ReleaseLabels \cup {"arm_cap", "stream"}
         => s_proc_idx = Other
    /\ caller = "stream" /\ pc \in StateLabels => s_proc_idx = Other

\* A complete frame is not empty.
LengthDiscipline == frame_complete[s_rx_idx] => frame_length[s_rx_idx] > 0

IInv ==
  /\ TypeOK /\ ArmedBufferIsFree /\ DecoderInBounds /\ NeverDeaf
  /\ RearmDiscipline /\ BootDiscipline /\ SpareDiscipline
  /\ ProcDiscipline /\ LengthDiscipline

(* The receive path implements FrameChannel.                                   *)

FrameIn(i) == IF frame_error[i] THEN ERROR
              ELSE [j \in 1..frame_length[i] |-> buffer[i][j]]

\* From its selection by get_state() to the first write of its release.
HoldingLabels == {"acq_rx_complete", "acq_rx_error", "acq_other", "acq_length",
                  "arm_buf", "arm_cap", "handle", "post", "read", "ack",
                  "rel_length"}
Holding == pc \in HoldingLabels /\ caller # "boot" /\ Full(s_proc_idx)

Held == IF Holding THEN FrameIn(s_proc_idx) ELSE NONE
Pending == IF Full(s_rx_idx) /\ ~(Holding /\ s_proc_idx = s_rx_idx)
             THEN FrameIn(s_rx_idx) ELSE NONE

Channel == INSTANCE FrameChannel WITH held <- Held, next <- Pending

\* Received frames are taken whole, once each, in order, and are not altered
\* while the main program waits to take them or works on them.
ImplementsChannel == Channel!Spec
=============================================================================
