------------------------------ MODULE SlipLink ------------------------------
(* SlipReceive with a host at the other end of the line.  The host sends one   *)
(* frame and waits for the stub's answer before the next (the greeting, the    *)
(* response to a command, a packet or the digest of a flash read).  The line   *)
(* may lose or garble bytes, and the host may run out of patience and send     *)
(* again while the stub is still busy; both are bounded.                       *)
EXTENDS SlipReceive, SequencesExt

CONSTANTS Payloads,       \* what the host may send in a frame
          MAX_FRAMES,     \* frames the host sends
          MAX_FAULTS,     \* bytes lost or garbled
          MAX_TIMEOUTS    \* times the host stops waiting for an answer

\* A host sends no empty frame.
ASSUME PayloadAssumption == \A p \in Payloads : p \in Seq(Byte) /\ p # <<>>
ASSUME BoundAssumption == MAX_FRAMES \in Nat /\ MAX_FAULTS \in Nat /\ MAX_TIMEOUTS \in Nat

VARIABLES
  wire,       \* bytes on the line and in the receive FIFO, oldest first
  waiting,    \* the host waits for an answer
  inbox,      \* payloads sent and not yet handed to the stub's code
  unacked,    \* sent_packets - acked_packets of the flash read
  frames, faults, timeouts,     \* counted against their bounds
  altered,    \* frames handed over that are not frames the host sent
  fresh       \* the last frame was sent over a quiet line to an armed decoder,
              \* has not been hit by a fault, and is not yet received

hostVars == <<wire, waiting, inbox, frames, timeouts, faults, altered, fresh>>
linkVars == <<vars, hostVars, unacked>>

\* slip_send_frame(), which a SLIP host mirrors.
Escape(byte) == CASE byte = END -> <<ESC, ESC_END>>
                  [] byte = ESC -> <<ESC, ESC_ESC>>
                  [] OTHER      -> <<byte>>

Encode(payload) ==
  <<END>> \o FlattenSeq([i \in DOMAIN payload |-> Escape(payload[i])]) \o <<END>>

-----------------------------------------------------------------------------
(* The host and the line.                                                      *)

HostSend(p) ==
  /\ ~waiting /\ frames < MAX_FRAMES
  /\ wire' = wire \o Encode(p)
  /\ waiting' = TRUE
  /\ inbox' = Append(inbox, p)
  /\ frames' = frames + 1
  /\ fresh' = (wire = <<>> /\ s_rx_buf # NULL)
  /\ UNCHANGED <<vars, unacked, faults, timeouts, altered>>

\* The answer to a frame is late; a host without the greeting sends nothing.
HostTimeout ==
  /\ waiting /\ frames > 0 /\ timeouts < MAX_TIMEOUTS
  /\ waiting' = FALSE
  /\ timeouts' = timeouts + 1
  /\ UNCHANGED <<vars, unacked, wire, inbox, frames, faults, altered, fresh>>

LoseByte ==
  /\ wire # <<>> /\ faults < MAX_FAULTS
  /\ wire' = Tail(wire)
  /\ faults' = faults + 1
  /\ fresh' = FALSE
  /\ UNCHANGED <<vars, unacked, waiting, inbox, frames, timeouts, altered>>

GarbleByte(b) ==
  /\ wire # <<>> /\ faults < MAX_FAULTS /\ b # Head(wire)
  /\ wire' = <<b>> \o Tail(wire)
  /\ faults' = faults + 1
  /\ fresh' = FALSE
  /\ UNCHANGED <<vars, unacked, waiting, inbox, frames, timeouts, altered>>

\* The interrupt takes the oldest byte.
LineByte ==
  /\ wire # <<>>
  /\ SlipRecvByte(Head(wire))
  /\ wire' = Tail(wire)
  /\ fresh' = (fresh /\ ~(\E i \in Idx : Full(i)' /\ ~Full(i)))
  /\ UNCHANGED <<unacked, waiting, inbox, frames, faults, timeouts, altered>>

-----------------------------------------------------------------------------
(* The stub.                                                                   *)

\* The frame goes to the code that parses it; older ones were lost.
HandOver ==
  LET i == SelectInSeq(inbox, LAMBDA p : p = FrameIn(s_proc_idx))
  IN  IF i > 0
        THEN inbox' = SubSeq(inbox, i + 1, Len(inbox)) /\ UNCHANGED altered
        ELSE altered' = altered + 1 /\ UNCHANGED inbox

Answer == waiting' = FALSE /\ UNCHANGED <<wire, frames, faults, timeouts, fresh>>
Silent == UNCHANGED <<wire, waiting, frames, faults, timeouts, fresh>>
NoNews == Silent /\ UNCHANGED <<inbox, altered>>

Greet   == SendOhai /\ Answer /\ UNCHANGED <<inbox, altered, unacked>>
Respond == HandleCommand /\ HandOver /\ Answer /\ UNCHANGED unacked

\* The response to READ_FLASH: the host waits on, for the first packet.
RespondRead == HandleRead /\ HandOver /\ Silent /\ UNCHANGED unacked
StartRead   == StreamStart /\ NoNews /\ unacked' = 0
RefuseRead  == ReadRefused /\ NoNews /\ UNCHANGED unacked

\* At most one packet is in flight (max_unacked_packets).
SendPacket ==
  /\ pc = "stream" /\ unacked = 0
  /\ unacked' = 1
  /\ Answer
  /\ UNCHANGED <<vars, inbox, altered>>

CountAck == StreamAck /\ HandOver /\ Silent /\ unacked' = unacked - 1

\* The digest, when an ACK says that all was received (a garbled one, or a frame
\* sent again, may say so too early) or after a frame that is not an ACK.
EndRead   == /\ StreamEnd /\ (unacked = 0 \/ faults + timeouts > 0)
             /\ Answer /\ UNCHANGED <<inbox, altered, unacked>>
BreakRead == StreamBreak /\ HandOver /\ Answer /\ UNCHANGED unacked

\* stub_lib_flash_read_buff() failed: nothing is sent.
FailRead == StreamEnd /\ unacked = 0 /\ NoNews /\ UNCHANGED unacked

Quietly ==
  /\ GetState \/ Rearm \/ Reset \/ FinishCommand \/ StreamPoll
  /\ NoNews /\ UNCHANGED unacked

Stub == \/ Greet \/ Respond \/ RespondRead \/ StartRead \/ RefuseRead
        \/ SendPacket \/ CountAck \/ EndRead \/ BreakRead \/ FailRead \/ Quietly

LinkInit ==
  /\ Init
  /\ wire = <<>> /\ waiting = TRUE /\ inbox = <<>> /\ unacked = 0
  /\ frames = 0 /\ faults = 0 /\ timeouts = 0 /\ altered = 0
  /\ fresh = FALSE

LinkNext ==
  \/ \E p \in Payloads : HostSend(p)
  \/ HostTimeout
  \/ LoseByte
  \/ \E b \in Byte : GarbleByte(b)
  \/ LineByte
  \/ Stub

\* The interrupt is taken, and the main loop never stops.
LinkSpec == LinkInit /\ [][LinkNext]_linkVars
                     /\ WF_linkVars(LineByte) /\ WF_linkVars(Stub)

-----------------------------------------------------------------------------
(* Properties.                                                                 *)

\* With a host that waits and a line that does not err, the stub listens
\* whenever the host may speak: the early answer, sent before the post-process,
\* finds the spare buffer armed and the decoder between two frames.
ListensWhenSpokenTo ==
  ~waiting => wire = <<>> /\ s_rx_buf # NULL /\ s_state = "NO_FRAME"

\* A frame sent whole over a quiet line to an armed decoder is received.
FreshFrameIsReceived == fresh => wire # <<>>

\* A byte lost or garbled damages at most one frame handed to the code; with no
\* such byte, every frame handed over is one the host sent, whole and in order,
\* even when the host sends again into a stub with both buffers full.
DamageIsBounded == altered =< faults

\* Every frame sent is handed to the code that parses it.
EveryFrameIsHandled == inbox # <<>> ~> inbox = <<>>
=============================================================================
