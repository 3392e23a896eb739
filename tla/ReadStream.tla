----------------------------- MODULE ReadStream -----------------------------
(* Reading flash: READ_FLASH of command_handler.c and its counterpart of the   *)
(* NAND plugin, with a host at the other end of a line that loses and garbles. *)
(* After the response the stub sends packets, one at a time, each when the one *)
(* before is acknowledged, and then a digest of all it sent; the host answers  *)
(* each packet with the length it has so far and checks the digest.  A host    *)
(* that gave up sends SYNC until it is answered.                               *)
(*                                                                             *)
(* The two handlers differ in what they do with a frame that is no ACK, with   *)
(* an ACK too many and with a chip that cannot be read; `variant' tells which  *)
(* one is at work.  A cell of the flash is told by its address, a digest by    *)
(* the cells it is of.                                                         *)
EXTENDS Integers, Sequences, SequencesExt

CONSTANTS WORD,            \* reads of the base stub start and end at its multiples
          PAGE,            \* NAND_PAGE_SIZE, in cells
          MAX_PACKET,      \* the longest packet the stub sends
          Jobs,            \* what the host may ask for: start, size, packet
          WRAP,            \* the counters are unsigned: they wrap at this value
          MAX_READS, MAX_SYNCS,       \* bounds: on the reads, on the SYNCs after each,
          MAX_CHIP_FAULTS,            \* on failing reads of the chip,
          MAX_LINE_FAULTS,            \* on what the line does,
          MAX_EARLY, MAX_REPEATS      \* on timeouts too early and ACKs sent again

ASSUME WordAssumption == WORD \in Nat \ {0} /\ PAGE \in Nat \ {0} /\ MAX_PACKET \in Nat
ASSUME JobAssumption == Jobs \subseteq [start : Nat, size : Nat, packet : Nat]
ASSUME WrapAssumption == WRAP \in Nat /\ WRAP > 1
ASSUME SizeAssumption == \A j \in Jobs : j.size < WRAP   \* a size is as wide as a counter

VARIABLES
  variant,                    \* "base" or "nand"
  pc,                         \* "idle", "start", "poll", "send", "digest"
  params,                     \* the parameters of the command being handled
  offset, read_size_remaining, sent_packets, acked_packets, acked_data_size,
  md5,                        \* the cells hashed so far
  send_buf,                   \* of the plugin: cells of the packet gathered so far
  read_failed,
  accumulated_result,         \* handle_command()
  toStub, toHost,             \* the frames on the line
  phase, want, data,          \* the host: what it waits for, asked for and has
  reads, syncs,
  chipFaults, lineFaults, early, repeats,
  timedOut                    \* history: the host gave up for want of an answer

counterVars == <<offset, read_size_remaining, sent_packets, acked_packets,
                 acked_data_size, md5, send_buf, read_failed>>
stubVars == <<pc, params, counterVars, accumulated_result>>
hostVars == <<phase, want, data, reads, syncs, timedOut>>
boundVars == <<chipFaults, lineFaults, early, repeats>>
vars == <<variant, stubVars, toStub, toHost, hostVars, boundVars>>

Lesser(a, b) == IF a < b THEN a ELSE b
AlignDown(a) == a - (a % WORD)
AlignUp(a) == AlignDown(a + WORD - 1)

Cells(a, n) == [i \in 1..n |-> a + i - 1]      \* n cells of the flash from a on
ZERO == -1                                     \* what a failed read is replaced by
GARBLED == -2

Read(j)      == [kind |-> "READ", job |-> j]
Ack(n)       == [kind |-> "ACK", size |-> n]
Sync         == [kind |-> "SYNC"]
Damaged      == [kind |-> "DAMAGED"]
Response(c, r) == [kind |-> "RESPONSE", cmd |-> c, result |-> r]
Packet(d)    == [kind |-> "DATA", cells |-> d]
Digest(d, p) == [kind |-> "DIGEST", of |-> d, poisoned |-> p]

-----------------------------------------------------------------------------
(* The stub between two commands.                                              *)

Received == toStub # <<>>
SendFrame(f) == toHost' = Append(toHost, f)
Return(result) == pc' = "idle" /\ accumulated_result' = result

StubIdle ==
  /\ pc = "idle" /\ Received
  /\ toStub' = Tail(toStub)
  /\ UNCHANGED <<variant, counterVars, hostVars, boundVars>>

DropDamaged ==
  /\ StubIdle /\ Head(toStub) = Damaged
  /\ UNCHANGED <<pc, params, accumulated_result, toHost>>

\* An ACK is shorter than a header: handle_command() answers that it is no frame.
RefuseAck ==
  /\ StubIdle /\ Head(toStub).kind = "ACK"
  /\ SendFrame(Response("ACK", "BAD_DATA_LEN"))
  /\ UNCHANGED <<pc, params, accumulated_result>>

\* The plugin tests packet_size before it answers, the base stub afterwards.
HandlerResult(j) ==
  IF variant = "nand" /\ (j.packet = 0 \/ j.packet > MAX_PACKET)
  THEN "BAD_DATA_LEN" ELSE "SUCCESS"

HandleCommand ==
  /\ StubIdle /\ Head(toStub).kind \in {"SYNC", "READ"}
  /\ LET f == Head(toStub)
     IN \/ /\ accumulated_result # "SUCCESS"
           /\ SendFrame(Response(f.kind, accumulated_result))
           /\ accumulated_result' = "SUCCESS"
           /\ UNCHANGED <<pc, params>>
        \/ /\ accumulated_result = "SUCCESS" /\ f.kind = "SYNC"
           /\ SendFrame(Response("SYNC", "SUCCESS"))
           /\ UNCHANGED <<pc, params, accumulated_result>>
        \/ /\ accumulated_result = "SUCCESS" /\ f.kind = "READ"
           /\ SendFrame(Response("READ", HandlerResult(f.job)))
           /\ params' = f.job
           /\ pc' = IF HandlerResult(f.job) = "SUCCESS" THEN "start" ELSE "idle"
           /\ UNCHANGED accumulated_result

-----------------------------------------------------------------------------
(* s_read_flash_post_process() and s_nand_read_flash_post_process().           *)

Streaming == UNCHANGED <<variant, hostVars, boundVars>>

Loops(remaining, acked) == remaining > 0 \/ acked < params.size
LoopOrDigest(remaining, acked) == pc' = IF Loops(remaining, acked) THEN "poll" ELSE "digest"

\* Mutant of TooLong: the bytes for the alignment are not set aside.
TooLongForBuffer == params.packet > MAX_PACKET + 2 * (WORD - 1)

TooLong == params.packet > MAX_PACKET

StartRefused ==
  /\ pc = "start" /\ TooLong
  /\ Return("BAD_DATA_LEN")
  /\ UNCHANGED <<params, counterVars, toStub, toHost>> /\ Streaming

Start ==
  /\ pc = "start" /\ ~TooLong
  /\ offset' = params.start /\ read_size_remaining' = params.size
  /\ sent_packets' = 0 /\ acked_packets' = 0 /\ acked_data_size' = 0
  /\ md5' = <<>> /\ send_buf' = <<>> /\ read_failed' = FALSE
  /\ pc' = IF params.size > 0 THEN "poll" ELSE "digest"
  /\ UNCHANGED <<params, accumulated_result, toStub, toHost>> /\ Streaming

\* Nothing came, or a frame in error, which is released.
PollNothing ==
  /\ pc = "poll" /\ (Received => Head(toStub) = Damaged)
  /\ toStub' = IF Received THEN Tail(toStub) ELSE toStub
  /\ pc' = "send"
  /\ UNCHANGED <<params, counterVars, accumulated_result, toHost>> /\ Streaming

\* Only the plugin counts no more ACKs than it sent packets.
AckCounts == variant = "base" \/ acked_packets < sent_packets

PollAck ==
  /\ pc = "poll" /\ Received /\ Head(toStub).kind = "ACK"
  /\ toStub' = Tail(toStub)
  /\ acked_data_size' = Head(toStub).size
  /\ acked_packets' = IF AckCounts THEN (acked_packets + 1) % WRAP ELSE acked_packets
  /\ pc' = "send"
  /\ UNCHANGED <<params, offset, read_size_remaining, sent_packets, md5, send_buf,
                 read_failed, accumulated_result, toHost>>
  /\ Streaming

\* Mutant of OtherEnds: the base stub releases the frame and goes on as well.
OtherNeverEnds == FALSE

OtherEnds == variant = "base"

\* A command in place of an ACK: its frame is thrown away unread, and the base
\* stub leaves the loop for the digest.
PollOther ==
  /\ pc = "poll" /\ Received /\ Head(toStub).kind \in {"SYNC", "READ"}
  /\ toStub' = Tail(toStub)
  /\ pc' = IF OtherEnds THEN "digest" ELSE "send"
  /\ UNCHANGED <<params, counterVars, accumulated_result, toHost>> /\ Streaming

\* sent_packets - acked_packets, as each of them computes it.
Unacked ==
  IF variant = "base" THEN (sent_packets - acked_packets + WRAP) % WRAP
  ELSE IF sent_packets >= acked_packets THEN sent_packets - acked_packets ELSE 0

\* Mutant of MaySend: two packets under way.
MaySendTwo == read_size_remaining > 0 /\ Unacked =< 1

MaySend == read_size_remaining > 0 /\ Unacked < 1

Wait ==
  /\ pc = "send" /\ ~MaySend
  /\ LoopOrDigest(read_size_remaining, acked_data_size)
  /\ UNCHANGED <<params, counterVars, accumulated_result, toStub, toHost>> /\ Streaming

Size == Lesser(read_size_remaining, params.packet)

\* The packet d goes out; an empty one is nothing to a SLIP host.
Send(d) ==
  /\ toHost' = IF d = <<>> THEN toHost ELSE Append(toHost, Packet(d))
  /\ md5' = md5 \o d
  /\ read_size_remaining' = read_size_remaining - Size
  /\ sent_packets' = (sent_packets + 1) % WRAP
  /\ LoopOrDigest(read_size_remaining - Size, acked_data_size)
  /\ UNCHANGED <<params, acked_packets, acked_data_size, accumulated_result, toStub>>
  /\ UNCHANGED <<variant, hostVars, lineFaults, early, repeats>>

\* The base stub reads whole words and leaves out what is before the offset.
AlignOffset == offset % WORD
AlignedSize == AlignUp(Size + AlignOffset)
Words == Cells(AlignDown(offset), AlignedSize)

Payload == SubSeq(Words, AlignOffset + 1, AlignOffset + Size)

SendPacket ==
  /\ pc = "send" /\ MaySend /\ variant = "base"
  /\ Send(Payload)
  /\ offset' = offset + Size
  /\ UNCHANGED <<send_buf, read_failed, chipFaults>>

ChipFault == chipFaults < MAX_CHIP_FAULTS /\ chipFaults' = chipFaults + 1

\* The base stub stops, without a digest: the next command is told why.
ReadFails ==
  /\ pc = "send" /\ MaySend /\ variant = "base"
  /\ ChipFault
  /\ Return("FAILED_SPI_OP")
  /\ UNCHANGED <<variant, params, counterVars, toStub, toHost, hostVars, lineFaults, early,
                 repeats>>

\* nand_fill_send_buf() gathers a packet page by page.
Filling ==
  pc = "send" /\ MaySend /\ variant = "nand" /\ ~read_failed /\ Len(send_buf) < Size

FillPage ==
  /\ Filling
  /\ LET chunk == Lesser(PAGE - (offset % PAGE), Size - Len(send_buf))
     IN /\ send_buf' = send_buf \o Cells(offset, chunk)
        /\ offset' = offset + chunk
  /\ UNCHANGED <<pc, params, read_size_remaining, sent_packets, acked_packets,
                 acked_data_size, md5, read_failed, accumulated_result, toStub, toHost>>
  /\ Streaming

\* Mutant of MarkFailed: the plugin stops as the base stub does.
MarkFailedStops == Return("FAILED_SPI_OP") /\ UNCHANGED read_failed

MarkFailed == read_failed' = TRUE /\ UNCHANGED <<pc, accumulated_result>>

FillFails ==
  /\ Filling
  /\ ChipFault
  /\ MarkFailed
  /\ UNCHANGED <<variant, params, offset, read_size_remaining, sent_packets, acked_packets,
                 acked_data_size, md5, send_buf, toStub, toHost, hostVars, lineFaults,
                 early, repeats>>

\* Once a page could not be read every packet is zeros, to the end.
SendFilled ==
  /\ pc = "send" /\ MaySend /\ variant = "nand" /\ (read_failed \/ Len(send_buf) = Size)
  /\ Send(IF read_failed THEN [i \in 1..Size |-> ZERO] ELSE send_buf)
  /\ send_buf' = <<>>
  /\ UNCHANGED <<offset, read_failed, chipFaults>>

\* Mutant of Poisoned: the digest of the zeros is sent as it is.
PoisonedNever == FALSE

Poisoned == read_failed

SendDigest ==
  /\ pc = "digest"
  /\ SendFrame(Digest(md5, Poisoned))
  /\ Return("SUCCESS")
  /\ UNCHANGED <<params, counterVars, toStub>> /\ Streaming

Stub ==
  \/ DropDamaged \/ RefuseAck \/ HandleCommand
  \/ StartRefused \/ Start \/ PollNothing \/ PollAck \/ PollOther
  \/ Wait \/ SendPacket \/ ReadFails \/ FillPage \/ FillFails \/ SendFilled \/ SendDigest

-----------------------------------------------------------------------------
(* The host.                                                                   *)

HostActs == UNCHANGED <<variant, stubVars>>
HostSends(f) == toStub' = Append(toStub, f)
Answered == toHost # <<>>
Took == Answered /\ toHost' = Tail(toHost)

Ask ==
  /\ phase \in {"idle", "accepted", "synced"} /\ reads < MAX_READS
  /\ \E j \in Jobs : want' = j /\ HostSends(Read(j))
  /\ phase' = "asked" /\ data' = <<>> /\ reads' = reads + 1 /\ timedOut' = FALSE
  /\ UNCHANGED <<syncs, toHost, boundVars>> /\ HostActs

\* What is left of an earlier read is passed over.
TakeResponse ==
  /\ phase = "asked" /\ Took
  /\ LET f == Head(toHost)
     IN phase' = IF f.kind = "RESPONSE" /\ f.cmd = "READ"
                 THEN IF f.result = "SUCCESS" THEN "data" ELSE "failed"
                 ELSE "asked"
  /\ UNCHANGED <<want, data, reads, syncs, timedOut, toStub, boundVars>> /\ HostActs

TakePacket ==
  /\ phase = "data" /\ Took /\ Head(toHost).kind = "DATA"
  /\ LET p == Head(toHost).cells
         got == data \o p
     IN /\ data' = got
        /\ IF Len(got) > want.size \/ (Len(got) < want.size /\ Len(p) < want.packet)
             THEN phase' = "failed" /\ UNCHANGED toStub
             ELSE /\ HostSends(Ack(Len(got)))
                  /\ phase' = IF Len(got) = want.size THEN "digest" ELSE "data"
  /\ UNCHANGED <<want, reads, syncs, timedOut, boundVars>> /\ HostActs

TakeDigest ==
  /\ phase = "digest" /\ Took
  /\ phase' = IF Head(toHost) = Digest(data, FALSE) THEN "accepted" ELSE "failed"
  /\ UNCHANGED <<want, data, reads, syncs, timedOut, toStub, boundVars>> /\ HostActs

TakeUnexpected ==
  /\ phase = "data" /\ Took /\ Head(toHost).kind # "DATA"
  /\ phase' = "failed"
  /\ UNCHANGED <<want, data, reads, syncs, timedOut, toStub, boundVars>> /\ HostActs

\* Neither side has anything more to say.
Silence ==
  /\ toHost = <<>> /\ toStub = <<>>
  /\ \/ pc = "idle"
     \/ /\ pc \in {"poll", "send"} /\ ~MaySend
        /\ Loops(read_size_remaining, acked_data_size)

Timeout ==
  /\ phase \in {"asked", "data", "digest"} /\ ~Answered
  /\ \/ Silence /\ UNCHANGED early
     \/ ~Silence /\ early < MAX_EARLY /\ early' = early + 1
  /\ phase' = "failed" /\ timedOut' = TRUE
  /\ UNCHANGED <<want, data, reads, syncs, toStub, toHost, chipFaults, lineFaults, repeats>>
  /\ HostActs

\* A host that thinks its ACK was lost may send it again.
RepeatAck ==
  /\ phase \in {"data", "digest"} /\ ~Answered /\ data # <<>> /\ repeats < MAX_REPEATS
  /\ HostSends(Ack(Len(data))) /\ repeats' = repeats + 1
  /\ UNCHANGED <<hostVars, toHost, chipFaults, lineFaults, early>> /\ HostActs

SendSync ==
  /\ phase = "failed" /\ syncs < MAX_SYNCS
  /\ HostSends(Sync) /\ syncs' = syncs + 1 /\ phase' = "syncing"
  /\ UNCHANGED <<want, data, reads, timedOut, toHost, boundVars>> /\ HostActs

TakeSync ==
  /\ phase = "syncing" /\ Took
  /\ LET f == Head(toHost)
     IN IF f.kind = "RESPONSE" /\ f.cmd = "SYNC"
        THEN IF f.result = "SUCCESS" THEN phase' = "synced" /\ syncs' = 0
                                     ELSE phase' = "failed" /\ UNCHANGED syncs
        ELSE UNCHANGED <<phase, syncs>>
  /\ UNCHANGED <<want, data, reads, timedOut, toStub, boundVars>> /\ HostActs

SyncTimeout ==
  /\ phase = "syncing" /\ Silence
  /\ phase' = "failed"
  /\ UNCHANGED <<want, data, reads, syncs, timedOut, toStub, toHost, boundVars>>
  /\ HostActs

Host ==
  \/ TakeResponse \/ TakePacket \/ TakeDigest \/ TakeUnexpected \/ Timeout
  \/ SendSync \/ TakeSync \/ SyncTimeout

-----------------------------------------------------------------------------
(* The line.                                                                   *)

LineFault ==
  /\ lineFaults < MAX_LINE_FAULTS /\ lineFaults' = lineFaults + 1
  /\ UNCHANGED <<variant, stubVars, hostVars, chipFaults, early, repeats>>

LoseFrame ==
  /\ LineFault
  /\ \/ toStub # <<>> /\ toStub' = Tail(toStub) /\ UNCHANGED toHost
     \/ toHost # <<>> /\ toHost' = Tail(toHost) /\ UNCHANGED toStub

DamageFrame ==
  /\ LineFault
  /\ toStub # <<>> /\ Head(toStub) # Damaged
  /\ toStub' = <<Damaged>> \o Tail(toStub)
  /\ UNCHANGED toHost

\* Changed unnoticed: SLIP has no checksum.
GarbleAck ==
  /\ LineFault
  /\ toStub # <<>> /\ Head(toStub).kind = "ACK"
  /\ \E n \in {0, WRAP} : toStub' = <<Ack(n)>> \o Tail(toStub)
  /\ UNCHANGED toHost

GarblePacket ==
  /\ LineFault
  /\ toHost # <<>> /\ Head(toHost).kind = "DATA"
  /\ toHost' = <<Packet([Head(toHost).cells EXCEPT ![1] = GARBLED])>> \o Tail(toHost)
  /\ UNCHANGED toStub

Line == LoseFrame \/ DamageFrame \/ GarbleAck \/ GarblePacket

Init ==
  /\ variant \in {"base", "nand"}
  /\ pc = "idle" /\ params \in Jobs
  /\ offset = 0 /\ read_size_remaining = 0 /\ sent_packets = 0 /\ acked_packets = 0
  /\ acked_data_size = 0 /\ md5 = <<>> /\ send_buf = <<>> /\ read_failed = FALSE
  /\ accumulated_result = "SUCCESS"
  /\ toStub = <<>> /\ toHost = <<>>
  /\ phase = "idle" /\ want = params /\ data = <<>> /\ reads = 0 /\ syncs = 0
  /\ timedOut = FALSE
  /\ chipFaults = 0 /\ lineFaults = 0 /\ early = 0 /\ repeats = 0

Next == Stub \/ Host \/ Ask \/ RepeatAck \/ Line

\* The stub runs and the host waits, takes what comes and goes on.  It need not
\* ask again, and nothing is assumed of what goes wrong.
Spec == Init /\ [][Next]_vars /\ WF_vars(Stub) /\ WF_vars(Host)

-----------------------------------------------------------------------------
(* Properties.                                                                 *)

\* What the host accepts is what it asked for, cell by cell, whatever was lost or
\* garbled and whether or not the chip could be read.
AcceptedIsFlash == phase = "accepted" => data = Cells(want.start, want.size)

\* At most one packet is on its way or waits for its ACK, as max_unacked_packets
\* says, unless the host sends an ACK twice.
IsData(f) == f.kind = "DATA"
OneAtATime ==
  repeats = 0 =>
    /\ \A i, j \in 1..Len(toHost) : IsData(toHost[i]) /\ IsData(toHost[j]) => i = j
    /\ sent_packets = acked_packets \/ sent_packets = (acked_packets + 1) % WRAP

\* Reading whole words never fills more than the buffer: the longest packet and
\* six bytes, that is a word less one byte at either end.
BufferHolds ==
  pc = "send" /\ variant = "base" => AlignedSize =< MAX_PACKET + 2 * (WORD - 1)

\* A host is left without an answer only when the line failed, it gave up too
\* early, or the base stub could not read the chip, refused the packet size or was
\* sent an ACK too many.  The plugin keeps its stream going to the end: it sends
\* zeros and a digest that is wrong "so the host does not block" (nand_plugin.c).
SilenceHasCause ==
  timedOut => \/ lineFaults > 0 \/ early > 0
              \/ /\ variant = "base"
                 /\ chipFaults > 0 \/ repeats > 0 \/ want.packet \notin 1..MAX_PACKET

\* A host that gave up gets the stub back with SYNC, two of them when none is
\* lost: the base stub leaves its loop for any frame that is no ACK.  The plugin
\* passes over such a frame, and stays in its loop for good when an ACK is lost.
ComesBack == phase = "failed" ~> phase = "synced" \/ (variant = "nand" /\ pc # "idle")
=============================================================================
