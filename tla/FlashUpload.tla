----------------------------- MODULE FlashUpload -----------------------------
(* A host that writes images with FlashSession, one command at a time, as the  *)
(* double buffering invites it to: it sends the next block as soon as the last *)
(* one is answered, while that is still being written.  It sends a block again *)
(* when it is refused or not answered, a few times, and gives a session up     *)
(* when that does not help.                                                    *)
EXTENDS FlashSession

CONSTANTS BLOCK,            \* cells in a block of the host
          Jobs,             \* the sessions it may run: records start, size
          MAX_SESSIONS,     \* bounds: on its sessions,
          ATTEMPTS,         \* the times it sends a block,
          MAX_LOST_REQUESTS, MAX_LOST_RESPONSES,   \* what the line drops,
          MAX_GARBLED,      \* the blocks garbled unnoticed by SLIP,
          MAX_OTHERS        \* and other commands it puts in between

ASSUME JobAssumption ==
  /\ BLOCK \in 1..MAX_BLOCK
  /\ \A j \in Jobs : /\ j.start \in 0..CELLS /\ j.size \in 0..CELLS
                     /\ j.start + j.size =< CELLS
ASSUME ImageAssumption ==
  /\ MAX_SESSIONS \in Nat
  /\ BLANK \in Value /\ (1..MAX_SESSIONS) \X (0..(CELLS - 1)) \subseteq Value

VARIABLES
  phase,      \* "idle", "begin", "data", "end", then "done" or "failed"
  session,    \* which session this is
  job,        \* where it writes, and how much
  block,      \* the next block to be answered
  tries,      \* how often it was sent
  line,       \* the request on its way, the response on its way, or neither
  lostRequests, lostResponses, garbled, others

boundVars == <<lostRequests, lostResponses, garbled, others>>
hostVars == <<phase, session, job, block, tries, line, boundVars>>
allVars == <<vars, hostVars>>

SILENCE == "silence"          \* nothing on the line, and nothing will come
Carry(kind, what) == [kind |-> kind, what |-> what]
LineIs(kind) == line.kind = kind

\* The cell i of the image of session n; the last block is padded with 0xFF.
Unit(n, i) == <<n, i>>
Image0(i) == IF i < job.size THEN Unit(session, i) ELSE BLANK
BlockData == [i \in 1..BLOCK |-> Image0((block * BLOCK) + i - 1)]
Blocks == (job.size + BLOCK - 1) \div BLOCK

Send(r) == line' = Carry("request", r)

-----------------------------------------------------------------------------
(* The host.                                                                   *)

StartSession ==
  /\ phase \in {"idle", "done", "failed"} /\ session < MAX_SESSIONS
  /\ \E j \in Jobs : job' = j /\ Send(Begin("none", j.start, j.size))
  /\ phase' = "begin" /\ session' = session + 1 /\ block' = 0 /\ tries' = 0
  /\ UNCHANGED <<boundVars>>

\* The next command once `block' is known: a block, or the end.
SendBlock ==
  /\ phase = "data" /\ LineIs(SILENCE) /\ block < Blocks
  /\ tries < ATTEMPTS
  /\ Send(DataOf("none", BlockData)) /\ tries' = tries + 1
  /\ UNCHANGED <<phase, session, job, block, boundVars>>

SendEnd ==
  /\ phase = "data" /\ LineIs(SILENCE) /\ block = Blocks
  /\ Send(End("none")) /\ phase' = "end"
  /\ UNCHANGED <<session, job, block, tries, boundVars>>

GiveUp ==
  /\ phase = "data" /\ LineIs(SILENCE) /\ block < Blocks /\ tries = ATTEMPTS
  /\ phase' = "failed"
  /\ UNCHANGED <<session, job, block, tries, line, boundVars>>

\* A command between two blocks, whose result the host does not look at.
SendOther ==
  /\ phase = "data" /\ LineIs(SILENCE) /\ others < MAX_OTHERS
  /\ Send(OtherCommand("none")) /\ others' = others + 1
  /\ UNCHANGED <<phase, session, job, block, tries, lostRequests, lostResponses, garbled>>

Answered(cmd) == LineIs("response") /\ line.what.cmd = cmd
Quiet == line' = Carry(SILENCE, SILENCE)

BeginAnswered ==
  /\ Answered("FLASH_BEGIN")
  /\ phase' = IF line.what.result = "SUCCESS" THEN "data" ELSE "failed"
  /\ Quiet
  /\ UNCHANGED <<session, job, block, tries, boundVars>>

DataAnswered ==
  /\ Answered("FLASH_DATA")
  /\ IF line.what.result = "SUCCESS"
       THEN block' = block + 1 /\ tries' = 0
       ELSE UNCHANGED <<block, tries>>
  /\ Quiet
  /\ UNCHANGED <<phase, session, job, boundVars>>

EndAnswered ==
  /\ Answered("FLASH_END")
  /\ phase' = IF line.what.result = "SUCCESS" THEN "done" ELSE "failed"
  /\ Quiet
  /\ UNCHANGED <<session, job, block, tries, boundVars>>

OtherAnswered ==
  /\ Answered("OTHER")
  /\ Quiet
  /\ UNCHANGED <<phase, session, job, block, tries, boundVars>>

\* Nothing came: a block is sent again, another command is given up.
Timeout ==
  /\ LineIs("lost")
  /\ phase' = IF phase = "data" THEN "data" ELSE "failed"
  /\ Quiet
  /\ UNCHANGED <<session, job, block, tries, boundVars>>

-----------------------------------------------------------------------------
(* The line.                                                                   *)

LoseRequest ==
  /\ LineIs("request") /\ lostRequests < MAX_LOST_REQUESTS
  /\ line' = Carry("lost", "lost") /\ lostRequests' = lostRequests + 1
  /\ UNCHANGED <<phase, session, job, block, tries, lostResponses, garbled, others>>

LoseResponse ==
  /\ LineIs("response") /\ lostResponses < MAX_LOST_RESPONSES
  /\ line' = Carry("lost", "lost") /\ lostResponses' = lostResponses + 1
  /\ UNCHANGED <<phase, session, job, block, tries, lostRequests, garbled, others>>

\* Bytes changed inside a block: SLIP has no checksum, FLASH_DATA has one.
GarbleBlock ==
  /\ LineIs("request") /\ line.what.cmd = "FLASH_DATA" /\ garbled < MAX_GARBLED
  /\ Send([line.what EXCEPT !.flaw = "checksum"]) /\ garbled' = garbled + 1
  /\ UNCHANGED <<phase, session, job, block, tries, lostRequests, lostResponses, others>>

Host ==
  \/ StartSession \/ SendBlock \/ SendEnd \/ GiveUp \/ SendOther
  \/ BeginAnswered \/ DataAnswered \/ EndAnswered \/ OtherAnswered \/ Timeout

Line == LoseRequest \/ LoseResponse \/ GarbleBlock

Device ==
  \/ /\ LineIs("request")
     /\ HandleCommand(line.what)
     /\ line' = Carry("response", [cmd |-> line.what.cmd, result |-> reply'])
     /\ UNCHANGED <<phase, session, job, block, tries, boundVars>>
  \/ (PostProcess \/ ChipReady) /\ UNCHANGED hostVars

UploadInit ==
  /\ Init
  /\ phase = "idle" /\ session = 0 /\ job \in Jobs /\ block = 0 /\ tries = 0
  /\ line = Carry(SILENCE, SILENCE) 
  /\ lostRequests = 0 /\ lostResponses = 0 /\ garbled = 0 /\ others = 0

UploadNext == (UNCHANGED vars /\ (Host \/ Line)) \/ Device

\* The host acts when it is its turn and the main loop of the device runs; the
\* chip ends an erase it started.  Nothing is assumed of what goes wrong.
UploadSpec == UploadInit /\ [][UploadNext]_allVars
              /\ WF_allVars(UNCHANGED vars /\ Host) /\ WF_allVars(Device)

-----------------------------------------------------------------------------
(* Properties.                                                                 *)

\* The cells a finished session was to write.
Uploaded == [i \in 0..(job.size - 1) |-> flash[job.start + i]]

\* As long as no response is lost, FLASH_END answered with success means that the
\* flash holds the image of this session, cell by cell, although each block was
\* acknowledged before it was written and another command may have been given
\* the error of a write.
EndMeansWritten ==
  phase = "done" /\ lostResponses = 0 => Uploaded = [i \in 0..(job.size - 1) |-> Unit(session, i)]

\* FLASH_DATA has no use for its sequence number, so a block whose response was
\* lost is written twice.  Even then, unless the chip fails too, a session that
\* ends well leaves the blocks of its own image, in their order, each whole; only
\* the tail can be missing.
OnlyRepeats ==
  phase = "done" /\ faults = 0 =>
    \E from \in [0..(Blocks - 1) -> 0..(Blocks - 1)] :
      /\ \A k \in DOMAIN from :
           from[k] \in IF k = 0 THEN {0} ELSE {from[k - 1], from[k - 1] + 1}
      /\ \A i \in DOMAIN Uploaded :
           LET j == (from[i \div BLOCK] * BLOCK) + (i % BLOCK)
           IN Uploaded[i] = IF j < job.size THEN Unit(session, j) ELSE BLANK

\* Every session ends, well or not: the loop that erases ahead of a write always
\* gets there, and the host is always answered or times out.
SessionEnds == phase \in {"begin", "data", "end"} ~> phase \in {"done", "failed"}
=============================================================================
