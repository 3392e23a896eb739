--------------------------- MODULE DeflateSession ---------------------------
(* The compressed flash write session of command_handler.c: FLASH_DEFL_BEGIN,  *)
(* FLASH_DEFL_DATA and FLASH_DEFL_END.  It shares s_flash_state, the erase     *)
(* ahead and the carried error with FlashSession; what is new is the loop that *)
(* runs after the response: erase a sector, inflate what fits the buffer, and  *)
(* write the buffer when it is full or the stream is done.                     *)
(*                                                                             *)
(* A compressed stream is a sequence of units, each inflating to some cells;   *)
(* the last one ends the stream.  The decompressor (miniz) is external: it     *)
(* takes units in their order, hands out cells as they fit, and given anything *)
(* else it fails or makes up cells.                                            *)
EXTENDS FlashSession, SequencesExt

CONSTANTS Streams,         \* the streams: sequences of units, each a sequence of cells
          Openings,        \* what sessions announce: records start, size, units
          GARBAGE,         \* a cell the decompressor made up
          BUFFER,          \* cells of decompressed_data (TINFL_LZ_DICT_SIZE)
          MAX_UNITS,       \* units of the longest FLASH_DEFL_DATA
          MAX_SESSIONS,    \* bounds: on the sessions opened,
          MAX_STRAYS,      \* and on the requests that do not follow their stream
          WRAP             \* total_remaining is unsigned: it wraps at this value

ASSUME DeflateAssumption ==
  /\ BUFFER \in Nat \ {0} /\ MAX_SESSIONS \in Nat /\ WRAP \in Nat /\ SECTOR =< WRAP
  /\ Streams \subseteq Seq(Seq(Value))
  /\ \A o \in Openings : o.start \in Nat /\ o.size \in Nat
\* The chip is whole sectors; what a session announces is inside it.
ASSUME ChipAssumption ==
  CELLS % SECTOR = 0 /\ \A o \in Openings : o.start + o.size =< CELLS

VARIABLES
  compressed_remaining,    \* s_flash_state, in units
  decompressor,            \* s_flash_state: stream and next unit, cells to hand out, done
  decompressed_data,       \* the static buffer, up to decompressed_data_ptr
  input, status,           \* of the loop: units left of the request, result of miniz,
  more,                    \*   and whether miniz was told that more input follows
  step,                    \* where the loop is: "none", "erase", "inflate", "write"
  announced,               \* history: the size the session was opened with,
  clean,                   \*   whether it was given its stream in order, all of it,
  sessions, strays         \*   how many were opened, and requests out of order

loopVars == <<decompressed_data, input, status, more, step>>
deflHist == <<announced, clean, sessions, strays>>
deflVars == <<compressed_remaining, decompressor, loopVars, deflHist>>
allVars == <<vars, deflVars>>

Fresh == [stream |-> <<>>, next |-> 1, pending |-> <<>>, done |-> FALSE]

\* The units of stream s from one to another: what a host puts in one request.
Cut(s, from, to) == [k \in 1..(to - from + 1) |-> [stream |-> s, at |-> from + k - 1]]

DeflBegin(f, s, n, u) == [cmd |-> "FLASH_DEFL_BEGIN", flaw |-> f, start |-> s, size |-> n,
                          units |-> u]
DeflDataOf(f, q, d) == [cmd |-> "FLASH_DEFL_DATA", flaw |-> f, seq |-> q, data |-> d]
DeflEnd(f) == [cmd |-> "FLASH_DEFL_END", flaw |-> f]

As(r, cmd) == [r EXCEPT !.cmd = cmd]

\* s_flash_defl_begin(): as FLASH_BEGIN, and the decompressor starts afresh.  The
\* buffer it inflates into keeps what an earlier session left there.
FlashDeflBegin(r) ==
  /\ r.cmd = "FLASH_DEFL_BEGIN" /\ sessions < MAX_SESSIONS
  /\ FlashBegin(As(r, "FLASH_BEGIN"))
  /\ IF r.flaw = "size"
       THEN UNCHANGED deflVars
       ELSE /\ compressed_remaining' = r.units /\ decompressor' = Fresh
            /\ announced' = r.size /\ clean' = TRUE /\ sessions' = sessions + 1
            /\ UNCHANGED <<loopVars, strays>>

DeflDataResult(r) ==
  CASE r.flaw = "short"                     -> "BAD_DATA_LEN"
    [] r.flaw # "short" /\ ~in_progress     -> "NOT_IN_FLASH_MODE"
    [] r.flaw = "checksum" /\ in_progress   -> "BAD_DATA_CHECKSUM"
    [] r.flaw = "none" /\ in_progress       -> "SUCCESS"

Expected(u) ==
  /\ u.at = decompressor.next
  /\ decompressor.next = 1 \/ u.stream = decompressor.stream

\* The request goes on where the stream is: 0 is the number of its first part,
\* and once the stream is done nothing more is taken, whatever is sent.
InOrder(r) ==
  /\ r.seq = 0 <=> decompressor = Fresh
  /\ r.data = <<>> \/ Expected(r.data[1]) \/ decompressor.done

\* Mutant of ResetBuffer: cells of an earlier session stay in the buffer.
ResetBufferNever(r) == UNCHANGED decompressed_data

\* The sequence number is used for one thing: 0 empties the buffer.
ResetBuffer(r) == decompressed_data' = IF r.seq = 0 THEN <<>> ELSE decompressed_data

\* s_flash_defl_data(), the response, and the start of the post-process.
FlashDeflData(r) ==
  /\ Executes(r, "FLASH_DEFL_DATA")
  /\ IF DeflDataResult(r) = "SUCCESS"
       THEN /\ reply' = "SUCCESS" /\ pc' = "post"
            /\ input' = r.data /\ status' = "MORE_INPUT" /\ more' = FALSE
            /\ ResetBuffer(r)
            /\ step' = IF r.data = <<>> THEN "none" ELSE "erase"
            /\ IF InOrder(r)
                 THEN UNCHANGED <<clean, strays>>
                 ELSE strays < MAX_STRAYS /\ strays' = strays + 1 /\ clean' = FALSE
            /\ UNCHANGED <<accumulated_result, cur, compressed_remaining, decompressor,
                           announced, sessions>>
       ELSE Respond(DeflDataResult(r)) /\ UNCHANGED deflVars
  /\ Keep

\* s_flash_defl_end(): memset() takes the decompressor with it, not the buffer.
FlashDeflEnd(r) ==
  /\ r.cmd = "FLASH_DEFL_END"
  /\ FlashEnd(As(r, "FLASH_END"))
  /\ IF EndResult(r) = "SUCCESS"
       THEN /\ compressed_remaining' = 0 /\ decompressor' = Fresh
            /\ UNCHANGED <<loopVars, deflHist>>
       ELSE UNCHANGED deflVars

HandleDefl(r) ==
  /\ pc = "idle"
  /\ \/ (RefuseFrame(r) \/ ReportError(r) \/ OtherHandler(r)) /\ UNCHANGED deflVars
     \/ FlashDeflBegin(r) \/ FlashDeflData(r) \/ FlashDeflEnd(r)

-----------------------------------------------------------------------------
(* s_flash_defl_data_post_process().                                           *)

\* The post-process returns: input it did not get to is lost with the frame.
Return(result) ==
  /\ Finish(result)
  /\ step' = "none" /\ input' = <<>> /\ status' = "MORE_INPUT" /\ more' = FALSE

\* The condition of its loop, for the status and input at hand.
LoopOrReturn(st) ==
  IF st \in {"MORE_INPUT", "MORE_OUTPUT"} /\ input # <<>>
  THEN step' = "erase" /\ UNCHANGED <<accumulated_result, pc, cur, input, status, more>>
  ELSE Return(IF st = "FAILED" THEN "INFLATE_ERROR" ELSE "SUCCESS")

EmptyBlock ==
  /\ pc = "post" /\ step = "none"
  /\ Return("SUCCESS")
  /\ UNCHANGED <<stateVars, eraseVars, chipVars, reply, histVars,
                 compressed_remaining, decompressor, decompressed_data, deflHist>>

\* TINFL_FLAG_HAS_MORE_INPUT, without which running out of input is a failure.
HasMoreInput == compressed_remaining > Len(input)

EraseAhead ==
  /\ step = "erase"
  /\ \E result \in Result :
       /\ ConditionalEraseNext(next_erase_addr, erase_remaining, s_dirty_seen, result)
       /\ IF result = "SUCCESS"
            THEN /\ step' = "inflate" /\ more' = HasMoreInput
                 /\ UNCHANGED <<accumulated_result, pc, cur, input, status, clean>>
            ELSE /\ Return(result)
                 /\ clean' = FALSE
  /\ UNCHANGED <<stateVars, reply, histVars, compressed_remaining, decompressor,
                 decompressed_data, announced, sessions, strays>>

Inflating ==
  /\ step = "inflate"
  /\ UNCHANGED <<stateVars, eraseVars, chipVars, reply, histVars, announced, sessions, strays>>

\* miniz takes the next unit: what it inflates to is handed out when there is
\* room.  A unit out of order fails, or is taken for something else.
TakeUnit ==
  /\ Inflating
  /\ decompressor.pending = <<>> /\ ~decompressor.done /\ input # <<>>
  /\ LET u == Head(input)
         out == u.stream[u.at]
     IN decompressor' = [stream |-> u.stream, next |-> u.at + 1,
                         pending |-> IF Expected(u) THEN out
                                     ELSE [k \in DOMAIN out |-> GARBAGE],
                         done |-> u.at = Len(u.stream)]
  /\ input' = Tail(input)
  /\ compressed_remaining' = IF compressed_remaining > 0 THEN compressed_remaining - 1
                             ELSE WRAP - 1
  /\ UNCHANGED <<accumulated_result, cur, pc, status, more, step, decompressed_data, clean>>

Room == BUFFER - Len(decompressed_data)
Given == Lesser(Room, Len(decompressor.pending))

HandOut ==
  /\ Inflating
  /\ Given > 0
  /\ decompressed_data' = decompressed_data \o SubSeq(decompressor.pending, 1, Given)
  /\ decompressor' = [decompressor EXCEPT !.pending = SubSeq(@, Given + 1, Len(@))]
  /\ UNCHANGED <<accumulated_result, cur, pc, input, status, more, step,
                 compressed_remaining, clean>>

TinflStatus(st) ==
  CASE st = "MORE_OUTPUT" -> decompressor.pending # <<>> /\ Room = 0
    [] st = "DONE"        -> decompressor.pending = <<>> /\ decompressor.done
    [] st = "MORE_INPUT"  -> /\ decompressor.pending = <<>> /\ ~decompressor.done
                             /\ input = <<>> /\ more
    [] st = "FAILED"      -> /\ decompressor.pending = <<>> /\ ~decompressor.done
                             /\ \/ input = <<>> /\ ~more
                                \/ input # <<>> /\ ~Expected(Head(input))

BufferIsDue(st) == st = "DONE" \/ Room = 0

TinflReturns ==
  /\ Inflating
  /\ \E st \in {"MORE_OUTPUT", "DONE", "MORE_INPUT", "FAILED"} :
       /\ TinflStatus(st)
       /\ IF BufferIsDue(st)
          THEN /\ step' = "write" /\ status' = st
               /\ UNCHANGED <<accumulated_result, cur, pc, input, more>>
          ELSE LoopOrReturn(st)
       /\ clean' = (clean /\ st # "FAILED")
  /\ UNCHANGED <<compressed_remaining, decompressor, decompressed_data>>

Target == offset + Len(decompressed_data)

\* Mutant of ErasedTo: when nothing is left to erase the loop ends.
ErasedToOrAll == next_erase_addr >= Target \/ erase_remaining = 0

ErasedTo == next_erase_addr >= Target

\* s_ensure_flash_erased_to(), the same as for plain blocks: with nothing left to
\* erase it goes round for ever.
EnsureErasedTo ==
  /\ step = "write" /\ ~ErasedTo
  /\ \E result \in Result :
       /\ ConditionalEraseNext(next_erase_addr, erase_remaining, s_dirty_seen, result)
       /\ IF result = "SUCCESS"
            THEN UNCHANGED <<accumulated_result, pc, cur, input, status, more, step, clean>>
            ELSE Return(result) /\ clean' = (clean /\ input = <<>>)
  /\ UNCHANGED <<stateVars, reply, histVars, compressed_remaining, decompressor,
                 decompressed_data, announced, sessions, strays>>

\* Mutant of Counted: what is written past the announced size is not counted.
CountedUpTo(n) == IF n > total_remaining THEN 0 ELSE total_remaining - n

\* total_remaining is unsigned: more data than was announced takes it past zero.
Counted(n) == IF n > total_remaining THEN (total_remaining + WRAP) - n ELSE total_remaining - n

WriteBuffer ==
  /\ step = "write" /\ ErasedTo
  /\ ~busy
  /\ flash' = WithData(flash, offset, decompressed_data, Len(decompressed_data))
  /\ total_remaining' = Counted(Len(decompressed_data))
  /\ offset' = Target
  /\ decompressed_data' = <<>>
  /\ LoopOrReturn(status)
  /\ UNCHANGED <<in_progress, eraseVars, reply, busy, faults, histVars,
                 compressed_remaining, decompressor, deflHist>>

\* The buffer stays as it is; input left in the frame is lost with the frame.
WriteBufferFails ==
  /\ step = "write" /\ ErasedTo
  /\ ~busy /\ Fault
  /\ \E n \in 0..Len(decompressed_data) :
       flash' = WithData(flash, offset, decompressed_data, n)
  /\ torn' = TRUE
  /\ Return("FAILED_SPI_OP")
  /\ clean' = (clean /\ input = <<>>)
  /\ UNCHANGED <<stateVars, eraseVars, reply, busy, begin,
                 compressed_remaining, decompressor, decompressed_data, announced, sessions, strays>>

DeflPostProcess ==
  \/ EmptyBlock \/ EraseAhead \/ TakeUnit \/ HandOut \/ TinflReturns
  \/ EnsureErasedTo \/ WriteBuffer \/ WriteBufferFails

DeflInit ==
  /\ Init
  /\ compressed_remaining = 0 /\ decompressor = Fresh
  /\ decompressed_data = <<>> /\ input = <<>> /\ status = "MORE_INPUT" /\ more = FALSE
  /\ step = "none"
  /\ announced = 0 /\ clean = TRUE /\ sessions = 0 /\ strays = 0

DeflRequests ==
  {DeflBegin(f, o.start, o.size, o.units) : f \in {"none", "size"}, o \in Openings}
  \cup {DeflDataOf(f, q, <<>>) : f \in {"none", "short", "checksum"}, q \in {0, 1}}
  \cup (UNION {{DeflDataOf("none", q, Cut(s, i, i + n - 1)) :
                  q \in {0, 1}, i \in 1..(Len(s) - n + 1)} :
                s \in Streams, n \in 1..MAX_UNITS})
  \cup {DeflEnd(f) : f \in {"none", "size"}}
  \cup {OtherCommand(f) : f \in {"none", "direction"}}

DeflNext ==
  \/ \E r \in DeflRequests : HandleDefl(r)
  \/ DeflPostProcess
  \/ ChipReady /\ UNCHANGED deflVars

\* The stub runs and the chip ends an erase; that a request comes is not assumed.
DeflFairness ==
  WF_allVars(DeflPostProcess) /\ WF_allVars(ChipReady /\ UNCHANGED deflVars)

DeflSpec == DeflInit /\ [][DeflNext]_allVars /\ DeflFairness

-----------------------------------------------------------------------------
(* Properties.                                                                 *)

\* What the decompressor has taken inflates to these cells.
Inflated == FlattenSeq(SubSeq(decompressor.stream, 1, decompressor.next - 1))

\* While a stream is given in order from its first part, what was written, what
\* waits in the buffer and what the decompressor has still to hand out are the
\* cells it inflates to, in their order: none lost, none twice, none of an
\* earlier session, also when a write failed and was made up for later.
NothingLost ==
  in_progress /\ clean /\ decompressor # Fresh =>
    Written \o decompressed_data \o decompressor.pending = Inflated

\* FLASH_DEFL_END succeeds only when exactly the announced cells were written,
\* although a stream may inflate to more and total_remaining then wraps.
EndMeansExact == [][in_progress /\ ~in_progress' => offset - begin = announced]_allVars

\* Whatever a stream inflates to, nothing is erased or programmed outside the
\* sectors that FLASH_DEFL_BEGIN announced.
Announced(c) == AlignDown(begin') =< c /\ c < AlignUp(begin' + announced')
StaysAnnounced == [][\A c \in Cells : flash'[c] # flash[c] => Announced(c)]_allVars

\* The buffer goes past the last sector announced.
Overrun == Target > AlignUp(begin + announced)

\* The loop comes to its end, unless a stream inflates past the sectors announced:
\* then s_ensure_flash_erased_to() never returns.
PostEnds == pc = "post" ~> pc = "idle" \/ Overrun
=============================================================================
