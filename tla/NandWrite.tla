----------------------------- MODULE NandWrite -----------------------------
(* The write session of the NAND plugin (nand_plugin.c): WRITE_FLASH_BEGIN,    *)
(* WRITE_FLASH_DATA and WRITE_FLASH_END.  Data is gathered in a page buffer    *)
(* and a full page is written, before the response is sent; the first page of  *)
(* a block erases the block.  Any request may come when the last one was       *)
(* answered.                                                                   *)
EXTENDS FlashChip, SequencesExt

CONSTANTS PAGE,           \* NAND_PAGE_SIZE, in cells
          BLOCK_PAGES,    \* NAND_PAGES_PER_BLOCK
          MAX_DATA,       \* cells of the longest WRITE_FLASH_DATA
          MAX_FAULTS      \* bound on the failures of the chip

ASSUME PageAssumption == PAGE \in Nat \ {0} /\ BLOCK_PAGES \in Nat \ {0}
ASSUME DataAssumption == CELLS \in Nat /\ MAX_DATA \in Nat
ASSUME FaultAssumption == MAX_FAULTS \in Nat

VARIABLES
  offset, total_remaining, page_buf, in_progress,   \* s_nand_write_state
  src,        \* what is left of the data of the request being handled
  pc,         \* "idle", or "copy" in the loop of WRITE_FLASH_DATA
  reply,      \* the result in the last response
  nand,       \* the chip's cells
  faults,     \* failures of the chip so far
  begin, size,   \* history: what the last WRITE_FLASH_BEGIN asked for,
  received,      \* the cells of it that were taken from requests,
  dropped,       \* how many of them a failed flush dropped,
  closed         \* and whether WRITE_FLASH_END accepted it

stateVars == <<offset, total_remaining, page_buf, in_progress>>
histVars  == <<begin, size, received, dropped, closed>>
vars == <<stateVars, src, pc, reply, nand, faults, histVars>>

(* Requests: "flaw" is what is wrong with one, as the handlers test it.        *)
WriteBegin(f, o, n) == [cmd |-> "BEGIN", flaw |-> f, offset |-> o, size |-> n]
WriteData(f, d)     == [cmd |-> "DATA", flaw |-> f, data |-> d]
WriteEnd(f)         == [cmd |-> "END", flaw |-> f]

\* Sessions inside the chip; the arithmetic below never wraps at 2^32.
BeginRequests ==
  {r \in {WriteBegin(f, o, n) : f \in {"none", "size"}, o \in 0..CELLS, n \in 0..CELLS} :
     r.offset + r.size =< CELLS}
DataRequests == {WriteData(f, d) : f \in {"none", "short", "length", "checksum"},
                                   d \in UNION {[1..n -> Value] : n \in 0..MAX_DATA}}
EndRequests == {WriteEnd(f) : f \in {"none", "size"}}

Result == {"SUCCESS", "BAD_DATA_LEN", "NOT_IN_FLASH_MODE", "TOO_MUCH_DATA",
           "NOT_ENOUGH_DATA", "BAD_DATA_CHECKSUM", "FLASH_FAILED"}

Answer(result) == reply' = result /\ pc' = "idle"
Refuse(result) == Answer(result) /\ UNCHANGED <<stateVars, src, nand, faults, histVars>>

-----------------------------------------------------------------------------
(* nand_plugin_write_flash_begin().                                            *)

BeginBad(r) == r.flaw = "size" \/ r.offset % PAGE # 0

HandleBegin(r) ==
  /\ pc = "idle"
  /\ IF BeginBad(r)
       THEN Refuse("BAD_DATA_LEN")
       ELSE /\ Answer("SUCCESS")
            /\ offset' = r.offset /\ total_remaining' = r.size /\ page_buf' = <<>>
            /\ in_progress' = TRUE
            /\ begin' = r.offset /\ size' = r.size
            /\ received' = <<>> /\ dropped' = 0 /\ closed' = FALSE
            /\ UNCHANGED <<src, nand, faults>>

-----------------------------------------------------------------------------
(* s_nand_write_flush_page().                                                  *)

Fault == faults < MAX_FAULTS /\ faults' = faults + 1

StartsBlock == (offset \div PAGE) % BLOCK_PAGES = 0

\* Mutant of Prepared: the block is erased for each of its pages.
PreparedAlways == Erased(nand, offset - (offset % (PAGE * BLOCK_PAGES)), PAGE * BLOCK_PAGES)

\* The flash once the block was erased, if the page is its first.
Prepared == IF StartsBlock THEN Erased(nand, offset, PAGE * BLOCK_PAGES) ELSE nand

FlushSucceeds(buf) ==
  /\ nand' = WithData(Prepared, offset, buf, PAGE)
  /\ offset' = offset + PAGE
  /\ UNCHANGED faults

\* The block cannot be erased, or the page is programmed in part.  The caller
\* drops the page buffer, and with it the `unpadded' cells of the session in it.
FlushFails(buf, unpadded) ==
  /\ Fault
  /\ \/ StartsBlock /\ UNCHANGED nand
     \/ \E n \in 0..PAGE : nand' = WithData(Prepared, offset, buf, n)
  /\ dropped' = dropped + unpadded
  /\ UNCHANGED offset

-----------------------------------------------------------------------------
(* nand_plugin_write_flash_data().                                             *)

DataResult(r) ==
  CASE r.flaw = "short"                   -> "NOT_ENOUGH_DATA"
    [] r.flaw # "short" /\ ~in_progress   -> "NOT_IN_FLASH_MODE"
    [] /\ r.flaw # "short" /\ in_progress
       /\ r.flaw = "length" \/ Len(r.data) > total_remaining -> "TOO_MUCH_DATA"
    [] /\ r.flaw \in {"none", "checksum"} /\ in_progress
       /\ Len(r.data) =< total_remaining
         -> IF r.flaw = "none" THEN "SUCCESS" ELSE "BAD_DATA_CHECKSUM"

HandleData(r) ==
  /\ pc = "idle"
  /\ IF DataResult(r) # "SUCCESS"
       THEN Refuse(DataResult(r))
       ELSE /\ pc' = "copy" /\ src' = r.data
            /\ UNCHANGED <<stateVars, reply, nand, faults, histVars>>

Chunk == IF Len(src) < PAGE - Len(page_buf) THEN Len(src) ELSE PAGE - Len(page_buf)

Filled == page_buf \o SubSeq(src, 1, Chunk)

\* Mutant of PageIsFull: a full page waits for more data.
PageIsOverfull == Len(Filled) > PAGE

PageIsFull == Len(Filled) >= PAGE

\* Mutant of TakeChunk: the chunk is counted when its page is written.
TakeChunkUncounted ==
  /\ pc = "copy" /\ src # <<>>
  /\ src' = SubSeq(src, Chunk + 1, Len(src))
  /\ received' = received \o SubSeq(src, 1, Chunk)
  /\ UNCHANGED <<total_remaining, in_progress, begin, size, closed>>

\* What every round of the loop does.
TakeChunk ==
  /\ pc = "copy" /\ src # <<>>
  /\ src' = SubSeq(src, Chunk + 1, Len(src))
  /\ received' = received \o SubSeq(src, 1, Chunk)
  /\ total_remaining' = total_remaining - Chunk
  /\ UNCHANGED <<in_progress, begin, size, closed>>

CopyPart ==
  /\ TakeChunk /\ ~PageIsFull
  /\ page_buf' = Filled
  /\ UNCHANGED <<offset, pc, reply, nand, faults, dropped>>

CopyPage ==
  /\ TakeChunk /\ PageIsFull
  /\ FlushSucceeds(Filled)
  /\ page_buf' = <<>>
  /\ UNCHANGED <<pc, reply, dropped>>

\* The error is answered at once; the rest of the data is dropped uncounted.
CopyPageFails ==
  /\ pc = "copy" /\ src # <<>> /\ PageIsFull
  /\ FlushFails(Filled, Len(Filled))
  /\ Answer("FLASH_FAILED")
  /\ page_buf' = <<>> /\ src' = <<>>
  /\ received' = received \o SubSeq(src, 1, Chunk)
  /\ total_remaining' = total_remaining - Chunk
  /\ UNCHANGED <<in_progress, begin, size, closed>>

CopyEnds ==
  /\ pc = "copy" /\ src = <<>>
  /\ Answer("SUCCESS")
  /\ UNCHANGED <<stateVars, src, nand, faults, histVars>>

-----------------------------------------------------------------------------
(* nand_plugin_write_flash_end().                                              *)

EndResult(r) ==
  CASE r.flaw = "size" \/ (in_progress /\ total_remaining # 0) -> "BAD_DATA_LEN"
    [] r.flaw # "size" /\ ~in_progress                         -> "NOT_IN_FLASH_MODE"
    [] OTHER                                                   -> "SUCCESS"

Padded == page_buf \o [i \in 1..(PAGE - Len(page_buf)) |-> BLANK]

RefuseEnd(r) ==
  /\ pc = "idle" /\ EndResult(r) # "SUCCESS"
  /\ Refuse(EndResult(r))

\* The state is zeroed.
Close ==
  /\ Answer("SUCCESS")
  /\ total_remaining' = 0 /\ page_buf' = <<>> /\ in_progress' = FALSE
  /\ closed' = TRUE
  /\ UNCHANGED <<src, begin, size, received, dropped>>

\* Mutant of CloseClean: it is taken for granted that nothing is buffered.
CloseAnyway(r) ==
  /\ pc = "idle" /\ EndResult(r) = "SUCCESS"
  /\ Close /\ offset' = 0
  /\ UNCHANGED <<nand, faults>>

CloseClean(r) ==
  /\ pc = "idle" /\ EndResult(r) = "SUCCESS" /\ page_buf = <<>>
  /\ Close /\ offset' = 0
  /\ UNCHANGED <<nand, faults>>

\* The last page is padded and written first.
CloseFlushed(r) ==
  /\ pc = "idle" /\ EndResult(r) = "SUCCESS" /\ page_buf # <<>>
  /\ nand' = WithData(Prepared, offset, Padded, PAGE)
  /\ Close /\ offset' = 0
  /\ UNCHANGED faults

\* When that fails the session stays open, its buffer emptied.
CloseFails(r) ==
  /\ pc = "idle" /\ EndResult(r) = "SUCCESS" /\ page_buf # <<>>
  /\ FlushFails(Padded, Len(page_buf))
  /\ Answer("FLASH_FAILED")
  /\ page_buf' = <<>>
  /\ UNCHANGED <<total_remaining, in_progress, src, begin, size, received, closed>>

HandleEnd(r) == RefuseEnd(r) \/ CloseClean(r) \/ CloseFlushed(r) \/ CloseFails(r)

Init ==
  /\ offset = 0 /\ total_remaining = 0 /\ page_buf = <<>> /\ in_progress = FALSE
  /\ src = <<>> /\ pc = "idle" /\ reply = "SUCCESS"
  /\ nand \in [Cells -> {BLANK, OLD}] /\ faults = 0
  /\ begin = 0 /\ size = 0 /\ received = <<>> /\ dropped = 0 /\ closed = FALSE

Next ==
  \/ \E r \in BeginRequests : HandleBegin(r)
  \/ \E r \in DataRequests : HandleData(r)
  \/ CopyPart \/ CopyPage \/ CopyPageFails \/ CopyEnds
  \/ \E r \in EndRequests : HandleEnd(r)

Spec == Init /\ [][Next]_vars

-----------------------------------------------------------------------------
(* Properties.                                                                 *)

\* Every variable keeps to the values its C type and use allow; the page buffer
\* is never filled past its end, and the write position is that of a page.
TypeOK ==
  /\ total_remaining \in Nat /\ in_progress \in BOOLEAN
  /\ offset \in Nat /\ offset % PAGE = 0
  /\ page_buf \in Seq(Value) /\ Len(page_buf) < PAGE
  /\ src \in Seq(Value) /\ Len(src) =< total_remaining
  /\ pc \in {"idle", "copy"} /\ reply \in Result
  /\ nand \in [Cells -> Cell] /\ faults \in 0..MAX_FAULTS
  /\ begin \in Nat /\ size \in Nat /\ received \in Seq(Value)
  /\ dropped \in Nat /\ closed \in BOOLEAN

\* Data is left to copy only in the middle of a request.
SrcDiscipline == pc = "idle" => src = <<>>

\* Every cell of a session was received or is still to come, and every one that
\* was received is flushed, buffered, or was in a page whose flush failed: the
\* counters of the session never drift apart.
EveryCellIsCounted ==
  in_progress =>
    /\ Len(received) + total_remaining = size
    /\ (offset - begin) + Len(page_buf) + dropped = Len(received)

\* The pages of o's block before o, and where that block ends if there are any.
InBlock(o) == (o \div PAGE) % BLOCK_PAGES
BlockEnd(o) == IF InBlock(o) = 0 THEN o ELSE o + PAGE * (BLOCK_PAGES - InBlock(o))

\* The cell c of f took v.  A session that begins in the middle of a block erases
\* nothing before the next one: up to there v only went over what the cell held.
Holds(f, c, v) ==
  IF c < BlockEnd(begin) THEN \E old \in Cell : f[c] = Programmed(old, v) ELSE f[c] = v

\* What END accepts was programmed, all of it and in order, unless a flush failed:
\* from the first block boundary of the session on, the chip holds it unspoiled.
ClosedMeansWritten ==
  closed /\ dropped = 0 => \A i \in 1..size : Holds(nand, begin + i - 1, received[i])

\* Nothing before the write position is erased or programmed again.
BehindIsKept == \A c \in Cells : nand'[c] # nand[c] => offset =< c
WrittenStays == [][BehindIsKept]_vars

\* "in_progress stays set on flush failure so the host can detect incomplete
\* writes" (nand_plugin.c): END is not accepted for a session a flush failed in.
IncompleteIsDetected == closed => dropped = 0
=============================================================================
