---------------------------- MODULE FlashSession ----------------------------
(* The plain flash write session of command_handler.c: FLASH_BEGIN, FLASH_DATA *)
(* and FLASH_END through handle_command(), the write that runs after the       *)
(* response was sent, and the erase that runs ahead of it and skips blank      *)
(* sectors.  Any request may come whenever the device waits for one            *)
(* (FlashUpload puts a host at the other end).                                 *)
(*                                                                             *)
(* The chip is FlashChip; the library that drives it and its failures are      *)
(* external: an erase goes on after the call that started it, reads and        *)
(* programs wait for it, and a failed program may leave a prefix.              *)
EXTENDS FlashChip

CONSTANTS SECTOR,         \* cells of a sector
          MAX_BLOCK,      \* cells of the longest FLASH_DATA
          MAX_FAULTS      \* bound on the failures of the chip

ASSUME SectorAssumption == SECTOR \in Nat \ {0} /\ CELLS \in Nat /\ MAX_BLOCK \in Nat
ASSUME FaultAssumption == MAX_FAULTS \in Nat

VARIABLES
  total_remaining, offset, in_progress,          \* s_flash_state
  next_erase_addr, erase_remaining,
  s_dirty_seen,
  accumulated_result,                            \* handle_command()
  cur,           \* the data of the request being post-processed
  pc,            \* "idle" or "post"
  reply,         \* the result in the last response sent
  flash, busy,   \* the chip's cells; whether it is still erasing
  faults,        \* failures of the chip so far
  begin, torn    \* history: start of the session; whether a write of it failed

stateVars == <<total_remaining, offset, in_progress>>
eraseVars == <<next_erase_addr, erase_remaining, s_dirty_seen>>
chipVars  == <<flash, busy, faults>>
histVars  == <<begin, torn>>
vars == <<stateVars, eraseVars, accumulated_result, cur, pc, reply, chipVars, histVars>>

Lesser(a, b) == IF a < b THEN a ELSE b
AlignDown(a) == a - (a % SECTOR)
AlignUp(a) == AlignDown(a + SECTOR - 1)

(* Requests: "flaw" is what is wrong with one, as the handlers test it.        *)
Begin(f, s, n) == [cmd |-> "FLASH_BEGIN", flaw |-> f, start |-> s, size |-> n]
DataOf(f, d)   == [cmd |-> "FLASH_DATA", flaw |-> f, data |-> d]
End(f)         == [cmd |-> "FLASH_END", flaw |-> f]
OtherCommand(f) == [cmd |-> "OTHER", flaw |-> f]   \* it leaves this state alone

FrameFlaw == {"none", "direction", "frame_size"}
Request ==
  {Begin(f, s, n) : f \in FrameFlaw \cup {"size"}, s \in 0..CELLS, n \in 0..CELLS}
  \cup {DataOf(f, d) : f \in FrameFlaw \cup {"short", "length", "checksum"},
                       d \in UNION {[1..n -> Value] : n \in 0..MAX_BLOCK}}
  \cup {End(f) : f \in FrameFlaw \cup {"size"}}
  \cup {OtherCommand(f) : f \in FrameFlaw \cup {"refused"}}

\* Only requests inside the chip; the arithmetic below never wraps at 2^32.
Fits(r) == r.cmd = "FLASH_BEGIN" => r.start + r.size =< CELLS

Result == {"SUCCESS", "INVALID_COMMAND", "BAD_DATA_LEN", "NOT_IN_FLASH_MODE",
           "TOO_MUCH_DATA", "NOT_ENOUGH_DATA", "BAD_DATA_CHECKSUM", "FAILED_SPI_OP"}

-----------------------------------------------------------------------------
(* The chip.                                                                   *)

Fault == faults < MAX_FAULTS /\ faults' = faults + 1

ChipReady ==
  /\ busy
  /\ busy' = FALSE
  /\ UNCHANGED <<stateVars, eraseVars, accumulated_result, cur, pc, reply, flash, faults,
                 histVars>>

-----------------------------------------------------------------------------
(* s_conditional_erase_next().  Its state is passed in, because FLASH_BEGIN    *)
(* sets it before the call.                                                    *)

SectorIsBlank(addr) == \A c \in Cells : addr =< c /\ c < addr + SECTOR => flash[c] = BLANK

\* stub_lib_flash_start_next_erase() without a wait: it erases a sector or a
\* larger block, or finds the chip busy (a timeout, which is not an error).
StartNextErase(addr, rem, result) ==
  \/ /\ busy
     /\ result = "SUCCESS"
     /\ next_erase_addr' = addr /\ erase_remaining' = rem
     /\ UNCHANGED chipVars
  \/ \E n \in 1..rem :
       /\ ~busy /\ n % SECTOR = 0
       /\ result = "SUCCESS"
       /\ flash' = Erased(flash, addr, n) /\ busy' = TRUE
       /\ next_erase_addr' = addr + n /\ erase_remaining' = rem - n
       /\ UNCHANGED faults
  \/ /\ ~busy /\ Fault
     /\ result = "FAILED_SPI_OP"
     /\ next_erase_addr' = addr /\ erase_remaining' = rem
     /\ UNCHANGED <<flash, busy>>

\* Reading the sector waits for the erase of an earlier session.
SkipBlankSector(addr, rem, result) ==
  /\ ~busy /\ SectorIsBlank(addr)
  /\ result = "SUCCESS"
  /\ next_erase_addr' = addr + SECTOR
  /\ erase_remaining' = rem - Lesser(rem, SECTOR)
  /\ s_dirty_seen' = FALSE
  /\ UNCHANGED chipVars

\* Mutant of ConditionalEraseNext: one blank sector stands for all the rest.
SkipAllWhenBlank(addr, rem, dirty, result) ==
  \/ /\ rem = 0
     /\ result = "SUCCESS"
     /\ next_erase_addr' = addr /\ erase_remaining' = rem /\ s_dirty_seen' = dirty
     /\ UNCHANGED chipVars
  \/ /\ rem > 0 /\ ~dirty /\ ~busy /\ SectorIsBlank(addr)
     /\ result = "SUCCESS"
     /\ next_erase_addr' = addr + rem /\ erase_remaining' = 0 /\ s_dirty_seen' = FALSE
     /\ UNCHANGED chipVars
  \/ /\ rem > 0 /\ (dirty \/ (~busy /\ ~SectorIsBlank(addr)))
     /\ s_dirty_seen' = TRUE
     /\ StartNextErase(addr, rem, result)

ConditionalEraseNext(addr, rem, dirty, result) ==
  \/ /\ rem = 0
     /\ result = "SUCCESS"
     /\ next_erase_addr' = addr /\ erase_remaining' = rem /\ s_dirty_seen' = dirty
     /\ UNCHANGED chipVars
  \/ /\ rem > 0 /\ ~dirty
     /\ SkipBlankSector(addr, rem, result)
  \/ /\ rem > 0 /\ ~dirty /\ ~busy /\ Fault   \* the sector cannot be read
     /\ result = "FAILED_SPI_OP"
     /\ next_erase_addr' = addr /\ erase_remaining' = rem /\ s_dirty_seen' = FALSE
     /\ UNCHANGED <<flash, busy>>
  \/ /\ rem > 0 /\ (dirty \/ (~busy /\ ~SectorIsBlank(addr)))
     /\ s_dirty_seen' = TRUE
     /\ StartNextErase(addr, rem, result)

-----------------------------------------------------------------------------
(* handle_command().                                                           *)

\* A response is sent and nothing is left to do: any error was reported.
Respond(result) ==
  /\ reply' = result
  /\ pc' = "idle"
  /\ accumulated_result' = "SUCCESS"
  /\ UNCHANGED cur

Keep == UNCHANGED <<stateVars, eraseVars, chipVars, histVars>>

\* A frame that is no request is answered without looking at the state.
RefuseFrame(r) ==
  /\ r.flaw \in {"direction", "frame_size"}
  /\ reply' = IF r.flaw = "direction" THEN "INVALID_COMMAND" ELSE "BAD_DATA_LEN"
  /\ UNCHANGED <<accumulated_result, cur, pc>>
  /\ Keep

\* The error of the last post-process takes the place of this command.
ReportError(r) ==
  /\ r.flaw \notin {"direction", "frame_size"}
  /\ accumulated_result # "SUCCESS"
  /\ Respond(accumulated_result)
  /\ Keep

Executes(r, cmd) ==
  /\ r.flaw \notin {"direction", "frame_size"}
  /\ accumulated_result = "SUCCESS"
  /\ r.cmd = cmd

\* Mutant of EraseSize: a session that ends with a sector erases one more.
EraseSizeOffByOne(start, size) == AlignUp(start + size + 1) - AlignDown(start)

\* Mutant of EraseSize: a session that starts inside a sector is forgotten.
EraseSizeOfTotal(start, size) == AlignUp(size)

EraseSize(start, size) == AlignUp(start + size) - AlignDown(start)

\* s_init_flash_operation(): the session is open even if the first erase fails.
FlashBegin(r) ==
  /\ Executes(r, "FLASH_BEGIN")
  /\ IF r.flaw = "size"
       THEN Respond("BAD_DATA_LEN") /\ Keep
       ELSE /\ total_remaining' = r.size /\ offset' = r.start /\ in_progress' = TRUE
            /\ begin' = r.start /\ torn' = FALSE
            /\ \E result \in Result :
                 /\ ConditionalEraseNext(AlignDown(r.start), EraseSize(r.start, r.size),
                                         FALSE, result)
                 /\ Respond(result)

DataResult(r) ==
  CASE r.flaw = "short"                     -> "NOT_ENOUGH_DATA"
    [] r.flaw # "short" /\ ~in_progress     -> "NOT_IN_FLASH_MODE"
    [] r.flaw = "length" /\ in_progress     -> "TOO_MUCH_DATA"
    [] r.flaw = "checksum" /\ in_progress   -> "BAD_DATA_CHECKSUM"
    [] r.flaw = "none" /\ in_progress       -> "SUCCESS"

\* The response is sent before the data is written.
FlashData(r) ==
  /\ Executes(r, "FLASH_DATA")
  /\ IF DataResult(r) = "SUCCESS"
       THEN /\ reply' = "SUCCESS" /\ pc' = "post" /\ cur' = r.data
            /\ UNCHANGED accumulated_result
       ELSE Respond(DataResult(r))
  /\ Keep

\* Mutant of EndResult: a session with data missing can be ended.
EndResultIgnoresRemaining(r) ==
  CASE r.flaw = "size"                   -> "BAD_DATA_LEN"
    [] r.flaw # "size" /\ ~in_progress   -> "NOT_IN_FLASH_MODE"
    [] OTHER                             -> "SUCCESS"

EndResult(r) ==
  CASE r.flaw = "size" \/ (in_progress /\ total_remaining # 0) -> "BAD_DATA_LEN"
    [] r.flaw # "size" /\ ~in_progress                         -> "NOT_IN_FLASH_MODE"
    [] OTHER                                                   -> "SUCCESS"

\* s_handle_flash_end(): all of s_flash_state is zeroed.
FlashEnd(r) ==
  /\ Executes(r, "FLASH_END")
  /\ Respond(EndResult(r))
  /\ IF EndResult(r) = "SUCCESS"
       THEN /\ total_remaining' = 0 /\ offset' = 0 /\ in_progress' = FALSE
            /\ next_erase_addr' = 0 /\ erase_remaining' = 0
            /\ begin' = 0 /\ torn' = FALSE
            /\ UNCHANGED <<s_dirty_seen, chipVars>>
       ELSE Keep

OtherHandler(r) ==
  /\ Executes(r, "OTHER")
  /\ Respond(IF r.flaw = "refused" THEN "INVALID_COMMAND" ELSE "SUCCESS")
  /\ Keep

HandleCommand(r) ==
  /\ pc = "idle"
  /\ RefuseFrame(r) \/ ReportError(r) \/ FlashBegin(r) \/ FlashData(r) \/ FlashEnd(r)
     \/ OtherHandler(r)

-----------------------------------------------------------------------------
(* s_flash_data_post_process() and s_write_flash_data().                       *)

\* Mutant of WriteSize: the padding of the last block is written as well.
WriteSizeOfBlock == Len(cur)

WriteSize == Lesser(Len(cur), total_remaining)

\* Mutant of EraseTarget: a sector that is written in part is not erased.
EraseTargetSector == AlignDown(offset + WriteSize)

EraseTarget == offset + WriteSize

Finish(result) == accumulated_result' = result /\ pc' = "idle" /\ cur' = <<>>

\* One round of the loop of s_ensure_flash_erased_to().
EnsureErased ==
  /\ pc = "post" /\ next_erase_addr < EraseTarget
  /\ \E result \in Result :
       /\ ConditionalEraseNext(next_erase_addr, erase_remaining, s_dirty_seen, result)
       /\ IF result = "SUCCESS"
          THEN UNCHANGED <<accumulated_result, pc, cur>>
          ELSE Finish(result)
  /\ UNCHANGED <<stateVars, reply, histVars>>

\* Programming waits for the erase to end.
WriteBlock ==
  /\ pc = "post" /\ next_erase_addr >= EraseTarget
  /\ ~busy
  /\ flash' = WithData(flash, offset, cur, WriteSize)
  /\ total_remaining' = total_remaining - WriteSize
  /\ offset' = offset + WriteSize
  /\ Finish("SUCCESS")
  /\ UNCHANGED <<in_progress, eraseVars, reply, busy, faults, histVars>>

\* Mutant of WriteFails: the block that failed is passed over.
WriteFailsAdvances ==
  /\ pc = "post" /\ next_erase_addr >= EraseTarget
  /\ ~busy /\ Fault
  /\ \E n \in 0..WriteSize : flash' = WithData(flash, offset, cur, n)
  /\ offset' = offset + WriteSize
  /\ torn' = TRUE
  /\ Finish("FAILED_SPI_OP")
  /\ UNCHANGED <<total_remaining, in_progress, eraseVars, reply, busy, begin>>

\* A failed write moves neither offset nor total_remaining.
WriteFails ==
  /\ pc = "post" /\ next_erase_addr >= EraseTarget
  /\ ~busy /\ Fault
  /\ \E n \in 0..WriteSize : flash' = WithData(flash, offset, cur, n)
  /\ torn' = TRUE
  /\ Finish("FAILED_SPI_OP")
  /\ UNCHANGED <<stateVars, eraseVars, reply, busy, begin>>

PostProcess == EnsureErased \/ WriteBlock \/ WriteFails

Init ==
  /\ total_remaining = 0 /\ offset = 0 /\ in_progress = FALSE
  /\ next_erase_addr = 0 /\ erase_remaining = 0 /\ s_dirty_seen = FALSE
  /\ accumulated_result = "SUCCESS" /\ cur = <<>> /\ pc = "idle" /\ reply = "SUCCESS"
  /\ flash \in [Cells -> {BLANK, OLD}] /\ busy = FALSE /\ faults = 0
  /\ begin = 0 /\ torn = FALSE

Next ==
  \/ \E r \in Request : Fits(r) /\ HandleCommand(r)
  \/ PostProcess
  \/ ChipReady

Spec == Init /\ [][Next]_vars

-----------------------------------------------------------------------------
(* Properties.                                                                 *)

\* Every variable keeps to the values its C type and use allow; no count of
\* what is left to write or to erase ever passes zero.
TypeOK ==
  /\ total_remaining \in Nat /\ offset \in Nat /\ in_progress \in BOOLEAN
  /\ next_erase_addr \in Nat /\ erase_remaining \in Nat /\ s_dirty_seen \in BOOLEAN
  /\ accumulated_result \in Result /\ reply \in Result
  /\ pc \in {"idle", "post"}
  /\ cur \in Seq(Value) /\ Len(cur) =< MAX_BLOCK
  /\ flash \in [Cells -> Cell] /\ busy \in BOOLEAN /\ faults \in 0..MAX_FAULTS
  /\ begin \in Nat /\ torn \in BOOLEAN

\* What is left to erase always ends where the sectors of what is left to write
\* end, so the loop of s_ensure_flash_erased_to() reaches its target before
\* erase_remaining is 0, when s_conditional_erase_next() makes no progress.
EraseReachesWrite ==
  in_progress => next_erase_addr + erase_remaining = AlignUp(offset + total_remaining)

\* "a sector is only left un-erased when verified blank" (command_handler.c):
\* unless a write of the session failed, every cell between the write position
\* and the erase position is blank, whichever way each sector was passed.
BlankAhead ==
  in_progress /\ ~torn =>
    \A c \in Cells : offset =< c /\ c < next_erase_addr => flash[c] = BLANK

ConfinedChange ==
  \A c \in Cells : flash'[c] # flash[c] =>
    \/ offset =< c /\ c < AlignUp(offset + total_remaining)
    \/ /\ offset' = begin'
       /\ AlignDown(begin') =< c /\ c < AlignUp(offset' + total_remaining')

\* A session changes cells at its write position and ahead of it, up to the end
\* of its last sector; until it has written, from the start of its first sector.
Confined == [][ConfinedChange]_vars

(* With these the properties above are inductive (FlashSessionProofs).         *)

\* Only FLASH_DATA of an open session leaves something to write.
PostDiscipline == pc = "post" => in_progress

\* The erase moves by whole sectors.
SectorDiscipline == next_erase_addr % SECTOR = 0 /\ erase_remaining % SECTOR = 0

\* After the first write the erase position is never behind the write position.
WritePosition ==
  in_progress =>
    /\ begin =< offset /\ AlignDown(begin) =< next_erase_addr
    /\ offset = begin \/ offset =< next_erase_addr

\* A session writes inside the chip.
InChip == in_progress => offset + total_remaining =< CELLS

IInv == TypeOK /\ PostDiscipline /\ SectorDiscipline /\ WritePosition /\ InChip
        /\ EraseReachesWrite /\ BlankAhead

(* The session implements FlashImage: what it has written is the flash from    *)
(* where it began up to its write position.                                    *)

Written == [i \in 1..(offset - begin) |-> flash[begin + i - 1]]

Image == INSTANCE FlashImage WITH open <- in_progress, written <- Written,
                                  room <- total_remaining

\* What was written is neither erased nor programmed again, whatever requests,
\* failures and erases follow, and END succeeds only when nothing is missing.
ImplementsImage == Image!Spec
=============================================================================
