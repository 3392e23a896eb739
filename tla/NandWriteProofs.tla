--------------------------- MODULE NandWriteProofs ---------------------------
(* Proofs about NandWrite, for every page and block size, every length of data *)
(* and every number of failures.                                               *)
EXTENDS NandWrite, TLAPS

(* Pages.                                                                      *)

\* The next page after a page boundary is at one too.
LEMMA NextPage ==
  ASSUME NEW a \in Nat, a % PAGE = 0
  PROVE  (a + PAGE) % PAGE = 0
<1>1. a = PAGE * (a \div PAGE) /\ a \div PAGE \in Int
  BY PageAssumption, SMT
<1>2. a + PAGE = PAGE * ((a \div PAGE) + 1)
  BY <1>1, PageAssumption, SMT
<1>3. ASSUME NEW q \in Int, NEW b \in Nat, b = PAGE * q PROVE b % PAGE = 0
  <2>1. b = PAGE * (b \div PAGE) + (b % PAGE) /\ b % PAGE \in 0..(PAGE - 1)
        /\ b \div PAGE \in Int
    BY PageAssumption, SMT
  <2>2. PAGE * (q - (b \div PAGE)) = b % PAGE
    BY <1>3, <2>1, PageAssumption, SMT
  <2>3. CASE q - (b \div PAGE) >= 1
    BY <2>1, <2>2, <2>3, PageAssumption, SMT
  <2>4. CASE q - (b \div PAGE) =< -1
    BY <2>1, <2>2, <2>4, PageAssumption, SMT
  <2> QED BY <2>1, <2>2, <2>3, <2>4, PageAssumption, SMT
<1>4. (a \div PAGE) + 1 \in Int /\ a + PAGE \in Nat
  BY <1>1, PageAssumption, SMT
<1> QED BY <1>2, <1>3, <1>4

\* The cells of a chunk only change places: n of them enter a buffer that held b,
\* and a full buffer leaves it for the flash or is dropped.
LEMMA ChunkAccount ==
  ASSUME NEW o \in Int, NEW b0 \in Int, NEW b \in Int, NEW d \in Int, NEW r \in Int,
         NEW n \in Int, NEW o1 \in Int, NEW b1 \in Int, NEW d1 \in Int, NEW r1 \in Int,
         (o - b0) + b + d = r, r1 = r + n, o1 + b1 + d1 = o + b + d + n
  PROVE  (o1 - b0) + b1 + d1 = r1
OBVIOUS

\* A chunk fits both the data that is left and the room in the page buffer.
LEMMA ChunkFits ==
  ASSUME TypeOK, src # <<>>
  PROVE  /\ Chunk \in 1..Len(src) /\ Len(page_buf) + Chunk =< PAGE
         /\ Filled \in Seq(Value) /\ Len(Filled) = Len(page_buf) + Chunk
         /\ SubSeq(src, 1, Chunk) \in Seq(Value) /\ Len(SubSeq(src, 1, Chunk)) = Chunk
         /\ SubSeq(src, Chunk + 1, Len(src)) \in Seq(Value)
         /\ Len(SubSeq(src, Chunk + 1, Len(src))) = Len(src) - Chunk
<1>1. src \in Seq(Value) /\ page_buf \in Seq(Value) /\ Len(page_buf) < PAGE
  BY DEF TypeOK
<1>2. Len(src) \in Nat \ {0} /\ Len(page_buf) \in Nat
  BY <1>1, SMT
<1>3. Chunk \in 1..Len(src) /\ Len(page_buf) + Chunk =< PAGE
  BY <1>1, <1>2, PageAssumption, SMT DEF Chunk
<1> HIDE DEF Chunk
<1>4. SubSeq(src, 1, Chunk) \in Seq(Value) /\ Len(SubSeq(src, 1, Chunk)) = Chunk
  BY <1>1, <1>2, <1>3, SMT
<1>5. SubSeq(src, Chunk + 1, Len(src)) \in Seq(Value)
      /\ Len(SubSeq(src, Chunk + 1, Len(src))) = Len(src) - Chunk
  BY <1>1, <1>2, <1>3, SMT
<1>6. Filled \in Seq(Value) /\ Len(Filled) = Len(page_buf) + Chunk
  BY <1>1, <1>2, <1>3, <1>4, SMT DEF Filled
<1> QED BY <1>3, <1>4, <1>5, <1>6

-----------------------------------------------------------------------------
(* The chip.                                                                   *)

\* What a flush may do to the chip: nothing happens before the write position.
Ahead(f) == f \in [Cells -> Cell] /\ \A c \in Cells : f[c] # nand[c] => offset =< c

\* Erasing the block at the write position changes nothing before it.
LEMMA PreparedAhead == TypeOK => Ahead(Prepared)
<1> SUFFICES ASSUME TypeOK PROVE Ahead(Prepared)
  OBVIOUS
<1>1. nand \in [Cells -> Cell] /\ BLANK \in Cell
  BY DEF TypeOK, Cell
<1> HIDE DEF Cell
<1> QED BY <1>1 DEF Ahead, Prepared, Erased

\* Programming a page there, or a part of it, does not either.
LEMMA FlushAhead ==
  ASSUME TypeOK, NEW buf \in Seq(Value \cup {BLANK}), NEW n \in 0..Len(buf)
  PROVE  Ahead(WithData(Prepared, offset, buf, n))
<1>1. Prepared \in [Cells -> Cell]
      /\ \A c \in Cells : Prepared[c] # nand[c] => offset =< c
  BY PreparedAhead DEF Ahead
<1>2. ASSUME NEW c \in Cells, offset =< c, c < offset + n
      PROVE  Programmed(Prepared[c], buf[c - offset + 1]) \in Cell
  <2>1. c - offset + 1 \in 1..Len(buf)
    BY <1>2, DataAssumption, SMT DEF TypeOK, Cells
  <2>2. buf[c - offset + 1] \in Value \cup {BLANK}
    BY <2>1, SMT
  <2> QED BY <1>1, <2>2 DEF Programmed, Cell
<1>3. WithData(Prepared, offset, buf, n) \in [Cells -> Cell]
  <2> HIDE DEF Cell
  <2> QED BY <1>1, <1>2 DEF WithData
<1>4. ASSUME NEW c \in Cells, WithData(Prepared, offset, buf, n)[c] # nand[c]
      PROVE  offset =< c
  BY <1>1, <1>4 DEF WithData
<1> QED BY <1>3, <1>4 DEF Ahead

\* A flush that fails leaves the chip changed ahead of the write position only.
LEMMA FailAhead ==
  ASSUME TypeOK, NEW buf \in Seq(Value \cup {BLANK}), Len(buf) = PAGE,
         NEW k \in Nat, FlushFails(buf, k)
  PROVE  /\ Ahead(nand') /\ faults' \in 0..MAX_FAULTS
         /\ dropped' = dropped + k /\ dropped' \in Nat /\ offset' = offset
<1>1. faults' \in 0..MAX_FAULTS
  <2>1. faults < MAX_FAULTS /\ faults' = faults + 1 /\ faults \in 0..MAX_FAULTS
    BY DEF FlushFails, Fault, TypeOK
  <2> QED BY <2>1, FaultAssumption, SMT
<1>2. ASSUME UNCHANGED nand PROVE Ahead(nand')
  BY <1>2 DEF Ahead, TypeOK
<1>3. ASSUME \E n \in 0..PAGE : nand' = WithData(Prepared, offset, buf, n)
      PROVE  Ahead(nand')
  <2>1. PICK n \in 0..Len(buf) : nand' = WithData(Prepared, offset, buf, n)
    BY <1>3
  <2> QED BY <2>1, FlushAhead DEF Ahead
<1>4. dropped' = dropped + k /\ dropped \in Nat /\ offset' = offset
  BY DEF FlushFails, TypeOK
<1>5. dropped' \in Nat
  BY <1>4, SMT
<1> QED BY <1>1, <1>2, <1>3, <1>4, <1>5 DEF FlushFails

\* The last page is full once it is padded.
LEMMA PaddedIsPage ==
  ASSUME TypeOK
  PROVE  Padded \in Seq(Value \cup {BLANK}) /\ Len(Padded) = PAGE
<1>1. page_buf \in Seq(Value \cup {BLANK}) /\ Len(page_buf) \in Nat /\ Len(page_buf) < PAGE
  BY SMT DEF TypeOK
<1>2. PAGE - Len(page_buf) \in Nat
  BY <1>1, PageAssumption, SMT
<1> DEFINE pad == [i \in 1..(PAGE - Len(page_buf)) |-> BLANK]
<1>3. pad \in Seq(Value \cup {BLANK}) /\ Len(pad) = PAGE - Len(page_buf)
  BY <1>2, SMT
<1> HIDE DEF pad
<1>4. page_buf \o pad \in Seq(Value \cup {BLANK}) /\ Len(page_buf \o pad) = PAGE
  BY <1>1, <1>2, <1>3, PageAssumption, SMT
<1> QED BY <1>4 DEF Padded, pad

-----------------------------------------------------------------------------
(* The counters: types and the account of every cell, together inductive.      *)

Counted == TypeOK /\ SrcDiscipline /\ EveryCellIsCounted

\* Before the first command there is nothing to count.
LEMMA InitCounted == Init => Counted
<1> SUFFICES ASSUME Init PROVE Counted
  OBVIOUS
<1>1. nand \in [Cells -> Cell]
  BY DEF Init, Cell
<1>2. <<>> \in Seq(Value) /\ Len(<<>>) = 0
  BY SMT
<1>3. 0 % PAGE = 0
  BY PageAssumption, SMT
<1>4. TypeOK
  <2>1. offset = 0 /\ total_remaining = 0 /\ page_buf = <<>> /\ src = <<>> /\ faults = 0
        /\ begin = 0 /\ size = 0 /\ received = <<>> /\ dropped = 0
    BY DEF Init
  <2>2. faults \in 0..MAX_FAULTS /\ Len(page_buf) < PAGE /\ Len(src) =< total_remaining
    BY <1>2, <2>1, PageAssumption, FaultAssumption, SMT
  <2>3. in_progress \in BOOLEAN /\ pc \in {"idle", "copy"} /\ reply \in Result
        /\ closed \in BOOLEAN
    BY DEF Init, Result
  <2> QED BY <1>1, <1>2, <1>3, <2>1, <2>2, <2>3 DEF TypeOK
<1>5. SrcDiscipline /\ EveryCellIsCounted
  BY DEF Init, SrcDiscipline, EveryCellIsCounted
<1> QED BY <1>4, <1>5 DEF Counted

\* A request that is refused changes nothing but the answer.
LEMMA RefuseCounted ==
  ASSUME Counted, pc = "idle", NEW result \in Result, Refuse(result)
  PROVE  Counted' /\ UNCHANGED nand
<1>1. reply' = result /\ pc' = "idle" /\ UNCHANGED <<stateVars, src, nand, faults, histVars>>
  BY DEF Refuse, Answer
<1>2. pc = "idle" => src' = <<>>
  BY <1>1 DEF Counted, SrcDiscipline
<1>3. TypeOK' /\ EveryCellIsCounted'
  BY <1>1 DEF Counted, TypeOK, EveryCellIsCounted, stateVars, histVars
<1> QED BY <1>1, <1>2, <1>3 DEF Counted, SrcDiscipline

\* WRITE_FLASH_BEGIN starts the account anew.
LEMMA BeginCounted ==
  ASSUME Counted, NEW r \in BeginRequests, HandleBegin(r)
  PROVE  Counted' /\ UNCHANGED nand
<1>1. CASE BeginBad(r)
  BY <1>1, RefuseCounted DEF HandleBegin, Result
<1>2. CASE ~BeginBad(r)
  <2>1. /\ pc' = "idle" /\ reply' = "SUCCESS"
        /\ offset' = r.offset /\ total_remaining' = r.size /\ page_buf' = <<>>
        /\ in_progress' = TRUE /\ begin' = r.offset /\ size' = r.size
        /\ received' = <<>> /\ dropped' = 0 /\ closed' = FALSE
        /\ UNCHANGED <<src, nand, faults>>
    BY <1>2 DEF HandleBegin, Answer
  <2>2. r.offset \in Nat /\ r.size \in Nat /\ r.offset % PAGE = 0
    BY <1>2, DataAssumption, SMT DEF BeginRequests, WriteBegin, BeginBad
  <2>3. <<>> \in Seq(Value) /\ Len(<<>>) = 0
    BY SMT
  <2>4. pc = "idle" /\ src' = <<>>
    BY <2>1 DEF HandleBegin, Counted, SrcDiscipline
  <2>5. Len(page_buf') < PAGE /\ Len(src') =< total_remaining'
    BY <2>1, <2>2, <2>3, <2>4, PageAssumption, SMT
  <2>6. TypeOK'
    BY <2>1, <2>2, <2>3, <2>4, <2>5 DEF Counted, TypeOK, Result
  <2>7. Len(received') + total_remaining' = size'
        /\ (offset' - begin') + Len(page_buf') + dropped' = Len(received')
    BY <2>1, <2>2, <2>3, SMT
  <2>8. SrcDiscipline' /\ EveryCellIsCounted'
    BY <2>1, <2>4, <2>7 DEF SrcDiscipline, EveryCellIsCounted
  <2> QED BY <2>1, <2>6, <2>8 DEF Counted
<1> QED BY <1>1, <1>2

\* WRITE_FLASH_DATA is refused, or its data is left to copy.
LEMMA DataCounted ==
  ASSUME Counted, NEW r \in DataRequests, HandleData(r)
  PROVE  Counted' /\ UNCHANGED nand
<1>1. pc = "idle"
  BY DEF HandleData
<1>2. /\ r.flaw \in {"none", "short", "length", "checksum"} /\ r.data \in Seq(Value)
      /\ in_progress \in BOOLEAN
  <2>1. PICK f \in {"none", "short", "length", "checksum"},
             d \in UNION {[1..n -> Value] : n \in 0..MAX_DATA} : r = WriteData(f, d)
    BY DEF DataRequests
  <2>2. PICK n \in 0..MAX_DATA : d \in [1..n -> Value]
    BY <2>1
  <2>3. d \in Seq(Value)
    BY <2>2, DataAssumption, SMT
  <2>4. r.flaw = f /\ r.data = d
    BY <2>1, SMT DEF WriteData
  <2> QED BY <2>1, <2>3, <2>4 DEF Counted, TypeOK
<1>3. Len(r.data) > total_remaining \/ Len(r.data) =< total_remaining
  BY <1>2, SMT DEF Counted, TypeOK
<1>4. /\ DataResult(r) \in Result
      /\ DataResult(r) = "SUCCESS" => Len(r.data) =< total_remaining
  <2>1. CASE r.flaw = "short"
    BY <2>1, SMT DEF DataResult, Result
  <2>2. CASE r.flaw # "short" /\ ~in_progress
    BY <2>2, SMT DEF DataResult, Result
  <2> DEFINE long == r.flaw = "length" \/ Len(r.data) > total_remaining
  <2>3. CASE r.flaw # "short" /\ in_progress /\ long
    <3>1. DataResult(r) = "TOO_MUCH_DATA"
      <4>1. ~(r.flaw \in {"none", "checksum"} /\ in_progress /\ Len(r.data) =< total_remaining)
        BY <1>2, <2>3, SMT DEF Counted, TypeOK
      <4> QED BY <2>3, <4>1, Zenon DEF DataResult
    <3> QED BY <3>1, SMT DEF Result
  <2>4. CASE r.flaw # "short" /\ in_progress /\ ~long
    <3>1. r.flaw \in {"none", "checksum"} /\ Len(r.data) =< total_remaining
      BY <1>2, <1>3, <2>4, SMT
    <3>2. DataResult(r) = IF r.flaw = "none" THEN "SUCCESS" ELSE "BAD_DATA_CHECKSUM"
      BY <2>4, <3>1, Zenon DEF DataResult
    <3> QED BY <3>1, <3>2, SMT DEF Result
  <2> QED BY <1>2, <2>1, <2>2, <2>3, <2>4, Zenon
<1>5. CASE DataResult(r) # "SUCCESS"
  BY <1>1, <1>4, <1>5, RefuseCounted DEF HandleData
<1>6. CASE DataResult(r) = "SUCCESS"
  <2>1. pc' = "copy" /\ src' = r.data /\ UNCHANGED <<stateVars, reply, nand, faults, histVars>>
    BY <1>6 DEF HandleData
  <2>2. r.data \in Seq(Value) /\ Len(r.data) =< total_remaining
    BY <1>2, <1>4, <1>6
  <2>3. TypeOK'
    BY <2>1, <2>2 DEF Counted, TypeOK, stateVars, histVars
  <2>4. SrcDiscipline' /\ EveryCellIsCounted'
    BY <2>1 DEF Counted, SrcDiscipline, EveryCellIsCounted, stateVars, histVars
  <2> QED BY <2>1, <2>3, <2>4 DEF Counted
<1> QED BY <1>5, <1>6

\* Every round of the copy moves a chunk from what is to come to what was received.
LEMMA ChunkCounted ==
  ASSUME Counted, src # <<>>,
         src' = SubSeq(src, Chunk + 1, Len(src)),
         received' = received \o SubSeq(src, 1, Chunk),
         total_remaining' = total_remaining - Chunk
  PROVE  /\ src' \in Seq(Value) /\ Len(src') = Len(src) - Chunk
         /\ received' \in Seq(Value) /\ Len(received') = Len(received) + Chunk
         /\ total_remaining' \in Nat /\ Len(src') =< total_remaining'
         /\ Len(received') + total_remaining' = Len(received) + total_remaining
<1>1. TypeOK
  BY DEF Counted
<1>2. /\ Chunk \in 1..Len(src)
      /\ SubSeq(src, 1, Chunk) \in Seq(Value) /\ Len(SubSeq(src, 1, Chunk)) = Chunk
      /\ SubSeq(src, Chunk + 1, Len(src)) \in Seq(Value)
      /\ Len(SubSeq(src, Chunk + 1, Len(src))) = Len(src) - Chunk
  BY <1>1, ChunkFits
<1> HIDE DEF Chunk
<1>3. received' \in Seq(Value) /\ Len(received') = Len(received) + Chunk
  BY <1>1, <1>2, SMT DEF TypeOK
<1>4. total_remaining' \in Nat /\ Len(src') =< total_remaining'
  BY <1>1, <1>2, SMT DEF TypeOK
<1>5. Len(received') + total_remaining' = Len(received) + total_remaining
  BY <1>1, <1>2, <1>3, SMT DEF TypeOK
<1> QED BY <1>2, <1>3, <1>4, <1>5

\* A chunk that does not fill the page is buffered.
LEMMA PartCounted == ASSUME Counted, CopyPart PROVE Counted' /\ UNCHANGED nand
<1>1. TypeOK /\ pc = "copy" /\ src # <<>>
  BY DEF CopyPart, TakeChunk, Counted
<1>2. /\ page_buf' = Filled /\ ~(Len(Filled) >= PAGE)
      /\ UNCHANGED <<offset, pc, reply, nand, faults, dropped>>
      /\ UNCHANGED <<in_progress, begin, size, closed>>
  BY DEF CopyPart, TakeChunk, PageIsFull
<1>3. /\ src' \in Seq(Value) /\ received' \in Seq(Value) /\ total_remaining' \in Nat
      /\ Len(src') =< total_remaining' /\ Len(received') = Len(received) + Chunk
      /\ Len(received') + total_remaining' = Len(received) + total_remaining
  BY <1>1, ChunkCounted DEF CopyPart, TakeChunk
<1>4. Filled \in Seq(Value) /\ Len(Filled) = Len(page_buf) + Chunk /\ Chunk \in Nat
  BY <1>1, ChunkFits, SMT
<1> HIDE DEF Chunk, Filled
<1>5. page_buf' \in Seq(Value) /\ Len(page_buf') < PAGE
  BY <1>2, <1>4, PageAssumption, SMT
<1>6. TypeOK'
  BY <1>1, <1>2, <1>3, <1>5 DEF TypeOK
<1>7. SrcDiscipline'
  BY <1>1, <1>2 DEF SrcDiscipline
<1>8. EveryCellIsCounted'
  <2> SUFFICES ASSUME in_progress' PROVE EveryCellIsCounted'
    BY DEF EveryCellIsCounted
  <2>1. Len(received) + total_remaining = size
        /\ (offset - begin) + Len(page_buf) + dropped = Len(received)
    BY <1>2 DEF Counted, EveryCellIsCounted
  <2>2. offset \in Int /\ begin \in Int /\ Len(page_buf) \in Int /\ dropped \in Int
        /\ Len(received) \in Int /\ Chunk \in Int
        /\ Len(page_buf') \in Int /\ Len(received') \in Int
    BY <1>1, <1>3, <1>4, <1>5, SMT DEF TypeOK
  <2>3. offset + Len(page_buf') + dropped = offset + Len(page_buf) + dropped + Chunk
    BY <1>2, <1>4, <2>2, SMT
  <2>4. (offset - begin) + Len(page_buf') + dropped = Len(received')
    BY <1>3, <2>1, <2>2, <2>3, ChunkAccount
  <2> QED BY <1>2, <1>3, <2>1, <2>4 DEF EveryCellIsCounted
<1> QED BY <1>2, <1>6, <1>7, <1>8 DEF Counted

\* A full page is written and the write position moves past it.
LEMMA PageCounted == ASSUME Counted, CopyPage PROVE Counted' /\ Ahead(nand')
<1>1. TypeOK /\ pc = "copy" /\ src # <<>>
  BY DEF CopyPage, TakeChunk, Counted
<1>2. /\ page_buf' = <<>> /\ Len(Filled) >= PAGE
      /\ nand' = WithData(Prepared, offset, Filled, PAGE) /\ offset' = offset + PAGE
      /\ UNCHANGED <<pc, reply, faults, dropped>>
      /\ UNCHANGED <<in_progress, begin, size, closed>>
  BY DEF CopyPage, TakeChunk, PageIsFull, FlushSucceeds
<1>3. /\ src' \in Seq(Value) /\ received' \in Seq(Value) /\ total_remaining' \in Nat
      /\ Len(src') =< total_remaining' /\ Len(received') = Len(received) + Chunk
      /\ Len(received') + total_remaining' = Len(received) + total_remaining
  BY <1>1, ChunkCounted DEF CopyPage, TakeChunk
<1>4. /\ Filled \in Seq(Value) /\ Len(Filled) = Len(page_buf) + Chunk
      /\ Chunk \in Nat /\ Len(Filled) = PAGE
  <2>1. Filled \in Seq(Value) /\ Len(Filled) = Len(page_buf) + Chunk
        /\ Chunk \in 1..Len(src) /\ Len(page_buf) + Chunk =< PAGE
    BY <1>1, ChunkFits
  <2> HIDE DEF Chunk, Filled
  <2> QED BY <1>2, <2>1, PageAssumption, SMT
<1> HIDE DEF Chunk, Filled
<1>5. Ahead(nand')
  <2>1. Filled \in Seq(Value \cup {BLANK}) /\ PAGE \in 0..Len(Filled)
    BY <1>4, PageAssumption, SMT
  <2> QED BY <1>1, <1>2, <2>1, FlushAhead
<1>6. offset' \in Nat /\ offset' % PAGE = 0
  <2>1. offset \in Nat /\ offset % PAGE = 0
    BY <1>1 DEF TypeOK
  <2>2. offset + PAGE \in Nat
    BY <2>1, PageAssumption, SMT
  <2> QED BY <1>2, <2>1, <2>2, NextPage
<1>7. page_buf' \in Seq(Value) /\ Len(page_buf') = 0 /\ Len(page_buf') < PAGE
  BY <1>2, PageAssumption, SMT
<1>8. TypeOK'
  BY <1>1, <1>2, <1>3, <1>5, <1>6, <1>7 DEF TypeOK, Ahead
<1>9. SrcDiscipline'
  BY <1>1, <1>2 DEF SrcDiscipline
<1>10. EveryCellIsCounted'
  <2> SUFFICES ASSUME in_progress' PROVE EveryCellIsCounted'
    BY DEF EveryCellIsCounted
  <2>1. Len(received) + total_remaining = size
        /\ (offset - begin) + Len(page_buf) + dropped = Len(received)
    BY <1>2 DEF Counted, EveryCellIsCounted
  <2>2. offset \in Int /\ begin \in Int /\ Len(page_buf) \in Int /\ dropped \in Int
        /\ Len(received) \in Int /\ Chunk \in Int /\ offset' \in Int
        /\ Len(page_buf') \in Int /\ Len(received') \in Int
    BY <1>1, <1>3, <1>4, <1>6, <1>7, SMT DEF TypeOK
  <2>3. offset' + Len(page_buf') + dropped = offset + Len(page_buf) + dropped + Chunk
    BY <1>2, <1>4, <1>7, <2>2, PageAssumption, SMT
  <2>4. Len(received') = Len(received) + Chunk
        /\ (offset - begin) + Len(page_buf) + dropped = Len(received)
    BY <1>3, <2>1
  <2>5. (offset' - begin) + Len(page_buf') + dropped = Len(received')
    BY <2>2, <2>3, <2>4, ChunkAccount, SMTT(60)
  <2> QED BY <1>2, <1>3, <2>1, <2>5 DEF EveryCellIsCounted
<1> QED BY <1>5, <1>8, <1>9, <1>10 DEF Counted

\* A full page that cannot be written is counted as dropped.
LEMMA PageFailsCounted == ASSUME Counted, CopyPageFails PROVE Counted' /\ Ahead(nand')
<1>1. TypeOK /\ pc = "copy" /\ src # <<>>
  BY DEF CopyPageFails, Counted
<1>2. /\ page_buf' = <<>> /\ src' = <<>> /\ Len(Filled) >= PAGE
      /\ FlushFails(Filled, Len(Filled))
      /\ received' = received \o SubSeq(src, 1, Chunk)
      /\ total_remaining' = total_remaining - Chunk
      /\ pc' = "idle" /\ reply' = "FLASH_FAILED"
      /\ UNCHANGED <<in_progress, begin, size, closed>>
  BY DEF CopyPageFails, Answer, PageIsFull
<1>3. /\ Filled \in Seq(Value) /\ Len(Filled) = Len(page_buf) + Chunk
      /\ Chunk \in 1..Len(src) /\ Len(page_buf) + Chunk =< PAGE
      /\ SubSeq(src, 1, Chunk) \in Seq(Value) /\ Len(SubSeq(src, 1, Chunk)) = Chunk
  BY <1>1, ChunkFits
<1> HIDE DEF Chunk, Filled
<1>4. /\ Len(Filled) = PAGE /\ Len(Filled) \in Nat
      /\ Filled \in Seq(Value \cup {BLANK})
  <2>1. Len(Filled) >= PAGE
    BY <1>2
  <2>2. Filled \in Seq(Value \cup {BLANK}) /\ Len(Filled) \in Nat
    BY <1>3, SMT
  <2>3. Len(Filled) =< PAGE
    BY <1>3
  <2> QED BY <2>1, <2>2, <2>3, PageAssumption, SMT
<1>5. /\ Ahead(nand') /\ faults' \in 0..MAX_FAULTS
      /\ dropped' = dropped + Len(Filled) /\ dropped' \in Nat /\ offset' = offset
  BY <1>1, <1>2, <1>4, FailAhead
<1>6. received' \in Seq(Value) /\ Len(received') = Len(received) + Chunk
  BY <1>1, <1>2, <1>3, SMT DEF TypeOK
<1>7. /\ total_remaining' \in Nat
      /\ Len(received') + total_remaining' = Len(received) + total_remaining
  BY <1>1, <1>2, <1>3, <1>6, SMT DEF TypeOK
<1>8. /\ page_buf' \in Seq(Value) /\ Len(page_buf') = 0 /\ Len(page_buf') < PAGE
      /\ src' \in Seq(Value) /\ Len(src') =< total_remaining'
  BY <1>2, <1>7, PageAssumption, SMT
<1>9. TypeOK'
  <2>1. reply' \in Result
    BY <1>2 DEF Result
  <2> QED BY <1>1, <1>2, <1>5, <1>6, <1>7, <1>8, <2>1 DEF TypeOK, Ahead
<1>10. SrcDiscipline'
  BY <1>2 DEF SrcDiscipline
<1>11. EveryCellIsCounted'
  <2> SUFFICES ASSUME in_progress' PROVE EveryCellIsCounted'
    BY DEF EveryCellIsCounted
  <2>1. Len(received) + total_remaining = size
        /\ (offset - begin) + Len(page_buf) + dropped = Len(received)
    BY <1>2 DEF Counted, EveryCellIsCounted
  <2>2. offset \in Int /\ begin \in Int /\ Len(page_buf) \in Int /\ dropped \in Int
        /\ Len(received) \in Int /\ Chunk \in Int /\ dropped' \in Int
        /\ Len(page_buf') \in Int /\ Len(received') \in Int
    BY <1>1, <1>3, <1>5, <1>6, <1>8, SMT DEF TypeOK
  <2>3. offset + Len(page_buf') + dropped' = offset + Len(page_buf) + dropped + Chunk
    BY <1>3, <1>5, <1>8, <2>2, SMT
  <2>4. (offset - begin) + Len(page_buf') + dropped' = Len(received')
    BY <1>6, <2>1, <2>2, <2>3, ChunkAccount
  <2> QED BY <1>2, <1>5, <1>7, <2>1, <2>4 DEF EveryCellIsCounted
<1> QED BY <1>5, <1>9, <1>10, <1>11 DEF Counted

\* The answer to WRITE_FLASH_DATA once all of it was copied.
LEMMA EndsCounted == ASSUME Counted, CopyEnds PROVE Counted' /\ UNCHANGED nand
<1>1. src = <<>> /\ pc' = "idle" /\ reply' = "SUCCESS"
      /\ UNCHANGED <<stateVars, src, nand, faults, histVars>>
  BY DEF CopyEnds, Answer
<1>2. reply' \in Result
  BY <1>1 DEF Result
<1>3. TypeOK' /\ SrcDiscipline' /\ EveryCellIsCounted'
  BY <1>1, <1>2 DEF Counted, TypeOK, SrcDiscipline, EveryCellIsCounted, stateVars, histVars
<1> QED BY <1>1, <1>3 DEF Counted

\* WRITE_FLASH_END, whether it is refused, accepted or fails to write the last page.
LEMMA EndCounted ==
  ASSUME Counted, NEW r \in EndRequests, HandleEnd(r)
  PROVE  Counted' /\ Ahead(nand')
<1>1. TypeOK /\ pc = "idle" /\ src = <<>>
  BY DEF HandleEnd, RefuseEnd, CloseClean, CloseFlushed, CloseFails, Counted, SrcDiscipline
<1>2. ASSUME UNCHANGED nand PROVE Ahead(nand')
  BY <1>1, <1>2 DEF Ahead, TypeOK
<1>3. Padded \in Seq(Value \cup {BLANK}) /\ Len(Padded) = PAGE
  BY <1>1, PaddedIsPage
<1>4. ASSUME Close, offset' = 0, UNCHANGED faults, Ahead(nand') PROVE Counted'
  <2>1. /\ pc' = "idle" /\ reply' = "SUCCESS" /\ total_remaining' = 0 /\ page_buf' = <<>>
        /\ in_progress' = FALSE /\ closed' = TRUE
        /\ UNCHANGED <<src, begin, size, received, dropped>>
    BY <1>4 DEF Close, Answer
  <2>2. /\ <<>> \in Seq(Value) /\ Len(<<>>) = 0 /\ Len(page_buf') < PAGE
        /\ Len(src') =< total_remaining' /\ 0 % PAGE = 0
    BY <1>1, <2>1, PageAssumption, SMT
  <2>3. TypeOK'
    BY <1>1, <1>4, <2>1, <2>2 DEF TypeOK, Result, Ahead
  <2>4. SrcDiscipline' /\ EveryCellIsCounted'
    BY <1>1, <2>1 DEF SrcDiscipline, EveryCellIsCounted
  <2> QED BY <2>3, <2>4 DEF Counted
<1>5. CASE RefuseEnd(r)
  <2>1. EndResult(r) \in Result /\ Refuse(EndResult(r))
    BY <1>5 DEF RefuseEnd, EndResult, Result
  <2> QED BY <1>1, <1>2, <2>1, RefuseCounted
<1>6. CASE CloseClean(r)
  BY <1>2, <1>4, <1>6 DEF CloseClean
<1>7. CASE CloseFlushed(r)
  <2>1. PAGE \in 0..Len(Padded)
    BY <1>3, PageAssumption, SMT
  <2>2. Ahead(nand')
    BY <1>1, <1>3, <1>7, <2>1, FlushAhead DEF CloseFlushed
  <2> QED BY <1>4, <1>7, <2>2 DEF CloseFlushed
<1>8. CASE CloseFails(r)
  <2>1. /\ FlushFails(Padded, Len(page_buf)) /\ pc' = "idle" /\ reply' = "FLASH_FAILED"
        /\ page_buf' = <<>>
        /\ UNCHANGED <<total_remaining, in_progress, src, begin, size, received, closed>>
    BY <1>8 DEF CloseFails, Answer
  <2>2. Len(page_buf) \in Nat /\ Len(page_buf') = 0 /\ page_buf' \in Seq(Value)
        /\ Len(page_buf') < PAGE
    BY <1>1, <2>1, PageAssumption, SMT DEF TypeOK
  <2>3. /\ Ahead(nand') /\ faults' \in 0..MAX_FAULTS
        /\ dropped' = dropped + Len(page_buf) /\ dropped' \in Nat /\ offset' = offset
    BY <1>1, <1>3, <2>1, <2>2, FailAhead
  <2>4. TypeOK'
    BY <1>1, <2>1, <2>2, <2>3 DEF TypeOK, Result, Ahead
  <2>5. EveryCellIsCounted'
    <3> SUFFICES ASSUME in_progress' PROVE EveryCellIsCounted'
      BY DEF EveryCellIsCounted
    <3>1. Len(received) + total_remaining = size
          /\ (offset - begin) + Len(page_buf) + dropped = Len(received)
      BY <2>1 DEF Counted, EveryCellIsCounted
    <3>2. offset \in Int /\ begin \in Int /\ Len(page_buf) \in Int /\ dropped \in Int
          /\ Len(received) \in Int /\ dropped' \in Int /\ Len(page_buf') \in Int
      BY <1>1, <2>2, <2>3, SMT DEF TypeOK
    <3>3. offset + Len(page_buf') + dropped' = offset + Len(page_buf) + dropped + 0
          /\ Len(received) = Len(received) + 0
      BY <2>2, <2>3, <3>2, SMT
    <3>4. (offset - begin) + Len(page_buf') + dropped' = Len(received)
      BY <3>1, <3>2, <3>3, ChunkAccount
    <3> QED BY <2>1, <2>3, <3>1, <3>4 DEF EveryCellIsCounted
  <2> QED BY <1>1, <2>1, <2>3, <2>4, <2>5 DEF Counted, SrcDiscipline
<1> QED BY <1>5, <1>6, <1>7, <1>8 DEF HandleEnd

\* Every step keeps the account and leaves what is behind the write position alone.
LEMMA NextCounted == ASSUME Counted, [Next]_vars PROVE Counted' /\ Ahead(nand')
<1>1. ASSUME UNCHANGED nand PROVE Ahead(nand')
  BY <1>1 DEF Ahead, Counted, TypeOK
<1>2. ASSUME NEW r \in BeginRequests, HandleBegin(r) PROVE Counted' /\ Ahead(nand')
  BY <1>1, <1>2, BeginCounted
<1>3. ASSUME NEW r \in DataRequests, HandleData(r) PROVE Counted' /\ Ahead(nand')
  BY <1>1, <1>3, DataCounted
<1>4. CASE CopyPart
  BY <1>1, <1>4, PartCounted
<1>5. CASE CopyPage
  BY <1>5, PageCounted
<1>6. CASE CopyPageFails
  BY <1>6, PageFailsCounted
<1>7. CASE CopyEnds
  BY <1>1, <1>7, EndsCounted
<1>8. ASSUME NEW r \in EndRequests, HandleEnd(r) PROVE Counted' /\ Ahead(nand')
  BY <1>8, EndCounted
<1>9. CASE UNCHANGED vars
  BY <1>1, <1>9 DEF Counted, TypeOK, SrcDiscipline, EveryCellIsCounted, vars, stateVars, histVars
<1> QED BY <1>2, <1>3, <1>4, <1>5, <1>6, <1>7, <1>8, <1>9 DEF Next

-----------------------------------------------------------------------------
(* The theorems.                                                               *)

\* The account of the cells, with the types, is an invariant.
LEMMA CountedAlways == Spec => []Counted
<1>1. Init => Counted
  BY InitCounted
<1>2. Counted /\ [Next]_vars => Counted'
  BY NextCounted
<1> QED BY <1>1, <1>2, PTL DEF Spec

\* nand_plugin.c keeps its state in range: the page buffer is never filled past
\* its end, the data of a request never exceeds what is left of the session, and
\* the write position is that of a page.
THEOREM TypeCorrect == Spec => []TypeOK
<1>1. Counted => TypeOK
  BY DEF Counted
<1> QED BY <1>1, CountedAlways, PTL

\* offset, total_remaining and page_offset of nand_plugin.c always account for
\* every cell of the session, however the data is split and whatever fails.
THEOREM CellsCounted == Spec => []EveryCellIsCounted
<1>1. Counted => EveryCellIsCounted
  BY DEF Counted
<1> QED BY <1>1, CountedAlways, PTL

\* s_nand_write_flush_page() never erases nor programs a page behind the write
\* position, although it erases whole blocks and even when it fails half way.
THEOREM WrittenIsKept == Spec => WrittenStays
<1>1. Counted /\ [Next]_vars => [BehindIsKept]_vars
  <2> SUFFICES ASSUME Counted, [Next]_vars PROVE BehindIsKept
    OBVIOUS
  <2> QED BY NextCounted DEF Ahead, BehindIsKept
<1> QED BY <1>1, CountedAlways, PTL DEF Spec, WrittenStays

-----------------------------------------------------------------------------
(* What the chip holds when WRITE_FLASH_END was accepted, however the data was *)
(* cut into requests.                                                          *)

(* Blocks.                                                                     *)

\* Dividing a multiple gives what was multiplied.
LEMMA DivideMultiple ==
  ASSUME NEW m \in Nat \ {0}, NEW q \in Int, NEW a \in Int, a = m * q
  PROVE  a \div m = q /\ a % m = 0
<1>1. a = m * (a \div m) + (a % m) /\ a % m \in 0..(m - 1) /\ a \div m \in Int
  BY SMT
<1>2. m * (q - (a \div m)) = a % m
  <2> DEFINE e == a \div m
  <2>1. e \in Int /\ a = m * e + (a % m)
    BY <1>1
  <2> HIDE DEF e
  <2>2. m * (q - e) = m * q - m * e
    BY <2>1, SMT
  <2> DEFINE r == a % m
             mq == m * q
             me == m * e
  <2>3. r \in Int /\ mq \in Int /\ me \in Int /\ a = mq /\ a = me + r
    BY <1>1, <2>1, SMT
  <2>4. m * (q - e) = mq - me
    BY <2>2
  <2> HIDE DEF r, mq, me
  <2>5. mq - me = r
    BY <2>3, SMT
  <2>6. m * (q - e) = r
    BY <2>4, <2>5
  <2> QED BY <2>6 DEF e, r
<1>3. q = a \div m
  <2>1. CASE q - (a \div m) >= 1
    BY <1>1, <1>2, <2>1, SMT
  <2>2. CASE q - (a \div m) =< -1
    BY <1>1, <1>2, <2>2, SMT
  <2> QED BY <1>1, <2>1, <2>2, SMT
<1> QED BY <1>1, <1>2, <1>3, SMT

\* One more is one more in the remainder, too, until it comes round.
LEMMA NextRemainder ==
  ASSUME NEW m \in Nat \ {0}, NEW n \in Nat
  PROVE  (n + 1) % m = IF (n % m) + 1 = m THEN 0 ELSE (n % m) + 1
<1>1. n = m * (n \div m) + (n % m) /\ n % m \in 0..(m - 1) /\ n \div m \in Int
  BY SMT
<1>2. n + 1 = m * ((n + 1) \div m) + ((n + 1) % m) /\ (n + 1) % m \in 0..(m - 1)
      /\ (n + 1) \div m \in Int
  BY SMT
<1> DEFINE d == ((n + 1) \div m) - (n \div m)
           r == n % m
           r1 == (n + 1) % m
<1>3. m * d = r + 1 - r1 /\ d \in Int /\ r \in 0..(m - 1) /\ r1 \in 0..(m - 1)
  <2>1. m * d = m * ((n + 1) \div m) - m * (n \div m)
    BY <1>1, <1>2, SMT
  <2> QED BY <1>1, <1>2, <2>1, SMT
<1> HIDE DEF d, r, r1
<1>4. CASE d >= 2
  <2>1. m * d >= 2 * m
    BY <1>3, <1>4, SMT
  <2> QED BY <1>3, <2>1, SMT
<1>5. CASE d =< -1
  <2>1. m * d =< -m
    BY <1>3, <1>5, SMT
  <2> QED BY <1>3, <2>1, SMT
<1>6. CASE d = 0
  <2>1. m * d = 0
    BY <1>6, SMT
  <2>2. r1 = r + 1 /\ r + 1 # m
    BY <1>3, <2>1, SMT
  <2> QED BY <2>2 DEF r, r1
<1>7. CASE d = 1
  <2>1. m * d = m
    BY <1>7, SMT
  <2>2. r1 = 0 /\ r + 1 = m
    BY <1>3, <2>1, SMT
  <2> QED BY <2>2 DEF r, r1
<1> QED BY <1>3, <1>4, <1>5, <1>6, <1>7, SMT

\* The page after a page is the next of its block or the first of one.
LEMMA NextInBlock ==
  ASSUME NEW o \in Nat, o % PAGE = 0
  PROVE  /\ InBlock(o) \in 0..(BLOCK_PAGES - 1)
         /\ InBlock(o + PAGE) = IF InBlock(o) + 1 = BLOCK_PAGES THEN 0 ELSE InBlock(o) + 1
<1>1. o \div PAGE \in Nat /\ o = PAGE * (o \div PAGE)
  BY PageAssumption, SMT
<1> DEFINE n == o \div PAGE
<1>2. o + PAGE = PAGE * (n + 1) /\ n + 1 \in Int
  BY <1>1, PageAssumption, SMT
<1>3. (o + PAGE) \div PAGE = n + 1
  BY <1>2, PageAssumption, DivideMultiple
<1> HIDE DEF n
<1>4. n \in Nat
  BY <1>1 DEF n
<1>5. (n + 1) % BLOCK_PAGES = IF (n % BLOCK_PAGES) + 1 = BLOCK_PAGES THEN 0
                              ELSE (n % BLOCK_PAGES) + 1
  BY <1>4, PageAssumption, NextRemainder
<1>6. n % BLOCK_PAGES \in 0..(BLOCK_PAGES - 1)
  BY <1>4, PageAssumption, SMT
<1> QED BY <1>3, <1>5, <1>6 DEF InBlock, n

\* A page that does not start a block lies in the one begun, and so does one that does.
LEMMA PageInBlock ==
  ASSUME NEW o \in Nat, o % PAGE = 0
  PROVE  /\ InBlock(o) # 0 => o + PAGE =< BlockEnd(o) /\ BlockEnd(o + PAGE) =< BlockEnd(o)
         /\ InBlock(o) = 0 => /\ PAGE =< PAGE * BLOCK_PAGES
                              /\ BlockEnd(o + PAGE) =< o + PAGE * BLOCK_PAGES
<1> DEFINE k == InBlock(o)
           k1 == InBlock(o + PAGE)
<1>1. k \in 0..(BLOCK_PAGES - 1) /\ k1 = IF k + 1 = BLOCK_PAGES THEN 0 ELSE k + 1
  BY NextInBlock
<1>2. BlockEnd(o) = (IF k = 0 THEN o ELSE o + PAGE * (BLOCK_PAGES - k))
      /\ BlockEnd(o + PAGE) = (IF k1 = 0 THEN o + PAGE
                               ELSE (o + PAGE) + PAGE * (BLOCK_PAGES - k1))
  BY DEF BlockEnd
<1> HIDE DEF k, k1
<1>3. PAGE * (BLOCK_PAGES - k) = PAGE + PAGE * (BLOCK_PAGES - (k + 1))
      /\ PAGE * (BLOCK_PAGES - k) >= PAGE
  BY <1>1, PageAssumption, SMT
<1>4. CASE k + 1 = BLOCK_PAGES
  <2>1. k1 = 0 /\ BlockEnd(o + PAGE) = o + PAGE
    BY <1>1, <1>2, <1>4
  <2>2. PAGE * BLOCK_PAGES >= PAGE
    BY PageAssumption, SMT
  <2>3. k # 0 => BlockEnd(o) = o + PAGE * (BLOCK_PAGES - k)
    BY <1>2
  <2>4. BLOCK_PAGES - k = 1 /\ PAGE * 1 = PAGE
    BY <1>1, <1>4, PageAssumption, SMT
  <2>5. PAGE * (BLOCK_PAGES - k) = PAGE
    BY <2>4
  <2> QED BY <2>1, <2>2, <2>3, <2>5, PageAssumption, SMT DEF k
<1>5. CASE k + 1 # BLOCK_PAGES
  <2>1. k1 = k + 1 /\ k1 # 0
    BY <1>1, <1>5, PageAssumption, SMT
  <2>2. BlockEnd(o + PAGE) = (o + PAGE) + PAGE * (BLOCK_PAGES - (k + 1))
    BY <1>2, <2>1
  <2>3. k # 0 => BlockEnd(o) = o + PAGE * (BLOCK_PAGES - k)
    BY <1>2
  <2>4. k = 0 => PAGE * (BLOCK_PAGES - k) = PAGE * BLOCK_PAGES
    BY PageAssumption, SMT
  <2>5. PAGE * (BLOCK_PAGES - k) \in Int /\ PAGE * (BLOCK_PAGES - (k + 1)) \in Int
    BY <1>1, PageAssumption, SMT
  <2> QED BY <1>3, <2>2, <2>3, <2>4, <2>5, PageAssumption, SMT DEF k
<1> QED BY <1>4, <1>5

\* The end of a block is a number.
LEMMA EndIsInt ==
  ASSUME NEW o \in Nat
  PROVE  BlockEnd(o) \in Int
<1>1. o \div PAGE \in Int
  BY PageAssumption, SMT
<1>2. InBlock(o) \in Int
  BY <1>1, PageAssumption, SMT DEF InBlock
<1>3. PAGE * (BLOCK_PAGES - InBlock(o)) \in Int
  BY <1>2, PageAssumption, SMT
<1> QED BY <1>3, SMT DEF BlockEnd

-----------------------------------------------------------------------------
(* What the chip holds.                                                        *)

\* No flush of the session failed.
Sound == in_progress /\ dropped = 0

\* What is behind the write position is what was received, in place.
Laid == \A c \in Cells : begin =< c /\ c < offset => Holds(nand, c, received[c - begin + 1])

\* The page buffer holds what was received last.
Gathered == \A j \in 1..Len(page_buf) : page_buf[j] = received[(offset - begin) + j]

\* What is left of the block begun is erased, if the session has begun that block.
Ready == \A c \in Cells : BlockEnd(begin) =< c /\ offset =< c /\ c < BlockEnd(offset)
                            => nand[c] = BLANK

InChip == begin + size =< CELLS
OpenToCopy == pc = "copy" => in_progress
ClosedIsClosed == closed => ~in_progress

Written == /\ Counted /\ InChip /\ OpenToCopy /\ ClosedIsClosed /\ ClosedMeansWritten
           /\ in_progress => begin =< offset
           /\ Sound => Laid /\ Gathered /\ Ready

\* Programming a blank cell leaves what it is given.
LEMMA BlankTakes == ASSUME NEW v PROVE Programmed(BLANK, v) = v
BY Zenon DEF Programmed

\* The end of the block a session begins in is a number.
LEMMA BeginInt == Counted => BlockEnd(begin) \in Int
BY EndIsInt DEF Counted, TypeOK

\* A page at the write position finds its cells blank, from the first block on that
\* the session begins.
LEMMA PreparedIsBlank ==
  ASSUME Counted, Ready, NEW c \in Cells, BlockEnd(begin) =< c, offset =< c, c < offset + PAGE
  PROVE  Prepared[c] = BLANK
<1>1. offset \in Nat /\ offset % PAGE = 0
  BY DEF Counted, TypeOK
<1>2. CASE InBlock(offset) = 0
  <2>1. PAGE =< PAGE * BLOCK_PAGES
    BY <1>1, <1>2, PageInBlock
  <2> DEFINE m == PAGE * BLOCK_PAGES
  <2>2. m \in Int /\ PAGE =< m
    BY <2>1, PageAssumption, SMT
  <2> HIDE DEF m
  <2>3. c < offset + m
    BY <1>1, <2>2, PageAssumption, DataAssumption, SMT DEF Cells
  <2>4. Prepared[c] = IF offset =< c /\ c < offset + m THEN BLANK ELSE nand[c]
    BY <1>2 DEF Prepared, StartsBlock, InBlock, Erased, m
  <2> QED BY <2>3, <2>4
<1>3. CASE InBlock(offset) # 0
  <2>1. offset + PAGE =< BlockEnd(offset)
    BY <1>1, <1>3, PageInBlock
  <2>2. BlockEnd(offset) \in Int
    BY <1>1, <1>3, NextInBlock, PageAssumption, SMT DEF BlockEnd
  <2>3. c < BlockEnd(offset)
    BY <1>1, <2>1, <2>2, PageAssumption, DataAssumption, SMT DEF Cells
  <2>4. Prepared[c] = nand[c]
    BY <1>3 DEF Prepared, StartsBlock, InBlock
  <2> QED BY <2>3, <2>4 DEF Ready
<1> QED BY <1>2, <1>3

\* A page written at the write position is there, what was behind it still is, and
\* the rest of its block is erased.
LEMMA PageIsLaid ==
  ASSUME Counted, Ready, NEW buf, NEW after,
         after = WithData(Prepared, offset, buf, PAGE)
  PROVE  /\ \A c \in Cells : offset =< c /\ c < offset + PAGE
                               => Holds(after, c, buf[c - offset + 1])
         /\ \A c \in Cells : c < offset => after[c] = nand[c]
         /\ \A c \in Cells :
              BlockEnd(begin) =< c /\ offset + PAGE =< c /\ c < BlockEnd(offset + PAGE)
                => after[c] = BLANK
<1>1. offset \in Nat /\ offset % PAGE = 0
  BY DEF Counted, TypeOK
<1>2. ASSUME NEW c \in Cells
      PROVE  after[c] = IF offset =< c /\ c < offset + PAGE
                        THEN Programmed(Prepared[c], buf[c - offset + 1]) ELSE Prepared[c]
  BY <1>2 DEF WithData
<1>3. ASSUME NEW c \in Cells, offset =< c, c < offset + PAGE
      PROVE  Holds(after, c, buf[c - offset + 1])
  <2>1. after[c] = Programmed(Prepared[c], buf[c - offset + 1])
    BY <1>2, <1>3
  <2>2. CASE c < BlockEnd(begin)
    <3>1. Prepared[c] \in Cell
      BY PreparedAhead DEF Ahead, Counted
    <3> QED BY <2>1, <2>2, <3>1, Zenon DEF Holds
  <2>3. CASE ~(c < BlockEnd(begin))
    <3>1. BlockEnd(begin) =< c
      BY <2>3, BeginInt, DataAssumption, SMT DEF Cells
    <3>2. Prepared[c] = BLANK
      BY <1>3, <3>1, PreparedIsBlank
    <3> QED BY <2>1, <2>3, <3>2, BlankTakes, Zenon DEF Holds
  <2> QED BY <2>2, <2>3
<1>4. ASSUME NEW c \in Cells, c < offset PROVE after[c] = nand[c]
  <2>1. ~(offset =< c)
    BY <1>1, <1>4, DataAssumption, SMT DEF Cells
  <2>2. after[c] = Prepared[c]
    BY <1>2, <2>1
  <2>3. Prepared[c] = nand[c]
    BY <2>1, PreparedAhead DEF Ahead, Counted
  <2> QED BY <2>2, <2>3
<1>5. ASSUME NEW c \in Cells, BlockEnd(begin) =< c,
             offset + PAGE =< c, c < BlockEnd(offset + PAGE)
      PROVE  after[c] = BLANK
  <2>1. ~(c < offset + PAGE) /\ offset =< c
    BY <1>1, <1>5, PageAssumption, DataAssumption, SMT DEF Cells
  <2>2. after[c] = Prepared[c]
    BY <1>2, <2>1
  <2>3. offset + PAGE \in Nat /\ (offset + PAGE) % PAGE = 0
    BY <1>1, NextPage, PageAssumption, SMT
  <2>4. BlockEnd(offset + PAGE) \in Int
    BY <2>3, NextInBlock, PageAssumption, SMT DEF BlockEnd
  <2>5. CASE InBlock(offset) = 0
    <3> DEFINE m == PAGE * BLOCK_PAGES
    <3>1. BlockEnd(offset + PAGE) =< offset + m /\ m \in Int
      BY <1>1, <2>5, PageInBlock, PageAssumption, SMT
    <3> HIDE DEF m
    <3>2. c < offset + m
      BY <1>1, <1>5, <2>4, <3>1, DataAssumption, SMT DEF Cells
    <3>3. Prepared[c] = IF offset =< c /\ c < offset + m THEN BLANK ELSE nand[c]
      BY <2>5 DEF Prepared, StartsBlock, InBlock, Erased, m
    <3> QED BY <2>1, <2>2, <3>2, <3>3
  <2>6. CASE InBlock(offset) # 0
    <3>1. BlockEnd(offset + PAGE) =< BlockEnd(offset) /\ BlockEnd(offset) \in Int
      BY <1>1, <2>6, PageInBlock, NextInBlock, PageAssumption, SMT DEF BlockEnd
    <3>2. c < BlockEnd(offset)
      BY <1>1, <1>5, <2>4, <3>1, DataAssumption, SMT DEF Cells
    <3>3. Prepared[c] = nand[c]
      BY <2>6 DEF Prepared, StartsBlock, InBlock
    <3> QED BY <1>5, <2>1, <2>2, <3>2, <3>3 DEF Ready
  <2> QED BY <2>5, <2>6
<1> QED BY <1>3, <1>4, <1>5

-----------------------------------------------------------------------------
(* What was received.                                                          *)

\* A sequence that is appended to keeps what it has.
LEMMA Appended ==
  ASSUME NEW s \in Seq(Value), NEW t \in Seq(Value), NEW w, w = s \o t
  PROVE  /\ \A k \in 1..Len(s) : w[k] = s[k]
         /\ \A k \in (Len(s) + 1)..(Len(s) + Len(t)) : w[k] = t[k - Len(s)]
BY SMT

\* The chunk goes to the same place in the page as in what was received.
LEMMA ChunkGathered ==
  ASSUME Written, Sound, src # <<>>,
         NEW now, now = received \o SubSeq(src, 1, Chunk)
  PROVE  /\ \A k \in 1..Len(received) : now[k] = received[k]
         /\ \A j \in 1..Len(Filled) : Filled[j] = now[(offset - begin) + j]
         /\ offset - begin \in 0..Len(received)
<1>1. /\ TypeOK /\ Gathered /\ begin =< offset
      /\ (offset - begin) + Len(page_buf) = Len(received)
  <2>1. (offset - begin) + Len(page_buf) + dropped = Len(received) /\ dropped = 0
    BY DEF Written, Counted, EveryCellIsCounted, Sound
  <2>2. offset \in Int /\ begin \in Int /\ Len(page_buf) \in Int
    BY SMT DEF Written, Counted, TypeOK
  <2>3. (offset - begin) + Len(page_buf) = Len(received)
    BY <2>1, <2>2, SMT
  <2> QED BY <2>3 DEF Written, Counted, Sound
<1> DEFINE part == SubSeq(src, 1, Chunk)
           d == offset - begin
<1>2. part \in Seq(Value) /\ Len(part) = Chunk /\ Len(Filled) = Len(page_buf) + Chunk
      /\ Chunk \in Nat
  <2>1. TypeOK /\ src # <<>> /\ Len(src) \in Nat
    BY <1>1, SMT DEF TypeOK
  <2>2. Chunk \in 1..Len(src)
    BY <2>1, ChunkFits
  <2> HIDE DEF Chunk
  <2>3. Chunk \in Nat
    BY <2>1, <2>2, SMT
  <2> QED BY <2>1, <2>3, ChunkFits
<1>3. page_buf \in Seq(Value) /\ received \in Seq(Value) /\ d \in Nat
      /\ d + Len(page_buf) = Len(received) /\ Len(page_buf) \in Nat /\ Len(received) \in Nat
  BY <1>1, SMT DEF TypeOK
<1>4. /\ \A k \in 1..Len(received) : now[k] = received[k]
      /\ \A k \in (Len(received) + 1)..(Len(received) + Len(part)) :
           now[k] = part[k - Len(received)]
  BY <1>2, <1>3, Appended
<1>5. /\ \A j \in 1..Len(page_buf) : Filled[j] = page_buf[j]
      /\ \A j \in (Len(page_buf) + 1)..(Len(page_buf) + Len(part)) :
           Filled[j] = part[j - Len(page_buf)]
  <2>1. Filled = page_buf \o part
    BY DEF Filled
  <2> HIDE DEF part
  <2> QED BY <1>2, <1>3, <2>1, Appended
<1>6. \A j \in 1..Len(page_buf) : page_buf[j] = received[d + j]
  BY <1>1 DEF Gathered
<1> HIDE DEF part, d, Filled, Chunk
<1>7. ASSUME NEW j \in 1..Len(Filled) PROVE Filled[j] = now[d + j]
  <2>1. CASE j =< Len(page_buf)
    <3>1. j \in 1..Len(page_buf) /\ d + j \in 1..Len(received)
      BY <1>2, <1>3, <2>1, SMT
    <3> QED BY <1>4, <1>5, <1>6, <3>1
  <2>2. CASE ~(j =< Len(page_buf))
    <3>1. /\ Len(part) = Chunk /\ Chunk \in Nat /\ j \in Nat
          /\ Len(page_buf) + 1 =< j /\ j =< Len(page_buf) + Chunk
      BY <1>2, <1>3, <2>2, SMT
    <3>2. j \in (Len(page_buf) + 1)..(Len(page_buf) + Len(part))
      BY <1>3, <3>1, SMT
    <3>3. d + j \in (Len(received) + 1)..(Len(received) + Len(part))
      BY <1>3, <3>1, SMT
    <3>4. (d + j) - Len(received) = j - Len(page_buf)
      <4> DEFINE b == Len(page_buf)
                 n == Len(received)
      <4>1. b \in Int /\ n \in Int /\ j \in Int /\ d \in Int /\ n = d + b
        BY <1>3, <3>1
      <4> HIDE DEF b, n
      <4>2. (d + j) - n = j - b
        BY <4>1, SMT
      <4> QED BY <4>2 DEF b, n
    <3>5. now[d + j] = part[(d + j) - Len(received)] /\ Filled[j] = part[j - Len(page_buf)]
      BY <1>4, <1>5, <3>2, <3>3
    <3> QED BY <3>4, <3>5
  <2> QED BY <2>1, <2>2
<1>8. d \in 0..Len(received)
  BY <1>3, SMT
<1> QED BY <1>4, <1>7, <1>8 DEF d

\* More is received: what lies behind the write position is still what it was.
LEMMA LaidStays ==
  ASSUME Written, Sound, NEW now, \A k \in 1..Len(received) : now[k] = received[k],
         offset - begin \in 0..Len(received),
         NEW c \in Cells, begin =< c, c < offset
  PROVE  Holds(nand, c, now[c - begin + 1])
<1>1. Holds(nand, c, received[c - begin + 1])
  BY DEF Written, Laid
<1>2. c - begin + 1 \in 1..Len(received)
  BY DataAssumption, SMT DEF Written, Counted, TypeOK, Cells
<1> QED BY <1>1, <1>2

-----------------------------------------------------------------------------
(* The steps.                                                                  *)

\* Answers change nothing the chip or the session holds.
LEMMA AnswerWritten ==
  ASSUME Written, Counted', OpenToCopy',
         UNCHANGED <<offset, page_buf, in_progress, nand, histVars>>
  PROVE  Written'
BY DEF Written, InChip, ClosedIsClosed, ClosedMeansWritten, Sound, Laid, Gathered, Ready,
       histVars, Holds

\* WRITE_FLASH_BEGIN finds nothing behind the write position, and no block begun.
LEMMA BeginWritten ==
  ASSUME Written, NEW r \in BeginRequests, HandleBegin(r)
  PROVE  Written'
<1>1. Counted' /\ Counted
  BY BeginCounted DEF Written
<1>2. CASE BeginBad(r)
  <2>1. pc' = "idle" /\ UNCHANGED <<offset, page_buf, in_progress, nand, histVars>>
    BY <1>2 DEF HandleBegin, Refuse, Answer, stateVars
  <2> QED BY <1>1, <2>1, AnswerWritten DEF OpenToCopy
<1>3. CASE ~BeginBad(r)
  <2>1. /\ pc' = "idle" /\ offset' = r.offset /\ page_buf' = <<>> /\ in_progress' = TRUE
        /\ begin' = r.offset /\ size' = r.size /\ received' = <<>> /\ closed' = FALSE
    BY <1>3 DEF HandleBegin, Answer
  <2>2. r.offset \in Nat /\ r.size \in Nat /\ r.offset + r.size =< CELLS
    BY DataAssumption, SMT DEF BeginRequests, WriteBegin
  <2>3. InChip' /\ OpenToCopy' /\ ClosedIsClosed' /\ ClosedMeansWritten' /\ begin' =< offset'
    BY <2>1, <2>2, SMT DEF InChip, OpenToCopy, ClosedIsClosed, ClosedMeansWritten
  <2>4. Laid'
    <3>1. ASSUME NEW c \in Cells PROVE ~(begin' =< c /\ c < offset')
      BY <2>1, <2>2, DataAssumption, SMT DEF Cells
    <3> QED BY <3>1 DEF Laid
  <2>5. Ready'
    <3> DEFINE e == BlockEnd(r.offset)
    <3>1. e \in Int
      BY <2>2, EndIsInt
    <3> HIDE DEF e
    <3>2. ASSUME NEW c \in Cells PROVE ~(e =< c /\ c < e)
      BY <3>1, DataAssumption, SMT DEF Cells
    <3> QED BY <2>1, <3>2 DEF Ready, e
  <2>6. Gathered'
    BY <2>1, SMT DEF Gathered
  <2> QED BY <1>1, <2>3, <2>4, <2>5, <2>6 DEF Written
<1> QED BY <1>2, <1>3

\* WRITE_FLASH_DATA is refused, or taken by an open session only.
LEMMA DataWritten ==
  ASSUME Written, NEW r \in DataRequests, HandleData(r)
  PROVE  Written'
<1>1. Counted'
  BY DataCounted DEF Written
<1>2. CASE DataResult(r) # "SUCCESS"
  <2>1. pc' = "idle" /\ UNCHANGED <<offset, page_buf, in_progress, nand, histVars>>
    BY <1>2 DEF HandleData, Refuse, Answer, stateVars
  <2> QED BY <1>1, <2>1, AnswerWritten DEF OpenToCopy
<1>3. CASE DataResult(r) = "SUCCESS"
  <2>1. UNCHANGED <<offset, page_buf, in_progress, nand, histVars>>
    BY <1>3 DEF HandleData, stateVars
  <2>2. in_progress
    <3>1. CASE r.flaw = "short"
      BY <1>3, <3>1, SMT DEF DataResult
    <3>2. CASE r.flaw # "short" /\ ~in_progress
      BY <1>3, <3>2, SMT DEF DataResult
    <3> QED BY <3>1, <3>2
  <2> QED BY <1>1, <2>1, <2>2, AnswerWritten DEF OpenToCopy
<1> QED BY <1>2, <1>3

\* A chunk that does not fill the page is gathered.
LEMMA PartWritten == ASSUME Written, CopyPart PROVE Written'
<1>1. /\ Counted' /\ src # <<>> /\ pc = "copy" /\ page_buf' = Filled
      /\ received' = received \o SubSeq(src, 1, Chunk)
      /\ UNCHANGED <<offset, pc, nand, dropped, in_progress, begin, size, closed>>
  BY PartCounted DEF CopyPart, TakeChunk, Written
<1>2. in_progress /\ ~closed
  BY <1>1 DEF Written, OpenToCopy, ClosedIsClosed
<1>3. /\ InChip' /\ OpenToCopy' /\ ClosedIsClosed' /\ ClosedMeansWritten'
      /\ in_progress' => begin' =< offset'
  BY <1>1, <1>2 DEF Written, InChip, OpenToCopy, ClosedIsClosed, ClosedMeansWritten
<1>4. ASSUME Sound' PROVE Laid' /\ Gathered' /\ Ready'
  <2>1. Sound
    BY <1>1, <1>4 DEF Sound
  <2>2. /\ \A k \in 1..Len(received) : received'[k] = received[k]
        /\ \A j \in 1..Len(Filled) : Filled[j] = received'[(offset - begin) + j]
        /\ offset - begin \in 0..Len(received)
    BY <1>1, <2>1, ChunkGathered
  <2>3. Laid'
    BY <1>1, <2>1, <2>2, LaidStays DEF Laid, Holds
  <2>4. Gathered'
    BY <1>1, <2>2 DEF Gathered
  <2>5. Ready'
    BY <1>1, <2>1 DEF Written, Ready
  <2> QED BY <2>3, <2>4, <2>5
<1> QED BY <1>1, <1>3, <1>4 DEF Written

\* A full page is laid down behind the write position, which moves past it.
LEMMA PageWritten == ASSUME Written, CopyPage PROVE Written'
<1>1. /\ Counted' /\ Counted /\ src # <<>> /\ pc = "copy" /\ page_buf' = <<>>
      /\ received' = received \o SubSeq(src, 1, Chunk)
      /\ Len(Filled) >= PAGE
      /\ nand' = WithData(Prepared, offset, Filled, PAGE) /\ offset' = offset + PAGE
      /\ UNCHANGED <<pc, dropped, in_progress, begin, size, closed>>
  BY PageCounted DEF CopyPage, TakeChunk, FlushSucceeds, PageIsFull, Written
<1>2. in_progress /\ ~closed
  BY <1>1 DEF Written, OpenToCopy, ClosedIsClosed
<1>3. offset \in Nat /\ begin \in Nat /\ begin =< offset /\ begin =< offset + PAGE
  BY <1>1, <1>2, PageAssumption, SMT DEF Written, Counted, TypeOK
<1>4. /\ InChip' /\ OpenToCopy' /\ ClosedIsClosed' /\ ClosedMeansWritten'
      /\ in_progress' => begin' =< offset'
  BY <1>1, <1>2, <1>3 DEF Written, InChip, OpenToCopy, ClosedIsClosed, ClosedMeansWritten
<1>5. ASSUME Sound' PROVE Laid' /\ Gathered' /\ Ready'
  <2>1. Sound /\ Ready
    BY <1>1, <1>5 DEF Sound, Written
  <2>2. /\ \A k \in 1..Len(received) : received'[k] = received[k]
        /\ \A j \in 1..Len(Filled) : Filled[j] = received'[(offset - begin) + j]
        /\ offset - begin \in 0..Len(received)
    BY <1>1, <2>1, ChunkGathered
  <2>3. /\ \A c \in Cells : offset =< c /\ c < offset + PAGE
                              => Holds(nand', c, Filled[c - offset + 1])
        /\ \A c \in Cells : c < offset => nand'[c] = nand[c]
        /\ \A c \in Cells :
             BlockEnd(begin) =< c /\ offset + PAGE =< c /\ c < BlockEnd(offset + PAGE)
               => nand'[c] = BLANK
    BY <1>1, <2>1, PageIsLaid
  <2>4. Len(Filled) \in Nat
    BY <1>1, ChunkFits, SMT DEF Counted, TypeOK
  <2>5. ASSUME NEW c \in Cells, begin =< c, c < offset + PAGE
        PROVE  Holds(nand', c, received'[c - begin + 1])
    <3>1. CASE c < offset
      <4>1. Holds(nand, c, received'[c - begin + 1]) /\ nand'[c] = nand[c]
        BY <2>1, <2>2, <2>3, <2>5, <3>1, LaidStays
      <4> QED BY <4>1, Zenon DEF Holds
    <3>2. CASE ~(c < offset)
      <4> HIDE DEF Filled
      <4> DEFINE j == c - offset + 1
      <4>1. offset =< c /\ j \in 1..Len(Filled) /\ (offset - begin) + j = c - begin + 1
        BY <1>1, <1>3, <2>4, <2>5, <3>2, PageAssumption, DataAssumption, SMT DEF Cells
      <4>2. Holds(nand', c, Filled[j])
        BY <2>3, <2>5, <4>1
      <4> HIDE DEF j
      <4>3. Filled[j] = received'[(offset - begin) + j]
        BY <2>2, <4>1
      <4> QED BY <4>1, <4>2, <4>3
    <3> QED BY <3>1, <3>2
  <2>6. Laid'
    BY <1>1, <2>5 DEF Laid, Holds
  <2>7. Gathered'
    BY <1>1, SMT DEF Gathered
  <2>8. Ready'
    BY <1>1, <2>3 DEF Ready
  <2> QED BY <2>6, <2>7, <2>8
<1> QED BY <1>1, <1>4, <1>5 DEF Written

\* After a failed flush nothing more is claimed of the session.
LEMMA FailWritten ==
  ASSUME Written, Counted', NEW k \in Nat \ {0}, dropped' = dropped + k,
         in_progress, pc' = "idle", UNCHANGED <<offset, in_progress, begin, size, closed>>
  PROVE  Written'
<1>1. dropped' # 0
  BY SMT DEF Written, Counted, TypeOK
<1>2. ~closed
  BY DEF Written, ClosedIsClosed
<1>3. /\ InChip' /\ OpenToCopy' /\ ClosedIsClosed' /\ ClosedMeansWritten'
      /\ in_progress' => begin' =< offset'
  BY <1>2 DEF Written, InChip, OpenToCopy, ClosedIsClosed, ClosedMeansWritten
<1> QED BY <1>1, <1>3 DEF Written, Sound

\* A full page that cannot be written is dropped.
LEMMA PageFailsWritten == ASSUME Written, CopyPageFails PROVE Written'
<1>1. /\ Counted' /\ Counted /\ src # <<>> /\ pc = "copy" /\ pc' = "idle"
      /\ Len(Filled) >= PAGE /\ dropped' = dropped + Len(Filled)
      /\ UNCHANGED <<offset, in_progress, begin, size, closed>>
  BY PageFailsCounted DEF CopyPageFails, FlushFails, Answer, PageIsFull, Written
<1>2. in_progress
  BY <1>1 DEF Written, OpenToCopy
<1>3. Len(Filled) \in Nat
  BY <1>1, ChunkFits, SMT DEF Counted, TypeOK
<1> HIDE DEF Filled
<1>4. Len(Filled) \in Nat \ {0}
  BY <1>1, <1>3, PageAssumption, SMT
<1> QED BY <1>1, <1>2, <1>4, FailWritten

\* The answer to WRITE_FLASH_DATA once all of it was copied.
LEMMA EndsWritten == ASSUME Written, CopyEnds PROVE Written'
<1>1. Counted' /\ pc' = "idle" /\ UNCHANGED <<offset, page_buf, in_progress, nand, histVars>>
  BY EndsCounted DEF CopyEnds, Answer, stateVars, Written
<1> QED BY <1>1, AnswerWritten DEF OpenToCopy

\* A session that is closed holds all it received, once its last page is written.
LEMMA CloseWritten ==
  ASSUME Written, in_progress, total_remaining = 0, Close, Counted',
         Sound => \A c \in Cells : begin =< c /\ c - begin + 1 =< Len(received)
                                     => Holds(nand', c, received[c - begin + 1])
  PROVE  Written'
<1>1. /\ pc' = "idle" /\ in_progress' = FALSE /\ closed' = TRUE
      /\ UNCHANGED <<begin, size, received, dropped>>
  BY DEF Close, Answer
<1>2. InChip' /\ OpenToCopy' /\ ClosedIsClosed' /\ ~Sound'
  BY <1>1 DEF Written, InChip, OpenToCopy, ClosedIsClosed, Sound
<1>3. ClosedMeansWritten'
  <2> SUFFICES ASSUME dropped = 0, NEW i \in 1..size
               PROVE  Holds(nand', begin + i - 1, received[i])
    BY <1>1 DEF ClosedMeansWritten, Holds
  <2>1. Sound
    BY DEF Sound
  <2>2. Len(received) = size /\ begin + size =< CELLS /\ begin \in Nat /\ size \in Nat
    BY SMT DEF Written, Counted, TypeOK, EveryCellIsCounted, InChip
  <2> DEFINE c == begin + i - 1
  <2>3. c \in Cells /\ begin =< c /\ c - begin + 1 =< Len(received) /\ c - begin + 1 = i
    BY <2>2, DataAssumption, SMT DEF Cells
  <2> HIDE DEF c
  <2>4. Holds(nand', c, received[c - begin + 1])
    BY <2>1, <2>3
  <2> QED BY <2>3, <2>4 DEF c
<1> QED BY <1>1, <1>2, <1>3 DEF Written

\* WRITE_FLASH_END: refused, accepted with or without a last page, or failed.
LEMMA EndWritten ==
  ASSUME Written, NEW r \in EndRequests, HandleEnd(r)
  PROVE  Written'
<1>1. Counted' /\ Counted
  BY EndCounted DEF Written
<1>2. ASSUME EndResult(r) = "SUCCESS" PROVE in_progress /\ total_remaining = 0
  <2>1. r.flaw \in {"none", "size"}
    BY SMT DEF EndRequests, WriteEnd
  <2>2. CASE r.flaw = "size" \/ (in_progress /\ total_remaining # 0)
    BY <1>2, <2>2, SMT DEF EndResult
  <2>3. CASE r.flaw # "size" /\ ~in_progress
    BY <1>2, <2>3, SMT DEF EndResult
  <2> QED BY <2>2, <2>3
<1>3. ASSUME in_progress, Sound
      PROVE  /\ (offset - begin) + Len(page_buf) = Len(received)
             /\ offset \in Nat /\ begin \in Nat /\ begin =< offset
             /\ Len(page_buf) \in Nat /\ Len(page_buf) < PAGE /\ Laid /\ Gathered /\ Ready
  BY <1>3, SMT DEF Written, Counted, TypeOK, EveryCellIsCounted, Sound
<1>4. CASE RefuseEnd(r)
  <2>1. pc' = "idle" /\ UNCHANGED <<offset, page_buf, in_progress, nand, histVars>>
    BY <1>4 DEF RefuseEnd, Refuse, Answer, stateVars
  <2> QED BY <1>1, <2>1, AnswerWritten DEF OpenToCopy
<1>5. CASE CloseClean(r)
  <2>1. in_progress /\ total_remaining = 0 /\ Close /\ page_buf = <<>> /\ nand' = nand
    BY <1>2, <1>5 DEF CloseClean
  <2>2. ASSUME Sound, NEW c \in Cells, begin =< c, c - begin + 1 =< Len(received)
        PROVE  Holds(nand', c, received[c - begin + 1])
    <3>1. /\ (offset - begin) + Len(page_buf) = Len(received)
          /\ offset \in Nat /\ begin \in Nat /\ Laid
      BY <1>3, <2>1, <2>2
    <3>2. Len(page_buf) = 0
      BY <2>1, SMT
    <3>3. c < offset
      BY <2>2, <3>1, <3>2, DataAssumption, SMT DEF Cells
    <3> QED BY <2>1, <2>2, <3>1, <3>3 DEF Laid, Holds
  <2> QED BY <1>1, <2>1, <2>2, CloseWritten
<1>6. CASE CloseFlushed(r)
  <2>1. /\ in_progress /\ total_remaining = 0 /\ Close
        /\ nand' = WithData(Prepared, offset, Padded, PAGE)
    BY <1>2, <1>6 DEF CloseFlushed
  <2>2. ASSUME Sound, NEW c \in Cells, begin =< c, c - begin + 1 =< Len(received)
        PROVE  Holds(nand', c, received[c - begin + 1])
    <3>1. /\ (offset - begin) + Len(page_buf) = Len(received)
          /\ offset \in Nat /\ begin \in Nat /\ begin =< offset
          /\ Len(page_buf) \in Nat /\ Len(page_buf) < PAGE /\ Laid /\ Gathered /\ Ready
      BY <1>3, <2>1, <2>2
    <3>2. /\ \A e \in Cells : offset =< e /\ e < offset + PAGE
                                => Holds(nand', e, Padded[e - offset + 1])
          /\ \A e \in Cells : e < offset => nand'[e] = nand[e]
      BY <1>1, <2>1, <3>1, PageIsLaid
    <3>3. CASE c < offset
      <4>1. Holds(nand, c, received[c - begin + 1]) /\ nand'[c] = nand[c]
        BY <2>2, <3>1, <3>2, <3>3 DEF Laid
      <4> QED BY <4>1, Zenon DEF Holds
    <3>4. CASE ~(c < offset)
      <4> DEFINE j == c - offset + 1
      <4>1. /\ offset =< c /\ c < offset + PAGE /\ j \in 1..Len(page_buf)
            /\ (offset - begin) + j = c - begin + 1
        BY <2>2, <3>1, <3>4, PageAssumption, DataAssumption, SMT DEF Cells
      <4>2. Holds(nand', c, Padded[j])
        BY <3>2, <4>1
      <4> HIDE DEF j
      <4>3. Padded[j] = page_buf[j]
        <5>1. page_buf \in Seq(Value)
          BY <1>1 DEF Counted, TypeOK
        <5> DEFINE pad == [i \in 1..(PAGE - Len(page_buf)) |-> BLANK]
        <5>2. pad \in Seq({BLANK}) /\ PAGE - Len(page_buf) \in Nat
          BY <3>1, PageAssumption, SMT
        <5>3. Padded = page_buf \o pad
          BY DEF Padded
        <5> HIDE DEF pad
        <5> QED BY <4>1, <5>1, <5>2, <5>3, SMT
      <4>4. page_buf[j] = received[(offset - begin) + j]
        BY <3>1, <4>1 DEF Gathered
      <4> QED BY <4>1, <4>2, <4>3, <4>4
    <3> QED BY <3>3, <3>4
  <2> QED BY <1>1, <2>1, <2>2, CloseWritten
<1>7. CASE CloseFails(r)
  <2>1. /\ in_progress /\ pc' = "idle" /\ dropped' = dropped + Len(page_buf)
        /\ page_buf # <<>> /\ UNCHANGED <<offset, in_progress, begin, size, closed>>
    BY <1>2, <1>7 DEF CloseFails, FlushFails, Answer
  <2>2. Len(page_buf) \in Nat \ {0}
    BY <1>1, <2>1, SMT DEF Counted, TypeOK
  <2> QED BY <1>1, <2>1, <2>2, FailWritten
<1> QED BY <1>4, <1>5, <1>6, <1>7 DEF HandleEnd

\* Before the first command no session is open or closed.
LEMMA InitWritten == Init => Written
<1> SUFFICES ASSUME Init PROVE Written
  OBVIOUS
<1>1. Counted
  BY InitCounted
<1>2. begin + size =< CELLS
  BY DataAssumption, SMT DEF Init
<1> QED BY <1>1, <1>2 DEF Init, Written, InChip, OpenToCopy, ClosedIsClosed,
       ClosedMeansWritten, Sound

\* Every step keeps what the chip must hold.
LEMMA NextWritten == ASSUME Written, [Next]_vars PROVE Written'
<1>1. CASE UNCHANGED vars
  <2>1. Counted'
    BY <1>1, NextCounted DEF Written
  <2>2. OpenToCopy' /\ UNCHANGED <<offset, page_buf, in_progress, nand, histVars>>
    BY <1>1 DEF Written, OpenToCopy, vars, stateVars
  <2> QED BY <2>1, <2>2, AnswerWritten
<1> QED BY <1>1, BeginWritten, DataWritten, PartWritten, PageWritten, PageFailsWritten,
       EndsWritten, EndWritten DEF Next

\* What nand_plugin.c accepts with WRITE_FLASH_END was programmed, cell by cell, for
\* every page and block size, however the data was cut into requests, if no flush
\* failed; from the first block boundary of the session on the chip holds it unspoiled.
THEOREM ClosedIsWritten == Spec => []ClosedMeansWritten
<1>1. Init => Written
  BY InitWritten
<1>2. Written /\ [Next]_vars => Written'
  BY NextWritten
<1>3. Written => ClosedMeansWritten
  BY DEF Written
<1> QED BY <1>1, <1>2, <1>3, PTL DEF Spec
=============================================================================
