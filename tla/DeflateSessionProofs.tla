------------------------- MODULE DeflateSessionProofs -------------------------
(* Proofs about DeflateSession, for every set of streams, every size of sector *)
(* and buffer and every width of the counters.                                 *)
EXTENDS DeflateSession, FlashSessionProofs, WellFoundedInduction, SequenceTheorems

(* The arithmetic of a session that may be given more than was announced.      *)

\* A sector's end is less than a sector away.
LEMMA AlignUpNear == ASSUME NEW a \in Nat PROVE AlignUp(a) =< a + SECTOR - 1
<1>1. a + SECTOR - 1 \in Nat
  BY SectorAssumption, SMT
<1>2. AlignDown(a + SECTOR - 1) =< a + SECTOR - 1
  BY <1>1, AlignDownFacts
<1> QED BY <1>2 DEF AlignUp

\* What is written and what is left of a session that announced n cells: the two
\* make up n, or they are a wrap apart, once more than n cells were written.
Account(written, left, n) ==
  \/ written + left = n
  \/ written + left = n + WRAP /\ n < written

\* A write within the last sector keeps the account, if a sector is no more than a wrap.
LEMMA WriteAccount ==
  ASSUME NEW d \in Nat, NEW t \in Nat, NEW a \in Nat, NEW n \in Nat, NEW t1,
         Account(d, t, a), d + n =< a + SECTOR - 1,
         t1 = IF n > t THEN (t + WRAP) - n ELSE t - n
  PROVE  t1 \in Nat /\ Account(d + n, t1, a)
BY SectorAssumption, DeflateAssumption, SMT DEF Account

\* Nothing left, and no more than a sector too much written: it was just enough.
LEMMA NothingLeft ==
  ASSUME NEW d \in Nat, NEW a \in Nat, Account(d, 0, a), d =< a + SECTOR - 1
  PROVE  d = a
BY SectorAssumption, DeflateAssumption, SMT DEF Account

-----------------------------------------------------------------------------
(* The erase.                                                                  *)

\* What one call of s_conditional_erase_next() may have done, whatever cells hold.
Passed(addr, rem) ==
  /\ next_erase_addr' \in Nat /\ erase_remaining' \in Nat
  /\ addr =< next_erase_addr' /\ next_erase_addr' + erase_remaining' = addr + rem
  /\ next_erase_addr' % SECTOR = 0 /\ erase_remaining' % SECTOR = 0
  /\ \A c \in Cells : flash'[c] # flash[c] => addr =< c /\ c < next_erase_addr'

\* It passes whole sectors and changes none but those.
LEMMA EraseMoves ==
  ASSUME NEW addr \in Nat, NEW rem \in Nat, NEW dirty, NEW result,
         addr % SECTOR = 0, rem % SECTOR = 0,
         ConditionalEraseNext(addr, rem, dirty, result)
  PROVE  Passed(addr, rem)
<1>1. CASE next_erase_addr' = addr /\ erase_remaining' = rem /\ flash' = flash
  BY <1>1, SMT DEF Passed
<1>2. CASE rem > 0 /\ SkipBlankSector(addr, rem, result)
  <2>1. rem >= SECTOR /\ SECTOR \in Nat /\ Lesser(rem, SECTOR) = SECTOR
    BY <1>2, MultipleAtLeast, SectorAssumption, SMT DEF Lesser
  <2>2. SECTOR % SECTOR = 0
    BY SectorAssumption, DivMod, MultipleBelow, SMT
  <2>3. (addr + SECTOR) % SECTOR = 0 /\ (rem - SECTOR) % SECTOR = 0
    BY <2>1, <2>2, MultipleSum, MultipleDifference
  <2>4. flash' = flash /\ next_erase_addr' = addr + SECTOR /\ erase_remaining' = rem - SECTOR
    BY <1>2, <2>1 DEF SkipBlankSector, chipVars
  <2> QED BY <2>1, <2>3, <2>4, SMT DEF Passed
<1>3. ASSUME NEW n \in 1..rem, n % SECTOR = 0, flash' = Erased(flash, addr, n),
             next_erase_addr' = addr + n, erase_remaining' = rem - n
      PROVE  Passed(addr, rem)
  <2>1. n \in Nat /\ n =< rem
    OBVIOUS
  <2>2. (addr + n) % SECTOR = 0 /\ (rem - n) % SECTOR = 0
    BY <1>3, <2>1, MultipleSum, MultipleDifference
  <2>3. \A c \in Cells : flash'[c] # flash[c] => addr =< c /\ c < addr + n
    BY <1>3, SMT DEF Erased
  <2> QED BY <1>3, <2>1, <2>2, <2>3, SMT DEF Passed
<1>4. CASE StartNextErase(addr, rem, result)
  BY <1>1, <1>3, <1>4 DEF StartNextErase, chipVars
<1> QED BY <1>1, <1>2, <1>4 DEF ConditionalEraseNext, chipVars

-----------------------------------------------------------------------------
(* The inductive invariant.                                                    *)

Out == Value \cup {GARBAGE}
Unit == {u \in [stream : Streams, at : Nat] : u.at \in 1..Len(u.stream)}
Decompressor == [stream : Streams \cup {<<>>}, next : Nat, pending : Seq(Out), done : BOOLEAN]

\* What the loop works on.
Flow == decompressor \in Decompressor /\ decompressed_data \in Seq(Out) /\ input \in Seq(Unit)

Numbers ==
  /\ total_remaining \in Nat /\ offset \in Nat /\ begin \in Nat /\ announced \in Nat
  /\ next_erase_addr \in Nat /\ erase_remaining \in Nat
  /\ next_erase_addr % SECTOR = 0 /\ erase_remaining % SECTOR = 0

\* The erase ends with the last sector announced, and bounds every write.
Bounded ==
  /\ next_erase_addr + erase_remaining = AlignUp(begin + announced)
  /\ AlignDown(begin) =< next_erase_addr
  /\ begin =< offset /\ (offset = begin \/ offset =< next_erase_addr)
  /\ Account(offset - begin, total_remaining, announced)

LoopIsOpen == pc = "post" => in_progress
LoopIsPost == step # "none" => pc = "post"

DInv == Flow /\ Numbers /\ LoopIsOpen /\ LoopIsPost /\ (in_progress => Bounded)

sessionVars == <<total_remaining, offset, in_progress, next_erase_addr, erase_remaining,
                 begin, announced>>

\* What a step must not do.
InAnnounced == \A c \in Cells : flash'[c] # flash[c] => Announced(c)
EndIsExact == in_progress /\ ~in_progress' => offset - begin = announced
Kept == DInv' /\ InAnnounced /\ EndIsExact

\* The loop goes on in the same request, or the post-process has returned.
Goes == input' \in Seq(Unit) /\ (pc' = pc \/ (pc' = "idle" /\ step' = "none"))

\* What LoopOrReturn and Return leave of the input is still input.
LEMMA LoopGoes == ASSUME DInv, NEW st, LoopOrReturn(st) PROVE Goes
<1>1. <<>> \in Seq(Unit)
  BY SMT
<1> QED BY <1>1 DEF DInv, Flow, LoopOrReturn, Return, Finish, Goes

\* A return leaves none.
LEMMA ReturnGoes == ASSUME NEW result, Return(result) PROVE Goes
<1>1. <<>> \in Seq(Unit)
  BY SMT
<1> QED BY <1>1 DEF Return, Finish, Goes

\* A step that leaves the session and the flash alone.
LEMMA QuietStep ==
  ASSUME DInv, UNCHANGED sessionVars, UNCHANGED flash, Flow', LoopIsOpen', LoopIsPost'
  PROVE  Kept
<1>1. DInv'
  BY DEF DInv, Numbers, Bounded, sessionVars, AlignUp, AlignDown
<1>2. InAnnounced /\ EndIsExact
  BY DEF InAnnounced, EndIsExact, sessionVars
<1> QED BY <1>1, <1>2 DEF Kept

\* A step of the loop that leaves them alone.
LEMMA QuietLoop ==
  ASSUME DInv, UNCHANGED sessionVars, UNCHANGED flash, pc = "post", Goes,
         decompressor' \in Decompressor, decompressed_data' \in Seq(Out)
  PROVE  Kept
BY QuietStep DEF DInv, Flow, Goes, LoopIsOpen, LoopIsPost, sessionVars

\* A step of the loop that erases ahead.
LEMMA EraseLoop ==
  ASSUME DInv, NEW result,
         ConditionalEraseNext(next_erase_addr, erase_remaining, s_dirty_seen, result),
         UNCHANGED <<total_remaining, offset, in_progress, begin, announced>>,
         pc = "post", Goes, UNCHANGED <<decompressor, decompressed_data>>
  PROVE  Kept
<1>1. Numbers /\ in_progress /\ Bounded
  BY DEF DInv, LoopIsOpen
<1>2. Passed(next_erase_addr, erase_remaining)
  BY <1>1, EraseMoves DEF Numbers
<1>3. /\ AlignUp(begin + announced) \in Nat /\ AlignDown(begin) \in Nat
  <2>1. begin \in Nat /\ begin + announced \in Nat
    BY <1>1 DEF Numbers
  <2> QED BY <2>1, AlignUpFacts, AlignDownFacts
<1>4. Numbers'
  BY <1>1, <1>2 DEF Numbers, Passed
<1>5. next_erase_addr =< next_erase_addr'
      /\ next_erase_addr' + erase_remaining' = AlignUp(begin + announced)
      /\ next_erase_addr' =< AlignUp(begin + announced)
  <2>1. next_erase_addr =< next_erase_addr'
        /\ next_erase_addr' + erase_remaining' = AlignUp(begin + announced)
    BY <1>1, <1>2 DEF Passed, Bounded
  <2>2. next_erase_addr' \in Nat /\ erase_remaining' \in Nat
    BY <1>2 DEF Passed
  <2>3. ASSUME NEW x \in Nat, NEW y \in Nat PROVE x =< x + y
    OBVIOUS
  <2>4. next_erase_addr' =< next_erase_addr' + erase_remaining'
    BY <2>2, <2>3, Zenon
  <2> QED BY <2>1, <2>4
<1>6. Bounded'
  <2>1. AlignDown(begin) =< next_erase_addr' /\ (offset = begin \/ offset =< next_erase_addr')
    BY <1>1, <1>3, <1>4, <1>5, SMT DEF Bounded, Numbers
  <2> QED BY <1>1, <1>5, <2>1 DEF Bounded, AlignUp, AlignDown
<1>7. DInv'
  BY <1>1, <1>4, <1>6 DEF DInv, Flow, Goes, LoopIsOpen, LoopIsPost
<1>8. InAnnounced
  <2> SUFFICES ASSUME NEW c \in Cells, flash'[c] # flash[c] PROVE Announced(c)
    BY DEF InAnnounced
  <2>1. next_erase_addr =< c /\ c < next_erase_addr'
    BY <1>2 DEF Passed
  <2>2. AlignDown(begin) =< c /\ c < AlignUp(begin + announced)
    BY <1>1, <1>3, <1>4, <1>5, <2>1, SectorAssumption, SMT DEF Bounded, Numbers, Cells
  <2> QED BY <2>2 DEF Announced, AlignUp, AlignDown
<1>9. EndIsExact
  BY DEF EndIsExact
<1> QED BY <1>7, <1>8, <1>9 DEF Kept

\* A step of the loop that writes: no further than the erase has come.
LEMMA Reach ==
  ASSUME DInv, pc = "post", ErasedTo
  PROVE  /\ Numbers /\ in_progress /\ Bounded /\ Len(decompressed_data) \in Nat
         /\ Target =< AlignUp(begin + announced) /\ Target =< next_erase_addr
         /\ AlignDown(begin) =< offset
<1>1. Numbers /\ in_progress /\ Bounded /\ Len(decompressed_data) \in Nat
  BY SMT DEF DInv, LoopIsOpen, Flow
<1>2. next_erase_addr >= Target /\ Target \in Nat
  BY <1>1, SMT DEF ErasedTo, Target, Numbers
<1>3. next_erase_addr =< AlignUp(begin + announced)
  <2>1. next_erase_addr =< next_erase_addr + erase_remaining
    BY <1>1, SMT DEF Numbers
  <2> QED BY <1>1, <2>1 DEF Bounded
<1>4. AlignUp(begin + announced) \in Nat /\ AlignDown(begin) \in Nat /\ AlignDown(begin) =< begin
  <2>1. begin \in Nat /\ begin + announced \in Nat
    BY <1>1 DEF Numbers
  <2> QED BY <2>1, AlignUpFacts, AlignDownFacts
<1>5. Target =< AlignUp(begin + announced) /\ AlignDown(begin) =< offset
  BY <1>1, <1>2, <1>3, <1>4, SMT DEF Bounded, Numbers
<1> QED BY <1>1, <1>2, <1>5

\* Programming touches nothing but what it is told to.
LEMMA WriteInside ==
  ASSUME DInv, pc = "post", ErasedTo, NEW n \in 0..Len(decompressed_data),
         flash' = WithData(flash, offset, decompressed_data, n),
         UNCHANGED <<begin, announced>>
  PROVE  InAnnounced
<1>1. /\ Numbers /\ Len(decompressed_data) \in Nat
      /\ Target =< AlignUp(begin + announced) /\ AlignDown(begin) =< offset
  BY Reach
<1>2. AlignUp(begin + announced) \in Nat /\ AlignDown(begin) \in Nat
  <2>1. begin \in Nat /\ begin + announced \in Nat
    BY <1>1 DEF Numbers
  <2> QED BY <2>1, AlignUpFacts, AlignDownFacts
<1> SUFFICES ASSUME NEW c \in Cells, flash'[c] # flash[c] PROVE Announced(c)
  BY DEF InAnnounced
<1>3. offset =< c /\ c < offset + n
  BY DEF WithData
<1>4. AlignDown(begin) =< c /\ c < AlignUp(begin + announced)
  BY <1>1, <1>2, <1>3, SectorAssumption, SMT DEF Numbers, Cells, Target
<1> QED BY <1>4 DEF Announced, AlignUp, AlignDown

\* A buffer that is written moves the session on by its length.
LEMMA WriteStep == ASSUME DInv, WriteBuffer PROVE Kept
<1>1. /\ pc = "post" /\ ErasedTo
      /\ flash' = WithData(flash, offset, decompressed_data, Len(decompressed_data))
      /\ total_remaining' = Counted(Len(decompressed_data)) /\ offset' = Target
      /\ decompressed_data' = <<>> /\ LoopOrReturn(status)
      /\ UNCHANGED <<in_progress, next_erase_addr, erase_remaining, begin, announced,
                     decompressor>>
  BY DEF WriteBuffer, eraseVars, histVars, deflHist, DInv, LoopIsPost
<1>2. Goes
  BY <1>1, LoopGoes
<1>3. /\ Numbers /\ in_progress /\ Bounded /\ Len(decompressed_data) \in Nat
      /\ Target =< AlignUp(begin + announced) /\ Target =< next_erase_addr
  BY <1>1, Reach
<1> DEFINE n == Len(decompressed_data)
           d == offset - begin
<1>4. AlignUp(begin + announced) \in Nat /\ AlignUp(begin + announced) =< begin + announced + SECTOR - 1
  <2>1. begin + announced \in Nat
    BY <1>3 DEF Numbers
  <2> QED BY <2>1, AlignUpFacts, AlignUpNear
<1>5. /\ d \in Nat /\ n \in Nat /\ d + n =< announced + SECTOR - 1
      /\ (offset + n) - begin = d + n /\ begin =< offset + n
  BY <1>3, <1>4, SectorAssumption, SMT DEF Bounded, Numbers, Target
<1>6. total_remaining' \in Nat /\ Account(d + n, total_remaining', announced)
  <2>1. total_remaining' = IF n > total_remaining THEN (total_remaining + WRAP) - n
                           ELSE total_remaining - n
    BY <1>1 DEF Counted
  <2>2. Account(d, total_remaining, announced) /\ total_remaining \in Nat /\ announced \in Nat
    BY <1>3 DEF Bounded, Numbers
  <2> HIDE DEF d, n
  <2> QED BY <1>5, <2>1, <2>2, WriteAccount
<1>7. offset' = offset + n /\ offset' \in Nat /\ offset' - begin = d + n
  BY <1>1, <1>3, <1>5, SMT DEF Target, Numbers
<1>8. Numbers'
  BY <1>1, <1>3, <1>6, <1>7 DEF Numbers
<1>9. Bounded'
  <2>1. Account(offset' - begin', total_remaining', announced')
    BY <1>1, <1>6, <1>7
  <2>2. begin' =< offset' /\ offset' =< next_erase_addr'
    BY <1>1, <1>3, <1>5, <1>7 DEF Target
  <2>3. next_erase_addr' + erase_remaining' = AlignUp(begin' + announced')
        /\ AlignDown(begin') =< next_erase_addr'
    BY <1>1, <1>3 DEF Bounded
  <2> QED BY <2>1, <2>2, <2>3 DEF Bounded, AlignUp, AlignDown
<1>10. DInv'
  <2>1. <<>> \in Seq(Out)
    BY SMT
  <2> QED BY <1>1, <1>2, <1>3, <1>8, <1>9, <2>1 DEF DInv, Flow, Goes, LoopIsOpen, LoopIsPost
<1>11. InAnnounced
  BY <1>1, <1>3, WriteInside, SMT
<1>12. EndIsExact
  BY <1>1 DEF EndIsExact
<1> QED BY <1>10, <1>11, <1>12 DEF Kept

\* One that is not may have changed cells of the session.
LEMMA BrokenWriteStep == ASSUME DInv, WriteBufferFails PROVE Kept
<1>1. /\ pc = "post" /\ ErasedTo
      /\ \E n \in 0..Len(decompressed_data) :
           flash' = WithData(flash, offset, decompressed_data, n)
      /\ Return("FAILED_SPI_OP") /\ UNCHANGED sessionVars
      /\ UNCHANGED <<decompressor, decompressed_data>>
  BY DEF WriteBufferFails, stateVars, eraseVars, sessionVars, DInv, LoopIsPost
<1>2. Goes
  BY <1>1, ReturnGoes
<1>3. DInv'
  BY <1>1, <1>2 DEF DInv, Flow, Goes, LoopIsOpen, LoopIsPost, Numbers, Bounded, sessionVars,
                    AlignUp, AlignDown
<1>4. InAnnounced
  BY <1>1, WriteInside DEF sessionVars
<1>5. EndIsExact
  BY <1>1 DEF EndIsExact, sessionVars
<1> QED BY <1>3, <1>4, <1>5 DEF Kept

-----------------------------------------------------------------------------
(* The decompressor.                                                           *)

\* A unit is taken: what it inflates to waits in the decompressor.
LEMMA TakeStep == ASSUME DInv, TakeUnit PROVE Kept
<1>1. /\ pc = "post" /\ UNCHANGED sessionVars /\ UNCHANGED flash
      /\ input # <<>> /\ input' = Tail(input) /\ UNCHANGED <<pc, decompressed_data>>
  BY DEF TakeUnit, Inflating, stateVars, eraseVars, chipVars, histVars, sessionVars, DInv, LoopIsPost
<1>2. input \in Seq(Unit) /\ decompressed_data \in Seq(Out)
  BY DEF DInv, Flow
<1>3. Head(input) \in Unit /\ Tail(input) \in Seq(Unit)
  BY <1>1, <1>2, SMT
<1> DEFINE u == Head(input)
           out == u.stream[u.at]
           pend == IF Expected(u) THEN out ELSE [k \in DOMAIN out |-> GARBAGE]
<1>4. u.stream \in Streams /\ u.at \in Nat /\ u.at \in 1..Len(u.stream)
  BY <1>3, SMT DEF Unit
<1>5. out \in Seq(Value)
  <2>1. u.stream \in Seq(Seq(Value))
    BY <1>4, DeflateAssumption
  <2> HIDE DEF u
  <2> QED BY <1>4, <2>1, SMT
<1>6. pend \in Seq(Out)
  <2> HIDE DEF out, u
  <2>1. out \in Seq(Out)
    BY <1>5, SMT DEF Out
  <2>2. DOMAIN out = 1..Len(out) /\ Len(out) \in Nat
    BY <1>5, SMT
  <2>3. [k \in 1..Len(out) |-> GARBAGE] \in Seq(Out)
    BY <2>2, SMT DEF Out
  <2> QED BY <2>1, <2>2, <2>3 DEF pend
<1>7. decompressor' = [stream |-> u.stream, next |-> u.at + 1, pending |-> pend,
                       done |-> u.at = Len(u.stream)]
  BY DEF TakeUnit
<1>8. decompressor' \in Decompressor
  <2> HIDE DEF pend, u
  <2>1. u.at + 1 \in Nat /\ (u.at = Len(u.stream)) \in BOOLEAN
    BY <1>4, SMT
  <2> QED BY <1>4, <1>6, <1>7, <2>1, SMT DEF Decompressor
<1> QED BY <1>1, <1>2, <1>3, <1>8, QuietLoop DEF Goes

\* Cells go from the decompressor to the buffer.
LEMMA HandOutStep == ASSUME DInv, HandOut PROVE Kept
<1>1. /\ pc = "post" /\ UNCHANGED sessionVars /\ UNCHANGED flash /\ UNCHANGED <<pc, input>>
      /\ Given > 0
      /\ decompressed_data' = decompressed_data \o SubSeq(decompressor.pending, 1, Given)
      /\ decompressor' = [decompressor EXCEPT
                            !.pending = SubSeq(@, Given + 1, Len(@))]
  BY DEF HandOut, Inflating, stateVars, eraseVars, chipVars, histVars, sessionVars, DInv, LoopIsPost
<1>2. decompressor \in Decompressor /\ decompressed_data \in Seq(Out) /\ input \in Seq(Unit)
  BY DEF DInv, Flow
<1>3. decompressor.pending \in Seq(Out)
  BY <1>2 DEF Decompressor
<1>4. Given \in Nat /\ Given =< Len(decompressor.pending) /\ Len(decompressor.pending) \in Nat
  BY <1>1, <1>2, <1>3, DeflateAssumption, SMT DEF Given, Lesser, Room
<1> HIDE DEF Given
<1>5. SubSeq(decompressor.pending, 1, Given) \in Seq(Out)
      /\ SubSeq(decompressor.pending, Given + 1, Len(decompressor.pending)) \in Seq(Out)
  <2> DEFINE p == decompressor.pending
  <2>1. p \in Seq(Out) /\ Given =< Len(p)
    BY <1>3, <1>4
  <2> HIDE DEF p
  <2>2. SubSeq(p, 1, Given) \in Seq(Out) /\ SubSeq(p, Given + 1, Len(p)) \in Seq(Out)
    BY <1>4, <2>1, SMT
  <2> QED BY <2>2 DEF p
<1>6. decompressed_data' \in Seq(Out)
  BY <1>1, <1>2, <1>5, SMT
<1>7. decompressor' \in Decompressor
  <2> DEFINE rest == SubSeq(decompressor.pending, Given + 1, Len(decompressor.pending))
  <2>1. decompressor' = [decompressor EXCEPT !.pending = rest] /\ rest \in Seq(Out)
    BY <1>1, <1>5
  <2> HIDE DEF rest
  <2> QED BY <1>2, <2>1, SMT DEF Decompressor
<1> QED BY <1>1, <1>2, <1>6, <1>7, QuietLoop DEF Goes

\* miniz returns and the loop decides how to go on.
LEMMA TinflStep == ASSUME DInv, TinflReturns PROVE Kept
<1>1. /\ pc = "post" /\ UNCHANGED sessionVars /\ UNCHANGED flash
      /\ UNCHANGED <<decompressor, decompressed_data>>
  BY DEF TinflReturns, Inflating, stateVars, eraseVars, chipVars, histVars, sessionVars, DInv,
         LoopIsPost
<1>2. Goes
  <2>1. PICK st : IF BufferIsDue(st) THEN UNCHANGED <<pc, input>> ELSE LoopOrReturn(st)
    BY DEF TinflReturns
  <2> QED BY <2>1, LoopGoes DEF Goes, DInv, Flow
<1> QED BY <1>1, <1>2, QuietLoop DEF DInv, Flow

-----------------------------------------------------------------------------
(* Requests.                                                                   *)

\* A part of a stream is a sequence of units.
LEMMA CutIsUnits ==
  ASSUME NEW s \in Streams, NEW n \in 1..MAX_UNITS, NEW i \in 1..(Len(s) - n + 1)
  PROVE  Cut(s, i, i + n - 1) \in Seq(Unit)
<1>1. Len(s) \in Nat
  BY DeflateAssumption, SMT
<1>2. n \in Nat /\ i \in Nat /\ i >= 1 /\ i + n - 1 =< Len(s) /\ (i + n - 1) - i + 1 = n
  BY <1>1, SMT
<1>3. ASSUME NEW k \in 1..n PROVE [stream |-> s, at |-> i + k - 1] \in Unit
  <2>1. i + k - 1 \in Nat /\ i + k - 1 \in 1..Len(s)
    BY <1>1, <1>2, SMT
  <2> QED BY <2>1, SMT DEF Unit
<1> DEFINE f == [k \in 1..n |-> [stream |-> s, at |-> i + k - 1]]
<1>4. f \in [1..n -> Unit]
  BY <1>3
<1> HIDE DEF f
<1>5. f \in Seq(Unit)
  BY <1>2, <1>4, SMT
<1>6. Cut(s, i, i + n - 1) = f
  BY <1>2, Zenon DEF Cut, f
<1> QED BY <1>5, <1>6

\* The requests there are.
LEMMA Forms ==
  ASSUME NEW r \in DeflRequests
  PROVE  \/ \E f \in {"none", "size"}, o \in Openings :
              r = DeflBegin(f, o.start, o.size, o.units)
         \/ r.cmd = "FLASH_DEFL_DATA" /\ r.data \in Seq(Unit)
         \/ \E f \in {"none", "size", "direction"} : r = DeflEnd(f) \/ r = OtherCommand(f)
<1> DEFINE begins == {DeflBegin(f, o.start, o.size, o.units) : f \in {"none", "size"},
                                                               o \in Openings}
           empty == {DeflDataOf(f, q, <<>>) : f \in {"none", "short", "checksum"}, q \in {0, 1}}
           data == UNION {{DeflDataOf("none", q, Cut(s, i, i + n - 1)) :
                             q \in {0, 1}, i \in 1..(Len(s) - n + 1)} :
                           s \in Streams, n \in 1..MAX_UNITS}
           ends == {DeflEnd(f) : f \in {"none", "size"}}
           others == {OtherCommand(f) : f \in {"none", "direction"}}
<1>1. r \in begins \cup empty \cup data \cup ends \cup others
  BY DEF DeflRequests
<1>2. ASSUME NEW f, NEW q, NEW d \in Seq(Unit), r = DeflDataOf(f, q, d)
      PROVE  r.cmd = "FLASH_DEFL_DATA" /\ r.data \in Seq(Unit)
  BY <1>2 DEF DeflDataOf
<1>3. CASE r \in empty
  <2>1. PICK f \in {"none", "short", "checksum"}, q \in {0, 1} : r = DeflDataOf(f, q, <<>>)
    BY <1>3
  <2>2. <<>> \in Seq(Unit)
    BY SMT
  <2> QED BY <1>2, <2>1, <2>2, Zenon
<1>4. CASE r \in data
  <2>1. PICK s \in Streams, n \in 1..MAX_UNITS :
             r \in {DeflDataOf("none", q, Cut(s, i, i + n - 1)) :
                      q \in {0, 1}, i \in 1..(Len(s) - n + 1)}
    BY <1>4
  <2>2. PICK q \in {0, 1}, i \in 1..(Len(s) - n + 1) :
             r = DeflDataOf("none", q, Cut(s, i, i + n - 1))
    BY <2>1
  <2>3. Cut(s, i, i + n - 1) \in Seq(Unit)
    BY CutIsUnits
  <2> QED BY <1>2, <2>2, <2>3, Zenon
<1>5. CASE r \in begins
  BY <1>5
<1>6. CASE r \in ends \cup others
  BY <1>6
<1> HIDE DEF begins, empty, data, ends, others
<1> QED BY <1>1, <1>3, <1>4, <1>5, <1>6

\* A request that leaves the session as it is.
LEMMA QuietRequest ==
  ASSUME DInv, pc = "idle", Keep, UNCHANGED deflVars, pc' = "idle"
  PROVE  Kept
BY QuietStep DEF Keep, stateVars, eraseVars, chipVars, histVars, deflVars, loopVars, deflHist,
       sessionVars, DInv, Flow, LoopIsOpen, LoopIsPost

\* FLASH_DEFL_BEGIN sets out what the session may touch.
LEMMA DeflBeginStep ==
  ASSUME DInv, pc = "idle", NEW r \in DeflRequests, FlashDeflBegin(r)
  PROVE  Kept
<1>1. PICK f \in {"none", "size"}, o \in Openings :
           r = DeflBegin(f, o.start, o.size, o.units)
  <2>1. r.cmd = "FLASH_DEFL_BEGIN"
    BY DEF FlashDeflBegin
  <2> QED BY <2>1, Forms, SMT DEF DeflEnd, OtherCommand
<1>2. r.flaw = f /\ r.start = o.start /\ r.size = o.size
  BY <1>1 DEF DeflBegin
<1> DEFINE b == As(r, "FLASH_BEGIN")
<1>3. b.flaw = f /\ b.start = o.start /\ b.size = o.size
  BY <1>1, SMT DEF DeflBegin, As
<1>4. FlashBegin(b)
  BY DEF FlashDeflBegin
<1> HIDE DEF b
<1>5. CASE f = "size"
  BY <1>2, <1>3, <1>4, <1>5, QuietRequest DEF FlashDeflBegin, FlashBegin, Respond
<1>6. CASE f # "size"
  <2> DEFINE addr == AlignDown(o.start)
             rem == EraseSize(o.start, o.size)
  <2>1. o.start \in Nat /\ o.size \in Nat /\ o.start + o.size \in Nat
    BY DeflateAssumption, SMT
  <2>2. /\ addr \in Nat /\ rem \in Nat /\ addr % SECTOR = 0 /\ rem % SECTOR = 0
        /\ addr + rem = AlignUp(o.start + o.size)
    BY <2>1, AlignDownFacts, EraseSizeFacts
  <2> HIDE DEF addr, rem
  <2>3. PICK result : ConditionalEraseNext(addr, rem, FALSE, result) /\ Respond(result)
    BY <1>3, <1>4, <1>6 DEF FlashBegin, addr, rem
  <2>4. Passed(addr, rem)
    BY <2>2, <2>3, EraseMoves
  <2>5. /\ total_remaining' = o.size /\ offset' = o.start /\ in_progress' = TRUE
        /\ begin' = o.start /\ announced' = o.size /\ pc' = "idle"
        /\ decompressor' = Fresh /\ UNCHANGED <<decompressed_data, input, step>>
    BY <1>2, <1>3, <1>4, <1>6, <2>3 DEF FlashDeflBegin, FlashBegin, Respond, loopVars
  <2>6. Numbers'
    BY <2>1, <2>4, <2>5 DEF Numbers, Passed
  <2>7. Bounded'
    <3>1. Account(offset' - begin', total_remaining', announced')
      BY <2>1, <2>5, SMT DEF Account
    <3>2. next_erase_addr' + erase_remaining' = AlignUp(begin' + announced')
          /\ AlignDown(begin') =< next_erase_addr'
      BY <2>2, <2>4, <2>5 DEF Passed, addr
    <3> QED BY <2>1, <2>5, <3>1, <3>2 DEF Bounded, AlignUp, AlignDown
  <2>8. Flow'
    <3>1. <<>> \in Seq(Out) /\ 1 \in Nat
      BY SMT
    <3>2. decompressor' \in Decompressor
      BY <2>5, <3>1, SMT DEF Fresh, Decompressor
    <3> QED BY <2>5, <3>2 DEF Flow, DInv
  <2>9. DInv'
    BY <2>5, <2>6, <2>7, <2>8 DEF DInv, LoopIsOpen, LoopIsPost
  <2>10. InAnnounced
    <3> SUFFICES ASSUME NEW c \in Cells, flash'[c] # flash[c] PROVE Announced(c)
      BY DEF InAnnounced
    <3>1. addr =< c /\ c < next_erase_addr'
      BY <2>4 DEF Passed
    <3>2. next_erase_addr' \in Nat /\ erase_remaining' \in Nat
          /\ next_erase_addr' + erase_remaining' = AlignUp(o.start + o.size)
      BY <2>2, <2>4 DEF Passed
    <3>3. AlignUp(o.start + o.size) \in Nat
      BY <2>1, AlignUpFacts
    <3>4. c < AlignUp(o.start + o.size)
      BY <3>1, <3>2, <3>3, SectorAssumption, SMT DEF Cells
    <3> QED BY <2>5, <3>1, <3>4 DEF Announced, addr, AlignUp, AlignDown
  <2>11. EndIsExact
    BY <2>5 DEF EndIsExact
  <2> QED BY <2>9, <2>10, <2>11 DEF Kept
<1> QED BY <1>5, <1>6

\* FLASH_DEFL_DATA sets the loop going in an open session only.
LEMMA DeflDataStep ==
  ASSUME DInv, pc = "idle", NEW r \in DeflRequests, FlashDeflData(r)
  PROVE  Kept
<1>1. CASE DeflDataResult(r) # "SUCCESS"
  BY <1>1, QuietRequest DEF FlashDeflData, Respond
<1>2. CASE DeflDataResult(r) = "SUCCESS"
  <2>1. r.data \in Seq(Unit)
    <3>1. r.cmd = "FLASH_DEFL_DATA"
      BY DEF FlashDeflData, Executes
    <3>2. ASSUME NEW f \in {"none", "size"}, NEW o \in Openings,
                 r = DeflBegin(f, o.start, o.size, o.units)
          PROVE  FALSE
      BY <3>1, <3>2, SMT DEF DeflBegin
    <3>3. ~(\E f \in {"none", "size", "direction"} : r = DeflEnd(f) \/ r = OtherCommand(f))
      BY <3>1 DEF DeflEnd, OtherCommand
    <3> QED BY <3>2, <3>3, Forms
  <2>2. in_progress
    <3>1. CASE r.flaw = "short"
      BY <1>2, <3>1, SMT DEF DeflDataResult
    <3>2. CASE r.flaw # "short" /\ ~in_progress
      BY <1>2, <3>2, SMT DEF DeflDataResult
    <3> QED BY <3>1, <3>2
  <2>3. /\ pc' = "post" /\ input' = r.data /\ ResetBuffer(r)
        /\ Keep /\ UNCHANGED <<decompressor, announced>>
    BY <1>2 DEF FlashDeflData
  <2>4. decompressed_data' \in Seq(Out)
    <3>1. <<>> \in Seq(Out)
      BY SMT
    <3> QED BY <2>3, <3>1 DEF ResetBuffer, DInv, Flow
  <2> QED BY <2>1, <2>2, <2>3, <2>4, QuietStep
       DEF Keep, stateVars, eraseVars, chipVars, histVars, sessionVars, DInv, Flow,
           LoopIsOpen, LoopIsPost
<1> QED BY <1>1, <1>2

\* FLASH_DEFL_END is accepted when nothing is left.
LEMMA DeflEndStep ==
  ASSUME DInv, pc = "idle", NEW r \in DeflRequests, FlashDeflEnd(r)
  PROVE  Kept
<1> DEFINE e == As(r, "FLASH_END")
<1>1. FlashEnd(e) /\ r.cmd = "FLASH_DEFL_END"
  BY DEF FlashDeflEnd
<1>2. e.flaw = r.flaw
  <2>1. PICK f : r = DeflEnd(f)
    BY <1>1, Forms, SMT DEF DeflBegin, OtherCommand
  <2> QED BY <2>1, SMT DEF DeflEnd, As
<1> HIDE DEF e
<1>3. EndResult(e) = EndResult(r)
  BY <1>2, Zenon DEF EndResult
<1>4. CASE EndResult(r) # "SUCCESS"
  BY <1>1, <1>3, <1>4, QuietRequest DEF FlashEnd, FlashDeflEnd, Respond
<1>5. CASE EndResult(r) = "SUCCESS"
  <2>1. in_progress => total_remaining = 0
    <3>1. CASE r.flaw = "size" \/ (in_progress /\ total_remaining # 0)
      BY <1>5, <3>1, SMT DEF EndResult
    <3> QED BY <3>1
  <2>2. /\ total_remaining' = 0 /\ offset' = 0 /\ in_progress' = FALSE
        /\ next_erase_addr' = 0 /\ erase_remaining' = 0 /\ begin' = 0 /\ pc' = "idle"
        /\ flash' = flash /\ announced' = announced
        /\ decompressor' = Fresh /\ UNCHANGED <<decompressed_data, input, step>>
    BY <1>1, <1>3, <1>5 DEF FlashEnd, FlashDeflEnd, Respond, chipVars, loopVars, deflHist
  <2>3. DInv'
    <3>1. 0 % SECTOR = 0 /\ <<>> \in Seq(Out) /\ 1 \in Nat
      BY SectorAssumption, SMT
    <3>2. decompressor' \in Decompressor
      BY <2>2, <3>1, SMT DEF Fresh, Decompressor
    <3> QED BY <2>2, <3>1, <3>2 DEF DInv, Flow, Numbers, LoopIsOpen, LoopIsPost
  <2>4. EndIsExact
    <3> SUFFICES ASSUME in_progress PROVE offset - begin = announced
      BY DEF EndIsExact
    <3>1. Numbers /\ Bounded /\ total_remaining = 0
      BY <2>1 DEF DInv
    <3>2. AlignUp(begin + announced) \in Nat
          /\ AlignUp(begin + announced) =< begin + announced + SECTOR - 1
      <4>1. begin + announced \in Nat
        BY <3>1 DEF Numbers
      <4> QED BY <4>1, AlignUpFacts, AlignUpNear
    <3>3. offset \in Nat /\ begin \in Nat /\ announced \in Nat
          /\ next_erase_addr \in Nat /\ erase_remaining \in Nat
      BY <3>1 DEF Numbers
    <3>4. offset - begin \in Nat /\ offset - begin =< announced + SECTOR - 1
      BY <3>1, <3>2, <3>3, SectorAssumption, SMT DEF Bounded
    <3>5. Account(offset - begin, 0, announced)
      BY <3>1 DEF Bounded
    <3> QED BY <3>3, <3>4, <3>5, NothingLeft
  <2>5. InAnnounced
    BY <2>2 DEF InAnnounced
  <2> QED BY <2>3, <2>4, <2>5 DEF Kept
<1> QED BY <1>4, <1>5

\* Any request.
LEMMA RequestStep ==
  ASSUME DInv, NEW r \in DeflRequests, HandleDefl(r)
  PROVE  Kept
<1>1. pc = "idle"
  BY DEF HandleDefl
<1>2. CASE (RefuseFrame(r) \/ ReportError(r) \/ OtherHandler(r)) /\ UNCHANGED deflVars
  BY <1>1, <1>2, QuietRequest DEF RefuseFrame, ReportError, OtherHandler, Respond
<1> QED BY <1>1, <1>2, DeflBeginStep, DeflDataStep, DeflEndStep DEF HandleDefl

-----------------------------------------------------------------------------
(* The theorems.                                                               *)

\* The post-process.
LEMMA LoopStep == ASSUME DInv, DeflPostProcess PROVE Kept
<1>1. CASE EmptyBlock
  <2>1. /\ pc = "post" /\ UNCHANGED sessionVars /\ UNCHANGED flash /\ Return("SUCCESS")
        /\ UNCHANGED <<decompressor, decompressed_data>>
    BY <1>1 DEF EmptyBlock, stateVars, eraseVars, chipVars, histVars, deflHist, sessionVars
  <2> QED BY <2>1, ReturnGoes, QuietLoop DEF DInv, Flow
<1>2. CASE EraseAhead
  <2>1. PICK result \in Result :
          /\ ConditionalEraseNext(next_erase_addr, erase_remaining, s_dirty_seen, result)
          /\ UNCHANGED <<pc, input>> \/ Return(result)
    BY <1>2 DEF EraseAhead
  <2>2. Goes
    BY <2>1, ReturnGoes DEF Goes, DInv, Flow
  <2>3. /\ pc = "post"
        /\ UNCHANGED <<total_remaining, offset, in_progress, begin, announced,
                       decompressor, decompressed_data>>
    BY <1>2 DEF EraseAhead, stateVars, histVars, DInv, LoopIsPost
  <2> QED BY <2>1, <2>2, <2>3, EraseLoop
<1>3. CASE EnsureErasedTo
  <2>1. PICK result \in Result :
          /\ ConditionalEraseNext(next_erase_addr, erase_remaining, s_dirty_seen, result)
          /\ UNCHANGED <<pc, input>> \/ Return(result)
    BY <1>3 DEF EnsureErasedTo
  <2>2. Goes
    BY <2>1, ReturnGoes DEF Goes, DInv, Flow
  <2>3. /\ pc = "post"
        /\ UNCHANGED <<total_remaining, offset, in_progress, begin, announced,
                       decompressor, decompressed_data>>
    BY <1>3 DEF EnsureErasedTo, stateVars, histVars, DInv, LoopIsPost
  <2> QED BY <2>1, <2>2, <2>3, EraseLoop
<1> QED BY <1>1, <1>2, <1>3, TakeStep, HandOutStep, TinflStep, WriteStep, BrokenWriteStep
     DEF DeflPostProcess

\* Before the first command nothing is announced.
LEMMA InitDInv == DeflInit => DInv
<1> SUFFICES ASSUME DeflInit PROVE DInv
  OBVIOUS
<1>1. 0 % SECTOR = 0 /\ <<>> \in Seq(Out) /\ <<>> \in Seq(Unit) /\ 1 \in Nat
  BY SectorAssumption, SMT
<1>2. decompressor \in Decompressor
  BY <1>1, SMT DEF DeflInit, Fresh, Decompressor
<1> QED BY <1>1, <1>2 DEF DeflInit, Init, DInv, Flow, Numbers, LoopIsOpen, LoopIsPost

\* Every step keeps to what was announced.
LEMMA NextKept == ASSUME DInv, [DeflNext]_allVars PROVE Kept
<1>1. CASE ChipReady /\ UNCHANGED deflVars
  BY <1>1, QuietStep DEF ChipReady, stateVars, eraseVars, histVars, deflVars, loopVars, deflHist,
     sessionVars, DInv, Flow, LoopIsOpen, LoopIsPost
<1>2. CASE UNCHANGED allVars
  BY <1>2, QuietStep DEF allVars, vars, stateVars, eraseVars, chipVars, histVars, deflVars, loopVars,
     deflHist, sessionVars, DInv, Flow, LoopIsOpen, LoopIsPost
<1> QED BY <1>1, <1>2, RequestStep, LoopStep DEF DeflNext

\* A compressed session that command_handler.c lets end has written exactly what it
\* announced, although total_remaining may wrap on the way.
THEOREM EndIsEarned == DeflSpec => EndMeansExact
<1>1. DeflInit => DInv
  BY InitDInv
<1>2. DInv /\ [DeflNext]_allVars => DInv'
  BY NextKept DEF Kept
<1>3. DInv /\ [DeflNext]_allVars
        => [in_progress /\ ~in_progress' => offset - begin = announced]_allVars
  BY NextKept DEF Kept, EndIsExact
<1> QED BY <1>1, <1>2, <1>3, PTL DEF DeflSpec, EndMeansExact

\* s_flash_defl_data_post_process() never erases nor programs a cell outside the
\* sectors announced, whatever the stream inflates to.
THEOREM StreamIsConfined == DeflSpec => StaysAnnounced
<1>1. DeflInit => DInv
  BY InitDInv
<1>2. DInv /\ [DeflNext]_allVars => DInv'
  BY NextKept DEF Kept
<1>3. DInv /\ [DeflNext]_allVars
        => [\A c \in Cells : flash'[c] # flash[c] => Announced(c)]_allVars
  BY NextKept DEF Kept, InAnnounced
<1> QED BY <1>1, <1>2, <1>3, PTL DEF DeflSpec, StaysAnnounced

-----------------------------------------------------------------------------
(* Induction over data.  The library's induction theorems range over           *)
(* operators; the least element of a set of numbers does the same work.        *)

NatOrder == {p \in Nat \X Nat : p[1] < p[2]}

\* A set of natural numbers that is not empty has a least element.
LEMMA LeastElement ==
  ASSUME NEW T, T \subseteq Nat, T # {}
  PROVE  \E m \in T : \A k \in T : m =< k
<1>1. IsWellFoundedOn(NatOrder, Nat)
  <2>1. OpToRel(<, Nat) = NatOrder
    BY Zenon DEF OpToRel, NatOrder
  <2> QED BY <2>1, NatLessThanWellFounded, Zenon
<1>2. PICK m \in T : \A k \in T : <<k, m>> \notin NatOrder
  BY <1>1, WFMin
<1>3. ASSUME NEW k \in T PROVE m =< k
  <2>1. <<k, m>> \notin NatOrder /\ k \in Nat /\ m \in Nat
    BY <1>2
  <2> QED BY <2>1 DEF NatOrder
<1> QED BY <1>3

\* A set that holds 0, and with each number the next one, holds them all.
LEMMA SetInduction ==
  ASSUME NEW T, 0 \in T, \A n \in Nat : n \in T => n + 1 \in T
  PROVE  Nat \subseteq T
<1> DEFINE U == Nat \ T
<1> SUFFICES ASSUME U # {} PROVE FALSE
  OBVIOUS
<1>1. PICK m \in U : \A k \in U : m =< k
  BY LeastElement
<1>2. m # 0 /\ m \in Nat /\ m - 1 \in Nat
  OBVIOUS
<1>3. m - 1 \notin U
  BY <1>1, <1>2
<1> QED BY <1>2, <1>3

\* The first n sequences of s joined, for every n up to the bound.
Joined(s, g, n) == g = [i \in 1..n |-> IF i = 1 THEN s[i] ELSE g[i - 1] \o s[i]]

\* Such a function exists, so the recursive one inside FlattenSeq is one.
LEMMA JoinExists ==
  ASSUME NEW s, NEW n \in Nat
  PROVE  \E g : Joined(s, g, n)
<1> DEFINE T == {k \in Nat : \E g : Joined(s, g, k)}
<1>1. 0 \in T
  <2>1. Joined(s, [i \in 1..0 |-> 0], 0)
    BY DEF Joined
  <2> QED BY <2>1
<1>2. ASSUME NEW k \in Nat, k \in T PROVE k + 1 \in T
  <2>1. PICK g : Joined(s, g, k)
    BY <1>2
  <2> DEFINE h == [i \in 1..(k + 1) |-> IF i = 1 THEN s[i] ELSE g[i - 1] \o s[i]]
  <2>2. ASSUME NEW i \in 1..k PROVE h[i] = g[i]
    <3>1. g = [j \in 1..k |-> IF j = 1 THEN s[j] ELSE g[j - 1] \o s[j]]
      BY <2>1 DEF Joined
    <3>2. g[i] = IF i = 1 THEN s[i] ELSE g[i - 1] \o s[i]
      BY <3>1, Zenon
    <3>3. i \in 1..(k + 1)
      OBVIOUS
    <3>4. h[i] = IF i = 1 THEN s[i] ELSE g[i - 1] \o s[i]
      BY <3>3, Zenon
    <3> QED BY <3>2, <3>4
  <2>3. ASSUME NEW i \in 1..(k + 1), i # 1 PROVE h[i - 1] = g[i - 1]
    <3>1. i - 1 \in 1..k
      BY <2>3
    <3> QED BY <3>1, <2>2
  <2>4. Joined(s, h, k + 1)
    BY <2>3 DEF Joined
  <2> QED BY <2>4
<1>3. Nat \subseteq T
  BY <1>1, <1>2, SetInduction
<1> QED BY <1>3

\* What the library computes is such a sequence of partial results.
LEMMA FlattenIsJoined ==
  ASSUME NEW s, Len(s) \in Nat \ {0}
  PROVE  \E g : Joined(s, g, Len(s)) /\ FlattenSeq(s) = g[Len(s)]
<1>1. \E g : Joined(s, g, Len(s))
  BY JoinExists
<1> QED BY <1>1 DEF FlattenSeq, Joined

\* What FlattenSeq computes of k sequences is what it computes of the first k - 1,
\* and the last.
LEMMA FlattenNext ==
  ASSUME NEW V, NEW s \in Seq(Seq(V)), NEW k \in 1..Len(s)
  PROVE  FlattenSeq(SubSeq(s, 1, k)) = FlattenSeq(SubSeq(s, 1, k - 1)) \o s[k]
<1> DEFINE a == SubSeq(s, 1, k)
           b == SubSeq(s, 1, k - 1)
<1>1. Len(s) \in Nat /\ k \in Nat /\ k >= 1 /\ k =< Len(s) /\ k - 1 \in Nat
  BY SMT
<1>2. \A i \in 1..Len(s) : s[i] \in Seq(V)
  BY SMT
<1>3. Len(a) = k /\ \A i \in 1..k : a[i] = s[i]
  BY <1>1, SMT
<1>4. Len(b) = k - 1 /\ \A i \in 1..(k - 1) : b[i] = s[i]
  BY <1>1, SMT
<1> HIDE DEF a, b
<1>5. PICK g : Joined(a, g, k) /\ FlattenSeq(a) = g[k]
  BY <1>1, <1>3, FlattenIsJoined
<1>6. \A i \in 1..k : g[i] = IF i = 1 THEN s[i] ELSE g[i - 1] \o s[i]
  <2>1. g = [i \in 1..k |-> IF i = 1 THEN a[i] ELSE g[i - 1] \o a[i]]
    BY <1>5 DEF Joined
  <2>2. \A i \in 1..k : g[i] = IF i = 1 THEN a[i] ELSE g[i - 1] \o a[i]
    BY <2>1, Zenon
  <2> QED BY <1>3, <2>2
<1>7. CASE k = 1
  <2>1. g[k] = s[k]
    BY <1>1, <1>6, <1>7
  <2>2. Len(b) = 0 /\ b = <<>>
    BY <1>1, <1>7, SubSeqEmpty, EmptySeq, SMT DEF b
  <2>3. FlattenSeq(b) = <<>>
    BY <2>2 DEF FlattenSeq
  <2>4. <<>> \o s[k] = s[k]
    BY <1>2, ConcatEmptySeq
  <2> QED BY <1>5, <2>1, <2>3, <2>4 DEF a, b
<1>8. CASE k # 1
  <2>0. k - 1 \in Nat \ {0}
    BY <1>1, <1>8, SMT
  <2>1. PICK h : Joined(b, h, k - 1) /\ FlattenSeq(b) = h[k - 1]
    BY <1>4, <2>0, FlattenIsJoined
  <2>2. \A i \in 1..(k - 1) : h[i] = IF i = 1 THEN s[i] ELSE h[i - 1] \o s[i]
    <3>1. h = [i \in 1..(k - 1) |-> IF i = 1 THEN b[i] ELSE h[i - 1] \o b[i]]
      BY <2>1 DEF Joined
    <3>2. \A i \in 1..(k - 1) : h[i] = IF i = 1 THEN b[i] ELSE h[i - 1] \o b[i]
      BY <3>1, Zenon
    <3> QED BY <1>4, <3>2
  <2> DEFINE T == {i \in Nat : i \in 1..(k - 1) => g[i] = h[i]}
  <2>3. 0 \in T
    BY SMT
  <2>4. ASSUME NEW i \in Nat, i \in T PROVE i + 1 \in T
    <3> SUFFICES ASSUME i + 1 \in 1..(k - 1) PROVE g[i + 1] = h[i + 1]
      BY SMT
    <3>1. i + 1 \in 1..k /\ (i + 1) - 1 = i
      BY <1>1, SMT
    <3>2. CASE i = 0
      BY <1>6, <2>2, <3>1, <3>2
    <3>3. CASE i # 0
      <4>1. i \in 1..(k - 1) /\ i + 1 # 1
        BY <1>1, <3>3, SMT
      <4> QED BY <1>6, <2>2, <2>4, <3>1, <4>1
    <3> QED BY <3>2, <3>3
  <2>5. Nat \subseteq T
    BY <2>3, <2>4, SetInduction
  <2>6. k - 1 \in T /\ k - 1 \in 1..(k - 1) /\ k \in 1..k
    BY <1>1, <2>0, <2>5, SMT
  <2>7. g[k] = h[k - 1] \o s[k]
    BY <1>6, <1>8, <2>6
  <2> QED BY <1>5, <2>1, <2>7 DEF a, b
<1> QED BY <1>7, <1>8

-----------------------------------------------------------------------------
(* Nothing is lost.                                                            *)

Held == Cell \cup Out

\* Ahead of the write position a cell is blank, or an earlier attempt to write the
\* buffer left there what belongs there.
Ahead ==
  \A c \in Cells : offset =< c /\ c < next_erase_addr =>
    \/ flash[c] = BLANK
    \/ /\ decompressor # Fresh /\ c - offset < Len(decompressed_data)
       /\ flash[c] = decompressed_data[c - offset + 1]

\* What is left of a request goes on where the decompressor is, unit by unit.
Follows ==
  /\ input # <<>> => decompressor.done \/ Expected(input[1])
  /\ \A k \in 1..Len(input) :
       input[k] = [stream |-> input[1].stream, at |-> input[1].at + k - 1]

\* Nothing was lost; before the first unit nothing is written and nothing buffered.
Taken ==
  IF decompressor = Fresh
  THEN offset = begin /\ (pc = "post" => decompressed_data = <<>>)
  ELSE /\ decompressor.next > 1
       /\ Written \o decompressed_data \o decompressor.pending = Inflated

\* The sectors of a session are on the chip.
OnChip == in_progress => AlignUp(begin + announced) =< CELLS

Straight == in_progress /\ clean => Taken /\ Ahead /\ (pc = "post" => Follows)

LInv == flash \in [Cells -> Held] /\ OnChip /\ Straight

\* Sectors that begin on the chip end on it.
LEMMA EndsOnChip ==
  ASSUME NEW a \in Nat, a =< CELLS
  PROVE  AlignUp(a) =< CELLS
<1>1. AlignUp(a) \in Nat /\ AlignUp(a) % SECTOR = 0 /\ AlignUp(a) =< a + SECTOR - 1
  BY AlignUpFacts, AlignUpNear
<1>2. CELLS \in Nat /\ CELLS % SECTOR = 0 /\ SECTOR \in Nat /\ SECTOR > 0
  BY SectorAssumption, ChipAssumption
<1> DEFINE e == AlignUp(a)
<1> HIDE DEF e
<1> SUFFICES ASSUME e > CELLS PROVE FALSE
  BY <1>1, <1>2, SMT DEF e
<1>3. e - CELLS \in Nat /\ e - CELLS > 0 /\ CELLS =< e
  BY <1>1, <1>2, SMT DEF e
<1>4. (e - CELLS) % SECTOR = 0
  BY <1>1, <1>2, <1>3, MultipleDifference DEF e
<1>5. e - CELLS >= SECTOR
  BY <1>3, <1>4, MultipleAtLeast
<1>6. e \in Nat /\ e =< a + SECTOR - 1
  BY <1>1 DEF e
<1> QED BY <1>2, <1>5, <1>6, SMT

\* What the write has passed is on the chip, and is a sequence of cells.
LEMMA WrittenIsSeq ==
  ASSUME DInv, LInv, in_progress
  PROVE  /\ offset \in Nat /\ begin \in Nat /\ offset - begin \in Nat
         /\ Written \in Seq(Held) /\ Len(Written) = offset - begin
         /\ \A i \in 1..(offset - begin) :
              Written[i] = flash[begin + i - 1] /\ begin + i - 1 \in Cells
         /\ next_erase_addr =< CELLS
<1>1. Numbers /\ Bounded /\ AlignUp(begin + announced) =< CELLS /\ CELLS \in Nat
  BY SectorAssumption DEF DInv, LInv, OnChip
<1>2. next_erase_addr =< CELLS
  <2>1. next_erase_addr \in Nat /\ erase_remaining \in Nat
        /\ next_erase_addr + erase_remaining =< CELLS
    BY <1>1 DEF Numbers, Bounded
  <2> QED BY <1>1, <2>1, SMT
<1>3. offset \in Nat /\ begin \in Nat /\ begin =< offset /\ offset - begin \in Nat
      /\ (offset = begin \/ offset =< CELLS) /\ next_erase_addr \in Nat
  BY <1>1, <1>2, SMT DEF Numbers, Bounded
<1>4. ASSUME NEW i \in 1..(offset - begin)
      PROVE  begin + i - 1 \in Cells /\ flash[begin + i - 1] \in Held
  <2>1. begin + i - 1 \in Cells
    BY <1>1, <1>3, SMT DEF Cells
  <2> QED BY <2>1 DEF LInv
<1> DEFINE n == offset - begin
           w == [i \in 1..n |-> flash[begin + i - 1]]
<1>5. w \in [1..n -> Held]
  BY <1>4
<1>6. \A i \in 1..n : w[i] = flash[begin + i - 1]
  OBVIOUS
<1> HIDE DEF w
<1>7. n \in Nat
  BY <1>3
<1> HIDE DEF n
<1>8. w \in Seq(Held) /\ Len(w) = n
  BY <1>5, <1>7, SMT
<1>9. Written = w
  BY DEF Written, w, n
<1> QED BY <1>2, <1>3, <1>4, <1>6, <1>8, <1>9 DEF n

\* What a session has written stays, unless cells behind its position change.
LEMMA WrittenStays ==
  ASSUME DInv, LInv, in_progress, UNCHANGED <<offset, begin>>,
         \A c \in Cells : flash'[c] # flash[c] => offset =< c \/ offset = begin
  PROVE  Written' = Written
<1>1. /\ offset \in Nat /\ begin \in Nat
      /\ \A i \in 1..(offset - begin) : begin + i - 1 \in Cells
  BY WrittenIsSeq
<1>2. \A i \in 1..(offset - begin) : flash'[begin + i - 1] = flash[begin + i - 1]
  <2> TAKE i \in 1..(offset - begin)
  <2>1. ~(offset =< begin + i - 1) /\ offset # begin
    BY <1>1, SMT
  <2> QED BY <1>1, <2>1
<1> QED BY <1>2 DEF Written

\* Values in the buffer and in the decompressor are what a cell may hold.
LEMMA DataIsHeld ==
  ASSUME DInv
  PROVE  /\ decompressed_data \in Seq(Held) /\ decompressor.pending \in Seq(Held)
         /\ Len(decompressed_data) \in Nat /\ Len(decompressor.pending) \in Nat
<1>1. decompressed_data \in Seq(Out) /\ decompressor.pending \in Seq(Out)
  BY DEF DInv, Flow, Decompressor
<1>2. \A q : q \in Seq(Out) => q \in Seq(Held)
  <2>1. \A x \in Out : x \in Held
    BY DEF Held
  <2> HIDE DEF Held
  <2> QED BY <2>1, SMT
<1> QED BY <1>1, <1>2, LenProperties

\* A step that moves no data; of the input it may drop all.
LEMMA QuietData ==
  ASSUME DInv, LInv, UNCHANGED sessionVars,
         UNCHANGED <<flash, decompressor, decompressed_data>>,
         clean' => clean, pc' = "post" => pc = "post" /\ input' = input
  PROVE  LInv'
<1>1. Written' = Written /\ Inflated' = Inflated
  BY DEF Written, Inflated, sessionVars
<1>2. OnChip'
  BY DEF LInv, OnChip, sessionVars, AlignUp, AlignDown
<1>3. Straight'
  BY <1>1 DEF LInv, Straight, Taken, Ahead, Follows, Expected, sessionVars
<1> QED BY <1>2, <1>3 DEF LInv

\* What an erase passes is blank afterwards.
LEMMA ErasedIsBlank ==
  ASSUME NEW addr \in Nat, NEW rem \in Nat, NEW dirty, NEW result,
         flash \in [Cells -> Held], ConditionalEraseNext(addr, rem, dirty, result)
  PROVE  /\ flash' \in [Cells -> Held]
         /\ \A c \in Cells : addr =< c /\ c < next_erase_addr' => flash'[c] = BLANK
<1>1. \A c \in Cells : ~(addr =< c /\ c < addr)
  BY SectorAssumption, SMT DEF Cells
<1>2. CASE next_erase_addr' = addr /\ flash' = flash
  BY <1>1, <1>2
<1>3. CASE rem > 0 /\ SkipBlankSector(addr, rem, result)
  BY <1>3 DEF SkipBlankSector, SectorIsBlank, chipVars
<1>4. ASSUME NEW n \in 1..rem, flash' = Erased(flash, addr, n), next_erase_addr' = addr + n
      PROVE  /\ flash' \in [Cells -> Held]
             /\ \A c \in Cells : addr =< c /\ c < next_erase_addr' => flash'[c] = BLANK
  <2>1. BLANK \in Held
    BY DEF Held, Cell
  <2> QED BY <1>4, <2>1 DEF Erased
<1>5. CASE StartNextErase(addr, rem, result)
  BY <1>2, <1>4, <1>5 DEF StartNextErase, chipVars
<1> QED BY <1>2, <1>3, <1>5 DEF ConditionalEraseNext, chipVars

\* Erasing ahead touches nothing that was written or is about to be.
LEMMA EraseKeepsData ==
  ASSUME DInv, LInv, NEW result,
         ConditionalEraseNext(next_erase_addr, erase_remaining, s_dirty_seen, result),
         UNCHANGED <<offset, in_progress, begin, announced, decompressor, decompressed_data>>,
         pc = "post", clean' => clean, pc' = "post" => input' = input
  PROVE  LInv'
<1>1. in_progress /\ Numbers /\ Bounded
  BY DEF DInv, LoopIsOpen
<1>2. /\ flash' \in [Cells -> Held]
      /\ \A c \in Cells : next_erase_addr =< c /\ c < next_erase_addr' => flash'[c] = BLANK
      /\ \A c \in Cells : flash'[c] # flash[c] => next_erase_addr =< c
      /\ next_erase_addr' \in Nat
  <2>1. Passed(next_erase_addr, erase_remaining)
    BY <1>1, EraseMoves DEF Numbers
  <2> QED BY <1>1, <2>1, ErasedIsBlank DEF LInv, Numbers, Passed
<1>3. Written' = Written
  <2>1. ASSUME NEW c \in Cells, next_erase_addr =< c PROVE offset =< c \/ offset = begin
    BY <1>1, <2>1, SectorAssumption, SMT DEF Bounded, Numbers, Cells
  <2> QED BY <1>1, <1>2, <2>1, WrittenStays
<1>4. OnChip'
  BY DEF LInv, OnChip, AlignUp, AlignDown
<1>5. ASSUME Ahead PROVE Ahead'
  <2> SUFFICES ASSUME NEW c \in Cells, offset =< c, c < next_erase_addr'
               PROVE  flash'[c] = BLANK \/ (/\ decompressor # Fresh
                                            /\ c - offset < Len(decompressed_data)
                                            /\ flash'[c] = decompressed_data[c - offset + 1])
    BY DEF Ahead
  <2>1. CASE next_erase_addr =< c
    BY <1>2, <2>1
  <2>2. CASE ~(next_erase_addr =< c)
    <3>1. c < next_erase_addr
      BY <1>1, <2>2, SectorAssumption, SMT DEF Numbers, Cells
    <3>2. flash'[c] = flash[c]
      BY <1>2, <2>2
    <3> QED BY <1>5, <3>1, <3>2 DEF Ahead
  <2> QED BY <2>1, <2>2
<1>6. Straight'
  <2>1. Inflated' = Inflated
    BY DEF Inflated
  <2> QED BY <1>1, <1>3, <1>5, <2>1 DEF LInv, Straight, Taken, Follows, Expected
<1> QED BY <1>2, <1>4, <1>6 DEF LInv

\* A unit that is taken in order adds the cells it inflates to.
LEMMA TakeKeepsData == ASSUME DInv, LInv, TakeUnit PROVE LInv'
<1> DEFINE u == Head(input)
           out == u.stream[u.at]
<1>1. /\ pc = "post" /\ input # <<>> /\ input' = Tail(input)
      /\ decompressor.pending = <<>> /\ ~decompressor.done
      /\ decompressor' = [stream |-> u.stream, next |-> u.at + 1,
                          pending |-> IF Expected(u) THEN out
                                      ELSE [k \in DOMAIN out |-> GARBAGE],
                          done |-> u.at = Len(u.stream)]
      /\ UNCHANGED <<flash, sessionVars, pc, decompressed_data, clean>>
  BY DEF TakeUnit, Inflating, stateVars, eraseVars, chipVars, histVars, sessionVars, DInv,
         LoopIsPost
<1>2. in_progress /\ input \in Seq(Unit)
  BY <1>1 DEF DInv, LoopIsOpen, Flow
<1>3. u \in Unit /\ input[1] = u
  BY <1>1, <1>2, SMT
<1>4. u.stream \in Streams /\ u.at \in Nat /\ u.at \in 1..Len(u.stream)
  BY <1>3, SMT DEF Unit
<1>5. OnChip' /\ Written' = Written
  BY <1>1 DEF LInv, OnChip, Written, sessionVars, AlignUp, AlignDown
<1>6. ASSUME clean PROVE Taken' /\ Ahead' /\ Follows'
  <2>1. Taken /\ Ahead /\ Follows
    BY <1>1, <1>2, <1>6 DEF LInv, Straight
  <2>2. Expected(u)
    BY <1>1, <1>3, <2>1 DEF Follows
  <2>3. /\ decompressor'.stream = u.stream /\ decompressor'.next = u.at + 1
        /\ decompressor'.pending = out
    BY <1>1, <2>2
  <2>4. decompressor' # Fresh /\ decompressor'.next > 1
    <3>1. u.at + 1 > 1 /\ u.at + 1 # 1
      BY <1>4, SMT
    <3> QED BY <2>3, <3>1 DEF Fresh
  <2>5. Ahead'
    BY <1>1, <2>1, <2>4 DEF Ahead, sessionVars
  <2>6. Follows'
    <3> DEFINE n == Len(input)
    <3>1. /\ n \in Nat /\ n > 0 /\ Len(Tail(input)) = n - 1
          /\ \A k \in 1..(n - 1) : Tail(input)[k] = input[k + 1]
      BY <1>1, <1>2, HeadTailProperties, EmptySeq, SMT
    <3> HIDE DEF u, n
    <3>2. ASSUME NEW k \in 1..(n - 1)
          PROVE  input'[k] = [stream |-> u.stream, at |-> u.at + k]
      <4>1. k + 1 \in 1..n /\ u.at + (k + 1) - 1 = u.at + k
        BY <1>4, <3>1, SMT
      <4>2. input[k + 1] = [stream |-> u.stream, at |-> u.at + (k + 1) - 1]
        BY <1>3, <2>1, <4>1 DEF Follows, n
      <4> QED BY <1>1, <3>1, <4>1, <4>2
    <3>3. ASSUME input' # <<>> PROVE 1 \in 1..(n - 1)
      <4>1. Len(Tail(input)) # 0
        <5>1. Tail(input) \in Seq(Unit) /\ Tail(input) # <<>>
          BY <1>1, <1>2, <3>3, HeadTailProperties
        <5> QED BY <5>1, EmptySeq
      <4>2. n - 1 # 0
        BY <3>1, <4>1, Zenon
      <4> QED BY <3>1, <4>2, SMT
    <3>4. input' # <<>> => Expected(input[1])'
      <4> SUFFICES ASSUME input' # <<>> PROVE Expected(input[1])'
        OBVIOUS
      <4>1. input'[1] = [stream |-> u.stream, at |-> u.at + 1]
        BY <3>2, <3>3
      <4>2. input'[1].at = decompressor'.next /\ input'[1].stream = decompressor'.stream
        BY <2>3, <4>1
      <4> QED BY <4>2 DEF Expected
    <3>5. ASSUME NEW k \in 1..(n - 1)
          PROVE  input'[k] = [stream |-> input'[1].stream, at |-> input'[1].at + k - 1]
      <4>1. 1 \in 1..(n - 1) /\ (u.at + 1) + k - 1 = u.at + k
        BY <1>4, <3>1, SMT
      <4>2. input'[1] = [stream |-> u.stream, at |-> u.at + 1]
        BY <3>2, <4>1
      <4> QED BY <3>2, <4>1, <4>2
    <3>6. Len(input') = n - 1
      BY <1>1, <3>1
    <3> QED BY <3>4, <3>5, <3>6 DEF Follows
  <2>7. Taken'
    <3> DEFINE s == u.stream
               w == Written
               d == decompressed_data
    <3>1. s \in Seq(Seq(Value)) /\ u.at \in 1..Len(s)
      BY <1>4, DeflateAssumption
    <3>2. Inflated' = FlattenSeq(SubSeq(s, 1, u.at - 1)) \o s[u.at]
      <4>1. (u.at + 1) - 1 = u.at
        BY <1>4, SMT
      <4>2. Inflated' = FlattenSeq(SubSeq(s, 1, u.at))
        BY <2>3, <4>1 DEF Inflated
      <4> HIDE DEF u, s
      <4> QED BY <3>1, <4>2, FlattenNext
    <3>3. w \in Seq(Held) /\ d \in Seq(Held)
      BY <1>2, WrittenIsSeq, DataIsHeld
    <3>4. w \o d = FlattenSeq(SubSeq(s, 1, u.at - 1))
      <4>1. CASE decompressor = Fresh
        <5>1. offset = begin /\ d = <<>> /\ u.at = 1
          BY <1>1, <2>1, <2>2, <4>1 DEF Taken, Expected, Fresh
        <5>2. w = <<>>
          <6>1. Len(w) = 0
            BY <1>2, <5>1, WrittenIsSeq, SMT
          <6> QED BY <3>3, <6>1, EmptySeq
        <5>3. u.at - 1 = 0
          BY <5>1
        <5>4. SubSeq(s, 1, u.at - 1) = <<>>
          BY <5>3, SubSeqEmpty
        <5>5. FlattenSeq(<<>>) = <<>>
          BY EmptySeq DEF FlattenSeq
        <5> QED BY <3>3, <5>1, <5>2, <5>4, <5>5, ConcatEmptySeq
      <4>2. CASE decompressor # Fresh
        <5>1. decompressor.next > 1 /\ w \o d \o decompressor.pending = Inflated
          BY <2>1, <4>2 DEF Taken
        <5>2. decompressor.stream = s /\ decompressor.next = u.at
          <6>1. decompressor.next # 1
            BY <5>1
          <6> QED BY <2>2, <6>1 DEF Expected
        <5>3. w \o d \in Seq(Held)
          BY <3>3, ConcatProperties
        <5>4. (w \o d) \o <<>> = w \o d
          BY <5>3, ConcatEmptySeq
        <5> QED BY <1>1, <5>1, <5>2, <5>4 DEF Inflated
      <4> QED BY <4>1, <4>2
    <3> QED BY <1>1, <1>5, <2>3, <2>4, <3>2, <3>4 DEF Taken
  <2> QED BY <2>5, <2>6, <2>7
<1>7. Straight'
  BY <1>1, <1>6 DEF Straight
<1> QED BY <1>1, <1>5, <1>7 DEF LInv

\* What is handed out goes from the one place to the other.
LEMMA HandOutKeepsData == ASSUME DInv, LInv, HandOut PROVE LInv'
<1> DEFINE p == decompressor.pending
           d == decompressed_data
           w == Written
           a == SubSeq(p, 1, Given)
           b == SubSeq(p, Given + 1, Len(p))
<1>1. /\ pc = "post" /\ Given > 0 /\ d' = d \o a
      /\ decompressor' = [decompressor EXCEPT !.pending = b]
      /\ UNCHANGED <<flash, sessionVars, pc, input, clean>>
  BY DEF HandOut, Inflating, stateVars, eraseVars, chipVars, histVars, sessionVars, DInv,
         LoopIsPost
<1>2. in_progress /\ decompressor \in Decompressor
  BY <1>1 DEF DInv, LoopIsOpen, Flow
<1>3. p \in Seq(Held) /\ d \in Seq(Held) /\ Len(p) \in Nat /\ Len(d) \in Nat
  BY DataIsHeld
<1>4. Given \in Nat /\ Given =< Len(p)
  BY <1>1, <1>3, DeflateAssumption, SMT DEF Given, Lesser, Room
<1>5. /\ decompressor'.stream = decompressor.stream /\ decompressor'.next = decompressor.next
      /\ decompressor'.done = decompressor.done /\ decompressor'.pending = b
  BY <1>1, <1>2 DEF Decompressor
<1> HIDE DEF p
<1>6. a \in Seq(Held) /\ b \in Seq(Held) /\ a \o b = p
  <2>1. a \in Seq(Held) /\ b \in Seq(Held)
    BY <1>3, <1>4, SMT
  <2>2. 1 \in 1..(Len(p) + 1) /\ Given \in (1 - 1)..Len(p) /\ Len(p) \in Given..Len(p)
    BY <1>3, <1>4, SMT
  <2>3. a \o b = SubSeq(p, 1, Len(p))
    BY <1>3, <2>2, ConcatAdjacentSubSeq
  <2> QED BY <1>3, <2>1, <2>3, SubSeqFull
<1> HIDE DEF a, b
<1>7. OnChip' /\ w' = w /\ Inflated' = Inflated
  BY <1>1, <1>5 DEF LInv, OnChip, Written, Inflated, sessionVars, AlignUp, AlignDown
<1>8. ASSUME clean PROVE Taken' /\ Ahead' /\ Follows'
  <2>1. Taken /\ Ahead /\ Follows
    BY <1>1, <1>2, <1>8 DEF LInv, Straight
  <2>2. decompressor # Fresh
    <3> SUFFICES ASSUME decompressor = Fresh PROVE FALSE
      OBVIOUS
    <3>1. Len(p) = 0
      BY EmptySeq DEF Fresh, p
    <3> QED BY <1>1, <1>4, <3>1, SMT
  <2>3. decompressor.next > 1 /\ (w \o d) \o p = Inflated
    BY <2>1, <2>2 DEF Taken, p
  <2>4. decompressor' # Fresh
    <3>1. decompressor'.next # 1
      BY <1>5, <2>3
    <3> QED BY <3>1 DEF Fresh
  <2>5. Follows'
    BY <1>1, <1>5, <2>1 DEF Follows, Expected
  <2>6. Taken'
    <3>1. w \in Seq(Held)
      BY <1>2, WrittenIsSeq
    <3>2. d \in Seq(Held) /\ a \in Seq(Held) /\ b \in Seq(Held)
      BY <1>3, <1>6
    <3>3. (w \o (d \o a)) \o b = (w \o d) \o (a \o b)
      <4> HIDE DEF w, d
      <4>1. w \o (d \o a) = (w \o d) \o a
        BY <3>1, <3>2, ConcatAssociative
      <4>2. w \o d \in Seq(Held)
        BY <3>1, <3>2, ConcatProperties
      <4>3. ((w \o d) \o a) \o b = (w \o d) \o (a \o b)
        BY <3>2, <4>2, ConcatAssociative
      <4> QED BY <4>1, <4>3
    <3>4. (w \o (d \o a)) \o b = Inflated
      BY <1>6, <2>3, <3>3
    <3>5. Written' \o decompressed_data' \o decompressor'.pending = Inflated'
      BY <1>1, <1>5, <1>7, <3>4 DEF w, d
    <3> QED BY <1>5, <2>3, <2>4, <3>5 DEF Taken
  <2>7. Ahead'
    <3>1. /\ Len(d \o a) = Len(d) + Len(a) /\ Len(a) \in Nat
          /\ \A i \in 1..(Len(d) + Len(a)) : i =< Len(d) => (d \o a)[i] = d[i]
      BY <1>3, <1>6, ConcatProperties, LenProperties
    <3> SUFFICES ASSUME NEW c \in Cells, offset =< c, c < next_erase_addr
                 PROVE  \/ flash[c] = BLANK
                        \/ /\ c - offset < Len(d \o a) /\ flash[c] = (d \o a)[c - offset + 1]
      BY <1>1, <2>4 DEF Ahead, sessionVars
    <3>2. CASE flash[c] = BLANK
      BY <3>2
    <3>3. CASE flash[c] # BLANK
      <4>1. c - offset < Len(d) /\ flash[c] = d[c - offset + 1]
        BY <2>1, <3>3 DEF Ahead
      <4>2. offset \in Nat /\ c \in Nat
        BY <1>2, WrittenIsSeq, SectorAssumption, SMT DEF Cells
      <4>3. /\ c - offset + 1 \in 1..(Len(d) + Len(a)) /\ c - offset + 1 =< Len(d)
            /\ c - offset < Len(d) + Len(a)
        BY <1>3, <3>1, <4>1, <4>2, SMT
      <4> QED BY <3>1, <4>1, <4>3
    <3> QED BY <3>2, <3>3
  <2> QED BY <2>5, <2>6, <2>7
<1>9. Straight'
  BY <1>1, <1>8 DEF Straight
<1> QED BY <1>1, <1>7, <1>9 DEF LInv

\* Programming a cell that is blank or holds the value already leaves the value.
LEMMA ProgramLands ==
  ASSUME DInv, LInv, in_progress, Ahead, ErasedTo, NEW n \in 0..Len(decompressed_data),
         decompressor = Fresh => decompressed_data = <<>>,
         flash' = WithData(flash, offset, decompressed_data, n)
  PROVE  /\ flash' \in [Cells -> Held]
         /\ \A c \in Cells : offset =< c /\ c < offset + n =>
              flash'[c] = decompressed_data[c - offset + 1]
         /\ \A c \in Cells : ~(offset =< c /\ c < offset + n) => flash'[c] = flash[c]
<1> DEFINE d == decompressed_data
<1>1. /\ offset \in Nat /\ next_erase_addr >= offset + Len(d) /\ next_erase_addr \in Nat
      /\ d \in Seq(Held) /\ Len(d) \in Nat /\ n \in Nat /\ n =< Len(d)
  BY WrittenIsSeq, DataIsHeld DEF DInv, Numbers, ErasedTo, Target
<1> HIDE DEF d
<1>2. ASSUME NEW c \in Cells, offset =< c, c < offset + n
      PROVE  /\ Programmed(flash[c], d[c - offset + 1]) = d[c - offset + 1]
             /\ d[c - offset + 1] \in Held
  <2>1. c - offset + 1 \in 1..Len(d) /\ c < next_erase_addr
    BY <1>1, <1>2, SectorAssumption, SMT DEF Cells
  <2>2. d[c - offset + 1] \in Held
    BY <1>1, <2>1, SMT
  <2>3. flash[c] = BLANK \/ flash[c] = d[c - offset + 1]
    BY <1>2, <2>1 DEF Ahead, d
  <2> QED BY <2>2, <2>3 DEF Programmed
<1>3. flash' = [c \in Cells |-> IF offset =< c /\ c < offset + n
                                THEN Programmed(flash[c], d[c - offset + 1]) ELSE flash[c]]
  BY DEF WithData, d
<1>4. \A c \in Cells : flash[c] \in Held
  BY DEF LInv
<1>5. \A c \in Cells : (IF offset =< c /\ c < offset + n
                        THEN Programmed(flash[c], d[c - offset + 1]) ELSE flash[c]) \in Held
  BY <1>2, <1>4
<1>6. flash' \in [Cells -> Held]
  BY <1>3, <1>5
<1>7. \A c \in Cells : offset =< c /\ c < offset + n => flash'[c] = d[c - offset + 1]
  BY <1>2, <1>3
<1>8. \A c \in Cells : ~(offset =< c /\ c < offset + n) => flash'[c] = flash[c]
  BY <1>3
<1> QED BY <1>6, <1>7, <1>8 DEF d

\* Writing what may be unclean keeps the flash a chip's.
LEMMA FlashStays ==
  ASSUME DInv, LInv, in_progress, NEW n \in 0..Len(decompressed_data),
         flash' = WithData(flash, offset, decompressed_data, n)
  PROVE  flash' \in [Cells -> Held]
<1> DEFINE d == decompressed_data
<1>1. offset \in Nat /\ d \in Seq(Held) /\ Len(d) \in Nat /\ n \in Nat /\ n =< Len(d)
  BY WrittenIsSeq, DataIsHeld
<1> HIDE DEF d
<1>2. \A c \in Cells : flash[c] \in Held
  BY DEF LInv
<1>3. ASSUME NEW c \in Cells, offset =< c, c < offset + n
      PROVE  Programmed(flash[c], d[c - offset + 1]) \in Held
  <2>1. c - offset + 1 \in 1..Len(d)
    BY <1>1, <1>3, SectorAssumption, SMT DEF Cells
  <2>2. d[c - offset + 1] \in Held
    BY <1>1, <2>1, SMT
  <2>3. MIXED \in Held
    BY DEF Held, Cell
  <2> QED BY <1>2, <2>2, <2>3 DEF Programmed
<1>4. flash' = [c \in Cells |-> IF offset =< c /\ c < offset + n
                                THEN Programmed(flash[c], d[c - offset + 1]) ELSE flash[c]]
  BY DEF WithData, d
<1> QED BY <1>2, <1>3, <1>4

\* A buffer that is written goes on behind what was written before.
LEMMA WriteKeepsData == ASSUME DInv, LInv, WriteBuffer PROVE LInv'
<1> DEFINE d == decompressed_data
           w == Written
           n == Len(d)
<1>1. /\ pc = "post" /\ ErasedTo /\ flash' = WithData(flash, offset, d, n)
      /\ offset' = Target /\ d' = <<>>
      /\ UNCHANGED <<in_progress, next_erase_addr, begin, announced, decompressor, clean>>
      /\ (pc' = "post" => input' = input)
  BY DEF WriteBuffer, LoopOrReturn, Return, Finish, eraseVars, histVars, deflHist, DInv,
         LoopIsPost
<1>2. in_progress /\ Target =< next_erase_addr /\ n \in Nat /\ n \in 0..n
      /\ next_erase_addr \in Nat
  <2>1. in_progress /\ Target =< next_erase_addr /\ n \in Nat /\ Numbers
    BY <1>1, Reach
  <2> QED BY <2>1, SMT DEF Numbers
<1>3. /\ offset \in Nat /\ begin \in Nat /\ offset - begin \in Nat
      /\ w \in Seq(Held) /\ Len(w) = offset - begin
      /\ \A i \in 1..(offset - begin) : w[i] = flash[begin + i - 1] /\ begin + i - 1 \in Cells
      /\ next_erase_addr =< CELLS
  BY <1>2, WrittenIsSeq
<1>4. d \in Seq(Held) /\ decompressor.pending \in Seq(Held)
  BY DataIsHeld
<1>5. OnChip' /\ Inflated' = Inflated
  BY <1>1 DEF LInv, OnChip, Inflated, AlignUp, AlignDown
<1>6. flash' \in [Cells -> Held]
  BY <1>1, <1>2, FlashStays
<1>7. ASSUME clean PROVE Taken' /\ Ahead' /\ (pc' = "post" => Follows')
  <2>1. Taken /\ Ahead /\ Follows
    BY <1>1, <1>2, <1>7 DEF LInv, Straight
  <2>2. decompressor = Fresh => d = <<>>
    BY <1>1, <2>1 DEF Taken
  <2>3. /\ \A c \in Cells : offset =< c /\ c < offset + n => flash'[c] = d[c - offset + 1]
        /\ \A c \in Cells : ~(offset =< c /\ c < offset + n) => flash'[c] = flash[c]
    BY <1>1, <1>2, <2>1, <2>2, ProgramLands
  <2>4. offset' = offset + n
    BY <1>1 DEF Target
  <2>5. pc' = "post" => Follows'
    BY <1>1, <2>1 DEF Follows, Expected
  <2> HIDE DEF d, w, n
  <2>6. Ahead'
    <3> SUFFICES ASSUME NEW c \in Cells, offset + n =< c, c < next_erase_addr
                 PROVE  flash'[c] = BLANK
      BY <1>1, <2>4 DEF Ahead
    <3>1. offset =< c /\ ~(c < offset + n) /\ ~(c - offset < n)
      BY <1>2, <1>3, SectorAssumption, SMT DEF Cells
    <3> QED BY <2>1, <2>3, <3>1 DEF Ahead, n, d
  <2>7. Written' = w \o d
    <3> DEFINE v == Written'
    <3>1. Len(w \o d) = (offset - begin) + n /\ w \o d \in Seq(Held)
          /\ \A i \in 1..((offset - begin) + n) :
               (w \o d)[i] = IF i =< offset - begin THEN w[i] ELSE d[i - (offset - begin)]
      BY <1>3, <1>4, ConcatProperties DEF n
    <3>2. offset' - begin' = (offset - begin) + n /\ (offset - begin) + n \in Nat
      BY <1>1, <1>2, <1>3, <2>4, SMT
    <3>3. v = [i \in 1..((offset - begin) + n) |-> flash'[begin + i - 1]]
      BY <1>1, <3>2 DEF Written
    <3>4. ASSUME NEW i \in 1..((offset - begin) + n)
          PROVE  flash'[begin + i - 1] = (w \o d)[i]
      <4>1. CASE i =< offset - begin
        <5>1. i \in 1..(offset - begin) /\ ~(offset =< begin + i - 1)
          BY <1>3, <4>1, SMT
        <5> QED BY <1>3, <2>3, <3>1, <4>1, <5>1
      <4>2. CASE ~(i =< offset - begin)
        <5>1. /\ begin + i - 1 \in Cells /\ offset =< begin + i - 1
              /\ begin + i - 1 < offset + n
              /\ (begin + i - 1) - offset + 1 = i - (offset - begin)
          <6>1. offset + n =< next_erase_addr
            BY <1>1, <1>2, <2>4
          <6> QED BY <1>2, <1>3, <4>2, <6>1, SectorAssumption, SMT DEF Cells
        <5>2. flash'[begin + i - 1] = d[(begin + i - 1) - offset + 1]
          BY <2>3, <5>1
        <5> QED BY <3>1, <4>2, <5>1, <5>2
      <4> QED BY <4>1, <4>2
    <3>5. w \o d = [i \in 1..((offset - begin) + n) |-> (w \o d)[i]]
      <4> DEFINE z == w \o d
      <4>1. z \in Seq(Held) /\ Len(z) = (offset - begin) + n
        BY <3>1
      <4> HIDE DEF z
      <4>2. z = [i \in 1..Len(z) |-> z[i]]
        BY <4>1, SMT
      <4> QED BY <4>1, <4>2 DEF z
    <3> HIDE DEF v
    <3> QED BY <3>3, <3>4, <3>5 DEF v
  <2>8. Taken'
    <3>1. CASE decompressor = Fresh
      <4>1. offset = begin /\ n = 0
        BY <2>1, <2>2, <3>1, EmptySeq DEF Taken, n
      <4>2. offset' = begin'
        BY <1>1, <1>3, <2>4, <4>1, SMT
      <4> QED BY <1>1, <3>1, <4>2 DEF Taken, d
    <3>2. CASE decompressor # Fresh
      <4>1. decompressor.next > 1 /\ (w \o d) \o decompressor.pending = Inflated
        BY <2>1, <3>2 DEF Taken, w, d
      <4>2. (w \o d) \o <<>> = w \o d
        <5>1. w \o d \in Seq(Held)
          BY <1>3, <1>4, ConcatProperties
        <5> QED BY <5>1, ConcatEmptySeq
      <4>3. Written' \o decompressed_data' \o decompressor'.pending = Inflated'
        BY <1>1, <1>5, <2>7, <4>1, <4>2 DEF d
      <4> QED BY <1>1, <3>2, <4>1, <4>3 DEF Taken
    <3> QED BY <3>1, <3>2
  <2> QED BY <2>5, <2>6, <2>8
<1>8. Straight'
  BY <1>1, <1>7 DEF Straight
<1> QED BY <1>5, <1>6, <1>8 DEF LInv

\* A write that fails has done a part of what the next attempt does again.
LEMMA BrokenWriteKeepsData == ASSUME DInv, LInv, WriteBufferFails PROVE LInv'
<1>1. /\ pc = "post" /\ ErasedTo /\ pc' = "idle" /\ UNCHANGED sessionVars
      /\ UNCHANGED <<decompressor, decompressed_data>>
      /\ clean' => clean
  BY DEF WriteBufferFails, Return, Finish, stateVars, eraseVars, sessionVars, DInv, LoopIsPost
<1>2. PICK n \in 0..Len(decompressed_data) :
           flash' = WithData(flash, offset, decompressed_data, n)
  BY DEF WriteBufferFails
<1>3. in_progress
  BY <1>1 DEF DInv, LoopIsOpen
<1>4. OnChip' /\ Inflated' = Inflated
  BY <1>1 DEF LInv, OnChip, Inflated, sessionVars, AlignUp, AlignDown
<1>5. flash' \in [Cells -> Held]
  BY <1>2, <1>3, FlashStays
<1>6. ASSUME clean PROVE Taken' /\ Ahead'
  <2>1. Taken /\ Ahead
    BY <1>3, <1>6 DEF LInv, Straight
  <2>2. decompressor = Fresh => decompressed_data = <<>>
    BY <1>1, <2>1 DEF Taken
  <2>3. /\ \A c \in Cells : offset =< c /\ c < offset + n =>
             flash'[c] = decompressed_data[c - offset + 1]
        /\ \A c \in Cells : ~(offset =< c /\ c < offset + n) => flash'[c] = flash[c]
    BY <1>1, <1>2, <1>3, <2>1, <2>2, ProgramLands
  <2>4. Written' = Written
    BY <1>1, <1>3, <2>3, WrittenStays DEF sessionVars
  <2>5. Taken'
    BY <1>1, <1>4, <2>1, <2>4 DEF Taken, sessionVars
  <2>6. Ahead'
    <3> SUFFICES ASSUME NEW c \in Cells, offset =< c, c < next_erase_addr
                 PROVE  \/ flash'[c] = BLANK
                        \/ /\ decompressor # Fresh /\ c - offset < Len(decompressed_data)
                           /\ flash'[c] = decompressed_data[c - offset + 1]
      BY <1>1 DEF Ahead, sessionVars
    <3>1. CASE c < offset + n
      <4>1. c - offset < Len(decompressed_data) /\ decompressed_data # <<>>
        <5>1. offset \in Nat /\ c \in Nat /\ Len(decompressed_data) \in Nat
          BY <1>3, WrittenIsSeq, DataIsHeld, SectorAssumption, SMT DEF Cells
        <5>2. c - offset < Len(decompressed_data) /\ Len(decompressed_data) # 0
          BY <3>1, <5>1, SMT
        <5> QED BY <5>2, EmptySeq
      <4> QED BY <2>2, <2>3, <3>1, <4>1
    <3>2. CASE ~(c < offset + n)
      BY <2>1, <2>3, <3>2 DEF Ahead
    <3> QED BY <3>1, <3>2
  <2> QED BY <2>5, <2>6
<1>7. Straight'
  BY <1>1, <1>3, <1>6 DEF Straight, sessionVars
<1> QED BY <1>4, <1>5, <1>7 DEF LInv

\* The post-process.
LEMMA LoopKeepsData == ASSUME DInv, LInv, DeflPostProcess PROVE LInv'
<1>1. CASE EmptyBlock
  <2>1. /\ UNCHANGED sessionVars /\ UNCHANGED <<flash, decompressor, decompressed_data, clean>>
        /\ pc' = "idle"
    BY <1>1 DEF EmptyBlock, Return, Finish, stateVars, eraseVars, chipVars, histVars, deflHist,
       sessionVars
  <2> QED BY <2>1, QuietData
<1>2. CASE EraseAhead
  <2>1. PICK result \in Result :
          /\ ConditionalEraseNext(next_erase_addr, erase_remaining, s_dirty_seen, result)
          /\ UNCHANGED <<pc, input, clean>> \/ (Return(result) /\ clean' = FALSE)
    BY <1>2 DEF EraseAhead
  <2>2. (clean' => clean) /\ (pc' = "post" => input' = input)
    BY <2>1 DEF Return, Finish
  <2>3. /\ pc = "post"
        /\ UNCHANGED <<offset, in_progress, begin, announced, decompressor, decompressed_data>>
    BY <1>2 DEF EraseAhead, stateVars, histVars, DInv, LoopIsPost
  <2> QED BY <2>1, <2>2, <2>3, EraseKeepsData
<1>3. CASE TinflReturns
  <2>1. /\ pc = "post" /\ UNCHANGED sessionVars
        /\ UNCHANGED <<flash, decompressor, decompressed_data>>
    BY <1>3 DEF TinflReturns, Inflating, stateVars, eraseVars, chipVars, histVars, sessionVars,
       DInv, LoopIsPost
  <2>2. PICK st : /\ IF BufferIsDue(st) THEN UNCHANGED <<pc, input>> ELSE LoopOrReturn(st)
                  /\ clean' = (clean /\ st # "FAILED")
    BY <1>3 DEF TinflReturns
  <2>3. pc' = "post" => input' = input
    BY <2>2 DEF LoopOrReturn, Return, Finish
  <2> QED BY <2>1, <2>2, <2>3, QuietData
<1>4. CASE EnsureErasedTo
  <2>1. PICK result \in Result :
          /\ ConditionalEraseNext(next_erase_addr, erase_remaining, s_dirty_seen, result)
          /\ \/ UNCHANGED <<pc, input, clean>>
             \/ Return(result) /\ clean' = (clean /\ input = <<>>)
    BY <1>4 DEF EnsureErasedTo
  <2>2. (clean' => clean) /\ (pc' = "post" => input' = input)
    <3>1. CASE UNCHANGED <<pc, input, clean>>
      BY <3>1
    <3>2. CASE Return(result) /\ clean' = (clean /\ input = <<>>)
      <4>1. pc' = "idle"
        BY <3>2 DEF Return, Finish
      <4>2. clean' => clean
        BY <3>2, Zenon
      <4> QED BY <4>1, <4>2
    <3> QED BY <2>1, <3>1, <3>2
  <2>3. /\ pc = "post"
        /\ UNCHANGED <<offset, in_progress, begin, announced, decompressor, decompressed_data>>
    BY <1>4 DEF EnsureErasedTo, stateVars, histVars, DInv, LoopIsPost
  <2> QED BY <2>1, <2>2, <2>3, EraseKeepsData
<1> QED BY <1>1, <1>2, <1>3, <1>4, TakeKeepsData, HandOutKeepsData, WriteKeepsData,
           BrokenWriteKeepsData DEF DeflPostProcess

\* The units of one request follow each other.
Consecutive(d) == \A k \in 1..Len(d) : d[k] = [stream |-> d[1].stream, at |-> d[1].at + k - 1]

\* A part of a stream is consecutive.
LEMMA CutIsConsecutive ==
  ASSUME NEW s \in Streams, NEW n \in 1..MAX_UNITS, NEW i \in 1..(Len(s) - n + 1)
  PROVE  Consecutive(Cut(s, i, i + n - 1))
<1>1. Len(s) \in Nat
  BY DeflateAssumption, SMT
<1>2. n \in Nat /\ n > 0 /\ i \in Nat /\ (i + n - 1) - i + 1 = n
  BY <1>1, SMT
<1> DEFINE d == Cut(s, i, i + n - 1)
<1>3. d = [k \in 1..n |-> [stream |-> s, at |-> i + k - 1]]
  BY <1>2, Zenon DEF Cut
<1>4. Len(d) = n /\ \A k \in 1..n : d[k] = [stream |-> s, at |-> i + k - 1]
  BY <1>2, <1>3, SMT
<1> HIDE DEF d
<1>5. d[1].stream = s /\ d[1].at = i
  <2>1. 1 \in 1..n /\ i + 1 - 1 = i
    BY <1>2, SMT
  <2>2. d[1] = [stream |-> s, at |-> i]
    BY <1>4, <2>1
  <2> QED BY <2>2
<1>6. Consecutive(d)
  BY <1>4, <1>5 DEF Consecutive
<1> QED BY <1>6 DEF d

\* So is what any FLASH_DEFL_DATA brings.
LEMMA RequestIsConsecutive ==
  ASSUME NEW r \in DeflRequests, r.cmd = "FLASH_DEFL_DATA"
  PROVE  Consecutive(r.data)
<1> DEFINE begins == {DeflBegin(f, o.start, o.size, o.units) : f \in {"none", "size"},
                                                               o \in Openings}
           empty == {DeflDataOf(f, q, <<>>) : f \in {"none", "short", "checksum"}, q \in {0, 1}}
           data == UNION {{DeflDataOf("none", q, Cut(s, i, i + n - 1)) :
                             q \in {0, 1}, i \in 1..(Len(s) - n + 1)} :
                           s \in Streams, n \in 1..MAX_UNITS}
           ends == {DeflEnd(f) : f \in {"none", "size"}}
           others == {OtherCommand(f) : f \in {"none", "direction"}}
<1>1. r \in begins \cup empty \cup data \cup ends \cup others
  BY DEF DeflRequests
<1>2. CASE r \in begins
  <2>1. PICK f \in {"none", "size"}, o \in Openings : r = DeflBegin(f, o.start, o.size, o.units)
    BY <1>2
  <2>2. r.cmd = "FLASH_DEFL_BEGIN"
    BY <2>1, SMT DEF DeflBegin
  <2> QED BY <2>2
<1>3. CASE r \in ends \cup others
  <2>1. PICK f : r = DeflEnd(f) \/ r = OtherCommand(f)
    BY <1>3
  <2>2. r.cmd = "FLASH_DEFL_END" \/ r.cmd = "OTHER"
    BY <2>1, SMT DEF DeflEnd, OtherCommand
  <2> QED BY <2>2
<1>4. CASE r \in empty
  <2>1. PICK f \in {"none", "short", "checksum"}, q \in {0, 1} : r = DeflDataOf(f, q, <<>>)
    BY <1>4
  <2>2. r.data = <<>>
    BY <2>1 DEF DeflDataOf
  <2>3. Len(<<>>) = 0
    BY EmptySeq
  <2> QED BY <2>2, <2>3, SMT DEF Consecutive
<1>5. CASE r \in data
  <2>1. PICK s \in Streams, n \in 1..MAX_UNITS :
             r \in {DeflDataOf("none", q, Cut(s, i, i + n - 1)) :
                      q \in {0, 1}, i \in 1..(Len(s) - n + 1)}
    BY <1>5
  <2>2. PICK q \in {0, 1}, i \in 1..(Len(s) - n + 1) :
             r = DeflDataOf("none", q, Cut(s, i, i + n - 1))
    BY <2>1
  <2>3. r.data = Cut(s, i, i + n - 1)
    BY <2>2 DEF DeflDataOf
  <2> QED BY <2>3, CutIsConsecutive
<1> HIDE DEF begins, empty, data, ends, others
<1> QED BY <1>1, <1>2, <1>3, <1>4, <1>5

\* FLASH_DEFL_BEGIN: nothing written, nothing taken, and what was erased is blank.
LEMMA BeginHoldsData ==
  ASSUME DInv, LInv, pc = "idle", NEW r \in DeflRequests, FlashDeflBegin(r)
  PROVE  LInv'
<1>1. PICK f \in {"none", "size"}, o \in Openings :
           r = DeflBegin(f, o.start, o.size, o.units)
  <2>1. r.cmd = "FLASH_DEFL_BEGIN"
    BY DEF FlashDeflBegin
  <2> QED BY <2>1, Forms, SMT DEF DeflEnd, OtherCommand
<1>2. r.flaw = f /\ r.start = o.start /\ r.size = o.size
  BY <1>1 DEF DeflBegin
<1> DEFINE b == As(r, "FLASH_BEGIN")
<1>3. b.flaw = f /\ b.start = o.start /\ b.size = o.size
  BY <1>1, SMT DEF DeflBegin, As
<1>4. FlashBegin(b)
  BY DEF FlashDeflBegin
<1> HIDE DEF b
<1>5. CASE f = "size"
  <2>1. Keep /\ UNCHANGED deflVars /\ pc' = "idle"
    BY <1>2, <1>3, <1>4, <1>5 DEF FlashDeflBegin, FlashBegin, Respond
  <2> QED BY <2>1, QuietData DEF Keep, stateVars, eraseVars, chipVars, histVars, sessionVars,
             deflVars, loopVars, deflHist
<1>6. CASE f # "size"
  <2> DEFINE addr == AlignDown(o.start)
             rem == EraseSize(o.start, o.size)
  <2>1. o.start \in Nat /\ o.size \in Nat /\ o.start + o.size \in Nat /\ o.start + o.size =< CELLS
    BY DeflateAssumption, ChipAssumption, SMT
  <2>2. addr \in Nat /\ rem \in Nat /\ addr =< o.start
    BY <2>1, AlignDownFacts, EraseSizeFacts
  <2> HIDE DEF addr, rem
  <2>3. PICK result : ConditionalEraseNext(addr, rem, FALSE, result) /\ Respond(result)
    BY <1>3, <1>4, <1>6 DEF FlashBegin, addr, rem
  <2>4. /\ flash' \in [Cells -> Held]
        /\ \A c \in Cells : addr =< c /\ c < next_erase_addr' => flash'[c] = BLANK
    BY <2>2, <2>3, ErasedIsBlank DEF LInv
  <2>5. /\ offset' = o.start /\ begin' = o.start /\ announced' = o.size /\ pc' = "idle"
        /\ decompressor' = Fresh
    BY <1>2, <1>3, <1>4, <1>6, <2>3 DEF FlashDeflBegin, FlashBegin, Respond
  <2>6. OnChip'
    <3>1. AlignUp(o.start + o.size) =< CELLS
      BY <2>1, EndsOnChip
    <3> QED BY <2>5, <3>1 DEF OnChip, AlignUp, AlignDown
  <2>7. Ahead'
    <3> SUFFICES ASSUME NEW c \in Cells, o.start =< c, c < next_erase_addr'
                 PROVE  flash'[c] = BLANK
      BY <2>5 DEF Ahead
    <3>1. addr =< c
      BY <2>1, <2>2, SectorAssumption, SMT DEF Cells
    <3> QED BY <2>4, <3>1
  <2>8. Straight'
    BY <2>5, <2>7 DEF Straight, Taken
  <2> QED BY <2>4, <2>6, <2>8 DEF LInv
<1> QED BY <1>5, <1>6

\* FLASH_DEFL_DATA: the buffer is emptied only when nothing was taken yet, and what
\* came in order goes on where the decompressor is.
LEMMA DataHoldsData ==
  ASSUME DInv, LInv, pc = "idle", NEW r \in DeflRequests, FlashDeflData(r)
  PROVE  LInv'
<1>1. Keep
  BY DEF FlashDeflData
<1>2. CASE DeflDataResult(r) # "SUCCESS"
  <2>1. UNCHANGED deflVars /\ pc' = "idle"
    BY <1>2 DEF FlashDeflData, Respond
  <2> QED BY <1>1, <2>1, QuietData DEF Keep, stateVars, eraseVars, chipVars, histVars, sessionVars,
             deflVars, loopVars, deflHist
<1>3. CASE DeflDataResult(r) = "SUCCESS"
  <2>1. /\ input' = r.data /\ ResetBuffer(r)
        /\ UNCHANGED <<decompressor, announced, flash, sessionVars>>
    BY <1>1, <1>3 DEF FlashDeflData, Keep, stateVars, eraseVars, chipVars, histVars, sessionVars
  <2>2. OnChip' /\ Written' = Written /\ Inflated' = Inflated
    BY <2>1 DEF LInv, OnChip, Written, Inflated, sessionVars, AlignUp, AlignDown
  <2>3. clean' => clean /\ InOrder(r)
    BY <1>3 DEF FlashDeflData
  <2>4. Consecutive(r.data)
    BY RequestIsConsecutive DEF FlashDeflData, Executes
  <2>5. ASSUME in_progress, clean, InOrder(r) PROVE Taken' /\ Ahead' /\ Follows'
    <3>1. Taken /\ Ahead
      BY <2>5 DEF LInv, Straight
    <3>2. Follows'
      BY <2>1, <2>4, <2>5 DEF Follows, Consecutive, InOrder, Expected
    <3>3. CASE decompressor = Fresh
      <4>1. decompressed_data' = <<>>
        BY <2>1, <2>5, <3>3 DEF ResetBuffer, InOrder
      <4>2. Taken'
        BY <2>1, <3>1, <3>3, <4>1 DEF Taken, sessionVars
      <4>3. Ahead'
        BY <2>1, <3>1, <3>3 DEF Ahead, sessionVars
      <4> QED BY <3>2, <4>2, <4>3
    <3>4. CASE decompressor # Fresh
      <4>1. decompressed_data' = decompressed_data
        BY <2>1, <2>5, <3>4 DEF ResetBuffer, InOrder
      <4>2. Taken'
        BY <2>1, <2>2, <3>1, <3>4, <4>1 DEF Taken
      <4>3. Ahead'
        BY <2>1, <3>1, <3>4, <4>1 DEF Ahead, sessionVars
      <4> QED BY <3>2, <4>2, <4>3
    <3> QED BY <3>3, <3>4
  <2>6. Straight'
    BY <2>1, <2>3, <2>5 DEF Straight, sessionVars
  <2> QED BY <2>1, <2>2, <2>6 DEF LInv
<1> QED BY <1>2, <1>3

\* FLASH_DEFL_END closes the session or is refused.
LEMMA EndHoldsData ==
  ASSUME DInv, LInv, pc = "idle", NEW r \in DeflRequests, FlashDeflEnd(r)
  PROVE  LInv'
<1> DEFINE e == As(r, "FLASH_END")
<1>1. FlashEnd(e) /\ r.cmd = "FLASH_DEFL_END"
  BY DEF FlashDeflEnd
<1>2. e.flaw = r.flaw
  <2>1. PICK f : r = DeflEnd(f)
    BY <1>1, Forms, SMT DEF DeflBegin, OtherCommand
  <2> QED BY <2>1, SMT DEF DeflEnd, As
<1> HIDE DEF e
<1>3. EndResult(e) = EndResult(r)
  BY <1>2, Zenon DEF EndResult
<1>4. CASE EndResult(r) # "SUCCESS"
  <2>1. Keep /\ UNCHANGED deflVars /\ pc' = "idle"
    BY <1>1, <1>3, <1>4 DEF FlashEnd, FlashDeflEnd, Respond
  <2> QED BY <2>1, QuietData DEF Keep, stateVars, eraseVars, chipVars, histVars, sessionVars,
             deflVars, loopVars, deflHist
<1>5. CASE EndResult(r) = "SUCCESS"
  BY <1>1, <1>3, <1>5 DEF FlashEnd, chipVars, LInv, OnChip, Straight
<1> QED BY <1>4, <1>5

\* Every step.
LEMMA NextKeepsData == ASSUME DInv, LInv, [DeflNext]_allVars PROVE LInv'
<1>1. ASSUME NEW r \in DeflRequests, HandleDefl(r) PROVE LInv'
  <2>1. pc = "idle"
    BY <1>1 DEF HandleDefl
  <2>2. CASE (RefuseFrame(r) \/ ReportError(r) \/ OtherHandler(r)) /\ UNCHANGED deflVars
    <3>1. Keep /\ pc' = "idle"
      BY <2>1, <2>2 DEF RefuseFrame, ReportError, OtherHandler, Respond
    <3> QED BY <2>2, <3>1, QuietData DEF Keep, stateVars, eraseVars, chipVars, histVars,
               sessionVars, deflVars, loopVars, deflHist
  <2> QED BY <1>1, <2>1, <2>2, BeginHoldsData, DataHoldsData, EndHoldsData DEF HandleDefl
<1>2. CASE ChipReady /\ UNCHANGED deflVars
  BY <1>2, QuietData DEF ChipReady, stateVars, eraseVars, histVars, deflVars, loopVars,
     deflHist, sessionVars
<1>3. CASE UNCHANGED allVars
  BY <1>3, QuietData DEF allVars, vars, stateVars, eraseVars, chipVars, histVars, deflVars,
     loopVars, deflHist, sessionVars
<1> QED BY <1>1, <1>2, <1>3, LoopKeepsData DEF DeflNext

\* While a stream is given to FLASH_DEFL_DATA in order, the cells written, those in
\* decompressed_data and those the decompressor still holds are what the stream
\* inflates to: whatever the sizes, and through failed erases and writes.
THEOREM NothingIsLost == DeflSpec => []NothingLost
<1>1. DeflInit => DInv /\ LInv
  <2>1. DeflInit => LInv
    BY DEF DeflInit, Init, LInv, OnChip, Straight, Held, Cell
  <2> QED BY <2>1, InitDInv
<1>2. DInv /\ LInv /\ [DeflNext]_allVars => DInv' /\ LInv'
  BY NextKept, NextKeepsData DEF Kept
<1>3. LInv => NothingLost
  BY DEF LInv, Straight, Taken, NothingLost
<1> QED BY <1>1, <1>2, <1>3, PTL DEF DeflSpec
=============================================================================
