-------------------------- MODULE FlashSessionProofs --------------------------
(* Proofs about FlashSession.                                                  *)
EXTENDS FlashSession, TLAPS

(* Sectors.                                                                    *)

\* A number below SECTOR that is a multiple of it is 0.
LEMMA MultipleBelow ==
  ASSUME NEW k \in Int, SECTOR * k < SECTOR, SECTOR * k > -SECTOR
  PROVE  k = 0
<1>1. CASE k >= 1
  BY <1>1, SectorAssumption, SMT
<1>2. CASE k =< -1
  BY <1>2, SectorAssumption, SMT
<1> QED BY <1>1, <1>2, SMT

\* Division leaves a remainder below SECTOR.
LEMMA DivMod ==
  ASSUME NEW a \in Nat
  PROVE  /\ a % SECTOR \in 0..(SECTOR - 1)
         /\ a \div SECTOR \in Int
         /\ a = SECTOR * (a \div SECTOR) + (a % SECTOR)
BY SectorAssumption, SMT

\* Sums and differences of multiples are multiples.
LEMMA MultipleSum ==
  ASSUME NEW a \in Nat, NEW b \in Nat, a % SECTOR = 0, b % SECTOR = 0
  PROVE  (a + b) % SECTOR = 0
<1> DEFINE q == (a \div SECTOR) + (b \div SECTOR)
<1>1. a + b = SECTOR * q
  BY DivMod, SectorAssumption, SMT
<1> QED
  BY <1>1, DivMod, MultipleBelow, SectorAssumption, SMT

\* The difference of two multiples of SECTOR is one.
LEMMA MultipleDifference ==
  ASSUME NEW a \in Nat, NEW b \in Nat, b =< a, a % SECTOR = 0, b % SECTOR = 0
  PROVE  (a - b) % SECTOR = 0
<1> DEFINE q == (a \div SECTOR) - (b \div SECTOR)
<1>1. a - b = SECTOR * q
  BY DivMod, SectorAssumption, SMT
<1> QED
  BY <1>1, DivMod, MultipleBelow, SectorAssumption, SMT

\* A multiple of SECTOR that is not 0 is at least SECTOR.
LEMMA MultipleAtLeast ==
  ASSUME NEW a \in Nat, a > 0, a % SECTOR = 0
  PROVE  a >= SECTOR
BY SectorAssumption, SMT

\* AlignDown() goes to the start of the sector.
LEMMA AlignDownFacts ==
  ASSUME NEW a \in Nat
  PROVE  /\ AlignDown(a) \in Nat /\ AlignDown(a) =< a /\ a < AlignDown(a) + SECTOR
         /\ AlignDown(a) % SECTOR = 0
<1>1. AlignDown(a) = SECTOR * (a \div SECTOR)
  BY DivMod, SectorAssumption, SMT DEF AlignDown
<1>2. AlignDown(a) \in Nat /\ AlignDown(a) =< a /\ a < AlignDown(a) + SECTOR
  BY DivMod, SectorAssumption, SMT DEF AlignDown
<1>3. AlignDown(a) % SECTOR = 0
  BY <1>1, <1>2, DivMod, MultipleBelow, SectorAssumption, SMT
<1> QED BY <1>2, <1>3

\* AlignUp() goes to the end of the sector, unless it is there already.
LEMMA AlignUpFacts ==
  ASSUME NEW a \in Nat
  PROVE  /\ AlignUp(a) \in Nat /\ a =< AlignUp(a) /\ AlignUp(a) % SECTOR = 0
<1>1. a + SECTOR - 1 \in Nat
  BY SectorAssumption
<1>2. AlignUp(a) = AlignDown(a + SECTOR - 1)
  BY DEF AlignUp
<1> QED BY <1>1, <1>2, AlignDownFacts, SectorAssumption, SMT

\* EraseSize() is a whole number of sectors that covers the session.
LEMMA EraseSizeFacts ==
  ASSUME NEW s \in Nat, NEW n \in Nat
  PROVE  /\ EraseSize(s, n) \in Nat /\ EraseSize(s, n) % SECTOR = 0
         /\ AlignDown(s) + EraseSize(s, n) = AlignUp(s + n)
<1>1. AlignDown(s) \in Nat /\ AlignUp(s + n) \in Nat /\ AlignDown(s) =< AlignUp(s + n)
  BY AlignDownFacts, AlignUpFacts, s + n \in Nat, SMT
<1>2. AlignDown(s) % SECTOR = 0 /\ AlignUp(s + n) % SECTOR = 0
  BY AlignDownFacts, AlignUpFacts, s + n \in Nat
<1> QED BY <1>1, <1>2, MultipleDifference, SMT DEF EraseSize

-----------------------------------------------------------------------------
(* The erase.                                                                  *)

\* What one call of s_conditional_erase_next() may have done.
ErasedAhead(addr, rem) ==
  /\ next_erase_addr' \in Nat /\ erase_remaining' \in Nat
  /\ addr =< next_erase_addr' /\ next_erase_addr' + erase_remaining' = addr + rem
  /\ next_erase_addr' % SECTOR = 0 /\ erase_remaining' % SECTOR = 0
  /\ s_dirty_seen' \in BOOLEAN /\ busy' \in BOOLEAN /\ faults' \in 0..MAX_FAULTS
  /\ flash' \in [Cells -> Cell]
  /\ \A c \in Cells : flash'[c] # flash[c] => addr =< c /\ c < next_erase_addr'
  /\ \A c \in Cells : addr =< c /\ c < next_erase_addr' => flash'[c] = BLANK

\* A failure of the chip is counted.
LEMMA FaultCounted ==
  ASSUME faults \in 0..MAX_FAULTS, Fault
  PROVE  faults' \in 0..MAX_FAULTS
BY FaultAssumption, SMT DEF Fault

\* stub_lib_flash_start_next_erase() erases what it passes and nothing else.
LEMMA StartNextEraseStep ==
  ASSUME TypeOK, NEW addr \in Nat, NEW rem \in Nat, NEW result,
         addr % SECTOR = 0, rem % SECTOR = 0, s_dirty_seen' \in BOOLEAN,
         StartNextErase(addr, rem, result)
  PROVE  ErasedAhead(addr, rem)
<1>1. CASE next_erase_addr' = addr /\ erase_remaining' = rem /\ UNCHANGED chipVars
  BY <1>1, SMT DEF TypeOK, ErasedAhead, chipVars
<1>2. ASSUME NEW n \in 1..rem, n % SECTOR = 0,
             flash' = Erased(flash, addr, n), busy' = TRUE, UNCHANGED faults,
             next_erase_addr' = addr + n, erase_remaining' = rem - n
      PROVE  ErasedAhead(addr, rem)
  <2>1. n \in Nat /\ n =< rem
    OBVIOUS
  <2>2. (addr + n) % SECTOR = 0 /\ (rem - n) % SECTOR = 0
    BY <1>2, <2>1, MultipleSum, MultipleDifference
  <2>3. /\ flash' \in [Cells -> Cell]
        /\ \A c \in Cells : flash'[c] # flash[c] => addr =< c /\ c < addr + n
        /\ \A c \in Cells : addr =< c /\ c < addr + n => flash'[c] = BLANK
    BY <1>2, SMT DEF TypeOK, Erased, Cell
  <2> QED BY <1>2, <2>1, <2>2, <2>3, SMT DEF TypeOK, ErasedAhead
<1>3. CASE Fault /\ next_erase_addr' = addr /\ erase_remaining' = rem
           /\ UNCHANGED <<flash, busy>>
  BY <1>3, FaultCounted, SMT DEF TypeOK, ErasedAhead
<1> QED BY <1>1, <1>2, <1>3 DEF StartNextErase

\* A sector is passed when it is blank or erased, and nothing else changes.
LEMMA ConditionalEraseStep ==
  ASSUME TypeOK, NEW addr \in Nat, NEW rem \in Nat, NEW dirty \in BOOLEAN, NEW result,
         addr % SECTOR = 0, rem % SECTOR = 0,
         ConditionalEraseNext(addr, rem, dirty, result)
  PROVE  ErasedAhead(addr, rem)
<1>1. CASE next_erase_addr' = addr /\ erase_remaining' = rem /\ s_dirty_seen' = dirty
           /\ UNCHANGED chipVars
  BY <1>1, SMT DEF TypeOK, ErasedAhead, chipVars
<1>2. CASE rem > 0 /\ SkipBlankSector(addr, rem, result)
  <2>1. rem >= SECTOR /\ SECTOR \in Nat /\ Lesser(rem, SECTOR) = SECTOR
    BY <1>2, MultipleAtLeast, SectorAssumption, SMT DEF Lesser
  <2>2. SECTOR % SECTOR = 0
    BY SectorAssumption, DivMod, MultipleBelow, SMT
  <2>3. (addr + SECTOR) % SECTOR = 0 /\ (rem - SECTOR) % SECTOR = 0
    BY <2>1, <2>2, MultipleSum, MultipleDifference
  <2>4. \A c \in Cells : addr =< c /\ c < addr + SECTOR => flash[c] = BLANK
    BY <1>2 DEF SkipBlankSector, SectorIsBlank
  <2>5. s_dirty_seen' \in BOOLEAN /\ UNCHANGED chipVars
        /\ next_erase_addr' = addr + SECTOR /\ erase_remaining' = rem - SECTOR
    BY <1>2, <2>1 DEF SkipBlankSector
  <2> QED BY <2>1, <2>3, <2>4, <2>5, SMT DEF TypeOK, ErasedAhead, chipVars
<1>3. CASE Fault /\ next_erase_addr' = addr /\ erase_remaining' = rem
           /\ s_dirty_seen' = FALSE /\ UNCHANGED <<flash, busy>>
  <2>1. s_dirty_seen' \in BOOLEAN /\ faults' \in 0..MAX_FAULTS
    BY <1>3, FaultCounted DEF TypeOK
  <2> QED BY <1>3, <2>1, SMT DEF TypeOK, ErasedAhead
<1>4. CASE s_dirty_seen' = TRUE /\ StartNextErase(addr, rem, result)
  <2>1. s_dirty_seen' \in BOOLEAN
    BY <1>4
  <2> QED BY <1>4, <2>1, StartNextEraseStep
<1> QED BY <1>1, <1>2, <1>3, <1>4 DEF ConditionalEraseNext

-----------------------------------------------------------------------------
(* The inductive invariant.                                                    *)

\* It holds before the first command.
LEMMA InitIInv == Init => IInv
<1> SUFFICES ASSUME Init PROVE IInv
  OBVIOUS
<1>1. TypeOK
  <2>1. cur \in Seq(Value) /\ Len(cur) = 0
    BY SMT DEF Init
  <2>2. flash \in [Cells -> Cell]
    BY DEF Init, Cell
  <2>3. /\ in_progress \in BOOLEAN /\ s_dirty_seen \in BOOLEAN
        /\ busy \in BOOLEAN /\ torn \in BOOLEAN
        /\ accumulated_result \in Result /\ reply \in Result
    BY DEF Init, Result
  <2>4. faults \in 0..MAX_FAULTS /\ Len(cur) =< MAX_BLOCK
    BY <2>1, SectorAssumption, FaultAssumption, SMT DEF Init
  <2>5. /\ total_remaining \in Nat /\ offset \in Nat /\ begin \in Nat
        /\ next_erase_addr \in Nat /\ erase_remaining \in Nat
        /\ pc \in {"idle", "post"}
    BY SMT DEF Init
  <2> QED BY <2>1, <2>2, <2>3, <2>4, <2>5 DEF TypeOK
<1>2. SectorDiscipline
  BY SectorAssumption, SMT DEF Init, SectorDiscipline
<1> QED
  BY <1>1, <1>2 DEF Init, IInv, PostDiscipline, WritePosition, InChip, EraseReachesWrite,
                    BlankAhead

\* A step that leaves the session, the erase and the chip alone keeps it, when
\* what it leaves to write belongs to an open session.
LEMMA KeepStep ==
  ASSUME IInv, Keep, accumulated_result' \in Result, reply' \in Result,
         cur' \in Seq(Value), Len(cur') =< MAX_BLOCK,
         pc' \in {"idle", "post"}, pc' = "post" => in_progress
  PROVE  IInv'
<1>1. TypeOK'
  BY SMT DEF IInv, TypeOK, Keep, stateVars, eraseVars, chipVars, histVars
<1>2. PostDiscipline' /\ SectorDiscipline' /\ InChip'
  BY DEF IInv, PostDiscipline, SectorDiscipline, InChip, Keep, stateVars, eraseVars
<1>3. WritePosition' /\ EraseReachesWrite'
  BY DEF IInv, WritePosition, EraseReachesWrite, Keep, stateVars, eraseVars, histVars,
         AlignUp, AlignDown
<1>4. BlankAhead'
  BY DEF IInv, BlankAhead, Keep, stateVars, eraseVars, chipVars, histVars
<1> QED BY <1>1, <1>2, <1>3, <1>4 DEF IInv

\* The data of a block is a sequence of values.
LEMMA DataIsSequence ==
  ASSUME NEW r \in Request, r.cmd = "FLASH_DATA"
  PROVE  r.data \in Seq(Value) /\ Len(r.data) =< MAX_BLOCK
<1>1. PICK f \in FrameFlaw \cup {"short", "length", "checksum"},
           d \in UNION {[1..n -> Value] : n \in 0..MAX_BLOCK} : r = DataOf(f, d)
  BY SMT DEF Request, DataOf, Begin, End, OtherCommand
<1>2. PICK n \in 0..MAX_BLOCK : d \in [1..n -> Value]
  OBVIOUS
<1>3. n \in Nat /\ n =< MAX_BLOCK
  BY SectorAssumption, SMT
<1>4. d \in Seq(Value) /\ Len(d) = n
  BY <1>2, <1>3, SMT
<1>5. r.data = d
  BY <1>1 DEF DataOf
<1> QED BY <1>3, <1>4, <1>5, SMT

\* A session starts inside the natural numbers.
LEMMA BeginIsNatural ==
  ASSUME NEW r \in Request, r.cmd = "FLASH_BEGIN"
  PROVE  r.start \in Nat /\ r.size \in Nat
<1>1. PICK f \in FrameFlaw \cup {"size"}, m \in 0..CELLS, n \in 0..CELLS :
           r = Begin(f, m, n)
  BY SMT DEF Request, DataOf, Begin, End, OtherCommand
<1>2. r.start = m /\ r.size = n
  BY <1>1 DEF Begin
<1> QED BY <1>2, SectorAssumption, SMT

-----------------------------------------------------------------------------
(* One lemma per action.                                                       *)

\* A refused frame, a reported error or another command.
LEMMA PlainStep ==
  ASSUME IInv, NEW r \in Request, pc = "idle",
         RefuseFrame(r) \/ ReportError(r) \/ OtherHandler(r)
  PROVE  IInv'
<1>1. Keep
  BY DEF RefuseFrame, ReportError, OtherHandler
<1>2. accumulated_result' \in Result /\ reply' \in Result
  BY SMT DEF RefuseFrame, ReportError, OtherHandler, Respond, Result, IInv, TypeOK
<1>3. cur' = cur /\ pc' = "idle"
  BY DEF RefuseFrame, ReportError, OtherHandler, Respond
<1>4. cur' \in Seq(Value) /\ Len(cur') =< MAX_BLOCK
  BY <1>3 DEF IInv, TypeOK
<1> QED BY <1>1, <1>2, <1>3, <1>4, KeepStep

\* FLASH_BEGIN, refused or not, keeps the inductive invariant.
LEMMA FlashBeginStep ==
  ASSUME IInv, NEW r \in Request, Fits(r), pc = "idle", FlashBegin(r)
  PROVE  IInv'
<1>0. cur \in Seq(Value) /\ Len(cur) =< MAX_BLOCK
  BY DEF IInv, TypeOK
<1>1. CASE r.flaw = "size"
  <2>1. Keep /\ Respond("BAD_DATA_LEN")
    BY <1>1 DEF FlashBegin
  <2>2. accumulated_result' \in Result /\ reply' \in Result /\ cur' = cur /\ pc' = "idle"
    BY <2>1 DEF Respond, Result
  <2>3. cur' \in Seq(Value) /\ Len(cur') =< MAX_BLOCK
    BY <1>0, <2>2
  <2> QED BY <2>1, <2>2, <2>3, KeepStep
<1>2. CASE r.flaw # "size"
  <2> DEFINE addr == AlignDown(r.start)
             rem == EraseSize(r.start, r.size)
  <2>1. r.start \in Nat /\ r.size \in Nat
    BY BeginIsNatural DEF FlashBegin, Executes
  <2>2. PICK result \in Result :
             ConditionalEraseNext(addr, rem, FALSE, result) /\ Respond(result)
    BY <1>2 DEF FlashBegin
  <2>3. /\ addr \in Nat /\ rem \in Nat /\ addr % SECTOR = 0 /\ rem % SECTOR = 0
        /\ addr =< r.start /\ addr + rem = AlignUp(r.start + r.size)
    BY <2>1, AlignDownFacts, EraseSizeFacts
  <2> HIDE DEF addr, rem
  <2>4. ErasedAhead(addr, rem)
    BY <2>2, <2>3, ConditionalEraseStep DEF IInv
  <2>5. /\ total_remaining' = r.size /\ offset' = r.start /\ in_progress' = TRUE
        /\ begin' = r.start /\ torn' = FALSE
        /\ accumulated_result' \in Result /\ reply' \in Result
        /\ cur' = cur /\ pc' = "idle"
    BY <1>2, <2>2 DEF FlashBegin, Respond, Result
  <2>6. TypeOK'
    <3>1. /\ accumulated_result' \in Result /\ reply' \in Result
          /\ cur' \in Seq(Value) /\ Len(cur') =< MAX_BLOCK
          /\ pc' \in {"idle", "post"} /\ in_progress' \in BOOLEAN /\ torn' \in BOOLEAN
      BY <1>0, <2>5
    <3>2. /\ total_remaining' \in Nat /\ offset' \in Nat /\ begin' \in Nat
      BY <2>1, <2>5
    <3> QED BY <2>4, <3>1, <3>2 DEF TypeOK, ErasedAhead
  <2>7. PostDiscipline' /\ SectorDiscipline' /\ InChip'
    BY <2>4, <2>5 DEF PostDiscipline, SectorDiscipline, ErasedAhead, InChip, Fits,
                      FlashBegin, Executes
  <2>8. WritePosition'
    <3>1. AlignDown(begin') =< next_erase_addr'
      BY <2>4, <2>5 DEF ErasedAhead, addr
    <3> QED BY <2>1, <2>5, <3>1, SMT DEF WritePosition, AlignDown
  <2>9. EraseReachesWrite'
    BY <2>3, <2>4, <2>5 DEF EraseReachesWrite, ErasedAhead, AlignUp, AlignDown
  <2>10. BlankAhead'
    <3>1. SUFFICES ASSUME NEW c \in Cells, offset' =< c, c < next_erase_addr'
                   PROVE  flash'[c] = BLANK
      BY DEF BlankAhead
    <3>2. addr =< c
      BY <2>1, <2>3, <2>5, <3>1, SectorAssumption, SMT DEF Cells
    <3> QED BY <2>4, <3>1, <3>2 DEF ErasedAhead
  <2> QED BY <2>6, <2>7, <2>8, <2>9, <2>10 DEF IInv
<1> QED BY <1>1, <1>2

\* FLASH_DATA keeps it up to its response.
LEMMA FlashDataStep ==
  ASSUME IInv, NEW r \in Request, pc = "idle", FlashData(r)
  PROVE  IInv'
<1>0. Keep
  BY DEF FlashData
<1>1. CASE DataResult(r) = "SUCCESS"
  <2>1. reply' = "SUCCESS" /\ pc' = "post" /\ cur' = r.data
        /\ UNCHANGED accumulated_result
    BY <1>1 DEF FlashData
  <2>2. in_progress
    BY <1>1, SMT DEF DataResult, IInv, TypeOK
  <2>3. cur' \in Seq(Value) /\ Len(cur') =< MAX_BLOCK
    BY <2>1, DataIsSequence DEF FlashData, Executes
  <2>4. accumulated_result' \in Result /\ reply' \in Result
    BY <2>1 DEF IInv, TypeOK, Result
  <2> QED BY <1>0, <2>1, <2>2, <2>3, <2>4, KeepStep
<1>2. CASE DataResult(r) # "SUCCESS"
  <2>1. Respond(DataResult(r))
    BY <1>2 DEF FlashData
  <2>2. DataResult(r) \in Result
    <3>1. r.flaw \in {"none", "short", "length", "checksum"}
      <4>1. PICK f \in FrameFlaw \cup {"short", "length", "checksum"},
                 d \in UNION {[1..n -> Value] : n \in 0..MAX_BLOCK} : r = DataOf(f, d)
        BY SMT DEF Request, DataOf, Begin, End, OtherCommand, FlashData, Executes
      <4>2. r.flaw = f
        BY <4>1 DEF DataOf
      <4> QED BY <4>2 DEF FrameFlaw, FlashData, Executes
    <3> QED BY <3>1, SMT DEF DataResult, Result, IInv, TypeOK
  <2>3. /\ accumulated_result' \in Result /\ reply' \in Result
        /\ cur' = cur /\ pc' = "idle"
    BY <2>1, <2>2 DEF Respond, Result
  <2>4. cur' \in Seq(Value) /\ Len(cur') =< MAX_BLOCK
    BY <2>3 DEF IInv, TypeOK
  <2> QED BY <1>0, <2>3, <2>4, KeepStep
<1> QED BY <1>1, <1>2

\* FLASH_END keeps it, whether it closes the session or not.
LEMMA FlashEndStep ==
  ASSUME IInv, NEW r \in Request, pc = "idle", FlashEnd(r)
  PROVE  IInv'
<1>1. Respond(EndResult(r)) /\ EndResult(r) \in Result
  BY SMT DEF FlashEnd, EndResult, Result
<1>2. /\ accumulated_result' \in Result /\ reply' \in Result
      /\ cur' = cur /\ pc' = "idle"
  BY <1>1 DEF Respond, Result
<1>3. cur' \in Seq(Value) /\ Len(cur') =< MAX_BLOCK
  BY <1>2 DEF IInv, TypeOK
<1>4. CASE EndResult(r) # "SUCCESS"
  <2>1. Keep
    BY <1>4 DEF FlashEnd
  <2> QED BY <1>2, <1>3, <2>1, KeepStep
<1>5. CASE EndResult(r) = "SUCCESS"
  <2>1. /\ total_remaining' = 0 /\ offset' = 0 /\ in_progress' = FALSE
        /\ next_erase_addr' = 0 /\ erase_remaining' = 0
        /\ begin' = 0 /\ torn' = FALSE
        /\ UNCHANGED <<s_dirty_seen, chipVars>>
    BY <1>5 DEF FlashEnd
  <2>2. TypeOK'
    <3>1. /\ total_remaining' \in Nat /\ offset' \in Nat /\ begin' \in Nat
          /\ next_erase_addr' \in Nat /\ erase_remaining' \in Nat
      BY <2>1, SMT
    <3>2. in_progress' \in BOOLEAN /\ torn' \in BOOLEAN /\ pc' \in {"idle", "post"}
      BY <1>2, <2>1
    <3>3. /\ s_dirty_seen' \in BOOLEAN /\ flash' \in [Cells -> Cell]
          /\ busy' \in BOOLEAN /\ faults' \in 0..MAX_FAULTS
      BY <2>1 DEF IInv, TypeOK, chipVars
    <3> QED BY <1>2, <1>3, <3>1, <3>2, <3>3 DEF TypeOK
  <2>3. SectorDiscipline'
    BY <2>1, SectorAssumption, SMT DEF SectorDiscipline
  <2> QED BY <1>2, <2>1, <2>2, <2>3 DEF IInv, PostDiscipline, WritePosition, InChip,
                                        EraseReachesWrite, BlankAhead
<1> QED BY <1>4, <1>5

\* How much is written, and that it is written at the write position.
LEMMA WriteSizeFacts ==
  ASSUME TypeOK
  PROVE  /\ WriteSize \in Nat /\ WriteSize =< total_remaining /\ WriteSize =< Len(cur)
         /\ EraseTarget = offset + WriteSize
BY SMT DEF TypeOK, WriteSize, EraseTarget, Lesser

\* A round of the erase loop before a write keeps it.
LEMMA EnsureErasedStep ==
  ASSUME IInv, EnsureErased
  PROVE  IInv'
<1>1. PICK result \in Result :
        /\ ConditionalEraseNext(next_erase_addr, erase_remaining, s_dirty_seen, result)
        /\ IF result = "SUCCESS" THEN UNCHANGED <<accumulated_result, pc, cur>>
                                 ELSE Finish(result)
  BY DEF EnsureErased
<1>2. ErasedAhead(next_erase_addr, erase_remaining)
  <2>1. /\ next_erase_addr \in Nat /\ erase_remaining \in Nat /\ s_dirty_seen \in BOOLEAN
        /\ next_erase_addr % SECTOR = 0 /\ erase_remaining % SECTOR = 0
    BY DEF IInv, TypeOK, SectorDiscipline
  <2> QED BY <1>1, <2>1, ConditionalEraseStep DEF IInv
<1>3. UNCHANGED <<stateVars, reply, histVars>> /\ pc = "post"
  BY DEF EnsureErased
<1>4. /\ accumulated_result' \in Result /\ pc' \in {"idle", "post"}
      /\ cur' \in Seq(Value) /\ Len(cur') =< MAX_BLOCK
  <2>1. CASE result = "SUCCESS"
    BY <1>1, <2>1 DEF IInv, TypeOK
  <2>2. CASE result # "SUCCESS"
    <3>1. accumulated_result' = result /\ pc' = "idle" /\ cur' = <<>>
      BY <1>1, <2>2 DEF Finish
    <3>2. cur' \in Seq(Value) /\ Len(cur') = 0
      BY <3>1, SMT
    <3> QED BY <1>1, <3>1, <3>2, SectorAssumption, SMT
  <2> QED BY <2>1, <2>2
<1>5. TypeOK'
  BY <1>2, <1>3, <1>4 DEF IInv, TypeOK, ErasedAhead, stateVars, histVars
<1>6. PostDiscipline' /\ SectorDiscipline' /\ InChip'
  BY <1>2, <1>3 DEF IInv, PostDiscipline, SectorDiscipline, InChip, ErasedAhead, stateVars
<1>7. WritePosition'
  <2>1. /\ next_erase_addr \in Nat /\ next_erase_addr' \in Nat
        /\ next_erase_addr =< next_erase_addr'
        /\ begin' = begin /\ offset' = offset /\ in_progress' = in_progress
        /\ begin \in Nat /\ offset \in Nat /\ AlignDown(begin) \in Nat
    BY <1>2, <1>3, AlignDownFacts DEF IInv, TypeOK, ErasedAhead, stateVars, histVars
  <2>2. AlignDown(begin') = AlignDown(begin)
    BY <2>1 DEF AlignDown
  <2> HIDE DEF AlignDown
  <2> QED BY <2>1, <2>2, SMT DEF IInv, WritePosition
<1>8. EraseReachesWrite'
  BY <1>2, <1>3 DEF IInv, EraseReachesWrite, ErasedAhead, stateVars, AlignUp, AlignDown
<1>9. BlankAhead'
  <2>1. SUFFICES ASSUME in_progress, ~torn, NEW c \in Cells,
                        offset =< c, c < next_erase_addr'
                 PROVE  flash'[c] = BLANK
    BY <1>3 DEF BlankAhead, stateVars, histVars
  <2>2. CASE c < next_erase_addr
    <3>1. flash[c] = BLANK
      BY <2>1, <2>2 DEF IInv, BlankAhead
    <3>2. ~(next_erase_addr =< c)
      BY <2>2, SMT DEF IInv, TypeOK, Cells
    <3> QED BY <1>2, <3>1, <3>2 DEF ErasedAhead
  <2>3. CASE ~(c < next_erase_addr)
    <3>1. next_erase_addr =< c
      BY <2>3, SectorAssumption, SMT DEF IInv, TypeOK, Cells
    <3> QED BY <1>2, <2>1, <3>1 DEF ErasedAhead
  <2> QED BY <2>2, <2>3
<1> QED BY <1>5, <1>6, <1>7, <1>8, <1>9 DEF IInv

\* Programming keeps cells cells, and touches only those it is told to.
LEMMA WithDataFacts ==
  ASSUME TypeOK, NEW n \in Nat, n =< Len(cur)
  PROVE  /\ WithData(flash, offset, cur, n) \in [Cells -> Cell]
         /\ \A c \in Cells : WithData(flash, offset, cur, n)[c] # flash[c]
                              => offset =< c /\ c < offset + n
<1>1. ASSUME NEW c \in Cells, offset =< c, c < offset + n
      PROVE  Programmed(flash[c], cur[c - offset + 1]) \in Cell
  <2>1. c - offset + 1 \in 1..Len(cur)
    BY <1>1, SectorAssumption, SMT DEF TypeOK, Cells
  <2>2. cur[c - offset + 1] \in Value
    BY <2>1, SMT DEF TypeOK
  <2>3. flash[c] \in Cell
    BY <1>1 DEF TypeOK
  <2> QED BY <2>2, <2>3, SMT DEF Programmed, Cell
<1>2. \A c \in Cells : flash[c] \in Cell
  BY DEF TypeOK
<1> HIDE DEF Cell
<1> QED BY <1>1, <1>2, SMT DEF WithData

\* Writing a block keeps it: the erase is already past the block.
LEMMA WriteBlockStep ==
  ASSUME IInv, WriteBlock
  PROVE  IInv'
<1> DEFINE n == WriteSize
<1>1. /\ n \in Nat /\ n =< total_remaining /\ n =< Len(cur)
      /\ next_erase_addr >= offset + n
  BY WriteSizeFacts DEF IInv, WriteBlock
<1>2. /\ total_remaining' = total_remaining - n /\ offset' = offset + n
      /\ flash' = WithData(flash, offset, cur, n)
      /\ accumulated_result' = "SUCCESS" /\ pc' = "idle" /\ cur' = <<>>
      /\ UNCHANGED <<in_progress, eraseVars, reply, busy, faults, histVars>>
  BY DEF WriteBlock, Finish
<1> HIDE DEF n
<1>3. /\ total_remaining \in Nat /\ offset \in Nat /\ next_erase_addr \in Nat
      /\ begin \in Nat
  BY DEF IInv, TypeOK
<1>4. total_remaining' \in Nat /\ offset' \in Nat
      /\ offset' + total_remaining' = offset + total_remaining
  BY <1>1, <1>2, <1>3, SMT
<1>5. TypeOK'
  <2>1. flash' \in [Cells -> Cell]
    BY <1>1, <1>2, WithDataFacts DEF IInv
  <2>2. cur' \in Seq(Value) /\ Len(cur') = 0
    BY <1>2, SMT
  <2>3. Len(cur') =< MAX_BLOCK
    BY <2>2, SectorAssumption, SMT
  <2>4. accumulated_result' \in Result /\ pc' \in {"idle", "post"}
    BY <1>2 DEF Result
  <2> QED BY <1>2, <1>4, <2>1, <2>2, <2>3, <2>4 DEF IInv, TypeOK, eraseVars, histVars
<1>6. PostDiscipline' /\ SectorDiscipline' /\ InChip'
  BY <1>2, <1>4 DEF IInv, PostDiscipline, SectorDiscipline, InChip, eraseVars
<1>7. WritePosition'
  <2>1. AlignDown(begin') = AlignDown(begin)
    BY <1>2 DEF AlignDown, histVars
  <2>2. begin' = begin /\ next_erase_addr' = next_erase_addr /\ in_progress' = in_progress
    BY <1>2 DEF eraseVars, histVars
  <2> HIDE DEF AlignDown
  <2> QED BY <1>1, <1>2, <1>3, <2>1, <2>2, SMT DEF IInv, WritePosition
<1>8. EraseReachesWrite'
  BY <1>2, <1>4 DEF IInv, EraseReachesWrite, eraseVars, AlignUp, AlignDown
<1>9. BlankAhead'
  <2>1. SUFFICES ASSUME in_progress, ~torn, NEW c \in Cells,
                        offset + n =< c, c < next_erase_addr
                 PROVE  flash'[c] = BLANK
    BY <1>2 DEF BlankAhead, eraseVars, histVars
  <2>2. offset =< c /\ ~(c < offset + n)
    BY <1>1, <1>3, <2>1, SectorAssumption, SMT DEF Cells
  <2>3. flash[c] = BLANK
    BY <2>1, <2>2 DEF IInv, BlankAhead
  <2> QED BY <1>1, <1>2, <2>2, <2>3, WithDataFacts DEF IInv
<1> QED BY <1>5, <1>6, <1>7, <1>8, <1>9 DEF IInv

\* A write that fails keeps it: the write position has not moved.
LEMMA WriteFailsStep ==
  ASSUME IInv, WriteFails
  PROVE  IInv'
<1>1. PICK n \in 0..WriteSize : flash' = WithData(flash, offset, cur, n)
  BY DEF WriteFails
<1>2. n \in Nat /\ n =< Len(cur)
  BY WriteSizeFacts, SMT DEF IInv, TypeOK
<1>3. /\ torn' = TRUE /\ faults' \in 0..MAX_FAULTS
      /\ accumulated_result' = "FAILED_SPI_OP" /\ pc' = "idle" /\ cur' = <<>>
      /\ UNCHANGED <<stateVars, eraseVars, reply, busy, begin>>
  BY FaultCounted DEF WriteFails, Finish, IInv, TypeOK
<1>4. TypeOK'
  <2>1. flash' \in [Cells -> Cell]
    BY <1>1, <1>2, WithDataFacts DEF IInv
  <2>2. cur' \in Seq(Value) /\ Len(cur') = 0
    BY <1>3, SMT
  <2>3. Len(cur') =< MAX_BLOCK
    BY <2>2, SectorAssumption, SMT
  <2>4. accumulated_result' \in Result /\ pc' \in {"idle", "post"} /\ torn' \in BOOLEAN
    BY <1>3 DEF Result
  <2> QED BY <1>3, <2>1, <2>2, <2>3, <2>4 DEF IInv, TypeOK, stateVars, eraseVars
<1>5. PostDiscipline' /\ SectorDiscipline' /\ BlankAhead'
  BY <1>3 DEF IInv, PostDiscipline, SectorDiscipline, BlankAhead, eraseVars
<1>6. WritePosition' /\ InChip' /\ EraseReachesWrite'
  BY <1>3 DEF IInv, WritePosition, InChip, EraseReachesWrite, stateVars, eraseVars, AlignUp, AlignDown
<1> QED BY <1>4, <1>5, <1>6 DEF IInv

\* The end of an erase in the chip keeps it.
LEMMA ChipReadyStep ==
  ASSUME IInv, ChipReady
  PROVE  IInv'
<1>1. busy' = FALSE /\ UNCHANGED <<stateVars, eraseVars, accumulated_result, cur, pc, reply,
                                  flash, faults, histVars>>
  BY DEF ChipReady
<1>2. TypeOK'
  BY <1>1 DEF IInv, TypeOK, stateVars, eraseVars, histVars
<1>3. PostDiscipline' /\ SectorDiscipline' /\ BlankAhead'
  BY <1>1 DEF IInv, PostDiscipline, SectorDiscipline, BlankAhead, stateVars, eraseVars, histVars
<1>4. WritePosition' /\ InChip' /\ EraseReachesWrite'
  BY <1>1 DEF IInv, WritePosition, InChip, EraseReachesWrite, stateVars, eraseVars, histVars,
              AlignUp, AlignDown
<1> QED BY <1>2, <1>3, <1>4 DEF IInv

\* Nothing moves.
LEMMA StutterStep ==
  ASSUME IInv, UNCHANGED vars
  PROVE  IInv'
<1>1. Keep /\ UNCHANGED <<accumulated_result, cur, pc, reply>>
  BY DEF vars, Keep
<1> QED BY <1>1, KeepStep DEF IInv, TypeOK, PostDiscipline

\* Every step keeps the inductive invariant.
LEMMA NextIInv == IInv /\ [Next]_vars => IInv'
<1> SUFFICES ASSUME IInv, [Next]_vars PROVE IInv'
  OBVIOUS
<1>1. ASSUME NEW r \in Request, Fits(r), HandleCommand(r)
      PROVE  IInv'
  BY <1>1, PlainStep, FlashBeginStep, FlashDataStep, FlashEndStep DEF HandleCommand
<1>2. CASE PostProcess
  BY <1>2, EnsureErasedStep, WriteBlockStep, WriteFailsStep DEF PostProcess
<1>3. CASE ChipReady
  BY <1>3, ChipReadyStep
<1>4. CASE UNCHANGED vars
  BY <1>4, StutterStep
<1> QED BY <1>1, <1>2, <1>3, <1>4 DEF Next

\* It is an invariant.
LEMMA Inductive == Spec => []IInv
BY InitIInv, NextIInv, PTL DEF Spec

-----------------------------------------------------------------------------
(* Theorems.                                                                   *)

\* Type correctness; no count of what is left to write or erase passes zero.
THEOREM TypeCorrect == Spec => []TypeOK
<1>1. IInv => TypeOK
  BY DEF IInv
<1> QED BY <1>1, Inductive, PTL

\* For every flash, sector size and sequence of requests, what is left to erase
\* ends with the session: the loop that erases ahead of a write cannot run dry.
THEOREM EraseReaches == Spec => []EraseReachesWrite
<1>1. IInv => EraseReachesWrite
  BY DEF IInv
<1> QED BY <1>1, Inductive, PTL

\* The skip-erase heuristic is correct: whatever was skipped and whatever was
\* erased, only blank cells lie between the write and the erase position.
THEOREM OnlyBlankAhead == Spec => []BlankAhead
<1>1. IInv => BlankAhead
  BY DEF IInv
<1> QED BY <1>1, Inductive, PTL

\* A part is at most the sum.
LEMMA PartOfSum ==
  ASSUME NEW a \in Nat, NEW b \in Nat, NEW s \in Nat, NEW t \in Nat, a + b = s + t
  PROVE  a =< s + t
BY SMT

\* Arithmetic of write positions.
LEMMA DifferenceIsNatural ==
  ASSUME NEW a \in Nat, NEW b \in Nat, b =< a
  PROVE  a - b \in Nat
BY SMT

(* A step changes the flash only ahead of the write position.                  *)

\* The session is left as it is, and the flash with it.
LEMMA KeepConfined ==
  ASSUME UNCHANGED flash
  PROVE  ConfinedChange
BY DEF ConfinedChange

\* FLASH_BEGIN erases nothing before the sector its session starts in.
LEMMA FlashBeginConfined ==
  ASSUME IInv, NEW r \in Request, FlashBegin(r), r.flaw # "size"
  PROVE  ConfinedChange
<1> DEFINE addr == AlignDown(r.start)
           rem == EraseSize(r.start, r.size)
<1>1. r.start \in Nat /\ r.size \in Nat
  BY BeginIsNatural DEF FlashBegin, Executes
<1>2. PICK result \in Result : ConditionalEraseNext(addr, rem, FALSE, result)
  BY DEF FlashBegin
<1>3. /\ addr \in Nat /\ rem \in Nat /\ addr % SECTOR = 0 /\ rem % SECTOR = 0
      /\ addr + rem = AlignUp(r.start + r.size)
  BY <1>1, AlignDownFacts, EraseSizeFacts
<1> HIDE DEF rem
<1>4. total_remaining' = r.size /\ offset' = r.start /\ begin' = r.start
  BY DEF FlashBegin
<1>5. AlignDown(begin') = addr /\ AlignUp(offset' + total_remaining') = addr + rem
  BY <1>3, <1>4 DEF AlignUp, AlignDown
<1> HIDE DEF addr
<1>6. ErasedAhead(addr, rem)
  BY <1>2, <1>3, ConditionalEraseStep DEF IInv
<1>7. SUFFICES ASSUME NEW c \in Cells, flash'[c] # flash[c]
               PROVE  addr =< c /\ c < addr + rem
  BY <1>4, <1>5 DEF ConfinedChange
<1>8. addr =< c /\ c < next_erase_addr'
  BY <1>6, <1>7 DEF ErasedAhead
<1>9. next_erase_addr' =< addr + rem
  <2>1. /\ next_erase_addr' \in Nat /\ erase_remaining' \in Nat
        /\ next_erase_addr' + erase_remaining' = addr + rem
    BY <1>6 DEF ErasedAhead
  <2> QED BY <1>3, <2>1, PartOfSum
<1> QED BY <1>3, <1>6, <1>8, <1>9, SectorAssumption, SMT DEF ErasedAhead, Cells

\* The erase before a write touches nothing behind the erase position.
LEMMA EnsureErasedConfined ==
  ASSUME IInv, EnsureErased
  PROVE  /\ ConfinedChange
         /\ \A c \in Cells : flash'[c] # flash[c] => next_erase_addr =< c
<1>1. ErasedAhead(next_erase_addr, erase_remaining)
  <2>1. /\ next_erase_addr \in Nat /\ erase_remaining \in Nat /\ s_dirty_seen \in BOOLEAN
        /\ next_erase_addr % SECTOR = 0 /\ erase_remaining % SECTOR = 0
    BY DEF IInv, TypeOK, SectorDiscipline
  <2> QED BY <2>1, ConditionalEraseStep DEF IInv, EnsureErased
<1>2. UNCHANGED <<stateVars, histVars>> /\ pc = "post"
  BY DEF EnsureErased
<1>3. /\ next_erase_addr + erase_remaining = AlignUp(offset + total_remaining)
      /\ AlignDown(begin) =< next_erase_addr
      /\ offset = begin \/ offset =< next_erase_addr
  BY <1>2 DEF IInv, EraseReachesWrite, WritePosition, PostDiscipline
<1>4. /\ AlignUp(offset' + total_remaining') = AlignUp(offset + total_remaining)
      /\ AlignDown(begin') = AlignDown(begin) /\ offset' = offset /\ begin' = begin
  BY <1>2 DEF stateVars, histVars, AlignUp, AlignDown
<1>5. /\ next_erase_addr \in Nat /\ erase_remaining \in Nat /\ offset \in Nat
      /\ begin \in Nat /\ AlignDown(begin) \in Nat
  BY AlignDownFacts DEF IInv, TypeOK
<1> HIDE DEF AlignUp, AlignDown
<1>6. ASSUME NEW c \in Cells, flash'[c] # flash[c]
      PROVE  /\ next_erase_addr =< c /\ c < AlignUp(offset + total_remaining)
             /\ AlignDown(begin) =< c /\ (offset = begin \/ offset =< c)
  <2>1. next_erase_addr =< c /\ c < next_erase_addr'
    BY <1>1, <1>6 DEF ErasedAhead
  <2>2. next_erase_addr' =< next_erase_addr + erase_remaining
    <3>1. /\ next_erase_addr' \in Nat /\ erase_remaining' \in Nat
          /\ next_erase_addr' + erase_remaining' = next_erase_addr + erase_remaining
      BY <1>1 DEF ErasedAhead
    <3> QED BY <1>5, <3>1, PartOfSum
  <2> QED BY <1>1, <1>3, <1>5, <2>1, <2>2, SectorAssumption, SMT DEF ErasedAhead, Cells
<1>7. ConfinedChange
  BY <1>4, <1>6 DEF ConfinedChange
<1> QED BY <1>6, <1>7

\* A write, whole or in part, changes nothing outside its session.
LEMMA WriteConfined ==
  ASSUME IInv, NEW n \in Nat, n =< WriteSize, flash' = WithData(flash, offset, cur, n)
  PROVE  ConfinedChange
<1>1. n =< total_remaining /\ n =< Len(cur)
  BY WriteSizeFacts, SMT DEF IInv, TypeOK
<1>2. offset \in Nat /\ total_remaining \in Nat
  BY DEF IInv, TypeOK
<1>3. /\ offset + total_remaining =< AlignUp(offset + total_remaining)
      /\ AlignUp(offset + total_remaining) \in Nat
  BY <1>2, AlignUpFacts
<1> HIDE DEF AlignUp
<1>4. ASSUME NEW c \in Cells, flash'[c] # flash[c]
      PROVE  offset =< c /\ c < AlignUp(offset + total_remaining)
  <2>1. offset =< c /\ c < offset + n
    BY <1>1, <1>4, WithDataFacts DEF IInv
  <2> QED BY <1>1, <1>2, <1>3, <2>1, SectorAssumption, SMT DEF Cells
<1> QED BY <1>4 DEF ConfinedChange

\* Every step is confined.
LEMMA NextConfined == IInv /\ [Next]_vars => [ConfinedChange]_vars
<1> SUFFICES ASSUME IInv, Next PROVE ConfinedChange
  OBVIOUS
<1>1. ASSUME NEW r \in Request, HandleCommand(r)
      PROVE  ConfinedChange
  <2>1. CASE RefuseFrame(r) \/ ReportError(r) \/ OtherHandler(r) \/ FlashData(r)
    BY <2>1, KeepConfined DEF RefuseFrame, ReportError, OtherHandler, FlashData, Keep, chipVars
  <2>2. CASE FlashEnd(r)
    BY <2>2, KeepConfined DEF FlashEnd, Keep, chipVars
  <2>3. CASE FlashBegin(r) /\ r.flaw = "size"
    BY <2>3, KeepConfined DEF FlashBegin, Keep, chipVars
  <2>4. CASE FlashBegin(r) /\ r.flaw # "size"
    BY <2>4, FlashBeginConfined
  <2> QED BY <1>1, <2>1, <2>2, <2>3, <2>4 DEF HandleCommand
<1>2. CASE EnsureErased
  BY <1>2, EnsureErasedConfined
<1>3. CASE WriteBlock
  BY <1>3, WriteConfined, WriteSizeFacts, SMT DEF WriteBlock, IInv
<1>4. CASE WriteFails
  <2>1. PICK n \in 0..WriteSize : flash' = WithData(flash, offset, cur, n)
    BY <1>4 DEF WriteFails
  <2>2. n \in Nat /\ n =< WriteSize
    BY WriteSizeFacts, SMT DEF IInv
  <2> QED BY <2>1, <2>2, WriteConfined
<1>5. CASE ChipReady
  BY <1>5, KeepConfined DEF ChipReady
<1> QED BY <1>1, <1>2, <1>3, <1>4, <1>5 DEF Next, PostProcess

\* No request, erase or failure of the chip changes a cell outside the sectors
\* of the session, or one the session has already written.
THEOREM StaysConfined == Spec => Confined
BY Inductive, NextConfined, PTL DEF Spec, Confined

(* The session implements FlashImage.                                          *)

\* A slice of the flash is a sequence of the length asked for.
LEMMA LenOfSlice ==
  ASSUME NEW f, NEW b, NEW n \in Nat
  PROVE  Len([i \in 1..n |-> f[b + i - 1]]) = n
BY SMT

\* The image of a session is as long as the write position is past its start.
LEMMA LenOfWritten ==
  ASSUME offset \in Nat, begin \in Nat, begin =< offset
  PROVE  Len(Written) = offset - begin
<1>1. offset - begin \in Nat
  BY SMT
<1> QED BY <1>1, LenOfSlice DEF Written

\* Before the first command no session is open.
LEMMA InitImage == Init => Image!Init
BY SMT DEF Init, Image!Init, Written

\* What was written is the same when its cells are.
LEMMA WrittenUnchanged ==
  ASSUME UNCHANGED <<offset, begin>>, offset \in Nat, begin \in Nat,
         \A c \in Nat : begin =< c /\ c < offset => flash'[c] = flash[c]
  PROVE  Written' = Written
<1>1. \A i \in 1..(offset - begin) : flash'[begin + i - 1] = flash[begin + i - 1]
  BY SMT
<1> QED BY <1>1, SMT DEF Written

\* What leaves the session and the flash alone leaves the image alone.
LEMMA KeepImage ==
  ASSUME UNCHANGED <<stateVars, histVars, flash>>
  PROVE  UNCHANGED <<in_progress, Written, total_remaining>>
BY DEF stateVars, histVars, Written

\* An accepted FLASH_BEGIN opens an image.
LEMMA FlashBeginImage ==
  ASSUME IInv, NEW r \in Request, FlashBegin(r), r.flaw # "size"
  PROVE  Image!Open
<1>1. r.start \in Nat /\ r.size \in Nat
  BY BeginIsNatural DEF FlashBegin, Executes
<1>2. total_remaining' = r.size /\ offset' = r.start /\ begin' = r.start /\ in_progress'
  BY DEF FlashBegin
<1>3. Written' = <<>>
  BY <1>1, <1>2, SMT DEF Written
<1>4. in_progress' = TRUE
  BY DEF FlashBegin
<1> QED BY <1>1, <1>2, <1>3, <1>4 DEF Image!Open

\* An accepted FLASH_END closes an image that is complete.
LEMMA FlashEndImage ==
  ASSUME IInv, NEW r \in Request, FlashEnd(r), EndResult(r) = "SUCCESS"
  PROVE  Image!Close
<1>1. in_progress /\ total_remaining = 0
  BY SMT DEF EndResult, IInv, TypeOK
<1>2. total_remaining' = 0 /\ offset' = 0 /\ begin' = 0 /\ in_progress' = FALSE
  BY DEF FlashEnd
<1>3. Written' = <<>>
  BY <1>2, SMT DEF Written
<1> QED BY <1>1, <1>2, <1>3 DEF Image!Close

\* A block that is written extends the image by what it holds.
LEMMA WriteBlockImage ==
  ASSUME IInv, WriteBlock
  PROVE  Image!Extend \/ UNCHANGED <<in_progress, Written, total_remaining>>
<1> DEFINE n == WriteSize
<1>1. n \in Nat /\ n =< total_remaining /\ n =< Len(cur)
  BY WriteSizeFacts DEF IInv
<1>2. /\ total_remaining' = total_remaining - n /\ offset' = offset + n
      /\ flash' = WithData(flash, offset, cur, n)
      /\ UNCHANGED <<in_progress, begin>>
  BY DEF WriteBlock, histVars
<1> HIDE DEF n
<1>3. in_progress /\ begin =< offset /\ offset + total_remaining =< CELLS
  BY DEF IInv, PostDiscipline, WritePosition, InChip, WriteBlock
<1>4. offset \in Nat /\ begin \in Nat /\ total_remaining \in Nat
  BY DEF IInv, TypeOK
<1>5. \A c \in Nat : begin =< c /\ c < offset => flash'[c] = flash[c]
  <2>1. SUFFICES ASSUME NEW c \in Nat, c < offset PROVE flash'[c] = flash[c]
    OBVIOUS
  <2>2. c \in Cells /\ ~(offset =< c)
    BY <1>3, <1>4, <2>1, SectorAssumption, SMT DEF Cells
  <2> QED BY <1>1, <1>2, <2>2, WithDataFacts DEF IInv
<1>6. CASE n = 0
  <2>1. offset' = offset /\ total_remaining' = total_remaining
    BY <1>2, <1>4, <1>6, SMT
  <2>2. Written' = Written
    BY <1>2, <1>4, <1>5, <2>1, WrittenUnchanged
  <2> QED BY <1>2, <2>1, <2>2
<1>7. CASE n # 0
  <2>1. offset' \in Nat /\ begin' \in Nat /\ begin' =< offset'
    BY <1>1, <1>2, <1>3, <1>4, SMT
  <2>2. Len(Written) = offset - begin
    BY <1>3, <1>4, LenOfWritten
  <2>3. Len(Written)' = offset' - begin'
    <3>1. offset' - begin' \in Nat
      BY <2>1, DifferenceIsNatural
    <3> QED BY <3>1, LenOfSlice DEF Written
  <2>4. total_remaining' < total_remaining
        /\ Len(Written)' = Len(Written) + (total_remaining - total_remaining')
    BY <1>1, <1>2, <1>4, <1>7, <2>2, <2>3, SMT
  <2>5. \A i \in 1..Len(Written) : Written'[i] = Written[i]
    <3>1. SUFFICES ASSUME NEW i \in 1..(offset - begin) PROVE Written'[i] = Written[i]
      BY <2>2
    <3>2. /\ begin + i - 1 \in Nat /\ begin =< begin + i - 1 /\ begin + i - 1 < offset
          /\ i \in 1..(offset' - begin')
      BY <1>1, <1>2, <1>4, SMT
    <3>3. flash'[begin' + i - 1] = flash[begin + i - 1]
      BY <1>2, <1>5, <3>2
    <3> QED BY <3>2, <3>3 DEF Written
  <2> QED BY <1>2, <1>3, <2>4, <2>5 DEF Image!Extend
<1> QED BY <1>6, <1>7

\* A step that leaves the cells before the write position as they are is not seen.
LEMMA AheadImage ==
  ASSUME IInv, in_progress, UNCHANGED <<stateVars, begin>>,
         \A c \in Cells : flash'[c] # flash[c] => offset =< c \/ offset = begin
  PROVE  UNCHANGED <<in_progress, Written, total_remaining>>
<1>1. offset \in Nat /\ begin \in Nat /\ total_remaining \in Nat
  BY DEF IInv, TypeOK
<1>2. \A c \in Nat : begin =< c /\ c < offset => flash'[c] = flash[c]
  <2>1. SUFFICES ASSUME NEW c \in Nat, begin =< c, c < offset PROVE flash'[c] = flash[c]
    OBVIOUS
  <2>2. offset + total_remaining =< CELLS
    BY DEF IInv, InChip
  <2>3. c \in Cells /\ ~(offset =< c) /\ offset # begin
    BY <1>1, <2>1, <2>2, SectorAssumption, SMT DEF Cells
  <2> QED BY <2>3
<1>3. Written' = Written
  BY <1>1, <1>2, WrittenUnchanged DEF stateVars
<1> QED BY <1>3 DEF stateVars

\* Every step is one of the image, or leaves it alone.
LEMMA NextImage ==
  IInv /\ [Next]_vars => [Image!Next]_<<in_progress, Written, total_remaining>>
<1> SUFFICES ASSUME IInv, [Next]_vars
             PROVE  Image!Next \/ UNCHANGED <<in_progress, Written, total_remaining>>
  OBVIOUS
<1>1. ASSUME NEW r \in Request, HandleCommand(r)
      PROVE  Image!Next \/ UNCHANGED <<in_progress, Written, total_remaining>>
  <2>1. CASE Keep
    BY <2>1, KeepImage DEF Keep, chipVars
  <2>2. CASE FlashEnd(r) /\ EndResult(r) = "SUCCESS"
    BY <2>2, FlashEndImage DEF Image!Next
  <2>3. CASE FlashBegin(r) /\ r.flaw # "size"
    BY <2>3, FlashBeginImage DEF Image!Next
  <2> QED BY <1>1, <2>1, <2>2, <2>3 DEF HandleCommand, RefuseFrame, ReportError, FlashBegin,
                                        FlashData, FlashEnd, OtherHandler
<1>2. CASE EnsureErased
  <2>1. \A c \in Cells : flash'[c] # flash[c] => offset =< c \/ offset = begin
    <3>1. SUFFICES ASSUME NEW c \in Cells, flash'[c] # flash[c]
                   PROVE  offset =< c \/ offset = begin
      OBVIOUS
    <3>2. next_erase_addr =< c
      BY <1>2, <3>1, EnsureErasedConfined
    <3>3. offset = begin \/ offset =< next_erase_addr
      BY <1>2 DEF EnsureErased, IInv, PostDiscipline, WritePosition
    <3> QED BY <3>2, <3>3, SectorAssumption, SMT DEF IInv, TypeOK, Cells
  <2>2. in_progress /\ UNCHANGED <<stateVars, begin>>
    BY <1>2 DEF EnsureErased, histVars, IInv, PostDiscipline
  <2> QED BY <2>1, <2>2, AheadImage
<1>3. CASE WriteBlock
  BY <1>3, WriteBlockImage DEF Image!Next
<1>4. CASE WriteFails
  <2>1. PICK n \in 0..WriteSize : flash' = WithData(flash, offset, cur, n)
    BY <1>4 DEF WriteFails
  <2>2. n \in Nat /\ n =< Len(cur)
    BY WriteSizeFacts, SMT DEF IInv, TypeOK
  <2>3. \A c \in Cells : flash'[c] # flash[c] => offset =< c
    BY <2>1, <2>2, WithDataFacts DEF IInv
  <2>4. in_progress /\ UNCHANGED <<stateVars, begin>>
    BY <1>4 DEF WriteFails, IInv, PostDiscipline
  <2> QED BY <2>3, <2>4, AheadImage
<1>5. CASE ChipReady \/ UNCHANGED vars
  BY <1>5, KeepImage DEF ChipReady, vars, chipVars
<1> QED BY <1>1, <1>2, <1>3, <1>4, <1>5 DEF Next, PostProcess

\* The write session implements FlashImage: what was written stays, the image
\* only grows at its end, and a session is closed only when it is complete.
THEOREM ImageRefinement == Spec => ImplementsImage
<1>1. Spec => Image!Init /\ [][Image!Next]_<<in_progress, Written, total_remaining>>
  BY InitImage, Inductive, NextImage, PTL DEF Spec
<1> QED BY <1>1 DEF ImplementsImage, Image!Spec, Image!imageVars

=============================================================================
