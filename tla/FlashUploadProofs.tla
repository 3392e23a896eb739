-------------------------- MODULE FlashUploadProofs --------------------------
(* Proofs about FlashUpload: a session that ends well has left its image in    *)
(* the flash, if no response was lost; if one was, but the chip never failed,  *)
(* it left blocks of its image in their order, some of them twice.             *)
EXTENDS FlashUpload, FlashSessionProofs

\* The block b of the host's image.
BlockOf(b) == [i \in 1..BLOCK |-> Image0((b * BLOCK) + i - 1)]

Asks(r) == LineIs("request") /\ line.what = r
Succeeded == LineIs("response") /\ line.what.result = "SUCCESS"

\* The blocks the stub took, and those of them it is done with.
Acked == block + (IF Succeeded /\ line.what.cmd = "FLASH_DATA" THEN 1 ELSE 0)
Due == Acked - (IF pc = "post" THEN 1 ELSE 0)

\* The cells of w blocks, the last of which may be padded.
Length(w) == Lesser(w * BLOCK, job.size)

InPlace(n) ==
  \A c \in Cells : job.start =< c /\ c < job.start + n =>
                     flash[c] = Unit(session, c - job.start)

\* The stub's session is the one the host is in.
Live ==
  \/ phase = "begin" /\ Succeeded
  \/ phase = "data"
  \/ phase = "end" /\ ~LineIs("response")

HostTyped ==
  /\ session \in 0..MAX_SESSIONS /\ job \in Jobs /\ block \in Nat /\ block =< Blocks
  /\ lostResponses \in Nat
  /\ phase \in {"idle", "begin", "data", "end", "done", "failed"}
  /\ phase # "idle" => session >= 1

\* What is on the line is what the host sent in this phase, or its answer.
Turns ==
  /\ phase \in {"idle", "done", "failed"} => LineIs(SILENCE)
  /\ phase = "begin" =>
       /\ block = 0
       /\ \/ Asks(Begin("none", job.start, job.size))
          \/ LineIs("response") /\ line.what.cmd = "FLASH_BEGIN"
          \/ LineIs("lost")
  /\ phase = "data" =>
       \/ LineIs(SILENCE) \/ LineIs("lost")
       \/ /\ block < Blocks
          /\ \E f \in {"none", "checksum"} : Asks(DataOf(f, BlockOf(block)))
       \/ Asks(OtherCommand("none"))
       \/ LineIs("response") /\ line.what.cmd = "FLASH_DATA" /\ block < Blocks
       \/ LineIs("response") /\ line.what.cmd = "OTHER"
  /\ phase = "end" =>
       /\ block = Blocks
       /\ \/ Asks(End("none"))
          \/ LineIs("response") /\ line.what.cmd = "FLASH_END"
          \/ LineIs("lost")

\* Every successful write was of a block the stub had taken, and as long as none
\* of these failed the image is in place up to the write position.
Progress ==
  Live /\ lostResponses = 0 =>
    /\ in_progress /\ begin = job.start /\ offset + total_remaining = job.start + job.size
    /\ pc = "post" => cur = BlockOf(Acked - 1)
    /\ \E w \in 0..Due : /\ offset = job.start + Length(w)
                         /\ w = Due => ~torn /\ InPlace(Length(w))

\* A session that ended well has its image.
Ended ==
  (phase = "done" \/ (phase = "end" /\ Succeeded)) /\ lostResponses = 0 =>
    pc = "idle" /\ InPlace(job.size)

UploadInv == IInv /\ HostTyped /\ Turns /\ Progress /\ Ended

-----------------------------------------------------------------------------
(* Blocks and requests.                                                        *)

\* A job of the host is inside the chip, and its blocks are not empty.
LEMMA JobFacts ==
  ASSUME job \in Jobs
  PROVE  /\ job.start \in Nat /\ job.size \in Nat /\ CELLS \in Nat
         /\ job.start + job.size =< CELLS /\ BLOCK \in Nat /\ BLOCK > 0 /\ BLOCK =< MAX_BLOCK
BY JobAssumption, SectorAssumption, SMT

\* How many blocks hold n cells.
LEMMA BlocksAreCounted ==
  ASSUME NEW n \in Nat
  PROVE  (n + BLOCK - 1) \div BLOCK \in Nat
<1>1. BLOCK \in Nat /\ BLOCK > 0 /\ n + BLOCK - 1 \in Nat
  BY JobAssumption, SectorAssumption, SMT
<1> QED BY <1>1, SMT

\* The blocks hold the image, and no fewer do.
LEMMA BlocksFacts ==
  ASSUME job \in Jobs
  PROVE  /\ Blocks \in Nat
         /\ \A w \in Nat : w < Blocks => w * BLOCK \in Nat /\ w * BLOCK < job.size
         /\ \A w \in Nat : w * BLOCK \in Nat /\ (w + 1) * BLOCK = (w * BLOCK) + BLOCK
<1> DEFINE n == job.size
           x == n + BLOCK - 1
           b == Blocks
<1>1. n \in Nat /\ BLOCK \in Nat /\ BLOCK > 0 /\ x \in Nat
  BY JobFacts, SMT
<1>2. b = x \div BLOCK
  BY DEF Blocks
<1> HIDE DEF b, x
<1>3. b \in Int /\ x = (BLOCK * b) + (x % BLOCK) /\ x % BLOCK \in 0..(BLOCK - 1)
  BY <1>1, <1>2, SMT
<1>4. b >= 0
  <2>1. CASE b =< -1
    <3>1. BLOCK * b =< -BLOCK
      BY <1>1, <1>3, <2>1, SMT
    <3> QED BY <1>1, <1>3, <3>1, SMT
  <2> QED BY <1>3, <2>1, SMT
<1>5. BLOCK * (b - 1) < n
  <2>1. BLOCK * (b - 1) = (BLOCK * b) - BLOCK
    BY <1>1, <1>3, SMT
  <2> QED BY <1>1, <1>3, <2>1, SMT DEF x
<1>6. ASSUME NEW w \in Nat PROVE w * BLOCK \in Nat /\ (w + 1) * BLOCK = (w * BLOCK) + BLOCK
  BY <1>1, SMT
<1>7. ASSUME NEW w \in Nat, w < b PROVE w * BLOCK < n
  <2> DEFINE k == (b - 1) - w
  <2>1. k \in Nat
    BY <1>3, <1>7, SMT
  <2>2. BLOCK * k >= 0
    BY <1>1, <2>1, SMT
  <2>3. BLOCK * (b - 1) = (w * BLOCK) + (BLOCK * k)
    BY <1>1, <1>3, SMT
  <2> HIDE DEF k
  <2>4. w * BLOCK \in Nat /\ BLOCK * k \in Int /\ BLOCK * (b - 1) \in Int
    BY <1>1, <1>3, <1>6, <2>1, SMT
  <2> QED BY <1>1, <1>5, <2>2, <2>3, <2>4, SMT
<1> QED BY <1>3, <1>4, <1>6, <1>7, SMT DEF b

\* The cells of w blocks, and of one more.
LEMMA LengthFacts ==
  ASSUME job \in Jobs, NEW w \in Nat
  PROVE  /\ Length(w) \in Nat /\ Length(w) =< job.size
         /\ Length(w) = job.size => w >= Blocks
         /\ Length(w) < job.size => Length(w) = w * BLOCK
         /\ Length(w + 1) = Length(w) + Lesser(BLOCK, job.size - Length(w))
         /\ Length(0) = 0
<1> DEFINE n == job.size
           y == w * BLOCK
           z == (w + 1) * BLOCK
           b == Blocks
<1>1. n \in Nat /\ BLOCK \in Nat /\ BLOCK > 0
  BY JobFacts
<1>2. y \in Nat /\ z = y + BLOCK /\ b \in Nat /\ (w < b => y < n)
  BY BlocksFacts
<1>3. 0 * BLOCK = 0
  BY <1>1, SMT
<1> HIDE DEF y, z, b, n
<1>4. Length(w) = Lesser(y, n) /\ Length(w + 1) = Lesser(z, n) /\ Length(0) = Lesser(0, n)
  BY <1>3 DEF Length, y, z, n
<1>5. /\ Length(w) \in Nat /\ Length(w) =< n
      /\ Length(w) = n => w >= b
      /\ Length(w) < n => Length(w) = y
      /\ Length(w + 1) = Length(w) + Lesser(BLOCK, n - Length(w))
      /\ Length(0) = 0
  BY <1>1, <1>2, <1>4, SMT DEF Lesser
<1> QED BY <1>5 DEF n, b, y

\* What the host asks is a request inside the chip.
LEMMA BlockIsData ==
  ASSUME HostTyped, phase # "idle", NEW b \in Nat
  PROVE  BlockOf(b) \in [1..BLOCK -> Value] /\ BlockOf(b) \in Seq(Value) /\ Len(BlockOf(b)) = BLOCK
<1>1. job \in Jobs /\ session \in 1..MAX_SESSIONS
  BY ImageAssumption, SMT DEF HostTyped
<1>2. BLOCK \in Nat /\ job.size \in Nat /\ job.size =< CELLS /\ CELLS \in Nat /\ job.start \in Nat
  BY <1>1, JobFacts, SMT
<1>3. ASSUME NEW i \in 1..BLOCK PROVE Image0((b * BLOCK) + i - 1) \in Value
  <2> DEFINE k == (b * BLOCK) + i - 1
  <2>1. k \in Nat
    BY <1>1, <1>2, BlocksFacts, SMT
  <2> HIDE DEF k
  <2>2. CASE k < job.size
    <3>1. k \in 0..(CELLS - 1)
      BY <1>2, <2>1, <2>2, SMT
    <3>2. Unit(session, k) \in (1..MAX_SESSIONS) \X (0..(CELLS - 1))
      BY <1>1, <3>1 DEF Unit
    <3> QED BY <2>2, <3>2, ImageAssumption DEF Image0, k
  <2>3. CASE ~(k < job.size)
    BY <2>3, ImageAssumption DEF Image0, k
  <2> QED BY <2>2, <2>3
<1>4. BlockOf(b) \in [1..BLOCK -> Value]
  BY <1>3 DEF BlockOf
<1> DEFINE f == BlockOf(b)
<1> HIDE DEF f
<1>5. f \in [1..BLOCK -> Value] => f \in Seq(Value) /\ Len(f) = BLOCK
  BY <1>2, SMT
<1> QED BY <1>4, <1>5 DEF f

\* A FLASH_DATA request is in the set that lists them.
LEMMA DataIsAmong ==
  ASSUME NEW F, NEW D, NEW f \in F, NEW d \in D
  PROVE  DataOf(f, d) \in {DataOf(g, e) : g \in F, e \in D}
BY SMT

\* A FLASH_DATA request is a request.
LEMMA DataIsRequest ==
  ASSUME NEW f \in FrameFlaw \cup {"short", "length", "checksum"},
         NEW d \in UNION {[1..n -> Value] : n \in 0..MAX_BLOCK}
  PROVE  DataOf(f, d) \in Request
<1> DEFINE F == FrameFlaw \cup {"short", "length", "checksum"}
           D == UNION {[1..n -> Value] : n \in 0..MAX_BLOCK}
           S == {DataOf(g, e) : g \in F, e \in D}
<1>1. DataOf(f, d) \in S
  <2>1. f \in F /\ d \in D
    OBVIOUS
  <2> HIDE DEF F, D
  <2> QED BY <2>1, DataIsAmong
<1>2. ASSUME NEW x \in S PROVE x \in Request
  BY SMT DEF Request
<1> HIDE DEF S
<1> QED BY <1>1, <1>2

\* What the host sends, the stub can be sent.
LEMMA AsksRequest ==
  ASSUME HostTyped, Turns, LineIs("request")
  PROVE  line.what \in Request /\ Fits(line.what)
<1>1. job \in Jobs /\ phase \in {"begin", "data", "end"} /\ block \in Nat
  BY DEF HostTyped, Turns, LineIs, SILENCE
<1>2. CASE phase = "begin"
  <2>1. line.what = Begin("none", job.start, job.size)
    BY <1>2 DEF Turns, LineIs, Asks
  <2>2. job.start \in 0..CELLS /\ job.size \in 0..CELLS /\ job.start + job.size =< CELLS
    BY <1>1, JobAssumption
  <2>3. Fits(line.what)
    BY <2>1, <2>2 DEF Fits, Begin
  <2> QED BY <2>1, <2>2, <2>3 DEF Request, FrameFlaw
<1>3. CASE phase = "data"
  <2>1. \/ \E f \in {"none", "checksum"} : line.what = DataOf(f, BlockOf(block))
        \/ line.what = OtherCommand("none")
    BY <1>3 DEF Turns, LineIs, Asks, SILENCE
  <2>2. BlockOf(block) \in [1..BLOCK -> Value] /\ BLOCK \in 0..MAX_BLOCK
    <3>1. BLOCK \in 0..MAX_BLOCK
      BY JobAssumption, SectorAssumption, SMT
    <3> QED BY <1>1, <1>3, <3>1, BlockIsData
  <2>3. BlockOf(block) \in UNION {[1..n -> Value] : n \in 0..MAX_BLOCK}
    BY <2>2
  <2>4. Fits(line.what)
    BY <2>1 DEF Fits, DataOf, OtherCommand
  <2>5. ASSUME NEW f \in {"none", "checksum"}, NEW d \in UNION {[1..n -> Value] : n \in 0..MAX_BLOCK}
        PROVE  DataOf(f, d) \in Request
    <3>1. f \in FrameFlaw \cup {"short", "length", "checksum"}
      BY DEF FrameFlaw
    <3> QED BY <3>1, DataIsRequest
  <2>6. OtherCommand("none") \in Request
    BY DEF Request, FrameFlaw
  <2> QED BY <2>1, <2>3, <2>4, <2>5, <2>6, Zenon
<1>4. CASE phase = "end"
  <2>1. line.what = End("none")
    BY <1>4 DEF Turns, LineIs, Asks
  <2>2. End("none") \in Request /\ Fits(End("none"))
    BY DEF Request, FrameFlaw, Fits, End
  <2> QED BY <2>1, <2>2
<1> QED BY <1>1, <1>2, <1>3, <1>4

-----------------------------------------------------------------------------
(* The host and the line.                                                      *)

\* It holds at first.
LEMMA FirstUpload == UploadInit => UploadInv
<1> SUFFICES ASSUME UploadInit PROVE UploadInv
  OBVIOUS
<1>1. IInv /\ job \in Jobs
  BY InitIInv DEF UploadInit
<1>2. HostTyped
  <2>1. Blocks \in Nat /\ MAX_SESSIONS \in Nat
    BY <1>1, BlocksFacts, ImageAssumption
  <2>2. session = 0 /\ block = 0 /\ lostResponses = 0 /\ phase = "idle"
    BY DEF UploadInit
  <2> QED BY <1>1, <2>1, <2>2, SMT DEF HostTyped
<1>3. phase = "idle" /\ line.kind = SILENCE
  BY DEF UploadInit, Carry
<1> QED BY <1>1, <1>2, <1>3 DEF UploadInv, Turns, Progress, Ended, Live, LineIs

\* While the stub rests, the host goes on in the session it is in.
LEMMA Rests ==
  ASSUME UploadInv, UNCHANGED vars, UNCHANGED <<session, job>>,
         lostResponses' = lostResponses, Live' => Live /\ Acked' = Acked
  PROVE  Progress'
<1>1. Progress
  BY DEF UploadInv
<1>2. UNCHANGED <<in_progress, begin, offset, total_remaining, pc, cur, torn, flash>>
  BY DEF vars, stateVars, chipVars, histVars
<1>3. \A n : InPlace(n)' <=> InPlace(n)
  BY <1>2 DEF InPlace
<1>4. \A w : Length(w)' = Length(w)
  BY DEF Length
<1>5. \A b : BlockOf(b)' = BlockOf(b)
  BY DEF BlockOf, Image0
<1>6. SUFFICES ASSUME Live', lostResponses = 0 PROVE Progress'
  BY DEF Progress
<1>7. Due' = Due /\ Acked' = Acked /\ Live
  BY <1>2, <1>6 DEF Due
<1> QED BY <1>1, <1>2, <1>3, <1>4, <1>5, <1>6, <1>7, Zenon DEF Progress

\* The host opens a session with another image.
LEMMA StartStep ==
  ASSUME UploadInv, UNCHANGED vars, StartSession
  PROVE  HostTyped' /\ Turns' /\ Progress' /\ Ended'
<1>1. PICK j \in Jobs : job' = j /\ line' = Carry("request", Begin("none", j.start, j.size))
  BY DEF StartSession, Send
<1>2. /\ phase' = "begin" /\ session' = session + 1 /\ session < MAX_SESSIONS /\ block' = 0
      /\ lostResponses' = lostResponses
  BY DEF StartSession, boundVars
<1>3. HostTyped'
  <2>1. Blocks' \in Nat
    <3>1. Blocks' = (j.size + BLOCK - 1) \div BLOCK /\ j.size \in Nat
      BY <1>1, JobAssumption DEF Blocks
    <3> QED BY <3>1, BlocksAreCounted
  <2>2. session' \in 0..MAX_SESSIONS /\ session' >= 1 /\ lostResponses' \in Nat
    BY <1>2, ImageAssumption, SMT DEF UploadInv, HostTyped
  <2> QED BY <1>1, <1>2, <2>1, <2>2, SMT DEF HostTyped
<1>4. LineIs("request")' /\ ~LineIs("response")'
  BY <1>1 DEF LineIs, Carry
<1>5. Asks(Begin("none", job.start, job.size))'
  BY <1>1, <1>4 DEF Asks, Carry, Begin
<1> QED BY <1>2, <1>3, <1>4, <1>5 DEF Turns, Progress, Ended, Live, Succeeded

\* What a step leaves of the types.
LEMMA TypesKept ==
  ASSUME UploadInv, UNCHANGED <<session, job>>, block' \in Nat, block' =< Blocks,
         lostResponses' \in Nat, phase # "idle",
         phase' \in {"begin", "data", "end", "done", "failed"}
  PROVE  HostTyped'
<1>1. Blocks' = Blocks
  BY DEF Blocks
<1> QED BY <1>1 DEF UploadInv, HostTyped

\* The host sends a block, the end or another command.
LEMMA SendStep ==
  ASSUME UploadInv, UNCHANGED vars, SendBlock \/ SendEnd \/ SendOther
  PROVE  HostTyped' /\ Turns' /\ Progress' /\ Ended'
<1>1. /\ phase = "data" /\ LineIs(SILENCE) /\ lostResponses' = lostResponses
      /\ UNCHANGED <<session, job, block>>
  BY DEF SendBlock, SendEnd, SendOther, boundVars
<1>2. line'.kind = "request"
  BY DEF SendBlock, SendEnd, SendOther, Send, Carry
<1>3. phase' \in {"data", "end"} /\ Live /\ ~LineIs("response") /\ LineIs("request")'
      /\ ~LineIs("response")'
  BY <1>1, <1>2 DEF SendBlock, SendEnd, SendOther, Live, LineIs, SILENCE
<1>4. HostTyped'
  BY <1>1, <1>3, TypesKept DEF UploadInv, HostTyped
<1>5. Acked' = Acked
  BY <1>1, <1>3 DEF Acked, Succeeded
<1>6. Progress'
  BY <1>1, <1>3, <1>5, Rests
<1>7. Ended'
  BY <1>3 DEF Ended, Succeeded
<1>8. Turns'
  <2>1. CASE SendBlock
    <3>1. line'.what = DataOf("none", BlockOf(block)) /\ phase' = "data" /\ block < Blocks
      BY <2>1 DEF SendBlock, Send, Carry, BlockData, BlockOf
    <3>2. BlockOf(block)' = BlockOf(block) /\ Blocks' = Blocks
      BY <1>1 DEF BlockOf, Image0, Blocks
    <3>3. Asks(DataOf("none", BlockOf(block)))'
      BY <1>1, <1>3, <3>1, <3>2 DEF Asks, DataOf
    <3> QED BY <1>1, <3>1, <3>2, <3>3 DEF Turns
  <2>2. CASE SendEnd
    <3>1. line'.what = End("none") /\ phase' = "end" /\ block = Blocks
      BY <2>2 DEF SendEnd, Send, Carry
    <3>2. Asks(End("none"))' /\ Blocks' = Blocks
      BY <1>1, <1>3, <3>1 DEF Asks, End, Blocks
    <3> QED BY <1>1, <3>1, <3>2 DEF Turns
  <2>3. CASE SendOther
    <3>1. line'.what = OtherCommand("none") /\ phase' = "data"
      BY <2>3 DEF SendOther, Send, Carry
    <3>2. Asks(OtherCommand("none"))'
      BY <1>3, <3>1 DEF Asks, OtherCommand
    <3> QED BY <3>1, <3>2 DEF Turns
  <2> QED BY <2>1, <2>2, <2>3
<1> QED BY <1>4, <1>6, <1>7, <1>8

\* The host takes an answer, or gives up waiting or trying.
LEMMA AnswerStep ==
  ASSUME UploadInv, UNCHANGED vars,
         \/ GiveUp \/ BeginAnswered \/ DataAnswered \/ EndAnswered \/ OtherAnswered \/ Timeout
  PROVE  HostTyped' /\ Turns' /\ Progress' /\ Ended'
<1>0. HostTyped /\ Turns /\ Ended
  BY DEF UploadInv
<1>1. /\ UNCHANGED <<session, job>> /\ lostResponses' = lostResponses /\ line'.kind = SILENCE
      /\ phase \in {"begin", "data", "end"} /\ phase' \in {"data", "done", "failed"}
  <2>1. UNCHANGED <<session, job>> /\ lostResponses' = lostResponses
    BY DEF GiveUp, BeginAnswered, DataAnswered, EndAnswered, OtherAnswered, Timeout, boundVars
  <2>2. line'.kind = SILENCE
    BY DEF GiveUp, BeginAnswered, DataAnswered, EndAnswered, OtherAnswered, Timeout, Quiet,
       Carry, LineIs
  <2>3. phase \in {"begin", "data", "end"}
    <3>1. GiveUp \/ ~LineIs(SILENCE)
      BY DEF BeginAnswered, DataAnswered, EndAnswered, OtherAnswered, Timeout, Answered, LineIs,
         SILENCE
    <3> QED BY <1>0, <3>1 DEF GiveUp, Turns, HostTyped
  <2>4. phase' \in {"data", "done", "failed"}
    <3>1. CASE DataAnswered \/ OtherAnswered
      <4>1. LineIs("response") /\ line.what.cmd \in {"FLASH_DATA", "OTHER"} /\ phase' = phase
        BY <3>1 DEF DataAnswered, OtherAnswered, Answered
      <4> QED BY <1>0, <2>3, <4>1, Zenon DEF Turns, Asks, LineIs
    <3> QED BY <3>1 DEF GiveUp, BeginAnswered, EndAnswered, Timeout
  <2> QED BY <2>1, <2>2, <2>3, <2>4
<1>2. LineIs(SILENCE)' /\ ~LineIs("response")'
  BY <1>1 DEF LineIs, SILENCE
<1>3. Turns'
  BY <1>1, <1>2 DEF Turns
<1>4. Blocks \in Nat /\ block \in Nat /\ block =< Blocks
  BY <1>0, BlocksFacts DEF HostTyped
<1>5. block' \in Nat /\ block' =< Blocks
  <2>1. CASE DataAnswered
    <3>1. LineIs("response") /\ line.what.cmd = "FLASH_DATA" /\ block' \in {block, block + 1}
      BY <2>1 DEF DataAnswered, Answered
    <3>2. block < Blocks
      BY <1>0, <1>1, <3>1, Zenon DEF Turns, LineIs, SILENCE, Asks
    <3> QED BY <1>4, <3>1, <3>2, SMT
  <2>2. CASE ~DataAnswered
    BY <1>4, <2>2 DEF GiveUp, BeginAnswered, EndAnswered, OtherAnswered, Timeout
  <2> QED BY <2>1, <2>2
<1>6. HostTyped'
  BY <1>0, <1>1, <1>5, TypesKept DEF HostTyped
<1>7. Progress'
  <2>1. SUFFICES ASSUME Live' PROVE Live /\ Acked' = Acked
    BY <1>1, Rests
  <2>2. phase' = "data" /\ Acked' = block'
    <3>1. phase' = "data"
      BY <1>1, <1>2, <2>1 DEF Live
    <3>2. Acked' = block' + 0
      BY <1>2 DEF Acked, Succeeded
    <3>3. \A x \in Nat : x + 0 = x
      BY SMT
    <3> QED BY <1>5, <3>1, <3>2, <3>3, Zenon
  <2>3. CASE BeginAnswered
    <3>1. LineIs("response") /\ line.what.cmd = "FLASH_BEGIN" /\ line.what.result = "SUCCESS"
          /\ block' = block
      BY <2>2, <2>3 DEF BeginAnswered, Answered
    <3>2. phase = "begin"
      BY <1>0, <1>1, <3>1, Zenon DEF Turns, LineIs, SILENCE, Asks
    <3> QED BY <1>4, <2>2, <3>1, <3>2 DEF Live, Succeeded, Acked
  <2>4. CASE DataAnswered
    <3>1. LineIs("response") /\ line.what.cmd = "FLASH_DATA" /\ phase = "data"
      BY <2>2, <2>4 DEF DataAnswered, Answered
    <3>2. block' = Acked
      BY <1>4, <2>4, <3>1 DEF DataAnswered, Acked, Succeeded
    <3> QED BY <2>2, <3>1, <3>2 DEF Live
  <2>5. CASE OtherAnswered
    <3>1. LineIs("response") /\ line.what.cmd = "OTHER" /\ phase = "data" /\ block' = block
      BY <2>2, <2>5 DEF OtherAnswered, Answered
    <3> QED BY <1>4, <2>2, <3>1 DEF Live, Acked, Succeeded
  <2>6. CASE Timeout
    <3>1. LineIs("lost") /\ phase = "data" /\ block' = block
      BY <2>2, <2>6 DEF Timeout
    <3> QED BY <1>4, <2>2, <3>1 DEF Live, Acked, Succeeded, LineIs
  <2> QED BY <2>2, <2>3, <2>4, <2>5, <2>6 DEF GiveUp, EndAnswered
<1>8. Ended'
  <2>1. SUFFICES ASSUME phase' = "done", lostResponses = 0 PROVE pc' = "idle" /\ InPlace(job.size)'
    BY <1>1, <1>2 DEF Ended, Succeeded
  <2>2. EndAnswered
    BY <1>1, <2>1 DEF GiveUp, BeginAnswered, DataAnswered, OtherAnswered, Timeout
  <2>3. LineIs("response") /\ line.what.cmd = "FLASH_END" /\ line.what.result = "SUCCESS"
    BY <2>1, <2>2 DEF EndAnswered, Answered
  <2>4. phase = "end"
    BY <1>0, <1>1, <2>3, Zenon DEF Turns, LineIs, SILENCE, Asks
  <2>5. pc = "idle" /\ InPlace(job.size)
    BY <1>0, <2>1, <2>3, <2>4 DEF Ended, Succeeded
  <2> QED BY <1>1, <2>5 DEF vars, chipVars, InPlace
<1> QED BY <1>3, <1>6, <1>7, <1>8

\* The line loses what is on it, or garbles a block.
LEMMA LineStep ==
  ASSUME UploadInv, UNCHANGED vars, Line
  PROVE  HostTyped' /\ Turns' /\ Progress' /\ Ended'
<1>0. HostTyped /\ Turns /\ Ended
  BY DEF UploadInv
<1>1. /\ UNCHANGED <<session, job, block, phase>> /\ ~LineIs(SILENCE)
      /\ lostResponses' \in Nat /\ (lostResponses' = 0 => lostResponses' = lostResponses)
  <2>1. UNCHANGED <<session, job, block, phase>> /\ ~LineIs(SILENCE)
    BY DEF Line, LoseRequest, LoseResponse, GarbleBlock, LineIs, SILENCE
  <2>2. lostResponses' \in {lostResponses, lostResponses + 1} /\ lostResponses \in Nat
    BY <1>0 DEF Line, LoseRequest, LoseResponse, GarbleBlock, HostTyped
  <2> QED BY <2>1, <2>2, SMT
<1>2. phase \in {"begin", "data", "end"}
  BY <1>0, <1>1 DEF Turns, HostTyped
<1>3. HostTyped'
  BY <1>0, <1>1, <1>2, TypesKept DEF HostTyped
<1>4. Blocks' = Blocks /\ BlockOf(block)' = BlockOf(block)
  BY <1>1 DEF Blocks, BlockOf, Image0
<1>5. CASE LoseRequest \/ LoseResponse
  <2>1. LineIs("lost")' /\ ~LineIs("response")'
    BY <1>5 DEF LoseRequest, LoseResponse, LineIs, Carry
  <2>2. Turns'
    BY <1>0, <1>1, <1>2, <1>4, <2>1 DEF Turns
  <2>3. Progress'
    <3>1. SUFFICES ASSUME lostResponses' = 0, Live' PROVE Progress'
      BY DEF Progress
    <3>2. LoseRequest /\ lostResponses' = lostResponses
      BY <1>0, <1>1, <1>5, <3>1, SMT DEF LoseResponse, HostTyped
    <3>3. LineIs("request") /\ ~LineIs("response")
      BY <3>2 DEF LoseRequest, LineIs
    <3>4. Live /\ Acked' = Acked
      BY <1>1, <2>1, <3>1, <3>3 DEF Live, Acked, Succeeded
    <3> QED BY <1>1, <3>2, <3>4, Rests
  <2>4. Ended'
    BY <1>1, <1>2, <2>1 DEF Ended, Succeeded
  <2> QED BY <1>3, <2>2, <2>3, <2>4
<1>6. CASE GarbleBlock
  <2>1. /\ LineIs("request") /\ ~LineIs("response") /\ LineIs("request")' /\ ~LineIs("response")'
        /\ line.what.cmd = "FLASH_DATA" /\ line'.what = [line.what EXCEPT !.flaw = "checksum"]
        /\ lostResponses' = lostResponses
    BY <1>6 DEF GarbleBlock, Send, Carry, LineIs
  <2>2. phase = "data" /\ block < Blocks
        /\ \E f \in {"none", "checksum"} : line.what = DataOf(f, BlockOf(block))
    BY <1>0, <1>2, <2>1 DEF Turns, LineIs, SILENCE, Asks, Begin, End, OtherCommand
  <2>3. line'.what = DataOf("checksum", BlockOf(block))
    BY <2>1, <2>2 DEF DataOf
  <2>4. Asks(DataOf("checksum", BlockOf(block)))'
    BY <1>1, <1>4, <2>1, <2>3 DEF Asks, DataOf
  <2>5. Turns'
    BY <1>1, <1>4, <2>2, <2>4 DEF Turns
  <2>6. Live /\ Acked' = Acked
    BY <1>1, <2>1, <2>2 DEF Live, Acked, Succeeded
  <2>7. Progress'
    BY <1>1, <2>1, <2>6, Rests
  <2>8. Ended'
    BY <1>1, <2>2, <2>1 DEF Ended, Succeeded
  <2> QED BY <1>3, <2>5, <2>7, <2>8
<1> QED BY <1>5, <1>6 DEF Line
-----------------------------------------------------------------------------
(* The device.                                                                 *)

\* The program counter counts what is taken but not done with.
LEMMA Counted ==
  ASSUME HostTyped
  PROVE  /\ ~Succeeded => Acked = block
         /\ Succeeded /\ line.what.cmd = "FLASH_DATA" => Acked = block + 1
         /\ Succeeded /\ line.what.cmd # "FLASH_DATA" => Acked = block
         /\ Acked \in Nat
         /\ pc = "post" => Due = Acked - 1
         /\ pc # "post" => Due = Acked
         /\ Due \in Int
<1>1. block \in Nat
  BY DEF HostTyped
<1>2. /\ ~Succeeded => Acked = block + 0
      /\ Succeeded /\ line.what.cmd = "FLASH_DATA" => Acked = block + 1
      /\ Succeeded /\ line.what.cmd # "FLASH_DATA" => Acked = block + 0
      /\ Succeeded \/ ~Succeeded
  BY DEF Acked
<1>3. /\ pc = "post" => Due = Acked - 1
      /\ pc # "post" => Due = Acked - 0
  BY DEF Due
<1> QED BY <1>1, <1>2, <1>3, SMT

\* A request is handled: the session it opens, the block it takes, what it ends.
LEMMA HandleStep ==
  ASSUME UploadInv, LineIs("request"), HandleCommand(line.what),
         line' = Carry("response", [cmd |-> line.what.cmd, result |-> reply']),
         UNCHANGED <<phase, session, job, block, tries, boundVars>>
  PROVE  HostTyped' /\ Turns' /\ Progress' /\ Ended'
<1> DEFINE r == line.what
<1>0. HostTyped /\ Turns /\ Progress /\ Ended
  BY DEF UploadInv
<1>1. phase \in {"begin", "data", "end"} /\ ~LineIs("response") /\ ~Succeeded
      /\ ~LineIs(SILENCE) /\ ~LineIs("lost")
  BY <1>0 DEF Turns, HostTyped, LineIs, SILENCE, Succeeded
<1>2. /\ LineIs("response")' /\ line'.what.cmd = r.cmd /\ line'.what.result = reply'
      /\ ~LineIs("request")' /\ ~LineIs(SILENCE)' /\ ~LineIs("lost")'
  BY DEF LineIs, Carry, SILENCE
<1>3. lostResponses' = lostResponses
  BY DEF boundVars
<1>4. HostTyped'
  BY <1>0, <1>1, <1>3, TypesKept DEF HostTyped
<1>5. Blocks' = Blocks /\ \A b : BlockOf(b)' = BlockOf(b)
  BY DEF Blocks, BlockOf, Image0
<1>6. Length(0) = 0 /\ \A w : Length(w)' = Length(w)
  <2>1. job \in Jobs
    BY <1>0 DEF HostTyped
  <2>2. 0 \in Nat
    OBVIOUS
  <2> QED BY <2>1, <2>2, LengthFacts DEF Length
<1>7. Succeeded' <=> reply' = "SUCCESS"
  BY <1>2 DEF Succeeded
<1>8. block \in Nat /\ pc = "idle" /\ Acked = block /\ Due = block
  BY <1>0, <1>1, Counted DEF HostTyped, HandleCommand
<1>9. /\ ~Succeeded' => Acked' = block
      /\ Succeeded' /\ r.cmd = "FLASH_DATA" => Acked' = block + 1
      /\ Succeeded' /\ r.cmd # "FLASH_DATA" => Acked' = block
      /\ pc' = "post" => Due' = Acked' - 1
      /\ pc' # "post" => Due' = Acked'
  <2>1. block' = block
    OBVIOUS
  <2>2. /\ ~Succeeded' => Acked' = block' + 0
        /\ Succeeded' /\ r.cmd = "FLASH_DATA" => Acked' = block' + 1
        /\ Succeeded' /\ r.cmd # "FLASH_DATA" => Acked' = block' + 0
        /\ Succeeded' \/ ~Succeeded'
    BY <1>2 DEF Acked
  <2>3. /\ pc' = "post" => Due' = Acked' - 1
        /\ pc' # "post" => Due' = Acked' - 0
    BY DEF Due
  <2> HIDE DEF r, Acked, Due, Succeeded
  <2> QED BY <1>8, <2>1, <2>2, <2>3, SMT
<1>10. Keep => /\ UNCHANGED <<in_progress, begin, offset, total_remaining, torn, flash>>
               /\ \A n : InPlace(n)' <=> InPlace(n)
  BY DEF Keep, stateVars, chipVars, histVars, InPlace
<1>11. CASE phase = "begin"
  <2>1. r = Begin("none", job.start, job.size) /\ block = 0
    BY <1>0, <1>1, <1>11 DEF Turns, Asks
  <2>2. r.cmd = "FLASH_BEGIN" /\ r.flaw = "none" /\ r.start = job.start /\ r.size = job.size
    BY <2>1 DEF Begin
  <2>3. Turns'
    BY <1>2, <1>11, <2>1, <2>2 DEF Turns
  <2>4. Ended'
    BY <1>11 DEF Ended
  <2>5. Progress'
    <3>1. SUFFICES ASSUME Succeeded' PROVE Progress'
      BY <1>11 DEF Progress, Live
    <3>2. FlashBegin(r)
      BY <1>7, <2>2, <3>1 DEF HandleCommand, RefuseFrame, ReportError, FlashData, FlashEnd,
         OtherHandler, Executes, Respond
    <3>3. /\ total_remaining' = job.size /\ offset' = job.start /\ in_progress' = TRUE
          /\ begin' = job.start /\ torn' = FALSE /\ pc' = "idle"
      BY <2>2, <3>2 DEF FlashBegin, Respond
    <3>4. Acked' = 0 /\ Due' = 0
      BY <1>9, <2>1, <2>2, <3>1, <3>3
    <3>5. job.start \in Nat /\ job.size \in Nat /\ CELLS \in Nat
      BY <1>0, JobFacts DEF HostTyped
    <3>6. InPlace(0)'
      <4>1. ASSUME NEW c \in Cells PROVE ~(job.start =< c /\ c < job.start + 0)
        BY <3>5, SMT DEF Cells
      <4> QED BY <4>1 DEF InPlace
    <3>7. offset' = job.start' + Length(0)' /\ Length(0)' = 0
      <4>1. job.start = job.start + 0
        BY <3>5, SMT
      <4>2. Length(0)' = 0
        BY <1>6
      <4> QED BY <3>3, <4>1, <4>2
    <3>8. ~torn' /\ InPlace(Length(0))'
      <4>1. InPlace(Length(0))' <=> InPlace(0)'
        BY <3>7 DEF InPlace
      <4> QED BY <3>3, <3>6, <4>1
    <3>9. 0 \in 0..Due'
      BY <3>4, SMT
    <3> QED BY <3>3, <3>7, <3>8, <3>9 DEF Progress
  <2> QED BY <1>4, <2>3, <2>4, <2>5
<1>12. CASE phase = "data"
  <2>1. Live /\ Ended'
    BY <1>12 DEF Live, Ended
  <2>2. Live' /\ phase' = "data"
    BY <1>12 DEF Live
  <2>3. \/ /\ block < Blocks
           /\ \E f \in {"none", "checksum"} : r = DataOf(f, BlockOf(block))
        \/ r = OtherCommand("none")
    BY <1>0, <1>1, <1>12 DEF Turns, Asks
  <2>4. Turns'
    <3>1. \/ r.cmd = "FLASH_DATA" /\ block < Blocks
          \/ r.cmd = "OTHER"
      BY <2>3 DEF DataOf, OtherCommand
    <3> QED BY <1>2, <1>5, <1>12, <3>1 DEF Turns
  <2>5. \/ pc' = "idle" /\ Acked' = block
        \/ pc' = "post" /\ Acked' = block + 1 /\ cur' = BlockOf(block)
    <3>1. CASE r = OtherCommand("none")
      <4>1. r.cmd = "OTHER" /\ r.flaw = "none"
        BY <3>1 DEF OtherCommand
      <4>2. ReportError(r) \/ OtherHandler(r)
        BY <4>1 DEF HandleCommand, RefuseFrame, FlashBegin, FlashData, FlashEnd, Executes
      <4>3. pc' = "idle"
        BY <4>2 DEF ReportError, OtherHandler, Respond
      <4> QED BY <1>9, <4>1, <4>3
    <3>2. CASE \E f \in {"none", "checksum"} : r = DataOf(f, BlockOf(block))
      <4>1. r.cmd = "FLASH_DATA" /\ r.flaw \in {"none", "checksum"} /\ r.data = BlockOf(block)
        BY <3>2 DEF DataOf
      <4>2. ReportError(r) \/ FlashData(r)
        BY <4>1 DEF HandleCommand, RefuseFrame, FlashBegin, FlashEnd, OtherHandler, Executes
      <4>3. CASE FlashData(r) /\ DataResult(r) = "SUCCESS"
        <5>1. reply' = "SUCCESS" /\ pc' = "post" /\ cur' = r.data
          BY <4>3 DEF FlashData
        <5> QED BY <1>7, <1>9, <4>1, <5>1
      <4>4. CASE ReportError(r) \/ (FlashData(r) /\ DataResult(r) # "SUCCESS")
        <5>1. pc' = "idle" /\ reply' # "SUCCESS"
          BY <4>4 DEF ReportError, FlashData, Respond
        <5> QED BY <1>7, <1>9, <5>1
      <4> QED BY <4>2, <4>3, <4>4
    <3> QED BY <2>3, <3>1, <3>2
  <2>6. Keep
    <3>1. r.cmd \in {"FLASH_DATA", "OTHER"} /\ r.flaw \in {"none", "checksum"}
      BY <2>3 DEF DataOf, OtherCommand
    <3> QED BY <3>1 DEF HandleCommand, RefuseFrame, ReportError, FlashBegin, FlashData, FlashEnd,
                        OtherHandler, Executes
  <2>7. Due' = block /\ (pc' = "post" => Acked' - 1 = block)
    <3>1. (block + 1) - 1 = block
      BY <1>8, SMT
    <3>2. CASE pc' = "idle" /\ Acked' = block
      BY <1>9, <3>2
    <3>3. CASE pc' = "post" /\ Acked' = block + 1
      <4>1. Acked' - 1 = (block + 1) - 1
        BY <3>3
      <4>2. Acked' - 1 = block
        BY <3>1, <4>1, Zenon
      <4> QED BY <1>9, <3>3, <4>2, Zenon
    <3> QED BY <2>5, <3>2, <3>3, Zenon
  <2>8. SUFFICES ASSUME lostResponses = 0 PROVE Progress'
    BY <1>4, <2>1, <2>4, <1>3 DEF Progress
  <2>9. /\ in_progress /\ begin = job.start /\ offset + total_remaining = job.start + job.size
        /\ \E w \in 0..Due : /\ offset = job.start + Length(w)
                             /\ w = Due => ~torn /\ InPlace(Length(w))
    BY <1>0, <2>1, <2>8 DEF Progress
  <2>10. PICK w \in 0..block : /\ offset = job.start + Length(w)
                               /\ w = block => ~torn /\ InPlace(Length(w))
    BY <1>8, <2>9
  <2>11. /\ in_progress' /\ begin' = job.start'
         /\ offset' + total_remaining' = job.start' + job.size'
    BY <1>10, <2>6, <2>9
  <2>12. pc' = "post" => cur' = BlockOf(Acked - 1)'
    <3>1. ASSUME pc' = "post" PROVE cur' = BlockOf(Acked - 1)'
      <4>1. cur' = BlockOf(block) /\ Acked' - 1 = block
        BY <2>5, <2>7, <3>1
      <4>2. BlockOf(Acked - 1)' = BlockOf(block)
        BY <4>1 DEF BlockOf, Image0
      <4> QED BY <4>1, <4>2
    <3> QED BY <3>1
  <2>13. w \in 0..Due' /\ offset' = job.start' + Length(w)'
         /\ (w = Due' => ~torn' /\ InPlace(Length(w))')
    <3>1. InPlace(Length(w))' <=> InPlace(Length(w))
      BY <1>6, <1>10, <2>6 DEF InPlace
    <3> QED BY <1>6, <1>10, <2>6, <2>7, <2>10, <3>1
  <2> QED BY <2>11, <2>12, <2>13 DEF Progress
<1>13. CASE phase = "end"
  <2>1. r = End("none") /\ block = Blocks
    BY <1>0, <1>1, <1>13 DEF Turns, Asks
  <2>2. r.cmd = "FLASH_END" /\ r.flaw = "none"
    BY <2>1 DEF End
  <2>3. Turns'
    BY <1>2, <1>5, <1>13, <2>1, <2>2 DEF Turns
  <2>4. Progress'
    BY <1>2, <1>13 DEF Progress, Live
  <2>5. Ended'
    <3>1. SUFFICES ASSUME Succeeded', lostResponses = 0 PROVE pc' = "idle" /\ InPlace(job.size)'
      BY <1>3, <1>13 DEF Ended
    <3>2. FlashEnd(r)
      BY <1>7, <2>2, <3>1 DEF HandleCommand, RefuseFrame, ReportError, FlashData, FlashBegin,
         OtherHandler, Executes, Respond
    <3>3. Live
      BY <1>1, <1>13 DEF Live
    <3>4. /\ in_progress /\ offset + total_remaining = job.start + job.size
          /\ \E w \in 0..Due : /\ offset = job.start + Length(w)
                               /\ w = Due => ~torn /\ InPlace(Length(w))
      BY <1>0, <3>1, <3>3 DEF Progress
    <3>5. reply' = EndResult(r) /\ pc' = "idle" /\ EndResult(r) = "SUCCESS"
      BY <1>7, <3>1, <3>2 DEF FlashEnd, Respond
    <3>6. total_remaining = 0 /\ UNCHANGED flash
      BY <3>2, <3>4, <3>5 DEF FlashEnd, EndResult, chipVars
    <3>7. PICK w \in 0..block : /\ offset = job.start + Length(w)
                                /\ w = block => ~torn /\ InPlace(Length(w))
      BY <1>8, <3>4
    <3>8. job \in Jobs /\ w \in Nat /\ w =< block
      BY <1>0, <1>8, <3>7, SMT DEF HostTyped
    <3>9. Length(w) \in Nat /\ (Length(w) = job.size => w >= Blocks)
      BY <3>8, LengthFacts
    <3>10. job.start \in Nat /\ job.size \in Nat /\ offset \in Nat
      BY <3>8, JobFacts DEF UploadInv, IInv, TypeOK
    <3>11. Length(w) = job.size
      <4> HIDE DEF Length
      <4> QED BY <3>4, <3>6, <3>7, <3>9, <3>10, SMT
    <3>12. w = block
      BY <1>8, <2>1, <3>8, <3>9, <3>11, SMT
    <3>13. InPlace(job.size)
      BY <3>7, <3>11, <3>12
    <3> QED BY <3>5, <3>6, <3>13 DEF InPlace
  <2> QED BY <1>4, <2>3, <2>4, <2>5
<1> QED BY <1>1, <1>11, <1>12, <1>13

\* A write of the session failed, or an erase ahead of one: the block the stub had
\* taken is not written, and all that is known is the write position.
LEMMA FailStep ==
  ASSUME UploadInv, UNCHANGED <<hostVars, stateVars, begin>>, pc = "post", pc' = "idle"
  PROVE  Progress'
<1>0. HostTyped /\ Progress
  BY DEF UploadInv
<1>1. UNCHANGED <<phase, session, job, block, line, lostResponses>>
  BY DEF hostVars, boundVars
<1>2. Live' = Live /\ Acked' = Acked
  BY <1>1 DEF Live, Acked, Succeeded, LineIs
<1>3. Acked \in Nat /\ Due = Acked - 1
  BY <1>0, Counted
<1>4. Due' = Acked
  <2>1. Due' = Acked' - 0
    BY DEF Due
  <2>2. Acked - 0 = Acked
    BY <1>3, SMT
  <2> QED BY <1>2, <2>1, <2>2
<1>5. SUFFICES ASSUME Live, lostResponses = 0 PROVE Progress'
  BY <1>1, <1>2 DEF Progress
<1>6. /\ in_progress /\ begin = job.start /\ offset + total_remaining = job.start + job.size
      /\ \E w \in 0..Due : offset = job.start + Length(w)
  BY <1>0, <1>5 DEF Progress
<1>7. PICK w \in 0..Due : offset = job.start + Length(w)
  BY <1>6
<1>8. w \in 0..Due' /\ w # Due'
  BY <1>3, <1>4, <1>7, SMT
<1>9. offset' = job.start' + Length(w)'
  BY <1>1, <1>7 DEF stateVars, Length
<1> QED BY <1>1, <1>6, <1>8, <1>9 DEF Progress, stateVars

\* The erase ahead of a write leaves what the session has written.
LEMMA EnsureErasedProgress ==
  ASSUME UploadInv, EnsureErased, UNCHANGED hostVars
  PROVE  Progress'
<1>0. HostTyped /\ Progress /\ IInv
  BY DEF UploadInv
<1>1. UNCHANGED <<stateVars, histVars>> /\ pc = "post"
  BY DEF EnsureErased
<1>2. PICK result \in Result :
        IF result = "SUCCESS" THEN UNCHANGED <<accumulated_result, pc, cur>> ELSE Finish(result)
  BY DEF EnsureErased
<1>3. CASE result # "SUCCESS"
  <2>1. pc' = "idle"
    BY <1>2, <1>3 DEF Finish
  <2> QED BY <1>1, <2>1, FailStep DEF histVars
<1>4. CASE result = "SUCCESS"
  <2>1. UNCHANGED <<pc, cur, in_progress, begin, offset, total_remaining, torn>>
    BY <1>1, <1>2, <1>4 DEF stateVars, histVars
  <2>2. UNCHANGED <<phase, session, job, block, line, lostResponses>>
    BY DEF hostVars, boundVars
  <2>3. Live' = Live /\ Acked' = Acked
    BY <2>2 DEF Live, Acked, Succeeded, LineIs
  <2>4. Due' = Due
    BY <2>1, <2>3 DEF Due
  <2>5. SUFFICES ASSUME Live, lostResponses = 0 PROVE Progress'
    BY <2>2, <2>3 DEF Progress
  <2>6. /\ in_progress /\ begin = job.start /\ offset + total_remaining = job.start + job.size
        /\ cur = BlockOf(Acked - 1)
        /\ \E w \in 0..Due : /\ offset = job.start + Length(w)
                             /\ w = Due => ~torn /\ InPlace(Length(w))
    BY <1>0, <1>1, <2>5 DEF Progress
  <2>7. PICK w \in 0..Due : /\ offset = job.start + Length(w)
                            /\ w = Due => ~torn /\ InPlace(Length(w))
    BY <2>6
  <2>8. ASSUME NEW c \in Cells, job.start =< c, c < job.start + Length(w)
        PROVE  flash'[c] = flash[c]
    <3>1. flash'[c] # flash[c] => next_erase_addr =< c
      BY <1>0, EnsureErasedConfined
    <3>2. offset = begin \/ offset =< next_erase_addr
      BY <1>0, <2>6 DEF IInv, WritePosition
    <3>3. offset \in Nat /\ begin \in Nat /\ next_erase_addr \in Nat /\ c \in Int
      BY <1>0 DEF IInv, TypeOK, Cells
    <3>4. c < offset /\ begin =< c
      BY <2>6, <2>7, <2>8
    <3> QED BY <3>1, <3>2, <3>3, <3>4, SMT
  <2>9. Length(w)' = Length(w)
    BY <2>2 DEF Length
  <2>10. InPlace(Length(w)) => InPlace(Length(w))'
    BY <2>2, <2>8, <2>9 DEF InPlace
  <2>11. BlockOf(Acked - 1)' = BlockOf(Acked - 1)
    BY <2>2, <2>3 DEF BlockOf, Image0
  <2> QED BY <2>1, <2>2, <2>4, <2>6, <2>7, <2>9, <2>10, <2>11 DEF Progress
<1> QED BY <1>3, <1>4

\* A block is written behind those before it, to blank cells.
LEMMA WriteBlockProgress ==
  ASSUME UploadInv, WriteBlock, UNCHANGED hostVars
  PROVE  Progress'
<1> DEFINE n == WriteSize
<1>0. HostTyped /\ Progress /\ IInv
  BY DEF UploadInv
<1>1. /\ pc = "post" /\ pc' = "idle" /\ next_erase_addr >= offset + n
      /\ total_remaining' = total_remaining - n /\ offset' = offset + n
      /\ flash' = WithData(flash, offset, cur, n)
      /\ UNCHANGED <<in_progress, begin, torn>>
  BY <1>0, WriteSizeFacts DEF WriteBlock, Finish, histVars, IInv
<1>2. n \in Nat /\ n =< total_remaining /\ n =< Len(cur) /\ n = Lesser(Len(cur), total_remaining)
  BY <1>0, WriteSizeFacts DEF IInv, WriteSize
<1> HIDE DEF n
<1>3. UNCHANGED <<phase, session, job, block, line, lostResponses>>
  BY DEF hostVars, boundVars
<1>4. Live' = Live /\ Acked' = Acked
  BY <1>3 DEF Live, Acked, Succeeded, LineIs
<1>5. Acked \in Nat /\ Due = Acked - 1 /\ Due' = Acked
  <2>1. Acked \in Nat /\ Due = Acked - 1
    BY <1>0, <1>1, Counted
  <2>2. Due' = Acked' - 0
    BY <1>1 DEF Due
  <2>3. Acked - 0 = Acked
    BY <2>1, SMT
  <2> QED BY <1>4, <2>1, <2>2, <2>3
<1>6. SUFFICES ASSUME Live, lostResponses = 0 PROVE Progress'
  BY <1>3, <1>4 DEF Progress
<1>7. /\ in_progress /\ begin = job.start /\ offset + total_remaining = job.start + job.size
      /\ cur = BlockOf(Due)
      /\ \E w \in 0..Due : /\ offset = job.start + Length(w)
                           /\ w = Due => ~torn /\ InPlace(Length(w))
  BY <1>0, <1>1, <1>5, <1>6 DEF Progress
<1>8. PICK w \in 0..Due : /\ offset = job.start + Length(w)
                          /\ w = Due => ~torn /\ InPlace(Length(w))
  BY <1>7
<1>9. w \in Nat /\ Due \in Nat /\ w =< Due /\ w + 1 \in 0..Due' /\ (w + 1 = Due' => w = Due)
  <2> HIDE DEF Due, Acked
  <2> QED BY <1>5, <1>8, SMT
<1>10. phase # "idle" /\ job \in Jobs
  BY <1>0, <1>6 DEF HostTyped, Live
<1>11. Len(cur) = BLOCK
  BY <1>0, <1>7, <1>9, <1>10, BlockIsData
<1>12. /\ job.start \in Nat /\ job.size \in Nat /\ BLOCK \in Nat /\ BLOCK > 0
       /\ offset \in Nat /\ total_remaining \in Nat /\ next_erase_addr \in Nat
  BY <1>0, <1>10, JobFacts DEF IInv, TypeOK
<1>13. /\ Length(w) \in Nat /\ Length(w) =< job.size
       /\ Length(w) < job.size => Length(w) = w * BLOCK
       /\ Length(w + 1) = Length(w) + Lesser(BLOCK, job.size - Length(w))
  BY <1>9, <1>10, LengthFacts
<1>14. Length(w + 1) = Length(w) + n
  <2> HIDE DEF Length
  <2>1. total_remaining = job.size - Length(w)
    BY <1>7, <1>8, <1>12, <1>13, SMT
  <2> QED BY <1>2, <1>11, <1>13, <2>1
<1>15. /\ offset' = job.start + Length(w + 1)
       /\ offset' + total_remaining' = job.start + job.size
  <2> DEFINE l == Length(w)
             m == Length(w + 1)
  <2>1. l \in Nat /\ m = l + n /\ offset = job.start + l
    BY <1>8, <1>13, <1>14
  <2> HIDE DEF l, m
  <2>2. /\ offset' = offset + n /\ total_remaining' = total_remaining - n
        /\ offset + total_remaining = job.start + job.size
    BY <1>1, <1>7
  <2>3. /\ job.start \in Nat /\ job.size \in Nat /\ offset \in Nat /\ total_remaining \in Nat
        /\ n \in Nat
    BY <1>2, <1>12
  <2>4. offset' = job.start + m
    BY <2>1, <2>2, <2>3, SMT
  <2>5. offset' + total_remaining' = job.start + job.size
    BY <2>2, <2>3, SMT
  <2> QED BY <2>4, <2>5 DEF m
<1>16. ASSUME w = Due PROVE InPlace(Length(w + 1))'
  <2>1. ~torn /\ InPlace(Length(w)) /\ cur = BlockOf(w)
    BY <1>7, <1>8, <1>16
  <2>2. SUFFICES ASSUME NEW c \in Cells, job.start =< c, c < offset'
                 PROVE  flash'[c] = Unit(session, c - job.start)
    BY <1>3, <1>15 DEF InPlace, Length, Unit
  <2>3. c \in Int /\ c \in Nat
    BY <1>12, <2>2, SMT DEF Cells
  <2>4. CASE c < offset
    <3>1. flash[c] = Unit(session, c - job.start)
      BY <1>8, <2>1, <2>2, <2>4 DEF InPlace
    <3>2. ~(offset =< c)
      BY <1>12, <2>3, <2>4, SMT
    <3>3. flash'[c] = flash[c]
      BY <1>1, <3>2 DEF WithData
    <3> QED BY <3>1, <3>3
  <2>5. CASE offset =< c
    <3> DEFINE k == c - offset + 1
               y == w * BLOCK
    <3>1. c < offset + n
      BY <1>1, <2>2
    <3>2. flash[c] = BLANK
      <4>1. c < next_erase_addr
        BY <1>1, <1>2, <1>12, <2>3, <3>1, SMT
      <4> QED BY <1>0, <1>7, <2>1, <2>5, <4>1 DEF IInv, BlankAhead
    <3>3. flash'[c] = Programmed(BLANK, cur[k])
      BY <1>1, <2>5, <3>1, <3>2 DEF WithData
    <3>4. flash'[c] = cur[k]
      BY <3>3 DEF Programmed
    <3>5. n > 0 /\ n =< BLOCK
      <4>1. n =< BLOCK
        BY <1>2, <1>11
      <4> QED BY <1>2, <1>12, <2>3, <2>5, <3>1, <4>1, SMT
    <3>6. Length(w) < job.size
      <4> HIDE DEF Length
      <4> QED BY <1>2, <1>7, <1>8, <1>12, <1>13, <3>5, SMT
    <3>7. Length(w) = y /\ y \in Nat
      BY <1>13, <3>6
    <3>8. k \in 1..BLOCK
      BY <1>2, <1>12, <2>3, <2>5, <3>1, <3>5, SMT
    <3>9. cur[k] = Image0(y + k - 1)
      BY <2>1, <3>8 DEF BlockOf
    <3> HIDE DEF y
    <3>10. y + k - 1 = c - job.start /\ c - job.start < job.size
      <4>1. offset = job.start + y
        BY <1>8, <3>7
      <4>2. offset' =< offset' + total_remaining'
        BY <1>1, <1>2, <1>12, SMT
      <4>3. offset' \in Nat
        BY <1>1, <1>2, <1>12, SMT
      <4> QED BY <1>12, <1>15, <2>2, <2>3, <3>7, <4>1, <4>2, <4>3, SMT
    <3> QED BY <3>4, <3>9, <3>10 DEF Image0
  <2> QED BY <1>12, <2>3, <2>4, <2>5, SMT
<1>17. offset' = job.start' + Length(w + 1)' /\ offset' + total_remaining' = job.start' + job.size'
  BY <1>3, <1>15 DEF Length
<1>18. w + 1 = Due' => ~torn' /\ InPlace(Length(w + 1))'
  BY <1>1, <1>8, <1>9, <1>16
<1> QED BY <1>1, <1>3, <1>7, <1>9, <1>17, <1>18 DEF Progress

\* The device goes on by itself: it erases, it writes, or its chip gets ready.
LEMMA DeviceStep ==
  ASSUME UploadInv, PostProcess \/ ChipReady, UNCHANGED hostVars
  PROVE  HostTyped' /\ Turns' /\ Progress' /\ Ended'
<1>0. HostTyped /\ Turns /\ Progress /\ Ended
  BY DEF UploadInv
<1>1. UNCHANGED <<phase, session, job, block, line, lostResponses>>
  BY DEF hostVars, boundVars
<1>2. Blocks' = Blocks /\ \A b : BlockOf(b)' = BlockOf(b)
  BY <1>1 DEF Blocks, BlockOf, Image0
<1>3. HostTyped'
  BY <1>0, <1>1, <1>2 DEF HostTyped
<1>4. Turns'
  BY <1>0, <1>1, <1>2 DEF Turns, LineIs, Asks
<1>5. CASE ChipReady
  <2>1. UNCHANGED <<in_progress, begin, offset, total_remaining, pc, cur, torn, flash>>
    BY <1>5 DEF ChipReady, stateVars, histVars
  <2>2. Live' = Live /\ Acked' = Acked /\ Succeeded' = Succeeded
    BY <1>1 DEF Live, Acked, Succeeded, LineIs
  <2>3. Due' = Due
    BY <2>1, <2>2 DEF Due
  <2>4. (\A k : InPlace(k)' <=> InPlace(k)) /\ (\A k : Length(k)' = Length(k))
    BY <1>1, <2>1 DEF InPlace, Length
  <2>5. Progress'
    <3>1. SUFFICES ASSUME Live, lostResponses = 0 PROVE Progress'
      BY <1>1, <2>2 DEF Progress
    <3> QED BY <1>0, <1>1, <1>2, <2>1, <2>2, <2>3, <2>4, <3>1, Zenon DEF Progress
  <2>6. Ended'
    BY <1>0, <1>1, <2>1, <2>2, <2>4 DEF Ended
  <2> QED BY <1>3, <1>4, <2>5, <2>6
<1>6. CASE PostProcess
  <2>1. pc = "post"
    BY <1>6 DEF PostProcess, EnsureErased, WriteBlock, WriteFails
  <2>2. Ended'
    <3>1. Succeeded' = Succeeded
      BY <1>1 DEF Succeeded, LineIs
    <3> QED BY <1>0, <1>1, <2>1, <3>1 DEF Ended
  <2>3. Progress'
    <3>1. CASE WriteFails
      <4>1. pc' = "idle" /\ UNCHANGED <<stateVars, begin>>
        BY <3>1 DEF WriteFails, Finish
      <4> QED BY <2>1, <4>1, FailStep
    <3> QED BY <1>6, <3>1, EnsureErasedProgress, WriteBlockProgress DEF PostProcess
  <2> QED BY <1>3, <1>4, <2>2, <2>3
<1> QED BY <1>5, <1>6

\* Nothing moves.
LEMMA StillUpload ==
  ASSUME UploadInv, UNCHANGED allVars
  PROVE  UploadInv'
<1>1. UNCHANGED vars /\ UNCHANGED hostVars
  BY DEF allVars
<1>2. /\ UNCHANGED <<phase, session, job, block, line, lostResponses>>
      /\ UNCHANGED <<in_progress, begin, offset, total_remaining, pc, cur, torn, flash>>
  BY <1>1 DEF hostVars, boundVars, vars, stateVars, histVars, chipVars
<1>3. IInv'
  BY <1>1, StutterStep DEF UploadInv
<1>4. HostTyped' /\ Turns'
  BY <1>2 DEF UploadInv, HostTyped, Turns, LineIs, Asks, Blocks, BlockOf, Image0
<1>5. Live' = Live /\ Acked' = Acked /\ Succeeded' = Succeeded
  BY <1>2 DEF Live, Acked, Succeeded, LineIs
<1>6. Progress'
  BY <1>1, <1>2, <1>5, Rests
<1>7. Ended'
  BY <1>2, <1>5 DEF UploadInv, Ended, InPlace
<1> QED BY <1>3, <1>4, <1>6, <1>7 DEF UploadInv

\* Every step of host, line and device keeps it.
LEMMA NextUpload == UploadInv /\ [UploadNext]_allVars => UploadInv'
<1> SUFFICES ASSUME UploadInv, [UploadNext]_allVars PROVE UploadInv'
  OBVIOUS
<1>1. CASE UNCHANGED vars /\ (Host \/ Line)
  <2>1. IInv'
    BY <1>1, StutterStep DEF UploadInv
  <2>2. HostTyped' /\ Turns' /\ Progress' /\ Ended'
    BY <1>1, StartStep, SendStep, AnswerStep, LineStep DEF Host
  <2> QED BY <2>1, <2>2 DEF UploadInv
<1>2. CASE /\ LineIs("request")
           /\ HandleCommand(line.what)
           /\ line' = Carry("response", [cmd |-> line.what.cmd, result |-> reply'])
           /\ UNCHANGED <<phase, session, job, block, tries, boundVars>>
  <2>1. line.what \in Request /\ Fits(line.what)
    BY <1>2, AsksRequest DEF UploadInv
  <2>2. Next
    BY <1>2, <2>1 DEF Next
  <2>3. IInv'
    BY <2>2, NextIInv DEF UploadInv
  <2> QED BY <1>2, <2>3, HandleStep DEF UploadInv
<1>3. CASE (PostProcess \/ ChipReady) /\ UNCHANGED hostVars
  <2>1. IInv'
    BY <1>3, NextIInv DEF UploadInv, Next
  <2> QED BY <1>3, <2>1, DeviceStep DEF UploadInv
<1>4. CASE UNCHANGED allVars
  BY <1>4, StillUpload
<1> QED BY <1>1, <1>2, <1>3, <1>4 DEF UploadNext, Device

\* The image in place is the image asked for.
LEMMA ProgressIsEnough == UploadInv => EndMeansWritten
<1> SUFFICES ASSUME UploadInv, phase = "done", lostResponses = 0
             PROVE  Uploaded = [i \in 0..(job.size - 1) |-> Unit(session, i)]
  BY DEF EndMeansWritten
<1>1. InPlace(job.size) /\ job \in Jobs
  BY DEF UploadInv, Ended, HostTyped
<1>2. ASSUME NEW i \in 0..(job.size - 1) PROVE flash[job.start + i] = Unit(session, i)
  <2> DEFINE c == job.start + i
  <2>1. c \in Cells /\ job.start =< c /\ c < job.start + job.size /\ c - job.start = i
    BY <1>1, JobFacts, SMT DEF Cells
  <2> HIDE DEF c
  <2>2. flash[c] = Unit(session, i)
    BY <1>1, <2>1 DEF InPlace
  <2> QED BY <2>2 DEF c
<1> QED BY <1>2 DEF Uploaded

-----------------------------------------------------------------------------
(* A lost response: the block is sent, and written, once more.                 *)

\* The block that is at each place of the image: the next one or, again, the last.
Repeats(f) ==
  /\ f \in [Nat -> Nat] /\ f[0] = 0
  /\ \A k \in Nat : f[k] =< k /\ f[k + 1] \in {f[k], f[k] + 1}

RepeatOf(f, i) == Unit(session, (f[i \div BLOCK] * BLOCK) + (i % BLOCK))

Filled(f, n) ==
  \A c \in Cells : job.start =< c /\ c < job.start + n => flash[c] = RepeatOf(f, c - job.start)

TookData == Succeeded /\ line.what.cmd = "FLASH_DATA"

\* The stub took t blocks; the host goes on with the last of these or the next one.
Took(f, t) ==
  \/ t = 0 /\ Acked = 0 /\ ~TookData
  \/ \E k \in Nat : t = k + 1 /\ (Acked = f[k] + 1 \/ (Acked = f[k] /\ ~TookData))

\* The stub has the session open, as far as the host can still hope.
Open ==
  \/ phase = "begin" /\ Succeeded
  \/ phase = "data"
  \/ phase = "end" /\ LineIs("request")

\* So far the stub wrote w of the blocks it took, all but the one in its hands.
Placed(f, w) ==
  /\ Repeats(f) /\ offset = job.start + Length(w) /\ Filled(f, Length(w))
  /\ Took(f, IF pc = "post" THEN w + 1 ELSE w)
  /\ pc = "post" => cur = BlockOf(f[w])

Steady ==
  Open /\ faults = 0 =>
    /\ in_progress /\ begin = job.start /\ offset + total_remaining = job.start + job.size
    /\ ~torn
    /\ \E w \in Nat, f \in [Nat -> Nat] : Placed(f, w)

Repeated ==
  (phase = "done" \/ (phase = "end" /\ Succeeded)) /\ faults = 0 =>
    pc = "idle" /\ \E f \in [Nat -> Nat] : Repeats(f) /\ Filled(f, job.size)

RepeatInv == UploadInv /\ Steady /\ Repeated

\* A cell of the block at w is found there.
LEMMA PlaceOf ==
  ASSUME NEW w \in Nat, NEW r \in Nat, r < BLOCK
  PROVE  ((w * BLOCK) + r) \div BLOCK = w /\ ((w * BLOCK) + r) % BLOCK = r
<1> DEFINE x == (w * BLOCK) + r
           q == x \div BLOCK
           m == x % BLOCK
<1>1. BLOCK \in Nat /\ BLOCK > 0
  BY JobAssumption, SectorAssumption, SMT
<1>2. x \in Nat
  BY <1>1, SMT
<1>3. q \in Int /\ m \in 0..(BLOCK - 1) /\ x = (BLOCK * q) + m
  <2> HIDE DEF x
  <2> QED BY <1>1, <1>2, SMT
<1> HIDE DEF q, m
<1>4. BLOCK * (q - w) = r - m
  <2>1. BLOCK * (q - w) = (BLOCK * q) - (w * BLOCK)
    BY <1>1, <1>3, SMT
  <2>2. w * BLOCK \in Int /\ BLOCK * q \in Int
    BY <1>1, <1>3, SMT
  <2>3. (w * BLOCK) + r = (BLOCK * q) + m
    BY <1>3, Zenon
  <2> QED BY <1>3, <2>1, <2>2, <2>3, SMT
<1>5. q - w = 0
  <2> DEFINE k == q - w
  <2>0. k \in Int /\ BLOCK * k = r - m
    BY <1>3, <1>4, SMT
  <2> HIDE DEF k
  <2>1. k \in Int /\ BLOCK * k < BLOCK /\ BLOCK * k > -BLOCK
    BY <1>1, <1>3, <2>0, SMT
  <2>2. CASE k >= 1
    <3>1. BLOCK * k >= BLOCK
      BY <1>1, <2>1, <2>2, SMT
    <3> QED BY <1>1, <2>1, <3>1, SMT
  <2>3. CASE k =< -1
    <3>1. BLOCK * k =< -BLOCK
      BY <1>1, <2>1, <2>3, SMT
    <3> QED BY <1>1, <2>1, <3>1, SMT
  <2>4. CASE k = 0
    BY <2>4 DEF k
  <2> QED BY <2>0, <2>2, <2>3, <2>4, SMT
<1>6. q = w
  BY <1>3, <1>5, SMT
<1>7. m = r
  BY <1>1, <1>3, <1>6, SMT
<1> QED BY <1>6, <1>7 DEF q, m

\* What is before the block at w belongs to an earlier one.
LEMMA PlaceBefore ==
  ASSUME NEW w \in Nat, NEW i \in Nat, i < w * BLOCK
  PROVE  /\ i \div BLOCK \in Nat /\ i \div BLOCK < w
         /\ i % BLOCK \in Nat /\ i % BLOCK < BLOCK
         /\ i = ((i \div BLOCK) * BLOCK) + (i % BLOCK)
<1> DEFINE q == i \div BLOCK
           m == i % BLOCK
<1>1. BLOCK \in Nat /\ BLOCK > 0
  BY JobAssumption, SectorAssumption, SMT
<1>2. q \in Int /\ m \in 0..(BLOCK - 1) /\ i = (BLOCK * q) + m
  BY <1>1, SMT
<1> HIDE DEF q, m
<1>3. q >= 0
  <2> SUFFICES ASSUME q =< -1 PROVE FALSE
    BY <1>2, SMT
  <2>1. BLOCK * q =< -BLOCK
    BY <1>1, <1>2, SMT
  <2> QED BY <1>1, <1>2, <2>1, SMT
<1>4. q < w
  <2> SUFFICES ASSUME q >= w PROVE FALSE
    BY <1>2, SMT
  <2> DEFINE k == q - w
  <2>1. k \in Nat /\ q = w + k
    BY <1>2, SMT
  <2> HIDE DEF k
  <2>2. BLOCK * k \in Nat /\ w * BLOCK \in Nat
    BY <1>1, <2>1, SMT
  <2>3. BLOCK * q = (w * BLOCK) + (BLOCK * k)
    BY <1>1, <2>1, SMT
  <2> QED BY <1>2, <2>2, <2>3, SMT
<1>5. i = (q * BLOCK) + m
  <2>1. BLOCK * q = q * BLOCK
    BY <1>1, <1>2, SMT
  <2> QED BY <1>2, <2>1
<1>6. q \in Nat /\ m \in Nat /\ m < BLOCK
  BY <1>1, <1>2, <1>3, SMT
<1> QED BY <1>4, <1>5, <1>6 DEF q, m

\* A block does not hold more of the image than its place.
LEMMA NotBeyond ==
  ASSUME NEW w \in Nat, NEW v \in Nat, v =< w, NEW r \in Nat
  PROVE  /\ (v * BLOCK) + r \in Nat /\ (v * BLOCK) + r =< (w * BLOCK) + r
         /\ w * BLOCK \in Nat /\ v * BLOCK \in Nat
<1>1. BLOCK \in Nat
  BY JobAssumption, SectorAssumption, SMT
<1> DEFINE k == w - v
<1>2. k \in Nat /\ w = v + k
  BY SMT
<1> HIDE DEF k
<1>3. k * BLOCK \in Nat /\ v * BLOCK \in Nat /\ w * BLOCK = (v * BLOCK) + (k * BLOCK)
  BY <1>1, <1>2, SMT
<1> QED BY <1>3, SMT

\* The cells of w blocks are no more than these have room for.
LEMMA LengthBelow ==
  ASSUME job \in Jobs, NEW w \in Nat
  PROVE  Length(w) \in Nat /\ Length(w) =< w * BLOCK /\ Length(w) =< job.size
<1>1. job.size \in Nat /\ BLOCK \in Nat
  BY JobFacts
<1>2. w * BLOCK \in Nat
  BY <1>1, SMT
<1> DEFINE y == w * BLOCK
<1>3. Length(w) = Lesser(y, job.size)
  BY DEF Length
<1> HIDE DEF y
<1>4. Length(w) \in Nat /\ Length(w) =< y /\ Length(w) =< job.size
  BY <1>1, <1>2, <1>3, SMT DEF Lesser, y
<1> QED BY <1>4 DEF y

\* While the stub rests, the host goes on in a session that stays as it is.
LEMMA RestsSteady ==
  ASSUME RepeatInv, UNCHANGED vars, UNCHANGED <<session, job>>, Open' => Open,
         \A f \in [Nat -> Nat], t \in Nat : Open' /\ Took(f, t) => Took(f, t)'
  PROVE  Steady'
<1>1. Steady
  BY DEF RepeatInv
<1>2. UNCHANGED <<in_progress, begin, offset, total_remaining, pc, cur, torn, flash, faults>>
  BY DEF vars, stateVars, chipVars, histVars
<1>3. SUFFICES ASSUME Open', faults = 0 PROVE Steady'
  BY <1>2 DEF Steady
<1>4. PICK w \in Nat, f \in [Nat -> Nat] : Placed(f, w)
  BY <1>1, <1>3 DEF Steady
<1>5. Placed(f, w)'
  <2>1. Repeats(f)' /\ offset' = job.start' + Length(w)'
    BY <1>2, <1>4 DEF Placed, Repeats, Length
  <2>2. Filled(f, Length(w))'
    BY <1>2, <1>4 DEF Placed, Filled, RepeatOf, Length, Unit
  <2>3. Took(f, IF pc = "post" THEN w + 1 ELSE w)'
    <3>1. w + 1 \in Nat
      BY SMT
    <3>2. CASE pc = "post"
      <4>1. Took(f, w + 1)
        BY <1>4, <3>2 DEF Placed
      <4>2. Took(f, w + 1)'
        BY <1>3, <3>1, <4>1
      <4> QED BY <1>2, <3>2, <4>2
    <3>3. CASE pc # "post"
      <4>1. Took(f, w)'
        BY <1>3, <1>4, <3>3 DEF Placed
      <4> QED BY <1>2, <3>3, <4>1
    <3> QED BY <3>2, <3>3
  <2>4. pc' = "post" => cur' = BlockOf(f[w])'
    BY <1>2, <1>4 DEF Placed, BlockOf, Image0
  <2> QED BY <2>1, <2>2, <2>3, <2>4 DEF Placed
<1>6. /\ in_progress' /\ begin' = job.start' /\ ~torn'
      /\ offset' + total_remaining' = job.start' + job.size'
  BY <1>1, <1>2, <1>3 DEF Steady
<1> QED BY <1>5, <1>6 DEF Steady

\* What the host counts stays, and no response waits that did not.
LEMMA TookStays ==
  ASSUME Acked' = Acked, TookData' => TookData, NEW f, NEW t, Took(f, t)
  PROVE  Took(f, t)'
BY DEF Took

\* The host sends a block, the end or another command.
LEMMA SendSteady ==
  ASSUME RepeatInv, UNCHANGED vars, SendBlock \/ SendEnd \/ SendOther
  PROVE  Steady' /\ Repeated'
<1>1. /\ phase = "data" /\ LineIs(SILENCE) /\ UNCHANGED <<session, job, block>>
  BY DEF SendBlock, SendEnd, SendOther, boundVars
<1>2. line'.kind = "request" /\ phase' \in {"data", "end"}
  BY <1>1 DEF SendBlock, SendEnd, SendOther, Send, Carry
<1>3. ~Succeeded /\ ~Succeeded' /\ ~TookData'
  BY <1>1, <1>2 DEF Succeeded, LineIs, SILENCE, TookData
<1>4. Acked' = Acked
  BY <1>1, <1>3 DEF Acked
<1>5. Steady'
  BY <1>1, <1>3, <1>4, RestsSteady, TookStays DEF Open
<1>6. Repeated'
  BY <1>2, <1>3 DEF Repeated
<1> QED BY <1>5, <1>6

\* The host takes an answer, or gives up waiting or trying.
LEMMA AnswerSteady ==
  ASSUME RepeatInv, UNCHANGED vars,
         \/ GiveUp \/ BeginAnswered \/ DataAnswered \/ EndAnswered \/ OtherAnswered \/ Timeout
  PROVE  Steady' /\ Repeated'
<1>0. HostTyped /\ Turns /\ Repeated /\ block \in Nat
  BY DEF RepeatInv, UploadInv, HostTyped
<1>1. /\ UNCHANGED <<session, job>> /\ line'.kind = SILENCE
      /\ phase \in {"begin", "data", "end"}
  <2>1. UNCHANGED <<session, job>>
    BY DEF GiveUp, BeginAnswered, DataAnswered, EndAnswered, OtherAnswered, Timeout
  <2>2. line'.kind = SILENCE
    BY DEF GiveUp, BeginAnswered, DataAnswered, EndAnswered, OtherAnswered, Timeout, Quiet,
       Carry, LineIs
  <2>3. GiveUp \/ ~LineIs(SILENCE)
    BY DEF BeginAnswered, DataAnswered, EndAnswered, OtherAnswered, Timeout, Answered, LineIs,
       SILENCE
  <2>4. phase \in {"begin", "data", "end"}
    BY <1>0, <2>3 DEF GiveUp, Turns, HostTyped
  <2> QED BY <2>1, <2>2, <2>4
<1>2. ~LineIs("response")' /\ ~LineIs("request")' /\ ~Succeeded' /\ ~TookData'
  BY <1>1 DEF LineIs, SILENCE, Succeeded, TookData
<1>3. Acked' = block'
  <2>1. block' \in Nat
    <3>1. block' \in {block, block + 1}
      BY DEF GiveUp, BeginAnswered, DataAnswered, EndAnswered, OtherAnswered, Timeout
    <3> QED BY <1>0, <3>1, SMT
  <2>2. Acked' = block' + 0
    BY <1>2 DEF Acked
  <2>3. \A x \in Nat : x + 0 = x
    BY SMT
  <2> QED BY <2>1, <2>2, <2>3, Zenon
<1>4. ASSUME Open' PROVE Open /\ Acked' = Acked
  <2>1. phase' = "data"
    BY <1>2, <1>4 DEF Open
  <2>2. CASE BeginAnswered
    <3>1. LineIs("response") /\ line.what.cmd = "FLASH_BEGIN" /\ line.what.result = "SUCCESS"
          /\ block' = block
      BY <2>1, <2>2 DEF BeginAnswered, Answered
    <3>2. phase = "begin"
      BY <1>0, <1>1, <3>1, Zenon DEF Turns, LineIs, SILENCE, Asks
    <3>3. ~(Succeeded /\ line.what.cmd = "FLASH_DATA") /\ Succeeded
      BY <3>1 DEF Succeeded
    <3> QED BY <1>0, <1>3, <3>1, <3>2, <3>3, Counted DEF Open
  <2>3. CASE DataAnswered
    <3>1. LineIs("response") /\ line.what.cmd = "FLASH_DATA" /\ phase = "data"
          /\ block' = IF line.what.result = "SUCCESS" THEN block + 1 ELSE block
      BY <2>1, <2>3 DEF DataAnswered, Answered
    <3>2. block' = Acked
      BY <1>0, <3>1, Counted DEF Succeeded
    <3> QED BY <1>3, <3>1, <3>2 DEF Open
  <2>4. CASE OtherAnswered
    <3>1. LineIs("response") /\ line.what.cmd = "OTHER" /\ phase = "data" /\ block' = block
      BY <2>1, <2>4 DEF OtherAnswered, Answered
    <3>2. line.what.cmd # "FLASH_DATA"
      BY <3>1
    <3> QED BY <1>0, <1>3, <3>1, <3>2, Counted DEF Open
  <2>5. CASE Timeout
    <3>1. LineIs("lost") /\ phase = "data" /\ block' = block
      BY <2>1, <2>5 DEF Timeout
    <3>2. ~Succeeded
      BY <3>1 DEF Succeeded, LineIs
    <3> QED BY <1>0, <1>3, <3>1, <3>2, Counted DEF Open
  <2> QED BY <2>1, <2>2, <2>3, <2>4, <2>5 DEF GiveUp, EndAnswered
<1>5. Steady'
  BY <1>1, <1>2, <1>4, RestsSteady, TookStays
<1>6. Repeated'
  <2>1. SUFFICES ASSUME phase' = "done", faults = 0 PROVE Repeated'
    BY <1>2 DEF Repeated, vars, chipVars
  <2>2. EndAnswered
    <3>1. ~DataAnswered /\ ~OtherAnswered
      <4>1. SUFFICES ASSUME DataAnswered \/ OtherAnswered PROVE FALSE
        OBVIOUS
      <4>2. phase = "done"
        BY <2>1, <4>1 DEF DataAnswered, OtherAnswered
      <4> QED BY <1>1, <4>2
    <3> QED BY <2>1, <3>1 DEF GiveUp, BeginAnswered, Timeout
  <2>3. LineIs("response") /\ line.what.cmd = "FLASH_END" /\ line.what.result = "SUCCESS"
    BY <2>1, <2>2 DEF EndAnswered, Answered
  <2>4. phase = "end" /\ Succeeded
    <3>1. phase = "end"
      BY <1>0, <1>1, <2>3, Zenon DEF Turns, LineIs, SILENCE, Asks
    <3> QED BY <2>3, <3>1 DEF Succeeded
  <2>5. pc = "idle" /\ \E f \in [Nat -> Nat] : Repeats(f) /\ Filled(f, job.size)
    BY <1>0, <2>1, <2>4 DEF Repeated
  <2>6. PICK f \in [Nat -> Nat] : Repeats(f) /\ Filled(f, job.size)
    BY <2>5
  <2>7. Repeats(f)' /\ Filled(f, job.size)'
    BY <1>1, <2>6 DEF Repeats, Filled, RepeatOf, Unit, vars, chipVars
  <2> QED BY <2>5, <2>7 DEF Repeated, vars
<1> QED BY <1>5, <1>6

\* The line loses what is on it, or garbles a block.
LEMMA LineSteady ==
  ASSUME RepeatInv, UNCHANGED vars, Line
  PROVE  Steady' /\ Repeated'
<1>0. HostTyped /\ Turns /\ block \in Nat
  BY DEF RepeatInv, UploadInv, HostTyped
<1>1. UNCHANGED <<session, job, block, phase>> /\ ~LineIs(SILENCE)
  BY DEF Line, LoseRequest, LoseResponse, GarbleBlock, LineIs, SILENCE
<1>2. phase \in {"begin", "data", "end"}
  BY <1>0, <1>1 DEF Turns, HostTyped
<1>3. LineIs("lost")' \/ (LineIs("request") /\ LineIs("request")' /\ phase = "data")
  <2>1. CASE LoseRequest \/ LoseResponse
    BY <2>1 DEF LoseRequest, LoseResponse, LineIs, Carry
  <2>2. CASE GarbleBlock
    <3>1. LineIs("request") /\ LineIs("request")' /\ line.what.cmd = "FLASH_DATA"
      BY <2>2 DEF GarbleBlock, Send, Carry, LineIs
    <3>2. phase = "data"
      BY <1>0, <1>2, <3>1 DEF Turns, LineIs, SILENCE, Asks, Begin, End
    <3> QED BY <3>1, <3>2
  <2> QED BY <2>1, <2>2 DEF Line
<1>4. ~Succeeded' /\ ~TookData'
  BY <1>3 DEF Succeeded, TookData, LineIs
<1>5. Open' => phase = "data" /\ Open
  BY <1>1, <1>3, <1>4 DEF Open, LineIs
<1>6. Acked' = block
  <2>1. Acked' = block + 0
    BY <1>1, <1>4 DEF Acked
  <2> QED BY <1>0, <2>1, SMT
<1>7. ASSUME NEW f \in [Nat -> Nat], NEW t \in Nat, Took(f, t) PROVE Took(f, t)'
  <2>1. CASE TookData
    <3>1. Acked = block + 1
      BY <1>0, <2>1, Counted DEF TookData
    <3>2. PICK k \in Nat : t = k + 1 /\ Acked = f[k] + 1
      BY <1>7, <2>1 DEF Took
    <3>3. f[k] \in Nat
      OBVIOUS
    <3>4. Acked' = f[k]
      BY <1>0, <1>6, <3>1, <3>2, <3>3, SMT
    <3> QED BY <1>4, <3>2, <3>4 DEF Took
  <2>2. CASE ~TookData
    <3>1. Acked' = Acked
      BY <1>0, <1>6, <2>2, Counted DEF TookData
    <3> QED BY <1>4, <1>7, <3>1, TookStays
  <2> QED BY <2>1, <2>2
<1>8. Steady'
  BY <1>1, <1>5, <1>7, RestsSteady
<1>9. Repeated'
  BY <1>1, <1>2, <1>4 DEF Repeated
<1> QED BY <1>8, <1>9

\* The host begins with another image.
LEMMA StartSteady ==
  ASSUME RepeatInv, StartSession
  PROVE  Steady' /\ Repeated'
<1>1. phase' = "begin" /\ line'.kind = "request"
  BY DEF StartSession, Send, Carry
<1>2. ~Succeeded'
  BY <1>1 DEF Succeeded, LineIs
<1> QED BY <1>1, <1>2 DEF Steady, Open, Repeated

\* A request between FLASH_BEGIN and FLASH_END: a block is taken, or nothing happens.
LEMMA Handled ==
  ASSUME UploadInv, LineIs("request"), HandleCommand(line.what), phase = "data",
         line' = Carry("response", [cmd |-> line.what.cmd, result |-> reply']),
         UNCHANGED <<phase, session, job, block, tries, boundVars>>
  PROVE  /\ Keep
         /\ \/ pc' = "idle" /\ ~(Succeeded' /\ line'.what.cmd = "FLASH_DATA")
            \/ /\ pc' = "post" /\ cur' = BlockOf(block)
               /\ Succeeded' /\ line'.what.cmd = "FLASH_DATA"
<1> DEFINE r == line.what
<1>1. /\ LineIs("response")' /\ line'.what.cmd = r.cmd
      /\ Succeeded' <=> reply' = "SUCCESS"
  BY DEF LineIs, Carry, Succeeded
<1>2. \/ \E f \in {"none", "checksum"} : r = DataOf(f, BlockOf(block))
      \/ r = OtherCommand("none")
  BY DEF UploadInv, Turns, Asks, LineIs, SILENCE
<1>3. CASE r = OtherCommand("none")
  <2>1. r.cmd = "OTHER" /\ r.flaw = "none"
    BY <1>3 DEF OtherCommand
  <2>2. ReportError(r) \/ OtherHandler(r)
    BY <2>1 DEF HandleCommand, RefuseFrame, FlashBegin, FlashData, FlashEnd, Executes
  <2>3. pc' = "idle" /\ Keep
    BY <2>2 DEF ReportError, OtherHandler, Respond
  <2> QED BY <1>1, <2>1, <2>3
<1>4. CASE \E f \in {"none", "checksum"} : r = DataOf(f, BlockOf(block))
  <2>1. r.cmd = "FLASH_DATA" /\ r.flaw \in {"none", "checksum"} /\ r.data = BlockOf(block)
    BY <1>4 DEF DataOf
  <2>2. ReportError(r) \/ FlashData(r)
    BY <2>1 DEF HandleCommand, RefuseFrame, FlashBegin, FlashEnd, OtherHandler, Executes
  <2>3. CASE FlashData(r) /\ DataResult(r) = "SUCCESS"
    <3>1. reply' = "SUCCESS" /\ pc' = "post" /\ cur' = r.data /\ Keep
      BY <2>3 DEF FlashData
    <3> QED BY <1>1, <2>1, <3>1
  <2>4. CASE ReportError(r) \/ (FlashData(r) /\ DataResult(r) # "SUCCESS")
    <3>1. pc' = "idle" /\ reply' # "SUCCESS" /\ Keep
      BY <2>4 DEF ReportError, FlashData, Respond
    <3> QED BY <1>1, <3>1
  <2> QED BY <2>2, <2>3, <2>4
<1> QED BY <1>2, <1>3, <1>4

\* FLASH_BEGIN succeeded: the session the host asked for is open.
LEMMA Begun ==
  ASSUME UploadInv, LineIs("request"), HandleCommand(line.what), phase = "begin",
         line' = Carry("response", [cmd |-> line.what.cmd, result |-> reply']), Succeeded'
  PROVE  /\ line.what.cmd = "FLASH_BEGIN" /\ block = 0
         /\ total_remaining' = job.size /\ offset' = job.start /\ in_progress' = TRUE
         /\ begin' = job.start /\ torn' = FALSE /\ pc' = "idle"
<1> DEFINE r == line.what
<1>1. reply' = "SUCCESS"
  BY DEF Succeeded, Carry
<1>2. r = Begin("none", job.start, job.size) /\ block = 0
  BY DEF UploadInv, Turns, Asks, LineIs
<1>3. r.cmd = "FLASH_BEGIN" /\ r.flaw = "none" /\ r.start = job.start /\ r.size = job.size
  BY <1>2 DEF Begin
<1>4. FlashBegin(r)
  BY <1>1, <1>3 DEF HandleCommand, RefuseFrame, ReportError, FlashData, FlashEnd, OtherHandler,
     Executes, Respond
<1> QED BY <1>2, <1>3, <1>4 DEF FlashBegin, Respond

\* FLASH_END succeeded: the stub was sent everything.
LEMMA Closed ==
  ASSUME UploadInv, LineIs("request"), HandleCommand(line.what), phase = "end",
         line' = Carry("response", [cmd |-> line.what.cmd, result |-> reply']), Succeeded'
  PROVE  (in_progress => total_remaining = 0) /\ UNCHANGED chipVars /\ pc' = "idle"
<1> DEFINE r == line.what
<1>1. reply' = "SUCCESS"
  BY DEF Succeeded, Carry
<1>2. r = End("none")
  BY DEF UploadInv, Turns, Asks, LineIs
<1>3. r.cmd = "FLASH_END" /\ r.flaw = "none"
  BY <1>2 DEF End
<1>4. FlashEnd(r)
  BY <1>1, <1>3 DEF HandleCommand, RefuseFrame, ReportError, FlashData, FlashBegin, OtherHandler,
     Executes, Respond
<1>5. pc' = "idle" /\ EndResult(r) = "SUCCESS"
  BY <1>1, <1>4 DEF FlashEnd, Respond
<1>6. (in_progress => total_remaining = 0) /\ UNCHANGED chipVars
  BY <1>4, <1>5 DEF FlashEnd, EndResult
<1> QED BY <1>5, <1>6

\* A block that is taken is the next one or the last one again.
LEMMA TakeSteady ==
  ASSUME job \in Jobs, block \in Nat, NEW w \in Nat, NEW f \in [Nat -> Nat], Placed(f, w),
         pc = "idle", Acked = block, ~TookData, pc' = "post", cur' = BlockOf(block),
         Acked' = block + 1, TookData', UNCHANGED <<job, session, block, offset, flash>>
  PROVE  \E g \in [Nat -> Nat] : Placed(g, w)'
<1>0. PICK b \in Nat : b = block
  OBVIOUS
<1> DEFINE g == [k \in Nat |-> IF k < w THEN f[k] ELSE b]
<1>1. Repeats(f) /\ Took(f, w)
  BY DEF Placed
<1>2. /\ w = 0 => block = 0
      /\ \A k \in Nat : w = k + 1 => block \in {f[k], f[k] + 1}
  <2>1. CASE w = 0 /\ Acked = 0
    BY <2>1, SMT
  <2>2. ASSUME NEW k \in Nat, w = k + 1, Acked = f[k] + 1 \/ Acked = f[k]
        PROVE  <1>2
    <3>1. w # 0 /\ \A l \in Nat : w = l + 1 => l = k
      BY <2>2, SMT
    <3> QED BY <2>2, <3>1
  <2> QED BY <1>1, <2>1, <2>2 DEF Took
<1>3. block =< w
  <2>1. CASE w = 0
    BY <1>2, <2>1, SMT
  <2>2. CASE w # 0
    <3>1. w - 1 \in Nat /\ w = (w - 1) + 1
      BY <2>2, SMT
    <3>2. block \in {f[w - 1], f[w - 1] + 1} /\ f[w - 1] =< w - 1 /\ f[w - 1] \in Nat
      BY <1>1, <1>2, <3>1 DEF Repeats
    <3> QED BY <3>1, <3>2, SMT
  <2> QED BY <2>1, <2>2
<1>4. g \in [Nat -> Nat]
  OBVIOUS
<1>5. \A k \in Nat : (k < w => g[k] = f[k]) /\ (~(k < w) => g[k] = b)
  OBVIOUS
<1> HIDE DEF g
<1>6. Repeats(g)
  <2>1. g[0] = 0
    <3>1. CASE w = 0
      <4>1. ~(0 < w) /\ 0 \in Nat
        BY <3>1, SMT
      <4> QED BY <1>0, <1>2, <1>5, <3>1, <4>1
    <3>2. CASE w # 0
      <4>1. 0 < w /\ 0 \in Nat
        BY <3>2, SMT
      <4> QED BY <1>1, <1>5, <4>1 DEF Repeats
    <3> QED BY <3>1, <3>2
  <2>2. ASSUME NEW k \in Nat PROVE g[k] =< k /\ g[k + 1] \in {g[k], g[k] + 1}
    <3>1. k + 1 \in Nat
      BY SMT
    <3>2. CASE k + 1 < w
      <4>1. k < w
        BY <3>2, SMT
      <4> QED BY <1>1, <1>5, <3>1, <3>2, <4>1 DEF Repeats
    <3>3. CASE k + 1 = w
      <4>1. k < w /\ ~(k + 1 < w)
        BY <3>3, SMT
      <4> QED BY <1>0, <1>1, <1>2, <1>5, <3>1, <3>3, <4>1 DEF Repeats
    <3>4. CASE ~(k + 1 < w) /\ k + 1 # w
      <4>1. ~(k < w) /\ ~(k + 1 < w) /\ w =< k
        BY <3>4, SMT
      <4>2. g[k] = b /\ g[k + 1] = b
        BY <1>5, <3>1, <4>1
      <4>3. b =< k
        BY <1>0, <1>3, <4>1, SMT
      <4> QED BY <4>2, <4>3
    <3> QED BY <3>2, <3>3, <3>4
  <2> QED BY <1>4, <2>1, <2>2 DEF Repeats
<1>7. Filled(g, Length(w))
  <2> SUFFICES ASSUME NEW c \in Cells, job.start =< c, c < job.start + Length(w)
               PROVE  flash[c] = RepeatOf(g, c - job.start)
    BY DEF Filled
  <2> DEFINE i == c - job.start
  <2>1. flash[c] = RepeatOf(f, i)
    BY DEF Placed, Filled
  <2>2. i \in Nat /\ i < w * BLOCK
    <3>1. /\ job.start \in Nat /\ Length(w) \in Nat /\ Length(w) =< w * BLOCK
          /\ BLOCK \in Nat /\ CELLS \in Nat
      BY JobFacts, LengthBelow
    <3> DEFINE l == Length(w)
               y == w * BLOCK
    <3>2. y \in Nat /\ l \in Nat /\ l =< y /\ c < job.start + l
      BY <3>1, SMT
    <3> HIDE DEF l, y
    <3>3. i \in Nat /\ i < y
      BY <3>1, <3>2, SMT DEF Cells
    <3> QED BY <3>3 DEF y
  <2> HIDE DEF i
  <2>3. i \div BLOCK \in Nat /\ i \div BLOCK < w
    BY <2>2, PlaceBefore
  <2>4. g[i \div BLOCK] = f[i \div BLOCK]
    BY <1>5, <2>3
  <2> QED BY <2>1, <2>4 DEF RepeatOf, i
<1>8. g[w] = b
  <2>1. ~(w < w)
    BY SMT
  <2> QED BY <1>5, <2>1
<1>9. Placed(g, w)'
  <2>1. Repeats(g)'
    BY <1>6 DEF Repeats
  <2>2. Filled(g, Length(w))'
    BY <1>7 DEF Filled, RepeatOf, Unit, Length
  <2>3. offset' = job.start' + Length(w)'
    BY DEF Placed, Length
  <2>4. Took(g, w + 1)'
    <3>1. Acked' = g[w] + 1
      BY <1>0, <1>8
    <3> QED BY <3>1 DEF Took
  <2>5. cur' = BlockOf(g[w])'
    BY <1>0, <1>8 DEF BlockOf, Image0, Unit
  <2> QED BY <2>1, <2>2, <2>3, <2>4, <2>5 DEF Placed
<1> QED BY <1>4, <1>9

\* The arithmetic of one more block.
LEMMA Advances ==
  ASSUME NEW a \in Nat, NEW s \in Nat, NEW l \in Nat, NEW n \in Nat
  PROVE  /\ (a + l) + n = a + (l + n) /\ a + (l + n) \in Nat
         /\ (a + (l + n)) + ((s - l) - n) = a + s
BY SMT

\* Where a cell of this block is in the session.
LEMMA InsideBlock ==
  ASSUME NEW a \in Nat, NEW s \in Nat, NEW l \in Nat, NEW n \in Nat, NEW b \in Nat, NEW c \in Nat,
         n =< s - l, n =< b, a + l =< c, c < (a + l) + n
  PROVE  /\ l < s /\ c - (a + l) \in 0..(b - 1)
         /\ c - a = l + (c - (a + l)) /\ c - a < s
BY SMT

\* A block that is written lands behind those before it, on blank cells.
LEMMA BlockLands ==
  ASSUME IInv, job \in Jobs, WriteBlock, NEW w \in Nat, in_progress, begin = job.start,
         offset = job.start + Length(w), offset + total_remaining = job.start + job.size,
         Len(cur) = BLOCK
  PROVE  /\ offset' = job.start + Length(w + 1) /\ offset' \in Nat
         /\ offset' + total_remaining' = job.start + job.size
         /\ \A c \in Cells : c < offset => flash'[c] = flash[c]
         /\ ~torn =>
              \A c \in Cells : offset =< c /\ c < offset' =>
                /\ c - offset \in 0..(BLOCK - 1)
                /\ c - job.start = (w * BLOCK) + (c - offset) /\ c - job.start < job.size
                /\ flash'[c] = cur[(c - offset) + 1]
<1> DEFINE n == WriteSize
           l == Length(w)
           m == Length(w + 1)
           y == w * BLOCK
<1>1. /\ next_erase_addr >= offset + n /\ total_remaining' = total_remaining - n
      /\ offset' = offset + n /\ flash' = WithData(flash, offset, cur, n)
  BY WriteSizeFacts DEF WriteBlock, IInv
<1>2. n \in Nat /\ n =< total_remaining /\ n =< BLOCK /\ n = Lesser(BLOCK, total_remaining)
  BY WriteSizeFacts DEF IInv, WriteSize
<1>3. /\ job.start \in Nat /\ job.size \in Nat /\ BLOCK \in Nat /\ BLOCK > 0 /\ CELLS \in Nat
      /\ offset \in Nat /\ total_remaining \in Nat /\ next_erase_addr \in Nat
  BY JobFacts DEF IInv, TypeOK
<1>4. /\ l \in Nat /\ l =< job.size /\ (l < job.size => l = y)
      /\ m = l + Lesser(BLOCK, job.size - l)
  BY LengthFacts
<1>5. y \in Nat
  BY <1>3, SMT
<1>6. offset = job.start + l
  OBVIOUS
<1> HIDE DEF n, l, m, y
<1>7. total_remaining = job.size - l
  BY <1>3, <1>4, <1>6, SMT
<1>8. m = l + n
  BY <1>2, <1>4, <1>7
<1>9. offset' = job.start + m /\ offset' + total_remaining' = job.start + job.size /\ offset' \in Nat
  <2>1. offset' = (job.start + l) + n /\ total_remaining' = (job.size - l) - n
    BY <1>1, <1>6, <1>7
  <2>2. job.start \in Nat /\ job.size \in Nat /\ l \in Nat /\ n \in Nat
    BY <1>2, <1>3, <1>4
  <2>3. /\ (job.start + l) + n = job.start + (l + n) /\ job.start + (l + n) \in Nat
        /\ (job.start + (l + n)) + ((job.size - l) - n) = job.start + job.size
    BY <2>2, Advances
  <2> QED BY <1>8, <2>1, <2>3, Zenon
<1>10. ASSUME NEW c \in Cells, c < offset PROVE flash'[c] = flash[c]
  <2>1. ~(offset =< c)
    BY <1>3, <1>10, SMT DEF Cells
  <2> QED BY <1>1, <2>1 DEF WithData
<1>11. ASSUME ~torn, NEW c \in Cells, offset =< c, c < offset'
       PROVE  /\ c - offset \in 0..(BLOCK - 1)
              /\ c - job.start = y + (c - offset) /\ c - job.start < job.size
              /\ flash'[c] = cur[(c - offset) + 1]
  <2>1. c \in Nat /\ c < offset + n
    BY <1>1, <1>3, <1>11, SMT DEF Cells
  <2>2. /\ l < job.size /\ c - offset \in 0..(BLOCK - 1)
        /\ c - job.start = l + (c - offset) /\ c - job.start < job.size
    <3>1. n =< job.size - l /\ job.start + l =< c /\ c < (job.start + l) + n
      BY <1>2, <1>6, <1>7, <1>11, <2>1, Zenon
    <3>2. /\ l < job.size /\ c - (job.start + l) \in 0..(BLOCK - 1)
          /\ c - job.start = l + (c - (job.start + l)) /\ c - job.start < job.size
      <4>1. /\ job.start \in Nat /\ job.size \in Nat /\ l \in Nat /\ n \in Nat /\ BLOCK \in Nat
            /\ c \in Nat /\ n =< BLOCK
        BY <1>2, <1>3, <1>4, <2>1
      <4>2. PICK a \in Nat, s \in Nat, p \in Nat, k \in Nat, b \in Nat :
              a = job.start /\ s = job.size /\ p = l /\ k = n /\ b = BLOCK
        BY <4>1
      <4>3. k =< s - p /\ k =< b /\ a + p =< c /\ c < (a + p) + k /\ c \in Nat
        BY <3>1, <4>1, <4>2, Zenon
      <4>4. p < s /\ c - (a + p) \in 0..(b - 1) /\ c - a = p + (c - (a + p)) /\ c - a < s
        BY <4>3, InsideBlock
      <4> QED BY <4>2, <4>4, Zenon
    <3> QED BY <1>6, <3>2, Zenon
  <2>3. c - job.start = y + (c - offset)
    BY <1>4, <2>2
  <2>4. flash[c] = BLANK
    <3>1. c < next_erase_addr
      BY <1>1, <1>2, <1>3, <2>1, SMT
    <3> QED BY <1>11, <3>1 DEF IInv, BlankAhead
  <2>5. flash'[c] = Programmed(BLANK, cur[c - offset + 1])
    BY <1>1, <1>11, <2>1, <2>4 DEF WithData
  <2>6. flash'[c] = cur[c - offset + 1]
    BY <2>5 DEF Programmed
  <2> QED BY <2>1, <2>2, <2>3, <2>6, Zenon
<1> QED BY <1>9, <1>10, <1>11 DEF l, m, y

\* A request is handled: a session opens, a block is taken, the session closes.
LEMMA HandleSteady ==
  ASSUME RepeatInv, LineIs("request"), HandleCommand(line.what),
         line' = Carry("response", [cmd |-> line.what.cmd, result |-> reply']),
         UNCHANGED <<phase, session, job, block, tries, boundVars>>
  PROVE  Steady' /\ Repeated'
<1>0. UploadInv /\ HostTyped /\ Turns /\ Steady /\ job \in Jobs /\ block \in Nat
  BY DEF RepeatInv, UploadInv, HostTyped
<1>1. /\ phase \in {"begin", "data", "end"} /\ pc = "idle" /\ ~Succeeded /\ ~TookData
      /\ LineIs("response")' /\ ~LineIs("request")'
  BY <1>0 DEF Turns, HostTyped, LineIs, SILENCE, Succeeded, TookData, Carry, HandleCommand
<1>2. Acked = block
  BY <1>0, <1>1, Counted
<1>3. Acked' = IF TookData' THEN block + 1 ELSE block
  <2>1. Acked' = block + (IF TookData' THEN 1 ELSE 0)
    BY DEF Acked, TookData
  <2>2. \A x \in Nat : x + 0 = x
    BY SMT
  <2>3. CASE TookData'
    BY <2>1, <2>3
  <2>4. CASE ~TookData'
    <3>1. Acked' = block + 0
      BY <2>1, <2>4
    <3> QED BY <1>0, <2>2, <2>4, <3>1, Zenon
  <2> QED BY <2>3, <2>4
<1>4. CASE phase = "begin"
  <2>1. Repeated'
    BY <1>4 DEF Repeated
  <2>2. SUFFICES ASSUME Succeeded' PROVE Steady'
    BY <1>1, <1>4, <2>1 DEF Steady, Open
  <2>3. /\ line.what.cmd = "FLASH_BEGIN" /\ block = 0
        /\ total_remaining' = job.size /\ offset' = job.start /\ in_progress' = TRUE
        /\ begin' = job.start /\ torn' = FALSE /\ pc' = "idle"
    BY <1>0, <1>4, <2>2, Begun
  <2> DEFINE f == [k \in Nat |-> 0]
  <2>4. f \in [Nat -> Nat] /\ \A k \in Nat : f[k] = 0
    OBVIOUS
  <2> HIDE DEF f
  <2>5. Repeats(f)'
    <3>1. ASSUME NEW k \in Nat PROVE f[k] =< k /\ f[k + 1] \in {f[k], f[k] + 1}
      <4>1. k + 1 \in Nat /\ 0 =< k
        BY SMT
      <4> QED BY <2>4, <4>1
    <3>2. f[0] = 0
      BY <2>4
    <3> QED BY <2>4, <3>1, <3>2 DEF Repeats
  <2>6. job.start \in Nat /\ CELLS \in Nat /\ Length(0) = 0
    <3>1. 0 \in Nat
      OBVIOUS
    <3> QED BY <1>0, <3>1, JobFacts, LengthFacts
  <2>7. offset' = job.start' + Length(0)' /\ Length(0)' = 0
    <3>1. \A x \in Nat : x + 0 = x
      BY SMT
    <3>2. Length(0)' = 0
      BY <2>6 DEF Length
    <3> QED BY <2>3, <2>6, <3>1, <3>2, Zenon
  <2>8. Filled(f, Length(0))'
    <3>1. \A c \in Cells : ~(job.start =< c /\ c < job.start + 0)
      BY <2>6, SMT DEF Cells
    <3> QED BY <2>7, <3>1 DEF Filled
  <2>9. Took(f, 0)'
    <3>1. ~TookData'
      BY <2>3 DEF TookData, Carry
    <3> QED BY <1>3, <2>3, <3>1 DEF Took
  <2>10. Placed(f, 0)'
    BY <2>3, <2>5, <2>7, <2>8, <2>9 DEF Placed
  <2>11. \E w \in Nat, g \in [Nat -> Nat] : Placed(g, w)'
    <3>1. 0 \in Nat
      OBVIOUS
    <3> QED BY <2>4, <2>10, <3>1
  <2> QED BY <2>3, <2>11 DEF Steady
<1>5. CASE phase = "data"
  <2>1. Repeated'
    BY <1>5 DEF Repeated
  <2>2. /\ Keep
        /\ \/ pc' = "idle" /\ ~TookData'
           \/ pc' = "post" /\ cur' = BlockOf(block) /\ TookData'
    BY <1>0, <1>5, Handled DEF TookData
  <2>3. UNCHANGED <<in_progress, begin, offset, total_remaining, torn, flash, faults>>
    BY <2>2 DEF Keep, stateVars, chipVars, histVars
  <2>4. SUFFICES ASSUME faults = 0 PROVE Steady'
    BY <2>1, <2>3 DEF Steady
  <2>5. /\ in_progress /\ begin = job.start /\ offset + total_remaining = job.start + job.size
        /\ ~torn
        /\ \E w \in Nat, f \in [Nat -> Nat] : Placed(f, w)
    BY <1>0, <1>5, <2>4 DEF Steady, Open
  <2>6. PICK w \in Nat, f \in [Nat -> Nat] : Placed(f, w)
    BY <2>5
  <2>7. CASE pc' = "idle" /\ ~TookData'
    <3>1. Took(f, w)
      BY <1>1, <2>6 DEF Placed
    <3>2. Took(f, w)'
      BY <1>2, <1>3, <2>7, <3>1, TookStays
    <3>3. Placed(f, w)'
      BY <2>3, <2>6, <2>7, <3>2 DEF Placed, Repeats, Filled, RepeatOf, Unit, Length
    <3> QED BY <2>3, <2>5, <3>3 DEF Steady
  <2>8. CASE pc' = "post" /\ cur' = BlockOf(block) /\ TookData'
    <3>1. Acked' = block + 1
      BY <1>3, <2>8
    <3>2. \E g \in [Nat -> Nat] : Placed(g, w)'
      BY <1>0, <1>1, <1>2, <2>3, <2>6, <2>8, <3>1, TakeSteady
    <3> QED BY <2>3, <2>5, <3>2 DEF Steady
  <2> QED BY <2>2, <2>7, <2>8
<1>6. CASE phase = "end"
  <2>1. Steady'
    BY <1>1, <1>6 DEF Steady, Open
  <2>2. SUFFICES ASSUME Succeeded', faults' = 0
                 PROVE  pc' = "idle" /\ \E f \in [Nat -> Nat] : (Repeats(f) /\ Filled(f, job.size))'
    BY <1>6, <2>1 DEF Repeated
  <2>3. (in_progress => total_remaining = 0) /\ UNCHANGED <<flash, faults>> /\ pc' = "idle"
    BY <1>0, <1>6, <2>2, Closed DEF chipVars
  <2>4. /\ in_progress /\ offset + total_remaining = job.start + job.size
        /\ \E w \in Nat, f \in [Nat -> Nat] : Placed(f, w)
    BY <1>0, <1>6, <2>2, <2>3 DEF Steady, Open
  <2>5. PICK w \in Nat, f \in [Nat -> Nat] : Placed(f, w)
    BY <2>4
  <2>6. Length(w) = job.size
    <3>1. Length(w) \in Nat /\ job.start \in Nat /\ job.size \in Nat
      BY <1>0, LengthFacts, JobFacts
    <3>2. offset = job.start + Length(w) /\ offset + 0 = job.start + job.size
      BY <2>3, <2>4, <2>5 DEF Placed
    <3>3. \A a \in Nat, b \in Nat, c \in Nat : (a + b) + 0 = a + c => b = c
      BY SMT
    <3> QED BY <3>1, <3>2, <3>3, Zenon
  <2>7. Repeats(f) /\ Filled(f, job.size)
    BY <2>5, <2>6 DEF Placed
  <2>8. (Repeats(f) /\ Filled(f, job.size))'
    BY <2>3, <2>7 DEF Repeats, Filled, RepeatOf, Unit
  <2> QED BY <2>3, <2>8
<1> QED BY <1>1, <1>4, <1>5, <1>6

\* A failure of the chip leaves nothing to keep.
LEMMA FaultEnds ==
  ASSUME TypeOK, Fault
  PROVE  faults' # 0
BY FaultAssumption, SMT DEF TypeOK, Fault

\* The erase ahead of a write leaves what the session has written.
LEMMA EraseSteady ==
  ASSUME RepeatInv, EnsureErased, UNCHANGED hostVars
  PROVE  Steady'
<1>0. IInv /\ TypeOK /\ Steady
  BY DEF RepeatInv, UploadInv, IInv
<1>1. UNCHANGED <<stateVars, histVars>> /\ pc = "post"
  BY DEF EnsureErased
<1>2. UNCHANGED <<phase, session, job, block, line>>
  BY DEF hostVars
<1>3. Open' = Open /\ Acked' = Acked /\ TookData' = TookData
  BY <1>2 DEF Open, Acked, Succeeded, TookData, LineIs
<1>4. PICK result \in Result :
        /\ ConditionalEraseNext(next_erase_addr, erase_remaining, s_dirty_seen, result)
        /\ IF result = "SUCCESS" THEN UNCHANGED <<accumulated_result, pc, cur>> ELSE Finish(result)
  BY DEF EnsureErased
<1>5. SUFFICES ASSUME Open, faults' = 0 PROVE Steady'
  BY <1>3 DEF Steady
<1>6. ~Fault
  BY <1>0, <1>5, FaultEnds
<1>7. result = "SUCCESS" /\ faults' = faults
  BY <1>4, <1>6 DEF ConditionalEraseNext, SkipBlankSector, StartNextErase, chipVars
<1>8. /\ in_progress /\ begin = job.start /\ offset + total_remaining = job.start + job.size
      /\ ~torn
      /\ \E w \in Nat, f \in [Nat -> Nat] : Placed(f, w)
  BY <1>0, <1>5, <1>7 DEF Steady
<1>9. PICK w \in Nat, f \in [Nat -> Nat] : Placed(f, w)
  BY <1>8
<1>10. UNCHANGED <<pc, cur, in_progress, begin, offset, total_remaining, torn>>
  BY <1>1, <1>4, <1>7 DEF stateVars, histVars
<1>11. ASSUME NEW c \in Cells, job.start =< c, c < job.start + Length(w)
       PROVE  flash'[c] = flash[c]
  <2>1. flash'[c] # flash[c] => next_erase_addr =< c
    BY <1>0, EnsureErasedConfined
  <2>2. offset = begin \/ offset =< next_erase_addr
    BY <1>0, <1>8 DEF IInv, WritePosition
  <2>3. offset \in Nat /\ begin \in Nat /\ next_erase_addr \in Nat /\ c \in Int
    BY <1>0 DEF TypeOK, Cells
  <2>4. c < offset /\ begin =< c
    BY <1>8, <1>9, <1>11 DEF Placed
  <2> QED BY <2>1, <2>2, <2>3, <2>4, SMT
<1>12. Filled(f, Length(w))'
  <2>1. Filled(f, Length(w))
    BY <1>9 DEF Placed
  <2> QED BY <1>2, <1>11, <2>1 DEF Filled, RepeatOf, Unit, Length
<1>13. Took(f, w + 1)'
  <2>1. Took(f, w + 1)
    BY <1>1, <1>9 DEF Placed
  <2> QED BY <1>3, <2>1, TookStays
<1>14. Placed(f, w)'
  <2>1. Repeats(f)' /\ offset' = job.start' + Length(w)'
    BY <1>2, <1>9, <1>10 DEF Placed, Repeats, Length
  <2>2. pc' = "post" /\ cur' = BlockOf(f[w])'
    BY <1>1, <1>2, <1>9, <1>10 DEF Placed, BlockOf, Image0, Unit
  <2> QED BY <1>12, <1>13, <2>1, <2>2 DEF Placed
<1> QED BY <1>2, <1>8, <1>10, <1>14 DEF Steady

\* A block is written behind those before it: what it holds is what its place has.
LEMMA WriteSteady ==
  ASSUME RepeatInv, WriteBlock, UNCHANGED hostVars
  PROVE  Steady'
<1>0. IInv /\ TypeOK /\ Steady /\ HostTyped
  BY DEF RepeatInv, UploadInv, IInv
<1>1. /\ pc = "post" /\ pc' = "idle" /\ UNCHANGED <<in_progress, begin, torn, faults>>
  BY DEF WriteBlock, Finish, histVars
<1>2. UNCHANGED <<phase, session, job, block, line>>
  BY DEF hostVars
<1>3. Open' = Open /\ Acked' = Acked /\ TookData' = TookData
  BY <1>2 DEF Open, Acked, Succeeded, TookData, LineIs
<1>4. SUFFICES ASSUME Open, faults = 0 PROVE Steady'
  BY <1>1, <1>3 DEF Steady
<1>5. /\ in_progress /\ begin = job.start /\ offset + total_remaining = job.start + job.size
      /\ ~torn
      /\ \E w \in Nat, f \in [Nat -> Nat] : Placed(f, w)
  BY <1>0, <1>4 DEF Steady
<1>6. PICK w \in Nat, f \in [Nat -> Nat] : Placed(f, w)
  BY <1>5
<1>7. /\ Repeats(f) /\ offset = job.start + Length(w) /\ Filled(f, Length(w))
      /\ Took(f, w + 1) /\ cur = BlockOf(f[w]) /\ f[w] \in Nat /\ f[w] =< w
  BY <1>1, <1>6 DEF Placed, Repeats
<1>8. phase # "idle" /\ job \in Jobs
  BY <1>0, <1>4 DEF HostTyped, Open
<1>9. Len(cur) = BLOCK
  BY <1>0, <1>7, <1>8, BlockIsData
<1>10. /\ offset' = job.start + Length(w + 1) /\ offset' \in Nat
       /\ offset' + total_remaining' = job.start + job.size
       /\ \A c \in Cells : c < offset => flash'[c] = flash[c]
       /\ \A c \in Cells : offset =< c /\ c < offset' =>
            /\ c - offset \in 0..(BLOCK - 1)
            /\ c - job.start = (w * BLOCK) + (c - offset) /\ c - job.start < job.size
            /\ flash'[c] = cur[(c - offset) + 1]
  BY <1>0, <1>5, <1>7, <1>8, <1>9, BlockLands
<1>11. ASSUME NEW c \in Cells, job.start =< c, c < offset'
       PROVE  flash'[c] = RepeatOf(f, c - job.start)
  <2>1. c \in Int /\ offset \in Nat /\ BLOCK \in Nat
    BY <1>0, <1>8, JobFacts DEF TypeOK, Cells
  <2>2. CASE c < offset
    BY <1>7, <1>10, <1>11, <2>2 DEF Filled
  <2>3. CASE offset =< c
    <3> DEFINE d == c - offset
               v == f[w]
    <3>1. /\ d \in 0..(BLOCK - 1) /\ c - job.start = (w * BLOCK) + d /\ c - job.start < job.size
          /\ flash'[c] = cur[d + 1]
      BY <1>10, <1>11, <2>3
    <3>2. d \in Nat /\ d < BLOCK /\ d + 1 \in 1..BLOCK /\ v \in Nat /\ v =< w
      BY <1>7, <2>1, <3>1, SMT
    <3> HIDE DEF d
    <3>3. (c - job.start) \div BLOCK = w /\ (c - job.start) % BLOCK = d
      BY <3>1, <3>2, PlaceOf
    <3>4. RepeatOf(f, c - job.start) = Unit(session, (v * BLOCK) + d)
      BY <3>3 DEF RepeatOf
    <3> HIDE DEF v
    <3>5. /\ (v * BLOCK) + d \in Nat /\ (v * BLOCK) + d =< (w * BLOCK) + d
          /\ v * BLOCK \in Nat /\ w * BLOCK \in Nat
      BY <3>2, NotBeyond
    <3>6. cur[d + 1] = Image0((v * BLOCK) + (d + 1) - 1)
      BY <1>7, <3>2 DEF BlockOf, v
    <3>7. (v * BLOCK) + (d + 1) - 1 = (v * BLOCK) + d
      <4>1. \A x \in Nat, y \in Nat : x + (y + 1) - 1 = x + y
        BY SMT
      <4> QED BY <3>2, <3>5, <4>1, Zenon
    <3>8. (v * BLOCK) + d < job.size
      <4>1. (w * BLOCK) + d < job.size /\ job.size \in Nat
        BY <1>8, <3>1, JobFacts
      <4>2. \A x \in Nat, y \in Int, z \in Nat : x =< y /\ y < z => x < z
        BY SMT
      <4>3. (w * BLOCK) + d \in Int
        BY <3>2, <3>5, SMT
      <4> QED BY <3>5, <4>1, <4>2, <4>3, Zenon
    <3>9. cur[d + 1] = Unit(session, (v * BLOCK) + d)
      BY <3>6, <3>7, <3>8 DEF Image0
    <3> QED BY <3>1, <3>4, <3>9, Zenon
  <2> QED BY <2>1, <2>2, <2>3, SMT
<1>12. Placed(f, w + 1)'
  <2>1. Repeats(f)' /\ offset' = job.start' + Length(w + 1)'
    BY <1>2, <1>7, <1>10 DEF Repeats, Length
  <2>2. Filled(f, Length(w + 1))'
    BY <1>2, <1>10, <1>11 DEF Filled, RepeatOf, Unit, Length
  <2>3. Took(f, w + 1)'
    BY <1>3, <1>7, TookStays
  <2> QED BY <1>1, <2>1, <2>2, <2>3 DEF Placed
<1>13. w + 1 \in Nat
  BY SMT
<1> QED BY <1>1, <1>2, <1>5, <1>10, <1>12, <1>13 DEF Steady

\* The device goes on by itself: it erases, it writes, or its chip gets ready.
LEMMA DeviceSteady ==
  ASSUME RepeatInv, PostProcess \/ ChipReady, UNCHANGED hostVars
  PROVE  Steady' /\ Repeated'
<1>0. Steady /\ Repeated /\ TypeOK
  BY DEF RepeatInv, UploadInv, IInv
<1>1. UNCHANGED <<phase, session, job, block, line>>
  BY DEF hostVars
<1>2. Succeeded' = Succeeded /\ Open' = Open /\ Acked' = Acked /\ TookData' = TookData
  BY <1>1 DEF Open, Acked, Succeeded, TookData, LineIs
<1>3. CASE ChipReady
  <2>1. /\ UNCHANGED <<in_progress, begin, offset, total_remaining, pc, cur, torn, flash, faults>>
    BY <1>3 DEF ChipReady, stateVars, histVars
  <2>2. \A f, n : Filled(f, n)' = Filled(f, n)
    BY <1>1, <2>1 DEF Filled, RepeatOf, Unit
  <2>3. \A f, t : Took(f, t)' = Took(f, t)
    BY <1>2 DEF Took
  <2>4. \A f, w : Placed(f, w) => Placed(f, w)'
    BY <1>1, <2>1, <2>2, <2>3, Zenon DEF Placed, Repeats, Length, BlockOf, Image0, Unit
  <2>5. Steady'
    BY <1>0, <1>1, <1>2, <2>1, <2>4, Zenon DEF Steady
  <2>6. Repeated'
    BY <1>0, <1>1, <1>2, <2>1, <2>2, Zenon DEF Repeated, Repeats
  <2> QED BY <2>5, <2>6
<1>4. CASE PostProcess
  <2>1. pc = "post"
    BY <1>4 DEF PostProcess, EnsureErased, WriteBlock, WriteFails
  <2>2. Repeated'
    <3>1. SUFFICES ASSUME phase = "done" \/ (phase = "end" /\ Succeeded), faults' = 0 PROVE FALSE
      BY <1>1, <1>2 DEF Repeated
    <3>2. faults # 0
      BY <1>0, <2>1, <3>1 DEF Repeated
    <3>3. faults' \in {faults, faults + 1}
      BY <1>4 DEF PostProcess, EnsureErased, WriteBlock, WriteFails, ConditionalEraseNext,
         SkipBlankSector, StartNextErase, chipVars, Fault
    <3>4. faults \in Nat
      BY <1>0, FaultAssumption, SMT DEF TypeOK
    <3> QED BY <3>1, <3>2, <3>3, <3>4, SMT
  <2>3. Steady'
    <3>1. CASE WriteFails
      <4>1. faults' # 0
        BY <1>0, <3>1, FaultEnds DEF WriteFails
      <4> QED BY <4>1 DEF Steady
    <3> QED BY <1>4, <3>1, EraseSteady, WriteSteady DEF PostProcess
  <2> QED BY <2>2, <2>3
<1> QED BY <1>3, <1>4

\* Every step of host, line and device keeps it.
LEMMA NextRepeats == RepeatInv /\ [UploadNext]_allVars => RepeatInv'
<1> SUFFICES ASSUME RepeatInv, [UploadNext]_allVars PROVE RepeatInv'
  OBVIOUS
<1>1. UploadInv'
  BY NextUpload DEF RepeatInv
<1>2. CASE UNCHANGED vars /\ (Host \/ Line)
  BY <1>1, <1>2, StartSteady, SendSteady, AnswerSteady, LineSteady DEF Host, RepeatInv
<1>3. CASE /\ LineIs("request")
           /\ HandleCommand(line.what)
           /\ line' = Carry("response", [cmd |-> line.what.cmd, result |-> reply'])
           /\ UNCHANGED <<phase, session, job, block, tries, boundVars>>
  BY <1>1, <1>3, HandleSteady DEF RepeatInv
<1>4. CASE (PostProcess \/ ChipReady) /\ UNCHANGED hostVars
  BY <1>1, <1>4, DeviceSteady DEF RepeatInv
<1>5. CASE UNCHANGED allVars
  <2>1. UNCHANGED vars /\ UNCHANGED <<phase, session, job, block, line>>
    BY <1>5 DEF allVars, hostVars
  <2>2. Open' = Open /\ Acked' = Acked /\ TookData' = TookData /\ Succeeded' = Succeeded
    BY <2>1 DEF Open, Acked, Succeeded, TookData, LineIs
  <2>3. Steady'
    BY <2>1, <2>2, RestsSteady, TookStays
  <2>4. Repeated'
    BY <2>1, <2>2 DEF RepeatInv, Repeated, Repeats, Filled, RepeatOf, Unit, vars, chipVars
  <2> QED BY <1>1, <2>3, <2>4 DEF RepeatInv
<1> QED BY <1>2, <1>3, <1>4, <1>5 DEF UploadNext, Device

\* The cells of the image are in its blocks.
LEMMA InBlocks ==
  ASSUME job \in Jobs, NEW i \in Nat, i < job.size
  PROVE  /\ i \div BLOCK \in 0..(Blocks - 1) /\ i % BLOCK \in Nat /\ i % BLOCK < BLOCK
         /\ i = ((i \div BLOCK) * BLOCK) + (i % BLOCK)
<1>1. Blocks \in Nat /\ BLOCK \in Nat /\ job.size \in Nat
  BY BlocksFacts, JobFacts
<1>2. Length(Blocks) =< Blocks * BLOCK /\ Length(Blocks) \in Nat
  BY <1>1, LengthBelow
<1>3. i < Blocks * BLOCK
  <2> DEFINE b == Blocks
  <2>1. b \in Nat
    BY <1>1
  <2> HIDE DEF b
  <2>2. /\ b * BLOCK \in Nat /\ b * BLOCK = (BLOCK * b)
    BY <1>1, <2>1, SMT
  <2>3. job.size =< BLOCK * b
    <3> DEFINE x == job.size + BLOCK - 1
    <3>1. x \in Nat /\ BLOCK > 0
      BY <1>1, JobFacts, SMT
    <3>2. b = x \div BLOCK
      BY DEF b, Blocks
    <3> HIDE DEF x
    <3>3. x = (BLOCK * b) + (x % BLOCK) /\ x % BLOCK \in 0..(BLOCK - 1)
      BY <1>1, <3>1, <3>2, SMT
    <3> DEFINE y == BLOCK * b
               m == x % BLOCK
    <3>4. y \in Nat /\ m \in 0..(BLOCK - 1) /\ x = y + m
      BY <2>2, <3>3
    <3> HIDE DEF y, m
    <3>5. job.size + BLOCK - 1 = y + m
      BY <3>4 DEF x
    <3>6. job.size =< y
      BY <1>1, <3>4, <3>5, SMT
    <3> QED BY <3>6 DEF y
  <2>4. i < b * BLOCK
    BY <1>1, <2>2, <2>3, SMT
  <2> QED BY <2>4 DEF b
<1>4. /\ i \div BLOCK \in Nat /\ i \div BLOCK < Blocks
      /\ i % BLOCK \in Nat /\ i % BLOCK < BLOCK
      /\ i = ((i \div BLOCK) * BLOCK) + (i % BLOCK)
  BY <1>1, <1>3, PlaceBefore
<1>5. i \div BLOCK \in 0..(Blocks - 1)
  BY <1>1, <1>4, SMT
<1> QED BY <1>4, <1>5

\* The blocks of the image, some of them twice, are what a session leaves.
LEMMA RepeatsAreEnough == RepeatInv => OnlyRepeats
<1> SUFFICES ASSUME RepeatInv, phase = "done", faults = 0 PROVE OnlyRepeats
  BY DEF OnlyRepeats
<1>1. job \in Jobs /\ \E f \in [Nat -> Nat] : Repeats(f) /\ Filled(f, job.size)
  BY DEF RepeatInv, UploadInv, HostTyped, Repeated
<1>2. PICK f \in [Nat -> Nat] : Repeats(f) /\ Filled(f, job.size)
  BY <1>1
<1>3. PICK b \in Nat : b = Blocks
  BY <1>1, BlocksFacts
<1> DEFINE K == 0..(b - 1)
           from == [k \in K |-> f[k]]
<1>4. ASSUME NEW k \in K PROVE k \in Nat /\ f[k] \in K /\ (k # 0 => k - 1 \in K /\ k - 1 \in Nat)
  <2>1. k \in Nat /\ k < b /\ (k # 0 => k - 1 \in Nat /\ k - 1 \in 0..(b - 1))
    BY SMT
  <2>2. f[k] \in Nat /\ f[k] =< k
    BY <1>2, <2>1 DEF Repeats
  <2>3. f[k] \in 0..(b - 1)
    BY <2>1, <2>2, SMT
  <2> QED BY <2>1, <2>3
<1>5. /\ from \in [K -> K] /\ DOMAIN from = K /\ \A k \in K : from[k] = f[k]
  BY <1>4
<1> HIDE DEF from
<1>6. ASSUME NEW k \in K
      PROVE  from[k] \in IF k = 0 THEN {0} ELSE {from[k - 1], from[k - 1] + 1}
  <2>1. CASE k = 0
    <3>1. from[k] = 0
      BY <1>2, <1>5, <2>1 DEF Repeats
    <3> QED BY <2>1, <3>1
  <2>2. CASE k # 0
    <3>1. k \in Nat /\ k - 1 \in K /\ k - 1 \in Nat
      BY <1>4, <2>2
    <3>2. k = (k - 1) + 1
      BY <3>1, SMT
    <3>3. f[(k - 1) + 1] \in {f[k - 1], f[k - 1] + 1}
      BY <1>2, <3>1 DEF Repeats
    <3>4. from[k] = f[(k - 1) + 1] /\ from[k - 1] = f[k - 1]
      BY <1>5, <3>1, <3>2
    <3> QED BY <2>2, <3>3, <3>4
  <2> QED BY <2>1, <2>2
<1>7. DOMAIN Uploaded = 0..(job.size - 1)
      /\ \A i \in 0..(job.size - 1) : Uploaded[i] = flash[job.start + i]
  BY DEF Uploaded
<1>8. ASSUME NEW i \in 0..(job.size - 1)
      PROVE  LET j == (from[i \div BLOCK] * BLOCK) + (i % BLOCK)
             IN  Uploaded[i] = IF j < job.size THEN Unit(session, j) ELSE BLANK
  <2> DEFINE q == i \div BLOCK
             r == i % BLOCK
             c == job.start + i
  <2>1. /\ job.start \in Nat /\ job.size \in Nat /\ CELLS \in Nat /\ i \in Nat /\ i < job.size
        /\ job.start + job.size =< CELLS
    BY <1>1, JobFacts, SMT
  <2>2. c \in Cells /\ job.start =< c /\ c < job.start + job.size /\ c - job.start = i
    BY <2>1, SMT DEF Cells
  <2>3. q \in K /\ r \in Nat /\ r < BLOCK /\ i = (q * BLOCK) + r
    BY <1>1, <1>3, <2>1, InBlocks
  <2>4. Uploaded[i] = flash[c]
    BY <1>7
  <2> HIDE DEF c
  <2>5. flash[c] = RepeatOf(f, i)
    BY <1>2, <2>2 DEF Filled
  <2>6. Uploaded[i] = Unit(session, (from[q] * BLOCK) + r)
    BY <1>5, <2>3, <2>4, <2>5 DEF RepeatOf
  <2>7. (from[q] * BLOCK) + r < job.size
    <3>1. q \in Nat /\ f[q] \in Nat /\ f[q] =< q /\ from[q] = f[q]
      <4>1. q \in Nat
        BY <1>4, <2>3
      <4> QED BY <1>2, <1>5, <2>3, <4>1 DEF Repeats
    <3> HIDE DEF q, r
    <3>2. (f[q] * BLOCK) + r \in Nat /\ (f[q] * BLOCK) + r =< (q * BLOCK) + r
      BY <2>3, <3>1, NotBeyond
    <3>3. \A x \in Nat, y \in Nat, z \in Nat : x =< y /\ y < z => x < z
      BY SMT
    <3>4. (f[q] * BLOCK) + r =< i
      BY <2>3, <3>2, Zenon
    <3> QED BY <2>1, <3>1, <3>2, <3>3, <3>4, Zenon
  <2> QED BY <2>6, <2>7
<1>9. OnlyRepeats
  <2>1. K = 0..(Blocks - 1)
    BY <1>3
  <2> HIDE DEF K
  <2>2. \A k \in DOMAIN from : from[k] \in IF k = 0 THEN {0} ELSE {from[k - 1], from[k - 1] + 1}
    BY <1>5, <1>6
  <2>3. \A i \in DOMAIN Uploaded :
          LET j == (from[i \div BLOCK] * BLOCK) + (i % BLOCK)
          IN  Uploaded[i] = IF j < job.size THEN Unit(session, j) ELSE BLANK
    BY <1>7, <1>8
  <2>4. from \in [0..(Blocks - 1) -> 0..(Blocks - 1)]
    BY <1>5, <2>1
  <2> QED BY <2>2, <2>3, <2>4 DEF OnlyRepeats
<1> QED BY <1>9

-----------------------------------------------------------------------------
(* Theorems.                                                                   *)

\* For every chip, sector and block size, every list of images and any number of
\* lost requests, garbled blocks and failures of the chip: a session that is told
\* it ended well left its whole image in the flash, if no response was lost.
THEOREM UploadIsRight == UploadSpec => []EndMeansWritten
<1>1. UploadInit => UploadInv
  BY FirstUpload
<1>2. UploadInv /\ [UploadNext]_allVars => UploadInv'
  BY NextUpload
<1>3. UploadInv => EndMeansWritten
  BY ProgressIsEnough
<1> QED BY <1>1, <1>2, <1>3, PTL DEF UploadSpec

\* For every chip, block size and list of images, and any number of lost requests,
\* lost responses, garbled blocks and other commands: as long as the chip did not
\* fail, what a session that ended well has left are whole blocks of its own
\* image, in their order; a lost response can only double one.
THEOREM BlocksOnlyRepeat == UploadSpec => []OnlyRepeats
<1>1. UploadInit => RepeatInv
  <2>1. UploadInit => phase = "idle"
    BY DEF UploadInit
  <2> QED BY <2>1, FirstUpload DEF RepeatInv, Steady, Open, Repeated
<1>2. RepeatInv /\ [UploadNext]_allVars => RepeatInv'
  BY NextRepeats
<1>3. RepeatInv => OnlyRepeats
  BY RepeatsAreEnough
<1> QED BY <1>1, <1>2, <1>3, PTL DEF UploadSpec
=============================================================================
