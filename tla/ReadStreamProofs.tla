--------------------------- MODULE ReadStreamProofs ---------------------------
(* Proofs about ReadStream: the buffer of READ_FLASH holds what the word reads *)
(* put into it, what the host accepts is what it asked for, one packet is under *)
(* way at a time, and a host left without an answer has a cause to name, for    *)
(* every size of word, page and packet, every job and whatever the line does.   *)
EXTENDS ReadStream, SequenceTheorems, TLAPS

Result == {"SUCCESS", "BAD_DATA_LEN", "FAILED_SPI_OP"}

FromHost ==
  [kind : {"READ"}, job : Jobs] \cup [kind : {"ACK"}, size : Nat]
  \cup [kind : {"SYNC", "DAMAGED"}]

FromStub ==
  [kind : {"RESPONSE"}, cmd : {"ACK", "SYNC", "READ"}, result : Result]
  \cup [kind : {"DATA"}, cells : Seq(Int)]
  \cup [kind : {"DIGEST"}, of : Seq(Int), poisoned : BOOLEAN]

Typed ==
  /\ params \in Jobs /\ want \in Jobs
  /\ offset \in Nat /\ read_size_remaining \in Nat
  /\ md5 \in Seq(Int) /\ send_buf \in Seq(Int) /\ data \in Seq(Int)
  /\ read_failed \in BOOLEAN /\ accumulated_result \in Result
  /\ toStub \in Seq(FromHost) /\ toHost \in Seq(FromStub)

\* Past its test the handler works with a packet size that fits.
PacketFits == pc \in {"poll", "send", "digest"} => params.packet =< MAX_PACKET

Fits == Typed /\ PacketFits

-----------------------------------------------------------------------------
(* Arithmetic and sequences.                                                   *)

\* Aligning up adds less than a word.
LEMMA AlignUpAdds ==
  ASSUME NEW a \in Nat
  PROVE  AlignUp(a) \in Nat /\ a =< AlignUp(a) /\ AlignUp(a) =< a + WORD - 1
<1> DEFINE b == a + WORD - 1
           m == b % WORD
<1>1. WORD \in Nat /\ WORD > 0
  BY WordAssumption, SMT
<1>2. b \in Nat /\ WORD \in Nat \ {0}
  BY <1>1, SMT
<1>3. m \in Nat /\ m =< b /\ m =< WORD - 1
  BY <1>2, SMT
<1>4. AlignUp(a) = b - m
  BY Zenon DEF AlignUp, AlignDown
<1> HIDE DEF b, m
<1>5. b - m \in Nat /\ b - m =< b /\ b - (WORD - 1) =< b - m
  BY <1>2, <1>3, SMT
<1>6. AlignUp(a) \in Nat /\ AlignUp(a) =< b /\ b - (WORD - 1) =< AlignUp(a)
  BY <1>4, <1>5, Zenon
<1> QED BY <1>1, <1>6, SMT DEF b

\* What is ahead of an offset in its word is less than a word.
LEMMA OffsetInWord ==
  ASSUME NEW a \in Nat
  PROVE  a % WORD \in Nat /\ a % WORD =< WORD - 1
<1>1. WORD \in Nat /\ WORD > 0
  BY WordAssumption, SMT
<1> QED BY <1>1, SMT

\* A packet is no longer than what remains and than the host allows.
LEMMA SizeFits ==
  ASSUME Typed
  PROVE  Size \in Nat /\ Size =< read_size_remaining /\ Size =< params.packet
<1>1. read_size_remaining \in Nat /\ params.packet \in Nat
  BY JobAssumption, SMT DEF Typed
<1> QED BY <1>1, SMT DEF Size, Lesser

\* Cells of the flash are a sequence of integers.
LEMMA CellsAreSeq ==
  ASSUME NEW a \in Int, NEW n \in Nat
  PROVE  Cells(a, n) \in Seq(Int)
BY SMT DEF Cells

\* A garbled cell is a cell.
LEMMA GarbledIsSeq ==
  ASSUME NEW q \in Seq(Int)
  PROVE  [q EXCEPT ![1] = GARBLED] \in Seq(Int)
<1> DEFINE n == Len(q)
           g == GARBLED
<1>1. n \in Nat /\ q \in [1..n -> Int]
  BY LenProperties
<1>0. g \in Int
  BY SMT DEF GARBLED
<1> HIDE DEF n, g
<1>2. [q EXCEPT ![1] = g] \in [1..n -> Int]
  BY <1>0, <1>1, Zenon
<1>3. [q EXCEPT ![1] = g] \in Seq(Int)
  BY <1>1, <1>2, SMT
<1> QED BY <1>3 DEF g

\* An element appended or taken leaves a sequence of the same kind.
LEMMA FrameMoves ==
  ASSUME NEW S, NEW q \in Seq(S)
  PROVE  /\ \A f \in S : Append(q, f) \in Seq(S)
         /\ q # <<>> => Head(q) \in S /\ Tail(q) \in Seq(S)
         /\ \A f \in S : q # <<>> => <<f>> \o Tail(q) \in Seq(S)
<1>1. \A f \in S : Append(q, f) \in Seq(S)
  BY SMT
<1>2. q # <<>> => Head(q) \in S /\ Tail(q) \in Seq(S)
  BY SMT
<1>3. ASSUME NEW f \in S, q # <<>> PROVE <<f>> \o Tail(q) \in Seq(S)
  <2>1. <<f>> \in Seq(S) /\ Tail(q) \in Seq(S)
    BY <1>2, <1>3, SMT
  <2> QED BY <2>1, SMT
<1> QED BY <1>1, <1>2, <1>3

\* The frames of the program are frames.
LEMMA FramesAreTyped ==
  /\ \A j \in Jobs : Read(j) \in FromHost
  /\ \A n \in Nat : Ack(n) \in FromHost
  /\ Sync \in FromHost /\ Damaged \in FromHost
  /\ \A c \in {"ACK", "SYNC", "READ"}, r \in Result : Response(c, r) \in FromStub
  /\ \A d \in Seq(Int) : Packet(d) \in FromStub
  /\ \A d \in Seq(Int), p \in BOOLEAN : Digest(d, p) \in FromStub
BY SMT DEF Read, Ack, Sync, Damaged, Response, Packet, Digest, FromHost, FromStub

\* What the fields of a frame are.
LEMMA FieldsAreTyped ==
  /\ \A f \in FromHost : /\ f.kind \in {"READ", "ACK", "SYNC", "DAMAGED"}
                         /\ f.kind = "READ" => f.job \in Jobs
  /\ \A f \in FromStub : f.kind = "DATA" => f.cells \in Seq(Int)
BY SMT DEF FromHost, FromStub

\* A handler that ends leaves an idle stub.
LEMMA ReturnIsTyped ==
  ASSUME NEW r \in Result, Return(r)
  PROVE  pc' = "idle" /\ accumulated_result' \in Result
BY DEF Return

-----------------------------------------------------------------------------
(* Types, and a packet that fits.                                              *)

\* The stub between two commands.
LEMMA IdleKeepsTypes ==
  ASSUME Fits, DropDamaged \/ RefuseAck \/ HandleCommand
  PROVE  Fits'
<1> USE DEF Fits, Typed
<1>1. StubIdle
  BY DEF DropDamaged, RefuseAck, HandleCommand
<1>2. /\ UNCHANGED <<want, offset, read_size_remaining, md5, send_buf, data, read_failed>>
      /\ toStub' = Tail(toStub) /\ toStub # <<>> /\ pc = "idle"
  BY <1>1 DEF StubIdle, counterVars, hostVars, Received
<1>3. toStub' \in Seq(FromHost) /\ Head(toStub) \in FromHost
  BY <1>2, FrameMoves, SMT
<1>4. CASE DropDamaged
  BY <1>2, <1>3, <1>4 DEF DropDamaged, PacketFits
<1>5. CASE RefuseAck
  <2>1. Response("ACK", "BAD_DATA_LEN") \in FromStub
    BY FramesAreTyped DEF Result
  <2>2. toHost' \in Seq(FromStub)
    BY <1>5, <2>1, FrameMoves DEF RefuseAck, SendFrame
  <2> QED BY <1>2, <1>3, <1>5, <2>2 DEF RefuseAck, PacketFits
<1>6. CASE HandleCommand
  <2> DEFINE f == Head(toStub)
  <2>1. f \in FromHost /\ f.kind \in {"SYNC", "READ"} /\ (f.kind = "READ" => f.job \in Jobs)
    BY <1>3, <1>6, FieldsAreTyped DEF HandleCommand
  <2>2. \A j : HandlerResult(j) \in Result
    BY DEF HandlerResult, Result
  <2>3. /\ \E r \in Result : SendFrame(Response(f.kind, r))
        /\ params' \in Jobs /\ accumulated_result' \in Result /\ pc' \in {"idle", "start"}
    <3> HIDE DEF f
    <3>1. "SUCCESS" \in Result
      BY DEF Result
    <3>2. CASE accumulated_result # "SUCCESS"
      BY <1>2, <1>6, <2>1, <3>1, <3>2 DEF HandleCommand, f
    <3>3. CASE accumulated_result = "SUCCESS" /\ f.kind = "SYNC"
      BY <1>2, <1>6, <2>1, <3>1, <3>3 DEF HandleCommand, f
    <3>4. CASE accumulated_result = "SUCCESS" /\ f.kind = "READ"
      BY <1>2, <1>6, <2>1, <2>2, <3>1, <3>4 DEF HandleCommand, f
    <3> QED BY <2>1, <3>2, <3>3, <3>4
  <2>4. PICK r \in Result : SendFrame(Response(f.kind, r))
    BY <2>3
  <2>5. Response(f.kind, r) \in FromStub
    <3>1. f.kind \in {"ACK", "SYNC", "READ"}
      BY <2>1
    <3> QED BY <3>1, FramesAreTyped, Zenon
  <2>6. toHost' \in Seq(FromStub)
    BY <2>4, <2>5, FrameMoves DEF SendFrame
  <2> QED BY <1>2, <1>3, <2>3, <2>6 DEF PacketFits
<1> QED BY <1>4, <1>5, <1>6

\* The post-process: what it polls, what it reads and what it sends.
LEMMA StreamNumbers ==
  ASSUME Typed
  PROVE  /\ Size \in Nat /\ Size =< read_size_remaining
         /\ params.start \in Nat /\ params.size \in Nat /\ params.packet \in Nat
         /\ MAX_PACKET \in Nat
BY SizeFits, JobAssumption, WordAssumption, SMT DEF Typed

\* The steps of the stream that send nothing.
LEMMA PollKeepsTypes ==
  ASSUME Fits, StartRefused \/ Start \/ PollNothing \/ PollAck \/ PollOther \/ Wait
  PROVE  Fits'
<1>0. Typed /\ PacketFits
  BY DEF Fits
<1>1. UNCHANGED <<params, want, data, toHost>> /\ (accumulated_result' \in Result)
  BY <1>0 DEF StartRefused, Start, PollNothing, PollAck, PollOther, Wait, Return, Streaming,
     hostVars, Typed, Result
<1>2. CASE StartRefused
  <2>1. pc' = "idle" /\ UNCHANGED <<counterVars, toStub>>
    BY <1>2 DEF StartRefused, Return
  <2> QED BY <1>0, <1>1, <2>1 DEF Fits, Typed, PacketFits, counterVars
<1>3. CASE Start
  <2>1. params.packet =< MAX_PACKET
    BY <1>0, <1>3, StreamNumbers, SMT DEF Start, TooLong
  <2>2. <<>> \in Seq(Int) /\ params.start \in Nat /\ params.size \in Nat
    BY <1>0, StreamNumbers, SMT
  <2>3. /\ offset' = params.start /\ read_size_remaining' = params.size
        /\ md5' = <<>> /\ send_buf' = <<>> /\ read_failed' = FALSE /\ toStub' = toStub
    BY <1>3 DEF Start
  <2> QED BY <1>0, <1>1, <2>1, <2>2, <2>3 DEF Fits, Typed, PacketFits
<1>4. CASE PollNothing \/ PollAck \/ PollOther
  <2>1. toStub' \in Seq(FromHost)
    BY <1>0, <1>4, FrameMoves DEF PollNothing, PollAck, PollOther, Received, Typed
  <2>2. UNCHANGED <<offset, read_size_remaining, md5, send_buf, read_failed>> /\ pc = "poll"
    BY <1>4 DEF PollNothing, PollAck, PollOther, counterVars
  <2> QED BY <1>0, <1>1, <2>1, <2>2 DEF Fits, Typed, PacketFits
<1>5. CASE Wait
  <2>1. UNCHANGED <<offset, read_size_remaining, md5, send_buf, read_failed, toStub>>
        /\ pc = "send"
    BY <1>5 DEF Wait, counterVars
  <2> QED BY <1>0, <1>1, <2>1 DEF Fits, Typed, PacketFits
<1> QED BY <1>2, <1>3, <1>4, <1>5

\* A packet of cells that goes out.
LEMMA SendKeepsTypes ==
  ASSUME Fits, pc = "send", NEW d \in Seq(Int), Send(d), offset' \in Nat,
         send_buf' \in Seq(Int), read_failed' \in BOOLEAN
  PROVE  Fits'
<1>0. Typed /\ PacketFits
  BY DEF Fits
<1>1. toHost' \in Seq(FromStub)
  <2>1. Packet(d) \in FromStub
    BY FramesAreTyped
  <2> QED BY <1>0, <2>1, FrameMoves DEF Send, Typed
<1>2. md5' \in Seq(Int)
  BY <1>0, SMT DEF Send, Typed
<1>3. read_size_remaining' \in Nat
  <2>1. read_size_remaining \in Nat /\ read_size_remaining' = read_size_remaining - Size
    BY <1>0 DEF Send, Typed
  <2> QED BY <1>0, <2>1, StreamNumbers, SMT
<1>4. UNCHANGED <<params, want, data, accumulated_result, toStub>>
  BY DEF Send, hostVars
<1> QED BY <1>0, <1>1, <1>2, <1>3, <1>4 DEF Fits, Typed, PacketFits

\* The words read hold the packet, and this is what is cut out of them.
LEMMA PayloadIsCells ==
  ASSUME Typed
  PROVE  Payload = Cells(offset, Size)
<1> DEFINE k == AlignOffset
           top == AlignedSize
           low == AlignDown(offset)
<1>1. offset \in Nat /\ Size \in Nat
  BY SizeFits DEF Typed
<1>2. k \in Nat /\ low = offset - k /\ k =< offset
  <2>1. WORD \in Nat /\ WORD > 0
    BY WordAssumption, SMT
  <2> QED BY <1>1, <2>1, SMT DEF AlignOffset, AlignDown
<1>3. top \in Nat /\ Size + k =< top
  <2>1. Size + k \in Nat /\ top = AlignUp(Size + k)
    BY <1>1, <1>2 DEF AlignedSize
  <2> HIDE DEF k, top
  <2> QED BY <2>1, AlignUpAdds
<1>4. Payload = SubSeq(Cells(low, top), k + 1, k + Size)
  BY DEF Payload, Words
<1> HIDE DEF k, top, low
<1>5. Cells(low, top) \in Seq(Int) /\ Len(Cells(low, top)) = top
  BY <1>1, <1>2, <1>3, SMT DEF Cells
<1> DEFINE q == Cells(low, top)
<1>6. \A i \in 1..top : q[i] = low + i - 1
  BY <1>3 DEF Cells
<1> HIDE DEF q
<1> DEFINE m == k + 1
           n == k + Size
<1>7. m \in Int /\ n \in Int /\ n - m + 1 = Size /\ (m =< n => n - m + 1 = Size)
      /\ (~(m =< n) => Size = 0)
  BY <1>1, <1>2, SMT
<1>8. ASSUME NEW i \in m..n PROVE q[i] \in Int
  <2>1. i \in 1..top /\ low + i - 1 \in Int
    BY <1>1, <1>2, <1>3, SMT
  <2> QED BY <1>6, <2>1
<1>9. \A i \in 1..Size : q[m + i - 1] = offset + i - 1
  <2> TAKE i \in 1..Size
  <2>1. m + i - 1 \in 1..top /\ low + (m + i - 1) - 1 = offset + i - 1
    BY <1>1, <1>2, <1>3, SMT
  <2> HIDE DEF m, n
  <2> QED BY <1>6, <2>1
<1> HIDE DEF m, n
<1>10. /\ SubSeq(q, m, n) \in Seq(Int)
       /\ Len(SubSeq(q, m, n)) = (IF m =< n THEN n - m + 1 ELSE 0)
       /\ \A i \in 1..(n - m + 1) : SubSeq(q, m, n)[i] = q[m + i - 1]
  BY <1>7, <1>8, SubSeqProperties
<1>11. Len(SubSeq(q, m, n)) = Size
  BY <1>7, <1>10, SMT
<1>12. \A i \in 1..Size : SubSeq(q, m, n)[i] = offset + i - 1
  BY <1>7, <1>9, <1>10
<1>13. SubSeq(q, m, n) = Cells(offset, Size)
  BY <1>10, <1>11, <1>12, SMT DEF Cells
<1> QED BY <1>4, <1>13 DEF m, n, q

\* A page holds something of the packet, and no more than is asked of it.
LEMMA ChunkIsSome ==
  ASSUME Typed, Filling, NEW chunk, chunk = Lesser(PAGE - (offset % PAGE), Size - Len(send_buf))
  PROVE  chunk \in Nat
<1>1. offset \in Nat /\ PAGE \in Nat /\ PAGE > 0
  BY WordAssumption, SMT DEF Typed
<1>2. PAGE - (offset % PAGE) \in Nat
  BY <1>1, SMT
<1>3. Size - Len(send_buf) \in Nat
  BY StreamNumbers, SMT DEF Filling, Typed
<1> QED BY <1>2, <1>3, SMT DEF Lesser

\* The steps that gather and send a packet.
LEMMA PacketsKeepTypes ==
  ASSUME Fits, SendPacket \/ ReadFails \/ FillPage \/ FillFails \/ SendFilled \/ SendDigest
  PROVE  Fits'
<1>0. Typed /\ PacketFits
  BY DEF Fits
<1>1. CASE SendPacket
  <2>1. Payload \in Seq(Int) /\ offset' \in Nat
    <3>1. offset \in Nat /\ Size \in Nat
      BY <1>0, StreamNumbers DEF Typed
    <3>2. Payload = Cells(offset, Size) /\ offset' = offset + Size
      BY <1>0, <1>1, PayloadIsCells DEF SendPacket
    <3> QED BY <3>1, <3>2, CellsAreSeq, SMT
  <2>2. send_buf' \in Seq(Int) /\ read_failed' \in BOOLEAN /\ pc = "send" /\ Send(Payload)
    BY <1>0, <1>1 DEF SendPacket, Typed
  <2> QED BY <2>1, <2>2, SendKeepsTypes
<1>2. CASE ReadFails
  <2>1. pc' = "idle" /\ accumulated_result' \in Result
        /\ UNCHANGED <<params, counterVars, toStub, toHost, hostVars>>
    BY <1>2 DEF ReadFails, Return, Result
  <2> QED BY <1>0, <2>1 DEF Fits, Typed, PacketFits, counterVars, hostVars
<1>3. CASE FillPage
  <2> DEFINE chunk == Lesser(PAGE - (offset % PAGE), Size - Len(send_buf))
  <2>1. /\ send_buf' = send_buf \o Cells(offset, chunk) /\ offset' = offset + chunk
        /\ UNCHANGED <<pc, params, read_size_remaining, md5, read_failed, accumulated_result,
                       toStub, toHost, hostVars>>
    BY <1>3 DEF FillPage, Streaming
  <2>2. chunk \in Nat
    BY <1>0, <1>3, ChunkIsSome DEF FillPage
  <2> HIDE DEF chunk
  <2>3. offset' \in Nat /\ Cells(offset, chunk) \in Seq(Int)
    BY <1>0, <2>1, <2>2, CellsAreSeq, SMT DEF Typed
  <2>4. send_buf' \in Seq(Int)
    BY <1>0, <2>1, <2>3, SMT DEF Typed
  <2> QED BY <1>0, <2>1, <2>3, <2>4 DEF Fits, Typed, PacketFits, hostVars
<1>4. CASE FillFails
  <2>1. /\ read_failed' \in BOOLEAN
        /\ UNCHANGED <<pc, params, offset, read_size_remaining, md5, send_buf,
                       accumulated_result, toStub, toHost, hostVars>>
    BY <1>4 DEF FillFails, MarkFailed
  <2> QED BY <1>0, <2>1 DEF Fits, Typed, PacketFits, hostVars
<1>5. CASE SendFilled
  <2> DEFINE d == IF read_failed THEN [i \in 1..Size |-> ZERO] ELSE send_buf
  <2>1. d \in Seq(Int)
    <3>1. [i \in 1..Size |-> ZERO] \in Seq(Int)
      BY <1>0, StreamNumbers, SMT DEF ZERO
    <3> QED BY <1>0, <3>1 DEF Typed
  <2>2. Send(d) /\ pc = "send" /\ send_buf' = <<>> /\ UNCHANGED <<offset, read_failed>>
    BY <1>5 DEF SendFilled
  <2>3. <<>> \in Seq(Int)
    BY SMT
  <2> HIDE DEF d
  <2>4. offset' \in Nat /\ send_buf' \in Seq(Int) /\ read_failed' \in BOOLEAN
    BY <1>0, <2>2, <2>3 DEF Typed
  <2> QED BY <2>1, <2>2, <2>4, SendKeepsTypes
<1>6. CASE SendDigest
  <2>1. Digest(md5, Poisoned) \in FromStub
    BY <1>0, FramesAreTyped DEF Poisoned, Typed
  <2>2. toHost' \in Seq(FromStub)
    BY <1>0, <1>6, <2>1, FrameMoves DEF SendDigest, SendFrame, Typed
  <2>3. pc' = "idle" /\ accumulated_result' \in Result
        /\ UNCHANGED <<params, counterVars, toStub, hostVars>>
    BY <1>6 DEF SendDigest, Return, Streaming, Result
  <2> QED BY <1>0, <2>2, <2>3 DEF Fits, Typed, PacketFits, counterVars, hostVars
<1> QED BY <1>1, <1>2, <1>3, <1>4, <1>5, <1>6

\* The host, which does not reach into the stub.
LEMMA HostKeepsTypes ==
  ASSUME Fits, Host \/ Ask \/ RepeatAck
  PROVE  Fits'
<1>0. Typed /\ PacketFits /\ UNCHANGED stubVars
  BY DEF Fits, Host, HostActs, Ask, TakeResponse, TakePacket, TakeDigest, TakeUnexpected,
     Timeout, RepeatAck, SendSync, TakeSync, SyncTimeout
<1>1. UNCHANGED <<params, offset, read_size_remaining, md5, send_buf, read_failed,
                  accumulated_result, pc>>
  BY <1>0 DEF stubVars, counterVars
<1>2. toHost' \in Seq(FromStub)
  <2>1. UNCHANGED toHost \/ Took
    BY DEF Host, HostActs, Ask, TakeResponse, TakePacket, TakeDigest, TakeUnexpected,
       Timeout, RepeatAck, SendSync, TakeSync, SyncTimeout
  <2> QED BY <1>0, <2>1, FrameMoves DEF Took, Answered, Typed
<1>3. CASE Ask
  <2>1. PICK j \in Jobs : want' = j /\ HostSends(Read(j)) /\ data' = <<>>
    BY <1>3 DEF Ask
  <2>2. toStub' \in Seq(FromHost)
    BY <1>0, <2>1, FramesAreTyped, FrameMoves DEF HostSends, Typed
  <2>3. data' \in Seq(Int)
    BY <2>1, SMT
  <2> QED BY <1>0, <1>1, <1>2, <2>1, <2>2, <2>3 DEF Fits, Typed, PacketFits
<1>4. CASE TakePacket
  <2> DEFINE p == Head(toHost).cells
             got == data \o p
  <2>1. Head(toHost) \in FromStub /\ Head(toHost).kind = "DATA"
    BY <1>0, <1>4, FrameMoves DEF TakePacket, Took, Answered, Typed
  <2>2. p \in Seq(Int)
    BY <2>1, FieldsAreTyped
  <2>3. data' = got /\ want' = want /\ (UNCHANGED toStub \/ HostSends(Ack(Len(got))))
    BY <1>4 DEF TakePacket
  <2> HIDE DEF p
  <2>4. got \in Seq(Int) /\ Len(got) \in Nat
    BY <1>0, <2>2, SMT DEF Typed
  <2> HIDE DEF got
  <2>5. toStub' \in Seq(FromHost)
    BY <1>0, <2>3, <2>4, FramesAreTyped, FrameMoves DEF HostSends, Typed
  <2> QED BY <1>0, <1>1, <1>2, <2>3, <2>4, <2>5 DEF Fits, Typed, PacketFits
<1>5. CASE RepeatAck \/ SendSync
  <2>1. data' = data /\ want' = want /\ (HostSends(Ack(Len(data))) \/ HostSends(Sync))
    BY <1>5 DEF RepeatAck, SendSync, hostVars
  <2>2. Len(data) \in Nat
    BY <1>0, SMT DEF Typed
  <2>3. toStub' \in Seq(FromHost)
    BY <1>0, <2>1, <2>2, FramesAreTyped, FrameMoves DEF HostSends, Typed
  <2> QED BY <1>0, <1>1, <1>2, <2>1, <2>3 DEF Fits, Typed, PacketFits
<1>6. CASE \/ TakeResponse \/ TakeDigest \/ TakeUnexpected \/ Timeout \/ TakeSync \/ SyncTimeout
  <2>1. UNCHANGED <<data, want, toStub>>
    BY <1>6 DEF TakeResponse, TakeDigest, TakeUnexpected, Timeout, TakeSync, SyncTimeout
  <2> QED BY <1>0, <1>1, <1>2, <2>1 DEF Fits, Typed, PacketFits
<1> QED BY <1>3, <1>4, <1>5, <1>6 DEF Host

\* The line, whose damage a frame survives as a frame.
LEMMA LineKeepsTypes ==
  ASSUME Fits, Line
  PROVE  Fits'
<1>0. Typed /\ PacketFits
  BY DEF Fits
<1>1. UNCHANGED <<stubVars, hostVars>>
  BY DEF Line, LineFault, LoseFrame, DamageFrame, GarbleAck, GarblePacket
<1>2. toStub' \in Seq(FromHost)
  <2>1. CASE LoseFrame \/ GarblePacket
    BY <1>0, <2>1, FrameMoves DEF LoseFrame, GarblePacket, Typed
  <2>2. CASE DamageFrame
    BY <1>0, <2>2, FramesAreTyped, FrameMoves DEF DamageFrame, Typed
  <2>3. CASE GarbleAck
    <3>1. PICK n \in {0, WRAP} : toStub' = <<Ack(n)>> \o Tail(toStub) /\ toStub # <<>>
      BY <2>3 DEF GarbleAck
    <3>2. Ack(n) \in FromHost
      BY FramesAreTyped, WrapAssumption
    <3> QED BY <1>0, <3>1, <3>2, FrameMoves DEF Typed
  <2> QED BY <2>1, <2>2, <2>3 DEF Line
<1>3. toHost' \in Seq(FromStub)
  <2>1. CASE LoseFrame \/ DamageFrame \/ GarbleAck
    BY <1>0, <2>1, FrameMoves DEF LoseFrame, DamageFrame, GarbleAck, Typed
  <2>2. CASE GarblePacket
    <3> DEFINE d == [Head(toHost).cells EXCEPT ![1] = GARBLED]
    <3>1. toHost # <<>> /\ Head(toHost).kind = "DATA" /\ toHost' = <<Packet(d)>> \o Tail(toHost)
      BY <2>2 DEF GarblePacket
    <3>2. Head(toHost).cells \in Seq(Int)
      BY <1>0, <3>1, FrameMoves, FieldsAreTyped DEF Typed
    <3>3. d \in Seq(Int)
      BY <3>2, GarbledIsSeq
    <3> HIDE DEF d
    <3>4. Packet(d) \in FromStub
      BY <3>3, FramesAreTyped
    <3> QED BY <1>0, <3>1, <3>4, FrameMoves DEF Typed
  <2> QED BY <2>1, <2>2 DEF Line
<1> QED BY <1>0, <1>1, <1>2, <1>3 DEF Fits, Typed, PacketFits, stubVars, counterVars, hostVars

\* Every step keeps types and a packet that fits.
LEMMA FitsStep == Fits /\ [Next]_vars => Fits'
<1> SUFFICES ASSUME Fits, [Next]_vars PROVE Fits'
  OBVIOUS
<1>1. CASE Stub
  BY <1>1, IdleKeepsTypes, PollKeepsTypes, PacketsKeepTypes DEF Stub
<1>2. CASE Host \/ Ask \/ RepeatAck
  BY <1>2, HostKeepsTypes
<1>3. CASE Line
  BY <1>3, LineKeepsTypes
<1>4. CASE UNCHANGED vars
  BY <1>4 DEF Fits, Typed, PacketFits, vars, stubVars, counterVars, hostVars
<1> QED BY <1>1, <1>2, <1>3, <1>4 DEF Next

\* They hold at first.
LEMMA FitsAtFirst == Init => Fits
<1> SUFFICES ASSUME Init PROVE Fits
  OBVIOUS
<1>1. <<>> \in Seq(Int) /\ <<>> \in Seq(FromHost) /\ <<>> \in Seq(FromStub) /\ 0 \in Nat
  BY SMT
<1> QED BY <1>1 DEF Init, Fits, Typed, PacketFits, Result

\* What s_read_flash_post_process() reads for a packet never fills more than its
\* buffer, whatever size of packet was asked for and wherever the packet starts.
THEOREM BufferIsLongEnough == Spec => []BufferHolds
<1>1. Fits => BufferHolds
  <2> SUFFICES ASSUME Fits, pc = "send" PROVE AlignedSize =< MAX_PACKET + 2 * (WORD - 1)
    BY DEF BufferHolds
  <2>1. Typed /\ params.packet =< MAX_PACKET
    BY DEF Fits, PacketFits
  <2>2. Size \in Nat /\ Size =< MAX_PACKET /\ MAX_PACKET \in Nat
    BY <2>1, StreamNumbers, SizeFits, SMT
  <2>3. AlignOffset \in Nat /\ AlignOffset =< WORD - 1 /\ WORD \in Nat
    BY <2>1, OffsetInWord, WordAssumption DEF AlignOffset, Typed
  <2>4. Size + AlignOffset \in Nat
    BY <2>2, <2>3, SMT
  <2>5. AlignedSize \in Nat /\ AlignedSize =< (Size + AlignOffset) + WORD - 1
    BY <2>4, AlignUpAdds, Zenon DEF AlignedSize
  <2> QED BY <2>2, <2>3, <2>5, SMT
<1> QED BY <1>1, FitsAtFirst, FitsStep, PTL DEF Spec

-----------------------------------------------------------------------------
(* The digest is of the cells of the job, as long as the chip could be read.   *)

Hashed ==
  pc \in {"poll", "send", "digest"} /\ ~read_failed =>
    /\ md5 = Cells(params.start, Len(md5))
    /\ send_buf = Cells(params.start + Len(md5), Len(send_buf))
    /\ offset = params.start + Len(md5) + Len(send_buf)

\* The base stub gathers nothing.
Gathered == variant = "base" /\ pc \in {"poll", "send", "digest"} => send_buf = <<>>

Sent == Fits /\ Hashed /\ Gathered

\* n cells are n.
LEMMA CellsLen ==
  ASSUME NEW a \in Int, NEW n \in Nat
  PROVE  Len(Cells(a, n)) = n
BY SMT DEF Cells

\* No cells are the empty sequence.
LEMMA NoCells ==
  ASSUME NEW a \in Int
  PROVE  <<>> = Cells(a, 0) /\ Len(<<>>) = 0
<1>1. Cells(a, 0) \in Seq(Int) /\ Len(Cells(a, 0)) = 0
  BY CellsAreSeq, CellsLen, SMT
<1> QED BY <1>1, EmptySeq, SMT

\* The cells from a on, and those that follow them.
LEMMA CellsJoin ==
  ASSUME NEW a \in Int, NEW n \in Nat, NEW m \in Nat
  PROVE  Cells(a, n) \o Cells(a + n, m) = Cells(a, n + m)
<1> DEFINE p == Cells(a, n)
           q == Cells(a + n, m)
           r == Cells(a, n + m)
<1>1. a + n \in Int /\ n + m \in Nat
  BY SMT
<1>2. /\ p \in Seq(Int) /\ Len(p) = n /\ q \in Seq(Int) /\ Len(q) = m
      /\ r \in Seq(Int) /\ Len(r) = n + m
  BY <1>1, CellsAreSeq, CellsLen
<1>3. \A i \in 1..n : p[i] = a + i - 1
  BY DEF Cells
<1>4. \A i \in 1..m : q[i] = (a + n) + i - 1
  BY DEF Cells
<1>5. \A i \in 1..(n + m) : r[i] = a + i - 1
  BY DEF Cells
<1> HIDE DEF p, q, r
<1>6. p \o q \in Seq(Int) /\ Len(p \o q) = n + m
  BY <1>2, ConcatProperties
<1>7. ASSUME NEW i \in 1..(n + m) PROVE (p \o q)[i] = r[i]
  <2>1. (p \o q)[i] = IF i =< n THEN p[i] ELSE q[i - n]
    BY <1>2, <1>7, ConcatProperties
  <2>2. r[i] = a + i - 1
    BY <1>5
  <2>3. i =< n => i \in 1..n
    BY SMT
  <2>4. ~(i =< n) => i - n \in 1..m /\ (a + n) + (i - n) - 1 = a + i - 1
    BY SMT
  <2> QED BY <1>3, <1>4, <2>1, <2>2, <2>3, <2>4, Zenon
<1>8. p \o q = r
  BY <1>1, <1>2, <1>6, <1>7, SeqEqual
<1> QED BY <1>8 DEF p, q, r

\* Every step keeps what was hashed and gathered the cells it should be.
LEMMA SentStep ==
  ASSUME Sent, Next
  PROVE  Hashed' /\ Gathered'
<1>0. Typed /\ Hashed /\ Gathered /\ params.start \in Nat /\ Size \in Nat
  BY StreamNumbers DEF Sent, Fits
<1>1. CASE DropDamaged \/ RefuseAck \/ HandleCommand
  <2>1. pc' \in {"idle", "start"}
    BY <1>1 DEF DropDamaged, RefuseAck, HandleCommand, StubIdle
  <2> QED BY <2>1 DEF Hashed, Gathered
<1>2. CASE StartRefused \/ ReadFails \/ SendDigest
  <2>1. pc' = "idle"
    BY <1>2 DEF StartRefused, ReadFails, SendDigest, Return
  <2> QED BY <2>1 DEF Hashed, Gathered
<1>3. CASE Start
  <2>1. md5' = <<>> /\ send_buf' = <<>> /\ offset' = params.start /\ params' = params
    BY <1>3 DEF Start
  <2>2. params.start + 0 \in Int /\ params.start = params.start + 0 + 0
    BY <1>0, SMT
  <2>3. /\ <<>> = Cells(params.start, 0) /\ <<>> = Cells(params.start + 0, 0)
        /\ Len(<<>>) = 0
    BY <1>0, <2>2, NoCells
  <2> QED BY <2>1, <2>2, <2>3, Zenon DEF Hashed, Gathered
<1>4. CASE PollNothing \/ PollAck \/ PollOther \/ Wait
  <2>1. /\ UNCHANGED <<variant, params, offset, md5, send_buf, read_failed>>
        /\ pc \in {"poll", "send"}
    BY <1>4 DEF PollNothing, PollAck, PollOther, Wait, Streaming, counterVars
  <2> QED BY <1>0, <2>1 DEF Hashed, Gathered
<1>5. CASE SendPacket
  <2>1. /\ pc = "send" /\ variant = "base" /\ md5' = md5 \o Payload /\ offset' = offset + Size
        /\ UNCHANGED <<variant, params, send_buf, read_failed>>
    BY <1>5 DEF SendPacket, Send
  <2>2. send_buf = <<>>
    BY <1>0, <2>1 DEF Gathered
  <2>3. ASSUME ~read_failed
        PROVE  /\ md5' = Cells(params.start, Len(md5'))
               /\ send_buf = Cells(params.start + Len(md5'), Len(send_buf))
               /\ offset' = params.start + Len(md5') + Len(send_buf)
    <3> DEFINE n == Len(md5)
               k == Size
    <3>1. n \in Nat /\ k \in Nat /\ Len(<<>>) = 0
      BY <1>0, SMT DEF Typed
    <3>2. md5 = Cells(params.start, n) /\ offset = params.start + n
      BY <1>0, <2>1, <2>2, <2>3, <3>1, SMT DEF Hashed
    <3>3. Payload = Cells(offset, k)
      BY <1>0, PayloadIsCells
    <3> HIDE DEF n, k
    <3>4. md5' = Cells(params.start, n + k)
      <4>1. params.start \in Int
        BY <1>0, SMT
      <4>2. Cells(params.start, n) \o Cells(params.start + n, k) = Cells(params.start, n + k)
        BY <3>1, <4>1, CellsJoin, Zenon
      <4> QED BY <2>1, <3>2, <3>3, <4>2
    <3>5. n + k \in Nat /\ params.start + (n + k) \in Int /\ params.start \in Int
      BY <1>0, <3>1, SMT
    <3>6. Len(md5') = n + k
      BY <3>4, <3>5, CellsLen
    <3>7. <<>> = Cells(params.start + (n + k), 0)
      BY <3>5, NoCells
    <3>8. offset' = params.start + (n + k) + 0
      BY <1>0, <2>1, <3>1, <3>2, SMT DEF k
    <3> QED BY <2>2, <3>1, <3>4, <3>6, <3>7, <3>8
  <2> QED BY <1>0, <2>1, <2>3 DEF Hashed, Gathered
<1>6. CASE FillPage
  <2> DEFINE chunk == Lesser(PAGE - (offset % PAGE), Size - Len(send_buf))
  <2>1. /\ send_buf' = send_buf \o Cells(offset, chunk) /\ offset' = offset + chunk
        /\ UNCHANGED <<variant, pc, params, md5, read_failed>>
        /\ variant = "nand" /\ pc = "send" /\ ~read_failed
    BY <1>6 DEF FillPage, Streaming, Filling
  <2>2. chunk \in Nat
    BY <1>0, <1>6, ChunkIsSome DEF FillPage
  <2> HIDE DEF chunk
  <2> DEFINE m == Len(send_buf)
             from == params.start + Len(md5)
  <2>3. m \in Nat /\ Len(md5) \in Nat
    BY <1>0, SMT DEF Typed
  <2>4. send_buf = Cells(from, m) /\ offset = from + m
    BY <1>0, <2>1 DEF Hashed
  <2>5. from \in Int
    BY <1>0, <2>3, SMT
  <2> HIDE DEF m, from
  <2>6. send_buf' = Cells(from, m + chunk)
    BY <2>1, <2>2, <2>3, <2>4, <2>5, CellsJoin
  <2>7. m + chunk \in Nat /\ offset' = from + (m + chunk)
    BY <2>1, <2>2, <2>3, <2>4, <2>5, SMT
  <2>8. Len(send_buf') = m + chunk
    BY <2>5, <2>6, <2>7, CellsLen
  <2> QED BY <1>0, <2>1, <2>6, <2>7, <2>8 DEF Hashed, Gathered, from
<1>7. CASE FillFails
  <2>1. variant' = "nand" /\ read_failed' = TRUE
    BY <1>7 DEF FillFails, MarkFailed, Filling
  <2> QED BY <2>1 DEF Hashed, Gathered
<1>8. CASE SendFilled
  <2>1. /\ pc = "send" /\ send_buf' = <<>>
        /\ md5' = md5 \o (IF read_failed THEN [i \in 1..Size |-> ZERO] ELSE send_buf)
        /\ UNCHANGED <<variant, params, offset, read_failed>>
    BY <1>8 DEF SendFilled, Send
  <2>2. ASSUME ~read_failed
        PROVE  /\ md5' = Cells(params.start, Len(md5'))
               /\ <<>> = Cells(params.start + Len(md5'), Len(<<>>))
               /\ offset = params.start + Len(md5') + Len(<<>>)
    <3> DEFINE n == Len(md5)
               m == Len(send_buf)
    <3>1. n \in Nat /\ m \in Nat /\ Len(<<>>) = 0
      BY <1>0, SMT DEF Typed
    <3>2. /\ md5 = Cells(params.start, n) /\ send_buf = Cells(params.start + n, m)
          /\ offset = params.start + n + m /\ md5' = md5 \o send_buf
      BY <1>0, <2>1, <2>2 DEF Hashed
    <3> HIDE DEF n, m
    <3>3. md5' = Cells(params.start, n + m)
      <4>1. params.start \in Int
        BY <1>0, SMT
      <4>2. Cells(params.start, n) \o Cells(params.start + n, m) = Cells(params.start, n + m)
        BY <3>1, <4>1, CellsJoin, Zenon
      <4> QED BY <3>2, <4>2
    <3>4. /\ n + m \in Nat /\ params.start \in Int /\ params.start + (n + m) \in Int
          /\ offset = params.start + (n + m) + 0
      BY <1>0, <3>1, <3>2, SMT
    <3>5. Len(md5') = n + m
      BY <3>3, <3>4, CellsLen
    <3>6. <<>> = Cells(params.start + (n + m), 0)
      BY <3>4, NoCells
    <3> QED BY <3>1, <3>3, <3>4, <3>5, <3>6
  <2> QED BY <1>0, <2>1, <2>2 DEF Hashed, Gathered
<1>9. CASE Host \/ Ask \/ RepeatAck \/ Line
  <2>1. UNCHANGED <<variant, stubVars>>
    BY <1>9 DEF Host, HostActs, Ask, TakeResponse, TakePacket, TakeDigest, TakeUnexpected,
       Timeout, RepeatAck, SendSync, TakeSync, SyncTimeout, Line, LineFault, LoseFrame,
       DamageFrame, GarbleAck, GarblePacket
  <2> QED BY <1>0, <2>1 DEF Hashed, Gathered, stubVars, counterVars
<1> QED BY <1>1, <1>2, <1>3, <1>4, <1>5, <1>6, <1>7, <1>8, <1>9 DEF Next, Stub

-----------------------------------------------------------------------------
(* What is under way belongs to the read the host waits for.                   *)

None(q, F)  == \A i \in 1..Len(q) : q[i] \notin F
One(q, F)   == \A i, j \in 1..Len(q) : q[i] \in F /\ q[j] \in F => i = j
Final(q, F) == \A i \in 1..Len(q) : q[i] \in F => i = Len(q)

Reads == {f \in FromHost : f.kind = "READ"}
Syncs == {f \in FromHost : f.kind = "SYNC"}
Digests == {f \in FromStub : f.kind = "DIGEST"}
SyncAnswers == {f \in FromStub : f.kind = "RESPONSE" /\ f.cmd = "SYNC"}

\* Of another job than j: a digest of cells that are not its first ones.
OtherReads(j) == {f \in Reads : f.job # j}
OtherDigests(j) == {f \in Digests : ~f.poisoned /\ f.of # Cells(j.start, Len(f.of))}

\* A SYNC is the last thing the host said, its answer the last thing it hears.
SyncIsFinal ==
  /\ phase # "syncing" => None(toStub, Syncs) /\ None(toHost, SyncAnswers)
  /\ Final(toStub, Syncs) /\ Final(toHost, SyncAnswers)
  /\ None(toHost, SyncAnswers) \/ (toStub = <<>> /\ pc = "idle")

\* The read is in one place: on its way, in the stub's hands or in its digest.
ReadIsMine ==
  phase \in {"asked", "data", "digest"} =>
    /\ None(toStub, OtherReads(want)) /\ None(toHost, OtherDigests(want))
    /\ One(toStub, Reads) /\ One(toHost, Digests)
    /\ pc # "idle" => params = want
    /\ None(toStub, Reads) \/ (pc = "idle" /\ None(toHost, Digests))
    /\ pc = "idle" \/ None(toHost, Digests)

\* Before a host asks nothing of an earlier read is left.
NothingLeft ==
  phase \in {"idle", "synced", "accepted"} =>
    pc = "idle" /\ None(toStub, Reads) /\ None(toHost, Digests)

DataIsComplete == phase = "digest" => Len(data) = want.size

Order == SyncIsFinal /\ ReadIsMine /\ NothingLeft /\ DataIsComplete /\ AcceptedIsFlash

\* What was none, one or last in a queue is so when its first frame leaves or is
\* replaced by another kind of frame.
LEMMA HeadLeaves ==
  ASSUME NEW S, NEW q \in Seq(S), q # <<>>, NEW F
  PROVE  /\ None(q, F) => None(Tail(q), F) /\ Head(q) \notin F
         /\ One(q, F) => One(Tail(q), F)
         /\ Final(q, F) => Final(Tail(q), F)
         /\ One(q, F) /\ Head(q) \in F => None(Tail(q), F)
         /\ Final(q, F) /\ Head(q) \in F => Tail(q) = <<>>
<1> DEFINE t == Tail(q)
           n == Len(q)
<1>1. n \in Nat /\ n > 0
  BY EmptySeq, SMT
<1>2. t \in Seq(S) /\ Len(t) = n - 1 /\ Head(q) = q[1]
  BY SMT
<1>3. \A i \in 1..(n - 1) : t[i] = q[i + 1]
  BY SMT
<1> HIDE DEF t, n
<1>4. \A i \in 1..(n - 1) : i + 1 \in 1..n /\ i + 1 # 1 /\ (i + 1 = n => i = n - 1)
  BY <1>1, SMT
<1>5. \A i, j \in 1..(n - 1) : i + 1 = j + 1 => i = j
  BY <1>1, SMT
<1>6. 1 \in 1..n
  BY <1>1, SMT
<1>7. None(q, F) => None(t, F) /\ Head(q) \notin F
  BY <1>2, <1>3, <1>4, <1>6, Zenon DEF None, n
<1>8. One(q, F) => One(t, F)
  BY <1>2, <1>3, <1>4, <1>5, Zenon DEF One, n
<1>9. Final(q, F) => Final(t, F)
  BY <1>2, <1>3, <1>4, Zenon DEF Final, n
<1>10. One(q, F) /\ Head(q) \in F => None(t, F)
  BY <1>2, <1>3, <1>4, <1>6, Zenon DEF One, None, n
<1>11. ASSUME Final(q, F), Head(q) \in F PROVE t = <<>>
  <2>1. n = 1
    BY <1>2, <1>6, <1>11 DEF Final, n
  <2> QED BY <1>2, <2>1, EmptySeq, SMT
<1> QED BY <1>7, <1>8, <1>9, <1>10, <1>11 DEF t

\* Nor does a first frame that is replaced by one of another kind change them.
LEMMA HeadReplaced ==
  ASSUME NEW S, NEW q \in Seq(S), q # <<>>, NEW F, NEW f \in S, f \notin F
  PROVE  /\ None(q, F) => None(<<f>> \o Tail(q), F)
         /\ One(q, F) => One(<<f>> \o Tail(q), F)
         /\ Final(q, F) => Final(<<f>> \o Tail(q), F)
<1> DEFINE r == <<f>> \o Tail(q)
           n == Len(q)
<1>1. n \in Nat /\ n > 0
  BY EmptySeq, SMT
<1>2. <<f>> \in Seq(S) /\ Len(<<f>>) = 1 /\ <<f>>[1] = f
  BY SMT
<1>3. Tail(q) \in Seq(S) /\ Len(Tail(q)) = n - 1
  BY SMT
<1>4. \A i \in 1..(n - 1) : Tail(q)[i] = q[i + 1]
  BY SMT
<1>5. Len(r) = n /\ \A i \in 1..n : r[i] = IF i =< 1 THEN <<f>>[i] ELSE Tail(q)[i - 1]
  <2>1. 1 + (n - 1) = n
    BY <1>1, SMT
  <2> QED BY <1>2, <1>3, <2>1, ConcatProperties
<1> HIDE DEF r, n
<1>6. ASSUME NEW i \in 1..n PROVE r[i] = f \/ r[i] = q[i]
  <2>1. i =< 1 => i = 1
    BY <1>1, SMT
  <2>2. ~(i =< 1) => i - 1 \in 1..(n - 1) /\ (i - 1) + 1 = i
    BY <1>1, SMT
  <2> QED BY <1>2, <1>4, <1>5, <2>1, <2>2, Zenon
<1>7. None(q, F) => None(r, F)
  BY <1>5, <1>6, Zenon DEF None, n
<1>8. One(q, F) => One(r, F)
  BY <1>5, <1>6, Zenon DEF One, n
<1>9. Final(q, F) => Final(r, F)
  BY <1>5, <1>6, Zenon DEF Final, n
<1> QED BY <1>7, <1>8, <1>9 DEF r

\* What a frame added at the end leaves so.
LEMMA FrameAdded ==
  ASSUME NEW S, NEW q \in Seq(S), NEW F, NEW f \in S
  PROVE  /\ f \notin F => /\ None(q, F) => None(Append(q, f), F)
                          /\ One(q, F) => One(Append(q, f), F)
         /\ None(q, F) => One(Append(q, f), F) /\ Final(Append(q, f), F)
<1> DEFINE r == Append(q, f)
           n == Len(q)
<1>1. n \in Nat
  BY EmptySeq, SMT
<1>2. Len(r) = n + 1 /\ r[n + 1] = f
  BY SMT
<1>3. \A i \in 1..n : r[i] = q[i]
  BY SMT
<1> HIDE DEF r, n
<1>4. \A i \in 1..(n + 1) : i \in 1..n \/ i = n + 1
  BY <1>1, SMT
<1>5. f \notin F /\ None(q, F) => None(r, F)
  BY <1>2, <1>3, <1>4, Zenon DEF None, n
<1>6. f \notin F /\ One(q, F) => One(r, F)
  BY <1>2, <1>3, <1>4, Zenon DEF One, n
<1>7. None(q, F) => One(r, F)
  BY <1>2, <1>3, <1>4, Zenon DEF One, None, n
<1>8. None(q, F) => Final(r, F)
  BY <1>2, <1>3, <1>4, Zenon DEF Final, None, n
<1> QED BY <1>5, <1>6, <1>7, <1>8 DEF r

\* An empty queue has none of anything.
LEMMA NoneInNothing ==
  ASSUME NEW F
  PROVE  None(<<>>, F) /\ One(<<>>, F) /\ Final(<<>>, F)
<1>1. Len(<<>>) = 0 /\ 1..0 = {}
  BY SMT
<1> QED BY <1>1 DEF None, One, Final

\* What is none of many is none of some of them.
LEMMA NoneOfSome ==
  ASSUME NEW q, NEW j
  PROVE  /\ None(q, Reads) => None(q, OtherReads(j))
         /\ None(q, Digests) => None(q, OtherDigests(j))
BY Zenon DEF None, OtherReads, OtherDigests

\* Which frames are which.
LEMMA Kinds ==
  /\ \A n, F : F \in {Reads, Syncs} => Ack(n) \notin F /\ Damaged \notin F
  /\ Sync \notin Reads
  /\ \A j : Read(j) \notin Syncs /\ Read(j) \notin OtherReads(j)
  /\ \A c, r : Response(c, r) \notin Digests /\ (c # "SYNC" => Response(c, r) \notin SyncAnswers)
  /\ \A d : Packet(d) \notin Digests /\ Packet(d) \notin SyncAnswers
  /\ \A d, p : Digest(d, p) \notin SyncAnswers
  /\ \A j : OtherReads(j) \subseteq Reads /\ OtherDigests(j) \subseteq Digests
BY DEF Reads, Syncs, Digests, SyncAnswers, OtherReads, OtherDigests, Ack, Damaged, Sync, Read,
   Response, Packet, Digest

\* The stub takes a frame between two commands.
LEMMA IdleKeepsOrder ==
  ASSUME Fits, Order, DropDamaged \/ RefuseAck \/ HandleCommand
  PROVE  Order'
<1> DEFINE f == Head(toStub)
<1>1. /\ pc = "idle" /\ toStub # <<>> /\ toStub' = Tail(toStub)
      /\ UNCHANGED <<phase, want, data>>
  BY DEF DropDamaged, RefuseAck, HandleCommand, StubIdle, Received, hostVars
<1>2. toStub \in Seq(FromHost) /\ toHost \in Seq(FromStub) /\ f \in FromHost
  BY <1>1, FrameMoves DEF Fits, Typed
<1>3. \/ toHost' = toHost /\ f \notin Syncs
      \/ \E r \in Result, c \in {"ACK", "SYNC", "READ"} :
           c = f.kind /\ toHost' = Append(toHost, Response(c, r))
  <2>1. CASE DropDamaged
    BY <2>1, Kinds DEF DropDamaged
  <2>2. CASE RefuseAck
    BY <2>2 DEF RefuseAck, SendFrame, Result
  <2>3. CASE HandleCommand
    <3>1. f.kind \in {"SYNC", "READ"}
      BY <2>3 DEF HandleCommand
    <3>2. "SUCCESS" \in Result /\ accumulated_result \in Result
      BY DEF Result, Fits, Typed
    <3>3. \A j : HandlerResult(j) \in Result
      BY DEF HandlerResult, Result
    <3>4. \E r \in Result : SendFrame(Response(f.kind, r))
      <4> HIDE DEF f
      <4>1. CASE accumulated_result # "SUCCESS"
        BY <2>3, <3>1, <3>2, <4>1 DEF HandleCommand, f
      <4>2. CASE accumulated_result = "SUCCESS" /\ f.kind = "SYNC"
        BY <2>3, <3>1, <3>2, <4>2 DEF HandleCommand, f
      <4>3. CASE accumulated_result = "SUCCESS" /\ f.kind = "READ"
        BY <2>3, <3>1, <3>3, <4>3 DEF HandleCommand, f
      <4> QED BY <3>1, <4>1, <4>2, <4>3
    <3> QED BY <3>1, <3>4 DEF SendFrame
  <2> QED BY <2>1, <2>2, <2>3
<1>4. pc' = "idle" \/ (f.kind = "READ" /\ params' = f.job)
  <2>1. CASE DropDamaged \/ RefuseAck
    BY <1>1, <2>1 DEF DropDamaged, RefuseAck
  <2>2. CASE HandleCommand
    BY <1>1, <2>2, Zenon DEF HandleCommand
  <2> QED BY <2>1, <2>2
<1>5. (f.kind = "READ" <=> f \in Reads) /\ (f.kind = "SYNC" <=> f \in Syncs)
  BY <1>2 DEF Reads, Syncs
<1> DEFINE Kept(F) == /\ None(toStub, F) => None(toStub', F) /\ f \notin F
                      /\ One(toStub, F) => One(toStub', F)
                      /\ Final(toStub, F) => Final(toStub', F)
                      /\ One(toStub, F) /\ f \in F => None(toStub', F)
                      /\ Final(toStub, F) /\ f \in F => toStub' = <<>>
<1>6. Kept(Reads) /\ Kept(Syncs) /\ Kept(OtherReads(want))
  BY <1>1, <1>2, HeadLeaves
<1>7. /\ None(toHost, Digests) => None(toHost', Digests)
      /\ One(toHost, Digests) => One(toHost', Digests)
      /\ None(toHost, OtherDigests(want)) => None(toHost', OtherDigests(want))
  <2>1. CASE toHost' = toHost
    BY <2>1
  <2>2. ASSUME NEW r \in Result, NEW c \in {"ACK", "SYNC", "READ"},
               toHost' = Append(toHost, Response(c, r))
        PROVE  <1>7!:
    <3>1. Response(c, r) \in FromStub
      BY FramesAreTyped
    <3>2. Response(c, r) \notin Digests /\ Response(c, r) \notin OtherDigests(want)
      BY Kinds
    <3> QED BY <1>2, <2>2, <3>1, <3>2, FrameAdded
  <2> QED BY <1>3, <2>1, <2>2
<1>8. None(toHost, SyncAnswers)
  BY <1>1 DEF Order, SyncIsFinal
<1>9. /\ Final(toHost', SyncAnswers)
      /\ f \notin Syncs => None(toHost', SyncAnswers)
  <2>1. CASE toHost' = toHost
    BY <1>8, <2>1 DEF None, Final
  <2>2. ASSUME NEW r \in Result, NEW c \in {"ACK", "SYNC", "READ"}, c = f.kind,
               toHost' = Append(toHost, Response(c, r))
        PROVE  <1>9!:
    <3>1. Response(c, r) \in FromStub
      BY FramesAreTyped
    <3>2. f \notin Syncs => Response(c, r) \notin SyncAnswers
      BY <1>5, <2>2, Kinds
    <3> QED BY <1>2, <1>8, <2>2, <3>1, <3>2, FrameAdded
  <2> QED BY <1>3, <2>1, <2>2
<1>10. ~(f \in Reads /\ f \in Syncs)
  BY <1>5
<1> HIDE DEF f
<1>11. SyncIsFinal'
  BY <1>1, <1>4, <1>5, <1>6, <1>9, <1>10, NoneInNothing DEF Order, SyncIsFinal
<1>12. ReadIsMine'
  <2> SUFFICES ASSUME phase \in {"asked", "data", "digest"} PROVE ReadIsMine'
    BY <1>1 DEF ReadIsMine
  <2>1. /\ None(toStub', OtherReads(want)) /\ None(toHost', OtherDigests(want))
        /\ One(toStub', Reads) /\ One(toHost', Digests) /\ f \notin OtherReads(want)
    BY <1>1, <1>6, <1>7 DEF Order, ReadIsMine
  <2>2. pc' # "idle" => params' = want
    BY <1>4, <1>5, <2>1 DEF OtherReads
  <2>3. None(toStub', Reads) \/ (pc' = "idle" /\ None(toHost', Digests))
    BY <1>1, <1>4, <1>5, <1>6, <1>7 DEF Order, ReadIsMine
  <2>4. pc' = "idle" \/ None(toHost', Digests)
    BY <1>1, <1>4, <1>5, <1>6, <1>7 DEF Order, ReadIsMine
  <2> QED BY <1>1, <2>1, <2>2, <2>3, <2>4 DEF ReadIsMine
<1>13. NothingLeft' /\ DataIsComplete' /\ AcceptedIsFlash'
  BY <1>1, <1>4, <1>5, <1>6, <1>7 DEF Order, NothingLeft, DataIsComplete, AcceptedIsFlash
<1> QED BY <1>11, <1>12, <1>13 DEF Order

\* The post-process takes a frame, whatever it is, or sends a packet.
LEMMA StreamKeepsOrder ==
  ASSUME Fits, Order,
         \/ StartRefused \/ Start \/ PollNothing \/ PollAck \/ PollOther \/ Wait
         \/ SendPacket \/ ReadFails \/ FillPage \/ FillFails \/ SendFilled
  PROVE  Order'
<1>1. pc # "idle" /\ UNCHANGED <<phase, want, data, params>>
  BY DEF StartRefused, Start, PollNothing, PollAck, PollOther, Wait, SendPacket, ReadFails,
     FillPage, FillFails, SendFilled, Send, Filling, Streaming, hostVars
<1>2. toStub \in Seq(FromHost) /\ toHost \in Seq(FromStub)
  BY DEF Fits, Typed
<1>3. toStub' = toStub \/ (toStub # <<>> /\ toStub' = Tail(toStub))
  BY DEF StartRefused, Start, PollNothing, PollAck, PollOther, Wait, SendPacket, ReadFails,
     FillPage, FillFails, SendFilled, Send, Received
<1>4. toHost' = toHost \/ \E d \in Seq(Int) : toHost' = Append(toHost, Packet(d))
  <2>1. CASE SendPacket
    <3>1. Payload \in Seq(Int)
      <4>1. offset \in Int /\ Size \in Nat /\ Typed
        BY StreamNumbers DEF Fits, Typed
      <4> QED BY <4>1, PayloadIsCells, CellsAreSeq
    <3> QED BY <2>1, <3>1 DEF SendPacket, Send
  <2>2. CASE SendFilled
    <3> DEFINE d == IF read_failed THEN [i \in 1..Size |-> ZERO] ELSE send_buf
    <3>1. d \in Seq(Int)
      <4>1. Size \in Nat /\ send_buf \in Seq(Int)
        BY StreamNumbers DEF Fits, Typed
      <4>2. [i \in 1..Size |-> ZERO] \in Seq(Int)
        BY <4>1, SMT DEF ZERO
      <4> QED BY <4>1, <4>2
    <3>2. Send(d)
      BY <2>2 DEF SendFilled
    <3> HIDE DEF d
    <3> QED BY <3>1, <3>2 DEF Send
  <2>3. CASE ~SendPacket /\ ~SendFilled
    BY <2>3 DEF StartRefused, Start, PollNothing, PollAck, PollOther, Wait, ReadFails,
       FillPage, FillFails
  <2> QED BY <2>1, <2>2, <2>3
<1>5. /\ None(toStub, Reads) => None(toStub', Reads)
      /\ One(toStub, Reads) => One(toStub', Reads)
      /\ None(toStub, Syncs) => None(toStub', Syncs)
      /\ Final(toStub, Syncs) => Final(toStub', Syncs)
      /\ None(toStub, OtherReads(want)) => None(toStub', OtherReads(want))
  BY <1>2, <1>3, HeadLeaves
<1>6. /\ None(toHost, Digests) => None(toHost', Digests)
      /\ None(toHost, SyncAnswers) => None(toHost', SyncAnswers)
      /\ One(toHost, Digests) => One(toHost', Digests)
      /\ None(toHost, OtherDigests(want)) => None(toHost', OtherDigests(want))
  <2>1. CASE toHost' = toHost
    BY <2>1
  <2>2. ASSUME NEW d \in Seq(Int), toHost' = Append(toHost, Packet(d))
        PROVE  <1>6!:
    <3>1. Packet(d) \in FromStub
      BY FramesAreTyped
    <3>2. Packet(d) \notin Digests /\ Packet(d) \notin SyncAnswers
          /\ Packet(d) \notin OtherDigests(want)
      BY Kinds
    <3> QED BY <1>2, <2>2, <3>1, <3>2, FrameAdded
  <2> QED BY <1>4, <2>1, <2>2
<1>7. None(toHost, SyncAnswers)
  BY <1>1 DEF Order, SyncIsFinal
<1>8. SyncIsFinal'
  BY <1>1, <1>5, <1>6, <1>7 DEF Order, SyncIsFinal, None, Final
<1>9. ReadIsMine'
  BY <1>1, <1>5, <1>6 DEF Order, ReadIsMine
<1>10. NothingLeft' /\ DataIsComplete' /\ AcceptedIsFlash'
  BY <1>1 DEF Order, NothingLeft, DataIsComplete, AcceptedIsFlash
<1> QED BY <1>8, <1>9, <1>10 DEF Order

\* The digest is of the job whose packets it follows.
LEMMA DigestKeepsOrder ==
  ASSUME Sent, Order, SendDigest
  PROVE  Order'
<1> DEFINE m == md5
           p == Poisoned
<1>1. /\ pc = "digest" /\ pc' = "idle" /\ toHost' = Append(toHost, Digest(m, p))
      /\ UNCHANGED <<phase, want, data, params, toStub>>
  BY DEF SendDigest, SendFrame, Return, Streaming, hostVars
<1>2. toHost \in Seq(FromStub) /\ Digest(m, p) \in FromStub
  BY FramesAreTyped DEF Sent, Fits, Typed, Poisoned
<1>3. p \/ m = Cells(params.start, Len(m))
  BY <1>1 DEF Sent, Hashed, Poisoned
<1> HIDE DEF m, p
<1>4. params = want => Digest(m, p) \notin OtherDigests(want)
  BY <1>3 DEF OtherDigests, Digests, Digest
<1>5. Digest(m, p) \notin SyncAnswers
  BY Kinds
<1>6. /\ None(toHost, SyncAnswers) => None(toHost', SyncAnswers)
      /\ None(toHost, Digests) => One(toHost', Digests)
      /\ params = want /\ None(toHost, OtherDigests(want)) => None(toHost', OtherDigests(want))
  BY <1>1, <1>2, <1>4, <1>5, FrameAdded
<1>7. SyncIsFinal'
  BY <1>1, <1>6 DEF Order, SyncIsFinal, None, Final
<1>8. ReadIsMine'
  BY <1>1, <1>6 DEF Order, ReadIsMine
<1>9. NothingLeft' /\ DataIsComplete' /\ AcceptedIsFlash'
  BY <1>1 DEF Order, NothingLeft, DataIsComplete, AcceptedIsFlash
<1> QED BY <1>7, <1>8, <1>9 DEF Order

\* The host asks, when nothing is left of what it asked before.
LEMMA AskKeepsOrder ==
  ASSUME Fits, Order, Ask
  PROVE  Order'
<1>1. phase \in {"idle", "accepted", "synced"} /\ phase' = "asked" /\ UNCHANGED <<toHost, pc>>
  BY DEF Ask, HostActs, stubVars
<1>2. pc = "idle" /\ None(toStub, Reads) /\ None(toHost, Digests)
      /\ None(toStub, Syncs) /\ None(toHost, SyncAnswers)
  BY <1>1 DEF Order, NothingLeft, SyncIsFinal
<1>3. PICK j \in Jobs : want' = j /\ toStub' = Append(toStub, Read(j))
  BY DEF Ask, HostSends
<1>4. toStub \in Seq(FromHost) /\ Read(j) \in FromHost
  BY FramesAreTyped DEF Fits, Typed
<1>5. None(toStub', Syncs) /\ One(toStub', Reads) /\ None(toStub', OtherReads(j))
  <2>1. None(toStub, OtherReads(j)) /\ Read(j) \notin Syncs /\ Read(j) \notin OtherReads(j)
    BY <1>2, NoneOfSome, Kinds
  <2> QED BY <1>2, <1>3, <1>4, <2>1, FrameAdded
<1>6. None(toHost, OtherDigests(j))
  BY <1>2, NoneOfSome
<1>7. SyncIsFinal'
  BY <1>1, <1>2, <1>5 DEF SyncIsFinal, None, Final
<1>8. ReadIsMine'
  BY <1>1, <1>2, <1>3, <1>5, <1>6 DEF ReadIsMine, None, One
<1> QED BY <1>1, <1>7, <1>8 DEF Order, NothingLeft, DataIsComplete, AcceptedIsFlash

\* A frame that the host takes while it reads.
LEMMA TakeKeepsOrder ==
  ASSUME Fits, Order, TakeResponse \/ TakePacket \/ TakeDigest \/ TakeUnexpected
  PROVE  Order'
<1> DEFINE f == Head(toHost)
<1>1. /\ phase \in {"asked", "data", "digest"}
      /\ phase' \in {"asked", "data", "digest", "accepted", "failed"}
      /\ toHost # <<>> /\ toHost' = Tail(toHost) /\ UNCHANGED <<want, params, pc>>
  BY DEF TakeResponse, TakePacket, TakeDigest, TakeUnexpected, Took, Answered, HostActs, stubVars
<1>2. toStub \in Seq(FromHost) /\ toHost \in Seq(FromStub) /\ f \in FromStub
  BY <1>1, FrameMoves DEF Fits, Typed
<1>3. toStub' = toStub \/ \E n \in Nat : toStub' = Append(toStub, Ack(n))
  <2>1. CASE TakePacket
    <3> DEFINE got == data \o f.cells
    <3>1. f.cells \in Seq(Int) /\ data \in Seq(Int)
      BY <1>2, <2>1, FieldsAreTyped DEF TakePacket, Fits, Typed
    <3>2. got \in Seq(Int)
      BY <3>1, ConcatProperties
    <3>3. UNCHANGED toStub \/ HostSends(Ack(Len(got)))
      BY <2>1 DEF TakePacket
    <3> HIDE DEF got
    <3>4. Len(got) \in Nat
      BY <3>2, LenProperties
    <3> QED BY <3>3, <3>4 DEF HostSends
  <2>2. CASE ~TakePacket
    BY <2>2 DEF TakeResponse, TakeDigest, TakeUnexpected
  <2> QED BY <2>1, <2>2
<1>4. /\ None(toStub, Reads) => None(toStub', Reads)
      /\ One(toStub, Reads) => One(toStub', Reads)
      /\ None(toStub, Syncs) => None(toStub', Syncs)
      /\ None(toStub, OtherReads(want)) => None(toStub', OtherReads(want))
  <2>1. CASE toStub' = toStub
    BY <2>1
  <2>2. ASSUME NEW n \in Nat, toStub' = Append(toStub, Ack(n))
        PROVE  <1>4!:
    <3>1. Ack(n) \in FromHost
      BY FramesAreTyped
    <3>2. Ack(n) \notin Reads /\ Ack(n) \notin Syncs /\ Ack(n) \notin OtherReads(want)
      BY Kinds
    <3> QED BY <1>2, <2>2, <3>1, <3>2, FrameAdded
  <2> QED BY <1>3, <2>1, <2>2
<1>5. /\ None(toHost, Digests) => None(toHost', Digests) /\ f \notin Digests
      /\ One(toHost, Digests) => One(toHost', Digests)
      /\ One(toHost, Digests) /\ f \in Digests => None(toHost', Digests)
      /\ None(toHost, SyncAnswers) => None(toHost', SyncAnswers)
      /\ None(toHost, OtherDigests(want)) => None(toHost', OtherDigests(want))
                                             /\ f \notin OtherDigests(want)
  BY <1>1, <1>2, HeadLeaves
<1>6. phase' \in {"accepted", "digest"} =>
        \/ phase' = "accepted" /\ TakeDigest /\ f = Digest(data, FALSE) /\ data' = data
        \/ phase' = "digest" /\ Len(data') = want.size
  <2>1. CASE TakeResponse \/ TakeUnexpected
    BY <2>1 DEF TakeResponse, TakeUnexpected
  <2>2. CASE TakePacket
    BY <2>2, Zenon DEF TakePacket
  <2>3. CASE TakeDigest
    BY <2>3 DEF TakeDigest
  <2> QED BY <2>1, <2>2, <2>3
<1>7. phase' = "accepted" =>
        /\ f \in Digests /\ Len(data) = want.size /\ data' = data
        /\ f \notin OtherDigests(want) => data = Cells(want.start, Len(data))
  <2> SUFFICES ASSUME phase' = "accepted" PROVE <1>7!2
    OBVIOUS
  <2>1. TakeDigest /\ f = Digest(data, FALSE) /\ data' = data
    BY <1>6
  <2>2. Len(data) = want.size
    BY <2>1 DEF TakeDigest, Order, DataIsComplete
  <2>3. f.kind = "DIGEST" /\ f.of = data /\ f.poisoned = FALSE
    BY <2>1 DEF Digest
  <2> HIDE DEF f
  <2> QED BY <1>2, <2>1, <2>2, <2>3 DEF Digests, OtherDigests
<1> HIDE DEF f
<1>8. /\ None(toStub', OtherReads(want)) /\ None(toHost', OtherDigests(want))
      /\ f \notin OtherDigests(want)
      /\ None(toStub, Reads) \/ (pc = "idle" /\ None(toHost, Digests))
      /\ pc = "idle" \/ None(toHost, Digests)
      /\ One(toStub', Reads) /\ One(toHost', Digests) /\ (pc # "idle" => params = want)
  BY <1>1, <1>4, <1>5 DEF Order, ReadIsMine
<1>9. SyncIsFinal'
  BY <1>1, <1>4, <1>5 DEF Order, SyncIsFinal, None, Final
<1>10. ReadIsMine'
  BY <1>1, <1>4, <1>5, <1>8 DEF ReadIsMine
<1>11. NothingLeft'
  BY <1>1, <1>4, <1>5, <1>7, <1>8 DEF Order, ReadIsMine, NothingLeft
<1>12. DataIsComplete'
  BY <1>1, <1>6 DEF DataIsComplete
<1>13. AcceptedIsFlash'
  BY <1>1, <1>7, <1>8 DEF AcceptedIsFlash
<1> QED BY <1>9, <1>10, <1>11, <1>12, <1>13 DEF Order

\* The host waits no longer, or sends an ACK again.
LEMMA WaitKeepsOrder ==
  ASSUME Fits, Order, Timeout \/ RepeatAck
  PROVE  Order'
<1>1. /\ phase \in {"asked", "data", "digest"} /\ phase' \in {phase, "failed"}
      /\ UNCHANGED <<want, data, toHost, params, pc>>
  BY DEF Timeout, RepeatAck, HostActs, stubVars, hostVars
<1>2. toStub \in Seq(FromHost)
  BY DEF Fits, Typed
<1>3. toStub' = toStub \/ toStub' = Append(toStub, Ack(Len(data)))
  BY DEF Timeout, RepeatAck, HostSends
<1>4. /\ None(toStub, Reads) => None(toStub', Reads)
      /\ One(toStub, Reads) => One(toStub', Reads)
      /\ None(toStub, Syncs) => None(toStub', Syncs)
      /\ None(toStub, OtherReads(want)) => None(toStub', OtherReads(want))
  <2> DEFINE a == Ack(Len(data))
  <2>1. Len(data) \in Nat
    BY LenProperties DEF Fits, Typed
  <2>2. a \in FromHost /\ a \notin Reads /\ a \notin Syncs /\ a \notin OtherReads(want)
    BY <2>1, FramesAreTyped, Kinds
  <2> HIDE DEF a
  <2>3. CASE toStub' = Append(toStub, a)
    BY <1>2, <2>2, <2>3, FrameAdded
  <2> QED BY <1>3, <2>3 DEF a
<1>5. SyncIsFinal'
  BY <1>1, <1>4 DEF Order, SyncIsFinal, None, Final
<1>6. ReadIsMine'
  BY <1>1, <1>4 DEF Order, ReadIsMine
<1> QED BY <1>1, <1>5, <1>6 DEF Order, NothingLeft, DataIsComplete, AcceptedIsFlash

\* SYNC and its answer.
LEMMA SyncKeepsOrder ==
  ASSUME Fits, Order, SendSync \/ TakeSync \/ SyncTimeout
  PROVE  Order'
<1>1. toStub \in Seq(FromHost) /\ toHost \in Seq(FromStub) /\ pc' = pc
  BY DEF Fits, Typed, SendSync, TakeSync, SyncTimeout, HostActs, stubVars
<1>2. CASE SendSync
  <2>1. phase = "failed" /\ phase' = "syncing" /\ toHost' = toHost
        /\ toStub' = Append(toStub, Sync)
    BY <1>2 DEF SendSync, HostSends
  <2>2. None(toStub, Syncs) /\ None(toHost, SyncAnswers)
    BY <2>1 DEF Order, SyncIsFinal
  <2>3. Final(toStub', Syncs)
    BY <1>1, <2>1, <2>2, FramesAreTyped, FrameAdded
  <2> QED BY <2>1, <2>2, <2>3 DEF Order, SyncIsFinal, ReadIsMine, NothingLeft, DataIsComplete,
             AcceptedIsFlash, None, Final
<1>3. CASE SyncTimeout
  <2>1. phase' = "failed" /\ toHost' = <<>> /\ toStub' = <<>>
    BY <1>3 DEF SyncTimeout, Silence
  <2> QED BY <2>1, NoneInNothing DEF Order, SyncIsFinal, ReadIsMine, NothingLeft,
             DataIsComplete, AcceptedIsFlash
<1>4. CASE TakeSync
  <2> DEFINE f == Head(toHost)
  <2>1. /\ phase = "syncing" /\ toHost # <<>> /\ toHost' = Tail(toHost) /\ toStub' = toStub
        /\ UNCHANGED <<want, data>>
    BY <1>4 DEF TakeSync, Took, Answered
  <2>2. f \in FromStub
    BY <1>1, <2>1, FrameMoves
  <2>3. /\ None(toHost, SyncAnswers) => None(toHost', SyncAnswers) /\ f \notin SyncAnswers
        /\ Final(toHost, SyncAnswers) => Final(toHost', SyncAnswers)
        /\ Final(toHost, SyncAnswers) /\ f \in SyncAnswers => toHost' = <<>>
    BY <1>1, <2>1, HeadLeaves
  <2>4. phase' = "syncing" \/ (phase' \in {"synced", "failed"} /\ f \in SyncAnswers)
    <3>1. CASE f.kind = "RESPONSE" /\ f.cmd = "SYNC"
      BY <1>4, <2>2, <3>1 DEF TakeSync, SyncAnswers
    <3>2. CASE ~(f.kind = "RESPONSE" /\ f.cmd = "SYNC")
      BY <1>4, <2>1, <3>2 DEF TakeSync
    <3> QED BY <3>1, <3>2
  <2> HIDE DEF f
  <2>5. CASE phase' = "syncing"
    BY <1>1, <2>1, <2>3, <2>5 DEF Order, SyncIsFinal, ReadIsMine, NothingLeft,
       DataIsComplete, AcceptedIsFlash
  <2>6. CASE phase' \in {"synced", "failed"} /\ f \in SyncAnswers
    <3>1. toHost' = <<>> /\ toStub' = <<>> /\ pc' = "idle"
      BY <1>1, <2>1, <2>3, <2>6 DEF Order, SyncIsFinal
    <3> QED BY <2>6, <3>1, NoneInNothing DEF Order, SyncIsFinal, ReadIsMine, NothingLeft,
               DataIsComplete, AcceptedIsFlash
  <2> QED BY <2>4, <2>5, <2>6
<1> QED BY <1>2, <1>3, <1>4

\* The line takes frames out of the order and puts none in.
LEMMA LineKeepsOrder ==
  ASSUME Fits, Order, Line
  PROVE  Order'
<1>1. UNCHANGED <<phase, want, data, params, pc>>
  BY DEF Line, LineFault, LoseFrame, DamageFrame, GarbleAck, GarblePacket, stubVars, hostVars
<1>2. toStub \in Seq(FromHost) /\ toHost \in Seq(FromStub)
  BY DEF Fits, Typed
<1> DEFINE StubKept == /\ None(toStub, Reads) => None(toStub', Reads)
                       /\ One(toStub, Reads) => One(toStub', Reads)
                       /\ None(toStub, OtherReads(want)) => None(toStub', OtherReads(want))
                       /\ None(toStub, Syncs) => None(toStub', Syncs)
                       /\ Final(toStub, Syncs) => Final(toStub', Syncs)
                       /\ toStub = <<>> => toStub' = <<>>
           HostKept == /\ None(toHost, Digests) => None(toHost', Digests)
                       /\ One(toHost, Digests) => One(toHost', Digests)
                       /\ None(toHost, OtherDigests(want)) => None(toHost', OtherDigests(want))
                       /\ None(toHost, SyncAnswers) => None(toHost', SyncAnswers)
                       /\ Final(toHost, SyncAnswers) => Final(toHost', SyncAnswers)
<1>3. StubKept
  <2>1. CASE LoseFrame \/ GarblePacket
    <3>1. toStub' = toStub \/ (toStub # <<>> /\ toStub' = Tail(toStub))
      BY <2>1 DEF LoseFrame, GarblePacket
    <3> QED BY <1>2, <3>1, HeadLeaves
  <2>2. CASE DamageFrame \/ GarbleAck
    <3>1. PICK f \in FromHost : /\ f \notin Reads /\ f \notin Syncs
                                /\ toStub # <<>> /\ toStub' = <<f>> \o Tail(toStub)
      BY <2>2, FramesAreTyped, Kinds, WrapAssumption DEF DamageFrame, GarbleAck
    <3>2. f \notin OtherReads(want)
      BY <3>1, Kinds
    <3> QED BY <1>2, <3>1, <3>2, HeadReplaced
  <2> QED BY <2>1, <2>2 DEF Line
<1>4. HostKept
  <2>1. CASE ~GarblePacket
    <3>1. toHost' = toHost \/ (toHost # <<>> /\ toHost' = Tail(toHost))
      BY <2>1 DEF Line, LoseFrame, DamageFrame, GarbleAck
    <3> QED BY <1>2, <3>1, HeadLeaves
  <2>2. CASE GarblePacket
    <3> DEFINE d == [Head(toHost).cells EXCEPT ![1] = GARBLED]
    <3>1. toHost # <<>> /\ Head(toHost).kind = "DATA" /\ toHost' = <<Packet(d)>> \o Tail(toHost)
      BY <2>2 DEF GarblePacket
    <3>2. Head(toHost).cells \in Seq(Int)
      BY <1>2, <3>1, FrameMoves, FieldsAreTyped
    <3>3. d \in Seq(Int)
      BY <3>2, GarbledIsSeq
    <3> HIDE DEF d
    <3>4. Packet(d) \in FromStub /\ Packet(d) \notin Digests /\ Packet(d) \notin SyncAnswers
          /\ Packet(d) \notin OtherDigests(want)
      BY <3>3, FramesAreTyped, Kinds
    <3> QED BY <1>2, <3>1, <3>4, HeadReplaced
  <2> QED BY <2>1, <2>2
<1>5. SyncIsFinal'
  BY <1>1, <1>3, <1>4 DEF Order, SyncIsFinal
<1>6. ReadIsMine'
  BY <1>1, <1>3, <1>4 DEF Order, ReadIsMine
<1>7. NothingLeft'
  BY <1>1, <1>3, <1>4 DEF Order, NothingLeft
<1> QED BY <1>1, <1>5, <1>6, <1>7 DEF Order, DataIsComplete, AcceptedIsFlash

IInv == Sent /\ Order

\* Every step keeps the invariant.
LEMMA Inductive == IInv /\ [Next]_vars => IInv'
<1> SUFFICES ASSUME IInv, [Next]_vars PROVE IInv'
  OBVIOUS
<1>1. Sent /\ Order /\ Fits
  BY DEF IInv, Sent
<1>2. Fits'
  BY <1>1, FitsStep
<1>3. CASE UNCHANGED vars
  <2>1. Hashed' /\ Gathered'
    BY <1>1, <1>3 DEF Sent, Hashed, Gathered, vars, stubVars, counterVars
  <2>2. Order'
    BY <1>1, <1>3 DEF Order, SyncIsFinal, ReadIsMine, NothingLeft, DataIsComplete,
       AcceptedIsFlash, vars, stubVars, hostVars
  <2> QED BY <1>2, <2>1, <2>2 DEF IInv, Sent
<1>4. CASE Next
  <2>1. Hashed' /\ Gathered'
    BY <1>1, <1>4, SentStep
  <2>2. Order'
    BY <1>1, <1>4, IdleKeepsOrder, StreamKeepsOrder, DigestKeepsOrder, AskKeepsOrder,
       TakeKeepsOrder, WaitKeepsOrder, SyncKeepsOrder, LineKeepsOrder DEF Next, Stub, Host
  <2> QED BY <1>2, <2>1, <2>2 DEF IInv, Sent
<1> QED BY <1>3, <1>4

\* It holds at first.
LEMMA AtFirst == Init => IInv
<1> SUFFICES ASSUME Init PROVE IInv
  OBVIOUS
<1>1. Fits
  BY FitsAtFirst
<1>2. Hashed /\ Gathered
  BY DEF Init, Hashed, Gathered
<1>3. Order
  BY NoneInNothing DEF Init, Order, SyncIsFinal, ReadIsMine, NothingLeft, DataIsComplete,
     AcceptedIsFlash
<1> QED BY <1>1, <1>2, <1>3 DEF IInv, Sent

\* A host that has seen the right digest has the cells it asked for: whatever was
\* lost or garbled, sent early or twice, and of whichever of its reads a frame is.
THEOREM ReadIsRight == Spec => []AcceptedIsFlash
<1>1. IInv => AcceptedIsFlash
  BY DEF IInv, Order
<1> QED BY <1>1, AtFirst, Inductive, PTL DEF Spec

-----------------------------------------------------------------------------
(* One packet at a time.                                                       *)

Acks == {f \in FromHost : f.kind = "ACK"}
Datas == {f \in FromStub : f.kind = "DATA"}
ReadAnswers == {f \in FromStub : f.kind = "RESPONSE" /\ f.cmd = "READ"}

Streams == pc \in {"poll", "send", "digest"}

\* No frame of G comes behind one of F.
Precedes(q, G, F) == \A i, j \in 1..Len(q) : i < j /\ q[i] \in F => q[j] \notin G

\* The stub has one read, or it is on its way; no ACK is sent after it and before
\* its response was taken, which is on its way once.
ReadOnce ==
  /\ One(toStub, Reads) /\ (pc = "idle" \/ None(toStub, Reads))
  /\ Precedes(toStub, Acks, Reads)
  /\ phase = "asked" =>
       One(toHost, ReadAnswers) /\ (None(toStub, Reads) \/ None(toHost, ReadAnswers))
  /\ phase \in {"idle", "synced", "accepted", "data", "digest"} =>
       None(toStub, Reads) /\ None(toHost, ReadAnswers)

\* Packets come before the digest, and none is left when the host asks again.
DataFirst ==
  /\ phase \in {"asked", "data", "digest"} => Precedes(toHost, Datas, Digests)
  /\ phase \in {"idle", "synced", "accepted"} => None(toHost, Datas)

\* The counters, which those of the plugin cannot wrap.
Counters ==
  /\ variant \in {"base", "nand"}
  /\ sent_packets \in 0..(WRAP - 1) /\ acked_packets \in 0..(WRAP - 1)
  /\ variant = "nand" /\ pc # "idle" => params.packet > 0 /\ params.packet =< MAX_PACKET
  /\ variant = "nand" => acked_packets =< sent_packets /\ sent_packets =< acked_packets + 1
  /\ variant = "nand" /\ Streams => sent_packets + read_size_remaining =< params.size

\* A packet that was sent and not acknowledged is on its way, or its ACK is, or
\* neither; nothing is on its way when all are acknowledged.
Window ==
  repeats = 0 =>
    /\ sent_packets = acked_packets \/ sent_packets = (acked_packets + 1) % WRAP
    /\ One(toHost, Datas)
    /\ pc = "idle" => None(toStub, Reads) \/ None(toHost, Datas)
    /\ pc = "start" => None(toStub, Acks) /\ None(toHost, Datas)
    /\ Streams =>
         /\ One(toStub, Acks) /\ (None(toStub, Acks) \/ None(toHost, Datas))
         /\ sent_packets = acked_packets => None(toStub, Acks) /\ None(toHost, Datas)

\* What went wrong is counted.
Faults == chipFaults \in Nat /\ lineFaults \in Nat /\ early \in Nat /\ repeats \in Nat

Single == ReadOnce /\ DataFirst /\ Counters /\ Window

\* What stands in order stays so when the first frame leaves or is replaced by
\* another kind, or when one is added that need not come before.
LEMMA OrderOfQueue ==
  ASSUME NEW S, NEW q \in Seq(S), NEW G, NEW F
  PROVE  /\ q # <<>> /\ Precedes(q, G, F) =>
              /\ Precedes(Tail(q), G, F)
              /\ Head(q) \in F => None(Tail(q), G)
              /\ \A f \in S : f \notin F => Precedes(<<f>> \o Tail(q), G, F)
         /\ \A f \in S : None(q, F) \/ (f \notin G /\ Precedes(q, G, F)) =>
              Precedes(Append(q, f), G, F)
<1> DEFINE n == Len(q)
<1>1. n \in Nat
  BY EmptySeq, SMT
<1>2. ASSUME q # <<>>, Precedes(q, G, F)
      PROVE  /\ Precedes(Tail(q), G, F)
             /\ Head(q) \in F => None(Tail(q), G)
             /\ \A f \in S : f \notin F => Precedes(<<f>> \o Tail(q), G, F)
  <2> DEFINE t == Tail(q)
  <2>1. t \in Seq(S) /\ Len(t) = n - 1 /\ Head(q) = q[1] /\ n > 0
    BY <1>2, EmptySeq, SMT
  <2>2. \A i \in 1..(n - 1) : t[i] = q[i + 1]
    BY <1>2, SMT
  <2> HIDE DEF t, n
  <2>3. \A i \in 1..(n - 1) : i + 1 \in 1..n /\ 1 < i + 1
    BY <1>1, SMT
  <2>4. \A i, j \in 1..(n - 1) : i < j => i + 1 < j + 1
    BY <1>1, SMT
  <2>5. 1 \in 1..n
    BY <1>1, <2>1, SMT
  <2>6. Precedes(t, G, F)
    BY <1>2, <2>1, <2>2, <2>3, <2>4, Zenon DEF Precedes, n
  <2>7. Head(q) \in F => None(t, G)
    BY <1>2, <2>1, <2>2, <2>3, <2>5, Zenon DEF Precedes, None, n
  <2>8. ASSUME NEW f \in S, f \notin F PROVE Precedes(<<f>> \o t, G, F)
    <3> DEFINE r == <<f>> \o t
    <3>1. <<f>> \in Seq(S) /\ Len(<<f>>) = 1 /\ <<f>>[1] = f
      BY SMT
    <3>2. Len(r) = n /\ \A i \in 1..n : r[i] = IF i =< 1 THEN <<f>>[i] ELSE t[i - 1]
      <4>1. 1 + (n - 1) = n
        BY <1>1, SMT
      <4> QED BY <2>1, <3>1, <4>1, ConcatProperties
    <3> HIDE DEF r
    <3>3. r[1] = f
      BY <2>5, <3>1, <3>2
    <3>4. ASSUME NEW i \in 1..n, i # 1 PROVE r[i] = q[i]
      <4>1. ~(i =< 1) /\ i - 1 \in 1..(n - 1) /\ (i - 1) + 1 = i
        BY <1>1, <3>4, SMT
      <4> QED BY <2>2, <3>2, <4>1
    <3>5. \A i, j \in 1..n : i < j => j # 1
      BY <1>1, SMT
    <3> QED BY <1>2, <2>8, <3>2, <3>3, <3>4, <3>5, Zenon DEF Precedes, n, r
  <2> QED BY <2>6, <2>7, <2>8 DEF t
<1>3. ASSUME NEW f \in S, None(q, F) \/ (f \notin G /\ Precedes(q, G, F))
      PROVE  Precedes(Append(q, f), G, F)
  <2> DEFINE r == Append(q, f)
  <2>1. Len(r) = n + 1 /\ r[n + 1] = f
    BY SMT
  <2>2. \A i \in 1..n : r[i] = q[i]
    BY SMT
  <2> HIDE DEF r, n
  <2>3. \A i, j \in 1..(n + 1) : i < j => i \in 1..n /\ (j \in 1..n \/ j = n + 1)
    BY <1>1, SMT
  <2> QED BY <1>3, <2>1, <2>2, <2>3, Zenon DEF Precedes, None, n, r
<1> QED BY <1>2, <1>3

\* In an empty queue nothing is out of order.
LEMMA OrderInNothing ==
  ASSUME NEW G, NEW F
  PROVE  Precedes(<<>>, G, F)
<1>1. Len(<<>>) = 0 /\ 1..0 = {}
  BY SMT
<1> QED BY <1>1 DEF Precedes

\* Which frames are packets, ACKs and answers to a read.
LEMMA MoreKinds ==
  /\ Acks \cap Reads = {} /\ Datas \cap Digests = {} /\ Datas \cap ReadAnswers = {}
  /\ Digests \cap ReadAnswers = {}
  /\ Damaged \notin Acks /\ Sync \notin Acks /\ \A j : Read(j) \notin Acks
  /\ \A n \in Nat : Ack(n) \in Acks /\ Ack(n) \notin Reads
  /\ \A d \in Seq(Int) : Packet(d) \in Datas
  /\ \A d : Packet(d) \notin ReadAnswers /\ Packet(d) \notin Digests
  /\ \A d, p : Digest(d, p) \notin Datas /\ Digest(d, p) \notin ReadAnswers
  /\ \A c, r : Response(c, r) \notin Datas /\ (c # "READ" => Response(c, r) \notin ReadAnswers)
BY FramesAreTyped DEF Acks, Reads, Datas, Digests, ReadAnswers, Damaged, Sync, Read, Ack, Packet,
   Digest, Response

\* What the stub does with a frame between two commands.
LEMMA IdleTakes ==
  ASSUME Fits, DropDamaged \/ RefuseAck \/ HandleCommand
  PROVE  LET f == Head(toStub)
         IN /\ pc = "idle" /\ toStub # <<>> /\ toStub' = Tail(toStub) /\ f \in FromHost
            /\ UNCHANGED <<variant, counterVars, phase, want, data, boundVars, timedOut>>
            /\ \/ toHost' = toHost /\ f \notin Reads /\ pc' = "idle"
               \/ \E r \in Result, c \in {"ACK", "SYNC", "READ"} :
                    /\ c = f.kind /\ toHost' = Append(toHost, Response(c, r))
                    /\ \/ pc' = "idle" /\ (c = "READ" => r # "SUCCESS")
                       \/ /\ f \in Reads /\ pc' = "start" /\ params' = f.job
                          /\ HandlerResult(f.job) = "SUCCESS"
<1> DEFINE f == Head(toStub)
<1>1. /\ pc = "idle" /\ toStub # <<>> /\ toStub' = Tail(toStub)
      /\ UNCHANGED <<variant, counterVars, phase, want, data, boundVars, timedOut>>
  BY DEF DropDamaged, RefuseAck, HandleCommand, StubIdle, Received, hostVars
<1>2. f \in FromHost
  BY <1>1, FrameMoves DEF Fits, Typed
<1>3. CASE DropDamaged
  <2>1. f = Damaged /\ pc' = pc /\ toHost' = toHost
    BY <1>3 DEF DropDamaged
  <2> QED BY <1>1, <1>2, <2>1, Kinds
<1>4. CASE RefuseAck
  <2>1. f.kind = "ACK" /\ pc' = pc /\ toHost' = Append(toHost, Response("ACK", "BAD_DATA_LEN"))
    BY <1>4 DEF RefuseAck, SendFrame
  <2>2. "BAD_DATA_LEN" \in Result
    BY DEF Result
  <2> QED BY <1>1, <1>2, <2>1, <2>2
<1>5. CASE HandleCommand
  <2>1. f.kind \in {"SYNC", "READ"} /\ accumulated_result \in Result /\ "SUCCESS" \in Result
    BY <1>5 DEF HandleCommand, Fits, Typed, Result
  <2>2. \A j : HandlerResult(j) \in Result
    BY DEF HandlerResult, Result
  <2>3. f.kind = "READ" => f \in Reads
    BY <1>2 DEF Reads
  <2> HIDE DEF f
  <2>4. CASE accumulated_result # "SUCCESS"
    BY <1>1, <1>2, <1>5, <2>1, <2>4 DEF HandleCommand, SendFrame, f
  <2>5. CASE accumulated_result = "SUCCESS" /\ f.kind = "SYNC"
    BY <1>1, <1>2, <1>5, <2>1, <2>5 DEF HandleCommand, SendFrame, f
  <2>6. CASE accumulated_result = "SUCCESS" /\ f.kind = "READ"
    <3>1. toHost' = Append(toHost, Response("READ", HandlerResult(f.job)))
      BY <1>5, <2>6 DEF HandleCommand, SendFrame, f
    <3>2. /\ params' = f.job
          /\ pc' = IF HandlerResult(f.job) = "SUCCESS" THEN "start" ELSE "idle"
      BY <1>5, <2>6 DEF HandleCommand, f
    <3> QED BY <1>1, <1>2, <2>2, <2>3, <2>6, <3>1, <3>2 DEF f
  <2> QED BY <2>1, <2>4, <2>5, <2>6
<1> QED BY <1>3, <1>4, <1>5

\* The stub takes a frame between two commands: a read is handed on once.
LEMMA IdleKeepsSingle ==
  ASSUME Fits, Single, DropDamaged \/ RefuseAck \/ HandleCommand
  PROVE  Single'
<1> DEFINE f == Head(toStub)
<1>1. /\ pc = "idle" /\ toStub # <<>> /\ toStub' = Tail(toStub) /\ f \in FromHost
      /\ UNCHANGED <<variant, counterVars, phase, boundVars>>
      /\ \/ toHost' = toHost /\ f \notin Reads
         \/ \E r \in Result, c \in {"ACK", "SYNC", "READ"} :
              c = f.kind /\ toHost' = Append(toHost, Response(c, r))
      /\ \/ pc' = "idle"
         \/ /\ f \in Reads /\ pc' = "start" /\ params' = f.job
            /\ HandlerResult(f.job) = "SUCCESS"
  BY IdleTakes
<1>2. toStub \in Seq(FromHost) /\ toHost \in Seq(FromStub)
  BY DEF Fits, Typed
<1>3. f \notin Reads =>
        \/ toHost' = toHost
        \/ \E r \in Result, c \in {"ACK", "SYNC"} : toHost' = Append(toHost, Response(c, r))
  BY <1>1 DEF Reads
<1>4. /\ One(toStub, Reads) => One(toStub', Reads)
      /\ None(toStub, Reads) => None(toStub', Reads) /\ f \notin Reads
      /\ One(toStub, Reads) /\ f \in Reads => None(toStub', Reads)
      /\ Precedes(toStub, Acks, Reads) => Precedes(toStub', Acks, Reads)
      /\ Precedes(toStub, Acks, Reads) /\ f \in Reads => None(toStub', Acks)
  BY <1>1, <1>2, HeadLeaves, OrderOfQueue
<1>5. /\ None(toHost, Datas) => None(toHost', Datas)
      /\ One(toHost, Datas) => One(toHost', Datas)
      /\ Precedes(toHost, Datas, Digests) => Precedes(toHost', Datas, Digests)
      /\ None(toHost, ReadAnswers) => One(toHost', ReadAnswers)
      /\ f \notin Reads => /\ None(toHost, ReadAnswers) => None(toHost', ReadAnswers)
                           /\ One(toHost, ReadAnswers) => One(toHost', ReadAnswers)
  <2>1. CASE toHost' = toHost
    BY <2>1 DEF None, One
  <2>2. ASSUME NEW r \in Result, NEW c \in {"ACK", "SYNC", "READ"},
               toHost' = Append(toHost, Response(c, r)), f \notin Reads => c # "READ"
        PROVE  <1>5!:
    <3>1. Response(c, r) \in FromStub
      BY FramesAreTyped
    <3>2. Response(c, r) \notin Datas /\ (f \notin Reads => Response(c, r) \notin ReadAnswers)
      BY <2>2, MoreKinds
    <3> HIDE DEF f
    <3> QED BY <1>2, <2>2, <3>1, <3>2, FrameAdded, OrderOfQueue
  <2> QED BY <1>1, <1>3, <2>1, <2>2
<1> HIDE DEF f
<1>6. ReadOnce'
  BY <1>1, <1>4, <1>5 DEF Single, ReadOnce
<1>7. DataFirst'
  BY <1>1, <1>5 DEF Single, DataFirst
<1>8. Counters'
  <2>1. UNCHANGED <<sent_packets, acked_packets>> /\ ~Streams'
    BY <1>1 DEF counterVars, Streams
  <2>2. variant = "nand" /\ pc' # "idle" => params'.packet > 0 /\ params'.packet =< MAX_PACKET
    <3> SUFFICES ASSUME variant = "nand", pc' # "idle"
                 PROVE  params'.packet > 0 /\ params'.packet =< MAX_PACKET
      OBVIOUS
    <3>1. params' = f.job /\ f \in Reads /\ HandlerResult(f.job) = "SUCCESS"
      BY <1>1
    <3>2. f.job.packet \in Nat /\ MAX_PACKET \in Nat
      BY <3>1, FieldsAreTyped, JobAssumption, WordAssumption, SMT DEF Reads
    <3>3. ~(f.job.packet = 0 \/ f.job.packet > MAX_PACKET)
      BY <3>1 DEF HandlerResult
    <3> QED BY <3>1, <3>2, <3>3, SMT
  <2> QED BY <1>1, <2>1, <2>2 DEF Single, Counters
<1>9. Window'
  BY <1>1, <1>4, <1>5 DEF Single, ReadOnce, Window, counterVars, boundVars, Streams
<1> QED BY <1>6, <1>7, <1>8, <1>9 DEF Single

\* The post-process polls, waits or ends without a packet.
LEMMA PollKeepsSingle ==
  ASSUME Fits, Single,
         \/ StartRefused \/ Start \/ PollNothing \/ PollAck \/ PollOther \/ Wait
         \/ ReadFails \/ FillPage \/ FillFails
  PROVE  Single'
<1>0. /\ sent_packets \in 0..(WRAP - 1) /\ acked_packets \in 0..(WRAP - 1)
      /\ WRAP \in Nat /\ WRAP > 1 /\ variant \in {"base", "nand"}
  BY WrapAssumption DEF Single, Counters
<1>1. /\ pc # "idle" /\ toHost' = toHost
      /\ toStub' = toStub \/ (toStub # <<>> /\ toStub' = Tail(toStub))
      /\ UNCHANGED <<variant, params, phase, repeats>>
  <2>1. CASE StartRefused \/ Start \/ Wait \/ ReadFails \/ FillPage \/ FillFails
    BY <2>1 DEF StartRefused, Start, Wait, ReadFails, FillPage, FillFails, Streaming, hostVars,
       boundVars, Filling
  <2>2. CASE PollNothing \/ PollAck \/ PollOther
    BY <2>2 DEF PollNothing, PollAck, PollOther, Streaming, hostVars, boundVars, Received
  <2> QED BY <2>1, <2>2
<1>2. toStub \in Seq(FromHost) /\ toHost \in Seq(FromStub)
  BY DEF Fits, Typed
<1>3. /\ None(toStub, Reads) => None(toStub', Reads)
      /\ One(toStub, Reads) => One(toStub', Reads)
      /\ Precedes(toStub, Acks, Reads) => Precedes(toStub', Acks, Reads)
      /\ None(toStub, Acks) => None(toStub', Acks)
      /\ One(toStub, Acks) => One(toStub', Acks)
  <2>1. CASE toStub' = toStub
    BY <2>1 DEF None, One, Precedes
  <2>2. CASE toStub # <<>> /\ toStub' = Tail(toStub)
    BY <1>2, <2>2, HeadLeaves, OrderOfQueue
  <2> QED BY <1>1, <2>1, <2>2
<1>4. None(toStub, Reads)
  BY <1>1 DEF Single, ReadOnce
<1>5. ReadOnce'
  BY <1>1, <1>3, <1>4 DEF Single, ReadOnce
<1>6. DataFirst'
  BY <1>1 DEF Single, DataFirst
<1>7. CASE pc' = "idle" \/ (PollNothing \/ PollOther \/ Wait \/ FillPage \/ FillFails)
  <2>1. UNCHANGED <<sent_packets, acked_packets, read_size_remaining>>
        /\ (pc' = "idle" \/ (Streams /\ Streams'))
    <3>1. CASE StartRefused \/ ReadFails
      BY <3>1 DEF StartRefused, ReadFails, Return, counterVars
    <3>2. CASE PollNothing \/ PollOther \/ Wait
      BY <3>2 DEF PollNothing, PollOther, Wait, LoopOrDigest, counterVars, Streams
    <3>3. CASE FillPage \/ FillFails
      BY <3>3 DEF FillPage, FillFails, Filling, MarkFailed, Streams
    <3>4. Start \/ PollAck => pc' # "idle"
      BY DEF Start, PollAck
    <3> QED BY <1>7, <3>1, <3>2, <3>3, <3>4
  <2>2. Counters'
    BY <1>1, <2>1 DEF Single, Counters, Streams
  <2>3. Window'
    BY <1>1, <1>3, <1>4, <2>1 DEF Single, Window, Streams
  <2> QED BY <1>5, <1>6, <2>2, <2>3 DEF Single
<1>8. CASE Start
  <2>1. /\ sent_packets' = 0 /\ acked_packets' = 0 /\ read_size_remaining' = params.size
        /\ pc = "start" /\ pc' # "idle" /\ toStub' = toStub /\ Streams'
    BY <1>8 DEF Start, Streams
  <2>2. params.size \in Nat
    BY StreamNumbers DEF Fits
  <2>3. 0 \in 0..(WRAP - 1) /\ 0 + params.size =< params.size /\ 0 =< 0 /\ 0 =< 0 + 1
    BY <1>0, <2>2, SMT
  <2>4. Counters'
    <3>1. variant = "nand" => params.packet > 0 /\ params.packet =< MAX_PACKET
      BY <2>1 DEF Single, Counters
    <3>2. /\ variant' \in {"base", "nand"} /\ params' = params /\ variant' = variant
          /\ sent_packets' \in 0..(WRAP - 1) /\ acked_packets' \in 0..(WRAP - 1)
          /\ acked_packets' =< sent_packets' /\ sent_packets' =< acked_packets' + 1
          /\ sent_packets' + read_size_remaining' =< params.size
      BY <1>0, <1>1, <2>1, <2>2, SMT
    <3> QED BY <3>1, <3>2 DEF Counters
  <2>5. \/ One(toHost, Datas) /\ One(toStub, Acks) /\ None(toStub, Acks) /\ None(toHost, Datas)
        \/ repeats # 0
    BY <2>1 DEF Single, Window, One, None
  <2>6. Window'
    BY <1>1, <2>1, <2>5 DEF Window
  <2> QED BY <1>5, <1>6, <2>4, <2>6 DEF Single
<1>9. CASE PollAck
  <2>1. /\ pc = "poll" /\ pc' = "send" /\ Streams /\ Streams' /\ toStub # <<>>
        /\ Head(toStub).kind = "ACK" /\ toStub' = Tail(toStub)
        /\ UNCHANGED <<sent_packets, read_size_remaining>>
        /\ acked_packets' = IF AckCounts THEN (acked_packets + 1) % WRAP ELSE acked_packets
    BY <1>9 DEF PollAck, Streams, Received
  <2>2. Head(toStub) \in Acks
    BY <1>2, <2>1, FrameMoves DEF Acks
  <2>3. acked_packets' \in 0..(WRAP - 1)
    BY <1>0, <2>1, SMT
  <2>4. variant = "nand" => /\ acked_packets' =< sent_packets
                            /\ sent_packets =< acked_packets' + 1
    <3> SUFFICES ASSUME variant = "nand" PROVE <2>4!2
      OBVIOUS
    <3>1. acked_packets =< sent_packets /\ sent_packets =< acked_packets + 1
      BY DEF Single, Counters
    <3>2. CASE acked_packets < sent_packets
      <4>1. AckCounts
        BY <3>2 DEF AckCounts
      <4>2. acked_packets + 1 \in 0..(WRAP - 1)
        BY <1>0, <3>2, SMT
      <4>3. (acked_packets + 1) % WRAP = acked_packets + 1
        BY <1>0, <4>2, SMT
      <4> QED BY <1>0, <2>1, <3>1, <3>2, <4>1, <4>3, SMT
    <3>3. CASE ~(acked_packets < sent_packets)
      <4>1. ~AckCounts
        BY <3>3 DEF AckCounts
      <4> QED BY <2>1, <3>1, <4>1
    <3> QED BY <3>2, <3>3
  <2>5. Counters'
    BY <1>1, <2>1, <2>3, <2>4 DEF Single, Counters, Streams
  <2>6. Window'
    <3> SUFFICES ASSUME repeats = 0 PROVE Window'
      BY <1>1 DEF Window
    <3>1. ~None(toStub, Acks)
      BY <1>2, <2>1, <2>2, HeadLeaves
    <3>2. sent_packets = (acked_packets + 1) % WRAP /\ sent_packets # acked_packets
      BY <2>1, <3>1 DEF Single, Window
    <3>3. sent_packets = acked_packets' \/ sent_packets = (acked_packets' + 1) % WRAP
      BY <2>1, <3>2
    <3>4. None(toHost, Datas) /\ One(toStub, Acks) /\ One(toHost, Datas)
      BY <2>1, <3>1 DEF Single, Window
    <3>5. None(toStub', Acks)
      BY <1>2, <2>1, <2>2, <3>4, HeadLeaves
    <3>6. One(toStub', Acks)
      BY <1>3, <3>4
    <3> QED BY <1>1, <2>1, <3>3, <3>4, <3>5, <3>6 DEF Window
  <2> QED BY <1>5, <1>6, <2>5, <2>6 DEF Single
<1>10. StartRefused \/ ReadFails => pc' = "idle"
  BY DEF StartRefused, ReadFails, Return
<1> QED BY <1>7, <1>8, <1>9, <1>10

\* A packet goes out only when all before it were acknowledged.
LEMMA SendsWhenAcknowledged ==
  ASSUME Single, MaySend
  PROVE  sent_packets = acked_packets
<1>1. /\ sent_packets \in 0..(WRAP - 1) /\ acked_packets \in 0..(WRAP - 1)
      /\ WRAP \in Nat /\ WRAP > 1 /\ variant \in {"base", "nand"}
      /\ variant = "nand" => acked_packets =< sent_packets /\ sent_packets =< acked_packets + 1
  BY WrapAssumption DEF Single, Counters
<1>2. Unacked < 1
  BY DEF MaySend
<1>3. CASE variant = "base"
  <2> DEFINE d == sent_packets - acked_packets
  <2>1. (d + WRAP) % WRAP < 1
    BY <1>2, <1>3 DEF Unacked
  <2>2. d \in Int /\ d > 0 - WRAP /\ d < WRAP
    BY <1>1, SMT
  <2>3. CASE d >= 0
    <3>1. (d + WRAP) % WRAP = d
      BY <1>1, <2>2, <2>3, SMT
    <3> QED BY <1>1, <2>1, <2>2, <2>3, <3>1, SMT
  <2>4. CASE d < 0
    <3>1. (d + WRAP) % WRAP = d + WRAP
      BY <1>1, <2>2, <2>4, SMT
    <3> QED BY <1>1, <2>1, <2>2, <2>4, <3>1, SMT
  <2> QED BY <1>1, <2>2, <2>3, <2>4, SMT
<1>4. CASE variant # "base"
  <2>0. Unacked = IF sent_packets >= acked_packets THEN sent_packets - acked_packets ELSE 0
    BY <1>4 DEF Unacked
  <2>1. acked_packets =< sent_packets /\ sent_packets \in Nat /\ acked_packets \in Nat
    BY <1>1, <1>4, SMT
  <2>2. Unacked = sent_packets - acked_packets
    BY <2>0, <2>1, SMT
  <2> QED BY <1>2, <2>1, <2>2, SMT
<1> QED BY <1>3, <1>4

\* What goes out as a packet, and what it leaves in the counters.
LEMMA PacketGoesOut ==
  ASSUME Fits, SendPacket \/ SendFilled
  PROVE  \E d \in Seq(Int) :
           /\ toHost' = IF d = <<>> THEN toHost ELSE Append(toHost, Packet(d))
           /\ Len(d) = Size
           /\ pc = "send" /\ MaySend /\ pc' \in {"poll", "digest"}
           /\ read_size_remaining' = read_size_remaining - Size
           /\ sent_packets' = (sent_packets + 1) % WRAP
           /\ UNCHANGED <<variant, params, acked_packets, acked_data_size, toStub, hostVars,
                          lineFaults, early, repeats>>
<1>0. Typed /\ Size \in Nat /\ offset \in Nat
  BY StreamNumbers DEF Fits, Typed
<1>1. ASSUME NEW d \in Seq(Int), Send(d), pc = "send", MaySend, Len(d) = Size
      PROVE  /\ toHost' = IF d = <<>> THEN toHost ELSE Append(toHost, Packet(d))
             /\ Len(d) = Size
             /\ pc = "send" /\ MaySend /\ pc' \in {"poll", "digest"}
             /\ read_size_remaining' = read_size_remaining - Size
             /\ sent_packets' = (sent_packets + 1) % WRAP
             /\ UNCHANGED <<variant, params, acked_packets, acked_data_size, toStub, hostVars,
                            lineFaults, early, repeats>>
  BY <1>1 DEF Send, LoopOrDigest
<1>2. CASE SendPacket
  <2>1. Payload \in Seq(Int) /\ Len(Payload) = Size
    BY <1>0, PayloadIsCells, CellsAreSeq, CellsLen
  <2> QED BY <1>1, <1>2, <2>1 DEF SendPacket
<1>3. CASE SendFilled
  <2> DEFINE zeros == [i \in 1..Size |-> ZERO]
             d == IF read_failed THEN zeros ELSE send_buf
  <2>1. zeros \in Seq(Int) /\ Len(zeros) = Size
    BY <1>0, SMT DEF ZERO
  <2>2. Send(d) /\ pc = "send" /\ MaySend /\ (read_failed \/ Len(send_buf) = Size)
    BY <1>3 DEF SendFilled
  <2> HIDE DEF zeros
  <2>3. d \in Seq(Int) /\ Len(d) = Size
    BY <1>0, <2>1, <2>2 DEF Typed
  <2> HIDE DEF d
  <2> QED BY <1>1, <2>2, <2>3
<1> QED BY <1>2, <1>3

\* A packet goes out only when none is under way.
LEMMA SendKeepsSingle ==
  ASSUME Fits, Order, Single, SendPacket \/ SendFilled
  PROVE  Single'
<1>1. PICK d \in Seq(Int) :
        /\ toHost' = IF d = <<>> THEN toHost ELSE Append(toHost, Packet(d))
        /\ pc = "send" /\ MaySend /\ pc' \in {"poll", "digest"}
        /\ read_size_remaining' = read_size_remaining - Size
        /\ sent_packets' = (sent_packets + 1) % WRAP
        /\ UNCHANGED <<variant, params, acked_packets, toStub, phase, repeats>>
  BY PacketGoesOut DEF hostVars
<1>2. /\ toStub \in Seq(FromHost) /\ toHost \in Seq(FromStub)
      /\ Packet(d) \in FromStub /\ Packet(d) \notin Digests /\ Packet(d) \notin ReadAnswers
  BY FramesAreTyped, MoreKinds DEF Fits, Typed
<1>3. /\ Precedes(toHost, Datas, Digests) /\ None(toHost, Digests) =>
           Precedes(toHost', Datas, Digests)
      /\ One(toHost, ReadAnswers) => One(toHost', ReadAnswers)
      /\ None(toHost, ReadAnswers) => None(toHost', ReadAnswers)
      /\ None(toHost, Datas) => One(toHost', Datas)
  <2>1. CASE d = <<>>
    <3>1. toHost' = toHost
      BY <1>1, <2>1
    <3> QED BY <3>1 DEF Precedes, One, None
  <2>2. CASE d # <<>>
    <3>1. toHost' = Append(toHost, Packet(d))
      BY <1>1, <2>2
    <3> QED BY <1>2, <3>1, FrameAdded, OrderOfQueue
  <2> QED BY <2>1, <2>2
<1>4. sent_packets = acked_packets /\ Streams /\ Streams'
  BY <1>1, SendsWhenAcknowledged DEF Streams
<1>5. ReadOnce'
  BY <1>1, <1>3 DEF Single, ReadOnce
<1>6. Counters'
  <2>1. /\ sent_packets \in 0..(WRAP - 1) /\ acked_packets \in 0..(WRAP - 1)
        /\ WRAP \in Nat /\ WRAP > 1 /\ variant \in {"base", "nand"}
    BY WrapAssumption DEF Single, Counters
  <2>2. sent_packets' \in 0..(WRAP - 1)
    BY <1>1, <2>1, SMT
  <2>3. ASSUME variant = "nand"
        PROVE  /\ acked_packets =< sent_packets' /\ sent_packets' =< acked_packets + 1
               /\ sent_packets' + read_size_remaining' =< params.size
    <3>1. /\ params.packet > 0 /\ sent_packets + read_size_remaining =< params.size
      BY <1>1, <1>4, <2>3 DEF Single, Counters
    <3>2. /\ params.packet \in Nat /\ params.size \in Nat /\ params.size < WRAP
          /\ read_size_remaining \in Nat
      BY JobAssumption, SizeAssumption, SMT DEF Fits, Typed
    <3>3. Size \in Nat /\ Size >= 1 /\ Size =< read_size_remaining
      <4>1. read_size_remaining > 0
        BY <1>1 DEF MaySend
      <4> QED BY <3>1, <3>2, <4>1, SMT DEF Size, Lesser
    <3>4. sent_packets + 1 =< params.size
      BY <2>1, <3>1, <3>2, <3>3, SMT
    <3>5. (sent_packets + 1) % WRAP = sent_packets + 1
      <4>1. sent_packets + 1 \in 0..(WRAP - 1)
        BY <2>1, <3>2, <3>4, SMT
      <4> QED BY <2>1, <4>1, SMT
    <3>6. sent_packets' = sent_packets + 1 /\ read_size_remaining' = read_size_remaining - Size
      BY <1>1, <3>5
    <3>7. sent_packets' + read_size_remaining' =< params.size
      BY <2>1, <3>1, <3>2, <3>3, <3>6, SMT
    <3>8. acked_packets =< sent_packets' /\ sent_packets' =< acked_packets + 1
      BY <1>4, <2>1, <3>6, SMT
    <3> QED BY <3>7, <3>8
  <2>4. variant = "nand" => params.packet > 0 /\ params.packet =< MAX_PACKET
    BY <1>1 DEF Single, Counters
  <2> QED BY <1>1, <2>1, <2>2, <2>3, <2>4 DEF Counters
<1>7. Window'
  <2> SUFFICES ASSUME repeats = 0 PROVE Window'
    BY <1>1 DEF Window
  <2>1. None(toHost, Datas) /\ None(toStub, Acks) /\ One(toStub, Acks)
    BY <1>4 DEF Single, Window
  <2>2. One(toHost', Datas) /\ sent_packets' = (acked_packets' + 1) % WRAP
    BY <1>1, <1>3, <1>4, <2>1
  <2>3. sent_packets' # acked_packets'
    <3>1. acked_packets \in 0..(WRAP - 1) /\ WRAP \in Nat /\ WRAP > 1
      BY WrapAssumption DEF Single, Counters
    <3>2. (acked_packets + 1) % WRAP # acked_packets
      <4>1. CASE acked_packets = WRAP - 1
        <5>1. (acked_packets + 1) % WRAP = 0
          BY <3>1, <4>1, SMT
        <5> QED BY <3>1, <4>1, <5>1, SMT
      <4>2. CASE acked_packets # WRAP - 1
        <5>1. (acked_packets + 1) % WRAP = acked_packets + 1
          BY <3>1, <4>2, SMT
        <5> QED BY <3>1, <5>1, SMT
      <4> QED BY <4>1, <4>2
    <3> QED BY <1>1, <1>4, <3>2
  <2> QED BY <1>1, <1>4, <2>1, <2>2, <2>3 DEF Window, Streams
<1>8. DataFirst'
  <2>1. phase \in {"asked", "data", "digest"} => None(toHost, Digests)
    BY <1>1 DEF Order, ReadIsMine
  <2>2. phase \notin {"idle", "synced", "accepted"}
    BY <1>1 DEF Order, NothingLeft
  <2> QED BY <1>1, <1>3, <2>1, <2>2 DEF Single, DataFirst
<1> QED BY <1>5, <1>6, <1>7, <1>8 DEF Single

\* The digest ends the stream.
LEMMA DigestKeepsSingle ==
  ASSUME Fits, Order, Single, SendDigest
  PROVE  Single'
<1>1. /\ pc = "digest" /\ pc' = "idle" /\ toHost' = Append(toHost, Digest(md5, Poisoned))
      /\ UNCHANGED <<variant, counterVars, phase, repeats, toStub>>
  BY DEF SendDigest, SendFrame, Return, Streaming, hostVars, boundVars
<1>2. toHost \in Seq(FromStub) /\ Digest(md5, Poisoned) \in FromStub
      /\ Digest(md5, Poisoned) \notin Datas /\ Digest(md5, Poisoned) \notin ReadAnswers
  BY FramesAreTyped, MoreKinds DEF Fits, Typed, Poisoned
<1>3. /\ Precedes(toHost, Datas, Digests) => Precedes(toHost', Datas, Digests)
      /\ One(toHost, ReadAnswers) => One(toHost', ReadAnswers)
      /\ None(toHost, ReadAnswers) => None(toHost', ReadAnswers)
      /\ One(toHost, Datas) => One(toHost', Datas)
      /\ None(toHost, Datas) => None(toHost', Datas)
  BY <1>1, <1>2, FrameAdded, OrderOfQueue
<1>4. None(toStub, Reads)
  BY <1>1 DEF Single, ReadOnce
<1>5. ReadOnce' /\ DataFirst'
  BY <1>1, <1>3, <1>4 DEF Single, ReadOnce, DataFirst
<1>6. Counters'
  BY <1>1 DEF Single, Counters, counterVars, Streams
<1>7. Window'
  BY <1>1, <1>3, <1>4 DEF Single, Window, counterVars, Streams
<1> QED BY <1>5, <1>6, <1>7 DEF Single

\* The host asks on a line with no packet and no answer of an earlier read.
LEMMA AskKeepsSingle ==
  ASSUME Fits, Order, Single, Ask
  PROVE  Single'
<1>1. phase \in {"idle", "accepted", "synced"} /\ phase' = "asked"
      /\ UNCHANGED <<toHost, variant, stubVars, boundVars>>
  BY DEF Ask, HostActs
<1>2. pc = "idle" /\ None(toStub, Reads) /\ None(toHost, Digests)
  BY <1>1 DEF Order, NothingLeft
<1>3. None(toHost, Datas) /\ None(toHost, ReadAnswers)
  BY <1>1 DEF Single, DataFirst, ReadOnce
<1>4. PICK j \in Jobs : toStub' = Append(toStub, Read(j))
  BY DEF Ask, HostSends
<1>5. toStub \in Seq(FromHost) /\ Read(j) \in FromHost /\ Read(j) \notin Acks
  BY FramesAreTyped, MoreKinds DEF Fits, Typed
<1>6. One(toStub', Reads) /\ Precedes(toStub', Acks, Reads)
  BY <1>2, <1>4, <1>5, FrameAdded, OrderOfQueue
<1>7. ReadOnce' /\ DataFirst'
  BY <1>1, <1>2, <1>3, <1>6 DEF ReadOnce, DataFirst, One, None, Precedes, stubVars
<1>8. Counters'
  BY <1>1, <1>2 DEF Single, Counters, stubVars, counterVars, Streams
<1>9. Window'
  BY <1>1, <1>2, <1>3 DEF Single, Window, stubVars, counterVars, boundVars, Streams
<1> QED BY <1>7, <1>8, <1>9 DEF Single

\* The host takes the answer to its read, its packets, each of which it
\* acknowledges, and the digest, behind which no packet is left.
LEMMA TakeKeepsSingle ==
  ASSUME Fits, Order, Single, TakeResponse \/ TakePacket \/ TakeDigest \/ TakeUnexpected
  PROVE  Single'
<1> DEFINE f == Head(toHost)
<1>1. /\ phase \in {"asked", "data", "digest"} /\ toHost # <<>> /\ toHost' = Tail(toHost)
      /\ UNCHANGED <<variant, stubVars, repeats>>
  BY DEF TakeResponse, TakePacket, TakeDigest, TakeUnexpected, Took, Answered, HostActs, boundVars
<1>2. toStub \in Seq(FromHost) /\ toHost \in Seq(FromStub) /\ f \in FromStub
  BY <1>1, FrameMoves DEF Fits, Typed
<1>3. /\ None(toHost, Datas) => None(toHost', Datas) /\ f \notin Datas
      /\ One(toHost, Datas) => One(toHost', Datas)
      /\ One(toHost, Datas) /\ f \in Datas => None(toHost', Datas)
      /\ None(toHost, ReadAnswers) => None(toHost', ReadAnswers) /\ f \notin ReadAnswers
      /\ One(toHost, ReadAnswers) => One(toHost', ReadAnswers)
      /\ One(toHost, ReadAnswers) /\ f \in ReadAnswers => None(toHost', ReadAnswers)
      /\ Precedes(toHost, Datas, Digests) =>
           Precedes(toHost', Datas, Digests) /\ (f \in Digests => None(toHost', Datas))
  BY <1>1, <1>2, HeadLeaves, OrderOfQueue
<1>4. Counters'
  BY <1>1 DEF Single, Counters, stubVars, counterVars, Streams
<1>5. CASE TakePacket
  <2> DEFINE got == data \o f.cells
  <2>1. /\ phase = "data" /\ phase' \in {"data", "digest", "failed"} /\ f.kind = "DATA"
        /\ toStub' = toStub \/ toStub' = Append(toStub, Ack(Len(got)))
    BY <1>5, Zenon DEF TakePacket, HostSends
  <2>2. f \in Datas
    BY <1>2, <2>1 DEF Datas
  <2>3. Len(got) \in Nat
    <3>1. f.cells \in Seq(Int) /\ data \in Seq(Int)
      BY <1>2, <2>1, FieldsAreTyped DEF Fits, Typed
    <3> QED BY <3>1, ConcatProperties, LenProperties
  <2> DEFINE a == Ack(Len(got))
  <2>4. a \in FromHost /\ a \in Acks /\ a \notin Reads
    BY <2>3, FramesAreTyped, MoreKinds
  <2> HIDE DEF a, f
  <2>5. None(toStub, Reads) /\ None(toHost, ReadAnswers)
    BY <2>1 DEF Single, ReadOnce
  <2>6. /\ None(toStub', Reads)
        /\ One(toStub', Reads) /\ Precedes(toStub', Acks, Reads)
        /\ None(toStub, Acks) => One(toStub', Acks)
    <3>1. CASE toStub' = toStub
      BY <2>5, <3>1 DEF None, One, Precedes
    <3>2. CASE toStub' = Append(toStub, a)
      BY <1>2, <2>4, <2>5, <3>2, FrameAdded, OrderOfQueue
    <3> QED BY <2>1, <3>1, <3>2 DEF a
  <2>7. ReadOnce'
    BY <1>3, <2>1, <2>5, <2>6 DEF ReadOnce
  <2>8. DataFirst'
    BY <1>3, <2>1 DEF Single, DataFirst
  <2>9. Window'
    <3> SUFFICES ASSUME repeats = 0 PROVE Window'
      BY <1>1 DEF Window
    <3>1. One(toHost, Datas) /\ ~None(toHost, Datas)
      BY <1>3, <2>2 DEF Single, Window
    <3>2. None(toHost', Datas) /\ One(toHost', Datas)
      BY <1>3, <2>2, <3>1
    <3>3. pc # "start" /\ (Streams => None(toStub, Acks) /\ sent_packets # acked_packets)
      BY <3>1 DEF Single, Window
    <3>4. sent_packets = acked_packets \/ sent_packets = (acked_packets + 1) % WRAP
      BY DEF Single, Window
    <3> QED BY <1>1, <2>6, <3>2, <3>3, <3>4 DEF Window, stubVars, counterVars, Streams
  <2> QED BY <1>4, <2>7, <2>8, <2>9 DEF Single
<1>6. CASE ~TakePacket
  <2>1. toStub' = toStub
    BY <1>6 DEF TakeResponse, TakeDigest, TakeUnexpected
  <2>2. /\ phase = "asked" => phase' = "asked" \/ f \in ReadAnswers
        /\ phase # "asked" => phase' \in {"accepted", "failed"}
        /\ phase' \in {"asked", "data", "accepted", "failed"}
        /\ phase' = "accepted" => f \in Digests
    <3>1. CASE TakeResponse
      <4>1. phase = "asked" /\ phase' = IF f.kind = "RESPONSE" /\ f.cmd = "READ"
                       THEN IF f.result = "SUCCESS" THEN "data" ELSE "failed"
                       ELSE "asked"
        BY <3>1 DEF TakeResponse
      <4> HIDE DEF f
      <4> QED BY <1>2, <4>1 DEF ReadAnswers
    <3>2. CASE TakeDigest
      <4>1. phase = "digest" /\ phase' \in {"accepted", "failed"}
            /\ (phase' = "accepted" => f = Digest(data, FALSE))
        BY <3>2, Zenon DEF TakeDigest
      <4>2. f = Digest(data, FALSE) => f.kind = "DIGEST"
        BY DEF Digest
      <4> QED BY <1>2, <4>1, <4>2 DEF Digests
    <3>3. CASE TakeUnexpected
      BY <3>3 DEF TakeUnexpected
    <3> QED BY <1>6, <3>1, <3>2, <3>3
  <2> HIDE DEF f
  <2>3. ReadOnce'
    BY <1>1, <1>3, <2>1, <2>2 DEF Single, ReadOnce, stubVars
  <2>4. DataFirst'
    BY <1>1, <1>3, <2>2 DEF Single, DataFirst
  <2>5. Window'
    BY <1>1, <1>3, <2>1 DEF Single, Window, stubVars, counterVars, Streams
  <2> QED BY <1>4, <2>3, <2>4, <2>5 DEF Single
<1> QED BY <1>5, <1>6

\* The host waits no longer, or sends an ACK again.
LEMMA WaitKeepsSingle ==
  ASSUME Fits, Single, Faults, Timeout \/ RepeatAck
  PROVE  Single'
<1>1. /\ phase \in {"asked", "data", "digest"} /\ phase' \in {phase, "failed"}
      /\ UNCHANGED <<variant, stubVars, toHost>>
  BY DEF Timeout, RepeatAck, HostActs, hostVars
<1>2. Counters'
  BY <1>1 DEF Single, Counters, stubVars, counterVars, Streams
<1>3. CASE Timeout
  <2>1. UNCHANGED <<toStub, repeats>>
    BY <1>3 DEF Timeout
  <2> QED BY <1>1, <1>2, <2>1 DEF Single, ReadOnce, DataFirst, Window, stubVars, counterVars,
             Streams
<1>4. CASE RepeatAck
  <2> DEFINE a == Ack(Len(data))
  <2>1. /\ phase \in {"data", "digest"} /\ phase' = phase
        /\ toStub' = Append(toStub, a) /\ repeats' = repeats + 1
    BY <1>4 DEF RepeatAck, HostSends, hostVars
  <2>2. Len(data) \in Nat /\ toStub \in Seq(FromHost)
    BY LenProperties DEF Fits, Typed
  <2>3. a \in FromHost /\ a \notin Reads
    BY <2>2, FramesAreTyped, MoreKinds
  <2>4. repeats' # 0
    BY <2>1, SMT DEF Faults
  <2> HIDE DEF a
  <2>5. None(toStub, Reads) /\ None(toHost, ReadAnswers)
    BY <2>1 DEF Single, ReadOnce
  <2>6. None(toStub', Reads) /\ One(toStub', Reads) /\ Precedes(toStub', Acks, Reads)
    BY <2>1, <2>2, <2>3, <2>5, FrameAdded, OrderOfQueue
  <2>7. ReadOnce'
    BY <1>1, <2>1, <2>5, <2>6 DEF ReadOnce
  <2>8. DataFirst' /\ Window'
    BY <1>1, <2>1, <2>4 DEF Single, DataFirst, Window
  <2> QED BY <1>2, <2>7, <2>8 DEF Single
<1> QED BY <1>3, <1>4

\* SYNC and its answer, behind which nothing is left.
LEMMA SyncKeepsSingle ==
  ASSUME Fits, Order, Single, SendSync \/ TakeSync \/ SyncTimeout
  PROVE  Single'
<1>1. UNCHANGED <<variant, stubVars, repeats>>
  BY DEF SendSync, TakeSync, SyncTimeout, HostActs, boundVars
<1>2. Counters'
  BY <1>1 DEF Single, Counters, stubVars, counterVars, Streams
<1>3. toStub \in Seq(FromHost) /\ toHost \in Seq(FromStub)
  BY DEF Fits, Typed
<1>4. CASE SendSync
  <2>1. phase = "failed" /\ phase' = "syncing" /\ toHost' = toHost
        /\ toStub' = Append(toStub, Sync)
    BY <1>4 DEF SendSync, HostSends
  <2>2. Sync \in FromHost /\ Sync \notin Reads /\ Sync \notin Acks
    BY FramesAreTyped, Kinds, MoreKinds
  <2>3. /\ None(toStub, Reads) => None(toStub', Reads)
        /\ One(toStub, Reads) => One(toStub', Reads)
        /\ Precedes(toStub, Acks, Reads) => Precedes(toStub', Acks, Reads)
        /\ None(toStub, Acks) => None(toStub', Acks)
        /\ One(toStub, Acks) => One(toStub', Acks)
    BY <1>3, <2>1, <2>2, FrameAdded, OrderOfQueue
  <2>4. ReadOnce' /\ DataFirst'
    BY <1>1, <2>1, <2>3 DEF Single, ReadOnce, DataFirst, stubVars
  <2>5. Window'
    BY <1>1, <2>1, <2>3 DEF Single, Window, stubVars, counterVars, Streams
  <2> QED BY <1>2, <2>4, <2>5 DEF Single
<1>5. CASE SyncTimeout
  <2>1. phase = "syncing" /\ phase' = "failed" /\ UNCHANGED <<toHost, toStub>>
    BY <1>5 DEF SyncTimeout
  <2> QED BY <1>1, <1>2, <2>1 DEF Single, ReadOnce, DataFirst, Window, stubVars, counterVars,
             Streams
<1>6. CASE TakeSync
  <2> DEFINE f == Head(toHost)
  <2>1. /\ phase = "syncing" /\ toHost # <<>> /\ toHost' = Tail(toHost) /\ toStub' = toStub
        /\ phase' \in {"syncing", "failed"}
           \/ (phase' = "synced" /\ f.kind = "RESPONSE" /\ f.cmd = "SYNC")
    <3>1. phase = "syncing" /\ toHost # <<>> /\ toHost' = Tail(toHost) /\ toStub' = toStub
      BY <1>6 DEF TakeSync, Took, Answered
    <3>2. CASE f.kind = "RESPONSE" /\ f.cmd = "SYNC"
      BY <1>6, <3>1, <3>2, Zenon DEF TakeSync
    <3>3. CASE ~(f.kind = "RESPONSE" /\ f.cmd = "SYNC")
      <4>1. UNCHANGED phase
        BY <1>6, <3>3, Zenon DEF TakeSync
      <4> QED BY <3>1, <4>1
    <3> QED BY <3>2, <3>3, Zenon
  <2>2. f \in FromStub
    BY <1>3, <2>1, FrameMoves
  <2>3. phase' = "synced" => f \in SyncAnswers
    BY <2>1, <2>2 DEF SyncAnswers
  <2> HIDE DEF f
  <2>4. phase' = "synced" => toHost' = <<>> /\ toStub' = <<>>
    <3>1. f \in SyncAnswers => toHost' = <<>> /\ ~None(toHost, SyncAnswers)
      BY <1>3, <2>1, HeadLeaves DEF Order, SyncIsFinal, f
    <3> QED BY <2>1, <2>3, <3>1 DEF Order, SyncIsFinal
  <2>5. /\ None(toHost, Datas) => None(toHost', Datas)
        /\ One(toHost, Datas) => One(toHost', Datas)
    BY <1>3, <2>1, HeadLeaves
  <2>6. ReadOnce' /\ DataFirst'
    BY <1>1, <2>1, <2>4, NoneInNothing, OrderInNothing DEF Single, ReadOnce, DataFirst, stubVars
  <2>7. Window'
    BY <1>1, <2>1, <2>5 DEF Single, Window, stubVars, counterVars, Streams
  <2> QED BY <1>2, <2>6, <2>7 DEF Single
<1> QED BY <1>4, <1>5, <1>6

\* The line takes a frame, or puts one of its kind or a damaged one in its place.
LEMMA LineMoves ==
  ASSUME Fits, Line
  PROVE  /\ \/ toStub' = toStub
            \/ toStub # <<>> /\ toStub' = Tail(toStub)
            \/ /\ toStub # <<>>
               /\ \E f \in FromHost : /\ toStub' = <<f>> \o Tail(toStub) /\ f \notin Reads
                                      /\ f \in Acks => Head(toStub) \in Acks
         /\ \/ toHost' = toHost
            \/ toHost # <<>> /\ toHost' = Tail(toHost)
            \/ /\ toHost # <<>> /\ Head(toHost) \in Datas
               /\ \E f \in Datas : toHost' = <<f>> \o Tail(toHost)
<1>1. toStub \in Seq(FromHost) /\ toHost \in Seq(FromStub)
  BY DEF Fits, Typed
<1>2. CASE LoseFrame
  BY <1>2 DEF LoseFrame
<1>3. CASE DamageFrame
  BY <1>3, FramesAreTyped, Kinds, MoreKinds DEF DamageFrame
<1>4. CASE GarbleAck
  <2>1. PICK n \in {0, WRAP} : toStub # <<>> /\ toStub' = <<Ack(n)>> \o Tail(toStub)
                               /\ Head(toStub).kind = "ACK" /\ toHost' = toHost
    BY <1>4 DEF GarbleAck
  <2>2. Ack(n) \in FromHost /\ Ack(n) \notin Reads /\ Head(toStub) \in Acks
    BY <1>1, <2>1, FramesAreTyped, FrameMoves, Kinds, WrapAssumption DEF Acks
  <2> QED BY <2>1, <2>2
<1>5. CASE GarblePacket
  <2> DEFINE d == [Head(toHost).cells EXCEPT ![1] = GARBLED]
  <2>1. /\ toHost # <<>> /\ Head(toHost).kind = "DATA" /\ toStub' = toStub
        /\ toHost' = <<Packet(d)>> \o Tail(toHost)
    BY <1>5 DEF GarblePacket
  <2>2. Head(toHost) \in FromStub
    BY <1>1, <2>1, FrameMoves
  <2>3. d \in Seq(Int)
    BY <2>1, <2>2, FieldsAreTyped, GarbledIsSeq
  <2> HIDE DEF d
  <2>4. Packet(d) \in Datas /\ Head(toHost) \in Datas
    BY <2>1, <2>2, <2>3, MoreKinds DEF Datas
  <2> QED BY <2>1, <2>4
<1> QED BY <1>2, <1>3, <1>4, <1>5 DEF Line

\* A frame replaced by one of the same kind.
LEMMA SameKind ==
  ASSUME NEW S, NEW q \in Seq(S), q # <<>>, NEW F, NEW f \in S, f \in F => Head(q) \in F
  PROVE  /\ None(q, F) => None(<<f>> \o Tail(q), F)
         /\ One(q, F) => One(<<f>> \o Tail(q), F)
<1> DEFINE r == <<f>> \o Tail(q)
           n == Len(q)
<1>1. n \in Nat /\ n > 0 /\ Head(q) = q[1]
  BY EmptySeq, SMT
<1>2. <<f>> \in Seq(S) /\ Len(<<f>>) = 1 /\ <<f>>[1] = f
  BY SMT
<1>3. Tail(q) \in Seq(S) /\ Len(Tail(q)) = n - 1
  BY SMT
<1>4. \A i \in 1..(n - 1) : Tail(q)[i] = q[i + 1]
  BY SMT
<1>5. Len(r) = n /\ \A i \in 1..n : r[i] = IF i =< 1 THEN <<f>>[i] ELSE Tail(q)[i - 1]
  <2>1. 1 + (n - 1) = n
    BY <1>1, SMT
  <2> QED BY <1>2, <1>3, <2>1, ConcatProperties
<1> HIDE DEF r, n
<1>6. ASSUME NEW i \in 1..n PROVE r[i] \in F => q[i] \in F
  <2>1. i =< 1 => i = 1
    BY <1>1, SMT
  <2>2. ~(i =< 1) => i - 1 \in 1..(n - 1) /\ (i - 1) + 1 = i
    BY <1>1, SMT
  <2>3. CASE i =< 1
    BY <1>1, <1>2, <1>5, <2>1, <2>3
  <2>4. CASE ~(i =< 1)
    BY <1>4, <1>5, <2>2, <2>4
  <2> QED BY <2>3, <2>4
<1>7. None(q, F) => None(r, F)
  BY <1>5, <1>6, Zenon DEF None, n
<1>8. One(q, F) => One(r, F)
  BY <1>5, <1>6, Zenon DEF One, n
<1> QED BY <1>7, <1>8 DEF r

\* What the line loses or garbles makes nothing more of anything.
LEMMA LineKeepsSingle ==
  ASSUME Fits, Single, Line
  PROVE  Single'
<1>1. UNCHANGED <<variant, stubVars, hostVars, repeats>>
  BY DEF Line, LineFault, LoseFrame, DamageFrame, GarbleAck, GarblePacket
<1>2. toStub \in Seq(FromHost) /\ toHost \in Seq(FromStub)
  BY DEF Fits, Typed
<1>3. /\ None(toStub, Reads) => None(toStub', Reads)
      /\ One(toStub, Reads) => One(toStub', Reads)
      /\ Precedes(toStub, Acks, Reads) => Precedes(toStub', Acks, Reads)
      /\ None(toStub, Acks) => None(toStub', Acks)
      /\ One(toStub, Acks) => One(toStub', Acks)
  <2>1. CASE toStub' = toStub
    BY <2>1 DEF None, One, Precedes
  <2>2. CASE toStub # <<>> /\ toStub' = Tail(toStub)
    BY <1>2, <2>2, HeadLeaves, OrderOfQueue
  <2>3. ASSUME NEW f \in FromHost, toStub # <<>>, toStub' = <<f>> \o Tail(toStub),
               f \notin Reads, f \in Acks => Head(toStub) \in Acks
        PROVE  <1>3!:
    BY <1>2, <2>3, SameKind, HeadReplaced, OrderOfQueue
  <2> QED BY <2>1, <2>2, <2>3, LineMoves
<1>4. /\ None(toHost, Datas) => None(toHost', Datas)
      /\ One(toHost, Datas) => One(toHost', Datas)
      /\ None(toHost, ReadAnswers) => None(toHost', ReadAnswers)
      /\ One(toHost, ReadAnswers) => One(toHost', ReadAnswers)
      /\ Precedes(toHost, Datas, Digests) => Precedes(toHost', Datas, Digests)
  <2>1. CASE toHost' = toHost
    BY <2>1 DEF None, One, Precedes
  <2>2. CASE toHost # <<>> /\ toHost' = Tail(toHost)
    BY <1>2, <2>2, HeadLeaves, OrderOfQueue
  <2>3. ASSUME NEW f \in Datas, toHost # <<>>, toHost' = <<f>> \o Tail(toHost),
               Head(toHost) \in Datas
        PROVE  <1>4!:
    <3>1. f \in FromStub /\ f \notin ReadAnswers /\ f \notin Digests
      BY MoreKinds DEF Datas
    <3> QED BY <1>2, <2>3, <3>1, SameKind, HeadReplaced, OrderOfQueue
  <2> QED BY <2>1, <2>2, <2>3, LineMoves
<1>5. ReadOnce' /\ DataFirst'
  BY <1>1, <1>3, <1>4 DEF Single, ReadOnce, DataFirst, stubVars, hostVars
<1>6. Counters'
  BY <1>1 DEF Single, Counters, stubVars, counterVars, Streams
<1>7. Window'
  BY <1>1, <1>3, <1>4 DEF Single, Window, stubVars, counterVars, Streams
<1> QED BY <1>5, <1>6, <1>7 DEF Single

\* Nothing that went wrong is forgotten.
LEMMA FaultsGrow ==
  ASSUME [Next]_vars
  PROVE  /\ chipFaults' \in {chipFaults, chipFaults + 1}
         /\ lineFaults' \in {lineFaults, lineFaults + 1}
         /\ early' \in {early, early + 1} /\ repeats' \in {repeats, repeats + 1}
<1>1. CASE Stub
  BY <1>1 DEF Stub, DropDamaged, RefuseAck, HandleCommand, StubIdle, StartRefused, Start,
     PollNothing, PollAck, PollOther, Wait, SendPacket, ReadFails, FillPage, FillFails,
     SendFilled, SendDigest, Send, ChipFault, Streaming, boundVars
<1>2. CASE Host \/ Ask \/ RepeatAck
  BY <1>2 DEF Host, TakeResponse, TakePacket, TakeDigest, TakeUnexpected, Timeout, SendSync,
     TakeSync, SyncTimeout, Ask, RepeatAck, boundVars
<1>3. CASE Line
  BY <1>3 DEF Line, LineFault, LoseFrame, DamageFrame, GarbleAck, GarblePacket
<1>4. CASE UNCHANGED vars
  BY <1>4 DEF vars, boundVars
<1> QED BY <1>1, <1>2, <1>3, <1>4 DEF Next

\* Every step keeps one packet under way.
LEMMA SingleStep ==
  ASSUME IInv, Single, Faults, [Next]_vars
  PROVE  Single' /\ Faults'
<1>1. Fits /\ Order
  BY DEF IInv, Sent
<1>2. Faults'
  <2>1. \A n \in Nat : n + 1 \in Nat
    BY SMT
  <2> QED BY <2>1, FaultsGrow, Zenon DEF Faults
<1>3. CASE UNCHANGED vars
  <2>1. ReadOnce' /\ DataFirst'
    BY <1>3 DEF Single, ReadOnce, DataFirst, vars, stubVars, hostVars
  <2>2. Counters'
    BY <1>3 DEF Single, Counters, Streams, vars, stubVars, counterVars
  <2>3. Window'
    BY <1>3 DEF Single, Window, Streams, vars, stubVars, counterVars, boundVars
  <2> QED BY <1>2, <2>1, <2>2, <2>3 DEF Single
<1>4. CASE Stub
  <2>1. CASE DropDamaged \/ RefuseAck \/ HandleCommand
    BY <1>1, <1>2, <2>1, IdleKeepsSingle
  <2>2. CASE SendPacket \/ SendFilled
    BY <1>1, <1>2, <2>2, SendKeepsSingle
  <2>3. CASE SendDigest
    BY <1>1, <1>2, <2>3, DigestKeepsSingle
  <2>4. CASE \/ StartRefused \/ Start \/ PollNothing \/ PollAck \/ PollOther \/ Wait
             \/ ReadFails \/ FillPage \/ FillFails
    BY <1>1, <1>2, <2>4, PollKeepsSingle
  <2> QED BY <1>4, <2>1, <2>2, <2>3, <2>4 DEF Stub
<1>5. CASE Host \/ Ask \/ RepeatAck \/ Line
  BY <1>1, <1>2, <1>5, AskKeepsSingle, TakeKeepsSingle, WaitKeepsSingle, SyncKeepsSingle,
     LineKeepsSingle DEF Host
<1> QED BY <1>2, <1>3, <1>4, <1>5 DEF Next

\* There is none at first.
LEMMA SingleAtFirst == Init => Single /\ Faults
<1> SUFFICES ASSUME Init PROVE Single /\ Faults
  OBVIOUS
<1>1. 0 \in 0..(WRAP - 1) /\ 0 \in Nat /\ 0 =< 0 /\ 0 =< 0 + 1
  BY WrapAssumption, SMT
<1>2. /\ toStub = <<>> /\ toHost = <<>> /\ pc = "idle" /\ phase = "idle"
      /\ sent_packets = 0 /\ acked_packets = 0 /\ variant \in {"base", "nand"} /\ Faults
  BY <1>1 DEF Init, Faults
<1>3. Counters
  BY <1>1, <1>2 DEF Counters, Streams
<1> QED BY <1>2, <1>3, NoneInNothing, OrderInNothing DEF Single, ReadOnce, DataFirst, Window,
           Streams

\* Without an ACK sent twice at most one packet is on its way or waits for its ACK,
\* whatever the line loses or garbles and however often the counters wrap.
THEOREM OnePacketAtATime == Spec => []OneAtATime
<1> DEFINE Inv == IInv /\ Single /\ Faults
<1>1. Inv => OneAtATime
  <2> SUFFICES ASSUME Inv, repeats = 0
               PROVE  /\ \A i, j \in 1..Len(toHost) :
                           IsData(toHost[i]) /\ IsData(toHost[j]) => i = j
                      /\ \/ sent_packets = acked_packets
                         \/ sent_packets = (acked_packets + 1) % WRAP
    BY DEF OneAtATime
  <2>1. One(toHost, Datas) /\ toHost \in Seq(FromStub)
    BY DEF Single, Window, IInv, Sent, Fits, Typed
  <2>2. \A i \in 1..Len(toHost) : IsData(toHost[i]) => toHost[i] \in Datas
    BY <2>1, ElementOfSeq DEF IsData, Datas
  <2> QED BY <2>1, <2>2 DEF One, Single, Window
<1>2. Inv /\ [Next]_vars => Inv'
  BY Inductive, SingleStep
<1>3. Init => Inv
  BY AtFirst, SingleAtFirst
<1> HIDE DEF Inv
<1> QED BY <1>1, <1>2, <1>3, PTL DEF Spec

-----------------------------------------------------------------------------
(* Nobody waits in vain.                                                       *)

\* What SilenceHasCause calls a cause.
Excused ==
  \/ lineFaults > 0 \/ early > 0
  \/ /\ variant = "base"
     /\ chipFaults > 0 \/ repeats > 0 \/ want.packet \notin 1..MAX_PACKET

Waits == phase \in {"asked", "data", "digest"}

Grants == {f \in ReadAnswers : f.result = "SUCCESS"}

\* Every frame of F has one of A ahead of it.
Preceded(q, F, A) == \A i \in 1..Len(q) : q[i] \in F => \E j \in 1..(i - 1) : q[j] \in A

\* From a on, the cells of the packets of q make b.
Carried(f) == IF f.kind = "DATA" THEN Len(f.cells) ELSE 0
Adds(q, a, b) ==
  \E e \in [0..Len(q) -> Nat] :
    e[0] = a /\ e[Len(q)] = b /\ \A i \in 1..Len(q) : e[i] = e[i - 1] + Carried(q[i])

\* The host is answered, and what comes of its read comes after the answer.
AnswerComes ==
  phase = "asked" =>
    /\ data = <<>> /\ Final(toStub, Reads)
    /\ ~None(toStub, Reads) \/ ~None(toHost, ReadAnswers)
    /\ Preceded(toHost, Datas \cup Digests, ReadAnswers)

\* A read that was granted is being served or its digest is on its way.
DigestComes ==
  phase \in {"data", "digest"} \/ ~None(toHost, Grants) => pc # "idle" \/ ~None(toHost, Digests)

\* When the stream starts nothing has been sent either way.
Fresh == pc = "start" => toStub = <<>> /\ data = <<>> /\ None(toHost, Datas)

\* The last ACK on its way, or else the last that was taken, tells what the host has.
AckTells ==
  IF toStub = <<>> THEN acked_data_size = Len(data)
                   ELSE toStub[Len(toStub)] = Ack(Len(data))

\* What was not acknowledged is on its way, or its ACK is; what the host has and
\* what is on its way to it are all that was sent.
Flows ==
  pc \in {"poll", "send"} =>
    /\ sent_packets # acked_packets => ~None(toHost, Datas) \/ ~None(toStub, Acks)
    /\ Adds(toHost, Len(data), params.size - read_size_remaining)
    /\ AckTells

Served == AnswerComes /\ DigestComes /\ Fresh /\ Flows

Underway == Excused \/ (Waits => Served)

\* What there is some of stays when something else leaves or is added.
LEMMA SomeStays ==
  ASSUME NEW S, NEW q \in Seq(S), NEW F
  PROVE  /\ \A f \in S : ~None(q, F) \/ f \in F => ~None(Append(q, f), F)
         /\ q # <<>> /\ Head(q) \notin F /\ ~None(q, F) => ~None(Tail(q), F)
<1> DEFINE n == Len(q)
<1>1. n \in Nat
  BY EmptySeq, SMT
<1>2. ASSUME NEW f \in S, ~None(q, F) \/ f \in F PROVE ~None(Append(q, f), F)
  <2> DEFINE r == Append(q, f)
  <2>1. Len(r) = n + 1 /\ r[n + 1] = f
    BY SMT
  <2>2. \A i \in 1..n : r[i] = q[i]
    BY SMT
  <2> HIDE DEF r, n
  <2>3. n + 1 \in 1..(n + 1) /\ \A i \in 1..n : i \in 1..(n + 1)
    BY <1>1, SMT
  <2> QED BY <1>2, <2>1, <2>2, <2>3, Zenon DEF None, n, r
<1>3. ASSUME q # <<>>, Head(q) \notin F, ~None(q, F) PROVE ~None(Tail(q), F)
  <2> DEFINE t == Tail(q)
  <2>1. Len(t) = n - 1 /\ Head(q) = q[1]
    BY <1>3, SMT
  <2>2. \A i \in 1..(n - 1) : t[i] = q[i + 1]
    BY <1>3, SMT
  <2>3. PICK i \in 1..n : q[i] \in F
    BY <1>3 DEF None
  <2>4. i # 1
    BY <1>3, <2>1, <2>3
  <2> HIDE DEF t, n
  <2>5. i - 1 \in 1..(n - 1) /\ (i - 1) + 1 = i
    BY <1>1, <2>4, SMT
  <2>6. t[i - 1] \in F
    BY <2>2, <2>3, <2>5
  <2> QED BY <2>1, <2>5, <2>6 DEF None, t
<1> QED BY <1>2, <1>3

\* What stays ahead of its kind when a frame is added or leaves.
LEMMA PrecededMoves ==
  ASSUME NEW S, NEW q \in Seq(S), NEW F, NEW A
  PROVE  /\ \A f \in S : Preceded(q, F, A) /\ (f \notin F \/ ~None(q, A)) =>
              Preceded(Append(q, f), F, A)
         /\ q # <<>> /\ Preceded(q, F, A) =>
              Head(q) \notin F /\ (Head(q) \notin A => Preceded(Tail(q), F, A))
         /\ Preceded(q, F, A) /\ None(q, A) => None(q, F)
         /\ None(q, F) => Preceded(q, F, A)
<1> DEFINE n == Len(q)
<1>1. n \in Nat
  BY EmptySeq, SMT
<1>2. ASSUME NEW f \in S, Preceded(q, F, A), f \notin F \/ ~None(q, A)
      PROVE  Preceded(Append(q, f), F, A)
  <2> DEFINE r == Append(q, f)
  <2>1. Len(r) = n + 1 /\ r[n + 1] = f
    BY SMT
  <2>2. \A i \in 1..n : r[i] = q[i]
    BY SMT
  <2> HIDE DEF r, n
  <2>3. ASSUME NEW i \in 1..(n + 1), r[i] \in F PROVE \E j \in 1..(i - 1) : r[j] \in A
    <3>1. CASE i = n + 1
      <4>1. PICK j \in 1..n : q[j] \in A
        BY <1>2, <2>1, <2>3, <3>1 DEF None, n
      <4>2. j \in 1..(i - 1)
        BY <1>1, <3>1, SMT
      <4> QED BY <2>2, <4>1, <4>2
    <3>2. CASE i # n + 1
      <4>1. i \in 1..n
        BY <1>1, <3>2, SMT
      <4>2. PICK j \in 1..(i - 1) : q[j] \in A
        BY <1>2, <2>2, <2>3, <4>1 DEF Preceded, n
      <4>3. j \in 1..n
        BY <1>1, <4>1, SMT
      <4> QED BY <2>2, <4>2, <4>3
    <3> QED BY <3>1, <3>2
  <2> QED BY <2>1, <2>3 DEF Preceded, r
<1>3. ASSUME q # <<>>, Preceded(q, F, A)
      PROVE  Head(q) \notin F /\ (Head(q) \notin A => Preceded(Tail(q), F, A))
  <2> DEFINE t == Tail(q)
  <2>1. Len(t) = n - 1 /\ Head(q) = q[1] /\ n > 0
    BY <1>3, EmptySeq, SMT
  <2>2. \A i \in 1..(n - 1) : t[i] = q[i + 1]
    BY <1>3, SMT
  <2> HIDE DEF t, n
  <2>3. 1 \in 1..n /\ 1..(1 - 1) = {}
    BY <1>1, <2>1, SMT
  <2>4. Head(q) \notin F
    BY <1>3, <2>1, <2>3 DEF Preceded, n
  <2>5. ASSUME Head(q) \notin A, NEW i \in 1..(n - 1), t[i] \in F
        PROVE  \E j \in 1..(i - 1) : t[j] \in A
    <3>1. i + 1 \in 1..n /\ (i + 1) - 1 = i
      BY <1>1, SMT
    <3>2. PICK j \in 1..i : q[j] \in A
      BY <1>3, <2>2, <2>5, <3>1 DEF Preceded, n
    <3>3. j # 1
      BY <2>1, <2>5, <3>2
    <3>4. j - 1 \in 1..(i - 1) /\ j - 1 \in 1..(n - 1) /\ (j - 1) + 1 = j
      BY <1>1, <3>3, SMT
    <3>5. t[j - 1] \in A
      BY <2>2, <3>2, <3>4
    <3> QED BY <3>4, <3>5
  <2> QED BY <2>1, <2>4, <2>5 DEF Preceded, t
<1>4. ASSUME Preceded(q, F, A), None(q, A) PROVE None(q, F)
  <2> SUFFICES ASSUME NEW i \in 1..n, q[i] \in F PROVE FALSE
    BY DEF None
  <2>1. PICK j \in 1..(i - 1) : q[j] \in A
    BY <1>4 DEF Preceded
  <2>2. j \in 1..n
    BY <1>1, SMT
  <2> QED BY <1>4, <2>1, <2>2 DEF None
<1> QED BY <1>2, <1>3, <1>4 DEF None, Preceded

\* The last frame is the last until none is left.
LEMMA LastStays ==
  ASSUME NEW S, NEW q \in Seq(S), q # <<>>
  PROVE  /\ Tail(q) = <<>> => q[Len(q)] = Head(q)
         /\ Tail(q) # <<>> => Tail(q)[Len(Tail(q))] = q[Len(q)]
<1> DEFINE n == Len(q)
           t == Tail(q)
<1>1. n \in Nat /\ n > 0 /\ Head(q) = q[1]
  BY EmptySeq, SMT
<1>2. t \in Seq(S) /\ Len(t) = n - 1
  BY SMT
<1>3. \A i \in 1..(n - 1) : t[i] = q[i + 1]
  BY SMT
<1> HIDE DEF t, n
<1>4. CASE n = 1
  <2>1. t = <<>>
    BY <1>2, <1>4, EmptySeq, SMT
  <2> QED BY <1>1, <1>4, <2>1 DEF t, n
<1>5. CASE n # 1
  <2>1. Len(t) \in 1..(n - 1) /\ Len(t) + 1 = n
    BY <1>1, <1>2, <1>5, SMT
  <2>2. t # <<>>
    BY <1>1, <1>2, <1>5, EmptySeq, SMT
  <2> QED BY <1>3, <2>1, <2>2 DEF t, n
<1> QED BY <1>4, <1>5

\* How the sum of the packets changes when one is added or leaves.
LEMMA SumOfPackets ==
  ASSUME NEW q \in Seq(FromStub), NEW a \in Nat, NEW b
  PROVE  /\ None(q, Datas) => Adds(q, a, a)
         /\ q = <<>> /\ Adds(q, a, b) => a = b
         /\ \A f \in FromStub : Adds(q, a, b) => Adds(Append(q, f), a, b + Carried(f))
         /\ q # <<>> /\ Adds(q, a, b) => Adds(Tail(q), a + Carried(Head(q)), b)
<1> DEFINE n == Len(q)
<1>1. n \in Nat /\ \A i \in 1..n : q[i] \in FromStub
  BY EmptySeq, SMT
<1>2. \A f \in FromStub : Carried(f) \in Nat /\ (f \notin Datas => Carried(f) = 0)
  <2> TAKE f \in FromStub
  <2>1. f.kind = "DATA" => f \in Datas /\ Len(f.cells) \in Nat
    BY FieldsAreTyped, LenProperties DEF Datas
  <2> QED BY <2>1 DEF Carried
<1>3. ASSUME None(q, Datas) PROVE Adds(q, a, a)
  <2> DEFINE e == [i \in 0..n |-> a]
  <2>1. e \in [0..n -> Nat] /\ \A i \in 0..n : e[i] = a
    OBVIOUS
  <2>2. 0 \in 0..n /\ n \in 0..n /\ \A i \in 1..n : i \in 0..n /\ i - 1 \in 0..n
    BY <1>1, SMT
  <2>3. \A i \in 1..n : Carried(q[i]) = 0
    BY <1>1, <1>2, <1>3 DEF None
  <2> HIDE DEF e, n
  <2>4. \A i \in 1..n : e[i] = e[i - 1] + Carried(q[i])
    <3> TAKE i \in 1..n
    <3>1. e[i] = a /\ e[i - 1] = a /\ Carried(q[i]) = 0
      BY <2>1, <2>2, <2>3
    <3> QED BY <3>1, SMT
  <2> QED BY <2>1, <2>2, <2>4 DEF Adds, n
<1>4. ASSUME q = <<>>, Adds(q, a, b) PROVE a = b
  <2>1. Len(q) = 0
    BY <1>4, EmptySeq
  <2> QED BY <1>4, <2>1 DEF Adds
<1>5. ASSUME NEW f \in FromStub, Adds(q, a, b) PROVE Adds(Append(q, f), a, b + Carried(f))
  <2> DEFINE r == Append(q, f)
             c == Carried(f)
  <2>1. PICK e \in [0..n -> Nat] : /\ e[0] = a /\ e[n] = b
                                   /\ \A i \in 1..n : e[i] = e[i - 1] + Carried(q[i])
    BY <1>5 DEF Adds
  <2>2. Len(r) = n + 1 /\ r[n + 1] = f
    BY SMT
  <2>3. \A i \in 1..n : r[i] = q[i]
    BY SMT
  <2>4. c \in Nat
    BY <1>2
  <2> DEFINE d == [i \in 0..(n + 1) |-> IF i = n + 1 THEN b + c ELSE e[i]]
  <2> HIDE DEF n, r, c
  <2>5. b \in Nat
    <3>1. n \in 0..n
      BY <1>1, SMT
    <3> QED BY <2>1, <3>1
  <2>6. \A i \in 0..(n + 1) : i # n + 1 => i \in 0..n
    BY <1>1, SMT
  <2>7. d \in [0..(n + 1) -> Nat]
    <3>1. b + c \in Nat
      BY <2>4, <2>5, SMT
    <3>2. \A i \in 0..(n + 1) : (IF i = n + 1 THEN b + c ELSE e[i]) \in Nat
      BY <2>1, <2>6, <3>1
    <3> QED BY <3>2
  <2>8. 0 \in 0..(n + 1) /\ n + 1 \in 0..(n + 1) /\ 0 # n + 1
    BY <1>1, SMT
  <2>9. d[0] = a /\ d[n + 1] = b + c
    BY <2>1, <2>8
  <2>10. ASSUME NEW i \in 1..(n + 1) PROVE d[i] = d[i - 1] + Carried(r[i])
    <3>1. i \in 0..(n + 1) /\ i - 1 \in 0..(n + 1) /\ i - 1 # n + 1
      BY <1>1, SMT
    <3>2. d[i - 1] = e[i - 1]
      BY <3>1
    <3>3. CASE i = n + 1
      <4>1. d[i] = b + c /\ i - 1 = n
        BY <1>1, <3>1, <3>3, SMT
      <4> QED BY <2>1, <2>2, <3>2, <3>3, <4>1 DEF c
    <3>4. CASE i # n + 1
      <4>1. i \in 1..n
        BY <1>1, <3>4, SMT
      <4>2. d[i] = e[i]
        BY <3>1, <3>4
      <4> QED BY <2>1, <2>3, <3>2, <4>1, <4>2
    <3> QED BY <3>3, <3>4
  <2> HIDE DEF d
  <2> QED BY <2>2, <2>7, <2>9, <2>10 DEF Adds, r, c
<1>6. ASSUME q # <<>>, Adds(q, a, b) PROVE Adds(Tail(q), a + Carried(Head(q)), b)
  <2> DEFINE t == Tail(q)
             c == Carried(Head(q))
  <2>1. PICK e \in [0..n -> Nat] : /\ e[0] = a /\ e[n] = b
                                   /\ \A i \in 1..n : e[i] = e[i - 1] + Carried(q[i])
    BY <1>6 DEF Adds
  <2>2. Len(t) = n - 1 /\ Head(q) = q[1] /\ n > 0
    BY <1>6, EmptySeq, SMT
  <2>3. \A i \in 1..(n - 1) : t[i] = q[i + 1]
    BY <1>6, SMT
  <2> DEFINE d == [i \in 0..(n - 1) |-> e[i + 1]]
  <2> HIDE DEF n, t
  <2>4. \A i \in 0..(n - 1) : i + 1 \in 0..n
    BY <1>1, SMT
  <2>5. d \in [0..(n - 1) -> Nat] /\ \A i \in 0..(n - 1) : d[i] = e[i + 1]
    BY <2>1, <2>4
  <2> HIDE DEF d
  <2>6. d[0] = a + c
    <3>1. 0 \in 0..(n - 1) /\ 0 + 1 = 1 /\ 1 \in 1..n /\ 1 - 1 = 0
      BY <1>1, <2>2, SMT
    <3> QED BY <2>1, <2>2, <2>5, <3>1
  <2>7. d[n - 1] = b
    <3>1. n - 1 \in 0..(n - 1) /\ (n - 1) + 1 = n
      BY <1>1, <2>2, SMT
    <3> QED BY <2>1, <2>5, <3>1
  <2>8. ASSUME NEW i \in 1..(n - 1) PROVE d[i] = d[i - 1] + Carried(t[i])
    <3>1. /\ i \in 0..(n - 1) /\ i - 1 \in 0..(n - 1) /\ (i - 1) + 1 = i
          /\ i + 1 \in 1..n /\ (i + 1) - 1 = i
      BY <1>1, SMT
    <3> QED BY <2>1, <2>3, <2>5, <3>1
  <2> QED BY <2>2, <2>5, <2>6, <2>7, <2>8 DEF Adds, t
<1> QED BY <1>3, <1>4, <1>5, <1>6

\* The stub takes a frame between two commands; if it is the read, it answers.
LEMMA IdleKeepsServed ==
  ASSUME Fits, Order, Single, Waits, Served, DropDamaged \/ RefuseAck \/ HandleCommand
  PROVE  Served'
<1> DEFINE f == Head(toStub)
<1>1. /\ pc = "idle" /\ toStub # <<>> /\ toStub' = Tail(toStub) /\ f \in FromHost
      /\ UNCHANGED <<phase, want, data>>
      /\ \/ toHost' = toHost /\ f \notin Reads /\ pc' = "idle"
         \/ \E r \in Result, c \in {"ACK", "SYNC", "READ"} :
              /\ c = f.kind /\ toHost' = Append(toHost, Response(c, r))
              /\ \/ pc' = "idle" /\ (c = "READ" => r # "SUCCESS")
                 \/ /\ f \in Reads /\ pc' = "start"
  BY IdleTakes
<1>2. toStub \in Seq(FromHost) /\ toHost \in Seq(FromStub)
  BY DEF Fits, Typed
<1>3. f \in Reads <=> f.kind = "READ"
  BY <1>1 DEF Reads
<1> HIDE DEF f
<1>4. /\ Final(toStub, Reads) => Final(toStub', Reads)
      /\ Final(toStub, Reads) /\ f \in Reads => toStub' = <<>>
      /\ f \notin Reads /\ ~None(toStub, Reads) => ~None(toStub', Reads)
      /\ None(toStub, Reads) => f \notin Reads
  BY <1>1, <1>2, HeadLeaves, SomeStays DEF f
<1>5. /\ ~None(toHost, ReadAnswers) \/ f \in Reads => ~None(toHost', ReadAnswers)
      /\ ~None(toHost, Digests) => ~None(toHost', Digests)
      /\ ~None(toHost', Grants) => ~None(toHost, Grants) \/ pc' = "start"
      /\ None(toHost, Datas) => None(toHost', Datas)
      /\ Preceded(toHost, Datas \cup Digests, ReadAnswers) =>
           Preceded(toHost', Datas \cup Digests, ReadAnswers)
      /\ pc' = "idle" \/ (f \in Reads /\ pc' = "start")
  <2>1. CASE toHost' = toHost /\ f \notin Reads /\ pc' = "idle"
    BY <2>1 DEF None, Preceded
  <2>2. ASSUME NEW r \in Result, NEW c \in {"ACK", "SYNC", "READ"},
               c = f.kind, toHost' = Append(toHost, Response(c, r)),
               \/ pc' = "idle" /\ (c = "READ" => r # "SUCCESS")
               \/ f \in Reads /\ pc' = "start"
        PROVE  <1>5!:
    <3> DEFINE s == Response(c, r)
    <3>1. s \in FromStub /\ s \notin Datas /\ s \notin Digests
      BY FramesAreTyped, MoreKinds, Kinds
    <3>2. f \in Reads => s \in ReadAnswers
      BY <1>3, <2>2, <3>1 DEF ReadAnswers, Response
    <3>3. s \in Grants => pc' = "start"
      BY <2>2 DEF Grants, ReadAnswers, Response
    <3> HIDE DEF s
    <3>4. toHost' = Append(toHost, s)
      BY <2>2 DEF s
    <3>5. /\ None(toHost, Datas) => None(toHost', Datas)
          /\ None(toHost, Grants) /\ s \notin Grants => None(toHost', Grants)
      BY <1>2, <3>1, <3>4, FrameAdded
    <3>6. /\ ~None(toHost, ReadAnswers) \/ s \in ReadAnswers => ~None(toHost', ReadAnswers)
          /\ ~None(toHost, Digests) => ~None(toHost', Digests)
      BY <1>2, <3>1, <3>4, SomeStays
    <3>7. s \notin Datas \cup Digests
      BY <3>1
    <3>8. Preceded(toHost, Datas \cup Digests, ReadAnswers) =>
            Preceded(toHost', Datas \cup Digests, ReadAnswers)
      BY <1>2, <3>1, <3>4, <3>7, PrecededMoves, Zenon
    <3> QED BY <2>2, <3>2, <3>3, <3>5, <3>6, <3>8
  <2> QED BY <1>1, <2>1, <2>2
<1>6. phase \in {"data", "digest"} => None(toStub, Reads)
  BY DEF Single, ReadOnce
<1>7. AnswerComes'
  BY <1>1, <1>4, <1>5 DEF Served, AnswerComes
<1>8. DigestComes'
  BY <1>1, <1>4, <1>5, <1>6 DEF Served, DigestComes
<1>9. Fresh'
  <2> SUFFICES ASSUME pc' = "start" PROVE Fresh'
    BY DEF Fresh
  <2>1. f \in Reads /\ ~None(toStub, Reads)
    BY <1>4, <1>5
  <2>2. phase = "asked"
    BY <1>6, <2>1 DEF Waits
  <2>3. data = <<>> /\ toStub' = <<>>
    BY <1>4, <2>1, <2>2 DEF Served, AnswerComes
  <2>4. None(toHost, ReadAnswers)
    BY <2>1, <2>2 DEF Single, ReadOnce
  <2>5. None(toHost, Datas \cup Digests)
    BY <1>2, <2>2, <2>4, PrecededMoves DEF Served, AnswerComes
  <2>6. None(toHost, Datas)
    BY <2>5 DEF None
  <2> QED BY <1>1, <1>5, <2>3, <2>6 DEF Fresh
<1>10. Flows'
  BY <1>5 DEF Flows
<1> QED BY <1>7, <1>8, <1>9, <1>10 DEF Served

\* The packets are of a size that fits and is not zero.
LEMMA PacketIsServed ==
  ASSUME Fits, Order, Single, Waits, ~Excused, pc # "idle"
  PROVE  params = want /\ params.packet > 0 /\ params.packet =< MAX_PACKET
<1>1. params = want
  BY DEF Order, ReadIsMine, Waits
<1>2. CASE variant = "base"
  <2>1. want.packet \in 1..MAX_PACKET
    BY <1>2 DEF Excused
  <2>2. MAX_PACKET \in Nat
    BY WordAssumption
  <2> QED BY <1>1, <2>1, <2>2, SMT
<1>3. CASE variant = "nand"
  BY <1>1, <1>3 DEF Single, Counters
<1> QED BY <1>2, <1>3 DEF Single, Counters

\* An ACK taken is the one that was missing.
LEMMA AckCatchesUp ==
  ASSUME Fits, Single, Faults, ~Excused, PollAck
  PROVE  acked_packets' = sent_packets
<1>0. /\ sent_packets \in 0..(WRAP - 1) /\ acked_packets \in 0..(WRAP - 1)
      /\ WRAP \in Nat /\ WRAP > 1 /\ variant \in {"base", "nand"}
  BY WrapAssumption DEF Single, Counters
<1>1. /\ Streams /\ toStub # <<>> /\ Head(toStub).kind = "ACK"
      /\ acked_packets' = IF AckCounts THEN (acked_packets + 1) % WRAP ELSE acked_packets
  BY DEF PollAck, Streams, Received
<1>2. CASE variant = "base"
  <2>1. toStub \in Seq(FromHost) /\ Head(toStub) \in FromHost
    BY <1>1, FrameMoves DEF Fits, Typed
  <2>2. ~None(toStub, Acks)
    BY <1>1, <2>1, HeadLeaves DEF Acks
  <2>3. repeats = 0
    BY <1>2, SMT DEF Excused, Faults
  <2>4. sent_packets = (acked_packets + 1) % WRAP
    BY <1>1, <2>2, <2>3 DEF Single, Window
  <2> QED BY <1>1, <1>2, <2>4 DEF AckCounts
<1>3. CASE variant = "nand"
  <2>1. acked_packets =< sent_packets /\ sent_packets =< acked_packets + 1
    BY <1>3 DEF Single, Counters
  <2>2. CASE acked_packets < sent_packets
    <3>1. AckCounts
      BY <2>2 DEF AckCounts
    <3>2. acked_packets + 1 = sent_packets /\ acked_packets + 1 \in 0..(WRAP - 1)
      BY <1>0, <2>1, <2>2, SMT
    <3>3. (acked_packets + 1) % WRAP = acked_packets + 1
      BY <1>0, <3>2, SMT
    <3> QED BY <1>1, <3>1, <3>2, <3>3
  <2>3. CASE ~(acked_packets < sent_packets)
    <3>1. ~AckCounts
      BY <1>3, <2>3 DEF AckCounts
    <3>2. acked_packets = sent_packets
      BY <1>0, <2>1, <2>3, SMT
    <3> QED BY <1>1, <3>1, <3>2
  <2> QED BY <2>2, <2>3
<1> QED BY <1>0, <1>2, <1>3

\* What is served stays so while the stub takes no read and sends nothing.
LEMMA StreamFrame ==
  ASSUME Fits, Single, Waits, Served, pc # "idle", pc' # "idle", pc' # "start",
         toHost' = toHost, UNCHANGED <<phase, data>>,
         toStub' = toStub \/ (toStub # <<>> /\ toStub' = Tail(toStub)), Flows'
  PROVE  Served'
<1>1. toStub \in Seq(FromHost)
  BY DEF Fits, Typed
<1>2. Final(toStub, Reads) => Final(toStub', Reads)
  <2>1. CASE toStub' = toStub
    BY <2>1 DEF Final
  <2>2. CASE toStub # <<>> /\ toStub' = Tail(toStub)
    BY <1>1, <2>2, HeadLeaves
  <2> QED BY <2>1, <2>2
<1>3. None(toStub, Reads)
  BY DEF Single, ReadOnce
<1>4. AnswerComes'
  BY <1>2, <1>3 DEF Served, AnswerComes
<1>5. DigestComes' /\ Fresh'
  BY DEF DigestComes, Fresh
<1> QED BY <1>4, <1>5 DEF Served

\* The steps of the stream that send nothing keep the host served.
LEMMA PollKeepsServed ==
  ASSUME Fits, Order, Single, Faults, Waits, Served, ~Excused, ~Excused',
         \/ StartRefused \/ Start \/ PollNothing \/ PollAck \/ PollOther \/ Wait
         \/ ReadFails \/ FillPage \/ FillFails
  PROVE  Served'
<1>1. toStub \in Seq(FromHost) /\ toHost \in Seq(FromStub)
  BY DEF Fits, Typed
<1>2. /\ toHost' = toHost /\ pc # "idle"
      /\ UNCHANGED <<params, phase, data>>
  <2>1. CASE StartRefused \/ Start \/ Wait \/ ReadFails \/ FillPage \/ FillFails
    BY <2>1 DEF StartRefused, Start, Wait, ReadFails, FillPage, FillFails, Streaming, hostVars,
       Filling
  <2>2. CASE PollNothing \/ PollAck \/ PollOther
    BY <2>2 DEF PollNothing, PollAck, PollOther, Streaming, hostVars
  <2> QED BY <2>1, <2>2
<1>3. CASE StartRefused
  <2>1. params.packet =< MAX_PACKET /\ params.packet > MAX_PACKET
    BY <1>2, <1>3, PacketIsServed DEF StartRefused, TooLong
  <2>2. params.packet \in Nat /\ MAX_PACKET \in Nat
    BY StreamNumbers DEF Fits
  <2> QED BY <2>1, <2>2, SMT
<1>4. CASE ReadFails
  <2>1. variant' = "base" /\ chipFaults' = chipFaults + 1
    BY <1>4 DEF ReadFails, ChipFault
  <2>2. chipFaults' > 0
    BY <2>1, SMT DEF Faults
  <2> QED BY <2>1, <2>2 DEF Excused
<1>5. CASE PollOther
  <2>1. toStub # <<>> /\ Head(toStub).kind \in {"SYNC", "READ"}
    BY <1>5 DEF PollOther, Received
  <2>2. Head(toStub) \in FromHost
    BY <1>1, <2>1, FrameMoves
  <2>3. Head(toStub) \in Syncs \cup Reads
    BY <2>1, <2>2 DEF Syncs, Reads
  <2>4. None(toStub, Reads) /\ None(toStub, Syncs)
    BY <1>2 DEF Single, ReadOnce, Order, SyncIsFinal, Waits
  <2> QED BY <1>1, <2>1, <2>3, <2>4, HeadLeaves
<1>6. CASE Wait \/ FillPage \/ FillFails
  <2>1. /\ UNCHANGED <<toStub, sent_packets, acked_packets, acked_data_size,
                       read_size_remaining>>
        /\ pc = "send" /\ pc' \in {"poll", "send", "digest"}
    <3>1. CASE Wait
      BY <3>1 DEF Wait, LoopOrDigest, counterVars
    <3>2. CASE FillPage \/ FillFails
      BY <3>2 DEF FillPage, FillFails, Filling, MarkFailed
    <3> QED BY <1>6, <3>1, <3>2
  <2>2. Flows'
    BY <1>2, <2>1 DEF Served, Flows, AckTells
  <2> QED BY <1>2, <2>1, <2>2, StreamFrame
<1>7. CASE Start
  <2>1. /\ sent_packets' = 0 /\ acked_packets' = 0 /\ acked_data_size' = 0
        /\ read_size_remaining' = params.size
        /\ pc = "start" /\ pc' \in {"poll", "digest"} /\ toStub' = toStub
    BY <1>7 DEF Start
  <2>2. toStub = <<>> /\ data = <<>> /\ None(toHost, Datas) /\ Len(data) = 0
    BY <2>1, EmptySeq DEF Served, Fresh
  <2>3. params.size - params.size = 0 /\ 0 \in Nat
    BY StreamNumbers, SMT DEF Fits
  <2>4. Adds(toHost, 0, 0)
    BY <1>1, <2>2, <2>3, SumOfPackets
  <2>5. Flows'
    BY <1>2, <2>1, <2>2, <2>3, <2>4 DEF Flows, AckTells
  <2> QED BY <1>2, <2>1, <2>5, StreamFrame
<1>8. CASE PollNothing
  <2>1. /\ pc = "poll" /\ pc' = "send"
        /\ UNCHANGED <<sent_packets, acked_packets, acked_data_size, read_size_remaining>>
        /\ \/ toStub' = toStub
           \/ toStub # <<>> /\ toStub' = Tail(toStub) /\ Head(toStub) = Damaged
    BY <1>8 DEF PollNothing, Received, counterVars
  <2>2. ~None(toStub, Acks) => ~None(toStub', Acks)
    BY <1>1, <2>1, SomeStays, MoreKinds
  <2>3. AckTells
    BY <2>1 DEF Served, Flows
  <2>4. AckTells'
    <3>1. CASE toStub' = toStub
      BY <1>2, <2>1, <2>3, <3>1 DEF AckTells
    <3>2. CASE toStub # <<>> /\ toStub' = Tail(toStub) /\ Head(toStub) = Damaged
      <4>1. toStub[Len(toStub)] = Ack(Len(data))
        BY <2>3, <3>2 DEF AckTells
      <4>2. Damaged # Ack(Len(data))
        BY DEF Damaged, Ack
      <4>3. toStub' # <<>> /\ toStub'[Len(toStub')] = toStub[Len(toStub)]
        BY <1>1, <3>2, <4>1, <4>2, LastStays
      <4> QED BY <1>2, <4>1, <4>3 DEF AckTells
    <3> QED BY <2>1, <3>1, <3>2
  <2>5. Flows'
    BY <1>2, <2>1, <2>2, <2>4 DEF Served, Flows
  <2> QED BY <1>2, <2>1, <2>5, StreamFrame
<1>9. CASE PollAck
  <2>1. /\ pc = "poll" /\ pc' = "send" /\ toStub # <<>> /\ toStub' = Tail(toStub)
        /\ acked_data_size' = Head(toStub).size
        /\ UNCHANGED <<sent_packets, read_size_remaining>>
    BY <1>9 DEF PollAck, Received
  <2>2. sent_packets' = acked_packets'
    BY <1>9, <2>1, AckCatchesUp
  <2>3. toStub[Len(toStub)] = Ack(Len(data))
    BY <2>1 DEF Served, Flows, AckTells
  <2>4. AckTells'
    <3>1. CASE toStub' = <<>>
      <4>1. Head(toStub) = Ack(Len(data))
        BY <1>1, <2>1, <2>3, <3>1, LastStays
      <4>2. acked_data_size' = Len(data)
        BY <2>1, <4>1 DEF Ack
      <4> QED BY <1>2, <3>1, <4>2 DEF AckTells
    <3>2. CASE toStub' # <<>>
      <4>1. toStub'[Len(toStub')] = toStub[Len(toStub)]
        BY <1>1, <2>1, <3>2, LastStays
      <4> QED BY <1>2, <2>3, <3>2, <4>1 DEF AckTells
    <3> QED BY <3>1, <3>2
  <2>5. Flows'
    BY <1>2, <2>1, <2>2, <2>4 DEF Served, Flows
  <2> QED BY <1>2, <2>1, <2>5, StreamFrame
<1> QED BY <1>3, <1>4, <1>5, <1>6, <1>7, <1>8, <1>9

\* A packet that goes out is not empty, and adds to what was sent.
LEMMA SendKeepsServed ==
  ASSUME Fits, Order, Single, Waits, Served, ~Excused, SendPacket \/ SendFilled
  PROVE  Served'
<1>1. PICK d \in Seq(Int) :
        /\ toHost' = IF d = <<>> THEN toHost ELSE Append(toHost, Packet(d))
        /\ Len(d) = Size
        /\ pc = "send" /\ MaySend /\ pc' \in {"poll", "digest"}
        /\ read_size_remaining' = read_size_remaining - Size
        /\ UNCHANGED <<params, acked_data_size, toStub, phase, data>>
  BY PacketGoesOut DEF hostVars
<1> DEFINE f == Packet(d)
<1>2. /\ toHost \in Seq(FromStub) /\ f \in FromStub /\ f \in Datas /\ Carried(f) = Len(d)
  BY FramesAreTyped, MoreKinds DEF Fits, Typed, Packet, Carried
<1> HIDE DEF f
<1>3. /\ params.packet \in Nat /\ params.size \in Nat /\ read_size_remaining \in Nat
      /\ data \in Seq(Int)
  BY StreamNumbers DEF Fits, Typed
<1>4. Size \in Nat /\ Size > 0 /\ Size =< read_size_remaining
  <2>1. params.packet > 0 /\ read_size_remaining > 0
    BY <1>1, PacketIsServed DEF MaySend
  <2> QED BY <1>3, <2>1, SMT DEF Size, Lesser
<1>5. toHost' = Append(toHost, f)
  <2>1. d # <<>>
    BY <1>1, <1>4, EmptySeq, SMT
  <2> QED BY <1>1, <2>1 DEF f
<1>6. /\ ~None(toHost', Datas)
      /\ ~None(toHost, ReadAnswers) => ~None(toHost', ReadAnswers)
      /\ Preceded(toHost, Datas \cup Digests, ReadAnswers) /\ ~None(toHost, ReadAnswers) =>
           Preceded(toHost', Datas \cup Digests, ReadAnswers)
  BY <1>2, <1>5, SomeStays, PrecededMoves
<1>7. None(toStub, Reads)
  BY <1>1 DEF Single, ReadOnce
<1>8. AnswerComes'
  BY <1>1, <1>6, <1>7 DEF Served, AnswerComes
<1>9. DigestComes' /\ Fresh'
  BY <1>1 DEF DigestComes, Fresh
<1>10. Flows'
  <2>1. Adds(toHost, Len(data), params.size - read_size_remaining) /\ AckTells
    BY <1>1 DEF Served, Flows
  <2>2. Len(data) \in Nat
    BY <1>3, LenProperties
  <2>3. Adds(toHost', Len(data), (params.size - read_size_remaining) + Size)
    BY <1>1, <1>2, <1>5, <2>1, <2>2, SumOfPackets
  <2>4. (params.size - read_size_remaining) + Size = params.size - read_size_remaining'
    BY <1>1, <1>3, <1>4, SMT
  <2>5. AckTells'
    BY <1>1, <2>1 DEF AckTells
  <2> QED BY <1>1, <1>6, <2>3, <2>4, <2>5 DEF Flows
<1> QED BY <1>8, <1>9, <1>10 DEF Served

\* With the last of the stream its digest is on its way.
LEMMA DigestKeepsServed ==
  ASSUME Fits, Single, Waits, Served, SendDigest
  PROVE  Served'
<1> DEFINE f == Digest(md5, Poisoned)
<1>1. /\ pc = "digest" /\ pc' = "idle" /\ toHost' = Append(toHost, f)
      /\ UNCHANGED <<phase, data, toStub>>
  BY DEF SendDigest, SendFrame, Return, Streaming, hostVars
<1>2. toHost \in Seq(FromStub) /\ f \in FromStub /\ f \in Digests
  BY FramesAreTyped DEF Fits, Typed, Poisoned, Digests, Digest
<1> HIDE DEF f
<1>3. /\ ~None(toHost', Digests)
      /\ ~None(toHost, ReadAnswers) => ~None(toHost', ReadAnswers)
      /\ Preceded(toHost, Datas \cup Digests, ReadAnswers) /\ ~None(toHost, ReadAnswers) =>
           Preceded(toHost', Datas \cup Digests, ReadAnswers)
  BY <1>1, <1>2, SomeStays, PrecededMoves
<1>4. None(toStub, Reads)
  BY <1>1 DEF Single, ReadOnce
<1>5. AnswerComes'
  BY <1>1, <1>3, <1>4 DEF Served, AnswerComes
<1> QED BY <1>1, <1>3, <1>5 DEF Served, DigestComes, Fresh, Flows

\* A host that asks waits for what it just sent.
LEMMA AskIsServed ==
  ASSUME Fits, Order, Single, Ask
  PROVE  Served'
<1>1. /\ phase \in {"idle", "accepted", "synced"} /\ phase' = "asked" /\ data' = <<>>
      /\ UNCHANGED <<toHost, pc>>
  BY DEF Ask, HostActs, stubVars
<1>2. pc = "idle" /\ None(toStub, Reads) /\ None(toHost, Digests)
      /\ None(toHost, Datas) /\ None(toHost, ReadAnswers)
  BY <1>1 DEF Order, NothingLeft, Single, DataFirst, ReadOnce
<1>3. PICK j \in Jobs : toStub' = Append(toStub, Read(j))
  BY DEF Ask, HostSends
<1>4. toStub \in Seq(FromHost) /\ Read(j) \in FromHost /\ Read(j) \in Reads
  BY FramesAreTyped DEF Fits, Typed, Reads, Read
<1>5. Final(toStub', Reads) /\ ~None(toStub', Reads)
  BY <1>2, <1>3, <1>4, FrameAdded, SomeStays
<1>6. Preceded(toHost', Datas \cup Digests, ReadAnswers) /\ None(toHost', Grants)
  BY <1>1, <1>2 DEF Preceded, None, Grants
<1> QED BY <1>1, <1>2, <1>5, <1>6 DEF Served, AnswerComes, DigestComes, Fresh, Flows

\* What the host takes while it waits.
LEMMA TakeKeepsServed ==
  ASSUME Fits, Single, Waits, Waits', Served,
         TakeResponse \/ TakePacket \/ TakeDigest \/ TakeUnexpected
  PROVE  Served'
<1> DEFINE f == Head(toHost)
<1>1. /\ toHost # <<>> /\ toHost' = Tail(toHost)
      /\ UNCHANGED <<pc, params, sent_packets, acked_packets, acked_data_size,
                     read_size_remaining>>
  BY DEF TakeResponse, TakePacket, TakeDigest, TakeUnexpected, Took, Answered, HostActs, stubVars,
     counterVars
<1>2. toStub \in Seq(FromHost) /\ toHost \in Seq(FromStub) /\ f \in FromStub
      /\ data \in Seq(Int)
  BY <1>1, FrameMoves DEF Fits, Typed
<1>3. ~TakeDigest /\ ~TakeUnexpected
  BY DEF TakeDigest, TakeUnexpected, Waits
<1>4. /\ f \notin Datas /\ ~None(toHost, Datas) => ~None(toHost', Datas)
      /\ f \notin Digests /\ ~None(toHost, Digests) => ~None(toHost', Digests)
      /\ f \notin ReadAnswers /\ ~None(toHost, ReadAnswers) => ~None(toHost', ReadAnswers)
      /\ ~None(toHost', Grants) => ~None(toHost, Grants)
      /\ f \in Grants => ~None(toHost, Grants)
      /\ None(toHost, Datas) => None(toHost', Datas) /\ f \notin Datas
  BY <1>1, <1>2, HeadLeaves, SomeStays
<1>5. Len(data) \in Nat /\ (f \notin Datas => Carried(f) = 0)
  BY <1>2, LenProperties DEF Carried, Datas
<1>6. pc \in {"poll", "send"} =>
        Adds(toHost', Len(data) + Carried(f), params.size - read_size_remaining)
  BY <1>1, <1>2, <1>5, SumOfPackets DEF Served, Flows
<1>7. CASE TakeResponse
  <2>1. /\ phase = "asked" /\ UNCHANGED <<data, toStub>>
        /\ phase' = IF f.kind = "RESPONSE" /\ f.cmd = "READ"
                    THEN IF f.result = "SUCCESS" THEN "data" ELSE "failed"
                    ELSE "asked"
    BY <1>7 DEF TakeResponse
  <2> HIDE DEF f
  <2>2. \/ f \in Grants /\ phase' = "data"
        \/ f \notin ReadAnswers /\ phase' = "asked"
    BY <1>2, <2>1 DEF Grants, ReadAnswers, Waits
  <2>3. f \notin Datas \cup Digests
        /\ (f \notin ReadAnswers => Preceded(toHost', Datas \cup Digests, ReadAnswers))
    BY <1>1, <1>2, <2>1, PrecededMoves DEF Served, AnswerComes, f
  <2>4. AnswerComes'
    BY <1>4, <2>1, <2>2, <2>3 DEF Served, AnswerComes
  <2>5. DigestComes'
    BY <1>1, <1>4, <2>2, <2>3 DEF Served, DigestComes
  <2>6. Fresh'
    BY <1>1, <1>4, <2>1 DEF Served, Fresh
  <2>7. Flows'
    <3>1. Len(data) + Carried(f) = Len(data)
      BY <1>5, <2>3, SMT
    <3> QED BY <1>1, <1>4, <1>6, <2>1, <2>3, <3>1 DEF Served, Flows, AckTells
  <2> QED BY <2>4, <2>5, <2>6, <2>7 DEF Served
<1>8. CASE TakePacket
  <2> DEFINE got == data \o f.cells
  <2>1. /\ phase = "data" /\ f.kind = "DATA" /\ data' = got
        /\ toStub' = Append(toStub, Ack(Len(got))) /\ phase' # "asked"
    BY <1>8, Zenon DEF TakePacket, HostSends, Waits
  <2>2. f \in Datas /\ f \notin Digests /\ f.cells \in Seq(Int) /\ Carried(f) = Len(f.cells)
    BY <1>2, <2>1, FieldsAreTyped DEF Datas, Digests, Carried
  <2> HIDE DEF f
  <2>3. got \in Seq(Int) /\ Len(got) = Len(data) + Carried(f)
    BY <1>2, <2>2, ConcatProperties
  <2> DEFINE a == Ack(Len(got))
  <2>4. a \in FromHost /\ a \in Acks
    BY <2>3, LenProperties, FramesAreTyped, MoreKinds
  <2>5. toStub' # <<>> /\ toStub'[Len(toStub')] = a /\ ~None(toStub', Acks)
    <3> HIDE DEF a
    <3>1. toStub' = Append(toStub, a)
      BY <2>1 DEF a
    <3>2. ~None(toStub', Acks)
      BY <1>2, <2>4, <3>1, SomeStays
    <3>3. toStub' # <<>> /\ toStub'[Len(toStub')] = a
      BY <1>2, <2>4, <3>1, SMT
    <3> QED BY <3>2, <3>3
  <2>6. pc # "start"
    BY <1>4, <2>2 DEF Served, Fresh
  <2>7. DigestComes'
    BY <1>1, <1>4, <2>1, <2>2 DEF Served, DigestComes
  <2>8. Flows'
    BY <1>1, <1>6, <2>1, <2>3, <2>5 DEF Flows, AckTells
  <2> QED BY <1>1, <2>1, <2>6, <2>7, <2>8 DEF Served, AnswerComes, Fresh
<1> QED BY <1>3, <1>7, <1>8

\* The plugin takes an ACK too many for what it is.
LEMMA RepeatKeepsServed ==
  ASSUME Fits, Waits, Served, RepeatAck
  PROVE  Served'
<1> DEFINE a == Ack(Len(data))
<1>1. /\ phase \in {"data", "digest"} /\ data # <<>> /\ toStub' = Append(toStub, a)
      /\ UNCHANGED <<phase, data, toHost, pc, params, sent_packets, acked_packets,
                     acked_data_size, read_size_remaining>>
  BY DEF RepeatAck, HostSends, HostActs, hostVars, stubVars, counterVars
<1>2. toStub \in Seq(FromHost) /\ a \in FromHost
  BY LenProperties, FramesAreTyped DEF Fits, Typed
<1> HIDE DEF a
<1>3. ~None(toStub, Acks) => ~None(toStub', Acks)
  BY <1>1, <1>2, SomeStays
<1>4. toStub' # <<>> /\ toStub'[Len(toStub')] = a
  BY <1>1, <1>2, SMT
<1>5. Flows'
  BY <1>1, <1>3, <1>4 DEF Served, Flows, AckTells, a
<1>6. DigestComes'
  BY <1>1 DEF Served, DigestComes
<1> QED BY <1>1, <1>5, <1>6 DEF Served, AnswerComes, Fresh

\* An excuse lasts until the host asks for something else.
LEMMA ExcusedStays ==
  ASSUME Faults, [Next]_vars, Excused, ~Ask
  PROVE  Excused'
<1>1. UNCHANGED <<variant, want>>
  <2>1. CASE Stub
    BY <2>1 DEF Stub, DropDamaged, RefuseAck, HandleCommand, StubIdle, StartRefused, Start,
       PollNothing, PollAck, PollOther, Wait, SendPacket, ReadFails, FillPage, FillFails,
       SendFilled, SendDigest, Send, Streaming, hostVars
  <2>2. CASE Host \/ RepeatAck
    BY <2>2 DEF Host, TakeResponse, TakePacket, TakeDigest, TakeUnexpected, Timeout, SendSync,
       TakeSync, SyncTimeout, RepeatAck, HostActs, hostVars
  <2>3. CASE Line
    BY <2>3 DEF Line, LineFault, LoseFrame, DamageFrame, GarbleAck, GarblePacket, hostVars
  <2>4. CASE UNCHANGED vars
    BY <2>4 DEF vars, hostVars
  <2> QED BY <2>1, <2>2, <2>3, <2>4 DEF Next
<1>2. \A n \in Nat : n > 0 => n + 1 > 0
  BY SMT
<1>3. /\ chipFaults > 0 => chipFaults' > 0
      /\ lineFaults > 0 => lineFaults' > 0
      /\ early > 0 => early' > 0
      /\ repeats > 0 => repeats' > 0
  BY <1>2, FaultsGrow DEF Faults
<1> QED BY <1>1, <1>3 DEF Excused

\* A host that waits without an excuse is served, step by step.
LEMMA UnderwayStep ==
  ASSUME IInv, Single, Faults, Underway, [Next]_vars
  PROVE  Underway'
<1> SUFFICES ASSUME ~Excused', Waits' PROVE Served'
  BY DEF Underway
<1>1. Fits /\ Order /\ Faults'
  BY SingleStep DEF IInv, Sent
<1>2. CASE Ask
  BY <1>1, <1>2, AskIsServed
<1> SUFFICES ASSUME ~Ask PROVE Served'
  BY <1>2
<1>3. ~Excused
  BY ExcusedStays
<1>4. Waits => Served
  BY <1>3 DEF Underway
<1>5. CASE Stub
  <2>1. Waits
    <3>1. phase' = phase
      BY <1>5 DEF Stub, DropDamaged, RefuseAck, HandleCommand, StubIdle, StartRefused, Start,
         PollNothing, PollAck, PollOther, Wait, SendPacket, ReadFails, FillPage, FillFails,
         SendFilled, SendDigest, Send, Streaming, hostVars
    <3> QED BY <3>1 DEF Waits
  <2>2. CASE DropDamaged \/ RefuseAck \/ HandleCommand
    BY <1>1, <1>4, <2>1, <2>2, IdleKeepsServed
  <2>3. CASE SendPacket \/ SendFilled
    BY <1>1, <1>3, <1>4, <2>1, <2>3, SendKeepsServed
  <2>4. CASE SendDigest
    BY <1>1, <1>4, <2>1, <2>4, DigestKeepsServed
  <2>5. CASE \/ StartRefused \/ Start \/ PollNothing \/ PollAck \/ PollOther \/ Wait
             \/ ReadFails \/ FillPage \/ FillFails
    BY <1>1, <1>3, <1>4, <2>1, <2>5, PollKeepsServed
  <2> QED BY <1>5, <2>2, <2>3, <2>4, <2>5 DEF Stub
<1>6. CASE Host
  <2>1. CASE TakeResponse \/ TakePacket \/ TakeDigest \/ TakeUnexpected
    <3>1. Waits
      BY <2>1 DEF TakeResponse, TakePacket, TakeDigest, TakeUnexpected, Waits
    <3> QED BY <1>1, <1>4, <2>1, <3>1, TakeKeepsServed
  <2>2. CASE Timeout \/ SendSync \/ TakeSync \/ SyncTimeout
    BY <2>2 DEF Timeout, SendSync, TakeSync, SyncTimeout, Waits
  <2> QED BY <1>6, <2>1, <2>2 DEF Host
<1>7. CASE RepeatAck
  <2>1. Waits
    BY <1>7 DEF RepeatAck, Waits
  <2> QED BY <1>1, <1>4, <1>7, <2>1, RepeatKeepsServed
<1>8. CASE Line
  <2>1. lineFaults' = lineFaults + 1
    BY <1>8 DEF Line, LineFault, LoseFrame, DamageFrame, GarbleAck, GarblePacket
  <2>2. lineFaults' > 0
    BY <2>1, SMT DEF Faults
  <2> QED BY <2>2 DEF Excused
<1>9. CASE UNCHANGED vars
  <2>1. Waits /\ Served
    BY <1>4, <1>9 DEF Waits, vars, hostVars
  <2> QED BY <1>9, <2>1 DEF Served, AnswerComes, DigestComes, Fresh, Flows, AckTells, vars,
             hostVars, stubVars, counterVars
<1> QED BY <1>2, <1>5, <1>6, <1>7, <1>8, <1>9 DEF Next

\* As long as a host is served the line never falls silent.
LEMMA NeverSilent ==
  ASSUME Fits, Order, Single, Waits, Served
  PROVE  ~Silence
<1> SUFFICES ASSUME Silence PROVE FALSE
  OBVIOUS
<1>1. toHost = <<>> /\ toStub = <<>>
  BY DEF Silence
<1>2. \A F : None(toHost, F) /\ None(toStub, F)
  BY <1>1, NoneInNothing
<1>3. phase # "asked"
  BY <1>2 DEF Served, AnswerComes
<1>4. pc \in {"poll", "send"} /\ ~MaySend /\ Loops(read_size_remaining, acked_data_size)
  BY <1>2, <1>3 DEF Silence, Served, DigestComes, Waits
<1>5. /\ params.size \in Nat /\ read_size_remaining \in Nat
      /\ toHost \in Seq(FromStub) /\ data \in Seq(Int)
  BY StreamNumbers DEF Fits, Typed
<1>6. sent_packets = acked_packets /\ acked_data_size = Len(data)
      /\ Adds(toHost, Len(data), params.size - read_size_remaining)
  BY <1>1, <1>2, <1>4 DEF Served, Flows, AckTells
<1>7. Len(data) = params.size - read_size_remaining
  BY <1>1, <1>5, <1>6, LenProperties, SumOfPackets
<1>8. Unacked < 1
  <2>1. WRAP \in Nat /\ WRAP > 1 /\ sent_packets \in Int
    BY WrapAssumption DEF Single, Counters
  <2>2. (sent_packets - sent_packets + WRAP) % WRAP = 0
    BY <2>1, SMT
  <2>3. (IF sent_packets >= sent_packets THEN sent_packets - sent_packets ELSE 0) = 0
    BY <2>1, SMT
  <2>4. Unacked = 0
    BY <1>6, <2>2, <2>3 DEF Unacked
  <2> QED BY <2>4, SMT
<1>9. ~(read_size_remaining > 0)
  BY <1>4, <1>8 DEF MaySend
<1>10. acked_data_size < params.size
  BY <1>4, <1>9 DEF Loops
<1> QED BY <1>5, <1>6, <1>7, <1>9, <1>10, SMT

\* A host gives up only with an excuse.
LEMMA CauseStep ==
  ASSUME IInv, Single, Faults, Underway, timedOut => Excused, [Next]_vars
  PROVE  timedOut' => Excused'
<1> SUFFICES ASSUME timedOut' PROVE Excused'
  OBVIOUS
<1>1. CASE Timeout
  <2>1. Waits
    BY <1>1 DEF Timeout, Waits
  <2>2. CASE Silence
    <3>1. Excused
      BY <2>1, <2>2, NeverSilent DEF Underway, IInv, Sent
    <3>2. ~Ask
      BY <2>1 DEF Ask, Waits
    <3> QED BY <3>1, <3>2, ExcusedStays
  <2>3. CASE ~Silence
    <3>1. early' = early + 1
      BY <1>1, <2>3 DEF Timeout
    <3>2. early' > 0
      BY <3>1, SMT DEF Faults
    <3> QED BY <3>2 DEF Excused
  <2> QED BY <2>2, <2>3
<1>2. CASE ~Timeout
  <2>1. ~Ask
    BY DEF Ask
  <2>2. timedOut' = timedOut
    <3>1. CASE Stub
      BY <3>1 DEF Stub, DropDamaged, RefuseAck, HandleCommand, StubIdle, StartRefused, Start,
         PollNothing, PollAck, PollOther, Wait, SendPacket, ReadFails, FillPage, FillFails,
         SendFilled, SendDigest, Send, Streaming, hostVars
    <3>2. CASE Host \/ RepeatAck
      BY <1>2, <3>2 DEF Host, TakeResponse, TakePacket, TakeDigest, TakeUnexpected, SendSync,
         TakeSync, SyncTimeout, RepeatAck, hostVars
    <3>3. CASE Line
      BY <3>3 DEF Line, LineFault, LoseFrame, DamageFrame, GarbleAck, GarblePacket, hostVars
    <3>4. CASE UNCHANGED vars
      BY <3>4 DEF vars, hostVars
    <3> QED BY <2>1, <3>1, <3>2, <3>3, <3>4 DEF Next
  <2> QED BY <2>1, <2>2, ExcusedStays
<1> QED BY <1>1, <1>2

\* Without a fault of the line, a timeout too early and, with the base stub, a chip
\* that cannot be read, a packet size out of range or an ACK sent again, no host
\* is ever left waiting with nothing under way to it or to the stub.
THEOREM SilenceIsExcused == Spec => []SilenceHasCause
<1> DEFINE Inv == IInv /\ Single /\ Faults /\ Underway /\ (timedOut => Excused)
<1>1. Inv => SilenceHasCause
  BY DEF SilenceHasCause, Excused
<1>2. Inv /\ [Next]_vars => Inv'
  BY Inductive, SingleStep, UnderwayStep, CauseStep
<1>3. Init => Inv
  BY AtFirst, SingleAtFirst DEF Init, Underway, Waits
<1> HIDE DEF Inv
<1> QED BY <1>1, <1>2, <1>3, PTL DEF Spec
=============================================================================
