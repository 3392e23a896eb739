--------------------------- MODULE CommandsProofs ---------------------------
(* Proofs about Commands, for every set of frames a host may send, every chip  *)
(* and every amount of memory.                                                 *)
(*                                                                             *)
(* There are many handlers, but only three ways in which one goes on: it       *)
(* returns a result, it goes round its loop, or it does not answer at all.     *)
(* The invariants are proved of these.                                         *)
EXTENDS Commands, TLAPS

(* The ways of a handler.                                                      *)

\* Where a handler is at work.
Working == {"handler", "erase_region", "wait_ready", "md5", "nand_erase"}

Answers ==
  /\ pc \in Working
  /\ \E r, post :
       Returns(r, post) /\ post \in {NONE, s_pending_post_process} \cup Registers(ctx.cmd)

GoesOn == pc \in Working /\ pc' \in Working /\ UNCHANGED dispatchRest

HandlerStep == Answers \/ GoesOn \/ RunUserCode

\* A handler that returns a result and registers nothing answers (command_handler.c).
LEMMA HandledAnswers ==
  ASSUME pc \in Working, NEW r, Handled(r)
  PROVE  Answers
BY DEF Handled, Answers

\* A handler that registers its post-process only when the length is right answers.
LEMMA RegisterAnswers ==
  ASSUME pc \in Working, NEW n, NEW post, post \in Registers(ctx.cmd), Register(n, post)
  PROVE  Answers
<1>1. CASE ctx.packet = n
  BY <1>1 DEF Register, Answers
<1>2. CASE ctx.packet # n
  BY <1>2, HandledAnswers DEF Register
<1> QED BY <1>1, <1>2

\* The handlers that keep nothing between two commands go one of the three ways.
LEMMA SimpleHandlerStep == SimpleHandler => HandlerStep
<1> SUFFICES ASSUME SimpleHandler PROVE HandlerStep
  OBVIOUS
<1>1. CASE Sync
  BY <1>1, HandledAnswers DEF Sync, Handles, Working, HandlerStep
<1>2. CASE ReadFlash
  BY <1>2, RegisterAnswers DEF ReadFlash, Handles, Working, Registers, HandlerStep
<1>3. CASE FlashData
  <2>1. pc \in Working /\ ctx.cmd = "FLASH_DATA"
    BY <1>3 DEF FlashData, Handles, Working
  <2>2. ASSUME NEW r, Handled(r) PROVE HandlerStep
    BY <2>1, <2>2, HandledAnswers DEF HandlerStep
  <2>3. CASE Returns("SUCCESS", "flash_data")
    BY <2>1, <2>3 DEF Answers, Registers, HandlerStep
  <2> QED BY <1>3, <2>2, <2>3 DEF FlashData
<1>4. CASE ChangeBaudrate
  BY <1>4, RegisterAnswers DEF ChangeBaudrate, Handles, Working, Registers, HandlerStep
<1>5. CASE SpiAttach
  BY <1>5, HandledAnswers DEF SpiAttach, Handles, Working, HandlerStep
<1>6. CASE SpiSetParams
  BY <1>6, HandledAnswers DEF SpiSetParams, Handles, Working, HandlerStep
<1>7. CASE ReadReg
  BY <1>7, HandledAnswers DEF ReadReg, Handles, Working, HandlerStep
<1>8. CASE GetSecurityInfo
  BY <1>8, HandledAnswers DEF GetSecurityInfo, Handles, Working, HandlerStep
<1>9. CASE RunUserCode
  BY <1>9 DEF HandlerStep
<1>10. CASE UnknownCommand
  BY <1>10, HandledAnswers DEF UnknownCommand, Handles, Working, HandlerStep
<1>11. CASE PluginUnsupported
  BY <1>11, HandledAnswers DEF PluginUnsupported, Working, HandlerStep
<1>12. CASE OtherPlugin
  <2>1. pc \in Working /\ ctx.cmd = "PLUGIN_RESERVED"
    BY <1>12 DEF OtherPlugin, HandlesPlugin, Handles, Working
  <2>2. PICK r, post : Returns(r, post) /\ post \in {NONE, "other"}
    BY <1>12 DEF OtherPlugin
  <2> QED BY <2>1, <2>2 DEF Answers, Registers, HandlerStep
<1> QED BY <1>1, <1>2, <1>3, <1>4, <1>5, <1>6, <1>7, <1>8, <1>9, <1>10, <1>11, <1>12
        DEF SimpleHandler

\* So do MEM_BEGIN, MEM_DATA, MEM_END and WRITE_REG.
LEMMA MemoryHandlerStep == MemoryHandler => HandlerStep
<1> SUFFICES ASSUME MemoryHandler PROVE HandlerStep
  OBVIOUS
<1>1. CASE MemBegin
  BY <1>1, HandledAnswers DEF MemBegin, Handles, Working, HandlerStep
<1>2. CASE MemData
  BY <1>2, HandledAnswers DEF MemData, Handles, Working, HandlerStep
<1>3. CASE MemEnd
  <2>1. pc \in Working /\ ctx.cmd = "MEM_END"
    BY <1>3 DEF MemEnd, Handles, Working
  <2>2. \/ Returns("SUCCESS", "mem_end")
        \/ \E r : Handled(r)
    BY <1>3 DEF MemEnd
  <2>3. CASE Returns("SUCCESS", "mem_end")
    BY <2>1, <2>3 DEF Answers, Registers, HandlerStep
  <2> QED BY <2>1, <2>2, <2>3, HandledAnswers DEF HandlerStep
<1>4. CASE WriteReg
  BY <1>4, HandledAnswers DEF WriteReg, Handles, Working, HandlerStep
<1> QED BY <1>1, <1>2, <1>3, <1>4 DEF MemoryHandler

\* So do the erases, SPI_FLASH_MD5 and the NAND handlers, round their loops too.
LEMMA ChipHandlerStep == ChipHandler => HandlerStep
<1> SUFFICES ASSUME ChipHandler PROVE HandlerStep
  OBVIOUS
<1>1. CASE EraseFlash
  BY <1>1, HandledAnswers DEF EraseFlash, Handles, Working, HandlerStep
<1>2. CASE EraseRegion
  BY <1>2, HandledAnswers DEF EraseRegion, Handles, Working, GoesOn, HandlerStep
<1>3. CASE EraseNext
  BY <1>3 DEF EraseNext, Within, Working, GoesOn, HandlerStep
<1>4. CASE EraseLoopEnds
  BY <1>4 DEF EraseLoopEnds, Within, Working, GoesOn, HandlerStep
<1>5. CASE WaitReady
  <2>1. pc \in Working /\ \E r : Handled(r)
    BY <1>5 DEF WaitReady, Working
  <2> QED BY <2>1, HandledAnswers DEF HandlerStep
<1>6. CASE FlashMd5
  BY <1>6, HandledAnswers DEF FlashMd5, Handles, Working, GoesOn, HandlerStep
<1>7. CASE HashChunk
  BY <1>7 DEF HashChunk, Within, Working, GoesOn, HandlerStep
<1>8. CASE Md5Ends
  <2>1. pc \in Working /\ \E r : Handled(r)
    BY <1>8 DEF Md5Ends, Working
  <2> QED BY <2>1, HandledAnswers DEF HandlerStep
<1>9. CASE NandEraseFlash
  BY <1>9 DEF NandEraseFlash, NandLoop, HandlesPlugin, Handles, Working, GoesOn, HandlerStep
<1>10. CASE NandEraseRegion
  BY <1>10, HandledAnswers
     DEF NandEraseRegion, NandLoop, HandlesPlugin, Handles, Working, GoesOn, HandlerStep
<1>11. CASE NandEraseBlock
  BY <1>11 DEF NandEraseBlock, Within, Working, GoesOn, HandlerStep
<1>12. CASE NandEraseFails
  <2>1. pc \in Working /\ \E r : Handled(r)
    BY <1>12 DEF NandEraseFails, Working
  <2> QED BY <2>1, HandledAnswers DEF HandlerStep
<1>13. CASE NandEraseEnds
  BY <1>13, HandledAnswers DEF NandEraseEnds, Working, HandlerStep
<1>14. CASE NandQuery
  <2>1. pc \in Working /\ \E r : Handled(r)
    BY <1>14 DEF NandQuery, HandlesPlugin, Handles, Working
  <2> QED BY <2>1, HandledAnswers DEF HandlerStep
<1>15. CASE NandReadFlash
  <2>1. pc \in Working /\ ctx.cmd = "NAND_READ_FLASH"
    BY <1>15 DEF NandReadFlash, HandlesPlugin, Handles, Working
  <2>2. \/ Register(SPI_NAND_READ_FLASH_SIZE, "nand_read_flash")
        \/ \E r : Handled(r)
    BY <1>15 DEF NandReadFlash
  <2> QED BY <2>1, <2>2, HandledAnswers, RegisterAnswers DEF Registers, HandlerStep
<1>16. CASE NandWriteBbm
  <2>1. pc \in Working /\ \E r : Handled(r)
    BY <1>16 DEF NandWriteBbm, HandlesPlugin, Handles, Working
  <2> QED BY <2>1, HandledAnswers DEF HandlerStep
<1> QED BY <1>1, <1>2, <1>3, <1>4, <1>5, <1>6, <1>7, <1>8, <1>9, <1>10, <1>11, <1>12, <1>13,
           <1>14, <1>15, <1>16 DEF ChipHandler

\* What a step is for the dispatcher, whichever handler it is of.
DispatchStep ==
  \/ Receive \/ HandlerStep \/ Respond \/ SetBaudrate \/ OtherPost
  \/ pc = "post" /\ pc' = "user" /\ UNCHANGED dispatchRest
  \/ pc \in {"post", "user"} /\ PostReturns("SUCCESS") /\ UNCHANGED rate
  \/ UNCHANGED dispatchVars

\* Every step of the system is one the dispatcher knows.
LEMMA NextDispatches == [Next]_vars => DispatchStep
<1> SUFFICES ASSUME [Next]_vars PROVE DispatchStep
  OBVIOUS
<1>1. CASE Receive
  BY <1>1 DEF DispatchStep
<1>2. CASE SimpleHandler \/ MemoryHandler \/ ChipHandler
  BY <1>2, SimpleHandlerStep, MemoryHandlerStep, ChipHandlerStep DEF DispatchStep
<1>3. CASE SetBaudrate \/ OtherPost \/ Respond
  BY <1>3 DEF DispatchStep
<1>4. CASE Jump
  BY <1>4 DEF Jump, Runs, DispatchStep
<1>5. CASE UserReturns
  BY <1>5 DEF UserReturns, DispatchStep
<1>6. CASE ChipReady \/ UNCHANGED vars
  BY <1>6 DEF ChipReady, vars, DispatchStep
<1> QED BY <1>1, <1>2, <1>3, <1>4, <1>5, <1>6 DEF Next, Stub

-----------------------------------------------------------------------------
(* What is registered.                                                         *)

\* Nothing stays registered but between a handler and the function it registered,
\* and the baud rate does not change before that runs.
Pending ==
  /\ pc \notin {"respond", "post", "user"} => s_pending_post_process = NONE
  /\ pc = "respond" => s_pending_post_process \in {NONE} \cup Registers(ctx.cmd)
  /\ pc # "idle" => heard = rate
  /\ PostIsOwn

\* No command registers the absence of a post-process.
LEMMA NoneIsNoPost == NONE \notin Registers(ctx.cmd)
BY DEF NONE, Registers

\* A step keeps Pending: handle_command() clears what it runs.
LEMMA PendingStep == Pending /\ DispatchStep => Pending'
<1> SUFFICES ASSUME Pending, DispatchStep PROVE Pending'
  OBVIOUS
<1>1. CASE Receive
  <2>1. PICK f \in workload : RefuseFrame(f) \/ ReportError(f) \/ Select(f)
    BY <1>1 DEF Receive
  <2>2. CASE RefuseFrame(f) \/ ReportError(f)
    BY <2>2 DEF RefuseFrame, ReportError, Request, Pending, PostIsOwn
  <2>3. CASE Select(f)
    BY <2>3 DEF Select, Request, Pending, PostIsOwn
  <2> QED BY <2>1, <2>2, <2>3
<1>2. CASE Answers
  <2>1. PICK r, post : /\ Returns(r, post)
                       /\ post \in {NONE, s_pending_post_process} \cup Registers(ctx.cmd)
    BY <1>2 DEF Answers
  <2>2. s_pending_post_process = NONE /\ pc # "idle"
    BY <1>2 DEF Answers, Working, Pending
  <2> QED BY <2>1, <2>2 DEF Returns, Pending, PostIsOwn
<1>3. CASE GoesOn
  BY <1>3 DEF GoesOn, Working, dispatchRest, Pending, PostIsOwn
<1>4. CASE RunUserCode
  BY <1>4 DEF RunUserCode, Handles, Pending, PostIsOwn
<1>5. CASE Respond
  <2>1. CASE PendingAfter = NONE
    BY <1>5, <2>1 DEF Respond, Pending, PostIsOwn
  <2>2. CASE PendingAfter # NONE
    <3>1. accumulated_result = "SUCCESS" /\ PendingAfter \in Registers(ctx.cmd)
      BY <1>5, <2>2 DEF Respond, PendingAfter, Pending
    <3>2. pc' = "post" /\ ctx' = ctx /\ s_pending_post_process' \in Registers(ctx'.cmd)
      BY <1>5, <2>2, <3>1 DEF Respond, Registers
    <3>3. response'.result = "SUCCESS" /\ response'.rate = rate
      BY <1>5, <3>1 DEF Respond, SendResponse
    <3>4. rate' = rate /\ heard' = heard /\ heard = rate
      BY <1>5 DEF Respond, Pending
    <3> QED BY <3>2, <3>3, <3>4 DEF Pending, PostIsOwn
  <2> QED BY <2>1, <2>2
<1>6. CASE SetBaudrate
  BY <1>6 DEF SetBaudrate, PostReturns, Pending, PostIsOwn
<1>7. CASE OtherPost
  BY <1>7 DEF OtherPost, PostReturns, Pending, PostIsOwn
<1>8. CASE pc = "post" /\ pc' = "user" /\ UNCHANGED dispatchRest
  BY <1>8 DEF dispatchRest, Pending, PostIsOwn
<1>9. CASE pc \in {"post", "user"} /\ PostReturns("SUCCESS") /\ UNCHANGED rate
  BY <1>9 DEF PostReturns, Pending, PostIsOwn
<1>10. CASE UNCHANGED dispatchVars
  BY <1>10 DEF dispatchVars, dispatchRest, Pending, PostIsOwn
<1> QED BY <1>1, <1>2, <1>3, <1>4, <1>5, <1>6, <1>7, <1>8, <1>9, <1>10
        DEF DispatchStep, HandlerStep

\* What runs after a response was registered by the command it answers, and that
\* command succeeded: for any host, whatever fails and whatever a plugin returns.
THEOREM PostProcessIsOwn == Spec => []PostIsOwn
<1>1. Init => Pending
  BY DEF Init, DispatchInit, Pending, PostIsOwn
<1>2. Pending /\ [Next]_vars => Pending'
  BY PendingStep, NextDispatches
<1>3. Pending => PostIsOwn
  BY DEF Pending
<1> QED BY <1>1, <1>2, <1>3, PTL DEF Spec

-----------------------------------------------------------------------------
(* Errors.                                                                     *)

\* An error is owed to the host only between two commands, and the dispatcher
\* has it.
Owing == owed # "SUCCESS" => pc = "idle" /\ accumulated_result = owed

\* What ErrorsAreTold says of a step.
TellsError == owed # "SUCCESS" /\ owed' # owed =>
                owed' = "SUCCESS" /\ response'.result = owed

\* A step keeps the error owed until a response carries it.
LEMMA OwingStep == Owing /\ DispatchStep => Owing' /\ TellsError
<1> SUFFICES ASSUME Owing, DispatchStep PROVE Owing' /\ TellsError
  OBVIOUS
<1>1. CASE Receive
  <2>1. PICK f \in workload : RefuseFrame(f) \/ ReportError(f) \/ Select(f)
    BY <1>1 DEF Receive
  <2>2. CASE RefuseFrame(f)
    <3>1. UNCHANGED <<owed, pc, accumulated_result>>
      BY <2>2 DEF RefuseFrame, SendResponse, FrameFits, Whole, KeepResult
    <3> QED BY <3>1 DEF Owing, TellsError
  <2>3. CASE ReportError(f)
    <3>1. owed' = "SUCCESS" /\ response'.result = accumulated_result
      BY <2>3 DEF ReportError, Request, SendResponse, FrameFits, Whole
    <3> QED BY <3>1 DEF Owing, TellsError
  <2>4. CASE Select(f)
    BY <2>4 DEF Select, Owing, TellsError
  <2> QED BY <2>1, <2>2, <2>3, <2>4
<1>2. CASE Answers
  BY <1>2 DEF Answers, Working, Returns, Owing, TellsError
<1>3. CASE GoesOn
  BY <1>3 DEF GoesOn, Working, dispatchRest, Owing, TellsError
<1>4. CASE RunUserCode
  BY <1>4 DEF RunUserCode, Handles, Owing, TellsError
<1>5. CASE Respond
  BY <1>5 DEF Respond, SendResponse, Owing, TellsError
<1>6. CASE SetBaudrate
  BY <1>6 DEF SetBaudrate, Runs, PostReturns, Owing, TellsError
<1>7. CASE OtherPost
  BY <1>7 DEF OtherPost, PostReturns, Owing, TellsError
<1>8. CASE pc = "post" /\ pc' = "user" /\ UNCHANGED dispatchRest
  BY <1>8 DEF dispatchRest, Owing, TellsError
<1>9. CASE pc \in {"post", "user"} /\ PostReturns("SUCCESS") /\ UNCHANGED rate
  BY <1>9 DEF PostReturns, Owing, TellsError
<1>10. CASE UNCHANGED dispatchVars
  BY <1>10 DEF dispatchVars, dispatchRest, Owing, TellsError
<1> QED BY <1>1, <1>2, <1>3, <1>4, <1>5, <1>6, <1>7, <1>8, <1>9, <1>10
        DEF DispatchStep, HandlerStep

\* No error of a post-process is lost and none takes the place of another, for
\* any host and any damaged frames.
THEOREM NoErrorIsLost == Spec => ErrorsAreTold
<1>1. Init => Owing
  BY DEF Init, DispatchInit, Owing
<1>2. Owing /\ [Next]_vars => Owing' /\ TellsError
  BY OwingStep, NextDispatches
<1>3. [Next]_vars /\ TellsError => [TellsError]_dispatchVars
  OBVIOUS
<1>4. [][TellsError]_dispatchVars => ErrorsAreTold
  BY PTL DEF ErrorsAreTold, TellsError
<1> QED BY <1>1, <1>2, <1>3, <1>4, PTL DEF Spec

-----------------------------------------------------------------------------
(* Loading memory.                                                             *)

\* Only frames of the host that fit are handled.
FrameDiscipline ==
  workload \in Workloads /\ (pc \in Working => ctx \in workload /\ FrameFits(ctx))

\* A step leaves only frames of the host that fit to a handler.
LEMMA FrameStep == FrameDiscipline /\ DispatchStep => FrameDiscipline'
<1> SUFFICES ASSUME FrameDiscipline, DispatchStep PROVE FrameDiscipline'
  OBVIOUS
<1>1. CASE Receive
  <2>1. PICK f \in workload : RefuseFrame(f) \/ ReportError(f) \/ Select(f)
    BY <1>1 DEF Receive
  <2>2. CASE RefuseFrame(f) \/ ReportError(f)
    BY <2>2 DEF RefuseFrame, ReportError, Request, Working, FrameDiscipline
  <2>3. CASE Select(f)
    BY <2>3 DEF Select, Request, FrameFits, FrameDiscipline
  <2> QED BY <2>1, <2>2, <2>3
<1>2. CASE Answers
  BY <1>2 DEF Answers, Returns, Working, FrameDiscipline
<1>3. CASE GoesOn
  BY <1>3 DEF GoesOn, dispatchRest, FrameFits, FrameDiscipline
<1>4. CASE RunUserCode
  BY <1>4 DEF RunUserCode, Working, FrameDiscipline
<1>5. CASE Respond
  BY <1>5 DEF Respond, Working, FrameDiscipline
<1>6. CASE SetBaudrate
  BY <1>6 DEF SetBaudrate, PostReturns, Working, FrameDiscipline
<1>7. CASE OtherPost
  BY <1>7 DEF OtherPost, PostReturns, Working, FrameDiscipline
<1>8. CASE pc = "post" /\ pc' = "user" /\ UNCHANGED dispatchRest
  BY <1>8 DEF dispatchRest, Working, FrameDiscipline
<1>9. CASE pc \in {"post", "user"} /\ PostReturns("SUCCESS") /\ UNCHANGED rate
  BY <1>9 DEF PostReturns, Working, FrameDiscipline
<1>10. CASE UNCHANGED dispatchVars
  BY <1>10 DEF dispatchVars, dispatchRest, FrameFits, FrameDiscipline
<1> QED BY <1>1, <1>2, <1>3, <1>4, <1>5, <1>6, <1>7, <1>8, <1>9, <1>10
        DEF DispatchStep, HandlerStep

\* The types of a memory session; what it announced fits in memory.
LoadType ==
  /\ total_remaining \in Nat /\ offset \in Nat /\ in_progress \in BOOLEAN
  /\ began \in Nat /\ announced \in Nat /\ began + announced =< RAM
  /\ accepted \in Seq(Nat) /\ Len(accepted) =< announced
  /\ ram \in [Bytes -> Nat]

Loaded == LoadType /\ LoadIsExact

\* MEM_BEGIN opens a session of the size announced, or changes nothing.
LEMMA MemBeginLoads ==
  ASSUME Loaded, FrameDiscipline, MemBegin
  PROVE  Loaded'
<1>1. CASE ctx.packet = MEM_BEGIN_SIZE
  <2>1. ctx.cmd = "MEM_BEGIN" /\ ctx \in workload /\ workload \in Workloads
    BY DEF MemBegin, Handles, Working, FrameDiscipline
  <2>2. /\ ctx.arg.addr \in Nat /\ ctx.arg.size \in Nat
        /\ ctx.arg.addr + ctx.arg.size =< RAM
    BY <1>1, <2>1, MemoryAssumption
  <2>3. /\ total_remaining' = ctx.arg.size /\ offset' = ctx.arg.addr /\ in_progress' = TRUE
        /\ began' = ctx.arg.addr /\ announced' = ctx.arg.size /\ accepted' = <<>>
        /\ ram' = ram
    BY <1>1 DEF MemBegin
  <2>4. accepted' \in Seq(Nat) /\ Len(accepted') = 0
    BY <2>3
  <2>5. LoadType'
    BY <2>2, <2>3, <2>4 DEF Loaded, LoadType, Bytes
  <2>6. LoadIsExact'
    BY <2>2, <2>3, <2>4 DEF LoadIsExact
  <2> QED BY <2>5, <2>6 DEF Loaded
<1>2. CASE ctx.packet # MEM_BEGIN_SIZE
  BY <1>2 DEF MemBegin, memoryState, memoryHist, Loaded, LoadType, LoadIsExact, Bytes
<1> QED BY <1>1, <1>2

\* What a MEM_DATA that is answered with success has been tested for.
LEMMA DataIsTested ==
  ASSUME MemDataResult = "SUCCESS", ctx.packet \in Nat, in_progress \in BOOLEAN
  PROVE  /\ ctx.packet >= MEM_DATA_HEADER_SIZE /\ in_progress
         /\ ~(total_remaining < ctx.arg.len) /\ ctx.arg.len = DataSize
<1> DEFINE short == ctx.packet < MEM_DATA_HEADER_SIZE
           long == ctx.packet >= MEM_DATA_HEADER_SIZE
           bad_len == total_remaining < ctx.arg.len \/ ctx.arg.len # DataSize
<1>1. short \/ long
  BY DEF MEM_DATA_HEADER_SIZE
<1>2. MemDataResult = CASE short -> "NOT_ENOUGH_DATA"
                        [] long /\ ~in_progress -> "NOT_IN_FLASH_MODE"
                        [] long /\ in_progress /\ bad_len -> "TOO_MUCH_DATA"
                        [] OTHER -> "SUCCESS"
  BY DEF MemDataResult
<1>3. short => ~long
  BY DEF MEM_DATA_HEADER_SIZE
<1> HIDE DEF short, long, bad_len
<1>4. ~short
  <2> SUFFICES ASSUME short PROVE FALSE
    OBVIOUS
  <2>1. MemDataResult = "NOT_ENOUGH_DATA"
    BY <1>2, <1>3
  <2> QED BY <2>1
<1>5. in_progress
  <2> SUFFICES ASSUME ~in_progress PROVE FALSE
    OBVIOUS
  <2>1. MemDataResult = "NOT_IN_FLASH_MODE"
    BY <1>1, <1>2, <1>4
  <2> QED BY <2>1
<1>6. ~bad_len
  <2> SUFFICES ASSUME bad_len PROVE FALSE
    OBVIOUS
  <2>1. MemDataResult = "TOO_MUCH_DATA"
    BY <1>1, <1>2, <1>4, <1>5
  <2> QED BY <2>1
<1> QED BY <1>1, <1>4, <1>5, <1>6 DEF short, long, bad_len

\* Two sequences joined are a sequence, as long as both.
LEMMA Concatenated ==
  ASSUME NEW s \in Seq(Nat), NEW t \in Seq(Nat)
  PROVE  s \o t \in Seq(Nat) /\ Len(s \o t) = Len(s) + Len(t) /\ Len(s) \in Nat
OBVIOUS

\* Memory holds the cells s from a on; they are laid down from o on.
Holds(mem, a, s) == \A k \in 1..Len(s) : mem[a + k - 1] = s[k]
LaidDown(mem, mem2, o, d) ==
  \A w \in Bytes : mem2[w] = IF o =< w /\ w < o + Len(d) THEN d[w - o + 1] ELSE mem[w]

\* The cells of data, laid down behind what was loaded, are those of the longer list.
LEMMA LoadGrows ==
  ASSUME NEW a \in Nat, NEW s \in Seq(Nat), NEW d \in Seq(Nat), NEW o \in Nat,
         NEW mem \in [Bytes -> Nat], NEW mem2 \in [Bytes -> Nat], RAM \in Nat,
         o = a + Len(s), a + Len(s) + Len(d) =< RAM,
         Holds(mem, a, s), LaidDown(mem, mem2, o, d)
  PROVE  Holds(mem2, a, s \o d)
<1>1. Len(s) \in Nat /\ Len(d) \in Nat /\ Len(s \o d) = Len(s) + Len(d)
  OBVIOUS
<1> SUFFICES ASSUME NEW k \in 1..Len(s \o d) PROVE mem2[a + k - 1] = (s \o d)[k]
  BY DEF Holds
<1>2. a + k - 1 \in Bytes
  BY <1>1 DEF Bytes
<1>3. CASE k =< Len(s)
  <2>1. ~(o =< a + k - 1) /\ k \in 1..Len(s)
    BY <1>1, <1>3
  <2>2. (s \o d)[k] = s[k]
    BY <2>1
  <2> QED BY <1>2, <2>1, <2>2 DEF Holds, LaidDown
<1>4. CASE k > Len(s)
  <2>1. /\ o =< a + k - 1 /\ a + k - 1 < o + Len(d)
        /\ (a + k - 1) - o + 1 = k - Len(s) /\ k - Len(s) \in 1..Len(d)
    BY <1>1, <1>4
  <2>2. (s \o d)[k] = d[k - Len(s)]
    BY <1>1, <1>4, <2>1
  <2> QED BY <1>2, <2>1, <2>2 DEF LaidDown
<1> QED BY <1>1, <1>3, <1>4

\* MEM_DATA lays its payload down after the last one, or changes nothing.
LEMMA MemDataLoads ==
  ASSUME Loaded, FrameDiscipline, MemData
  PROVE  Loaded'
<1>1. CASE MemDataResult # "SUCCESS"
  BY <1>1 DEF MemData, Loaded, LoadType, LoadIsExact, Bytes
<1>2. CASE MemDataResult = "SUCCESS"
  <2>1. /\ ctx.cmd = "MEM_DATA" /\ ctx \in workload /\ workload \in Workloads
        /\ FrameFits(ctx) /\ ctx.packet \in Nat
    BY MemoryAssumption DEF MemData, Handles, Working, FrameDiscipline
  <2>2. /\ ctx.packet >= MEM_DATA_HEADER_SIZE /\ in_progress
        /\ ~(total_remaining < ctx.arg.len) /\ ctx.arg.len = DataSize
    BY <1>2, <2>1, DataIsTested DEF Loaded, LoadType
  <2> DEFINE d == ctx.arg.data
  <2>3. d \in Seq(Nat) /\ Len(d) = DataSize /\ DataSize \in Nat
    BY <2>1, <2>2, MemoryAssumption DEF DataSize
  <2> HIDE DEF d
  <2>4. DataSize =< total_remaining
    BY <2>2, <2>3 DEF Loaded, LoadType
  <2>5. /\ offset = began + Len(accepted) /\ total_remaining = announced - Len(accepted)
        /\ \A k \in 1..Len(accepted) : ram[began + k - 1] = accepted[k]
    BY <2>2 DEF Loaded, LoadIsExact
  <2>6. /\ ram' = [w \in Bytes |-> IF offset =< w /\ w < offset + DataSize
                                    THEN d[w - offset + 1] ELSE ram[w]]
        /\ offset' = offset + DataSize /\ total_remaining' = total_remaining - DataSize
        /\ UNCHANGED <<in_progress, began, announced>>
    BY <1>2 DEF MemData, d
  <2>7. accepted' = accepted \o d
    BY <1>2, <2>1 DEF MemData, FrameFits, Whole, d
  <2>8. /\ accepted' \in Seq(Nat) /\ Len(accepted') = Len(accepted) + DataSize
        /\ Len(accepted) \in Nat
    <3>1. accepted \in Seq(Nat)
      BY DEF Loaded, LoadType
    <3>2. accepted \o d \in Seq(Nat) /\ Len(accepted \o d) = Len(accepted) + Len(d)
          /\ Len(accepted) \in Nat
      BY <2>3, <3>1, Concatenated
    <3> QED BY <2>3, <2>7, <3>2
  <2>9. ram' \in [Bytes -> Nat]
    <3>1. ASSUME NEW w \in Bytes, offset =< w, w < offset + DataSize
          PROVE  d[w - offset + 1] \in Nat
      <4>1. w - offset + 1 \in 1..Len(d)
        BY <2>3, <3>1, MemoryAssumption DEF Bytes, Loaded, LoadType
      <4> QED BY <2>3, <4>1
    <3> QED BY <2>6, <3>1 DEF Loaded, LoadType
  <2>10. began + Len(accepted) + DataSize =< RAM
    BY <2>3, <2>4, <2>5, <2>8, MemoryAssumption DEF Loaded, LoadType
  <2>11. LoadType'
    BY <2>3, <2>4, <2>5, <2>6, <2>8, <2>9 DEF Loaded, LoadType, Bytes
  <2>12. \A k \in 1..Len(accepted') : ram'[began' + k - 1] = accepted'[k]
    <3>1. \A w \in Bytes : ram'[w] = IF offset =< w /\ w < offset + Len(d)
                                      THEN d[w - offset + 1] ELSE ram[w]
      BY <2>3, <2>6
    <3>2. /\ began \in Nat /\ accepted \in Seq(Nat) /\ offset \in Nat /\ RAM \in Nat
          /\ ram \in [Bytes -> Nat]
      BY MemoryAssumption DEF Loaded, LoadType
    <3>3. began + Len(accepted) + Len(d) =< RAM
      BY <2>3, <2>10
    <3> HIDE DEF Bytes
    <3>4. \A k \in 1..Len(accepted \o d) : ram'[began + k - 1] = (accepted \o d)[k]
      <4>1. LaidDown(ram, ram', offset, d) /\ Holds(ram, began, accepted)
        BY <2>5, <3>1 DEF LaidDown, Holds
      <4>2. Holds(ram', began, accepted \o d)
        BY <2>3, <2>5, <2>9, <3>2, <3>3, <4>1, LoadGrows
      <4> QED BY <4>2 DEF Holds
    <3>5. began' = began
      BY <2>6
    <3> QED BY <2>7, <3>4, <3>5
  <2>13. offset' = began' + Len(accepted') /\ total_remaining' = announced' - Len(accepted')
    BY <2>3, <2>5, <2>6, <2>8 DEF Loaded, LoadType
  <2> QED BY <2>11, <2>12, <2>13 DEF Loaded, LoadIsExact
<1> QED BY <1>1, <1>2

\* MEM_END closes the session and writes no memory.
LEMMA MemEndLoads ==
  ASSUME Loaded, MemEnd
  PROVE  Loaded'
<1>1. UNCHANGED <<ram, began, announced, accepted>>
  BY DEF MemEnd, memoryHist
<1>2. \/ total_remaining' = 0 /\ offset' = 0 /\ in_progress' = FALSE
      \/ UNCHANGED <<total_remaining, offset, in_progress>>
  BY DEF MemEnd, memoryState
<1>3. LoadType'
  <2>1. total_remaining' \in Nat /\ offset' \in Nat /\ in_progress' \in BOOLEAN
    <3>1. total_remaining \in Nat /\ offset \in Nat /\ in_progress \in BOOLEAN
      BY DEF Loaded, LoadType
    <3>2. CASE total_remaining' = 0 /\ offset' = 0 /\ in_progress' = FALSE
      BY <3>2
    <3>3. CASE UNCHANGED <<total_remaining, offset, in_progress>>
      BY <3>1, <3>3
    <3> QED BY <1>2, <3>2, <3>3
  <2>2. /\ began' \in Nat /\ announced' \in Nat /\ began' + announced' =< RAM
        /\ accepted' \in Seq(Nat) /\ Len(accepted') =< announced'
    BY <1>1 DEF Loaded, LoadType
  <2>3. ram' \in [Bytes -> Nat]
    BY <1>1 DEF Loaded, LoadType, Bytes
  <2> QED BY <2>1, <2>2, <2>3 DEF LoadType, Bytes
<1>4. LoadIsExact'
  BY <1>1, <1>2 DEF Loaded, LoadIsExact
<1> QED BY <1>3, <1>4 DEF Loaded

\* A step keeps memory loaded exactly as the host sent it.
LEMMA LoadStep == Loaded /\ FrameDiscipline /\ [Next]_vars => Loaded'
<1> SUFFICES ASSUME Loaded, FrameDiscipline, [Next]_vars PROVE Loaded'
  OBVIOUS
<1>1. CASE UNCHANGED <<memoryState, ram, memoryHist>>
  BY <1>1 DEF memoryState, memoryHist, Loaded, LoadType, LoadIsExact, Bytes
<1>2. CASE MemoryHandler
  <2>1. CASE WriteReg
    BY <1>1, <2>1 DEF WriteReg
  <2> QED BY <1>2, <2>1, MemBeginLoads, MemDataLoads, MemEndLoads DEF MemoryHandler
<1>3. CASE Jump \/ UserReturns
  BY <1>1, <1>3 DEF Jump, UserReturns, memoryVars
<1> QED BY <1>1, <1>2, <1>3 DEF Next, Stub, vars, memoryVars

\* Memory holds exactly the data accepted, for any host whose frames say what is
\* in them and announce a piece of memory, and for any damaged frames in between.
THEOREM MemoryIsLoaded == Spec => []LoadIsExact
<1>1. Init => Loaded /\ FrameDiscipline
  <2> SUFFICES ASSUME Init PROVE Loaded /\ FrameDiscipline
    OBVIOUS
  <2>1. FrameDiscipline
    BY DEF Init, DispatchInit, FrameDiscipline, Working
  <2>2. accepted = <<>> /\ accepted \in Seq(Nat) /\ Len(accepted) = 0
    BY DEF Init, MemoryInit
  <2>3. LoadType
    <3>1. ram \in [Bytes -> Nat]
      BY DEF Init, MemoryInit
    <3>2. /\ total_remaining = 0 /\ offset = 0 /\ in_progress = FALSE
          /\ began = 0 /\ announced = 0
      BY DEF Init, MemoryInit
    <3>3. RAM \in Nat
      BY MemoryAssumption
    <3>4. in_progress \in BOOLEAN
      BY <3>2
    <3>5. began + announced =< RAM /\ Len(accepted) =< announced
      BY <2>2, <3>2, <3>3
    <3> QED BY <2>2, <3>1, <3>2, <3>4, <3>5 DEF LoadType
  <2>4. LoadIsExact
    BY <2>2 DEF Init, MemoryInit, LoadIsExact
  <2> QED BY <2>1, <2>3, <2>4 DEF Loaded
<1>2. Loaded /\ FrameDiscipline /\ [Next]_vars => Loaded' /\ FrameDiscipline'
  BY LoadStep, FrameStep, NextDispatches
<1>3. Loaded => LoadIsExact
  BY DEF Loaded
<1> QED BY <1>1, <1>2, <1>3, PTL DEF Spec

-----------------------------------------------------------------------------
(* What a success promises.                                                    *)

RegionOps ==
  {"ERASE_FLASH", "ERASE_REGION", "SPI_FLASH_MD5", "NAND_ERASE_FLASH", "NAND_ERASE_REGION"}

BlankBetween(f, a, b) == \A c \in Cells : a =< c /\ c < b => f[c] = BLANK

\* While ERASE_REGION is at work all that it has passed is blank, and what it has
\* passed and what is left make up its region.
EraseDone ==
  pc \in {"erase_region", "wait_ready"} =>
    /\ ctx.cmd = "ERASE_REGION" /\ ctx.arg.addr \in Nat /\ ctx.arg.size \in Nat
    /\ addr \in Nat /\ erase_size \in Nat /\ timeout_us \in Nat
    /\ addr + erase_size = ctx.arg.addr + ctx.arg.size
    /\ BlankBetween(flash, ctx.arg.addr, addr)
    /\ pc = "wait_ready" => erase_size = 0 \/ timeout_us = 0

\* The n cells from a on.
CellsFrom(a, n) == [k \in 1..n |-> a + k - 1]

\* While SPI_FLASH_MD5 is at work it has hashed its region up to where it reads.
HashDone ==
  pc = "md5" =>
    /\ ctx.cmd = "SPI_FLASH_MD5" /\ ctx.arg.addr \in Nat /\ ctx.arg.size \in Nat
    /\ aligned_addr \in Nat /\ md5_offset \in Nat /\ md5_offset < WORD
    /\ remaining \in Nat /\ remaining =< ctx.arg.size
    /\ hashed = CellsFrom(ctx.arg.addr, ctx.arg.size - remaining)
    /\ remaining > 0 =>
         aligned_addr + md5_offset = ctx.arg.addr + (ctx.arg.size - remaining)

FirstBlock == IF ctx.cmd = "NAND_ERASE_FLASH" THEN 0 ELSE ctx.arg.addr \div 2
EndBlock ==
  IF ctx.cmd = "NAND_ERASE_FLASH" THEN NAND_BLOCKS ELSE (ctx.arg.addr + ctx.arg.size) \div 2

\* The region is of whole blocks.
OfBlocks(a, n) == a \in Nat /\ n \in Nat /\ a % 2 = 0 /\ n % 2 = 0

\* While a NAND erase is at work the blocks it has passed are blank.
NandDone ==
  /\ nand \in [0..(NAND_BLOCKS - 1) -> {BLANK, OLD, MIXED}]
  /\ pc = "nand_erase" =>
       /\ ctx.cmd \in {"NAND_ERASE_FLASH", "NAND_ERASE_REGION"}
       /\ ctx.cmd = "NAND_ERASE_REGION" => OfBlocks(ctx.arg.addr, ctx.arg.size)
       /\ block \in Nat /\ last = EndBlock
       /\ \A b \in 0..(NAND_BLOCKS - 1) : FirstBlock =< b /\ b < block => nand[b] = BLANK

Doing == EraseDone /\ HashDone /\ NandDone /\ SuccessMeansDone

\* A success of a command that works on no region promises nothing.
LEMMA OthersPromiseNothing ==
  ASSUME NEW f, f.cmd \notin RegionOps
  PROVE  Done(f)
BY DEF Done, RegionOps

\* Outside the loops only SuccessMeansDone is left to show.
LEMMA NoLoop ==
  ASSUME NandDone, nand' = nand, pc' \in {"idle", "handler", "respond", "post", "user"},
         SuccessMeansDone'
  PROVE  Doing'
BY DEF NandDone, EraseDone, HashDone, Doing

\* An answer that is an error promises nothing.
LEMMA RefusalDoes ==
  ASSUME Doing, NEW r, r # "SUCCESS", Handled(r), nand' = nand
  PROVE  Doing'
<1>1. pc' = "respond" /\ accumulated_result' # "SUCCESS"
  BY DEF Handled, Returns
<1>2. SuccessMeansDone'
  BY <1>1 DEF SuccessMeansDone
<1> QED BY <1>1, <1>2, NoLoop DEF Doing

\* An answer to a command that works on no region promises nothing.
LEMMA OtherHandlerDoes ==
  ASSUME Doing, ctx.cmd \notin RegionOps, Answers, nand' = nand
  PROVE  Doing'
<1>1. pc' = "respond" /\ ctx' = ctx
  BY DEF Answers, Returns
<1>2. Done(ctx)'
  BY <1>1, OthersPromiseNothing DEF Done, RegionOps
<1>3. SuccessMeansDone'
  BY <1>1, <1>2 DEF SuccessMeansDone
<1> QED BY <1>1, <1>3, NoLoop DEF Doing

\* A handler whose command is on no region.
LEMMA OffRegion ==
  ASSUME Doing, pc = "handler", ctx.cmd \notin RegionOps, HandlerStep, nand' = nand,
         pc' \in {"idle", "respond"}
  PROVE  Doing'
<1>1. CASE Answers
  BY <1>1, OtherHandlerDoes
<1>2. CASE GoesOn
  BY <1>2 DEF GoesOn, Working
<1>3. CASE RunUserCode
  <2>1. SuccessMeansDone'
    BY <1>3 DEF RunUserCode, SuccessMeansDone
  <2> QED BY <1>3, <2>1, NoLoop DEF RunUserCode, Doing
<1> QED BY <1>1, <1>2, <1>3 DEF HandlerStep

\* The handlers that keep nothing between two commands keep Doing.
LEMMA SimpleHandlerDoes ==
  ASSUME Doing, SimpleHandler, UNCHANGED chipVars
  PROVE  Doing'
<1>1. pc = "handler" /\ nand' = nand
  BY DEF SimpleHandler, Sync, ReadFlash, FlashData, ChangeBaudrate, SpiAttach, SpiSetParams,
         ReadReg, GetSecurityInfo, RunUserCode, UnknownCommand, PluginUnsupported, OtherPlugin,
         HandlesPlugin, Handles, chipVars, nandVars
<1>2. CASE PluginUnsupported
  BY <1>1, <1>2, RefusalDoes DEF PluginUnsupported
<1>3. CASE ~PluginUnsupported
  <2>1. ctx.cmd \notin RegionOps
    BY <1>3 DEF SimpleHandler, Sync, ReadFlash, FlashData, ChangeBaudrate, SpiAttach,
            SpiSetParams, ReadReg, GetSecurityInfo, RunUserCode, UnknownCommand, OtherPlugin,
            HandlesPlugin, Handles, RegionOps
  <2>2. pc' \in {"idle", "respond"}
    BY <1>3 DEF SimpleHandler, Sync, ReadFlash, FlashData, ChangeBaudrate, SpiAttach,
            SpiSetParams, ReadReg, GetSecurityInfo, RunUserCode, UnknownCommand, OtherPlugin,
            Register, Handled, Returns
  <2> QED BY <1>1, <2>1, <2>2, SimpleHandlerStep, OffRegion
<1> QED BY <1>2, <1>3

\* The memory commands and WRITE_REG keep Doing.
LEMMA MemoryHandlerDoes ==
  ASSUME Doing, MemoryHandler, UNCHANGED chipVars
  PROVE  Doing'
<1>1. /\ pc = "handler" /\ nand' = nand /\ ctx.cmd \notin RegionOps
  BY DEF MemoryHandler, MemBegin, MemData, MemEnd, WriteReg, Handles, RegionOps, chipVars,
         nandVars
<1>2. pc' = "respond"
  BY DEF MemoryHandler, MemBegin, MemData, MemEnd, WriteReg, Handled, Returns
<1> QED BY <1>1, <1>2, MemoryHandlerStep, OffRegion

-----------------------------------------------------------------------------
(* The digest.                                                                 *)

\* ALIGN_UP() is no less than what it aligns.
LEMMA AlignedIsEnough ==
  ASSUME NEW n \in Nat, NEW a \in Nat \ {0}
  PROVE  AlignUpTo(n, a) \in Nat /\ AlignUpTo(n, a) >= n
<1> DEFINE m == n + a - 1
           q == m \div a
<1>1. m \in Nat /\ m = n + a - 1
  OBVIOUS
<1> HIDE DEF m
<1>2. m = a * q + (m % a) /\ m % a \in 0..(a - 1) /\ q \in Nat
  BY <1>1, SMT
<1>3. AlignUpTo(n, a) = q * a
  BY <1>1 DEF AlignUpTo
<1> HIDE DEF q
<1>4. q * a = a * q /\ a * q \in Nat
  BY <1>2, SMT
<1>5. ASSUME NEW p \in Nat, NEW w \in 0..(a - 1), n + a - 1 = p + w PROVE p >= n
  BY <1>5
<1> QED BY <1>1, <1>2, <1>3, <1>4, <1>5

\* What is read for a chunk reaches past the cells that are skipped in it.
LEMMA ChunkReaches ==
  ASSUME NEW r \in Nat \ {0}, NEW o \in Nat, o < WORD
  PROVE  /\ AlignUpTo(Least(r + o, MD5_BUFFER), WORD) \in Nat
         /\ AlignUpTo(Least(r + o, MD5_BUFFER), WORD) > o
<1>1. Least(r + o, MD5_BUFFER) \in Nat /\ Least(r + o, MD5_BUFFER) > o
  BY ChipAssumption DEF Least
<1>2. WORD \in Nat \ {0}
  BY ChipAssumption
<1> HIDE DEF Least
<1> QED BY <1>1, <1>2, AlignedIsEnough

\* Names for the provers to match: sequences joined, and n cells read where m cells
\* from a on end.
Joined(s, t) == s \o t
Adjoins(a, m, n, b, o) == b + o = a + m

\* What is read of a buffer that starts at b, from o on.
ReadFrom(b, o, n) == [k \in 1..n |-> b + (o + k - 1)]

\* Two sequences of one length and the same elements are equal.
LEMMA SameList ==
  ASSUME NEW s \in Seq(Int), NEW t \in Seq(Int), Len(s) = Len(t),
         \A k \in 1..Len(t) : s[k] = t[k]
  PROVE  s = t
OBVIOUS

\* The cells hashed up to m and the n read next to them are the cells up to m + n.
LEMMA HashGrows ==
  ASSUME NEW a \in Nat, NEW m \in Nat, NEW n \in Nat, NEW b \in Nat, NEW o \in Nat,
         Adjoins(a, m, n, b, o)
  PROVE  Joined(CellsFrom(a, m), ReadFrom(b, o, n)) = CellsFrom(a, m + n)
<1> DEFINE s == [k \in 1..m |-> a + k - 1]
           t == [k \in 1..n |-> b + (o + k - 1)]
           u == [k \in 1..(m + n) |-> a + k - 1]
<1>1. s \in Seq(Int) /\ Len(s) = m
  OBVIOUS
<1>2. t \in Seq(Int) /\ Len(t) = n
  OBVIOUS
<1>3. u \in Seq(Int) /\ Len(u) = m + n
  OBVIOUS
<1>4. s \o t \in Seq(Int) /\ Len(s \o t) = m + n
  BY <1>1, <1>2
<1>5. ASSUME NEW k \in 1..(m + n) PROVE (s \o t)[k] = u[k]
  <2>1. CASE k =< m
    BY <2>1, <1>1, <1>2
  <2>2. CASE k > m
    BY <2>2, <1>1, <1>2 DEF Adjoins
  <2> QED BY <2>1, <2>2
<1> HIDE DEF s, t, u
<1>6. s \o t = u
  <2>1. \A k \in 1..Len(u) : (s \o t)[k] = u[k]
    BY <1>3, <1>5
  <2> QED BY <1>3, <1>4, <2>1, SameList
<1> QED BY <1>6 DEF s, t, u, CellsFrom, ReadFrom, Joined

\* The word an address lies in begins at or before it.
LEMMA WordStart ==
  ASSUME NEW a \in Nat, NEW w \in Nat \ {0}
  PROVE  /\ a % w \in Nat /\ a % w < w /\ a - (a % w) \in Nat
         /\ (a - (a % w)) + (a % w) = a
<1>1. a = w * (a \div w) + (a % w) /\ a % w \in 0..(w - 1) /\ a \div w \in Nat
  BY SMT
<1>2. w * (a \div w) \in Nat
  BY <1>1, SMT
<1>3. ASSUME NEW p \in Nat, NEW m \in 0..(w - 1), a = p + m
      PROVE  m \in Nat /\ m < w /\ a - m \in Nat /\ (a - m) + m = a
  BY <1>3
<1> QED BY <1>1, <1>2, <1>3

\* SPI_FLASH_MD5 reads from the word its region starts in.
LEMMA FlashMd5Does ==
  ASSUME Doing, FrameDiscipline, FlashMd5
  PROVE  Doing'
<1>1. nand' = nand
  BY DEF FlashMd5, nandVars
<1>2. CASE ctx.packet # SPI_FLASH_MD5_SIZE
  BY <1>1, <1>2, RefusalDoes DEF FlashMd5
<1>3. CASE ctx.packet = SPI_FLASH_MD5_SIZE
  <2>1. ctx.cmd = "SPI_FLASH_MD5" /\ ctx \in workload /\ workload \in Workloads
    BY DEF FlashMd5, Handles, Working, FrameDiscipline
  <2>2. ctx.arg.addr \in Nat /\ ctx.arg.size \in Nat
    BY <1>3, <2>1, ChipAssumption DEF OnRegion
  <2>3. /\ pc' = "md5" /\ ctx' = ctx
        /\ aligned_addr' = ctx.arg.addr - (ctx.arg.addr % WORD)
        /\ md5_offset' = ctx.arg.addr % WORD
        /\ remaining' = ctx.arg.size /\ hashed' = <<>>
    BY <1>3 DEF FlashMd5, dispatchRest
  <2>4. WORD \in Nat \ {0}
    BY ChipAssumption
  <2>5. md5_offset' \in Nat /\ md5_offset' < WORD /\ aligned_addr' \in Nat
        /\ aligned_addr' + md5_offset' = ctx.arg.addr
    BY <2>2, <2>3, <2>4, WordStart
  <2>6. hashed' = CellsFrom(ctx.arg.addr, ctx.arg.size - ctx.arg.size)
    BY <2>2, <2>3 DEF CellsFrom
  <2>7. ctx.arg.addr + (ctx.arg.size - ctx.arg.size) = ctx.arg.addr
    BY <2>2
  <2>8. HashDone'
    BY <2>1, <2>2, <2>3, <2>5, <2>6, <2>7 DEF HashDone
  <2> QED BY <1>1, <2>3, <2>8 DEF Doing, EraseDone, NandDone, SuccessMeansDone
<1> QED BY <1>2, <1>3

\* A chunk read by handle_flash_get_md5() adds exactly the next cells of the region.
LEMMA HashChunkDoes ==
  ASSUME Doing, HashChunk
  PROVE  Doing'
<1> DEFINE from == ctx.arg.addr
           done == ctx.arg.size - remaining
           taken == BytesToHash
           chunk == AlignedChunk
<1>1. pc = "md5" /\ pc' = "md5" /\ UNCHANGED <<ctx, nand>>
  BY DEF HashChunk, Within, dispatchRest, nandVars
<1>2. /\ ctx.cmd = "SPI_FLASH_MD5" /\ from \in Nat /\ ctx.arg.size \in Nat
      /\ aligned_addr \in Nat /\ md5_offset \in Nat /\ md5_offset < WORD
      /\ remaining \in Nat /\ remaining =< ctx.arg.size /\ remaining > 0
      /\ hashed = CellsFrom(from, done)
      /\ aligned_addr + md5_offset = from + done
  BY <1>1 DEF HashChunk, Doing, HashDone
<1>3. chunk \in Nat /\ chunk > md5_offset
  <2>1. remaining \in Nat \ {0} /\ md5_offset \in Nat /\ md5_offset < WORD
    BY <1>2
  <2>2. /\ AlignUpTo(Least(remaining + md5_offset, MD5_BUFFER), WORD) \in Nat
        /\ AlignUpTo(Least(remaining + md5_offset, MD5_BUFFER), WORD) > md5_offset
    BY <2>1, ChunkReaches
  <2> QED BY <2>2 DEF AlignedChunk
<1>4. /\ hashed' = hashed \o [k \in 1..taken |-> Read(md5_offset + k - 1)]
      /\ aligned_addr' = aligned_addr + chunk /\ remaining' = remaining - taken
      /\ md5_offset' = 0
  BY DEF HashChunk
<1>5. taken = IF remaining < chunk - md5_offset THEN remaining ELSE chunk - md5_offset
  BY DEF BytesToHash, Least
<1> HIDE DEF taken, chunk
<1>6. taken \in Nat /\ taken > 0 /\ taken =< remaining /\ taken =< chunk - md5_offset
      /\ (taken < remaining => taken = chunk - md5_offset)
  BY <1>2, <1>3, <1>5
<1>7. \A k \in 1..taken : Read(md5_offset + k - 1) = aligned_addr + (md5_offset + k - 1)
  BY <1>2, <1>3, <1>6 DEF Read, chunk
<1>8. [k \in 1..taken |-> Read(md5_offset + k - 1)]
        = ReadFrom(aligned_addr, md5_offset, taken)
  BY <1>7 DEF ReadFrom
<1>9. done \in Nat
  BY <1>2
<1> HIDE DEF done, from
<1>10. hashed' = CellsFrom(from, done + taken)
  <2>1. Joined(CellsFrom(from, done), ReadFrom(aligned_addr, md5_offset, taken))
          = CellsFrom(from, done + taken)
    <3>1. from \in Nat /\ done \in Nat /\ taken \in Nat /\ aligned_addr \in Nat /\ md5_offset \in Nat
          /\ Adjoins(from, done, taken, aligned_addr, md5_offset)
      BY <1>2, <1>6, <1>9 DEF Adjoins
    <3> QED BY <3>1, HashGrows
  <2> QED BY <1>2, <1>4, <1>8, <2>1 DEF Joined
<1>11. done + taken = ctx.arg.size - (remaining - taken)
  BY <1>2, <1>6 DEF done
<1>12. remaining - taken > 0 => (aligned_addr + chunk) + 0 = from + (ctx.arg.size - (remaining - taken))
  BY <1>2, <1>3, <1>6 DEF done
<1>13. remaining - taken \in Nat /\ remaining - taken =< ctx.arg.size /\ aligned_addr + chunk \in Nat
       /\ 0 < WORD
  BY <1>2, <1>3, <1>6, ChipAssumption
<1>14. HashDone'
  BY <1>1, <1>2, <1>4, <1>10, <1>11, <1>12, <1>13 DEF HashDone, from
<1> QED BY <1>1, <1>14 DEF Doing, EraseDone, NandDone, SuccessMeansDone

\* The digest is answered only when nothing remains, or with an error.
LEMMA Md5EndsDoes ==
  ASSUME Doing, Md5Ends
  PROVE  Doing'
<1>1. nand' = nand
  BY DEF Md5Ends, chipVars, nandVars
<1>2. CASE remaining = 0 /\ Handled("SUCCESS")
  <2>1. /\ ctx.cmd = "SPI_FLASH_MD5" /\ ctx.arg.size \in Nat
        /\ hashed = CellsFrom(ctx.arg.addr, ctx.arg.size - 0)
    BY <1>2 DEF Md5Ends, Doing, HashDone
  <2>2. ctx.arg.size - 0 = ctx.arg.size
    BY <2>1
  <2>3. hashed = [k \in 1..ctx.arg.size |-> ctx.arg.addr + k - 1]
    BY <2>1, <2>2 DEF CellsFrom
  <2>4. pc' = "respond" /\ ctx' = ctx /\ hashed' = hashed
    BY <1>2 DEF Md5Ends, Handled, Returns, chipVars, md5Vars
  <2>5. Done(ctx)'
    BY <2>1, <2>3, <2>4 DEF Done
  <2> QED BY <1>1, <2>4, <2>5, NoLoop DEF SuccessMeansDone, Doing
<1>3. CASE Handled("FAILED_SPI_OP")
  BY <1>1, <1>3, RefusalDoes
<1> QED BY <1>2, <1>3 DEF Md5Ends

-----------------------------------------------------------------------------
(* The erase of a region.                                                      *)

\* An erase that begins where the blank cells end leaves all blank up to its own end.
LEMMA ErasedGrows ==
  ASSUME NEW f, NEW a \in Nat, NEW b \in Nat, NEW n \in Nat, BlankBetween(f, a, b)
  PROVE  BlankBetween(Erased(f, b, n), a, b + n)
<1> SUFFICES ASSUME NEW c \in Cells, a =< c, c < b + n PROVE Erased(f, b, n)[c] = BLANK
  BY DEF BlankBetween
<1>1. Erased(f, b, n)[c] = IF b =< c /\ c < b + n THEN BLANK ELSE f[c]
  BY DEF Erased
<1>2. CASE b =< c
  BY <1>1, <1>2
<1>3. CASE ~(b =< c)
  <2>1. c \in Int
    BY DEF Cells
  <2>2. f[c] = BLANK
    BY <1>3, <2>1 DEF BlankBetween
  <2> QED BY <1>1, <1>3, <2>2
<1> QED BY <1>2, <1>3

\* ERASE_FLASH answers with success only of a blank chip at rest.
LEMMA EraseFlashDoes ==
  ASSUME Doing, EraseFlash
  PROVE  Doing'
<1>1. nand' = nand /\ ctx.cmd = "ERASE_FLASH"
  BY DEF EraseFlash, nandVars, Handles
<1>2. CASE Handled("SUCCESS") /\ flash' = Erased(flash, 0, CELLS) /\ busy' = FALSE
  <2>1. pc' = "respond" /\ ctx' = ctx
    BY <1>2 DEF Handled, Returns
  <2>2. IsBlank(0, CELLS)'
    BY <1>2 DEF IsBlank, Erased
  <2>3. Done(ctx)'
    BY <1>1, <1>2, <2>1, <2>2 DEF Done
  <2> QED BY <1>1, <2>1, <2>3, NoLoop DEF SuccessMeansDone, Doing
<1>3. CASE Handled("FAILED_SPI_OP")
  BY <1>1, <1>3, RefusalDoes
<1> QED BY <1>2, <1>3 DEF EraseFlash

\* ERASE_REGION begins its loop at its region, or refuses.
LEMMA EraseRegionDoes ==
  ASSUME Doing, FrameDiscipline, EraseRegion
  PROVE  Doing'
<1>1. nand' = nand
  BY DEF EraseRegion, nandVars
<1> DEFINE refused == \/ ctx.packet # ERASE_REGION_SIZE
                      \/ ctx.arg.addr % SECTOR # 0 \/ ctx.arg.size % SECTOR # 0
<1>2. CASE refused
  <2>1. Handled("BAD_DATA_LEN")
    BY <1>2 DEF EraseRegion
  <2> QED BY <1>1, <2>1, RefusalDoes
<1>3. CASE ~refused
  <2>1. /\ pc' = "erase_region" /\ UNCHANGED dispatchRest
        /\ addr' = ctx.arg.addr /\ erase_size' = ctx.arg.size
        /\ timeout_us' = (((ctx.arg.size + SECTOR - 1) \div SECTOR)
                          * ERASE_PER_SECTOR_TIMEOUT_US) % WRAP
        /\ UNCHANGED flash
    BY <1>3 DEF EraseRegion
  <2>2. /\ ctx.cmd = "ERASE_REGION" /\ ctx \in workload /\ workload \in Workloads
        /\ ctx.packet = ERASE_REGION_SIZE
    BY <1>3 DEF EraseRegion, Handles, Working, FrameDiscipline
  <2>3. ctx.arg.addr \in Nat /\ ctx.arg.size \in Nat
    BY <2>2, ChipAssumption DEF OnRegion
  <2>4. timeout_us' \in Nat
    <3>1. ASSUME NEW m \in Int PROVE m % WRAP \in Nat
      BY ChipAssumption
    <3>2. ((ctx.arg.size + SECTOR - 1) \div SECTOR) * ERASE_PER_SECTOR_TIMEOUT_US \in Int
      <4>1. (ctx.arg.size + SECTOR - 1) \div SECTOR \in Int
        BY <2>3, ChipAssumption
      <4>2. ASSUME NEW q \in Int PROVE q * ERASE_PER_SECTOR_TIMEOUT_US \in Int
        BY ChipAssumption
      <4> QED BY <4>1, <4>2
    <3> QED BY <2>1, <3>1, <3>2
  <2>5. ctx' = ctx
    BY <2>1 DEF dispatchRest
  <2>6. BlankBetween(flash', ctx.arg.addr, ctx.arg.addr)
    BY <2>3 DEF BlankBetween, Cells
  <2>7. EraseDone'
    BY <2>1, <2>2, <2>3, <2>4, <2>5, <2>6 DEF EraseDone
  <2> QED BY <1>1, <2>1, <2>7 DEF Doing, HashDone, NandDone, SuccessMeansDone
<1> QED BY <1>2, <1>3

\* A call of the erase loop extends what is blank by what it takes off the size.
LEMMA EraseNextDoes ==
  ASSUME Doing, EraseNext
  PROVE  Doing'
<1>1. /\ pc = "erase_region" /\ pc' = "erase_region" /\ UNCHANGED <<ctx, nand>>
      /\ erase_size > 0 /\ timeout_us > 0
  BY DEF EraseNext, Within, dispatchRest, nandVars
<1>2. /\ ctx.cmd = "ERASE_REGION" /\ ctx.arg.addr \in Nat /\ ctx.arg.size \in Nat
      /\ addr \in Nat /\ erase_size \in Nat /\ timeout_us \in Nat
      /\ addr + erase_size = ctx.arg.addr + ctx.arg.size
      /\ BlankBetween(flash, ctx.arg.addr, addr)
  BY <1>1 DEF Doing, EraseDone
<1>3. PICK done \in BOOLEAN : StartNextErase(done) /\ timeout_us' = CountDown(done)
  BY DEF EraseNext
<1>4. timeout_us' \in Nat
  BY <1>1, <1>2, <1>3 DEF CountDown
<1>5. CASE UNCHANGED <<flash, busy, addr, erase_size>>
  <2>1. EraseDone'
    BY <1>1, <1>2, <1>4, <1>5 DEF EraseDone, BlankBetween
  <2> QED BY <1>1, <2>1 DEF Doing, HashDone, NandDone, SuccessMeansDone
<1>6. ASSUME NEW n \in 1..erase_size, flash' = Erased(flash, addr, n),
             addr' = addr + n, erase_size' = erase_size - n
      PROVE  Doing'
  <2>1. n \in Nat /\ addr + n \in Nat /\ erase_size - n \in Nat
        /\ (addr + n) + (erase_size - n) = ctx.arg.addr + ctx.arg.size
    BY <1>2
  <2>2. BlankBetween(flash', ctx.arg.addr, addr + n)
    BY <1>2, <1>6, <2>1, ErasedGrows
  <2>3. EraseDone'
    BY <1>1, <1>2, <1>4, <1>6, <2>1, <2>2 DEF EraseDone, BlankBetween
  <2> QED BY <1>1, <2>3 DEF Doing, HashDone, NandDone, SuccessMeansDone
<1> QED BY <1>3, <1>5, <1>6 DEF StartNextErase

\* The erase loop ends with nothing left or with no time left.
LEMMA EraseLoopEndsDoes ==
  ASSUME Doing, EraseLoopEnds
  PROVE  Doing'
<1>1. /\ pc = "erase_region" /\ pc' = "wait_ready" /\ UNCHANGED <<ctx, nand, flash>>
      /\ UNCHANGED <<addr, erase_size, timeout_us>> /\ (erase_size = 0 \/ timeout_us = 0)
  BY DEF EraseLoopEnds, Within, dispatchRest, chipVars, nandVars, eraseVars
<1>2. EraseDone'
  BY <1>1 DEF Doing, EraseDone, BlankBetween
<1> QED BY <1>1, <1>2 DEF Doing, HashDone, NandDone, SuccessMeansDone

\* The wait for the chip answers with success only when all was erased and it is ready.
LEMMA WaitReadyDoes ==
  ASSUME Doing, WaitReady
  PROVE  Doing'
<1>1. /\ pc = "wait_ready" /\ UNCHANGED <<nand, flash, busy, addr, erase_size, timeout_us>>
  BY DEF WaitReady, chipVars, nandVars, eraseVars
<1>2. CASE Handled("FAILED_SPI_OP")
  BY <1>1, <1>2, RefusalDoes
<1>3. ASSUME Handled("SUCCESS"), ~busy \/ timeout_us = 0
      PROVE  Doing'
  <2>1. pc' = "respond" /\ ctx' = ctx
    BY <1>3 DEF Handled, Returns
  <2>2. /\ ctx.cmd = "ERASE_REGION" /\ ctx.arg.addr \in Nat /\ ctx.arg.size \in Nat
        /\ addr \in Nat /\ timeout_us \in Nat
        /\ addr + erase_size = ctx.arg.addr + ctx.arg.size
        /\ BlankBetween(flash, ctx.arg.addr, addr)
        /\ erase_size = 0 \/ timeout_us = 0
    BY <1>1 DEF Doing, EraseDone
  <2>3. timeout_us > 0 => IsBlank(ctx.arg.addr, ctx.arg.size) /\ ~busy
    <3> SUFFICES ASSUME timeout_us > 0 PROVE IsBlank(ctx.arg.addr, ctx.arg.size) /\ ~busy
      OBVIOUS
    <3>1. ~busy /\ addr = ctx.arg.addr + ctx.arg.size
      BY <1>3, <2>2
    <3>2. BlankBetween(flash, ctx.arg.addr, ctx.arg.addr + ctx.arg.size)
      BY <2>2, <3>1
    <3> QED BY <3>1, <3>2 DEF BlankBetween, IsBlank
  <2>4. Done(ctx)'
    BY <1>1, <2>1, <2>2, <2>3 DEF Done, IsBlank
  <2> QED BY <1>1, <2>1, <2>4, NoLoop DEF SuccessMeansDone, Doing
<1> QED BY <1>2, <1>3 DEF WaitReady

-----------------------------------------------------------------------------
(* The erases of the NAND plugin.                                              *)

Blocks == 0..(NAND_BLOCKS - 1)

\* NAND_ERASE_FLASH begins its loop at the first block.
LEMMA NandEraseFlashDoes ==
  ASSUME Doing, NandEraseFlash
  PROVE  Doing'
<1>1. /\ ctx.cmd = "NAND_ERASE_FLASH" /\ pc' = "nand_erase" /\ UNCHANGED <<ctx, nand>>
      /\ block' = 0 /\ last' = NAND_BLOCKS
  BY DEF NandEraseFlash, NandLoop, HandlesPlugin, Handles, dispatchRest
<1>2. FirstBlock' = 0 /\ EndBlock' = NAND_BLOCKS
  BY <1>1 DEF FirstBlock, EndBlock
<1>3. \A b \in Blocks : ~(b < 0)
  BY DEF Blocks
<1>4. NandDone'
  BY <1>1, <1>2, <1>3 DEF NandDone, Doing, Blocks
<1> QED BY <1>1, <1>4 DEF Doing, HashDone, EraseDone, SuccessMeansDone

\* NAND_ERASE_REGION begins its loop at the first block of its region, or refuses.
LEMMA NandEraseRegionDoes ==
  ASSUME Doing, FrameDiscipline, NandEraseRegion
  PROVE  Doing'
<1>1. nand' = nand
  BY DEF NandEraseRegion
<1> DEFINE refused ==
      ctx.packet # ERASE_REGION_SIZE \/ ctx.arg.addr % 2 # 0 \/ ctx.arg.size % 2 # 0
<1>2. CASE refused
  <2>1. Handled("BAD_DATA_LEN")
    BY <1>2 DEF NandEraseRegion
  <2> QED BY <1>1, <2>1, RefusalDoes
<1>3. CASE ~refused
  <2>1. /\ ctx.cmd = "NAND_ERASE_REGION" /\ ctx \in workload /\ workload \in Workloads
        /\ ctx.packet = ERASE_REGION_SIZE
    BY <1>3 DEF NandEraseRegion, HandlesPlugin, Handles, Working, FrameDiscipline
  <2>2. ctx.arg.addr \in Nat /\ ctx.arg.size \in Nat
    BY <2>1, ChipAssumption DEF OnRegion
  <2>3. /\ pc' = "nand_erase" /\ ctx' = ctx /\ block' = ctx.arg.addr \div 2
        /\ last' = (ctx.arg.addr + ctx.arg.size) \div 2
    BY <1>3 DEF NandEraseRegion, NandLoop, dispatchRest
  <2>4. FirstBlock' = ctx.arg.addr \div 2 /\ EndBlock' = (ctx.arg.addr + ctx.arg.size) \div 2
    BY <2>1, <2>3 DEF FirstBlock, EndBlock
  <2>5. ctx.arg.addr \div 2 \in Nat
    BY <2>2
  <2>6. ASSUME NEW m \in Nat, NEW b \in Blocks PROVE ~(m =< b /\ b < m)
    BY DEF Blocks
  <2>7. OfBlocks(ctx.arg.addr, ctx.arg.size)
    BY <1>3, <2>1, <2>2 DEF OfBlocks
  <2>8. NandDone'
    BY <1>1, <2>1, <2>3, <2>4, <2>5, <2>6, <2>7 DEF NandDone, Doing, Blocks, OfBlocks
  <2> QED BY <1>1, <2>3, <2>8 DEF Doing, HashDone, EraseDone, SuccessMeansDone
<1> QED BY <1>2, <1>3

\* A block erased extends what is blank by that block.
LEMMA NandEraseBlockDoes ==
  ASSUME Doing, NandEraseBlock
  PROVE  Doing'
<1>1. /\ pc = "nand_erase" /\ pc' = "nand_erase" /\ ctx' = ctx /\ last' = last
      /\ block' = block + 1 /\ nand' = [nand EXCEPT ![block] = BLANK]
  BY DEF NandEraseBlock, Within, dispatchRest
<1>2. /\ ctx.cmd \in {"NAND_ERASE_FLASH", "NAND_ERASE_REGION"}
      /\ ctx.cmd = "NAND_ERASE_REGION" => OfBlocks(ctx.arg.addr, ctx.arg.size)
      /\ block \in Nat /\ last = EndBlock
      /\ \A b \in Blocks : FirstBlock =< b /\ b < block => nand[b] = BLANK
      /\ nand \in [Blocks -> {BLANK, OLD, MIXED}]
  BY <1>1 DEF Doing, NandDone, Blocks
<1>3. FirstBlock' = FirstBlock /\ EndBlock' = EndBlock
  BY <1>1 DEF FirstBlock, EndBlock
<1>4. nand' \in [Blocks -> {BLANK, OLD, MIXED}]
  BY <1>1, <1>2
<1>5. ASSUME NEW b \in Blocks, FirstBlock =< b, b < block + 1
      PROVE  nand'[b] = BLANK
  <2>1. CASE b = block
    BY <1>1, <1>2, <2>1
  <2>2. CASE b # block
    <3>1. b < block
      BY <1>2, <1>5, <2>2 DEF Blocks
    <3>2. nand[b] = BLANK /\ nand'[b] = nand[b]
      BY <1>1, <1>2, <1>5, <2>2, <3>1
    <3> QED BY <3>2
  <2> QED BY <2>1, <2>2
<1>6. block' \in Nat
  BY <1>1, <1>2
<1>7. \A b \in Blocks : FirstBlock' =< b /\ b < block' => nand'[b] = BLANK
  BY <1>1, <1>3, <1>5
<1>8. NandDone'
  BY <1>1, <1>2, <1>3, <1>4, <1>6, <1>7 DEF NandDone, Blocks, OfBlocks
<1> QED BY <1>1, <1>8 DEF Doing, HashDone, EraseDone, SuccessMeansDone

\* A block that does not erase ends the command with an error.
LEMMA NandEraseFailsDoes ==
  ASSUME Doing, NandEraseFails
  PROVE  Doing'
<1>1. PICK err \in {"NAND_ERR_ERASE_FAILED", "SPI"} :
        /\ Handled(NandError(err))
        /\ nand' = IF err = "SPI" THEN nand ELSE [nand EXCEPT ![block] = MIXED]
  BY DEF NandEraseFails
<1>2. NandError(err) # "SUCCESS"
  BY DEF NandError
<1>3. pc' = "respond" /\ accumulated_result' # "SUCCESS"
  BY <1>1, <1>2 DEF Handled, Returns
<1>4. nand' \in [Blocks -> {BLANK, OLD, MIXED}]
  BY <1>1 DEF Doing, NandDone, Blocks
<1> QED BY <1>3, <1>4 DEF Doing, HashDone, EraseDone, NandDone, SuccessMeansDone, Blocks

\* The NAND loop answers with success only past its last block.
LEMMA NandEraseEndsDoes ==
  ASSUME Doing, NandEraseEnds
  PROVE  Doing'
<1>1. /\ pc = "nand_erase" /\ block = last /\ nand' = nand
      /\ pc' = "respond" /\ ctx' = ctx
  BY DEF NandEraseEnds, Handled, Returns, chipVars, nandVars
<1>2. /\ ctx.cmd \in {"NAND_ERASE_FLASH", "NAND_ERASE_REGION"}
      /\ ctx.cmd = "NAND_ERASE_REGION" => OfBlocks(ctx.arg.addr, ctx.arg.size)
      /\ \A b \in Blocks : FirstBlock =< b /\ b < EndBlock => nand[b] = BLANK
      /\ DOMAIN nand = Blocks
  BY <1>1 DEF Doing, NandDone, Blocks
<1>3. CASE ctx.cmd = "NAND_ERASE_FLASH"
  <2>1. \A b \in Blocks : 0 =< b /\ b < NAND_BLOCKS
    BY ChipAssumption DEF Blocks
  <2>2. \A b \in Blocks : nand[b] = BLANK
    BY <1>2, <1>3, <2>1 DEF FirstBlock, EndBlock
  <2>3. Done(ctx)'
    BY <1>1, <1>2, <1>3, <2>2 DEF Done
  <2> QED BY <1>1, <2>3, NoLoop DEF SuccessMeansDone, Doing
<1>4. CASE ctx.cmd = "NAND_ERASE_REGION"
  <2>1. ASSUME NEW a \in Nat, NEW n \in Nat, NEW b \in Int, a =< 2 * b, 2 * b < a + n,
               a % 2 = 0, n % 2 = 0
        PROVE  a \div 2 =< b /\ b < (a + n) \div 2
    BY <2>1
  <2>2. /\ ctx.arg.addr \in Nat /\ ctx.arg.size \in Nat
        /\ ctx.arg.addr % 2 = 0 /\ ctx.arg.size % 2 = 0
    BY <1>2, <1>4 DEF OfBlocks
  <2>3. /\ FirstBlock = ctx.arg.addr \div 2
        /\ EndBlock = (ctx.arg.addr + ctx.arg.size) \div 2
    BY <1>4 DEF FirstBlock, EndBlock
  <2>4. ASSUME NEW b \in Blocks, ctx.arg.addr =< 2 * b, 2 * b < ctx.arg.addr + ctx.arg.size
        PROVE  nand[b] = BLANK
    <3>1. b \in Int
      BY DEF Blocks
    <3>2. ctx.arg.addr \div 2 =< b /\ b < (ctx.arg.addr + ctx.arg.size) \div 2
      BY <2>1, <2>2, <2>4, <3>1
    <3> QED BY <1>2, <2>3, <3>2
  <2>5. Done(ctx)'
    BY <1>1, <1>2, <1>4, <2>4 DEF Done
  <2> QED BY <1>1, <2>5, NoLoop DEF SuccessMeansDone, Doing
<1> QED BY <1>2, <1>3, <1>4

-----------------------------------------------------------------------------
(* Every step.                                                                 *)

\* The handlers that work on a chip keep Doing.
LEMMA ChipHandlerDoes ==
  ASSUME Doing, FrameDiscipline, ChipHandler
  PROVE  Doing'
<1>1. ASSUME NandQuery \/ NandReadFlash \/ NandWriteBbm
      PROVE  Doing'
  <2>1. /\ pc = "handler" /\ ctx.cmd \notin RegionOps /\ nand' = nand
    BY <1>1 DEF NandQuery, NandReadFlash, NandWriteBbm, HandlesPlugin, Handles, RegionOps,
            chipVars, nandVars
  <2>2. pc' = "respond"
    BY <1>1 DEF NandQuery, NandReadFlash, NandWriteBbm, Register, Handled, Returns
  <2> QED BY <2>1, <2>2, ChipHandlerStep, OffRegion
<1> QED BY <1>1, EraseFlashDoes, EraseRegionDoes, EraseNextDoes, EraseLoopEndsDoes,
           WaitReadyDoes, FlashMd5Does, HashChunkDoes, Md5EndsDoes, NandEraseFlashDoes,
           NandEraseRegionDoes, NandEraseBlockDoes, NandEraseFailsDoes, NandEraseEndsDoes
        DEF ChipHandler

\* A step keeps what a success promises.
LEMMA DoingStep == Doing /\ FrameDiscipline /\ [Next]_vars => Doing'
<1> SUFFICES ASSUME Doing, FrameDiscipline, [Next]_vars PROVE Doing'
  OBVIOUS
<1>1. CASE Receive /\ UNCHANGED <<memoryVars, chipVars>>
  <2>1. pc' \in {"idle", "handler"} /\ nand' = nand
    BY <1>1 DEF Receive, RefuseFrame, ReportError, Select, Request, chipVars, nandVars
  <2> QED BY <2>1, NoLoop DEF SuccessMeansDone, Doing
<1>2. CASE SimpleHandler /\ UNCHANGED <<memoryVars, chipVars>>
  BY <1>2, SimpleHandlerDoes
<1>3. CASE (SetBaudrate \/ OtherPost) /\ UNCHANGED <<memoryVars, chipVars>>
  <2>1. pc' = "idle" /\ nand' = nand
    BY <1>3 DEF SetBaudrate, OtherPost, PostReturns, chipVars, nandVars
  <2> QED BY <2>1, NoLoop DEF SuccessMeansDone, Doing
<1>4. CASE Respond /\ Return
  <2>1. pc' \in {"idle", "post"} /\ nand' = nand
    BY <1>4 DEF Respond, Return
  <2> QED BY <2>1, NoLoop DEF SuccessMeansDone, Doing
<1>5. CASE (MemoryHandler \/ Jump) /\ UNCHANGED chipVars
  <2>1. CASE Jump
    <3>1. pc' \in {"user", "idle"} /\ nand' = nand
      BY <1>5, <2>1 DEF Jump, PostReturns, chipVars, nandVars
    <3> QED BY <3>1, NoLoop DEF SuccessMeansDone, Doing
  <2> QED BY <1>5, <2>1, MemoryHandlerDoes
<1>6. CASE ChipHandler
  BY <1>6, ChipHandlerDoes
<1>7. CASE UserReturns /\ UNCHANGED chipVars
  <2>1. pc' = "idle" /\ nand' = nand
    BY <1>7 DEF UserReturns, PostReturns, chipVars, nandVars
  <2> QED BY <2>1, NoLoop DEF SuccessMeansDone, Doing
<1>8. CASE ChipReady
  <2>1. /\ UNCHANGED <<pc, ctx, accumulated_result, flash, addr, erase_size, timeout_us>>
        /\ UNCHANGED <<aligned_addr, md5_offset, remaining, hashed, nand, block, last>>
        /\ busy' = FALSE
    BY <1>8 DEF ChipReady, dispatchVars, dispatchRest, eraseVars, md5Vars, nandVars
  <2>2. EraseDone' /\ HashDone' /\ NandDone'
    BY <2>1 DEF Doing, EraseDone, HashDone, NandDone, BlankBetween, FirstBlock, EndBlock
  <2>3. ASSUME Done(ctx) PROVE Done(ctx)'
    BY <2>1, <2>3 DEF Done, IsBlank
  <2> QED BY <2>1, <2>2, <2>3 DEF Doing, SuccessMeansDone
<1>9. CASE UNCHANGED vars
  <2>1. /\ UNCHANGED <<pc, ctx, accumulated_result, flash, addr, erase_size, timeout_us>>
        /\ UNCHANGED <<aligned_addr, md5_offset, remaining, hashed, nand, block, last, busy>>
    BY <1>9 DEF vars, dispatchVars, dispatchRest, chipVars, eraseVars, md5Vars, nandVars
  <2>2. EraseDone' /\ HashDone' /\ NandDone'
    BY <2>1 DEF Doing, EraseDone, HashDone, NandDone, BlankBetween, FirstBlock, EndBlock
  <2>3. ASSUME Done(ctx) PROVE Done(ctx)'
    BY <2>1, <2>3 DEF Done, IsBlank
  <2> QED BY <2>1, <2>2, <2>3 DEF Doing, SuccessMeansDone
<1> QED BY <1>1, <1>2, <1>3, <1>4, <1>5, <1>6, <1>7, <1>8, <1>9 DEF Next, Stub

\* A success of an erase or a digest covers exactly the region asked for: for every
\* region, size of sector, word and buffer, and whichever calls fail, unless the
\* timeout of an ERASE_REGION was used up (Done).
THEOREM SuccessIsEarned == Spec => []SuccessMeansDone
<1>1. Init => Doing /\ FrameDiscipline
  BY DEF Init, ChipInit, DispatchInit, Doing, EraseDone, HashDone, NandDone, SuccessMeansDone,
         FrameDiscipline, Working
<1>2. Doing /\ FrameDiscipline /\ [Next]_vars => Doing' /\ FrameDiscipline'
  BY DoingStep, FrameStep, NextDispatches
<1>3. Doing => SuccessMeansDone
  BY DEF Doing
<1> QED BY <1>1, <1>2, <1>3, PTL DEF Spec
=============================================================================
