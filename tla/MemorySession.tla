---------------------------- MODULE MemorySession ----------------------------
(* Loading RAM: MEM_BEGIN, MEM_DATA and MEM_END of command_handler.c, and the  *)
(* WRITE_REG command.  MEM_DATA carries no checksum that is looked at and its  *)
(* sequence number is ignored; MEM_END looks at nothing but its length, and    *)
(* jumps after its response.                                                   *)
EXTENDS Dispatch, SequencesExt

CONSTANTS RAM,              \* bytes of memory
          Register32, Bits  \* registers, and the bits of each

MEM_BEGIN_SIZE == 16
MEM_DATA_HEADER_SIZE == 16
MEM_END_SIZE == 8
WRITE_REG_ENTRY_SIZE == 16

\* MEM_BEGIN announces a piece of memory; the fields of a frame say what is in it.
ASSUME MemoryAssumption ==
  /\ RAM \in Nat
  /\ \A w \in Workloads : \A f \in w :
       /\ f.packet \in Nat
       /\ f.cmd = "MEM_BEGIN" /\ f.packet = MEM_BEGIN_SIZE =>
            f.arg.addr \in Nat /\ f.arg.size \in Nat /\ f.arg.addr + f.arg.size =< RAM
       /\ f.cmd = "MEM_DATA" /\ f.packet >= MEM_DATA_HEADER_SIZE =>
            /\ f.arg.len \in Nat /\ f.arg.data \in Seq(Nat)
            /\ Len(f.arg.data) = f.packet - MEM_DATA_HEADER_SIZE

VARIABLES
  total_remaining, offset, in_progress,    \* s_memory_state
  ram, reg,                                \* memory and registers, sets of bits
  began, announced, accepted               \* history: the session, and the data it was given

memoryState == <<total_remaining, offset, in_progress>>
memoryHist == <<began, announced, accepted>>
memoryVars == <<memoryState, ram, reg, memoryHist>>

Bytes == 0..(RAM - 1)

MemBegin ==
  /\ Handles("MEM_BEGIN")
  /\ Handled(ExpectSize(MEM_BEGIN_SIZE, "SUCCESS"))
  /\ IF ctx.packet = MEM_BEGIN_SIZE
       THEN /\ total_remaining' = ctx.arg.size /\ offset' = ctx.arg.addr /\ in_progress' = TRUE
            /\ began' = ctx.arg.addr /\ announced' = ctx.arg.size /\ accepted' = <<>>
       ELSE UNCHANGED <<memoryState, memoryHist>>
  /\ UNCHANGED <<ram, reg>>

\* The bytes of a MEM_DATA that came with it, whatever it says of their number.
DataSize == ctx.packet - MEM_DATA_HEADER_SIZE

MemDataResult ==
  CASE ctx.packet < MEM_DATA_HEADER_SIZE -> "NOT_ENOUGH_DATA"
    [] ctx.packet >= MEM_DATA_HEADER_SIZE /\ ~in_progress -> "NOT_IN_FLASH_MODE"
    [] /\ ctx.packet >= MEM_DATA_HEADER_SIZE /\ in_progress
       /\ total_remaining < ctx.arg.len \/ ctx.arg.len # DataSize -> "TOO_MUCH_DATA"
    [] OTHER -> "SUCCESS"

MemData ==
  /\ Handles("MEM_DATA")
  /\ Handled(MemDataResult)
  /\ IF MemDataResult = "SUCCESS"
       THEN /\ ram' = [w \in Bytes |-> IF offset =< w /\ w < offset + DataSize
                                       THEN ctx.arg.data[w - offset + 1] ELSE ram[w]]
            /\ offset' = offset + DataSize
            /\ total_remaining' = total_remaining - DataSize
            /\ accepted' = IF Whole(ctx) THEN accepted \o ctx.arg.data ELSE accepted
       ELSE UNCHANGED <<ram, offset, total_remaining, accepted>>
  /\ UNCHANGED <<in_progress, reg, began, announced>>

\* Whatever is left of the session is forgotten.
MemEnd ==
  /\ Handles("MEM_END")
  /\ LET r == CASE ctx.packet # MEM_END_SIZE -> "BAD_DATA_LEN"
                [] ctx.packet = MEM_END_SIZE /\ ~in_progress -> "NOT_IN_FLASH_MODE"
                [] OTHER -> "SUCCESS"
     IN IF r = "SUCCESS"
          THEN /\ Returns(r, "mem_end")
               /\ total_remaining' = 0 /\ offset' = 0 /\ in_progress' = FALSE
          ELSE /\ Handled(r) /\ UNCHANGED memoryState
  /\ UNCHANGED <<ram, reg, memoryHist>>

\* The jump, unless the host only ends the session.
Jump ==
  /\ Runs("mem_end")
  /\ IF ctx.arg.flag = 0
       THEN pc' = "user" /\ UNCHANGED dispatchRest
       ELSE PostReturns("SUCCESS") /\ UNCHANGED rate
  /\ UNCHANGED memoryVars

\* The program loaded may return, and need not.
UserReturns ==
  /\ pc = "user"
  /\ PostReturns("SUCCESS")
  /\ UNCHANGED <<rate, memoryVars>>

\* One entry of WRITE_REG: the bits outside the mask keep their values.
Written(r, e) ==
  [r EXCEPT ![e.addr] =
     (e.value \cap e.mask) \cup (IF e.mask = Bits THEN {} ELSE @ \ e.mask)]

WriteReg ==
  /\ Handles("WRITE_REG")
  /\ IF ctx.packet = 0 \/ ctx.packet % WRITE_REG_ENTRY_SIZE # 0
       THEN Handled("NOT_ENOUGH_DATA") /\ UNCHANGED reg
       ELSE Handled("SUCCESS") /\ reg' = FoldLeft(Written, reg, ctx.arg)
  /\ UNCHANGED <<memoryState, ram, memoryHist>>

MemoryHandler == MemBegin \/ MemData \/ MemEnd \/ WriteReg

MemoryInit ==
  /\ total_remaining = 0 /\ offset = 0 /\ in_progress = FALSE
  /\ ram = [w \in Bytes |-> 0] /\ reg = [r \in Register32 |-> {}]
  /\ began = 0 /\ announced = 0 /\ accepted = <<>>

-----------------------------------------------------------------------------
(* Properties.                                                                 *)

\* Memory holds, from where a session began, exactly the data of the MEM_DATA
\* that the host sent whole and the stub answered with success, in their order,
\* and total_remaining is what is still missing; also while other commands,
\* refused requests and damaged frames come in between, and after MEM_END.
LoadIsExact ==
  /\ \A k \in 1..Len(accepted) : ram[began + k - 1] = accepted[k]
  /\ in_progress => /\ offset = began + Len(accepted)
                    /\ total_remaining = announced - Len(accepted)
=============================================================================
