---------------------------- MODULE ChipCommands ----------------------------
(* The commands that work on a whole region of a flash chip before they are    *)
(* answered: SPI_FLASH_MD5, ERASE_FLASH and ERASE_REGION of command_handler.c, *)
(* and of the NAND plugin the erases, bad-block marks and page reads.          *)
(*                                                                             *)
(* The chips and stub-lib are external.  An erase of the base stub goes on     *)
(* after the call that starts it, may never end and may be refused, a call at  *)
(* a time; the NAND calls wait and return an error or not.                     *)
EXTENDS Dispatch, FlashChip

CONSTANTS SECTOR,               \* sector_size of the chip
          ERASE_PER_SECTOR_TIMEOUT_US,
          WRAP,                 \* the product of the timeout is 32 bits wide
          MD5_BUFFER, WORD,     \* size of the buffer to hash from, and of a read
          NAND_BLOCKS           \* NAND_BLOCK_COUNT

\* The requests that work on a region, and their sizes.
SPI_FLASH_MD5_SIZE == 16
ERASE_REGION_SIZE == 8
OnRegion(f) ==
  \/ f.cmd = "SPI_FLASH_MD5" /\ f.packet = SPI_FLASH_MD5_SIZE
  \/ f.cmd \in {"ERASE_REGION", "NAND_ERASE_REGION"} /\ f.packet = ERASE_REGION_SIZE

ASSUME ChipAssumption ==
  /\ SECTOR \in Nat \ {0} /\ WORD \in Nat \ {0} /\ MD5_BUFFER \in Nat /\ WORD =< MD5_BUFFER
  /\ WRAP \in Nat \ {0} /\ ERASE_PER_SECTOR_TIMEOUT_US \in Nat /\ NAND_BLOCKS \in Nat
  /\ \A w \in Workloads : \A f \in w : OnRegion(f) => f.arg.addr \in Nat /\ f.arg.size \in Nat

VARIABLES
  flash, busy,                      \* the chip, and whether it is erasing
  addr, erase_size, timeout_us,     \* s_erase_region()
  aligned_addr, md5_offset, remaining, hashed,   \* s_spi_flash_md5(): cells hashed
  nand, bad,                        \* blocks of the NAND chip, and marks on them
  block, last                       \* the loop over blocks: the next one and the end

eraseVars == <<addr, erase_size, timeout_us>>
md5Vars == <<aligned_addr, md5_offset, remaining, hashed>>
nandVars == <<nand, bad, block, last>>
chipVars == <<flash, busy, eraseVars, md5Vars, nandVars>>

SPI_NAND_ATTACH_SIZE == 4
SPI_NAND_READ_BBM_SIZE == 4
SPI_NAND_WRITE_BBM_SIZE == 5
SPI_NAND_READ_FLASH_SIZE == 16
SPI_NAND_READ_PAGE_DEBUG_SIZE == 4

Least(a, b) == IF a < b THEN a ELSE b
AlignUpTo(n, a) == ((n + a - 1) \div a) * a

\* In the loop of a handler.
Within(place) == pc = place /\ UNCHANGED dispatchRest

-----------------------------------------------------------------------------
(* s_erase_flash() and s_erase_region().                                       *)

\* The chip ends its erase.
ChipReady ==
  /\ busy /\ busy' = FALSE
  /\ UNCHANGED <<dispatchVars, flash, eraseVars, md5Vars, nandVars>>

EraseFlash ==
  /\ Handles("ERASE_FLASH")
  /\ \/ Handled("SUCCESS") /\ flash' = Erased(flash, 0, CELLS) /\ busy' = FALSE
     \/ Handled("FAILED_SPI_OP") /\ UNCHANGED <<flash, busy>>
  /\ UNCHANGED <<eraseVars, md5Vars, nandVars>>

EraseRegion ==
  /\ Handles("ERASE_REGION")
  /\ IF \/ ctx.packet # ERASE_REGION_SIZE
        \/ ctx.arg.addr % SECTOR # 0 \/ ctx.arg.size % SECTOR # 0
       THEN Handled("BAD_DATA_LEN") /\ UNCHANGED eraseVars
       ELSE /\ pc' = "erase_region" /\ UNCHANGED dispatchRest
            /\ addr' = ctx.arg.addr /\ erase_size' = ctx.arg.size
            /\ timeout_us' = (((ctx.arg.size + SECTOR - 1) \div SECTOR)
                              * ERASE_PER_SECTOR_TIMEOUT_US) % WRAP
  /\ UNCHANGED <<flash, busy, md5Vars, nandVars>>

\* stub_lib_flash_start_next_erase(): erases a sector or a larger block, finds
\* the chip busy, or is refused.
StartNextErase(done) ==
  \/ ~done /\ UNCHANGED <<flash, busy, addr, erase_size>>
  \/ \E n \in 1..erase_size :
       /\ done /\ ~busy /\ n % SECTOR = 0
       /\ flash' = Erased(flash, addr, n) /\ busy' = TRUE
       /\ addr' = addr + n /\ erase_size' = erase_size - n

\* Mutant of CountDown: only calls that start an erase are counted.
CountDownDone(done) == IF done THEN timeout_us - 1 ELSE timeout_us

\* Every call costs a microsecond of the timeout, whatever it returns.
CountDown(done) == timeout_us - 1

EraseNext ==
  /\ Within("erase_region") /\ erase_size > 0 /\ timeout_us > 0
  /\ \E done \in BOOLEAN : StartNextErase(done) /\ timeout_us' = CountDown(done)
  /\ UNCHANGED <<pc, md5Vars, nandVars>>

EraseLoopEnds ==
  /\ Within("erase_region") /\ (erase_size = 0 \/ timeout_us = 0)
  /\ pc' = "wait_ready"
  /\ UNCHANGED chipVars

\* stub_lib_flash_wait_ready(): what it answers when it is given no time at all is
\* not known, and one that waits may run out of time.
WaitReady ==
  /\ pc = "wait_ready"
  /\ \/ ~busy /\ Handled("SUCCESS")
     \/ (busy \/ timeout_us = 0) /\ Handled("FAILED_SPI_OP")
     \/ busy /\ timeout_us = 0 /\ Handled("SUCCESS")
  /\ UNCHANGED chipVars

-----------------------------------------------------------------------------
(* s_spi_flash_md5().                                                          *)

FlashMd5 ==
  /\ Handles("SPI_FLASH_MD5")
  /\ IF ctx.packet # SPI_FLASH_MD5_SIZE
       THEN Handled("BAD_DATA_LEN") /\ UNCHANGED md5Vars
       ELSE /\ pc' = "md5" /\ UNCHANGED dispatchRest
            /\ aligned_addr' = ctx.arg.addr - (ctx.arg.addr % WORD)
            /\ md5_offset' = ctx.arg.addr % WORD
            /\ remaining' = ctx.arg.size /\ hashed' = <<>>
  /\ UNCHANGED <<flash, busy, eraseVars, nandVars>>

AlignedChunk == AlignUpTo(Least(remaining + md5_offset, MD5_BUFFER), WORD)

\* Mutant of BytesToHash: the bytes skipped at the start are not taken off.
BytesOfChunk == Least(remaining, AlignedChunk)

BytesToHash == Least(remaining, AlignedChunk - md5_offset)

\* Cell k of the buffer: past what was read it holds something else.
Read(k) == IF k < AlignedChunk THEN aligned_addr + k ELSE -1

HashChunk ==
  /\ Within("md5") /\ remaining > 0
  /\ hashed' = hashed \o [k \in 1..BytesToHash |-> Read(md5_offset + k - 1)]
  /\ aligned_addr' = aligned_addr + AlignedChunk
  /\ remaining' = remaining - BytesToHash
  /\ md5_offset' = 0
  /\ UNCHANGED <<pc, flash, busy, eraseVars, nandVars>>

Md5Ends ==
  /\ pc = "md5"
  /\ \/ remaining = 0 /\ Handled("SUCCESS")
     \/ remaining > 0 /\ Handled("FAILED_SPI_OP")     \* the chip cannot be read
  /\ UNCHANGED chipVars

-----------------------------------------------------------------------------
(* The NAND plugin.                                                            *)

NandError(err) ==
  CASE err = "NAND_ERR_PROGRAM_FAILED" -> "NAND_PROGRAM_FAILED"
    [] err = "NAND_ERR_ERASE_FAILED"   -> "NAND_ERASE_FAILED"
    [] OTHER                           -> "FAILED_SPI_OP"

NandLoop(from, to) ==
  /\ pc' = "nand_erase" /\ UNCHANGED dispatchRest
  /\ block' = from /\ last' = to

\* The length of NAND_ERASE_FLASH is not looked at.
NandEraseFlash ==
  /\ HandlesPlugin("NAND_ERASE_FLASH")
  /\ NandLoop(0, NAND_BLOCKS)
  /\ UNCHANGED <<flash, busy, eraseVars, md5Vars, nand, bad>>

\* Offsets and sizes of NAND_ERASE_REGION are counted in half blocks.
NandEraseRegion ==
  /\ HandlesPlugin("NAND_ERASE_REGION")
  /\ IF ctx.packet # ERASE_REGION_SIZE \/ ctx.arg.addr % 2 # 0 \/ ctx.arg.size % 2 # 0
       THEN Handled("BAD_DATA_LEN") /\ UNCHANGED <<block, last>>
       ELSE NandLoop(ctx.arg.addr \div 2, (ctx.arg.addr + ctx.arg.size) \div 2)
  /\ UNCHANGED <<flash, busy, eraseVars, md5Vars, nand, bad>>

NandEraseBlock ==
  /\ Within("nand_erase") /\ block < last
  /\ nand' = [nand EXCEPT ![block] = BLANK] /\ block' = block + 1
  /\ UNCHANGED <<pc, flash, busy, eraseVars, md5Vars, bad, last>>

\* The first block that fails ends the command.
NandEraseFails ==
  /\ pc = "nand_erase" /\ block < last
  /\ \E err \in {"NAND_ERR_ERASE_FAILED", "SPI"} :
       /\ Handled(NandError(err))
       /\ nand' = IF err = "SPI" THEN nand ELSE [nand EXCEPT ![block] = MIXED]
  /\ UNCHANGED <<flash, busy, eraseVars, md5Vars, bad, block, last>>

NandEraseEnds ==
  /\ pc = "nand_erase" /\ block = last
  /\ Handled("SUCCESS")
  /\ UNCHANGED chipVars

\* Attach, read_bbm and read_page_debug only read.
NandQuery ==
  /\ \E r \in {"SUCCESS", "FAILED_SPI_OP"} :
       \/ HandlesPlugin("NAND_ATTACH") /\ Handled(ExpectSize(SPI_NAND_ATTACH_SIZE, r))
       \/ HandlesPlugin("NAND_READ_BBM") /\ Handled(ExpectSize(SPI_NAND_READ_BBM_SIZE, r))
       \/ /\ HandlesPlugin("NAND_READ_PAGE_DEBUG")
          /\ Handled(ExpectSize(SPI_NAND_READ_PAGE_DEBUG_SIZE, r))
  /\ UNCHANGED chipVars

\* NAND_READ_FLASH, up to its stream, which ReadStream models.
NandReadFlash ==
  /\ HandlesPlugin("NAND_READ_FLASH")
  /\ \/ Register(SPI_NAND_READ_FLASH_SIZE, "nand_read_flash")
     \/ Handled(ExpectSize(SPI_NAND_READ_FLASH_SIZE, "FAILED_SPI_OP"))  \* page size unknown
  /\ UNCHANGED chipVars

NandWriteBbm ==
  /\ HandlesPlugin("NAND_WRITE_BBM")
  /\ \/ /\ Handled(ExpectSize(SPI_NAND_WRITE_BBM_SIZE, "SUCCESS"))
        /\ bad' = IF ctx.packet # SPI_NAND_WRITE_BBM_SIZE THEN bad
                  ELSE IF ctx.arg.is_bad THEN bad \cup {ctx.arg.addr} ELSE bad \ {ctx.arg.addr}
     \/ /\ Handled(ExpectSize(SPI_NAND_WRITE_BBM_SIZE, "FAILED_SPI_OP"))
        /\ UNCHANGED bad
  /\ UNCHANGED <<flash, busy, eraseVars, md5Vars, nand, block, last>>

ChipHandler ==
  \/ EraseFlash \/ EraseRegion \/ EraseNext \/ EraseLoopEnds \/ WaitReady
  \/ FlashMd5 \/ HashChunk \/ Md5Ends
  \/ NandEraseFlash \/ NandEraseRegion \/ NandEraseBlock \/ NandEraseFails \/ NandEraseEnds
  \/ NandQuery \/ NandReadFlash \/ NandWriteBbm

\* The local variables of a handler that returned are gone.
Return ==
  /\ addr' = 0 /\ erase_size' = 0 /\ timeout_us' = 0
  /\ aligned_addr' = 0 /\ md5_offset' = 0 /\ remaining' = 0 /\ hashed' = <<>>
  /\ block' = 0 /\ last' = 0
  /\ UNCHANGED <<flash, busy, nand, bad>>

ChipInit ==
  /\ flash = [c \in Cells |-> OLD] /\ busy \in BOOLEAN   \* a FLASH_BEGIN may have begun
  /\ nand = [b \in 0..(NAND_BLOCKS - 1) |-> OLD] /\ bad = {}
  /\ addr = 0 /\ erase_size = 0 /\ timeout_us = 0
  /\ aligned_addr = 0 /\ md5_offset = 0 /\ remaining = 0 /\ hashed = <<>>
  /\ block = 0 /\ last = 0
=============================================================================
