# A verification project for esp-flasher-stub

The flasher stub is a small C program that esptool loads into the RAM of an
Espressif chip. It speaks a framed request/response protocol over UART, USB or
SDIO and reads, erases and writes the flash. It has no operating system: one main
program polls, one receive interrupt (or the DMA of the SDIO slave) runs beside it,
and the flash chip works beside both.

The modules here model that program from its source in `src/src/`. TLC checks
them on small instances; TLAPS proves the safety properties of the components for every
value of their constants.

## 1. Inventory

### Frame buffers (`frame_buffer.c`)
State: two buffers with `frame_length`, `frame_complete` and `frame_error`, the index
`s_rx_idx` of the one being received into, the index `s_proc_idx` of the one last
selected. All volatile, written by the interrupt and by the main program without any
lock. Operations: `acquire`, `mark_complete`, `mark_error`, `get_state`, `get_data`,
`reset`. Hard: every sequence of these is an interleaving with the interrupt; the reset
is called redundantly. Correct when: the buffer being filled waits for nobody; a release
never touches it; `acquire` never runs out; frames are handed over whole, once, in order.

### SLIP decoder and encoder (`slip.c`)
State: `s_state`, `s_rx_buf`, `s_rx_len`, `s_rx_cap`. `slip_recv_byte()` runs in the
interrupt, `slip_rearm()` in the main program, and they share all four. Hard: two stores
of `slip_rearm()` with a byte in between; empty frames, full frames, escapes at every
place; lost and garbled bytes. Correct when: it never writes through NULL or past the
capacity, never goes deaf for good, and no more frames are handed over damaged than bytes were
hit. Frames can still be missed in numbers after one lost END (§4, Findings).

### Transports (`transport.c`)
`recv_poll`, `recv_release`, `send_frame` over SLIP (UART, USB OTG, USB serial JTAG) and
over SDIO, and their detection and initialisation. The poll rearms the receiver *before*
the frame is handled (double buffering). Over SDIO the driver holds the buffer, gives
it up without telling the frame buffers, and must be rearmed in the right order. Correct
when: the receiver is armed whenever the host may speak.

### Main loop (`main.c`)
Greets, then polls; releases a frame with an error; otherwise handles the command and releases its frame.
READ_FLASH polls by itself in a loop inside the command.

### Command dispatcher (`command_handler.c`, `handle_command`)
State: `accumulated_result`, `s_pending_post_process`. Checks the frame, reports the error of the last
post-process in place of the new command, calls one handler per opcode or a plugin,
answers, then runs the post-process. Hard: the answer comes before the work; a frame shorter
than a header is parsed over what an earlier one left. Correct when: what runs after an answer
belongs to it, and no error is lost.

### Plain flash write session (`command_handler.c`)
State: `s_flash_state` (`in_progress`, `offset`, `total_remaining`, `next_erase_addr`,
`erase_remaining`), the latch `s_dirty_seen`. FLASH_BEGIN, FLASH_DATA with its
post-process, FLASH_END. An erase is started ahead of the write and runs on in the chip;
sectors verified blank are skipped. Hard: write after answer, errors
reported to a later command, asynchronous erase, retries, padding, partial sectors, a loop
that must get to the end of its erase. Correct when: what is written stays, nothing outside the
session changes, every cell is blank when it is written, a successful FLASH_END means the
image is there.

### Compressed flash write session (`command_handler.c`, `miniz`)
The same state and the decompressor's. Hard: a block inflates to any length, the end of
the stream, more data than announced, a failure with input left. Correct when: nothing of a stream
is lost, doubled or written outside what was announced.

### Memory write session (`command_handler.c`)
MEM_BEGIN, MEM_DATA, MEM_END: offset, remaining bytes, then a jump to the entry point.
Correct when: memory holds exactly what was accepted.

### Flash read stream (`command_handler.c`)
`s_read_flash_post_process`: reads, sends packets, counts acknowledgements, digest.
Hard: unsigned window arithmetic, an early release and a redundant one, a
frame that is no ACK, a lost ACK. Correct when: what a host accepts is what the flash holds, and a
host that gave up gets the stub back.

### Erase, register, SPI, baud rate, MD5, security commands (`command_handler.c`)
Mostly one call of the hardware library each; ERASE_REGION has a loop with a timeout that
it counts down itself, and the digest a loop of aligned chunks. Correct when: a success covers the
whole region, and each of them ends.

### Plugin table (`plugin_table.h`, `command_handler.c`)
Function pointers that the loader patches for the opcodes of a plugin.

### NAND plugin (`nand_plugin.c`)
Write session: `s_nand_write_state` (`offset`, `total_remaining`, `page_buf`,
`page_buf_filled`, `in_progress`). Data of any length is gathered into pages, and the
first page of a block erases the block. Hard: chunk arithmetic, a failure in the middle
of a request, the padded last page. Read stream, bad-block and page commands beside it.

### Outside the program
`esp-stub-lib` (a submodule, absent here), the ROM, the chips and the host are external.
They are modelled as `src/src/` uses them. The linker scripts, the tools that pack the image, and
the unit tests take no part at run time.

### How they interact

    line --byte--> interrupt: slip_recv_byte --> frame buffers <-- slip_recv_poll <-- main loop
    host --frame-> SDIO DMA / interrupt -------> frame buffers <-- sdio_recv_poll <-- main loop
    main loop --> handle_command --> handler --> response --> post-process --> flash chip
    READ_FLASH post-process --> recv_poll / recv_release (the same buffers)

The list of hazards in `PROJECT.json` names the line where each of these can go wrong.

## 2. Plan

| order | module | component | state |
|---|---|---|---|
| 1 | `FrameChannel` | abstract: what a receive path promises | done |
| 2 | `SlipReceive` | frame buffers, decoder, SLIP poll, loops | done, proved |
| 3 | `SlipLink` | SlipReceive with a host and a faulty line | done, proved for a line without faults |
| 4 | `SdioReceive` | SDIO poll and driver | done, proved |
| 5 | `FlashChip`, `FlashImage` | the chip; abstract: a growing image | done |
| 6 | `FlashSession` | plain write session, erase ahead | done, proved |
| 7 | `FlashUpload` | FlashSession with a host, a line, retries | done, its invariants proved |
| 8 | `NandWrite` | NAND write session | done, proved |
| 9 | `DeflateSession` | compressed write session over FlashSession's erase | done, proved |
| 10 | `ReadStream` | READ_FLASH and the NAND read stream, a host and a faulty line | done, its safety properties proved |
| 11 | `Dispatch` | `handle_command()`: frame checks, opcode table, plugin slots, post-process | done, proved in `Commands` |
| 12 | `MemorySession` | MEM_BEGIN, MEM_DATA, MEM_END, WRITE_REG | done, proved in `Commands` |
| 13 | `ChipCommands` | erases, digest, NAND block and page commands | done, proved in `Commands` |
| 14 | `Commands` | Dispatch with the handlers of 12 and 13 | done, proved |

Composition: `SlipLink` EXTENDS `SlipReceive`; `FlashUpload` and `DeflateSession` EXTEND
`FlashSession`, which like `NandWrite` and `ChipCommands` EXTENDS `FlashChip`;
`MemorySession` and `ChipCommands` EXTEND `Dispatch`, and `Commands` EXTENDS both of them.
`SlipReceive` and `SdioReceive` implement `FrameChannel`, `FlashSession` implements
`FlashImage`, each through a refinement mapping at the end of the module. `ReadStream` has
frames of its own: what it needs of the layer below is what `FrameChannel` promises, frames
taken whole, once and in order, and what the line does to them.

What is left: nothing of the core. Section 7 lists what is left out, and why.

## 3. The modules and the code

### FrameChannel
One frame held by the code that handles it, at most one received behind it. Received
whole, taken once, in order, only after the one before it was released.

### SlipReceive
Bytes are model values: END, ESC, the two escape codes and other data. The
interrupt takes a byte in one step (`SlipRecvByte`), because it preempts the main program
and runs to completion. The main program moves by **one access to a volatile variable
at a time**: `pc` names the access that comes next. `state_*` are the four tests of
`frame_buffer_get_state()`, `acq_*` those of `frame_buffer_acquire()`, `arm_buf` and
`arm_cap` the two stores of `slip_rearm()`, `rel_*` the three of `frame_buffer_reset()`.
Two accesses share a step only where the interrupt cannot write what the second
one reads (`AcquireOther`: the interrupt never writes the flags of the other buffer;
proved as `ArmedBufferIsFree`) or where the second store is of a variable the interrupt never
touches. `caller` says whether a poll serves the boot, the main loop or
the acknowledgement loop of READ_FLASH. The line is arbitrary: any byte at any moment.

### SlipLink
A host that sends one frame and waits for the stub's answer (greeting,
response, packet, digest), a line of bytes that loses or garbles some, and host
timeouts. `Encode` is `slip_send_frame()`. `fresh` is a history variable: the last frame was sent over a quiet line to
an armed decoder and has not been hit. `inbox` holds what the host sent and the stub has not yet handed
to its code; `altered` counts frames handed over that are none of these.

### SdioReceive
The frame buffers' flags are touched by the main program only, so its steps are those
between two calls of the driver. The driver (`dma`, `dma_buf`, `dma_long`) is external and is what the
comments in `transport.c` (79-91) say it is: it fills the buffer it was armed
with, latches a length, also disarms itself without a frame, ignores a rearm while armed, and
fails one while a frame is pending. That rearming with NULL arms nothing is taken from
the comment in `sdio_arm()`.

### FlashChip, FlashImage
The chip is a function from cells to what they hold: BLANK, OLD, a value of the host, or
MIXED. Programming only clears bits: a cell that is not blank and is given another value becomes
MIXED. `FlashImage` is the promise of a session: the image grows at its
end, by no more than was announced, what is written does not change, and only a session
that received everything closes.

### FlashSession
A request is a record whose `flaw` is what is wrong with it, as the handlers test it:
frame checks of `handle_command()`, payload size, data size and checksum of a handler. `HandleCommand` is one
call of `handle_command()` up to the response; the main program has no concurrency with
the interrupt in this state. What follows it, `EnsureErased`, `WriteBlock`, `WriteFails`,
is the post-process, one round of the erase loop at a time, because the chip ends its
erase (`ChipReady`) between two rounds. `stub_lib_flash_start_next_erase()` erases a sector or
a larger block, reports a busy chip as no error and no progress, or fails; reads and programs wait for the chip; a failed program leaves a prefix.
Encryption changes what the chip is told, not this control, and is left out. `begin` and `torn` are history.

### FlashUpload
A host that writes images block by block as the double buffering invites it to, sends a block
again when it is refused or unanswered up to `ATTEMPTS` times, and puts other commands
in between. The line loses requests and responses and garbles blocks. The host is
external; it is not esptool line by line but the discipline the stub is made for.

### DeflateSession
FLASH_DEFL_BEGIN, _DATA and _END. They call FlashSession's `FlashBegin` and `FlashEnd`, as
the handlers share `s_init_flash_operation()` and the end of a session with the plain ones. `s_flash_defl_data_post_process()`
is cut where the chip or the decompressor can do one of several things: `EraseAhead`, then rounds of miniz
(`TakeUnit`, `HandOut`, `TinflReturns`), then `EnsureErasedTo` and `WriteBuffer` when the
buffer is full or the stream done. miniz is external: a stream is a sequence of units, each of which
inflates to some cells; a unit out of its order makes it fail or make cells up (`GARBAGE`).
`compressed_remaining` counts units, and is 32 bits wide as `total_remaining` is: both wrap at
`WRAP`. `announced`, `clean` and the two counters are history.

### ReadStream
`s_read_flash_post_process()` and the plugin's `s_nand_read_flash_post_process()`, side by side: `variant` says
which of them is at work, and each place where they differ is an operator of
its own (`AckCounts`, `OtherEnds`, `Unacked`, `MarkFailed`, `Poisoned`). A round of the
loop is a poll (`PollNothing`, `PollAck`, `PollOther`) and a send (`Wait`, `SendPacket`,
`FillPage`...). A cell is told by its address and a digest by the cells it is of, so a
digest agrees exactly when the data does. The counters wrap at `WRAP`. The host answers each packet with the
length it has so far, checks the digest and, when it gave up, sends SYNC until it is answered. The line loses
frames either way, damages frames to the stub, garbles a length and a packet unnoticed.

### Dispatch, MemorySession, ChipCommands, Commands
`Dispatch` is `handle_command()`: a frame is refused (`RefuseFrame`), answered with the error
carried over (`ReportError`) or handled (`Select`); a handler returns a result and may register a
function (`Returns`); `Respond` answers, and `PendingAfter` drops what was registered if
the result is an error. A frame's `size` is the number of bytes that came and `packet` what its header
says. A frame shorter than a header is parsed with what an earlier one left in the buffer,
so only its size is the host's own (`Leftover` in the MC module). The handlers of the write sessions and
read streams, which have modules of their own, appear as the results and functions they can leave:
`OtherPost` says what such a function can answer, not how long it runs. It may return at any time or never,
and when it does is what `SessionEnds`, `PostEnds` and `ComesBack` are about.

`MemorySession` has the bytes of RAM; `accepted` is history: the data of the MEM_DATA that were
whole and successful. `MEM_END` registers the jump; the program loaded may return or not
(`UserReturns`), as `pc = "user"` tells. `WRITE_REG` is a fold over its entries.

`ChipCommands` has the loops: ERASE_REGION with a timeout that every call takes a microsecond of,
beside a chip that erases, is busy or refuses; SPI_FLASH_MD5 in aligned chunks of its buffer; the
NAND erases block by block. `wait_ready()` with no time left may answer either way, because
stub-lib is not in the repository.

### NandWrite
WRITE_FLASH_BEGIN, _DATA and _END, one round of the copy loop at a time (`CopyPart`,
`CopyPage`, `CopyPageFails`, `CopyEnds`). A flush that fails may leave the block erased or
not, and a prefix of the page. `page_buf` holds the filled part, so `page_buf_filled` is
its length; the rest of the page only matters when it is padded (`Padded`). `begin`, `size`, `received`, `dropped`, `closed` are history.

## 4. The runs

| run | question | bounds |
|---|---|---|
| `slip_receive` | Are the buffers kept apart, the decoder in bounds and never deaf, and is it a channel of two frames, for every interleaving? | buffers of 2 bytes, 5 byte values, ACKs of 1 byte; nothing else is bounded |
| `slip_lock_step` | With a host that waits, is the stub listening whenever it may be spoken to, and is every frame handled? | 6 frames, payloads with both escapes, with an escape code as data |
| `slip_noise` | How many frames does a damaged byte spoil? | 3 frames, 1 fault, 2 host timeouts, payloads that fit or not |
| `slip_deaf` | Does an empty frame leave the decoder ready for the next one? No (finding) | same |
| `sdio_receive` | The same promises over SDIO, and does a driver that gave up get armed again? | 3 payloads; nothing else is bounded |
| `flash_session` | Any requests, any failures: erased before written, confined, an image that grows | 2 sectors of 2 cells, blocks up to 2 cells, 1 failure |
| `flash_upload` | Does a successful FLASH_END mean the image is there, and what if responses are lost? Does each session end? | 2 sessions over 3 sectors, 3 attempts, 2 failures, a lost request, a lost response, a garbled block, another command |
| `nand_write` | Do the counters hold, is what is written left alone when the chip fails, and is what END accepts in the chip? | 6 cells, pages of 2, blocks of 2 pages, requests up to 3 cells, 2 values, 1 failure |
| `nand_incomplete` | Can the host detect an incomplete write by END? No (finding) | 4 cells, 1 failure |
| `deflate_session` | Is a stream written whole, once and in order; what if it inflates to too much; does the loop end? | 6 cells, sectors and a buffer of 2, 2 streams of 2 and 3 units, requests up to 2 units, 2 sessions, 1 request out of order, 1 failure, counters modulo 16 |
| `read_stream` | Is what the host accepts what the flash holds; who is left waiting, and do two SYNCs end it? | words of 2, pages of 3 and packets up to 3 cells, 2 reads, 4 SYNCs, 1 failing read, 2 line faults, 1 early timeout, 1 ACK repeated, counters modulo 8 |
| `commands` | In any order of commands and damaged frames: does what runs after a response belong to it, is no error lost, is RAM what was loaded, does success mean done, do the erases and the digest end? | 4 cells, 2 sectors, 3 bytes of RAM, a digest buffer of 4, 2 NAND blocks, 2 microseconds per sector; four kinds of host |

Why the bounds are enough. A frame buffer of two bytes has an empty, a short, a full and an overlong
frame and an escape at the first and the last byte. The SLIP and SDIO models have no
counter, so these runs cover every length of execution. Two sectors of two
cells give sessions that start and end inside a sector, at its edge, and cover one or
both; a failure leaves the session open and everything after it is explored. A session
of FlashSession may be followed by any number of others. A request of three cells
crosses a NAND page from every fill level, and a block and a half of cells gives sessions that
start with a block and in the middle of one. A stream of units of one, two and one cells fills the
inflate buffer by one unit, by two, and by a part of one; the three openings announce all of it, a
part of it that starts and ends inside sectors, and too little. Read jobs start inside a word, cross a page, end with a short
packet, ask for packets too long and empty. `commands` is unbounded in the number of frames a
host sends; the bounds are the frames it chooses from (`Workloads`: memory, flash, NAND,
register and other commands, each with damaged and failing frames between), because a host of one kind
already meets what every other kind leaves behind: an error carried over or a
function registered. Chip failures, lost messages and host timeouts
are the only counted things (`MAX_FAULTS`, `MAX_LOST_*`, `MAX_GARBLED`, `MAX_TIMEOUTS`, `MAX_FRAMES`,
`MAX_SESSIONS`, `MAX_OTHERS`, `ATTEMPTS`, `MAX_STRAYS`, `MAX_READS`, `MAX_SYNCS`,
`MAX_CHIP_FAULTS`, `MAX_LINE_FAULTS`, `MAX_EARLY`, `MAX_REPEATS`); the theorems hold for every value of them.
In `flash_upload` and `read_stream` the deadlock check is off: a host with nothing left to ask stops.

What they show beyond the code's own tests:

* No byte between any two volatile accesses makes the double buffering lose, repeat, reorder or
  overwrite a frame (`ImplementsChannel`), and the branch of `frame_buffer_acquire()`
  that returns NULL is dead on every transport (`AcquireSucceeds`, `SpareIsFree`).
* The redundant release after READ_FLASH is harmless (`ReleaseSparesRx`).
* The erase loop always reaches its write, because what is left to erase ends where
  the sectors of what is left to write end (`EraseReachesWrite`, `SessionEnds`).
* A block whose response is lost is written twice, since FLASH_DATA does not use its
  sequence number, and END can still succeed: the session then holds whole blocks of
  its image in order, but its tail can be missing (`OnlyRepeats`). `EndMeansWritten`
  therefore speaks of histories without a lost response.
* A NAND session that begins in the middle of a block programs the rest of that block
  over what it held; from the next block on everything accepted is in the chip
  unspoiled (`ClosedMeansWritten`, by `Holds` and `BlockEnd`).
* A compressed stream that inflates to more than was announced never leaves the sectors that
  were announced and can never be ended with success, although `total_remaining` wraps
  (`StaysAnnounced`, `EndMeansExact`). The price is the exception in `PostEnds`: once the buffer goes past the last
  of these sectors, `s_ensure_flash_erased_to()` has nothing left to erase, makes no progress and
  never returns.
* READ_FLASH of the base stub gets out of its loop by any frame that is no ACK, so SYNC brings
  it back: the first may be the frame that ends the loop and is thrown away, the second is
  answered. The NAND stream passes over such frames: after a lost ACK it stays in its loop until
  the chip is reset (the exception in `ComesBack`). In return it never leaves a host waiting when
  the chip cannot be read (`SilenceHasCause`).
* An ACK too many takes the window of the base stub past zero; the stream then stops, but what
  is accepted stays right (`SilenceHasCause`, `AcceptedIsFlash`).
* A short frame that is parsed over the bytes of an earlier MEM_DATA can be refused only because its
  size cannot agree; that check alone keeps RAM exact (`LoadIsExact`).
* ERASE_REGION always ends, with a chip that refuses each call or is never ready
  (`RegionCommandsEnd`); if its count-down was used up, what its success says is what
  `wait_ready()` says of no time at all (the condition in `Done`).

### Findings

* `slip_deaf`: the comment at `slip.c:118-119` says that an empty frame leaves the ISR
  ready to "immediately start the next real frame". The END that closes the empty frame
  is the one that opened the next, so the next is missed; after one lost END every
  frame of a host that starts and ends frames with END falls in a gap until another END is lost or added.
* `nand_incomplete`: the comment at `nand_plugin.c:63-65` says that `in_progress` stays set on a failed
  flush so that the host can detect incomplete writes. The page is already counted down and its
  buffer emptied, so another WRITE_FLASH_END succeeds; only the first error response tells.

## 5. Fairness

* `SlipLink`: weak fairness of `LineByte` (the interrupt is taken) and of `Stub` (the main
  loop never stops). No fairness of the host and none of faults.
* `SdioReceive`: weak fairness of `Main`. The DMA and the host owe nothing.
* `FlashUpload`: weak fairness of the host's turn and of `Device`, which is the main loop and
  the chip, which ends an erase it started (`stub_lib_flash_wait_ready()` and the
  programs wait for that). What goes wrong may never happen.
* `DeflateSession`: weak fairness of the post-process, a loop of the main program, and of
  the chip's end of an erase. That a request comes is not assumed.
* `ReadStream`: weak fairness of `Stub` and of `Host`, which waits and takes what comes. It need not
  ask again nor repeat anything, and the line may keep everything.
* `Commands`: weak fairness of `Stub`. No command need come, the program loaded by MEM_END
  need not return, and a chip need not end its erase: `RegionCommandsEnd` counts on none of these. Nor need
  the post-processes of the write sessions and read streams return: `OtherPost` is outside `Stub`.
* `SlipReceive`, `FlashSession` and `NandWrite` have safety properties only and state no fairness.

## 6. What is proved

All theorems hold for every value of the constants under the ASSUMEs of the modules, which say
that byte values differ, that sizes are natural numbers and not 0 where the code needs that, that
marks such as NULL are no data, that what a host asks for lies in the chip or in memory, that a sector
is no larger than the range of a counter, that the size of a read fits its counter, that a chip ends with a
whole sector, and that a host sends no empty frame. The three theorems about `SlipLink` have hypotheses
besides: `MAX_FAULTS = 0` (no byte is lost or garbled), and the first two `MAX_TIMEOUTS = 0` (the host
waits for its answers). Their properties do not hold without: the runs `slip_deaf` and `slip_noise`
show what faults do.

* **SlipReceiveProofs**: `TypeOK`, `ArmedBufferIsFree`, `DecoderInBounds`, `ReleaseSparesRx`,
  `AcquireSucceeds`, `NeverDeaf`, and that SlipReceive implements FrameChannel.
  The properties alone are not inductive: which buffer the main program may be
  holding depends on where it is. `IInv` adds what it knows at each label:
  `RearmDiscipline` (a rearm finds the decoder disarmed), `BootDiscipline`, `SpareDiscipline` (the other buffer is
  occupied only by the frame being worked on), `ProcDiscipline` and
  `LengthDiscipline`. The proof has a lemma per outcome of a byte (stored,
  completed, aborted, ignored) and a step per access of the main program. In the
  refinement a completed or aborted frame is `Receive`, the test that finds a flag is `Take`, the
  first write of a release that changes what is held is `Release`, all else stutters.
  For `SlipLink` it has `ListensWhenSpokenTo`, `FreshFrameIsReceived` and `DamageIsBounded`. The invariant of
  the first two, `LockStep`, says whose turn it is: the host's (`HostsTurn`: line empty, decoder armed, no answer
  owed), the stub's (`StubsTurn`), or that of the one frame between them (`FramesTurn`,
  `OneFrameOnLine`, `StillComplete`). The invariant of the third, `Delivery`, needs no turns. It says of every byte on the line
  which place it has in which frame (`LineHolds`); that the decoder ignores the line, is between two frames or stands
  in the content of one exactly as far as the line has brought it (`DecoderHolds`); and which
  frame each complete buffer holds (`FramesHold`). `EncodeLayout` says where the code of each
  byte is in a frame and `DecodeStep` that the decoder turns it back into that byte, so the theorem is also
  about the codec: SLIP's escapes are undone for all payloads.
* **SdioReceiveProofs**: `TypeOK`, `DriverAgrees`, `SpareIsFree` and the same refinement;
  `ProcDiscipline` says that something in a buffer is the frame being worked on.
* **FlashSessionProofs**: `TypeOK`, `EraseReachesWrite`, `BlankAhead`, `Confined`, and that
  FlashSession implements FlashImage. `IInv` adds that the erase moves by whole
  sectors, that the write position lies between the start and the erase position, that
  sessions lie in the chip, and that only an open session leaves something to write. The proofs rest
  on lemmas about `AlignDown` and `AlignUp`.
* **FlashUploadProofs**: `EndMeansWritten`, for any number of lost requests, garbled blocks and failures.
  To FlashSession's `IInv` the invariant `UploadInv` adds which frames can be on the line in each phase of the host
  (`Turns`) and `Progress`: the blocks the stub acknowledged are at least the blocks it wrote plus the
  one it holds, the write position stands after the blocks written, and only if the two counts
  agree is the image in place up to there. A failed write makes them differ for good, since neither `offset` nor
  `total_remaining` moves; a session that can be ended has written all, so they agree. A block lands in blank cells by
  `BlankAhead`. Without a lost response the host's count of blocks and the stub's are
  the same, and that is the only use of the precondition. `OnlyRepeats` has `RepeatInv` in addition:
  some numbering of the blocks from 0, each the same as the one before it or the next (`Repeats`), tells what is in the
  chip up to the write position (`Filled`), and its last number is that of the block the host sends or of the one before,
  whose response was lost (`Took`). `Steady` says so while the session is open, `Repeated` once it has ended.
* **NandWriteProofs**: `TypeOK`, `EveryCellIsCounted`, `WrittenStays` and `ClosedMeansWritten`. The
  first three rest on `Counted` (types, that nothing is left to copy between requests, and the account of
  the cells); `Ahead` is what any flush, failed or not, may do to the chip. The last one adds, under `Sound` (an open session that
  dropped nothing), `Laid` (the cells behind the write position took what was received; `Holds`
  lets it be spoiled only before the session's first block boundary), `Gathered` (the page
  buffer holds the rest) and `Ready` (the rest of a block the session itself began is blank,
  `BlockEnd` being where it ends).
* **DeflateSessionProofs**: `EndMeansExact`, `StaysAnnounced` and `NothingLost`. For the first two, `Account` says that what was written
  and what is left add up to what was announced, or a `WRAP` more once more was
  written. What was written never passes the end of the last sector, because it never passes
  the erase position; as a sector is no larger than `WRAP`, nothing left then means that
  exactly the announced size was written. `NothingLost` has `LInv`: of a clean session, what was written, what
  waits in the output buffer and what the decompressor still holds are together what the units received inflate
  to (`Taken`); ahead of the write position the flash is blank up to the erase position, or holds what a failed
  attempt to write the same buffer left there (`Ahead`); and the input not yet read is what follows in the stream (`Follows`).
* **ReadStreamProofs**: `BufferHolds`, `AcceptedIsFlash`, `OneAtATime` and `SilenceHasCause`. The first is arithmetic of the aligned read
  under `Fits`. The second has `Hashed` (the digest and the packet being gathered are the cells
  of the job, in order, as long as no read failed) and `Order`: a read command is in one
  place at a time, on its way, in the stub or in its digest, and a digest that is found
  unspoiled behind nothing else is of the job the host asked for, and as long. `OneAtATime` has `Single`: a
  read is on its way or in the stub once and its response comes before its data (`ReadOnce`, `DataFirst`); as long as the
  host repeats nothing, the counters are equal or one apart, modulo `WRAP`, and only when they differ is a packet or its ACK on its way
  (`Counters`, `Window`). `SilenceHasCause` has `Underway`: while the host waits and nothing that excuses
  the stub has happened, its answer or its digest is on its way or due (`AnswerComes`, `DigestComes`), what was not acknowledged is
  on its way or its ACK is, and the host's data and the packets on their way add up to what was read (`Flows`).
* **CommandsProofs**: `PostIsOwn`, `ErrorsAreTold`, `LoadIsExact`, `SuccessMeansDone`. Every handler is
  first shown to do one of three things: `Answers`, `GoesOn` or `RunUserCode`. `Pending` (what is
  registered is what the command in hand may register) and `Owing` (an error not told is the
  accumulated one) follow for all of them at once. `LoadIsExact` needs `FrameDiscipline`, that
  a frame in a handler is whole and one of the workload. For `SuccessMeansDone` the invariants of the loops are
  `EraseDone`, `HashDone` and `NandDone`: what is behind the loop is erased or hashed, what is ahead is
  counted right.

`TypeOK` is proved, not assumed: it contains the facts that keep C arithmetic from passing zero
(`total_remaining`, `erase_remaining`) and arrays from overflowing (`s_rx_len`, `page_buf`).

Facts about recursive definitions are proved from the least element of a set of natural numbers
(`LeastElement`, from the library's `NatLessThanWellFounded` and `WFMin`), which gives induction as a fact about sets
(`SetInduction`) and needs no operator parameter. On it rest `FlattenIsJoined`, which says what
`FlattenSeq` computes, and through it the theorems about SLIP's frames and about what a stream inflates to.
`SlipReceiveProofs` and `DeflateSessionProofs` each hold these few lemmas.

Every safety property of a passing run is a theorem. Only model-checked: the liveness properties
(`EveryFrameIsHandled`, `SessionEnds`, `LinkRevives`, `PostEnds`, `ComesBack`, `RegionCommandsEnd`), which need
fairness and ENABLED and are out of the prover's reach; `DamageIsBounded` with faults, which is a property of
payloads far enough apart that a fault does not turn one into another (`MCAny`) and not of all; and the
two findings, which are counterexamples. No module uses RECURSIVE operators.

## 7. What is not modelled

* 32-bit wrap-around of addresses: sessions in the models lie in the chip, and no chip is near 4 GB. The
  counters that do wrap, `total_remaining` and `compressed_remaining` of a compressed session, the packet counters
  of READ_FLASH and the product of ERASE_REGION's timeout, wrap in the models.
* A host that mixes FLASH_DATA into a compressed session, or FLASH_DEFL_DATA into a plain one: the two share
  `s_flash_state`, and each session is modelled with its own commands.
* The data size that a FLASH_DEFL_DATA says it has: the models take what came.
* `Commands` does not contain the write sessions and read streams, whose modules are their
  own; they take part with the results and functions they leave. The NAND write opcodes are
  in `NandWrite` only.
* What `stub_lib_flash_wait_ready()` answers when it is given no time, and everything else inside
  `esp-stub-lib`, which is not in the repository; the model takes every outcome its callers tell
  apart.
* SPI_SET_PARAMS, SPI_ATTACH, READ_REG and the security information: their length checks and results are in
  `Dispatch`, what they change or read belongs to the hardware library.
* A SLIP frame whose transmission fails, the CPU clock, the straps and interrupts of transport detection, the USB reset: hardware access, with no
  state of the stub.
* The byte order helpers, the linker scripts, the tools that pack the image, and the unit tests.
