------------------------------ MODULE Dispatch ------------------------------
(* handle_command() of command_handler.c: the checks of a frame, the handler   *)
(* that its command selects, the response, and the function registered to run  *)
(* after it.  MemorySession and ChipCommands have the handlers; Commands puts  *)
(* them together.  The write sessions and the read streams are modules of      *)
(* their own; here they are handlers with a result of any kind.                *)
(*                                                                             *)
(* A frame is told by what its header says: direction, cmd and packet, the     *)
(* size of its payload; by that payload, arg; and by the bytes that came,      *)
(* size.  One shorter than a header is parsed all the same, with what an       *)
(* earlier frame left behind it in the buffer: of such a frame only the size   *)
(* is the host's own.                                                          *)
EXTENDS Integers, Sequences

CONSTANTS RATE,            \* the baud rate of the link after reset
          Workloads        \* bound: a host sends the frames of one of these

HEADER_SIZE == 8
SYNC_SIZE == 36
READ_FLASH_SIZE == 16
CHANGE_BAUDRATE_SIZE == 8
SPI_ATTACH_SIZE == 4
SPI_SET_PARAMS_SIZE == 24
READ_REG_SIZE == 4
GET_SECURITY_INFO_SIZE == 0

VARIABLES
  pc,                        \* "idle", "handler", "respond", "post", or in a handler's loop
  ctx,                       \* the frame being handled, if one is
  accumulated_result, s_pending_post_process,
  plugin_table,              \* the opcodes that a plugin's handler was patched in for
  rate,                      \* the baud rate of the link
  workload,                  \* what this host sends
  response,                  \* the last response: its result, how often, at what rate
  heard, owed                \* history: the rate ctx came in at; an error not told yet

dispatchRest == <<ctx, accumulated_result, s_pending_post_process, plugin_table, rate,
                  workload, response, heard, owed>>
dispatchVars == <<pc, dispatchRest>>

NONE == "none"

\* Opcodes 0xD5 to 0xEF.
PluginOps == {"NAND_ATTACH", "NAND_READ_BBM", "NAND_READ_PAGE_DEBUG", "NAND_WRITE_BBM",
              "NAND_READ_FLASH", "NAND_ERASE_FLASH", "NAND_ERASE_REGION", "PLUGIN_RESERVED"}

Whole(f) == f.size = f.packet + HEADER_SIZE

\* Mutant of FrameFits: only a frame that is too long is refused.
FrameFitsShort(f) == f.size =< f.packet + HEADER_SIZE

FrameFits(f) == f.size = f.packet + HEADER_SIZE

SendResponse(f, r, n) ==
  /\ response' = [result |-> r, copies |-> n, rate |-> rate]
  /\ owed' = IF f.direction = "request" /\ Whole(f) THEN "SUCCESS" ELSE owed

\* Mutant of KeepResult: a frame that is refused clears the error carried over.
KeepResultNot == accumulated_result' = "SUCCESS"

KeepResult == UNCHANGED accumulated_result

RefuseFrame(f) ==
  /\ pc = "idle"
  /\ f.direction # "request" \/ ~FrameFits(f)
  /\ SendResponse(f, IF f.direction # "request" THEN "INVALID_COMMAND" ELSE "BAD_DATA_LEN", 1)
  /\ KeepResult
  /\ UNCHANGED <<pc, ctx, s_pending_post_process, plugin_table, rate, workload, heard>>

Request(f) == pc = "idle" /\ f.direction = "request" /\ FrameFits(f)

\* The error of the last post-process takes the place of this command.
ReportError(f) ==
  /\ Request(f) /\ accumulated_result # "SUCCESS"
  /\ SendResponse(f, accumulated_result, 1)
  /\ accumulated_result' = "SUCCESS"
  /\ UNCHANGED <<pc, ctx, s_pending_post_process, plugin_table, rate, workload, heard>>

Select(f) ==
  /\ Request(f) /\ accumulated_result = "SUCCESS"
  /\ pc' = "handler" /\ ctx' = f /\ heard' = rate
  /\ UNCHANGED <<accumulated_result, s_pending_post_process, plugin_table, rate, workload,
                 response, owed>>

Receive == \E f \in workload : RefuseFrame(f) \/ ReportError(f) \/ Select(f)

-----------------------------------------------------------------------------
(* What handlers are made of.                                                  *)

Handles(cmd) == pc = "handler" /\ ctx.cmd = cmd

\* A handler returns r with post registered.
Returns(r, post) ==
  /\ pc' = "respond" /\ accumulated_result' = r
  /\ s_pending_post_process' = post
  /\ UNCHANGED <<ctx, plugin_table, rate, workload, response, heard, owed>>

Handled(r) == Returns(r, s_pending_post_process)

ExpectSize(n, r) == IF ctx.packet = n THEN r ELSE "BAD_DATA_LEN"

\* Only a success registers what is to run after the response.
Register(n, post) ==
  IF ctx.packet = n THEN Returns("SUCCESS", post) ELSE Handled("BAD_DATA_LEN")

-----------------------------------------------------------------------------
(* Handlers that leave no state of the stub.                                   *)

\* Seven responses before the one that every command gets.
Sync == Handles("SYNC") /\ Handled(ExpectSize(SYNC_SIZE, "SUCCESS"))

\* READ_FLASH, here only what its stream ends with: ReadStream models it.
ReadFlash == Handles("READ_FLASH") /\ Register(READ_FLASH_SIZE, "read_flash")

\* FLASH_DATA and FLASH_DEFL_DATA, as FlashSession and DeflateSession model them.
FlashData ==
  /\ Handles("FLASH_DATA")
  /\ \/ \E r \in {"NOT_ENOUGH_DATA", "NOT_IN_FLASH_MODE", "TOO_MUCH_DATA",
                  "BAD_DATA_CHECKSUM"} : Handled(r)
     \/ Returns("SUCCESS", "flash_data")

ChangeBaudrate ==
  Handles("CHANGE_BAUDRATE") /\ Register(CHANGE_BAUDRATE_SIZE, "change_baudrate")

SpiAttach == Handles("SPI_ATTACH") /\ Handled(ExpectSize(SPI_ATTACH_SIZE, "SUCCESS"))

SpiSetParams ==
  /\ Handles("SPI_SET_PARAMS")
  /\ \E r \in {"SUCCESS", "FAILED_SPI_OP"} : Handled(ExpectSize(SPI_SET_PARAMS_SIZE, r))

ReadReg == Handles("READ_REG") /\ Handled(ExpectSize(READ_REG_SIZE, "SUCCESS"))

\* What stub_lib_get_security_info() returns, and what the host is told of it.
SecurityResult(ret) ==
  CASE ret = "OK"            -> "SUCCESS"
    [] ret = "NOT_SUPPORTED" -> "CMD_NOT_IMPLEMENTED"
    [] OTHER                 -> "BAD_DATA_LEN"

GetSecurityInfo ==
  /\ Handles("GET_SECURITY_INFO")
  /\ \E ret \in {"OK", "NOT_SUPPORTED", "INVALID_ARG", "FAIL"} :
       Handled(ExpectSize(GET_SECURITY_INFO_SIZE, SecurityResult(ret)))

\* The only command that is not answered: it does nothing yet.
RunUserCode ==
  /\ Handles("RUN_USER_CODE")
  /\ pc' = "idle" /\ ctx' = NONE
  /\ UNCHANGED <<accumulated_result, s_pending_post_process, plugin_table, rate, workload,
                 response, heard, owed>>

\* 0xD4 is named in commands.h, but no handler takes it.
UnknownCommand ==
  Handles("FLASH_ENCRYPT_DATA") /\ Handled("INVALID_COMMAND")

\* s_plugin_unsupported(), in every slot that was not patched.
PluginUnsupported ==
  /\ pc = "handler" /\ ctx.cmd \in PluginOps \ plugin_table
  /\ Handled("CMD_NOT_IMPLEMENTED")

HandlesPlugin(cmd) == Handles(cmd) /\ cmd \in plugin_table

\* Some other plugin: it may register a function and return an error as well.
OtherPlugin ==
  /\ HandlesPlugin("PLUGIN_RESERVED")
  /\ \E r \in {"SUCCESS", "FAILED_SPI_OP"}, post \in {NONE, "other"} : Returns(r, post)

SimpleHandler ==
  \/ Sync \/ ReadFlash \/ FlashData \/ ChangeBaudrate \/ SpiAttach \/ SpiSetParams
  \/ ReadReg \/ GetSecurityInfo \/ RunUserCode \/ UnknownCommand
  \/ PluginUnsupported \/ OtherPlugin

-----------------------------------------------------------------------------
(* The response and what runs after it.                                        *)

\* Mutant of PendingAfter: an error leaves the function registered.
PendingAfterAny == s_pending_post_process

PendingAfter == IF accumulated_result = "SUCCESS" THEN s_pending_post_process ELSE NONE

Respond ==
  /\ pc = "respond"
  /\ SendResponse(ctx, accumulated_result,
                  IF ctx.cmd = "SYNC" /\ accumulated_result = "SUCCESS" THEN 8 ELSE 1)
  /\ accumulated_result' = "SUCCESS"
  /\ s_pending_post_process' = PendingAfter
  /\ IF PendingAfter = NONE THEN pc' = "idle" /\ ctx' = NONE
                            ELSE pc' = "post" /\ UNCHANGED ctx
  /\ UNCHANGED <<plugin_table, rate, workload, heard>>

Runs(post) == pc = "post" /\ s_pending_post_process = post

\* The post-process returns r, which the next command is told.
PostReturns(r) ==
  /\ pc' = "idle" /\ ctx' = NONE
  /\ accumulated_result' = r /\ s_pending_post_process' = NONE
  /\ owed' = r
  /\ UNCHANGED <<plugin_table, workload, response, heard>>

SetBaudrate ==
  /\ Runs("change_baudrate")
  /\ rate' = ctx.arg
  /\ PostReturns("SUCCESS")

\* The posts of the write sessions, the read streams and other plugins.
PostResults(post) ==
  CASE post = "flash_data"      -> {"SUCCESS", "FAILED_SPI_OP", "INFLATE_ERROR"}
    [] post = "read_flash"      -> {"SUCCESS", "BAD_DATA_LEN", "FAILED_SPI_OP"}
    [] post = "nand_read_flash" -> {"SUCCESS"}
    [] post = "other"           -> {"SUCCESS", "FAILED_SPI_OP"}

\* What they return is told to the next command.  When is not said here: the loops of
\* the sessions and the streams are in DeflateSession, FlashSession and ReadStream, and
\* some of them need not end, so that nothing says that this step is ever taken.
OtherPost ==
  /\ pc = "post"
  /\ s_pending_post_process \in {"flash_data", "read_flash", "nand_read_flash", "other"}
  /\ \E r \in PostResults(s_pending_post_process) : PostReturns(r)
  /\ UNCHANGED rate

DispatchInit ==
  /\ workload \in Workloads
  /\ pc = "idle" /\ ctx = NONE
  /\ accumulated_result = "SUCCESS" /\ s_pending_post_process = NONE
  /\ plugin_table \in {{}, PluginOps \ {"PLUGIN_RESERVED"}, {"PLUGIN_RESERVED"}}
  /\ rate = RATE /\ heard = RATE /\ owed = "SUCCESS"
  /\ response = [result |-> NONE, copies |-> 1, rate |-> RATE]

-----------------------------------------------------------------------------
(* Properties.                                                                 *)

\* What each command may leave to be done after its response.
Registers(cmd) ==
  CASE cmd = "FLASH_DATA"      -> {"flash_data"}
    [] cmd = "READ_FLASH"      -> {"read_flash"}
    [] cmd = "CHANGE_BAUDRATE" -> {"change_baudrate"}
    [] cmd = "MEM_END"         -> {"mem_end"}
    [] cmd = "NAND_READ_FLASH" -> {"nand_read_flash"}
    [] cmd = "PLUGIN_RESERVED" -> {"other"}
    [] OTHER                   -> {}

\* What runs after a response was registered by the very command it answers, and
\* the host was told of its success at the rate it sent the command at; nothing
\* stays registered for a later command, whatever fails, and whatever a plugin
\* returns: "resp->post_process is NOT called" after an error (plugin_table.h).
PostIsOwn ==
  /\ pc = "idle" => s_pending_post_process = NONE
  /\ pc \in {"post", "user"} =>
       /\ s_pending_post_process \in Registers(ctx.cmd)
       /\ response.result = "SUCCESS" /\ response.rate = heard

\* The error of a post-process is what the next request is answered with, however
\* many damaged frames come before it: none is lost and none is told in another's
\* place ("Any error from post-process carries over to the next command").
ErrorsAreTold ==
  [][owed # "SUCCESS" /\ owed' # owed =>
        owed' = "SUCCESS" /\ response'.result = owed]_dispatchVars
=============================================================================
