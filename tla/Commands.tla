------------------------------ MODULE Commands ------------------------------
(* The stub as a host sees it that sends any commands: Dispatch with the       *)
(* handlers of MemorySession and of ChipCommands.  What one of them registers  *)
(* or fails to tell is met by whatever command comes next.                     *)
EXTENDS MemorySession, ChipCommands

vars == <<dispatchVars, memoryVars, chipVars>>

Stub ==
  \/ (SimpleHandler \/ SetBaudrate) /\ UNCHANGED <<memoryVars, chipVars>>
  \/ Respond /\ Return /\ UNCHANGED memoryVars
  \/ (MemoryHandler \/ Jump) /\ UNCHANGED chipVars
  \/ ChipHandler /\ UNCHANGED memoryVars

Init == DispatchInit /\ MemoryInit /\ ChipInit

Next ==
  \/ Receive /\ UNCHANGED <<memoryVars, chipVars>>
  \/ Stub
  \/ OtherPost /\ UNCHANGED <<memoryVars, chipVars>>
  \/ UserReturns /\ UNCHANGED chipVars
  \/ ChipReady /\ UNCHANGED memoryVars

\* The stub runs.  No command need come, and an erase need not end.  A loaded program
\* need not return, nor the post-process of a write session or a read stream, which
\* waits for the chip or for the host in a loop that this module does not contain.
Spec == Init /\ [][Next]_vars /\ WF_vars(Stub)

-----------------------------------------------------------------------------
(* Properties.                                                                 *)

IsBlank(a, n) == \A c \in Cells : a =< c /\ c < a + n => flash[c] = BLANK

\* What a success promises of the chip.  The response to an ERASE_REGION whose
\* timeout was used up, by calls that were refused or found the chip busy, is as
\* good as what wait_ready() says of no time at all.
Done(f) ==
  CASE f.cmd = "ERASE_FLASH"   -> IsBlank(0, CELLS) /\ ~busy
    [] f.cmd = "ERASE_REGION"  -> timeout_us > 0 => IsBlank(f.arg.addr, f.arg.size) /\ ~busy
    [] f.cmd = "SPI_FLASH_MD5" -> hashed = [k \in 1..f.arg.size |-> f.arg.addr + k - 1]
    [] f.cmd = "NAND_ERASE_FLASH"  -> \A b \in DOMAIN nand : nand[b] = BLANK
    [] f.cmd = "NAND_ERASE_REGION" ->
         \A b \in DOMAIN nand :
            f.arg.addr =< 2 * b /\ 2 * b < f.arg.addr + f.arg.size => nand[b] = BLANK
    [] OTHER -> TRUE

\* A command on a region is answered with success only when all of the region was
\* erased, and the chip is at rest, or when exactly its cells were hashed, in
\* whatever chunks, wherever the region starts and whatever failed on the way; of
\* an ERASE_REGION this is said as long as its timeout was not used up.
SuccessMeansDone == pc = "respond" /\ accumulated_result = "SUCCESS" => Done(ctx)

\* The loops over a region end, and their commands are answered: ERASE_REGION also
\* with a chip that is never ready and one that refuses every erase, because it
\* counts its calls, SPI_FLASH_MD5 and the NAND erases because each round has less
\* left to do.
RegionCommandsEnd ==
  pc \in {"erase_region", "wait_ready", "md5", "nand_erase"} ~> pc = "idle"
=============================================================================
