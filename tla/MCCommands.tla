----------------------------- MODULE MCCommands -----------------------------
(* Two sectors of two cells, three bytes of memory, two NAND blocks, a 2-bit   *)
(* register.  Each host sends damaged frames and failing FLASH_DATA among the  *)
(* commands of one kind.                                                       *)
EXTENDS Commands

Frame(c, p, a) == [direction |-> "request", cmd |-> c, packet |-> p, arg |-> a,
                   size |-> p + HEADER_SIZE]
Plain(c, p) == Frame(c, p, NONE)
At(c, p, a, n) == Frame(c, p, [addr |-> a, size |-> n])
Data(n, d) == Frame("MEM_DATA", MEM_DATA_HEADER_SIZE + Len(d), [len |-> n, data |-> d])

\* Three bytes came; the rest was left behind by a MEM_DATA.
Leftover == [Data(1, <<9>>) EXCEPT !.size = 3]

Common == {Plain("SYNC", SYNC_SIZE), Plain("FLASH_DATA", 20),
           [Plain("SYNC", SYNC_SIZE) EXCEPT !.direction = "response"], Leftover}

Memory == {At("MEM_BEGIN", MEM_BEGIN_SIZE, a, 2) : a \in {0, 1}}
          \cup {At("MEM_BEGIN", 20, 0, 1), At("MEM_BEGIN", MEM_BEGIN_SIZE, 0, 3)}
          \cup {Data(Len(d), d) : d \in {<<>>, <<1>>, <<2>>, <<1, 2>>}}
          \cup {Data(2, <<1>>), Plain("MEM_DATA", 8)}
          \cup {Frame("MEM_END", n, [flag |-> g]) : n \in {4, MEM_END_SIZE}, g \in {0, 1}}

Flash == {At("ERASE_REGION", ERASE_REGION_SIZE, a, n) : a \in {0, 2}, n \in {0, 1, 2}}
         \cup {At("ERASE_REGION", ERASE_REGION_SIZE, 0, 4), At("ERASE_REGION", 4, 0, 2)}
         \cup {Plain("ERASE_FLASH", 0), At("SPI_FLASH_MD5", 4, 0, 1)}
         \cup {At("SPI_FLASH_MD5", SPI_FLASH_MD5_SIZE, a, n) : a \in 0..3, n \in 0..9}

Nand == {At("NAND_ERASE_REGION", ERASE_REGION_SIZE, a, n) : a \in {0, 2}, n \in {0, 1, 2}}
        \cup {At("NAND_ERASE_REGION", ERASE_REGION_SIZE, 0, 4), Plain("NAND_ERASE_FLASH", 0)}
        \cup {Frame("NAND_WRITE_BBM", SPI_NAND_WRITE_BBM_SIZE, [addr |-> 0, is_bad |-> b]) :
                b \in BOOLEAN}
        \cup {Plain("NAND_ATTACH", n) : n \in {0, SPI_NAND_ATTACH_SIZE}}
        \cup {Plain("NAND_READ_BBM", SPI_NAND_READ_BBM_SIZE),
              Plain("NAND_READ_FLASH", SPI_NAND_READ_FLASH_SIZE),
              Plain("NAND_READ_PAGE_DEBUG", SPI_NAND_READ_PAGE_DEBUG_SIZE)}

Entry(v, m) == [addr |-> "R", value |-> v, mask |-> m]
Simple == {Frame("CHANGE_BAUDRATE", CHANGE_BAUDRATE_SIZE, r) : r \in {RATE, 2 * RATE}}
          \cup {Plain("CHANGE_BAUDRATE", 4), Plain("READ_FLASH", READ_FLASH_SIZE),
                Plain("SPI_ATTACH", SPI_ATTACH_SIZE), Plain("SPI_SET_PARAMS", SPI_SET_PARAMS_SIZE),
                Plain("READ_REG", READ_REG_SIZE), Plain("READ_REG", 8),
                Plain("GET_SECURITY_INFO", GET_SECURITY_INFO_SIZE), Plain("RUN_USER_CODE", 0),
                Plain("FLASH_ENCRYPT_DATA", 20), Plain("PLUGIN_RESERVED", 0),
                Plain("WRITE_REG", 0),
                Frame("WRITE_REG", 16, <<Entry({0}, {0})>>),
                Frame("WRITE_REG", 32, <<Entry({1}, {0, 1}), Entry({}, {0})>>)}

\* A plugin is loaded, and the chip still erasing, where a command tells.
Sends(ops) == \E f \in workload : f.cmd \in ops
MCInit == Init /\ (plugin_table # {} => Sends(PluginOps)) /\ (busy => Sends({"ERASE_REGION"}))
MCSpec == MCInit /\ [][Next]_vars /\ WF_vars(Stub)

MCWorkloads == {Common \cup w : w \in {Memory, Flash, Nand, Simple}}
=============================================================================
