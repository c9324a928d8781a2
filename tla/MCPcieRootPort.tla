--------------------------- MODULE MCPcieRootPort ---------------------------
(* PcieRootPort under software that programs BAR0 and the command register. *)
EXTENDS PcieRootPort

MCBdfs == {Absent, Endpoint}
MCRegs == {VendorDevice, CommandStatus, Bar0}
MCData == {"A5A55A5A"}
MCWords == MCData \cup {Zero, Ones, DeviceId, MmioBase, BarMask, LowOnes,
                       MemoryEnable, BaseEnable}
MCAccesses ==
       {CsrWrite("CFG_BDF", Endpoint)}
  \cup {CsrWrite("CFG_REG", r) : r \in {CommandStatus, Bar0}}
  \cup {CsrWrite("CFG_WDATA", BaseEnable)}
  \cup {CsrWrite("CFG_COMMAND", c) : c \in {"READ", "WRITE", "OTHER"}}
  \cup {Store("scratch", w) : w \in Data}
  \cup {Load("scratch"), Load("bad")}
=============================================================================
