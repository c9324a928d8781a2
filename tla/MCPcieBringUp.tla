--------------------------- MODULE MCPcieBringUp ----------------------------
(* PcieBringUp on the words and registers main.c uses. *)
EXTENDS PcieBringUp

MCBdfs == {Absent, Endpoint}
MCRegs == {VendorDevice, CommandStatus, Bar0}
MCData == {TestValue}
MCWords == MCData \cup {Zero, Ones, DeviceId, MmioBase, BarMask, LowOnes,
                       MemoryEnable, BaseEnable}
=============================================================================
