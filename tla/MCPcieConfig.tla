---------------------------- MODULE MCPcieConfig ----------------------------
(* PcieConfig with one absent function and one register that does not exist. *)
EXTENDS PcieConfig

MCBdfs == {Absent, Endpoint}
MCRegs == {VendorDevice, "040"}
MCWords == {Zero, Ones, DeviceId}
=============================================================================
