------------------------------ MODULE PcieHost ------------------------------
(***************************************************************************)
(* Labs H1 to H3: the AHB to PCIe host bridge                              *)
(* (platform/pcie/rtl/labh1_ahb_pcie_host_bridge.v), one clock per step.   *)
(*                                                                         *)
(* The processor programs a configuration request in the CFG registers     *)
(* and rings the doorbell by writing CFG_COMMAND; the bridge issues the    *)
(* request to its backend, waits for the completion and raises DONE.  A    *)
(* register access takes two clocks: the address phase, which the bridge   *)
(* captures, and the data phase, in which it happens; `dphase' is the      *)
(* access whose data phase this clock is.                                  *)
(*                                                                         *)
(* All registers change on the same clock edge, from the values they had   *)
(* before it; where the state machine and a register write of the          *)
(* processor assign the same register, the write, which comes last in the  *)
(* code, wins.  The module has no Next: PcieConfig and PcieRootPort        *)
(* connect it to a processor and to a backend.                             *)
(***************************************************************************)
EXTENDS Integers

CONSTANTS
  Bdfs,      \* bus/device/function numbers a request may name
  Regs,      \* offsets of configuration registers a request may name
  Words      \* 32-bit data words

\* Registers come out of reset as zero: function 00:00.0, register 0.
Zero == "00000000"
Ones == "FFFFFFFF"
DeviceId == "56781234"
Absent == "00:00.0"
Endpoint == "00:01.0"
VendorDevice == "000"

ASSUME PcieAssumption ==
  /\ {Absent, Endpoint} \subseteq Bdfs
  /\ VendorDevice \in Regs
  /\ {Zero, Ones, DeviceId} \subseteq Words

VARIABLES
  dphase,        \* access in its data phase, NoAccess when there is none
  state,         \* "IDLE", "ISSUE" or "WAIT_CPL"
  busy, done, error_status,
  cfg,           \* CFG_BDF, CFG_REG and CFG_WDATA
  cfg_rdata,
  req            \* snapshot of the request, taken when a command is accepted

bridgeVars == <<state, busy, done, error_status, cfg, cfg_rdata, req>>

-----------------------------------------------------------------------------
(* Requests, completions and register accesses. *)

Requests == [type : {"READ", "WRITE"}, bdf : Bdfs, reg : Regs, wdata : Words]

NoAccess == [port |-> "NONE"]
CsrWrite(reg, value) == [port |-> "CSR", write |-> TRUE, reg |-> reg, value |-> value]
CsrRead(reg) == [port |-> "CSR", write |-> FALSE, reg |-> reg]

\* "BAD" stands for every write that the bridge does not take: one that is
\* not an aligned word, or whose register is not writable.
CsrWrites ==
       {CsrWrite("CFG_BDF", b) : b \in Bdfs}
  \cup {CsrWrite("CFG_REG", r) : r \in Regs}
  \cup {CsrWrite("CFG_WDATA", w) : w \in Words}
  \cup {CsrWrite("CFG_COMMAND", c) : c \in {"READ", "WRITE", "OTHER"}}
  \cup {CsrWrite("BAD", Zero)}
CsrReads == {CsrRead("STATUS"), CsrRead("CFG_RDATA")}

-----------------------------------------------------------------------------
(* Signals of the bridge and what is happening in this clock. *)

req_valid == state = "ISSUE"

\* With a bug: the bridge takes a completion only when it is no longer busy.
cpl_ready_idle == state = "WAIT_CPL" /\ ~busy

cpl_ready == state = "WAIT_CPL"

\* What a read of STATUS returns in this clock.
Status == [busy |-> busy, done |-> done, error |-> error_status # {}]

Reading(reg) == dphase = CsrRead(reg)
Writing(reg) == dphase.port = "CSR" /\ dphase.write /\ dphase.reg = reg

\* With a bug: the bridge accepts a command at any time.
OccupiedNever == FALSE

Occupied == busy \/ state # "IDLE"
Accepted == Writing("CFG_COMMAND") /\ ~Occupied /\ dphase.value \in {"READ", "WRITE"}
Rejected == Writing("CFG_COMMAND") /\ Occupied
Unknown  == Writing("CFG_COMMAND") /\ ~Occupied /\ dphase.value \notin {"READ", "WRITE"}

\* The error bit a write adds to those already set.
Refusal == IF Rejected THEN {"BUSY"} ELSE IF Writing("BAD") THEN {"BAD_ACCESS"} ELSE {}

\* The completion `cpl' that the backend presents, a record of valid, ok and
\* rdata, ends the request; of a read it is kept.
Completes(cpl) == cpl_ready /\ cpl.valid

Captures(cpl) == Completes(cpl) /\ cpl.ok /\ req.type = "READ"

-----------------------------------------------------------------------------
BridgeInit ==
  /\ state = "IDLE" /\ busy = FALSE /\ done = FALSE /\ error_status = {}
  /\ cfg = [bdf |-> Absent, reg |-> VendorDevice, wdata |-> Zero]
  /\ req = [type |-> "READ", bdf |-> Absent, reg |-> VendorDevice, wdata |-> Zero]
  /\ cfg_rdata = Zero

\* One clock edge of the bridge; the backend drives `ready' and `cpl'.
BridgeClock(ready, cpl) ==
  /\ state' = CASE Accepted -> "ISSUE"
                [] req_valid /\ ready -> "WAIT_CPL"
                [] Completes(cpl) -> "IDLE"
                [] OTHER -> state
  /\ busy' = (Accepted \/ (busy /\ ~Completes(cpl)))
  /\ done' = ((done \/ Completes(cpl) \/ Unknown) /\ ~Accepted)
  /\ error_status' = CASE Accepted -> {}
                       [] Unknown -> {"BAD_COMMAND"}
                       [] Refusal # {} -> error_status \cup Refusal
                       [] Completes(cpl) /\ Refusal = {} ->
                            IF cpl.ok THEN {} ELSE {"BACKEND"}
                       [] OTHER -> error_status
  /\ cfg' = [bdf   |-> IF Writing("CFG_BDF") THEN dphase.value ELSE cfg.bdf,
             reg   |-> IF Writing("CFG_REG") THEN dphase.value ELSE cfg.reg,
             wdata |-> IF Writing("CFG_WDATA") THEN dphase.value ELSE cfg.wdata]
  /\ cfg_rdata' = IF Captures(cpl) THEN cpl.rdata ELSE cfg_rdata
  /\ req' = IF Accepted
            THEN [type |-> dphase.value, bdf |-> cfg.bdf, reg |-> cfg.reg,
                  wdata |-> cfg.wdata]
            ELSE req

BridgeTypeOK ==
  /\ state \in {"IDLE", "ISSUE", "WAIT_CPL"}
  /\ busy \in BOOLEAN /\ done \in BOOLEAN
  /\ error_status \subseteq {"BUSY", "BAD_COMMAND", "BAD_ACCESS", "BACKEND"}
  /\ cfg \in [bdf : Bdfs, reg : Regs, wdata : Words]
  /\ cfg_rdata \in Words
  /\ req \in Requests
=============================================================================
