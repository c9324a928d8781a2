---------------------------- MODULE PcieRootPort ----------------------------
(***************************************************************************)
(* Lab H3: the root port.  Two slaves of the processor's bus, the host     *)
(* bridge of lab H1 for configuration requests and the memory bridge       *)
(* (labh3_ahb_pcie_mmio_bridge.v) for loads and stores in the PCIe         *)
(* aperture, share one backend, the vendor adapter                         *)
(* (labh3_pcie_vendor_adapter_model.v), which serves one request at a      *)
(* time and holds the endpoint's BAR0, command and scratch registers.      *)
(*                                                                         *)
(* The processor presents any access whenever the bus is ready: whatever   *)
(* software it runs, this is what the root port sees.  One access is in    *)
(* its data phase while the next one is in its address phase, and a load   *)
(* or store in the aperture stalls the bus until the memory bridge is      *)
(* done with it.  After an error response the processor takes its bus      *)
(* fault and presents nothing in the second clock of the response.         *)
(***************************************************************************)
EXTENDS PcieHost

CONSTANTS
  Latency,      \* clocks the adapter delays a request before it completes it
  Data,         \* words that are stored to memory
  Accesses      \* the accesses the processor makes

\* The registers of the endpoint, and the words they are programmed with.
CommandStatus == "004"
Bar0 == "010"
MmioBase == "60000000"
BarMask == "FFFF0000"
LowOnes == "0000FFFF"
MemoryEnable == "00000002"
BaseEnable == "60000002"     \* programs either register

ASSUME RootPortAssumption ==
  /\ {CommandStatus, Bar0} \subseteq Regs
  /\ Data \cup {MmioBase, BarMask, LowOnes, MemoryEnable, BaseEnable} \subseteq Words
  /\ Latency \in Nat

VARIABLES
  \* memory bridge
  mstate,       \* "IDLE", "DPHASE", "ISSUE", "WAIT", "RESP", "ERR1", "ERR2"
  mreq,         \* address, direction and data of the access it holds
  mrdata,       \* rdata_r, what it drives on HRDATA
  \* vendor adapter and endpoint
  astate,       \* "IDLE", "DELAY" or "CPL"
  kind,         \* "CFG" or "MEM": whose request the adapter serves
  delay_count,
  saved_cfg, saved_addr,
  device,       \* command_reg, bar0_base, bar0_probe and scratch_reg
  cpl_ok, cpl_rdata,
  \* history: the endpoint as the program order of the accesses leaves it,
  \* and the value the last configuration read has to return
  ordered, promised

mmioVars == <<mstate, mreq, mrdata>>
adapterVars == <<astate, kind, delay_count, saved_cfg, saved_addr, device,
                 cpl_ok, cpl_rdata>>
vars == <<dphase, bridgeVars, mmioVars, adapterVars, ordered, promised>>

-----------------------------------------------------------------------------
(* Accesses to the aperture.  "scratch" is offset 0x1000 of the aperture,   *)
(* "other" any other aligned word of it, "bad" what the memory bridge       *)
(* refuses: an access that is not an aligned word.                          *)

Addresses == {"scratch", "other", "bad"}
Load(a) == [port |-> "MMIO", write |-> FALSE, addr |-> a, value |-> Zero]
Store(a, w) == [port |-> "MMIO", write |-> TRUE, addr |-> a, value |-> w]
MmioAccesses ==
  {Load(a) : a \in Addresses} \cup {Store(a, w) : a \in Addresses, w \in Data}

\* The words below are those on which Low16 and High16 are exact.
Programmed == {Zero, Ones, LowOnes, MmioBase, BarMask, MemoryEnable, BaseEnable}

ASSUME AccessAssumption ==
  /\ Accesses \subseteq CsrWrites \cup CsrReads \cup MmioAccesses
  /\ \A w \in Words \ Programmed : CsrWrite("CFG_WDATA", w) \notin Accesses

-----------------------------------------------------------------------------
(* The endpoint's registers. *)

\* wdata[15:0] and wdata & BAR0_MASK, on the words used to program them.
Low16(w) == CASE w \in {Ones, LowOnes} -> LowOnes
              [] w \in {MemoryEnable, BaseEnable} -> MemoryEnable
              [] OTHER -> Zero
High16(w) == CASE w \in {MmioBase, BaseEnable} -> MmioBase
               [] w = BarMask -> BarMask
               [] OTHER -> Zero

\* The registers after configuration request r.
Writes(r, reg) == r.type = "WRITE" /\ r.bdf = Endpoint /\ r.reg = reg
Configured(d, r) ==
  IF Writes(r, CommandStatus) THEN [d EXCEPT !.command = Low16(r.wdata)]
  ELSE IF Writes(r, Bar0) /\ r.wdata = Ones THEN [d EXCEPT !.probe = TRUE]
  ELSE IF Writes(r, Bar0) THEN [d EXCEPT !.bar0 = High16(r.wdata), !.probe = FALSE]
  ELSE d

\* What the completion of configuration request r returns.
Reads(r, reg) == r.type = "READ" /\ r.bdf = Endpoint /\ r.reg = reg
ConfigValue(d, r) ==
  IF r.bdf # Endpoint THEN Ones
  ELSE IF Reads(r, VendorDevice) THEN DeviceId
  ELSE IF Reads(r, CommandStatus) THEN d.command
  ELSE IF Reads(r, Bar0) THEN (IF d.probe THEN BarMask ELSE d.bar0)
  ELSE Zero

\* The endpoint answers at offset 0x1000 of BAR0 once memory is enabled.
Claims(d, a) ==
  d.command \in {MemoryEnable, LowOnes} /\ d.bar0 = MmioBase /\ a = "scratch"

Stored(d, a, w) == IF Claims(d, a) THEN [d EXCEPT !.scratch = w] ELSE d

-----------------------------------------------------------------------------
(* Signals. *)

HREADYOUT == mstate \in {"IDLE", "RESP", "ERR2"}
HREADY == dphase.port = "MMIO" => HREADYOUT

mem_req_valid == mstate = "ISSUE"
mem_cpl_ready == mstate = "WAIT"

cfg_req_ready == astate = "IDLE"

\* With a bug: a memory request is taken while another request is served.
mem_req_ready_always == ~req_valid

mem_req_ready == astate = "IDLE" /\ ~req_valid
cfg_cpl == [valid |-> astate = "CPL" /\ kind = "CFG", ok |-> cpl_ok, rdata |-> cpl_rdata]

\* With a bug: only a successful load is completed.
mem_cpl_valid_ok == astate = "CPL" /\ kind = "MEM" /\ cpl_ok

mem_cpl_valid == astate = "CPL" /\ kind = "MEM"

-----------------------------------------------------------------------------
Reset == [command |-> Zero, bar0 |-> Zero, probe |-> FALSE, scratch |-> Zero]

Init ==
  /\ dphase = NoAccess /\ BridgeInit
  /\ mstate = "IDLE" /\ mreq = Load("bad") /\ mrdata = Zero
  /\ astate = "IDLE" /\ kind = "CFG" /\ delay_count = 0
  /\ saved_cfg = req /\ saved_addr = "bad"
  /\ device = Reset /\ cpl_ok = TRUE /\ cpl_rdata = Zero
  /\ ordered = Reset /\ promised = Zero

\* The memory bridge, while access `a' is in its address phase.
MmioClock(a) ==
  /\ mstate' = CASE mstate \in {"IDLE", "RESP"} ->
                      IF a.port = "MMIO" THEN "DPHASE" ELSE "IDLE"
                 [] mstate = "DPHASE" -> IF mreq.addr = "bad" THEN "ERR1" ELSE "ISSUE"
                 [] mstate = "ISSUE" /\ mem_req_ready ->
                      IF mreq.write THEN "RESP" ELSE "WAIT"
                 [] mstate = "WAIT" /\ mem_cpl_valid ->
                      IF cpl_ok THEN "RESP" ELSE "ERR1"
                 [] mstate = "ERR1" -> "ERR2"
                 [] mstate = "ERR2" -> "IDLE"
                 [] OTHER -> mstate
  /\ mreq' = IF mstate \in {"IDLE", "RESP"} /\ a.port = "MMIO" THEN a ELSE mreq
  /\ mrdata' = IF mstate = "WAIT" /\ mem_cpl_valid /\ cpl_ok THEN cpl_rdata ELSE mrdata

\* The adapter takes a configuration request before a memory request; a
\* store is posted, it takes effect at once and has no completion.
AdapterAccept ==
  /\ astate = "IDLE"
  /\ \/ /\ req_valid
        /\ astate' = "DELAY" /\ kind' = "CFG" /\ delay_count' = Latency
        /\ saved_cfg' = req
        /\ UNCHANGED <<saved_addr, device>>
     \/ /\ mem_req_valid /\ mem_req_ready /\ ~mreq.write
        /\ astate' = "DELAY" /\ kind' = "MEM" /\ delay_count' = Latency
        /\ saved_addr' = mreq.addr
        /\ UNCHANGED <<saved_cfg, device>>
     \/ /\ mem_req_valid /\ mem_req_ready /\ mreq.write
        /\ device' = Stored(device, mreq.addr, mreq.value)
        /\ UNCHANGED <<astate, kind, delay_count, saved_cfg, saved_addr>>
     \/ /\ ~req_valid /\ ~mem_req_valid
        /\ UNCHANGED <<astate, kind, delay_count, saved_cfg, saved_addr, device>>
  /\ UNCHANGED <<cpl_ok, cpl_rdata>>

AdapterDelay ==
  /\ astate = "DELAY" /\ delay_count > 0
  /\ delay_count' = delay_count - 1
  /\ UNCHANGED <<astate, kind, saved_cfg, saved_addr, device, cpl_ok, cpl_rdata>>

AdapterPerform ==
  /\ astate = "DELAY" /\ delay_count = 0
  /\ astate' = "CPL"
  /\ \/ /\ kind = "CFG"
        /\ device' = Configured(device, saved_cfg)
        /\ cpl_ok' = TRUE
        /\ cpl_rdata' = ConfigValue(device, saved_cfg)
     \/ /\ kind = "MEM"
        /\ cpl_ok' = Claims(device, saved_addr)
        /\ cpl_rdata' = IF Claims(device, saved_addr) THEN device.scratch ELSE Ones
        /\ UNCHANGED device
  /\ UNCHANGED <<kind, delay_count, saved_cfg, saved_addr>>

AdapterComplete ==
  /\ astate = "CPL"
  /\ astate' = IF (kind = "CFG" /\ cpl_ready) \/ (kind = "MEM" /\ mem_cpl_ready)
               THEN "IDLE" ELSE "CPL"
  /\ UNCHANGED <<kind, delay_count, saved_cfg, saved_addr, device, cpl_ok, cpl_rdata>>

AdapterClock == AdapterAccept \/ AdapterDelay \/ AdapterPerform \/ AdapterComplete

\* Program order: a command when the bridge accepts it, a store when it is
\* in its data phase.
Command == [type |-> dphase.value, bdf |-> cfg.bdf, reg |-> cfg.reg, wdata |-> cfg.wdata]

Order ==
  /\ ordered' = IF Accepted THEN Configured(ordered, Command)
                ELSE IF mstate = "DPHASE" /\ mreq.write /\ mreq.addr # "bad"
                THEN Stored(ordered, mreq.addr, mreq.value)
                ELSE ordered
  /\ promised' = IF Accepted /\ dphase.value = "READ"
                 THEN ConfigValue(ordered, Command) ELSE promised

-----------------------------------------------------------------------------
\* A clock in which the processor has access `a' in its address phase.
Clock(a) ==
  /\ BridgeClock(cfg_req_ready, cfg_cpl)
  /\ MmioClock(a)
  /\ AdapterClock
  /\ Order
  /\ dphase' = a

\* The bus is stalled: the access in its data phase stays there.
Stall == ~HREADY /\ Clock(dphase)

NoTransfer == HREADY /\ Clock(NoAccess)

Transfer == HREADY /\ mstate # "ERR2" /\ \E a \in Accesses : Clock(a)

Next == Stall \/ NoTransfer \/ Transfer
Spec == Init /\ [][Next]_vars

\* The clock runs.
FairSpec == Spec /\ WF_vars(Next)

-----------------------------------------------------------------------------
Devices == [command : Words, bar0 : Words, probe : BOOLEAN, scratch : Words]

TypeOK ==
  /\ BridgeTypeOK
  /\ dphase \in {NoAccess} \cup Accesses
  /\ mstate \in {"IDLE", "DPHASE", "ISSUE", "WAIT", "RESP", "ERR1", "ERR2"}
  /\ mreq \in MmioAccesses /\ mrdata \in Words
  /\ astate \in {"IDLE", "DELAY", "CPL"} /\ kind \in {"CFG", "MEM"}
  /\ delay_count \in 0 .. Latency
  /\ saved_cfg \in Requests /\ saved_addr \in Addresses
  /\ device \in Devices /\ ordered \in Devices
  /\ cpl_ok \in BOOLEAN /\ cpl_rdata \in Words /\ promised \in Words

(***************************************************************************)
(* The adapter works for exactly the bridge that waits for it: each bridge *)
(* waits for a completion while the adapter serves its request and at no   *)
(* other time, so a completion is never lost and never goes to the other.  *)
(***************************************************************************)
CompletionOwned ==
  /\ cpl_ready <=> (astate # "IDLE" /\ kind = "CFG")
  /\ mem_cpl_ready <=> (astate # "IDLE" /\ kind = "MEM")

(***************************************************************************)
(* Loads see program order: a load returns the last word stored, or an     *)
(* error if the endpoint does not claim the address, judged by every       *)
(* configuration write and store before it, however the two paths to the   *)
(* endpoint overlap.                                                       *)
(***************************************************************************)
LoadsInOrder ==
  ~mreq.write =>
    /\ mstate = "RESP" => Claims(ordered, mreq.addr) /\ mrdata = ordered.scratch
    /\ mstate = "ERR1" => ~Claims(ordered, mreq.addr)

(***************************************************************************)
(* Whenever no request is under way, CFG_RDATA holds what the register of  *)
(* the last configuration read held in program order when its doorbell was *)
(* rung: commands the bridge refused and writes after the read leave it.   *)
(***************************************************************************)
ConfigReadsInOrder == state = "IDLE" => cfg_rdata = promised

(***************************************************************************)
(* Both ports of the endpoint show program order, loads through the        *)
(* aperture and reads through CFG_RDATA.                                   *)
(***************************************************************************)
ReadsInOrder == LoadsInOrder /\ ConfigReadsInOrder

(***************************************************************************)
(* The bus does not hang: a stalled load or store is let go.               *)
(***************************************************************************)
StallsEnd == ~HREADY ~> HREADY
=============================================================================
