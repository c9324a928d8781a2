----------------------------- MODULE PcieConfig -----------------------------
(***************************************************************************)
(* Lab H2: the host bridge connected to the transaction model of an        *)
(* endpoint (labh2_pcie_tlp_tx.v, labh2_pcie_endpoint_model.v,             *)
(* labh2_pcie_tlp_rx.v), under the polling driver of the lab and any       *)
(* sequence of configuration reads and writes.                             *)
(*                                                                         *)
(* The stub backend of lab H1 (labh1_pcie_backend_stub.v) is the same      *)
(* endpoint without its one writable register.                             *)
(***************************************************************************)
EXTENDS PcieDriver

CONSTANTS
  Scratch,     \* offset of the writable register
  Latency      \* clocks between accepting a request and performing it

ASSUME ConfigAssumption ==
  Scratch \in Regs \ {VendorDevice} /\ Latency \in Nat

VARIABLES
  pending,     \* the endpoint holds a request
  delay_count,
  saved,       \* the request transaction it holds
  cfg_scratch, \* contents of the writable register
  cpl          \* the completion transaction it presents

endpointVars == <<pending, delay_count, saved, cfg_scratch, cpl>>
vars == <<dphase, bridgeVars, driverVars, endpointVars>>

-----------------------------------------------------------------------------
(* Transaction layer: packing a request, and unpacking a completion. *)

Opcode == [READ |-> "CFG_READ", WRITE |-> "CFG_WRITE"]
TlpTx(r) == [opcode |-> Opcode[r.type], reg |-> r.reg, bdf |-> r.bdf, data |-> r.wdata]

\* Only a completion transaction reports its own status.
TlpRx(c) == [valid |-> c.valid, ok |-> c.opcode = "CPL" /\ c.ok, rdata |-> c.data]

-----------------------------------------------------------------------------
(* The endpoint. *)

req_ready == ~pending /\ ~cpl.valid

\* The value a read transaction t returns when the register holds s; reads
\* of an absent function or register return all ones.
Lookup(s, t) ==
  CASE t.bdf = Endpoint /\ t.reg = VendorDevice -> DeviceId
    [] t.bdf = Endpoint /\ t.reg = Scratch -> s
    [] OTHER -> Ones

\* The register after a write transaction t.
Store(s, t) == IF t.bdf = Endpoint /\ t.reg = Scratch THEN t.data ELSE s

EndpointInit ==
  /\ pending = FALSE /\ delay_count = 0 /\ cfg_scratch = Zero
  /\ saved = TlpTx(req)
  /\ cpl = [valid |-> FALSE, opcode |-> "NONE", ok |-> TRUE, data |-> Zero]

EndpointClock ==
  LET accept == req_valid /\ req_ready
      finish == pending /\ delay_count = 0
      taken  == cpl.valid /\ cpl_ready
  IN
  /\ saved' = IF accept THEN TlpTx(req) ELSE saved
  /\ pending' = (accept \/ (pending /\ ~finish))
  /\ delay_count' = CASE accept -> Latency
                      [] pending /\ delay_count > 0 -> delay_count - 1
                      [] OTHER -> delay_count
  /\ cfg_scratch' = IF finish /\ saved.opcode = "CFG_WRITE"
                    THEN Store(cfg_scratch, saved) ELSE cfg_scratch
  /\ cpl' = CASE taken -> [cpl EXCEPT !.valid = FALSE]
              [] finish /\ ~taken -> [valid |-> TRUE, opcode |-> "CPL", ok |-> TRUE,
                            data |-> IF saved.opcode = "CFG_READ"
                                     THEN Lookup(cfg_scratch, saved) ELSE Zero]
              [] OTHER -> cpl

-----------------------------------------------------------------------------
Hardware == BridgeClock(req_ready, TlpRx(cpl)) /\ EndpointClock

Init == dphase = NoAccess /\ BridgeInit /\ DriverInit /\ EndpointInit

\* Calls of config_read32 and config_write32; a read passes no data.
Calls == {r \in Requests : r.type = "READ" => r.wdata = Zero}

Next == Hardware /\ (Pass \/ Proceed \/ \E o \in Calls : Invoke(o))

Spec == Init /\ [][Next]_vars

\* The clock runs and the processor executes the call it is in.
Fairness == WF_vars(Next) /\ WF_vars(Hardware /\ Proceed)
FairSpec == Spec /\ Fairness

-----------------------------------------------------------------------------
TypeOK ==
  /\ BridgeTypeOK /\ DriverTypeOK
  /\ pending \in BOOLEAN /\ delay_count \in 0 .. Latency
  /\ saved \in [opcode : {"CFG_READ", "CFG_WRITE"}, reg : Regs, bdf : Bdfs, data : Words]
  /\ cfg_scratch \in Words
  /\ cpl \in [valid : BOOLEAN, opcode : {"NONE", "CPL"}, ok : BOOLEAN, data : Words]

(***************************************************************************)
(* The driver, the bridge and the endpoint together give the caller an     *)
(* atomic configuration space (ConfigSpace), in spite of calls that time   *)
(* out while their request is still under way.                             *)
(***************************************************************************)
None == [request |-> NoOp]

\* A read request carries whatever CFG_WDATA holds, to no effect.
Effective(r) == IF r.type = "READ" THEN [r EXCEPT !.wdata = Zero] ELSE r

\* What a request does to the register, and what it reads.
Applied(s, r) == IF r.type = "WRITE" THEN Store(s, TlpTx(r)) ELSE s
ReadFrom(s, r) == Lookup(s, TlpTx(r))

\* The last value that was read, in the completion until the bridge takes it.
LastRead == IF cpl.valid /\ req.type = "READ" THEN cpl.data ELSE cfg_rdata

Flight == IF state = "IDLE" THEN None
          ELSE [request |-> Effective(req), performed |-> cpl.valid]

\* The doorbell of the call has been rung, and its data phase is over.
Started == pc \in {"poll", "polled", "data", "taken"} /\ ~Writing("CFG_COMMAND")

Abstract ==
  INSTANCE ConfigSpace WITH
    Requests <- Calls, Initial <- Zero, Apply <- Applied, Answer <- ReadFrom,
    space <- cfg_scratch, answer <- LastRead, flight <- Flight,
    call <- op, started <- Started, code <- result.code, value <- result.value

AtomicSpace == Abstract!Spec

(***************************************************************************)
(* The handshakes between bridge and endpoint never hang: a command the    *)
(* bridge takes completes, and DONE is raised.                             *)
(***************************************************************************)
CommandCompletes == busy ~> done
=============================================================================
