------------------------- MODULE PcieRootPortProofs -------------------------
(***************************************************************************)
(* Proofs about the root port of lab H3, for any latency of the adapter    *)
(* and any software: its type invariant, that a completion has exactly one *)
(* bridge waiting for it, and that loads and configuration reads see the   *)
(* program order.                                                          *)
(*                                                                         *)
(* The inductive invariant says where the endpoint may lag behind program  *)
(* order: by the one configuration request that is on its way to it, and   *)
(* then by the one store that waits behind it.                             *)
(***************************************************************************)
EXTENDS PcieRootPort, TLAPS

\* The memory bridge works on the access in its data phase and on no other.
Aligned ==
  /\ mstate # "IDLE" <=> dphase.port = "MMIO"
  /\ mstate # "IDLE" => dphase = mreq

\* A request the bridge has just issued finds the adapter free.
IssueAlone == state = "ISSUE" => astate = "IDLE" /\ mstate \in {"IDLE", "DPHASE"}

\* The configuration request and the store the endpoint has not seen yet.
ConfigOnItsWay == state = "ISSUE" \/ (state = "WAIT_CPL" /\ astate = "DELAY")
AfterConfig == IF ConfigOnItsWay THEN Configured(device, req) ELSE device
AfterStore ==
  IF mstate = "ISSUE" /\ mreq.write THEN Stored(AfterConfig, mreq.addr, mreq.value)
  ELSE AfterConfig

InSync == ordered = AfterStore

SavedRequest ==
  astate # "IDLE" =>
    IF kind = "CFG" THEN saved_cfg = req ELSE ~mreq.write /\ saved_addr = mreq.addr

ReadOnItsWay ==
  /\ state = "IDLE" \/ req.type = "WRITE" => cfg_rdata = promised
  /\ ConfigOnItsWay /\ req.type = "READ" => promised = ConfigValue(device, req)
  /\ astate = "CPL" /\ kind = "CFG" =>
       cpl_ok /\ (req.type = "READ" => cpl_rdata = promised)

LoadOnItsWay ==
  /\ mstate = "WAIT" => ~mreq.write
  /\ astate = "CPL" /\ kind = "MEM" =>
       /\ cpl_ok = Claims(ordered, mreq.addr)
       /\ cpl_ok => cpl_rdata = ordered.scratch

Control == Aligned /\ CompletionOwned /\ IssueAlone
ProgramOrder == InSync /\ SavedRequest /\ ReadOnItsWay /\ LoadOnItsWay /\ LoadsInOrder

IInv == TypeOK /\ Control /\ ProgramOrder

\* A step of the root port: the bus is stalled with an access in its data
\* phase, or takes the access `a'.
Tick(a) ==
  /\ a \in {NoAccess} \cup Accesses
  /\ Clock(a)
  /\ ~HREADY => a = dphase
  /\ HREADY /\ mstate = "ERR2" => a = NoAccess

-----------------------------------------------------------------------------
\* Every step is a clock of the design with some access presented to it.
LEMMA NextTick ==
  ASSUME TypeOK, Next
  PROVE  \E a : Tick(a)
<1>1. CASE Stall
  BY <1>1 DEF Stall, Tick, TypeOK
<1>2. CASE NoTransfer
  BY <1>2 DEF NoTransfer, Tick
<1>3. CASE Transfer
  BY <1>3 DEF Transfer, Tick
<1> QED BY <1>1, <1>2, <1>3 DEF Next

\* What an access says of itself.
LEMMA AccessType ==
  ASSUME NEW a \in {NoAccess} \cup Accesses
  PROVE  /\ a.port = "MMIO" => a \in MmioAccesses
         /\ a.port = "CSR" /\ a.write =>
              /\ a.reg = "CFG_BDF" => a.value \in Bdfs
              /\ a.reg = "CFG_REG" => a.value \in Regs
              /\ a.reg = "CFG_WDATA" => a.value \in Words
<1>1. CASE a = NoAccess
  BY <1>1 DEF NoAccess
<1>2. CASE a \in CsrWrites
  BY <1>2 DEF CsrWrites, CsrWrite
<1>3. CASE a \in CsrReads
  BY <1>3 DEF CsrReads, CsrRead
<1>4. CASE a \in MmioAccesses
  BY <1>4 DEF MmioAccesses, Load, Store
<1> QED BY <1>1, <1>2, <1>3, <1>4, AccessAssumption

\* The accesses of the MMIO port.
LEMMA MmioType ==
  ASSUME NEW a \in MmioAccesses
  PROVE  /\ a.port = "MMIO" /\ a.write \in BOOLEAN
         /\ a.addr \in Addresses /\ a.value \in Words
<1>1. CASE \E x \in Addresses : a = Load(x)
  <2> PICK x \in Addresses : a = Load(x)
    BY <1>1
  <2> QED BY PcieAssumption DEF PcieAssumption, Load
<1>2. CASE \E x \in Addresses, w \in Data : a = Store(x, w)
  <2> PICK x \in Addresses, w \in Data : a = Store(x, w)
    BY <1>2
  <2> QED BY RootPortAssumption DEF RootPortAssumption, Store
<1> QED BY <1>1, <1>2 DEF MmioAccesses

\* The functions of the endpoint keep to the words.
LEMMA DeviceType ==
  ASSUME NEW d \in Devices, NEW r \in Requests,
         NEW x \in Addresses, NEW w \in Words
  PROVE  /\ Configured(d, r) \in Devices
         /\ ConfigValue(d, r) \in Words
         /\ Stored(d, x, w) \in Devices
         /\ Claims(d, x) \in BOOLEAN
<1>1. Low16(r.wdata) \in Words /\ High16(r.wdata) \in Words
  BY PcieAssumption, RootPortAssumption
     DEF PcieAssumption, RootPortAssumption, Low16, High16
<1>2. Configured(d, r) \in Devices
  BY <1>1 DEF Configured, Writes, Devices, Requests
<1>3. ConfigValue(d, r) \in Words
  BY PcieAssumption, RootPortAssumption
     DEF PcieAssumption, RootPortAssumption, ConfigValue, Reads, Devices, Requests
<1>4. Stored(d, x, w) \in Devices
  BY DEF Stored, Devices
<1> QED BY <1>2, <1>3, <1>4 DEF Claims

-----------------------------------------------------------------------------
\* A clock keeps the types of the configuration bridge.
LEMMA BridgeTypeStep ==
  ASSUME TypeOK, NEW a, Tick(a)
  PROVE  BridgeTypeOK'
<1>1. cfg_cpl.rdata \in Words
  BY DEF cfg_cpl, TypeOK
<1>2. dphase \in {NoAccess} \cup Accesses
  BY DEF TypeOK
<1>3. BridgeClock(cfg_req_ready, cfg_cpl)
  BY DEF Tick, Clock
<1>4. cfg' \in [bdf : Bdfs, reg : Regs, wdata : Words]
  BY <1>2, <1>3, AccessType DEF BridgeClock, Writing, TypeOK, BridgeTypeOK
<1>5. req' \in Requests
  BY <1>3 DEF BridgeClock, Accepted, Requests, TypeOK, BridgeTypeOK
<1>6. cfg_rdata' \in Words
  BY <1>1, <1>3 DEF BridgeClock, TypeOK, BridgeTypeOK
<1>7. error_status' \subseteq {"BUSY", "BAD_COMMAND", "BAD_ACCESS", "BACKEND"}
  BY <1>3 DEF BridgeClock, Refusal, TypeOK, BridgeTypeOK
<1>8. state' \in {"IDLE", "ISSUE", "WAIT_CPL"} /\ busy' \in BOOLEAN /\ done' \in BOOLEAN
  BY <1>3 DEF BridgeClock, TypeOK, BridgeTypeOK
<1> QED BY <1>4, <1>5, <1>6, <1>7, <1>8 DEF BridgeTypeOK

\* A clock keeps the types of all registers.
LEMMA TypeStep ==
  ASSUME TypeOK, NEW a, Tick(a)
  PROVE  TypeOK'
<1>1. BridgeTypeOK'
  BY BridgeTypeStep
<1>2. dphase' \in {NoAccess} \cup Accesses
  BY DEF Tick, Clock
<1>3. /\ mstate' \in {"IDLE", "DPHASE", "ISSUE", "WAIT", "RESP", "ERR1", "ERR2"}
      /\ mreq' \in MmioAccesses /\ mrdata' \in Words
  BY AccessType DEF Tick, Clock, MmioClock, TypeOK
<1>4. /\ mreq.addr \in Addresses /\ mreq.value \in Words /\ mreq.write \in BOOLEAN
  BY MmioType DEF TypeOK
<1>5. req \in Requests
  BY DEF TypeOK, BridgeTypeOK
<1>6. /\ astate' \in {"IDLE", "DELAY", "CPL"} /\ kind' \in {"CFG", "MEM"}
      /\ delay_count' \in 0 .. Latency
      /\ saved_cfg' \in Requests /\ saved_addr' \in Addresses
      /\ device' \in Devices /\ cpl_ok' \in BOOLEAN /\ cpl_rdata' \in Words
  <2>1. CASE AdapterAccept
    <3>1. Latency \in 0 .. Latency
      BY RootPortAssumption DEF RootPortAssumption
    <3>2. Stored(device, mreq.addr, mreq.value) \in Devices
      BY <1>4, DeviceType DEF TypeOK
    <3>3. saved_cfg' \in Requests /\ saved_addr' \in Addresses
      BY <2>1, <1>4, <1>5 DEF AdapterAccept, TypeOK
    <3>4. device' \in Devices
      BY <2>1, <3>2 DEF AdapterAccept, TypeOK
    <3> QED
      BY <2>1, <3>1, <3>3, <3>4 DEF AdapterAccept, TypeOK
  <2>2. CASE AdapterDelay
    BY <2>2, RootPortAssumption DEF AdapterDelay, TypeOK, RootPortAssumption
  <2>3. CASE AdapterPerform
    <3>1. Claims(device, saved_addr) \in BOOLEAN /\ device.scratch \in Words
      BY DEF Claims, TypeOK, Devices
    <3> QED BY <2>3, <3>1, <1>4, DeviceType, PcieAssumption
               DEF AdapterPerform, TypeOK, PcieAssumption
  <2>4. CASE AdapterComplete
    BY <2>4 DEF AdapterComplete, TypeOK
  <2> QED BY <2>1, <2>2, <2>3, <2>4 DEF Tick, Clock, AdapterClock
<1>7. ordered' \in Devices /\ promised' \in Words
  <2>1. Accepted => Command \in Requests
    BY DEF Accepted, Command, Requests, TypeOK, BridgeTypeOK
  <2> QED BY <2>1, <1>4, DeviceType DEF Tick, Clock, Order, TypeOK
<1> QED BY <1>1, <1>2, <1>3, <1>6, <1>7 DEF TypeOK

\* The registers have their types after reset.
LEMMA TypeInit == Init => TypeOK
<1> SUFFICES ASSUME Init PROVE TypeOK
  OBVIOUS
<1>1. BridgeTypeOK
  BY PcieAssumption DEF Init, BridgeInit, BridgeTypeOK, Requests, PcieAssumption
<1>2. mreq \in MmioAccesses
  BY DEF Init, MmioAccesses, Load, Addresses
<1> QED BY <1>1, <1>2, PcieAssumption, RootPortAssumption
           DEF Init, TypeOK, BridgeInit, BridgeTypeOK, Reset, Devices, Addresses,
               PcieAssumption, RootPortAssumption

\* The types are about the registers only.
LEMMA TypeStutter == TypeOK /\ UNCHANGED vars => TypeOK'
BY DEF vars, bridgeVars, mmioVars, adapterVars, TypeOK, BridgeTypeOK

(***************************************************************************)
(* Type correctness of the root port.                                      *)
(***************************************************************************)
THEOREM TypeCorrect == Spec => []TypeOK
<1>1. TypeOK /\ [Next]_vars => TypeOK'
  BY NextTick, TypeStep, TypeStutter
<1> QED BY <1>1, TypeInit, PTL DEF Spec

-----------------------------------------------------------------------------
\* The state machines of the two bridges and of the adapter, step by step.
LEMMA BridgeStep ==
  ASSUME TypeOK, NEW a, Tick(a)
  PROVE  /\ Accepted => state = "IDLE" /\ state' = "ISSUE" /\ dphase.port = "CSR"
         /\ state = "IDLE" /\ ~Accepted => state' = "IDLE"
         /\ state = "ISSUE" => state' = IF astate = "IDLE" THEN "WAIT_CPL" ELSE "ISSUE"
         /\ state = "WAIT_CPL" =>
              state' = IF astate = "CPL" /\ kind = "CFG" THEN "IDLE" ELSE "WAIT_CPL"
<1>1. /\ Accepted => state = "IDLE" /\ dphase.port = "CSR"
      /\ req_valid <=> state = "ISSUE"
      /\ Completes(cfg_cpl) <=> state = "WAIT_CPL" /\ astate = "CPL" /\ kind = "CFG"
      /\ cfg_req_ready <=> astate = "IDLE"
      /\ state \in {"IDLE", "ISSUE", "WAIT_CPL"}
  BY DEF Accepted, Occupied, Writing, req_valid, Completes, cpl_ready, cfg_cpl,
         cfg_req_ready, TypeOK, BridgeTypeOK
<1>2. state' = CASE Accepted -> "ISSUE"
                 [] req_valid /\ cfg_req_ready -> "WAIT_CPL"
                 [] Completes(cfg_cpl) -> "IDLE"
                 [] OTHER -> state
  BY DEF Tick, Clock, BridgeClock
<1> QED BY <1>1, <1>2

\* What a clock does to the state machine of the MMIO bridge.
LEMMA MmioStep ==
  ASSUME TypeOK, NEW a, Tick(a)
  PROVE  /\ mstate \in {"IDLE", "RESP"} =>
              mstate' = IF a.port = "MMIO" THEN "DPHASE" ELSE "IDLE"
         /\ mstate = "DPHASE" => mstate' = IF mreq.addr = "bad" THEN "ERR1" ELSE "ISSUE"
         /\ mstate = "ISSUE" =>
              mstate' = IF astate = "IDLE" /\ state # "ISSUE"
                        THEN (IF mreq.write THEN "RESP" ELSE "WAIT") ELSE "ISSUE"
         /\ mstate = "WAIT" =>
              mstate' = IF astate = "CPL" /\ kind = "MEM"
                        THEN (IF cpl_ok THEN "RESP" ELSE "ERR1") ELSE "WAIT"
         /\ mstate = "ERR1" => mstate' = "ERR2"
         /\ mstate = "ERR2" => mstate' = "IDLE"
         /\ mreq' = IF mstate \in {"IDLE", "RESP"} /\ a.port = "MMIO" THEN a ELSE mreq
BY DEF Tick, Clock, MmioClock, mem_req_ready, mem_cpl_valid, req_valid

\* What a clock does to the state machine of the adapter.
LEMMA AdapterStep ==
  ASSUME TypeOK, NEW a, Tick(a)
  PROVE  /\ astate = "IDLE" =>
              astate' = IF state = "ISSUE" \/ (mstate = "ISSUE" /\ ~mreq.write)
                        THEN "DELAY" ELSE "IDLE"
         /\ astate = "IDLE" /\ state = "ISSUE" => kind' = "CFG"
         /\ astate = "IDLE" /\ astate' = "DELAY" /\ state # "ISSUE" => kind' = "MEM"
         /\ astate = "DELAY" => astate' \in {"DELAY", "CPL"}
         /\ astate = "CPL" =>
              astate' = IF \/ kind = "CFG" /\ state = "WAIT_CPL"
                           \/ kind = "MEM" /\ mstate = "WAIT"
                        THEN "IDLE" ELSE "CPL"
         /\ astate # "IDLE" => kind' = kind
<1>1. mreq.write \in BOOLEAN
  BY MmioType DEF TypeOK
<1>2. CASE AdapterAccept
  BY <1>1, <1>2 DEF AdapterAccept, req_valid, mem_req_valid, mem_req_ready
<1>3. CASE AdapterDelay
  BY <1>3 DEF AdapterDelay
<1>4. CASE AdapterPerform
  BY <1>4 DEF AdapterPerform
<1>5. CASE AdapterComplete
  BY <1>5 DEF AdapterComplete, cpl_ready, mem_cpl_ready
<1> QED BY <1>2, <1>3, <1>4, <1>5 DEF Tick, Clock, AdapterClock

\* Which bridge works on what, and for whom the adapter works.
LEMMA ControlStep ==
  ASSUME TypeOK, Control, NEW a, Tick(a)
  PROVE  Control'
<1> USE DEF Control
<1>1. dphase' = a /\ a.port \in {"NONE", "CSR", "MMIO"}
      /\ mstate \in {"IDLE", "DPHASE", "ISSUE", "WAIT", "RESP", "ERR1", "ERR2"}
      /\ state \in {"IDLE", "ISSUE", "WAIT_CPL"} /\ astate \in {"IDLE", "DELAY", "CPL"}
      /\ kind \in {"CFG", "MEM"}
  <2>1. a.port \in {"NONE", "CSR", "MMIO"}
    BY AccessAssumption
       DEF Tick, NoAccess, CsrWrites, CsrWrite, CsrReads, CsrRead, MmioAccesses, Load, Store
  <2> QED BY <2>1 DEF Tick, Clock, TypeOK, BridgeTypeOK
<1>2. /\ mstate \in {"DPHASE", "ISSUE", "WAIT", "ERR1"} => a = dphase
      /\ mstate = "ERR2" => a.port = "NONE"
  BY <1>1 DEF Tick, HREADY, HREADYOUT, Aligned, NoAccess
<1>3. Aligned'
  BY <1>1, <1>2, MmioStep DEF Aligned
<1>4. CompletionOwned'
  BY <1>1, BridgeStep, MmioStep, AdapterStep
     DEF CompletionOwned, Aligned, IssueAlone, cpl_ready, mem_cpl_ready
<1>5. IssueAlone'
  BY <1>1, BridgeStep, MmioStep, AdapterStep
     DEF CompletionOwned, Aligned, IssueAlone, cpl_ready, mem_cpl_ready
<1> QED BY <1>3, <1>4, <1>5

(***************************************************************************)
(* A completion has exactly one bridge that waits for it.                  *)
(***************************************************************************)
THEOREM CompletionsOwned == Spec => []CompletionOwned
<1>1. Init => TypeOK /\ Control
  BY TypeInit DEF Init, BridgeInit, Control, Aligned, NoAccess, CompletionOwned,
     IssueAlone, cpl_ready, mem_cpl_ready
<1>2. TypeOK /\ Control /\ [Next]_vars => (TypeOK /\ Control)'
  <2> SUFFICES ASSUME TypeOK, Control, [Next]_vars PROVE (TypeOK /\ Control)'
    OBVIOUS
  <2>1. CASE Next
    BY <2>1, NextTick, TypeStep, ControlStep
  <2>2. CASE UNCHANGED vars
    BY <2>2, TypeStutter DEF vars, bridgeVars, mmioVars, adapterVars, Control, Aligned,
       CompletionOwned, IssueAlone, cpl_ready, mem_cpl_ready
  <2> QED BY <2>1, <2>2
<1>3. Control => CompletionOwned
  BY DEF Control
<1> QED BY <1>1, <1>2, <1>3, PTL DEF Spec

-----------------------------------------------------------------------------
\* What a step does to the data.
LEMMA DataStep ==
  ASSUME TypeOK, NEW a, Tick(a)
  PROVE  /\ req' = IF Accepted THEN Command ELSE req
         /\ cfg_rdata' = IF /\ state = "WAIT_CPL" /\ astate = "CPL" /\ kind = "CFG"
                           /\ cpl_ok /\ req.type = "READ"
                        THEN cpl_rdata ELSE cfg_rdata
         /\ promised' = IF Accepted /\ Command.type = "READ"
                       THEN ConfigValue(ordered, Command) ELSE promised
         /\ ordered' = IF Accepted THEN Configured(ordered, Command)
                      ELSE IF mstate = "DPHASE" /\ mreq.write /\ mreq.addr # "bad"
                      THEN Stored(ordered, mreq.addr, mreq.value) ELSE ordered
         /\ mrdata' = IF mstate = "WAIT" /\ astate = "CPL" /\ kind = "MEM" /\ cpl_ok
                     THEN cpl_rdata ELSE mrdata
BY DEF Tick, Clock, BridgeClock, MmioClock, Order, Command, Captures, Completes,
       cpl_ready, cfg_cpl, mem_cpl_valid

\* A clock keeps the order of the accesses.
LEMMA OrderStep ==
  ASSUME TypeOK, Control, ProgramOrder, NEW a, Tick(a)
  PROVE  ProgramOrder'
<1> USE DEF Control, ProgramOrder
<1>1. /\ mstate \in {"IDLE", "DPHASE", "ISSUE", "WAIT", "RESP", "ERR1", "ERR2"}
      /\ state \in {"IDLE", "ISSUE", "WAIT_CPL"} /\ astate \in {"IDLE", "DELAY", "CPL"}
      /\ kind \in {"CFG", "MEM"} /\ req.type \in {"READ", "WRITE"}
      /\ mreq.write \in BOOLEAN /\ cpl_ok \in BOOLEAN
  BY MmioType DEF TypeOK, BridgeTypeOK, Requests
\* A command is accepted when nothing is on its way.
<1>2. Accepted => state = "IDLE" /\ mstate = "IDLE" /\ astate = "IDLE"
  BY <1>1, BridgeStep DEF Aligned, CompletionOwned, cpl_ready, mem_cpl_ready
<1>3. CASE Accepted
  <2>1. UNCHANGED <<device, astate, kind, saved_cfg, saved_addr, cpl_ok, cpl_rdata>>
    BY <1>2, <1>3 DEF Tick, Clock, AdapterClock, AdapterAccept, AdapterDelay,
       AdapterPerform, AdapterComplete, req_valid, mem_req_valid
  <2>2. ordered = device /\ cfg_rdata = promised
    BY <1>2, <1>3 DEF InSync, AfterStore, AfterConfig, ConfigOnItsWay, ReadOnItsWay
  <2>3. state' = "ISSUE" /\ mstate' \in {"IDLE", "DPHASE"}
    BY <1>2, <1>3, BridgeStep, MmioStep
  <2>4. Command.type \in {"READ", "WRITE"}
    BY <1>3 DEF Accepted, Command
  <2>5. InSync'
    BY <1>2, <1>3, <2>1, <2>2, <2>3, DataStep
       DEF InSync, AfterStore, AfterConfig, ConfigOnItsWay
  <2>6. ReadOnItsWay'
    BY <1>2, <1>3, <2>1, <2>2, <2>3, <2>4, DataStep
       DEF ReadOnItsWay, ConfigOnItsWay
  <2>7. (SavedRequest /\ LoadOnItsWay /\ LoadsInOrder)'
    BY <1>2, <1>3, <2>1, <2>3 DEF SavedRequest, LoadOnItsWay, LoadsInOrder
  <2> QED BY <2>5, <2>6, <2>7
<1>4. CASE ~Accepted
  <2>1. /\ req' = req /\ promised' = promised
        /\ state = "IDLE" => state' = "IDLE"
    BY <1>4, DataStep, BridgeStep
  <2>2. AdapterClock
    BY DEF Tick, Clock
  <2>3. mreq' # mreq => mstate \in {"IDLE", "RESP"} /\ mstate' \in {"IDLE", "DPHASE"}
    BY MmioStep
  <2>4. InSync'
    <3>1. CASE AdapterAccept
      BY <1>1, <1>4, <2>1, <2>3, <3>1, BridgeStep, MmioStep, DataStep, MmioType
         DEF AdapterAccept, CompletionOwned, IssueAlone, cpl_ready, mem_cpl_ready,
             req_valid, mem_req_valid, mem_req_ready, InSync, AfterStore, AfterConfig, ConfigOnItsWay, SavedRequest
    <3>2. CASE AdapterDelay
      BY <1>1, <1>4, <2>1, <2>3, <3>2, BridgeStep, MmioStep, DataStep, MmioType
         DEF AdapterDelay, CompletionOwned, IssueAlone, cpl_ready, mem_cpl_ready,
             InSync, AfterStore, AfterConfig, ConfigOnItsWay, SavedRequest
    <3>3. CASE AdapterPerform
      BY <1>1, <1>4, <2>1, <2>3, <3>3, BridgeStep, MmioStep, DataStep, MmioType
         DEF AdapterPerform, CompletionOwned, IssueAlone, cpl_ready, mem_cpl_ready,
             InSync, AfterStore, AfterConfig, ConfigOnItsWay, SavedRequest
    <3>4. CASE AdapterComplete
      BY <1>1, <1>4, <2>1, <2>3, <3>4, BridgeStep, MmioStep, DataStep, MmioType
         DEF AdapterComplete, CompletionOwned, IssueAlone, cpl_ready, mem_cpl_ready,
             InSync, AfterStore, AfterConfig, ConfigOnItsWay, SavedRequest
    <3> QED BY <2>2, <3>1, <3>2, <3>3, <3>4 DEF AdapterClock
  <2>5. SavedRequest'
    <3>1. CASE AdapterAccept
      BY <1>1, <1>4, <2>1, <2>3, <3>1, BridgeStep, MmioStep, DataStep, MmioType
         DEF AdapterAccept, CompletionOwned, IssueAlone, cpl_ready, mem_cpl_ready,
             req_valid, mem_req_valid, mem_req_ready, SavedRequest
    <3>2. CASE AdapterDelay
      BY <1>1, <1>4, <2>1, <2>3, <3>2, BridgeStep, MmioStep, DataStep, MmioType
         DEF AdapterDelay, CompletionOwned, IssueAlone, cpl_ready, mem_cpl_ready,
             SavedRequest
    <3>3. CASE AdapterPerform
      BY <1>1, <1>4, <2>1, <2>3, <3>3, BridgeStep, MmioStep, DataStep, MmioType
         DEF AdapterPerform, CompletionOwned, IssueAlone, cpl_ready, mem_cpl_ready,
             SavedRequest
    <3>4. CASE AdapterComplete
      BY <1>1, <1>4, <2>1, <2>3, <3>4, BridgeStep, MmioStep, DataStep, MmioType
         DEF AdapterComplete, CompletionOwned, IssueAlone, cpl_ready, mem_cpl_ready,
             SavedRequest
    <3> QED BY <2>2, <3>1, <3>2, <3>3, <3>4 DEF AdapterClock
  <2>6. ReadOnItsWay'
    <3>1. CASE AdapterAccept
      BY <1>1, <1>4, <2>1, <2>3, <3>1, BridgeStep, MmioStep, DataStep, MmioType
         DEF AdapterAccept, CompletionOwned, IssueAlone, cpl_ready, mem_cpl_ready,
             req_valid, mem_req_valid, mem_req_ready, ReadOnItsWay, ConfigOnItsWay, SavedRequest
    <3>2. CASE AdapterDelay
      BY <1>1, <1>4, <2>1, <2>3, <3>2, BridgeStep, MmioStep, DataStep, MmioType
         DEF AdapterDelay, CompletionOwned, IssueAlone, cpl_ready, mem_cpl_ready,
             ReadOnItsWay, ConfigOnItsWay, SavedRequest
    <3>3. CASE AdapterPerform
      BY <1>1, <1>4, <2>1, <2>3, <3>3, BridgeStep, MmioStep, DataStep, MmioType
         DEF AdapterPerform, CompletionOwned, IssueAlone, cpl_ready, mem_cpl_ready,
             ReadOnItsWay, ConfigOnItsWay, SavedRequest
    <3>4. CASE AdapterComplete
      BY <1>1, <1>4, <2>1, <2>3, <3>4, BridgeStep, MmioStep, DataStep, MmioType
         DEF AdapterComplete, CompletionOwned, IssueAlone, cpl_ready, mem_cpl_ready,
             ReadOnItsWay, ConfigOnItsWay, SavedRequest
    <3> QED BY <2>2, <3>1, <3>2, <3>3, <3>4 DEF AdapterClock
  <2>7. LoadOnItsWay'
    <3>1. CASE AdapterAccept
      BY <1>1, <1>4, <2>1, <2>3, <3>1, BridgeStep, MmioStep, DataStep, MmioType
         DEF AdapterAccept, CompletionOwned, IssueAlone, cpl_ready, mem_cpl_ready,
             req_valid, mem_req_valid, mem_req_ready, LoadOnItsWay, SavedRequest, InSync, AfterStore, AfterConfig, ConfigOnItsWay
    <3>2. CASE AdapterDelay
      BY <1>1, <1>4, <2>1, <2>3, <3>2, BridgeStep, MmioStep, DataStep, MmioType
         DEF AdapterDelay, CompletionOwned, IssueAlone, cpl_ready, mem_cpl_ready,
             LoadOnItsWay, SavedRequest, InSync, AfterStore, AfterConfig, ConfigOnItsWay
    <3>3. CASE AdapterPerform
      BY <1>1, <1>4, <2>1, <2>3, <3>3, BridgeStep, MmioStep, DataStep, MmioType
         DEF AdapterPerform, CompletionOwned, IssueAlone, cpl_ready, mem_cpl_ready,
             LoadOnItsWay, SavedRequest, InSync, AfterStore, AfterConfig, ConfigOnItsWay
    <3>4. CASE AdapterComplete
      BY <1>1, <1>4, <2>1, <2>3, <3>4, BridgeStep, MmioStep, DataStep, MmioType
         DEF AdapterComplete, CompletionOwned, IssueAlone, cpl_ready, mem_cpl_ready,
             LoadOnItsWay, SavedRequest, InSync, AfterStore, AfterConfig, ConfigOnItsWay
    <3> QED BY <2>2, <3>1, <3>2, <3>3, <3>4 DEF AdapterClock
  <2>8. LoadsInOrder'
    BY <1>1, <1>4, <2>1, <2>3, MmioStep, DataStep DEF LoadsInOrder, LoadOnItsWay, Claims
  <2> QED BY <2>4, <2>5, <2>6, <2>7, <2>8
<1> QED BY <1>3, <1>4
-----------------------------------------------------------------------------
\* After reset there are no accesses to be ordered.
LEMMA OrderInit == Init => ProgramOrder
<1> SUFFICES ASSUME Init PROVE ProgramOrder
  OBVIOUS
<1>1. state = "IDLE" /\ mstate = "IDLE" /\ astate = "IDLE"
  BY DEF Init, BridgeInit
<1>2. ordered = device /\ cfg_rdata = promised
  BY DEF Init, BridgeInit
<1>3. InSync /\ SavedRequest /\ LoadOnItsWay /\ LoadsInOrder
  BY <1>1, <1>2 DEF InSync, AfterStore, AfterConfig, ConfigOnItsWay, SavedRequest,
     LoadOnItsWay, LoadsInOrder
<1>4. ReadOnItsWay
  BY <1>1, <1>2 DEF ReadOnItsWay, ConfigOnItsWay
<1> QED BY <1>3, <1>4 DEF ProgramOrder

\* The inductive invariant holds in every state.
LEMMA Invariant == Spec => []IInv
<1>1. Init => IInv
  <2>1. Init => Control
    BY DEF Init, BridgeInit, Control, Aligned, NoAccess, CompletionOwned, IssueAlone,
       cpl_ready, mem_cpl_ready
  <2> QED BY <2>1, TypeInit, OrderInit DEF IInv
<1>2. IInv /\ [Next]_vars => IInv'
  <2> SUFFICES ASSUME IInv, [Next]_vars PROVE IInv'
    OBVIOUS
  <2> USE DEF IInv
  <2>1. CASE Next
    BY <2>1, NextTick, TypeStep, ControlStep, OrderStep
  <2>2. CASE UNCHANGED vars
    <3>1. TypeOK'
      BY <2>2, TypeStutter
    <3>2. Control'
      BY <2>2 DEF vars, bridgeVars, mmioVars, adapterVars, Control, Aligned,
         CompletionOwned, IssueAlone, cpl_ready, mem_cpl_ready
    <3>3. ProgramOrder'
      BY <2>2 DEF vars, bridgeVars, mmioVars, adapterVars, ProgramOrder, InSync,
         AfterStore, AfterConfig, ConfigOnItsWay, SavedRequest, ReadOnItsWay,
         LoadOnItsWay, LoadsInOrder
    <3> QED BY <3>1, <3>2, <3>3
  <2> QED BY <2>1, <2>2
<1> QED BY <1>1, <1>2, PTL DEF Spec

(***************************************************************************)
(* Loads from the aperture see program order: the store before them and    *)
(* every configuration write before them, whatever the adapter's latency.  *)
(***************************************************************************)
THEOREM LoadsOrdered == Spec => []LoadsInOrder
<1>1. IInv => LoadsInOrder
  BY DEF IInv, ProgramOrder
<1> QED BY <1>1, Invariant, PTL

(***************************************************************************)
(* CFG_RDATA holds what the last configuration read had to return, as soon *)
(* as no request is under way.                                             *)
(***************************************************************************)
THEOREM ConfigReadsOrdered == Spec => []ConfigReadsInOrder
<1>1. IInv => ConfigReadsInOrder
  BY DEF IInv, ProgramOrder, ReadOnItsWay, ConfigReadsInOrder
<1> QED BY <1>1, Invariant, PTL

(***************************************************************************)
(* Together: whatever overlaps on the bus, reads through either port of    *)
(* the endpoint return what program order says.                            *)
(***************************************************************************)
THEOREM ReadsOrdered == Spec => []ReadsInOrder
<1>1. LoadsInOrder /\ ConfigReadsInOrder => ReadsInOrder
  BY DEF ReadsInOrder
<1> QED BY <1>1, LoadsOrdered, ConfigReadsOrdered, PTL
=============================================================================
