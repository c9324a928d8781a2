-------------------------- MODULE PcieConfigProofs --------------------------
(***************************************************************************)
(* Proofs about lab H2, for any functions, registers and words, any limit  *)
(* of the driver's polling and any latency of the endpoint: the bridge     *)
(* takes every command the driver rings, and a driver that writes          *)
(* CFG_WDATA before the doorbell implements ConfigSpace, clock by clock.   *)
(* That refinement rests on what the registers and the two handshakes hold *)
(* at each step of a call (SpaceInv).                                      *)
(***************************************************************************)
EXTENDS PcieConfig, TLAPS

\* The register and the completions of the endpoint keep to the words.
LEMMA EndpointType ==
  ASSUME NEW s \in Words,
         NEW t \in [opcode : {"CFG_READ", "CFG_WRITE"}, reg : Regs, bdf : Bdfs, data : Words]
  PROVE  Lookup(s, t) \in Words /\ Store(s, t) \in Words
BY PcieAssumption DEF PcieAssumption, Lookup, Store

\* A clock of the endpoint keeps the types of its registers.
LEMMA EndpointStep ==
  ASSUME TypeOK, EndpointClock
  PROVE  /\ pending' \in BOOLEAN /\ delay_count' \in 0 .. Latency
         /\ saved' \in [opcode : {"CFG_READ", "CFG_WRITE"}, reg : Regs, bdf : Bdfs,
                        data : Words]
         /\ cfg_scratch' \in Words
         /\ cpl' \in [valid : BOOLEAN, opcode : {"NONE", "CPL"}, ok : BOOLEAN, data : Words]
<1>1. pending' \in BOOLEAN
  BY DEF EndpointClock, TypeOK, req_valid, req_ready
<1>2. delay_count' \in 0 .. Latency
  BY ConfigAssumption DEF ConfigAssumption, EndpointClock, TypeOK
<1>3. saved' \in [opcode : {"CFG_READ", "CFG_WRITE"}, reg : Regs, bdf : Bdfs, data : Words]
  <2>1. TlpTx(req) \in [opcode : {"CFG_READ", "CFG_WRITE"}, reg : Regs, bdf : Bdfs,
                        data : Words]
    BY DEF TlpTx, Opcode, TypeOK, BridgeTypeOK, Requests
  <2> QED BY <2>1 DEF EndpointClock, TypeOK
<1>4. cfg_scratch' \in Words
  BY EndpointType DEF EndpointClock, TypeOK
<1>5. cpl' \in [valid : BOOLEAN, opcode : {"NONE", "CPL"}, ok : BOOLEAN, data : Words]
  <2>1. (IF saved.opcode = "CFG_READ" THEN Lookup(cfg_scratch, saved) ELSE Zero) \in Words
    BY EndpointType, PcieAssumption DEF PcieAssumption, TypeOK
  <2> QED BY <2>1 DEF EndpointClock, TypeOK
<1> QED BY <1>1, <1>2, <1>3, <1>4, <1>5

\* The access a step leaves in its data phase writes what the registers hold.
WellFormed(a) ==
  a.port = "CSR" /\ a.write =>
    /\ a.reg = "CFG_BDF" => a.value \in Bdfs
    /\ a.reg = "CFG_REG" => a.value \in Regs
    /\ a.reg = "CFG_WDATA" => a.value \in Words

\* A clock of the bridge keeps the types of its registers.
LEMMA BridgeStep ==
  ASSUME TypeOK, WellFormed(dphase), BridgeClock(req_ready, TlpRx(cpl))
  PROVE  BridgeTypeOK'
<1>1. TlpRx(cpl).rdata \in Words
  BY DEF TlpRx, TypeOK
<1>2. cfg' \in [bdf : Bdfs, reg : Regs, wdata : Words]
  BY DEF BridgeClock, Writing, WellFormed, TypeOK, BridgeTypeOK
<1>3. req' \in Requests
  BY DEF BridgeClock, Accepted, Requests, TypeOK, BridgeTypeOK
<1>4. cfg_rdata' \in Words
  BY <1>1 DEF BridgeClock, TypeOK, BridgeTypeOK
<1>5. error_status' \subseteq {"BUSY", "BAD_COMMAND", "BAD_ACCESS", "BACKEND"}
  BY DEF BridgeClock, Refusal, TypeOK, BridgeTypeOK
<1>6. state' \in {"IDLE", "ISSUE", "WAIT_CPL"} /\ busy' \in BOOLEAN /\ done' \in BOOLEAN
  BY DEF BridgeClock, TypeOK, BridgeTypeOK
<1> QED BY <1>2, <1>3, <1>4, <1>5, <1>6 DEF BridgeTypeOK

\* A STATUS read in its data phase is one the driver still had left.
PollLeft == pc = "polled" => polls < PollLimit

IInv == TypeOK /\ WellFormed(dphase) /\ PollLeft

\* The absence of a request is not a request.
LEMMA NoOpIsNoRequest == NoOp \notin Requests
BY DEF NoOp, Requests

\* A step of the driver keeps its types, makes an access of the bridge and polls within its limit.
LEMMA DriverStep ==
  ASSUME TypeOK, PollLeft, Pass \/ Proceed \/ \E o \in Calls : Invoke(o)
  PROVE  DriverTypeOK' /\ WellFormed(dphase') /\ PollLeft'
<1> USE NoOpIsNoRequest, PcieAssumption, DriverAssumption
    DEF PollLeft, TypeOK, BridgeTypeOK, DriverTypeOK, PcieAssumption, DriverAssumption, WellFormed,
        Present, Return, NoAccess, CsrRead, CsrWrite, Codes
<1>1. CASE Pass
  BY <1>1 DEF Pass, driverVars
<1>2. CASE \E o \in Calls : Invoke(o)
  BY <1>2 DEF Invoke, Calls
<1>3. CASE CheckBusy
  BY <1>3 DEF CheckBusy
<1>4. CASE BusyChecked
  BY <1>4 DEF BusyChecked
<1>5. CASE WriteBdf
  BY <1>5 DEF WriteBdf, Requests
<1>6. CASE WriteReg
  BY <1>6 DEF WriteReg, Requests
<1>7. CASE WriteData
  BY <1>7 DEF WriteData, Requests
<1>8. CASE RingDoorbell
  BY <1>8 DEF RingDoorbell
<1>9. CASE Poll
  BY <1>9 DEF Poll
<1>10. CASE Polled
  <2>1. pc = "polled" /\ op \in Requests
    BY <1>10 DEF Polled
  <2>2. CASE ~Status.done
    BY <1>10, <2>1, <2>2 DEF Polled
  <2>3. CASE Status.done /\ Status.error
    BY <1>10, <2>1, <2>3 DEF Polled
  <2>4. CASE Status.done /\ ~Status.error
    BY <1>10, <2>1, <2>4 DEF Polled
  <2> QED BY <2>2, <2>3, <2>4
<1>11. CASE GiveUp
  BY <1>11 DEF GiveUp
<1>12. CASE TakeData
  BY <1>12 DEF TakeData
<1>13. CASE DataTaken
  BY <1>13 DEF DataTaken
<1> QED BY <1>1, <1>2, <1>3, <1>4, <1>5, <1>6, <1>7, <1>8, <1>9, <1>10, <1>11, <1>12,
           <1>13 DEF Proceed

(***************************************************************************)
(* Type correctness of driver, bridge and endpoint; with it, that a call   *)
(* makes at most PollLimit polls and that the driver only programs         *)
(* functions, registers and words that were asked for.                     *)
(***************************************************************************)
THEOREM TypeCorrect == Spec => []TypeOK
<1>1. Init => IInv
  <2> SUFFICES ASSUME Init PROVE IInv
    OBVIOUS
  <2>1. BridgeTypeOK
    BY PcieAssumption DEF Init, BridgeInit, BridgeTypeOK, Requests, PcieAssumption
  <2>2. DriverTypeOK
    BY PcieAssumption, DriverAssumption
       DEF Init, DriverInit, DriverTypeOK, Codes, PcieAssumption, DriverAssumption
  <2>3. saved \in [opcode : {"CFG_READ", "CFG_WRITE"}, reg : Regs, bdf : Bdfs, data : Words]
    BY <2>1 DEF Init, EndpointInit, TlpTx, Opcode, BridgeTypeOK, Requests
  <2>4. WellFormed(dphase) /\ PollLeft
    BY DEF Init, DriverInit, WellFormed, NoAccess, PollLeft
  <2>5. pending \in BOOLEAN /\ cfg_scratch \in Words
    BY PcieAssumption DEF Init, EndpointInit, PcieAssumption
  <2>6. delay_count \in 0 .. Latency
    BY ConfigAssumption DEF Init, EndpointInit, ConfigAssumption
  <2>7. cpl \in [valid : BOOLEAN, opcode : {"NONE", "CPL"}, ok : BOOLEAN, data : Words]
    BY PcieAssumption DEF Init, EndpointInit, PcieAssumption
  <2> QED BY <2>1, <2>2, <2>3, <2>4, <2>5, <2>6, <2>7 DEF IInv, TypeOK
<1>2. IInv /\ [Next]_vars => IInv'
  <2> SUFFICES ASSUME IInv, [Next]_vars PROVE IInv'
    OBVIOUS
  <2>1. CASE Next
    BY <2>1, EndpointStep, BridgeStep, DriverStep DEF IInv, Next, Hardware, TypeOK
  <2>2. CASE UNCHANGED vars
    BY <2>2 DEF vars, bridgeVars, driverVars, endpointVars, IInv, TypeOK, BridgeTypeOK,
       DriverTypeOK, WellFormed, PollLeft
  <2> QED BY <2>1, <2>2
<1>3. IInv => TypeOK
  BY DEF IInv
<1> QED BY <1>1, <1>2, <1>3, PTL DEF Spec

-----------------------------------------------------------------------------
\* From the look at BUSY to the doorbell the bridge has nothing to do.
Approaching == pc \in {"bdf", "reg", "command"} \/ (pc = "wdata" /\ DataFirst)
Rung == Writing("CFG_COMMAND")

Quiet ==
  /\ busy <=> state # "IDLE"
  /\ Approaching \/ Rung => state = "IDLE"
  /\ Rung => dphase.value \in {"READ", "WRITE"} /\ ~Approaching /\ pc \notin {"checked", "idle"}

\* A step rings the doorbell only while the bridge is idle.
LEMMA QuietStep ==
  ASSUME TypeOK, Quiet, Next
  PROVE  Quiet'
<1> USE DriverAssumption DEF DriverAssumption
<1>1. BridgeClock(req_ready, TlpRx(cpl))
  BY DEF Next, Hardware
<1>2. Accepted <=> Rung
  BY DEF Accepted, Occupied, Rung, Quiet
<1>3. (busy <=> state # "IDLE")'
  BY <1>1 DEF BridgeClock, Accepted, Occupied, req_valid, Completes, cpl_ready, Quiet,
     TypeOK, BridgeTypeOK
<1>4. ~Rung /\ state = "IDLE" => state' = "IDLE"
  BY <1>1, <1>2 DEF BridgeClock, req_valid, Completes, cpl_ready
<1>5. Rung' => /\ pc = "command" /\ pc' \in {"poll", "wdata"}
               /\ pc' = "wdata" => ~DataFirst
               /\ dphase'.value = op.type /\ op \in Requests
  BY DEF Next, Proceed, Pass, Invoke, CheckBusy, BusyChecked, WriteBdf, WriteReg,
     WriteData, RingDoorbell, Poll, Polled, GiveUp, TakeData, DataTaken, Present, Return,
     Rung, Writing, NoAccess, CsrRead, CsrWrite, TypeOK, DriverTypeOK
<1>6. Approaching' => Approaching \/ (pc = "checked" /\ ~busy)
  BY DEF Next, Proceed, Pass, driverVars, Invoke, CheckBusy, BusyChecked, BusyBit, Status,
     WriteBdf, WriteReg, WriteData, RingDoorbell, Poll, Polled, GiveUp, TakeData,
     DataTaken, Present, Return, Approaching
<1>7. Approaching' \/ Rung' => state' = "IDLE"
  BY <1>4, <1>5, <1>6 DEF Quiet, Approaching
<1> QED BY <1>3, <1>5, <1>7 DEF Quiet, Approaching, Requests

(***************************************************************************)
(* The bridge takes every command of the driver: from the driver's look at *)
(* BUSY until its doorbell nothing can get under way, not even the late    *)
(* request of a call that timed out.                                       *)
(***************************************************************************)
THEOREM DoorbellsAccepted == Spec => [](Writing("CFG_COMMAND") => Accepted)
<1>1. Init => Quiet
  BY DEF Init, BridgeInit, DriverInit, NoAccess, Quiet, Approaching, Rung, Writing
<1>2. TypeOK /\ Quiet /\ [Next]_vars => Quiet'
  <2>1. CASE UNCHANGED vars
    BY <2>1 DEF vars, bridgeVars, driverVars, Quiet, Approaching, Rung, Writing
  <2> QED BY <2>1, QuietStep
<1>3. Quiet => (Writing("CFG_COMMAND") => Accepted)
  BY DEF Quiet, Rung, Accepted, Occupied
<1> QED BY <1>1, <1>2, <1>3, TypeCorrect, PTL DEF Spec

-----------------------------------------------------------------------------
(* The configuration space the caller sees (ConfigSpace). *)

\* The CFG registers after this clock.
NextCfg == [bdf   |-> IF Writing("CFG_BDF") THEN dphase.value ELSE cfg.bdf,
            reg   |-> IF Writing("CFG_REG") THEN dphase.value ELSE cfg.reg,
            wdata |-> IF Writing("CFG_WDATA") THEN dphase.value ELSE cfg.wdata]

\* What the driver has programmed of its call.
Programmed ==
  /\ pc \in {"reg", "wdata", "command"} \/ Rung => NextCfg.bdf = op.bdf
  /\ pc \in {"wdata", "command"} \/ Rung => NextCfg.reg = op.reg
  /\ (pc = "command" \/ Rung) /\ op.type = "WRITE" => NextCfg.wdata = op.wdata
  /\ Rung => pc = "poll" /\ polls = 0 /\ dphase.value = op.type
  /\ pc \notin {"poll", "polled", "data", "taken"} => polls = 0
  /\ op # NoOp => op \in Calls

\* DONE means that the request is over, and nothing ever goes wrong.
Done ==
  /\ done => state = "IDLE"
  /\ pc \in {"data", "taken"} => state = "IDLE"
  /\ error_status = {} /\ ~Writing("BAD")

\* The endpoint holds the bridge's request, or its completion.
InFlight ==
  /\ state \in {"IDLE", "ISSUE"} => ~pending /\ ~cpl.valid
  /\ state = "WAIT_CPL" => (pending <=> ~cpl.valid)
  /\ pending => saved = TlpTx(req)
  /\ cpl.valid => cpl.opcode = "CPL" /\ cpl.ok

SpaceInv == Quiet /\ Programmed /\ Done /\ InFlight

\* A doorbell is accepted, and while it is not rung no request starts.
LEMMA Doorbell ==
  ASSUME Quiet
  PROVE  (Accepted <=> Rung) /\ ~Rejected /\ ~Unknown
BY DEF Quiet, Accepted, Rejected, Unknown, Rung, Occupied

\* A clock passes the access of its data phase on to the registers.
LEMMA ProgrammedStep ==
  ASSUME DataFirst, TypeOK, Quiet, Programmed, Next
  PROVE  Programmed'
<1>1. cfg' = NextCfg
  BY DEF Next, Hardware, BridgeClock, NextCfg
<1>2. ASSUME ~(dphase'.port = "CSR" /\ dphase'.write)
      PROVE  NextCfg' = NextCfg /\ ~Rung'
  BY <1>1, <1>2 DEF NextCfg, Writing, Rung
<1>3. NoAccess.port # "CSR" /\ \A r : ~CsrRead(r).write
  BY DEF NoAccess, CsrRead
<1>4. op \in Requests \cup {NoOp} /\ (op = NoOp <=> pc = "idle") /\ (op # NoOp => op \in Calls)
  BY DEF TypeOK, DriverTypeOK, Programmed
<1>5. CASE Pass
  BY <1>2, <1>3, <1>5 DEF Pass, driverVars, Programmed
<1>6. CASE \E o \in Calls : Invoke(o)
  BY <1>2, <1>3, <1>4, <1>6 DEF Invoke, Programmed, Calls
<1>7. CASE CheckBusy
  BY <1>2, <1>3, <1>4, <1>7 DEF CheckBusy, Present, Programmed
<1>8. CASE BusyChecked
  BY <1>2, <1>3, <1>4, <1>8 DEF BusyChecked, Present, Return, Programmed
<1>9. CASE WriteBdf
  <2>1. /\ dphase' = CsrWrite("CFG_BDF", op.bdf) /\ pc = "bdf" /\ pc' = "reg"
        /\ UNCHANGED <<op, polls>>
    BY <1>9 DEF WriteBdf, Present
  <2>2. NextCfg'.bdf = op.bdf /\ ~Rung'
    BY <2>1 DEF NextCfg, Writing, Rung, CsrWrite
  <2> QED
    BY <1>4, <2>1, <2>2 DEF Programmed
<1>10. CASE WriteReg
  <2>1. /\ dphase' = CsrWrite("CFG_REG", op.reg) /\ pc = "reg"
        /\ pc' = IF op.type = "WRITE" THEN "wdata" ELSE "command"
        /\ UNCHANGED <<op, polls>>
    BY <1>10 DEF WriteReg, Present
  <2>2. NextCfg'.bdf = NextCfg.bdf /\ NextCfg'.reg = op.reg /\ ~Rung'
    BY <1>1, <2>1 DEF NextCfg, Writing, Rung, CsrWrite
  <2> QED
    BY <1>4, <2>1, <2>2 DEF Programmed
<1>11. CASE WriteData
  <2>1. /\ dphase' = CsrWrite("CFG_WDATA", op.wdata) /\ pc = "wdata" /\ pc' = "command"
        /\ UNCHANGED <<op, polls>>
    BY <1>11 DEF WriteData, Present
  <2>2. /\ NextCfg'.bdf = NextCfg.bdf /\ NextCfg'.reg = NextCfg.reg
        /\ NextCfg'.wdata = op.wdata /\ ~Rung'
    BY <1>1, <2>1 DEF NextCfg, Writing, Rung, CsrWrite
  <2> QED
    BY <1>4, <2>1, <2>2 DEF Programmed
<1>12. CASE RingDoorbell
  <2>1. /\ dphase' = CsrWrite("CFG_COMMAND", op.type) /\ pc = "command" /\ pc' = "poll"
        /\ UNCHANGED <<op, polls>>
    BY <1>12 DEF RingDoorbell, Present
  <2>2. NextCfg' = NextCfg /\ dphase'.value = op.type
    BY <1>1, <2>1 DEF NextCfg, Writing, CsrWrite
  <2> QED
    BY <1>4, <2>1, <2>2 DEF Programmed
<1>13. CASE Poll
  BY <1>2, <1>3, <1>4, <1>13 DEF Poll, Present, Programmed
<1>14. CASE Polled
  BY <1>2, <1>3, <1>4, <1>14 DEF Polled, Present, Return, Programmed
<1>15. CASE GiveUp
  BY <1>2, <1>3, <1>4, <1>15 DEF GiveUp, Return, Programmed
<1>16. CASE TakeData
  BY <1>2, <1>3, <1>4, <1>16 DEF TakeData, Present, Programmed
<1>17. CASE DataTaken
  BY <1>2, <1>3, <1>4, <1>17 DEF DataTaken, Return, Programmed
<1> QED
  BY <1>5, <1>6, <1>7, <1>8, <1>9, <1>10, <1>11, <1>12, <1>13, <1>14, <1>15, <1>16, <1>17
     DEF Next, Proceed

\* The bridge completes a request without an error, and only then is it done.
LEMMA DoneStep ==
  ASSUME TypeOK, Quiet, Programmed, Done, InFlight, Next
  PROVE  Done'
<1>1. BridgeClock(req_ready, TlpRx(cpl)) /\ ~Unknown /\ ~Rejected /\ (Accepted <=> Rung)
  BY Doorbell DEF Next, Hardware
<1>2. state \in {"IDLE", "ISSUE", "WAIT_CPL"}
  BY DEF TypeOK, BridgeTypeOK
<1>3. (done => state = "IDLE")'
  BY <1>1, <1>2 DEF BridgeClock, Done, Completes, cpl_ready, req_valid, Accepted, Occupied
<1>4. state = "IDLE" /\ ~Rung => state' = "IDLE"
  BY <1>1 DEF BridgeClock, Completes, cpl_ready, req_valid
<1>5. pc' \in {"data", "taken"} => pc \in {"data", "taken"} \/ (pc = "polled" /\ done)
  BY DEF Next, Proceed, Pass, driverVars, Invoke, CheckBusy, BusyChecked, Status,
     WriteBdf, WriteReg, WriteData, RingDoorbell, Poll, Polled, GiveUp, TakeData,
     DataTaken, Present, Return
<1>6. (pc \in {"data", "taken"} => state = "IDLE")'
  BY <1>4, <1>5 DEF Done, Programmed
<1>7. error_status' = {}
  <2>1. Completes(TlpRx(cpl)) => TlpRx(cpl).ok
    BY DEF Completes, TlpRx, InFlight
  <2>2. Refusal = {} /\ error_status = {}
    BY <1>1 DEF Refusal, Done
  <2> QED
    BY <1>1, <2>1, <2>2 DEF BridgeClock
<1>8. ~Writing("BAD")'
  BY DEF Next, Proceed, Pass, Invoke, CheckBusy, BusyChecked, WriteBdf, WriteReg,
     WriteData, RingDoorbell, Poll, Polled, GiveUp, TakeData, DataTaken, Present, Return,
     Writing, NoAccess, CsrRead, CsrWrite
<1> QED
  BY <1>3, <1>6, <1>7, <1>8 DEF Done

\* A request goes from the bridge to the endpoint and comes back as a completion.
LEMMA InFlightStep ==
  ASSUME TypeOK, Quiet, InFlight, Hardware
  PROVE  InFlight'
<1>1. BridgeClock(req_ready, TlpRx(cpl)) /\ EndpointClock /\ (Accepted => state = "IDLE")
  BY DEF Hardware, Accepted, Occupied
<1>2. /\ state \in {"IDLE", "ISSUE", "WAIT_CPL"} /\ pending \in BOOLEAN
      /\ cpl.valid \in BOOLEAN /\ TlpRx(cpl).valid = cpl.valid
      /\ cpl = [valid |-> cpl.valid, opcode |-> cpl.opcode, ok |-> cpl.ok, data |-> cpl.data]
  BY DEF TypeOK, BridgeTypeOK, TlpRx
<1>3. CASE state = "IDLE"
  <2>1. state' \in {"IDLE", "ISSUE"} /\ ~pending /\ ~cpl.valid
    BY <1>1, <1>3 DEF BridgeClock, req_valid, Completes, cpl_ready, InFlight
  <2>2. ~pending' /\ cpl' = cpl
    BY <1>1, <1>3, <2>1 DEF EndpointClock, req_valid
  <2> QED
    BY <2>1, <2>2 DEF InFlight
<1>4. CASE state = "ISSUE"
  <2>1. state' = "WAIT_CPL" /\ ~pending /\ ~cpl.valid /\ req' = req
    BY <1>1, <1>4 DEF BridgeClock, req_valid, req_ready, Completes, cpl_ready, InFlight
  <2>2. pending' /\ cpl' = cpl /\ saved' = TlpTx(req)
    BY <1>1, <1>4, <2>1 DEF EndpointClock, req_valid, req_ready
  <2> QED
    BY <2>1, <2>2 DEF InFlight, TlpTx
<1>5. CASE state = "WAIT_CPL" /\ cpl.valid
  <2>1. state' = "IDLE" /\ ~pending
    BY <1>1, <1>2, <1>5 DEF BridgeClock, req_valid, Completes, cpl_ready, InFlight
  <2>2. ~pending' /\ cpl' = [cpl EXCEPT !.valid = FALSE]
    BY <1>1, <1>5, <2>1 DEF EndpointClock, req_valid, cpl_ready
  <2>3. ~cpl'.valid
    BY <1>2, <2>2
  <2> QED
    BY <2>1, <2>2, <2>3 DEF InFlight
<1>6. CASE state = "WAIT_CPL" /\ ~cpl.valid
  <2>1. state' = "WAIT_CPL" /\ pending /\ req' = req /\ saved = TlpTx(req)
    BY <1>1, <1>2, <1>6 DEF BridgeClock, req_valid, Completes, cpl_ready, InFlight
  <2>2. saved' = saved
    BY <1>1, <1>6 DEF EndpointClock, req_valid
  <2>3. CASE delay_count = 0
    <3>1. ~pending' /\ cpl'.valid /\ cpl'.opcode = "CPL" /\ cpl'.ok
      BY <1>1, <1>6, <2>1, <2>3 DEF EndpointClock, req_valid
    <3> QED
      BY <2>1, <3>1 DEF InFlight
  <2>4. CASE delay_count # 0
    <3>1. pending' /\ cpl' = cpl
      BY <1>1, <1>6, <2>1, <2>4 DEF EndpointClock, req_valid
    <3> QED
      BY <1>6, <2>1, <2>2, <3>1 DEF InFlight, TlpTx
  <2> QED
    BY <2>3, <2>4
<1> QED
  BY <1>2, <1>3, <1>4, <1>5, <1>6

\* Without a doorbell the endpoint performs the request, the bridge finishes it, or
\* the space stays as it is.
LEMMA SpaceMoves ==
  ASSUME TypeOK, Quiet, InFlight, Hardware, ~Rung
  PROVE  Abstract!Perform \/ Abstract!Finish \/ UNCHANGED <<cfg_scratch, LastRead, Flight>>
<1>1. BridgeClock(req_ready, TlpRx(cpl)) /\ EndpointClock /\ ~Accepted
  BY Doorbell DEF Hardware
<1>2. /\ state \in {"IDLE", "ISSUE", "WAIT_CPL"} /\ pending \in BOOLEAN /\ req' = req
      /\ cpl.valid \in BOOLEAN /\ TlpRx(cpl).valid = cpl.valid /\ TlpRx(cpl).rdata = cpl.data
      /\ req.type \in {"READ", "WRITE"}
      /\ cpl = [valid |-> cpl.valid, opcode |-> cpl.opcode, ok |-> cpl.ok, data |-> cpl.data]
  BY <1>1 DEF TypeOK, BridgeTypeOK, TlpRx, BridgeClock, Requests
<1>3. Effective(req)' = Effective(req)
  BY <1>2 DEF Effective
<1>4. CASE state = "IDLE"
  <2>1. /\ state' = "IDLE" /\ ~pending /\ ~cpl.valid /\ cpl' = cpl
        /\ cfg_rdata' = cfg_rdata /\ cfg_scratch' = cfg_scratch
    BY <1>1, <1>4 DEF BridgeClock, req_valid, Completes, Captures, cpl_ready, InFlight,
                      EndpointClock
  <2> QED
    BY <1>4, <2>1 DEF LastRead, Flight, None
<1>5. CASE state = "ISSUE"
  <2>1. /\ state' = "WAIT_CPL" /\ ~pending /\ ~cpl.valid /\ cpl' = cpl
        /\ cfg_rdata' = cfg_rdata /\ cfg_scratch' = cfg_scratch
    BY <1>1, <1>5 DEF BridgeClock, req_valid, req_ready, Completes, Captures, cpl_ready, InFlight,
       EndpointClock
  <2> QED
    BY <1>3, <1>5, <2>1 DEF LastRead, Flight
<1>6. CASE state = "WAIT_CPL" /\ cpl.valid
  <2>1. /\ state' = "IDLE" /\ ~pending /\ cfg_scratch' = cfg_scratch
        /\ cfg_rdata' = IF req.type = "READ" THEN cpl.data ELSE cfg_rdata
        /\ cpl' = [cpl EXCEPT !.valid = FALSE]
    <3>1. ~pending /\ cpl.ok /\ TlpRx(cpl).ok
      BY <1>2, <1>6 DEF InFlight, TlpRx
    <3>2. Completes(TlpRx(cpl)) /\ cpl_ready
      BY <1>2, <1>6 DEF Completes, cpl_ready
    <3>3. state' = "IDLE" /\ cfg_rdata' = IF req.type = "READ" THEN cpl.data ELSE cfg_rdata
      BY <1>1, <1>2, <1>6, <3>1, <3>2 DEF BridgeClock, req_valid, Captures
    <3> QED
      BY <1>1, <1>6, <3>1, <3>2, <3>3 DEF EndpointClock, req_valid
  <2>2. ~cpl'.valid
    BY <1>2, <2>1
  <2>3. LastRead' = LastRead
    BY <1>2, <1>6, <2>1, <2>2 DEF LastRead
  <2>4. Flight = [request |-> Effective(req), performed |-> TRUE] /\ Flight' = None
    BY <1>6, <2>1 DEF Flight, None
  <2>5. Flight # None
    BY <2>4, <1>2, NoOpIsNoRequest DEF None, Effective, NoOp
  <2>6. Abstract!Finish
    BY <2>1, <2>3, <2>4, <2>5 DEF Abstract!Finish
  <2> QED
    BY <2>6
<1>7. CASE state = "WAIT_CPL" /\ ~cpl.valid /\ delay_count # 0
  <2>1. /\ state' = "WAIT_CPL" /\ cpl' = cpl
        /\ cfg_rdata' = cfg_rdata /\ cfg_scratch' = cfg_scratch
    BY <1>1, <1>2, <1>7 DEF BridgeClock, req_valid, Completes, Captures, cpl_ready, InFlight,
       EndpointClock
  <2> QED
    BY <1>3, <1>7, <2>1 DEF LastRead, Flight
<1>8. CASE state = "WAIT_CPL" /\ ~cpl.valid /\ delay_count = 0
  <2> DEFINE r == Effective(req)
  <2>1. pending /\ saved = TlpTx(req)
    BY <1>8 DEF InFlight
  <2>2. /\ state' = "WAIT_CPL" /\ cfg_rdata' = cfg_rdata
        /\ cfg_scratch' = IF saved.opcode = "CFG_WRITE" THEN Store(cfg_scratch, saved)
                          ELSE cfg_scratch
        /\ cpl'.valid = TRUE
        /\ saved.opcode = "CFG_READ" => cpl'.data = Lookup(cfg_scratch, saved)
    BY <1>1, <1>2, <1>8, <2>1 DEF BridgeClock, req_valid, Completes, Captures, cpl_ready,
       EndpointClock
  <2> HIDE DEF r
  <2>3. /\ Flight = [request |-> r, performed |-> FALSE]
        /\ Flight' = [request |-> r, performed |-> TRUE]
    BY <1>2, <1>3, <1>8, <2>2 DEF Flight, r
  <2>4. /\ Flight.request = r /\ Flight.performed = FALSE
        /\ Flight' = [request |-> Flight.request, performed |-> TRUE]
    BY <2>3
  <2>5. Flight # None
    <3>1. r \in Requests
      <4>1. req \in Requests /\ Zero \in Words
        BY PcieAssumption DEF TypeOK, BridgeTypeOK, PcieAssumption
      <4> QED
        BY <4>1 DEF r, Effective, Requests
    <3> QED
      BY <2>4, <3>1, NoOpIsNoRequest DEF None
  <2>6. CASE req.type = "WRITE"
    <3>1. r = req /\ saved.opcode = "CFG_WRITE"
      BY <2>1, <2>6 DEF Effective, TlpTx, Opcode, r
    <3>2. cfg_scratch' = Applied(cfg_scratch, r)
      BY <2>1, <2>2, <2>6, <3>1 DEF Applied
    <3>3. LastRead' = LastRead /\ r.type # "READ"
      BY <1>2, <2>2, <2>6, <3>1 DEF LastRead
    <3> QED
      BY <2>5, <2>4, <3>2, <3>3 DEF Abstract!Perform
  <2>7. CASE req.type = "READ"
    <3>1. r = [req EXCEPT !.wdata = Zero] /\ saved.opcode = "CFG_READ"
      BY <2>1, <2>7 DEF Effective, TlpTx, Opcode, r
    <3>2. r.type = "READ" /\ r.bdf = req.bdf /\ r.reg = req.reg
      BY <2>7, <3>1 DEF TypeOK, BridgeTypeOK, Requests
    <3>3. ReadFrom(cfg_scratch, r) = Lookup(cfg_scratch, saved)
      BY <2>1, <3>2 DEF ReadFrom, Lookup, TlpTx
    <3>4. cfg_scratch' = Applied(cfg_scratch, r)
      BY <2>2, <3>1, <3>2 DEF Applied
    <3>5. LastRead' = ReadFrom(cfg_scratch, r)
      BY <1>2, <2>2, <2>7, <3>1, <3>3 DEF LastRead
    <3> QED
      BY <2>5, <2>4, <3>2, <3>4, <3>5 DEF Abstract!Perform
  <2> QED
    BY <1>2, <2>6, <2>7
<1> QED
  BY <1>2, <1>4, <1>5, <1>6, <1>7, <1>8

\* Without a doorbell a call begins, ends as the space allows, or goes on.
LEMMA CallMoves ==
  ASSUME DataFirst, TypeOK, SpaceInv, Next, ~Rung
  PROVE  \/ Abstract!Invoke \/ Abstract!Refuse \/ Abstract!TimeOut \/ Abstract!Succeed
         \/ UNCHANGED <<op, Started, result.code, result.value>>
<1>1. /\ op \in Requests \cup {NoOp} /\ (op = NoOp <=> pc = "idle") /\ busy \in BOOLEAN
      /\ (busy <=> state # "IDLE") /\ (done => state = "IDLE") /\ error_status = {}
      /\ pc \in {"data", "taken"} => state = "IDLE"
      /\ state = "IDLE" => ~cpl.valid
      /\ NoAccess.port # "CSR" /\ \A r : ~CsrRead(r).write
  BY DEF TypeOK, DriverTypeOK, BridgeTypeOK, SpaceInv, Quiet, Done, InFlight, NoAccess, CsrRead
<1>2. Started <=> pc \in {"poll", "polled", "data", "taken"}
  BY DEF Started, Rung
<1>3. ASSUME NEW c, NEW v, Return(c, v)
      PROVE  op' = NoOp /\ Started' = FALSE /\ result'.code = c /\ result'.value = v
  BY <1>3 DEF Return, Started
<1>4. ASSUME NEW a, NEW next, Present(a, next), a.port # "CSR" \/ ~a.write,
             next \in {"poll", "polled", "data", "taken"} <=> Started
      PROVE  UNCHANGED <<op, Started, result.code, result.value>>
  BY <1>4, <1>2 DEF Present, Started, Writing
<1>5. CASE Pass
  BY <1>5, <1>1, <1>2 DEF Pass, driverVars, Started, Writing
<1>6. CASE \E o \in Calls : Invoke(o)
  <2>1. op = NoOp /\ op' \in Calls /\ Started' = Started /\ result' = result
    BY <1>1, <1>2, <1>6 DEF Invoke, Started
  <2> QED
    BY <2>1 DEF Abstract!Invoke
<1>7. CASE CheckBusy
  BY <1>1, <1>2, <1>4, <1>7 DEF CheckBusy
<1>8. CASE BusyChecked
  <2>1. CASE busy
    <3>1. Return("BUSY", Zero) /\ pc = "checked" /\ state # "IDLE"
      BY <1>1, <1>8, <2>1 DEF BusyChecked, BusyBit, Status
    <3>2. Flight # None
      BY <3>1, NoOpIsNoRequest DEF Flight, None, Effective, NoOp, TypeOK, BridgeTypeOK, Requests
    <3>3. ~Started /\ op # NoOp
      BY <1>1, <1>2, <3>1
    <3> QED
      BY <1>3, <3>1, <3>2, <3>3 DEF Abstract!Refuse, Abstract!Return
  <2>2. CASE ~busy
    <3>1. Present(NoAccess, "bdf") /\ pc = "checked"
      BY <1>8, <2>2 DEF BusyChecked, BusyBit, Status
    <3> QED
      BY <1>1, <1>2, <1>4, <3>1
  <2> QED
    BY <2>1, <2>2
<1>9. CASE WriteBdf \/ WriteReg \/ (WriteData /\ DataFirst)
  <2>1. /\ pc \in {"bdf", "reg", "wdata"} /\ pc' \in {"reg", "wdata", "command"}
        /\ UNCHANGED <<op, result>>
    BY <1>9 DEF WriteBdf, WriteReg, WriteData, Present
  <2> QED
    BY <2>1 DEF Started
<1>10. CASE RingDoorbell
  <2>1. pc = "command" /\ dphase' = CsrWrite("CFG_COMMAND", op.type) /\ UNCHANGED <<op, result>>
    BY <1>10 DEF RingDoorbell, Present
  <2> QED
    BY <2>1 DEF Started, Writing, CsrWrite
<1>11. CASE Poll
  BY <1>1, <1>2, <1>4, <1>11 DEF Poll
<1>12. CASE Polled
  <2>1. pc = "polled" /\ Started /\ op # NoOp
    BY <1>1, <1>2, <1>12 DEF Polled
  <2>2. CASE ~done
    <3>1. pc' = "poll" /\ dphase' = NoAccess /\ UNCHANGED <<op, result>>
      BY <1>12, <2>2 DEF Polled, Status
    <3> QED
      BY <1>1, <2>1, <3>1 DEF Started, Writing
  <2>3. CASE done /\ op.type = "READ"
    <3>1. Present(NoAccess, "data")
      BY <1>1, <1>12, <2>3 DEF Polled, Status
    <3> QED
      BY <1>1, <1>4, <2>1, <3>1
  <2>4. CASE done /\ op.type # "READ"
    <3>1. Return("OK", Zero) /\ state = "IDLE"
      BY <1>1, <1>12, <2>4 DEF Polled, Status
    <3> QED
      BY <1>3, <2>1, <2>4, <3>1 DEF Abstract!Succeed, Abstract!Return, Flight
  <2> QED
    BY <2>2, <2>3, <2>4
<1>13. CASE GiveUp
  <2>1. Return("TIMEOUT", Zero) /\ Started /\ op # NoOp
    BY <1>1, <1>2, <1>13 DEF GiveUp
  <2> QED
    BY <1>3, <2>1 DEF Abstract!TimeOut, Abstract!Return
<1>14. CASE TakeData
  BY <1>1, <1>2, <1>4, <1>14 DEF TakeData
<1>15. CASE DataTaken
  <2>1. Return("OK", cfg_rdata) /\ Started /\ op # NoOp /\ Flight = None /\ LastRead = cfg_rdata
    BY <1>1, <1>2, <1>15 DEF DataTaken, Flight, LastRead
  <2> QED
    BY <1>3, <2>1 DEF Abstract!Succeed, Abstract!Return
<1> QED
  BY <1>5, <1>6, <1>7, <1>8, <1>9, <1>10, <1>11, <1>12, <1>13, <1>14, <1>15 DEF Next, Proceed

\* A doorbell starts the request of the call.
LEMMA StartMoves ==
  ASSUME TypeOK, SpaceInv, Next, Rung
  PROVE  Abstract!Start
<1>1. BridgeClock(req_ready, TlpRx(cpl)) /\ EndpointClock /\ Accepted
  BY Doorbell DEF Next, Hardware, SpaceInv
<1>2. /\ pc = "poll" /\ polls = 0 /\ dphase.value = op.type /\ state = "IDLE"
      /\ cfg.bdf = op.bdf /\ cfg.reg = op.reg /\ (op.type = "WRITE" => cfg.wdata = op.wdata)
      /\ ~pending /\ ~cpl.valid /\ op # NoOp /\ op \in Calls
  BY DEF SpaceInv, Programmed, Quiet, InFlight, NextCfg, Rung, Writing, TypeOK, DriverTypeOK
<1>3. state' = "ISSUE" /\ cfg_rdata' = cfg_rdata /\ cpl' = cpl /\ cfg_scratch' = cfg_scratch
  BY <1>1, <1>2 DEF BridgeClock, EndpointClock, Completes, Captures, cpl_ready, req_valid
<1>4. req' = [type |-> op.type, bdf |-> op.bdf, reg |-> op.reg, wdata |-> cfg.wdata]
  BY <1>1, <1>2 DEF BridgeClock
<1>5. op = [type |-> op.type, bdf |-> op.bdf, reg |-> op.reg, wdata |-> op.wdata]
      /\ (op.type = "READ" => op.wdata = Zero) /\ op.type \in {"READ", "WRITE"}
  BY <1>2 DEF Calls, Requests
<1>6. Effective(req') = op
  BY <1>2, <1>4, <1>5 DEF Effective
<1>7. PollLimit > 0
  BY DriverAssumption DEF DriverAssumption
<1>8. /\ UNCHANGED <<op, result>>
      /\ pc' \in {"poll", "polled"} /\ (dphase' = NoAccess \/ dphase' = CsrRead("STATUS"))
  BY <1>2, <1>7 DEF Next, Proceed, Pass, driverVars, Invoke, CheckBusy, BusyChecked, WriteBdf,
     WriteReg, WriteData, RingDoorbell, Poll, Polled, GiveUp, TakeData, DataTaken, Present
<1>9. ~Started /\ Started'
  BY <1>2, <1>8 DEF Started, Rung, Writing, NoAccess, CsrRead
<1>10. Flight = None /\ Flight' = [request |-> op, performed |-> FALSE]
  <2>1. cpl'.valid = FALSE /\ Effective(req)' = op
    BY <1>2, <1>3, <1>6 DEF TypeOK, Effective
  <2> QED
    BY <1>2, <1>3, <2>1 DEF Flight
<1>11. LastRead' = LastRead
  BY <1>2, <1>3 DEF LastRead
<1> QED
  BY <1>2, <1>3, <1>8, <1>9, <1>10, <1>11 DEF Abstract!Start

(***************************************************************************)
(* The driver of lab H2, which writes the data before it rings the         *)
(* doorbell, gives its caller an atomic configuration space, in spite of   *)
(* calls that time out while their request is still under way.             *)
(***************************************************************************)
THEOREM SpaceImplemented == DataFirst => (Spec => AtomicSpace)
<1> SUFFICES ASSUME DataFirst PROVE Spec => AtomicSpace
  OBVIOUS
<1>1. Init => SpaceInv /\ Abstract!Init
  <2> SUFFICES ASSUME Init PROVE SpaceInv /\ Abstract!Init
    OBVIOUS
  <2>1. Quiet /\ Programmed /\ Done /\ InFlight
    BY DEF Init, BridgeInit, DriverInit, EndpointInit, NoAccess, Quiet, Approaching, Rung, Writing,
       Programmed, Done, InFlight
  <2>2. Abstract!Init
    BY DEF Init, BridgeInit, DriverInit, EndpointInit, Abstract!Init, Flight, Started, LastRead
  <2> QED
    BY <2>1, <2>2 DEF SpaceInv
<1>2. TypeOK /\ SpaceInv /\ [Next]_vars => SpaceInv'
  <2> SUFFICES ASSUME TypeOK, SpaceInv, [Next]_vars PROVE SpaceInv'
    OBVIOUS
  <2>1. CASE Next
    BY <2>1, QuietStep, ProgrammedStep, DoneStep, InFlightStep DEF SpaceInv, Next
  <2>2. CASE UNCHANGED vars
    BY <2>2 DEF vars, bridgeVars, driverVars, endpointVars, SpaceInv, Quiet, Approaching, Rung,
       Writing, Programmed, NextCfg, Done, InFlight, TlpTx
  <2> QED
    BY <2>1, <2>2
<1>3. TypeOK /\ SpaceInv /\ [Next]_vars =>
        [Abstract!Next]_<<Abstract!spaceVars, Abstract!callVars>>
  <2> SUFFICES ASSUME TypeOK, SpaceInv, [Next]_vars
               PROVE  [Abstract!Next]_<<Abstract!spaceVars, Abstract!callVars>>
    OBVIOUS
  <2>1. CASE Next /\ Rung
    BY <2>1, StartMoves DEF Abstract!Next
  <2>2. CASE Next /\ ~Rung
    <3>1. Hardware
      BY <2>2 DEF Next
    <3>2. Abstract!Perform \/ Abstract!Finish \/ UNCHANGED Abstract!spaceVars
      BY <2>2, <3>1, SpaceMoves DEF SpaceInv, Abstract!spaceVars
    <3>3. \/ Abstract!Invoke \/ Abstract!Refuse \/ Abstract!TimeOut \/ Abstract!Succeed
          \/ UNCHANGED Abstract!callVars
      BY <2>2, CallMoves DEF Abstract!callVars
    <3> QED
      BY <3>2, <3>3 DEF Abstract!Next
  <2>3. CASE UNCHANGED vars
    BY <2>3 DEF vars, bridgeVars, driverVars, endpointVars, Abstract!spaceVars, Abstract!callVars,
       LastRead, Flight, Started, Effective, Writing
  <2> QED
    BY <2>1, <2>2, <2>3
<1> QED
  BY <1>1, <1>2, <1>3, TypeCorrect, PTL DEF Spec, AtomicSpace, Abstract!Spec
=============================================================================
