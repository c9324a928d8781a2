----------------------------- MODULE PcieDriver -----------------------------
(***************************************************************************)
(* The polling driver of labs H2 and H3 (config_read32, config_write32 and *)
(* wait_completion of their main.c) on top of the host bridge.  A call is  *)
(* a sequence of register accesses, one instruction each; between two of   *)
(* them the processor may let any number of clocks pass.  The next access  *)
(* may be presented while the write before it is in its data phase; after  *)
(* a read the processor waits for the value.                               *)
(*                                                                         *)
(* The two labs differ in one point: lab H2 writes CFG_WDATA before it     *)
(* rings the doorbell, lab H3 after it.  The constant DataFirst chooses.   *)
(***************************************************************************)
EXTENDS PcieHost

CONSTANTS
  PollLimit,   \* number of STATUS reads before a call gives up
  DataFirst    \* CFG_WDATA is written before CFG_COMMAND

ASSUME DriverAssumption == PollLimit \in Nat \ {0} /\ DataFirst \in BOOLEAN

VARIABLES
  pc,          \* next access of the call, "idle" outside a call
  op,          \* arguments of the call
  polls,       \* unsuccessful polls of this call
  result       \* what the last call returned: a code, and the value read

driverVars == <<pc, op, polls, result>>

NoOp == [type |-> "NONE"]
Codes == {"OK", "BUSY", "BACKEND", "TIMEOUT"}

DriverInit ==
  /\ pc = "idle" /\ op = NoOp /\ polls = 0
  /\ result = [code |-> "OK", value |-> Zero]

-----------------------------------------------------------------------------
\* Put an access in its address phase and go on with the call at `next'.
Present(access, next) ==
  /\ dphase' = access
  /\ pc' = next
  /\ UNCHANGED <<op, polls, result>>

Return(code, value) ==
  /\ pc' = "idle" /\ op' = NoOp /\ polls' = 0
  /\ result' = [code |-> code, value |-> value]
  /\ dphase' = NoAccess

Awaiting == pc \in {"checked", "polled", "taken"}

\* A clock in which the processor touches no register.
Pass ==
  /\ ~Awaiting
  /\ dphase' = NoAccess
  /\ UNCHANGED driverVars

Invoke(o) ==
  /\ pc = "idle"
  /\ pc' = "check" /\ op' = o
  /\ dphase' = NoAccess
  /\ UNCHANGED <<polls, result>>

CheckBusy == pc = "check" /\ Present(CsrRead("STATUS"), "checked")

\* With a bug: BUSY is looked for at bit 3, as in lab H1, where it is never set.
BusyBitThree == FALSE

BusyBit == Status.busy

BusyChecked ==
  /\ pc = "checked"
  /\ IF BusyBit THEN Return("BUSY", Zero) ELSE Present(NoAccess, "bdf")

WriteBdf == pc = "bdf" /\ Present(CsrWrite("CFG_BDF", op.bdf), "reg")

WriteReg ==
  /\ pc = "reg"
  /\ Present(CsrWrite("CFG_REG", op.reg),
             IF op.type = "WRITE" /\ DataFirst THEN "wdata" ELSE "command")

WriteData ==
  /\ pc = "wdata"
  /\ Present(CsrWrite("CFG_WDATA", op.wdata), IF DataFirst THEN "command" ELSE "poll")

RingDoorbell ==
  /\ pc = "command"
  /\ Present(CsrWrite("CFG_COMMAND", op.type),
             IF op.type = "WRITE" /\ ~DataFirst THEN "wdata" ELSE "poll")

Poll == pc = "poll" /\ polls < PollLimit /\ Present(CsrRead("STATUS"), "polled")

Polled ==
  /\ pc = "polled"
  /\ \/ /\ ~Status.done
        /\ polls' = polls + 1
        /\ pc' = "poll"
        /\ dphase' = NoAccess
        /\ UNCHANGED <<op, result>>
     \/ Status.done /\ Status.error /\ Return("BACKEND", Zero)
     \/ /\ Status.done /\ ~Status.error
        /\ IF op.type = "READ" THEN Present(NoAccess, "data") ELSE Return("OK", Zero)

GiveUp == pc = "poll" /\ polls = PollLimit /\ Return("TIMEOUT", Zero)

TakeData == pc = "data" /\ Present(CsrRead("CFG_RDATA"), "taken")

DataTaken == pc = "taken" /\ Return("OK", cfg_rdata)

\* The processor goes on with the call it is in.
Proceed ==
  \/ CheckBusy \/ BusyChecked \/ WriteBdf \/ WriteReg \/ WriteData
  \/ RingDoorbell \/ Poll \/ Polled \/ GiveUp \/ TakeData \/ DataTaken

DriverTypeOK ==
  /\ pc \in {"idle", "check", "checked", "bdf", "reg", "wdata", "command",
             "poll", "polled", "data", "taken"}
  /\ op \in Requests \cup {NoOp} /\ (op = NoOp <=> pc = "idle")
  /\ polls \in 0 .. PollLimit
  /\ result \in [code : Codes, value : Words]
=============================================================================
