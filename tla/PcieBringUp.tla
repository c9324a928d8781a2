---------------------------- MODULE PcieBringUp -----------------------------
(***************************************************************************)
(* Lab H3: the bring-up sequence that main.c runs on the root port.  It    *)
(* identifies the endpoint, sizes and programs its BAR0, enables its       *)
(* memory space, and writes and reads back a word through the aperture.    *)
(* The testbench tb_labh3.v drives the same sequence on the bus; its       *)
(* cfg_write32 writes CFG_WDATA first, the one of main.c rings the         *)
(* doorbell first (DataFirst).                                             *)
(***************************************************************************)
EXTENDS PcieRootPort, PcieDriver

TestValue == "A5A55A5A"
ASSUME TestValueAssumption == TestValue \in Data

VARIABLES
  step,        \* the statement of main that is next
  called,      \* the configuration call of this step has been made
  g_command,   \* Command register, with memory space enabled
  outcome      \* "RUNNING", "PASS" (stage 7) or "FAILED" (stage 0xFFFFFFFF)

mainVars == <<step, called, g_command, outcome>>
allVars == <<vars, driverVars, mainVars>>

-----------------------------------------------------------------------------
ConfigRead(r) == [type |-> "READ", bdf |-> Endpoint, reg |-> r, wdata |-> Zero]
ConfigWrite(r, w) == [type |-> "WRITE", bdf |-> Endpoint, reg |-> r, wdata |-> w]

Calls ==
  << ConfigRead(VendorDevice),
     ConfigRead(Bar0), ConfigWrite(Bar0, Ones), ConfigRead(Bar0),
     ConfigWrite(Bar0, MmioBase), ConfigRead(Bar0),
     ConfigRead(CommandStatus), ConfigWrite(CommandStatus, g_command) >>

StoreStep == 9
LoadStep == 10
CompareStep == 11

\* What main demands of the value that call n returns: a vendor number,
\* its low half, that is not all zeros or ones; a 32-bit memory BAR; a mask that gives a size of at least 0x2000
\* and at most the aperture, of the words only BarMask does; and the base
\* that was programmed.
Good(n, v) ==
  CASE n = 1 -> v \notin {Zero, Ones, LowOnes, MmioBase, BarMask}
    [] n = 2 -> v \in {Zero, MmioBase, BarMask}
    [] n = 4 -> v = BarMask
    [] n = 6 -> v \in {MmioBase, BaseEnable}
    [] OTHER -> TRUE

\* With a bug: the Command register is written back as it was read.
Preserved16(v) == v

Enabled16(v) == IF v \in {Ones, LowOnes} THEN LowOnes ELSE MemoryEnable

-----------------------------------------------------------------------------
BringUpInit ==
  /\ Init /\ DriverInit
  /\ step = 1 /\ called = FALSE /\ g_command = Zero /\ outcome = "RUNNING"

MakeCall ==
  /\ outcome = "RUNNING" /\ step < StoreStep /\ ~called
  /\ Invoke(Calls[step])
  /\ called' = TRUE
  /\ UNCHANGED <<step, g_command, outcome>>

InCall == Proceed /\ UNCHANGED mainVars

CheckCall ==
  /\ outcome = "RUNNING" /\ called /\ pc = "idle"
  /\ called' = FALSE
  /\ IF result.code = "OK" /\ Good(step, result.value)
     THEN step' = step + 1 /\ UNCHANGED outcome
     ELSE outcome' = "FAILED" /\ UNCHANGED step
  /\ g_command' = IF step = 7 THEN Enabled16(result.value) ELSE g_command
  /\ dphase' = NoAccess
  /\ UNCHANGED driverVars

StoreWord ==
  /\ outcome = "RUNNING" /\ step = StoreStep
  /\ step' = LoadStep
  /\ dphase' = Store("scratch", TestValue)
  /\ UNCHANGED <<driverVars, called, g_command, outcome>>

\* The load waits, behind a DSB, for the store to leave the bus.
LoadWord ==
  /\ outcome = "RUNNING" /\ step = LoadStep /\ dphase = NoAccess
  /\ step' = CompareStep
  /\ dphase' = Load("scratch")
  /\ UNCHANGED <<driverVars, called, g_command, outcome>>

\* An error response is a bus fault, which main does not survive.
CompareWord ==
  /\ outcome = "RUNNING" /\ step = CompareStep
  /\ outcome' = IF mstate = "RESP" /\ mrdata = TestValue THEN "PASS" ELSE "FAILED"
  /\ dphase' = NoAccess
  /\ UNCHANGED <<driverVars, step, called, g_command>>

MainStep == MakeCall \/ InCall \/ CheckCall \/ StoreWord \/ LoadWord \/ CompareWord

Wait == Pass /\ (step = CompareStep => outcome # "RUNNING") /\ UNCHANGED mainVars

BringUpNext ==
  \/ Stall /\ UNCHANGED <<driverVars, mainVars>>
  \/ HREADY /\ MainStep /\ Clock(dphase')
  \/ HREADY /\ Wait /\ Clock(dphase')

BringUpSpec == BringUpInit /\ [][BringUpNext]_allVars

\* The clock runs and the processor executes main.
FairBringUpSpec ==
  BringUpSpec /\ WF_allVars(BringUpNext) /\ WF_allVars(HREADY /\ MainStep /\ Clock(dphase'))

-----------------------------------------------------------------------------
(***************************************************************************)
(* The bring-up reaches its last stage: each of the eight configuration    *)
(* requests has the effect main asked for, and the word stored through the *)
(* aperture is read back.                                                  *)
(***************************************************************************)
BringUpPasses == <>(outcome = "PASS")

(***************************************************************************)
(* Sizing BAR0: after all ones were written to it, it reads as the mask of *)
(* its size (test 4 of tb_labh3.v).                                        *)
(***************************************************************************)
SizeProbe ==
  called /\ step = 4 /\ pc = "idle" /\ result.code = "OK" => result.value = BarMask
=============================================================================
