------------------------------ MODULE PcieEnum ------------------------------
(***************************************************************************)
(* Lab 18: enumeration of bus 0 (pcie_bus.c) over the configuration access *)
(* of pcie_host.c and the simulated controller of pcie_sim_host.c.  One    *)
(* step is one configuration read, which a host may refuse at any time.    *)
(*                                                                         *)
(* The controller holds a list of functions; of a configuration space the  *)
(* model keeps what the scan looks at: whether function 0 has the multi-   *)
(* function bit and whether the header is a normal one, with BARs.         *)
(***************************************************************************)
EXTENDS Integers, Sequences, FiniteSets, SequencesExt

CONSTANTS
  Devices,     \* device numbers of a bus are 0 .. Devices - 1 (32 in the code)
  Functions,   \* functions of a device (8)
  MaxDevices,  \* PCIE_MAX_DEVICES
  MaxBars,     \* PCIE_MAX_BARS
  Controllers  \* the lists of functions a board may have

ASSUME EnumAssumption ==
  /\ Devices \in Nat \ {0} /\ Functions \in Nat \ {0, 1}
  /\ MaxDevices \in Nat \ {0} /\ MaxBars \in Nat
  /\ Controllers \subseteq Seq([dev : Nat, fn : Nat, multi : BOOLEAN, normal : BOOLEAN])

VARIABLES
  controller,  \* list of [dev, fn, multi, normal]
  scan,        \* what the enumeration does next: [at, dev, fn, reads]
  table,       \* bus->devices up to device_count
  enumResult   \* what pcie_enumerate returned

enumVars == <<controller, scan, table, enumResult>>

Idle == [at |-> "off", dev |-> 0, fn |-> 0, reads |-> 0]

EnumInit == controller = <<>> /\ scan = Idle /\ table = <<>> /\ enumResult = "none"

-----------------------------------------------------------------------------
(* pcie_sim_host.c and pcie_host.c *)

\* sim_init_function: the header_type argument does not reach the configuration
\* space, so every simulated function is a normal, single-function one.
SimFunction(dev, fn, header_type) == [dev |-> dev, fn |-> fn, multi |-> FALSE, normal |-> TRUE]

\* pcie_sim_controller_init; the last two functions have the same address.
SimController ==
  << SimFunction(1, 0, "normal"), SimFunction(3, 0, "normal"),
     SimFunction(5, 0, "multi"), SimFunction(5, 0, "normal") >>

At(c, dev, fn) == { i \in DOMAIN c : c[i].dev = dev /\ c[i].fn = fn }
Present(dev, fn) == At(controller, dev, fn) # {}

\* sim_find_function: the first entry with this address.
Find(dev, fn) ==
  controller[CHOOSE i \in At(controller, dev, fn) : \A j \in At(controller, dev, fn) : i <= j]

\* pcie_validate_bdf and pcie_validate_offset, for registers by number.
ValidAccess(dev, fn, reg) == dev < 32 /\ fn < 8 /\ reg < 64

\* pcie_board_init, pcie_bus_init and the start of pcie_enumerate.
Enumerate ==
  /\ scan.at = "off" /\ enumResult = "none"
  /\ \E c \in Controllers : controller' = c
  /\ scan' = [Idle EXCEPT !.at = "device"] /\ table' = <<>>
  /\ UNCHANGED enumResult

-----------------------------------------------------------------------------
(* pcie_bus.c *)

Finish(result) == scan' = Idle /\ enumResult' = result /\ UNCHANGED <<controller, table>>

\* The loop of pcie_scan_bus goes on, or the scan is over.
NextDevice ==
  IF scan.dev + 1 = Devices THEN Finish("OK")
  ELSE /\ scan' = [Idle EXCEPT !.at = "device", !.dev = scan.dev + 1]
       /\ UNCHANGED <<controller, table, enumResult>>

GoOn(next) == scan' = next /\ UNCHANGED <<controller, table, enumResult>>

\* pcie_scan_function is called for another function of the device.
AtFunction(fn) == [at |-> "function", dev |-> scan.dev, fn |-> fn, reads |-> 0]

\* The loop of pcie_scan_device over functions 1 and up; after function 0 the
\* header decides whether there is one.
NextFunction ==
  IF scan.fn = 0 THEN GoOn([scan EXCEPT !.at = "header"])
  ELSE IF scan.fn + 1 = Functions THEN NextDevice
  ELSE GoOn(AtFunction(scan.fn + 1))

\* Any read may be refused: the error ends the enumeration.
ReadRefused ==
  /\ scan.at # "off"
  /\ Finish("ERROR")

\* pcie_scan_device reads the vendor of function 0.
ScanDevice ==
  /\ scan.at = "device" /\ ValidAccess(scan.dev, 0, 0)
  /\ IF Present(scan.dev, 0) THEN GoOn([scan EXCEPT !.at = "function"]) ELSE NextDevice

\* With a bug: the table is full one entry too late.
ScanFunctionLate ==
  /\ scan.at = "function" /\ ValidAccess(scan.dev, scan.fn, 0)
  /\ IF ~Present(scan.dev, scan.fn) THEN NextFunction
     ELSE IF Len(table) > MaxDevices THEN Finish("ARGUMENT")
     ELSE GoOn([scan EXCEPT !.at = "read"])

\* pcie_scan_function reads the vendor and looks for a free entry.
ScanFunction ==
  /\ scan.at = "function" /\ ValidAccess(scan.dev, scan.fn, 0)
  /\ IF ~Present(scan.dev, scan.fn) THEN NextFunction
     ELSE IF Len(table) >= MaxDevices THEN Finish("ARGUMENT")
     ELSE GoOn([scan EXCEPT !.at = "read"])

\* Reads of pcie_read_function: id, class, header, the BARs of a normal header,
\* interrupt.
Registers(f) == 4 + (IF f.normal THEN MaxBars ELSE 0)

Entry(f) == [dev |-> f.dev, fn |-> f.fn, multi |-> f.multi]

\* pcie_read_function; the entry counts once its last register was read.
ReadFunction ==
  /\ scan.at = "read"
  /\ LET f == Find(scan.dev, scan.fn) IN
     IF scan.reads + 1 < Registers(f) THEN GoOn([scan EXCEPT !.reads = @ + 1])
     ELSE /\ table' = Append(table, Entry(f))
          /\ scan' = [scan EXCEPT !.at = "counted", !.reads = 0]
          /\ UNCHANGED <<controller, enumResult>>

FunctionCounted == scan.at = "counted" /\ NextFunction

\* pcie_scan_device: only a multi-function device has functions 1 and up.
ScanHeader ==
  /\ scan.at = "header" /\ ValidAccess(scan.dev, 0, 3)
  /\ IF Find(scan.dev, 0).multi THEN GoOn(AtFunction(1))
     ELSE NextDevice

EnumNext ==
  \/ Enumerate \/ ReadRefused \/ ScanDevice \/ ScanFunction
  \/ ReadFunction \/ FunctionCounted \/ ScanHeader

EnumSpec == EnumInit /\ [][EnumNext]_enumVars

-----------------------------------------------------------------------------
\* The functions software can see: function 0 of a device, and the others when
\* function 0 exists and has the multi-function bit.
Visible ==
  { p \in (0 .. Devices - 1) \X (0 .. Functions - 1) :
      /\ Present(p[1], 0) /\ Present(p[1], p[2])
      /\ p[2] > 0 => Find(p[1], 0).multi }

Before(p, q) == p[1] < q[1] \/ (p[1] = q[1] /\ p[2] < q[2])

\* pcie_enumerate finds exactly the visible functions, each once and in order, as
\* long as the table has room; on any error the table holds the first of them, and
\* ARGUMENT means that there is one more than fits (pcie_bus.c:108-226).
EnumerationExact ==
  LET found == { <<table[i].dev, table[i].fn>> : i \in DOMAIN table }
  IN /\ Cardinality(found) = Len(table) /\ Len(table) <= MaxDevices
     /\ found \subseteq Visible
     /\ \A p \in Visible, q \in found : Before(p, q) => p \in found
     /\ \A i, j \in DOMAIN table : i < j =>
          Before(<<table[i].dev, table[i].fn>>, <<table[j].dev, table[j].fn>>)
     /\ enumResult = "OK" => found = Visible
     /\ enumResult = "ARGUMENT" => Len(table) = MaxDevices /\ found # Visible
=============================================================================
