---------------------------- MODULE BarResource ----------------------------
(***************************************************************************)
(* Lab 19: sizing a BAR, allocating from a window and programming the BAR  *)
(* (pcie_resource.c) through pcie_host.c, on the simulated endpoint of     *)
(* pcie_sim_host.c.  One step is one configuration access; the host may    *)
(* fail any of them.                                                       *)
(*                                                                         *)
(* Addresses count units of 16 bytes, the flag bits of a memory BAR, and   *)
(* wrap at 2^Width as a uintptr_t does.  A BAR register is its address     *)
(* with the kind its flag bits say; the sizing value 0xFFFFFFFF is Ones.   *)
(***************************************************************************)
EXTENDS Integers, Sequences, FiniteSets

CONSTANTS
  Width,     \* bits of an address, in units
  Boards,    \* boards: [bars : Seq of [kind, size, value], base, cpu, size, main]
  MaxCalls   \* bound: calls of a caller other than lab 19's main

ASSUME BarAssumption ==
  /\ Width \in Nat \ {0} /\ MaxCalls \in Nat
  /\ \A b \in Boards :
       /\ {b.base, b.cpu, b.size} \subseteq 0 .. 2^Width - 1 /\ b.main \in BOOLEAN
       /\ \A i \in DOMAIN b.bars :
            /\ b.bars[i].kind \in {"memory", "memory64", "io", "none"}
            /\ {b.bars[i].size, b.bars[i].value} \subseteq 0 .. 2^Width - 1

VARIABLES
  bar,       \* the endpoint's BARs: [kind, size, value, probing]
  memOn,     \* memory space enable bit of its command register
  window,    \* lab_pcie_resource_window: [base, cpu, size, next]
  record,    \* the caller's lab_pcie_bar_resource per BAR: [size, bus, cpu, kind]
  call,      \* the call that runs: [at, i, original, probe, bus]
  stage,     \* calls made, or Failed
  byMain,    \* the caller is main, which stops at the first error
  allocs,    \* history: ranges [start, size] the window gave out, in order
  faulty     \* history: some access failed

barVars == <<bar, memOn, window, record, call, stage, byMain, allocs, faulty>>

M == 2^Width

\* A word is a natural number: what the proofs need to know of 2^Width.
ASSUME WordAssumption == M \in Nat \ {0}

Ones == M       \* all ones, of the address and of the flag bits
Failed == MaxCalls + 4   \* stage of main after an error
NoCall == [at |-> "none", i |-> 1, original |-> 0, probe |-> 0, bus |-> 0]
Unsized == [size |-> 0, bus |-> 0, cpu |-> 0, kind |-> "none"]

BarInit ==
  /\ bar = <<>> /\ memOn = FALSE /\ record = <<>> /\ call = NoCall
  /\ window = [base |-> 0, cpu |-> 0, size |-> 0, next |-> 0]
  /\ stage = 0 /\ byMain = FALSE /\ allocs = <<>> /\ faulty = FALSE

-----------------------------------------------------------------------------
(* pcie_sim_host.c *)

\* sim_bar_probe_value: the address mask of a BAR of a power of two.
ProbeValue(b) == IF b.size = 0 THEN 0 ELSE M - b.size

\* sim_config_read32 of a BAR.
BarRead(b) ==
  IF b.kind = "none" THEN 0 ELSE IF b.probing THEN ProbeValue(b) ELSE b.value

\* sim_config_write32 of a BAR: the flag bits are read only.
BarWritten(b, value) ==
  IF b.kind = "none" THEN b
  ELSE IF value = Ones THEN [b EXCEPT !.probing = TRUE]
  ELSE [b EXCEPT !.probing = FALSE, !.value = value]

\* lab_pcie_sim_controller_init on a board with these BARs.
Endpoint(bars) ==
  [i \in DOMAIN bars |->
     [kind |-> bars[i].kind, size |-> bars[i].size, value |-> bars[i].value,
      probing |-> FALSE]]

\* board_pcie_init: the endpoint and the window.
BoardInit ==
  /\ bar = <<>> /\ stage # Failed
  /\ \E b \in Boards :
       /\ bar' = Endpoint(b.bars) /\ byMain' = b.main
       /\ record' = [i \in DOMAIN b.bars |-> Unsized]
       /\ window' = [base |-> b.base, cpu |-> b.cpu, size |-> b.size, next |-> b.base]
       /\ stage' = IF b.size = 0 THEN Failed ELSE 0
  /\ UNCHANGED <<memOn, call, allocs, faulty>>

-----------------------------------------------------------------------------
(* pcie_resource.c: the window *)

\* align_up for a power of two, on wrapping words.
AlignUp(value, alignment) ==
  LET v == (value + alignment - 1) % M IN v - (v % alignment)

PowerOfTwo(n) == \E k \in 0 .. Width : n = 2^k

\* With a bug: the end of the range is compared with the limit after wrapping.
AllocWraps(w, size, alignment) ==
  LET start == AlignUp(w.next, alignment)
      limit == (w.base + w.size) % M
  IN IF size = 0 \/ ~PowerOfTwo(alignment) THEN {}
     ELSE IF start < w.base \/ start > limit \/ (start + size) % M > limit THEN {}
     ELSE {start}

\* lab_pcie_resource_alloc: the start of the range, or none.
Alloc(w, size, alignment) ==
  LET start == AlignUp(w.next, alignment)
      limit == (w.base + w.size) % M
  IN IF size = 0 \/ ~PowerOfTwo(alignment) THEN {}
     ELSE IF start < w.base \/ start > limit \/ size > limit - start THEN {}
     ELSE {start}

\* lab_pcie_resource_translate: the CPU address, or none.
Translate(w, addr) ==
  IF addr < w.base \/ addr >= (w.base + w.size) % M THEN {}
  ELSE {(w.cpu + (addr - w.base)) % M}

-----------------------------------------------------------------------------
(* The calls.  Return ends one; main goes on only after LAB_PCIE_OK. *)

Return(result) ==
  /\ call' = NoCall
  /\ stage' = IF byMain /\ result # "OK" THEN Failed ELSE stage + 1

\* An access is answered or fails.
Access(ok) == faulty' = (faulty \/ ~ok)

\* What the caller calls next: main probes, assigns and enables BAR 0 in turn.
Calls(at, i) ==
  /\ bar # <<>> /\ call = NoCall /\ stage # Failed /\ i \in DOMAIN bar
  /\ IF byMain THEN stage < 3 /\ at = <<"probe", "assign", "enable">>[stage + 1] /\ i = 1
     ELSE stage < MaxCalls

\* With a bug: the record keeps the address of an earlier assignment.
ProbeStale(i) ==
  /\ Calls("probe", i)
  /\ \E ok \in BOOLEAN :
       /\ Access(ok)
       /\ IF ~ok THEN Return("ERROR") /\ UNCHANGED record
          ELSE /\ record' = [record EXCEPT ![i].size = 0, ![i].kind = bar[i].kind]
               /\ IF bar[i].kind = "memory64" THEN Return("UNSUPPORTED")
                  ELSE /\ call' = [NoCall EXCEPT !.at = "ones", !.i = i,
                                                 !.original = BarRead(bar[i])]
                       /\ UNCHANGED stage
  /\ UNCHANGED <<bar, memOn, window, byMain, allocs>>

\* lab_pcie_probe_bar32 reads the BAR and clears the record; a 64-bit BAR is left.
Probe(i) ==
  /\ Calls("probe", i)
  /\ \E ok \in BOOLEAN :
       /\ Access(ok)
       /\ IF ~ok THEN Return("ERROR") /\ UNCHANGED record
          ELSE /\ record' = [record EXCEPT ![i] = [Unsized EXCEPT !.kind = bar[i].kind]]
               /\ IF bar[i].kind = "memory64" THEN Return("UNSUPPORTED")
                  ELSE /\ call' = [NoCall EXCEPT !.at = "ones", !.i = i,
                                                 !.original = BarRead(bar[i])]
                       /\ UNCHANGED stage
  /\ UNCHANGED <<bar, memOn, window, byMain, allocs>>

\* It writes all ones ...
ProbeOnes ==
  /\ call.at = "ones"
  /\ \E ok \in BOOLEAN :
       /\ Access(ok)
       /\ IF ok THEN /\ bar' = [bar EXCEPT ![call.i] = BarWritten(@, Ones)]
                     /\ call' = [call EXCEPT !.at = "size"] /\ UNCHANGED stage
          ELSE Return("ERROR") /\ UNCHANGED bar
  /\ UNCHANGED <<memOn, window, record, byMain, allocs>>

\* ... reads the mask ...
ProbeSize ==
  /\ call.at = "size"
  /\ \E ok \in BOOLEAN :
       /\ Access(ok)
       /\ call' = [call EXCEPT !.at = IF ok THEN "restore" ELSE "undo",
                               !.probe = BarRead(bar[call.i])]
  /\ UNCHANGED <<bar, memOn, window, record, stage, byMain, allocs>>

\* ... and writes the BAR back whatever the read returned; that write's own
\* result is dropped, so the call may return OK with the BAR still in sizing mode.
ProbeRestore ==
  /\ call.at \in {"restore", "undo"}
  /\ \E ok \in BOOLEAN :
       /\ Access(ok)
       /\ bar' = IF ok THEN [bar EXCEPT ![call.i] = BarWritten(@, call.original)] ELSE bar
  /\ IF call.at = "undo" THEN Return("ERROR") /\ UNCHANGED record
     ELSE /\ record' = [record EXCEPT ![call.i].size =
                          IF call.probe = 0 THEN 0 ELSE M - call.probe]
          /\ Return("OK")
  /\ UNCHANGED <<memOn, window, byMain, allocs>>

\* lab_pcie_assign_bar32 takes a range: the window has moved on before the write.
Assign(i) ==
  /\ Calls("assign", i)
  /\ LET got == Alloc(window, record[i].size, record[i].size) IN
     IF got = {} \/ \A s \in got : Translate(window, s) = {}
     THEN Return("NO_RESOURCE") /\ UNCHANGED <<window, allocs>>
     ELSE \E start \in got :
            /\ window' = [window EXCEPT !.next = (start + record[i].size) % M]
            /\ allocs' = Append(allocs, [start |-> start, size |-> record[i].size])
            /\ call' = [NoCall EXCEPT !.at = "program", !.i = i, !.bus = start]
            /\ UNCHANGED stage
  /\ UNCHANGED <<bar, memOn, record, byMain, faulty>>

\* It programs the BAR and, if that went well, notes the addresses.
AssignProgram ==
  /\ call.at = "program"
  /\ \E ok \in BOOLEAN :
       /\ Access(ok)
       /\ IF ok THEN /\ bar' = [bar EXCEPT ![call.i] = BarWritten(@, call.bus)]
                     /\ \E cpu \in Translate(window, call.bus) :
                          record' = [record EXCEPT ![call.i].bus = call.bus,
                                                   ![call.i].cpu = cpu]
                     /\ Return("OK")
          ELSE Return("ERROR") /\ UNCHANGED <<bar, record>>
  /\ UNCHANGED <<memOn, window, byMain, allocs>>

\* lab_pcie_enable_memory_space: a read and a write of the command register.
EnableRead ==
  /\ Calls("enable", 1)
  /\ \E ok \in BOOLEAN :
       /\ Access(ok)
       /\ IF ok THEN call' = [NoCall EXCEPT !.at = "enable"] /\ UNCHANGED stage
          ELSE Return("ERROR")
  /\ UNCHANGED <<bar, memOn, window, record, byMain, allocs>>

EnableWrite ==
  /\ call.at = "enable"
  /\ \E ok \in BOOLEAN :
       Access(ok) /\ memOn' = (memOn \/ ok) /\ Return(IF ok THEN "OK" ELSE "ERROR")
  /\ UNCHANGED <<bar, window, record, byMain, allocs>>

BarNext ==
  \/ BoardInit \/ \E i \in DOMAIN bar : Probe(i) \/ Assign(i)
  \/ ProbeOnes \/ ProbeSize \/ ProbeRestore \/ AssignProgram
  \/ EnableRead \/ EnableWrite

BarSpec == BarInit /\ [][BarNext]_barVars

-----------------------------------------------------------------------------
\* Wherever align_up and the window's limit wrap around, the ranges given out lie
\* inside the window, are aligned to their size and follow one another without
\* overlap, a range whose BAR could not be programmed included
\* (pcie_resource.c:38-47, 149-170).  Only for a window at bus address 0 is the check
\* of start against pci_base no guard: there align_up can wrap to 0 and a range be
\* given out twice.
RangesDisjoint ==
  window.base # 0 =>
    /\ \A k \in DOMAIN allocs :
         /\ allocs[k].start >= window.base
         /\ allocs[k].start + allocs[k].size <= window.base + window.size
         /\ allocs[k].start % allocs[k].size = 0
    /\ \A k, l \in DOMAIN allocs :
         k < l => allocs[k].start + allocs[k].size <= allocs[l].start

\* A BAR's address and size were handed out as one range.
Granted(addr, size) == \E k \in DOMAIN allocs : allocs[k] = [start |-> addr, size |-> size]

\* A BAR with a recorded bus address decodes exactly there, in a range of the window
\* of the endpoint's own size that no other BAR has (unless the window starts at 0,
\* see RangesDisjoint), and the CPU address is that of the same offset.  While every
\* access succeeded no BAR is left in sizing mode between calls, and main enables
\* memory only after its BAR (pcie_resource.c:69-176).
BarsDecode ==
  /\ \A i \in DOMAIN bar : record[i].bus # 0 =>
       /\ bar[i].value = record[i].bus /\ ~bar[i].probing
       /\ Granted(record[i].bus, bar[i].size)
       /\ record[i].cpu = (window.cpu + record[i].bus - window.base) % M
       /\ window.base # 0 => \A j \in DOMAIN bar \ {i} : record[j].bus # record[i].bus
  /\ call = NoCall /\ ~faulty => \A i \in DOMAIN bar : ~bar[i].probing
  /\ byMain /\ memOn => Granted(bar[1].value, bar[1].size)
=============================================================================
