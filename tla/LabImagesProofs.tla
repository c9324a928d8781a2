--------------------------- MODULE LabImagesProofs ---------------------------
(***************************************************************************)
(* Proofs about the small labs of module LabImages, each for every value   *)
(* of its constants.                                                       *)
(*                                                                         *)
(* Lab 19, BarResource: for addresses of any width, any boards and any     *)
(* number of calls, the ranges given out never overlap, although the next  *)
(* free address and the window's limit both wrap around.  A range is given *)
(* out only when the limit has not wrapped around, and the next free       *)
(* address then lies at the end of the last range.  align_up either moves  *)
(* on from there, or wraps around to 0, which is refused as long as the    *)
(* window does not start at 0.  That a recorded address is what the BAR    *)
(* decodes (DecodeInv) needs that a BAR being sized has none (InProbe),    *)
(* that the range about to be programmed is no other BAR's (InAssign), and *)
(* where main is (MainRuns).                                               *)
(*                                                                         *)
(* Lab 21, RegUpdate: an update is as good as one step because the         *)
(* register is still what reg_update_byte read when it writes (Fresh).     *)
(* Where a run ends follows from how the register relates to its original  *)
(* value at each stage of main, as long as the sensor changes nothing      *)
(* (Undisturbed).                                                          *)
(*                                                                         *)
(* Lab 16, Ssp: what a transfer has read and what the FIFOs still hold is  *)
(* what they held when it was called and then what it sent, as long as     *)
(* that fits (Queueing); the FIFOs hold a byte for every answer that came  *)
(* late (LateHeld).                                                        *)
(*                                                                         *)
(* Lab 18, PcieEnum: the table holds exactly the visible functions before  *)
(* the place the scan has reached (Progress), so that it holds all of them *)
(* once the scan has passed the last device.                               *)
(*                                                                         *)
(* Labs 10 to 12, UartEcho: every step moves a byte along Stream or leaves *)
(* it alone, but for one that comes (at its end) and one that is dropped   *)
(* (the overrun or the full ring).  That needs where the handler and main  *)
(* can be and what they have in hand there (EchoPlace), and how much of    *)
(* the banner is out (Greets); the ring is the queue RingOf, a push puts a *)
(* byte behind the others (RingPush) and a pop takes the first (RingPop).  *)
(*                                                                         *)
(* Lab 15, SpiBitbang: a bit is heard on both sides in every mode          *)
(* (BitSent), so that after each bit of a transfer both have what was sent *)
(* so far (Sofar).  That is followed through the loops over the bits and   *)
(* the bytes, which LoopDefined and StretchInduction turn into sequences   *)
(* of targets.                                                             *)
(***************************************************************************)
EXTENDS LabImages, SequenceTheorems, FiniteSetTheorems, NaturalsInduction,
        WellFoundedInduction, TLAPS

-----------------------------------------------------------------------------
(* Lab 19: the resource window. *)

Words == 0 .. M - 1
Kinds == {"memory", "memory64", "io", "none"}
BarRegisters == [kind : Kinds, size : Words, value : 0 .. M, probing : BOOLEAN]
BarRecords == [size : 0 .. M, bus : Words, cpu : Words, kind : Kinds]
CallStates == [at : {"none", "ones", "size", "restore", "undo", "program", "enable"},
               i : {1} \cup DOMAIN bar, original : 0 .. M, probe : 0 .. M, bus : Words]

WindowTyped == window \in [base : Words, cpu : Words, size : Words, next : Words]

EndpointTyped ==
  /\ bar \in [DOMAIN bar -> BarRegisters]
  /\ record \in [DOMAIN bar -> BarRecords]

CallTyped ==
  /\ call \in CallStates
  /\ call.at \in {"ones", "size", "restore", "undo", "program"} => call.i \in DOMAIN bar

AllocsTyped ==
  /\ allocs \in Seq([start : Words, size : 1 .. M])
  /\ DOMAIN bar = {} => allocs = <<>> /\ call.at = "none"

\* The next free address is the end of everything given out.
Packed ==
  window.base # 0 =>
    /\ window.base <= window.next
    /\ \A k \in DOMAIN allocs : allocs[k].start + allocs[k].size <= window.next

Typed == WindowTyped /\ EndpointTyped /\ CallTyped /\ AllocsTyped

BarInv == Typed /\ Packed /\ RangesDisjoint

-----------------------------------------------------------------------------
(* Arithmetic of words. *)

\* The remainders that scaled addresses meet.
LEMMA ModRange == \A v \in Nat, a \in Nat \ {0} : v % a \in 0 .. a - 1 /\ v % a <= v
BY SMT

\* A value below the modulus is its own remainder ...
LEMMA ModSmall == \A v \in Nat, a \in Nat \ {0} : v < a => v % a = v
BY SMT

\* ... and one that wraps around once leaves the rest.
LEMMA ModWrap == \A v \in Nat, a \in Nat \ {0} : a <= v /\ v < a + a => v % a = v - a
BY SMT

\* Dropping the remainder leaves a multiple.
LEMMA ModAligned ==
  ASSUME NEW v \in Nat, NEW a \in Nat \ {0}
  PROVE  (v - (v % a)) % a = 0
<1>1. v - (v % a) = a * (v \div a) /\ v \div a \in Nat
  BY SMT
<1>2. \A q \in Nat : (a * q) % a = 0
  BY SMT
<1> QED
  BY <1>1, <1>2

\* What a sequence holds.
LEMMA SeqElements ==
  ASSUME NEW S, NEW s \in Seq(S)
  PROVE  \A k \in DOMAIN s : s[k] \in S
BY SMT

\* align_up goes up to a multiple, or around to 0.
LEMMA AlignUpFacts ==
  ASSUME NEW value \in Words, NEW a \in 1 .. M
  PROVE  /\ AlignUp(value, a) \in Words
         /\ AlignUp(value, a) % a = 0
         /\ AlignUp(value, a) >= value \/ AlignUp(value, a) = 0
<1> DEFINE v == (value + a - 1) % M
<1>1. /\ M \in Nat \ {0} /\ a \in Nat \ {0} /\ value \in Nat
      /\ value + a - 1 \in Nat /\ value + a - 1 < M + M
  BY WordAssumption DEF Words
<1>2. v \in 0 .. M - 1
  BY <1>1, ModRange
<1>3. v % a \in 0 .. a - 1 /\ v % a <= v /\ (v - (v % a)) % a = 0
  <2>1. v \in Nat
    BY <1>1, <1>2
  <2> HIDE DEF v
  <2> QED
    BY <1>1, <2>1, ModRange, ModAligned
<1>4. CASE value + a - 1 < M
  <2>1. v = value + a - 1
    BY <1>1, <1>4, ModSmall
  <2> QED
    BY <1>1, <1>2, <1>3, <2>1 DEF AlignUp, Words
<1>5. CASE M <= value + a - 1
  <2>1. v = value + a - 1 - M
    <3>1. \A w \in Nat : M <= w /\ w < M + M => w % M = w - M
      BY <1>1, ModWrap
    <3> QED
      BY <1>1, <1>5, <3>1
  <2>2. v < a
    BY <1>1, <2>1 DEF Words
  <2>3. v % a = v
    <3> HIDE DEF v
    <3> QED
      BY <1>1, <1>2, <2>2, ModSmall
  <2> QED
    BY <1>1, <1>2, <1>3, <2>3 DEF AlignUp, Words
<1> QED
  BY <1>1, <1>4, <1>5

\* What lab_pcie_resource_alloc gives out.
LEMMA AllocFacts ==
  ASSUME WindowTyped, NEW size \in 0 .. M, NEW start \in Alloc(window, size, size)
  PROVE  /\ size \in 1 .. M /\ start \in Words /\ start % size = 0
         /\ start >= window.next \/ start = 0
         /\ window.base <= start
         /\ (start + size) % M \in Words
         /\ window.base # 0 =>
              /\ start + size <= window.base + window.size
              /\ (start + size) % M = start + size
<1> DEFINE limit == (window.base + window.size) % M
<1>1. /\ M \in Nat \ {0} /\ window.base \in Words /\ window.size \in Words
      /\ window.next \in Words
  BY WordAssumption DEF WindowTyped
<1>2. /\ size # 0 /\ start = AlignUp(window.next, size)
      /\ ~(start < window.base) /\ ~(start > limit) /\ ~(size > limit - start)
  BY DEF Alloc
<1>3. size \in 1 .. M
  BY <1>1, <1>2
<1>4. /\ start \in Words /\ start % size = 0
      /\ start >= window.next \/ start = 0
  BY <1>1, <1>2, <1>3, AlignUpFacts
<1>5. window.base + window.size \in Nat /\ window.base + window.size < M + M
  BY <1>1 DEF Words
<1>6. limit \in 0 .. M - 1
  BY <1>1, <1>5, ModRange
<1>7. start + size \in Nat /\ start + size <= limit
  BY <1>2, <1>3, <1>4, <1>6 DEF Words
<1>8. (start + size) % M \in Words
  BY <1>1, <1>7, ModRange DEF Words
<1>9. (start + size) % M = start + size
  <2>1. start + size < M
    BY <1>1, <1>6, <1>7
  <2> QED
    BY <1>1, <1>7, <2>1, ModSmall
<1>10. ASSUME window.base # 0
       PROVE  start + size <= window.base + window.size
  <2>1. CASE window.base + window.size < M
    BY <1>1, <1>5, <1>7, <2>1, ModSmall
  <2>2. CASE M <= window.base + window.size
    <3>1. limit = window.base + window.size - M
      <4> DEFINE w == window.base + window.size
      <4>1. w \in Nat /\ M <= w /\ w < M + M
        BY <1>5, <2>2
      <4>2. w % M = w - M
        <5> HIDE DEF w
        <5> QED
          BY <1>1, <4>1, ModWrap
      <4> QED
        BY <1>1, <4>2 DEF Words
    <3>2. limit < window.base
      BY <1>1, <3>1 DEF Words
    <3> QED
      BY <1>1, <1>2, <1>4, <1>6, <3>2 DEF Words
  <2> QED
    BY <1>1, <1>5, <2>1, <2>2
<1>11. window.base <= start
  BY <1>1, <1>2, <1>4 DEF Words
<1> QED
  BY <1>3, <1>4, <1>8, <1>9, <1>10, <1>11

-----------------------------------------------------------------------------
(* The endpoint's registers. *)

\* What a BAR reads as, and what a write leaves in it, stay in range.
LEMMA RegisterFacts ==
  ASSUME NEW b \in BarRegisters
  PROVE  /\ BarRead(b) \in 0 .. M
         /\ \A value \in 0 .. M : BarWritten(b, value) \in BarRegisters
<1>1. M \in Nat \ {0} /\ b.size \in 0 .. M /\ b.value \in 0 .. M /\ b.size \in Nat
  BY WordAssumption DEF BarRegisters, Words
<1>2. BarRead(b) \in 0 .. M
  BY <1>1 DEF BarRead, ProbeValue
<1>3. ASSUME NEW value \in 0 .. M
      PROVE  BarWritten(b, value) \in BarRegisters
  BY <1>1 DEF BarWritten, BarRegisters, Ones
<1> QED
  BY <1>2, <1>3

\* The record of no call is one of a call's.
LEMMA NoCallTyped == NoCall \in CallStates /\ NoCall.at = "none" /\ NoCall.i = 1
BY WordAssumption DEF NoCall, CallStates, Words

\* A call that begins, with what it has read so far or the range it took.
LEMMA CallSet ==
  ASSUME NEW i \in DOMAIN bar, NEW found \in 0 .. M, NEW start \in Words
  PROVE  /\ [NoCall EXCEPT !.at = "ones", !.i = i, !.original = found] \in CallStates
         /\ [NoCall EXCEPT !.at = "program", !.i = i, !.bus = start] \in CallStates
         /\ [NoCall EXCEPT !.at = "enable"] \in CallStates
<1>1. 0 \in Words /\ 0 \in 0 .. M
  BY WordAssumption DEF Words
<1>2. NoCall \in CallStates
  BY NoCallTyped
<1> HIDE DEF NoCall
<1>3. [NoCall EXCEPT !.at = "ones", !.i = i, !.original = found] \in CallStates
  BY <1>1, <1>2 DEF CallStates
<1>4. [NoCall EXCEPT !.at = "program", !.i = i, !.bus = start] \in CallStates
  BY <1>1, <1>2 DEF CallStates
<1>5. [NoCall EXCEPT !.at = "enable"] \in CallStates
  BY <1>1, <1>2 DEF CallStates
<1> QED
  BY <1>3, <1>4, <1>5

-----------------------------------------------------------------------------
(* One lemma per call, with its accesses. *)

\* Steps of a board that has started and that give no range out.
LEMMA WindowKept ==
  ASSUME BarInv, UNCHANGED <<window, allocs>>, DOMAIN bar # {}, DOMAIN bar' = DOMAIN bar,
         EndpointTyped', CallTyped'
  PROVE  BarInv'
BY DEF BarInv, Typed, Packed, RangesDisjoint, WindowTyped, AllocsTyped

\* A board starts with an empty window.
LEMMA BoardInitStep ==
  ASSUME BarInv, BoardInit
  PROVE  BarInv'
<1>1. allocs = <<>> /\ allocs' = <<>> /\ call' = call /\ call.at = "none"
  BY DEF BarInv, Typed, AllocsTyped, BoardInit
<1>2. PICK b \in Boards :
        /\ bar' = Endpoint(b.bars)
        /\ record' = [i \in DOMAIN b.bars |-> Unsized]
        /\ window' = [base |-> b.base, cpu |-> b.cpu, size |-> b.size, next |-> b.base]
  BY DEF BoardInit
<1>3. /\ {b.base, b.cpu, b.size} \subseteq Words
      /\ \A i \in DOMAIN b.bars :
           b.bars[i].kind \in Kinds /\ {b.bars[i].size, b.bars[i].value} \subseteq Words
  BY BarAssumption DEF BarAssumption, Words, Kinds, M
<1>4. WindowTyped'
  BY <1>2, <1>3 DEF WindowTyped
<1>5. EndpointTyped'
  <2>1. DOMAIN bar' = DOMAIN b.bars
    BY <1>2 DEF Endpoint
  <2>2. Unsized \in BarRecords
    BY WordAssumption DEF Unsized, BarRecords, Words, Kinds
  <2>3. \A i \in DOMAIN b.bars : Endpoint(b.bars)[i] \in BarRegisters
    BY <1>3, WordAssumption DEF Endpoint, BarRegisters, Words
  <2> QED
    BY <1>2, <2>1, <2>2, <2>3 DEF EndpointTyped, Endpoint
<1>6. CallTyped' /\ AllocsTyped'
  <2>1. DOMAIN bar = {}
    BY DEF BoardInit
  <2>2. call' \in CallStates'
    BY <1>1, <2>1 DEF BarInv, Typed, CallTyped, CallStates
  <2>3. allocs' \in Seq([start : Words, size : 1 .. M])
    BY <1>1
  <2> QED
    BY <1>1, <2>2, <2>3 DEF CallTyped, AllocsTyped
<1>7. Packed' /\ RangesDisjoint'
  BY <1>1, <1>2, <1>3, WordAssumption DEF Packed, RangesDisjoint, Words
<1> QED
  BY <1>4, <1>5, <1>6, <1>7 DEF BarInv, Typed

\* lab_pcie_probe_bar32.
LEMMA ProbeStep ==
  ASSUME BarInv,
         (\E i \in DOMAIN bar : Probe(i)) \/ ProbeOnes \/ ProbeSize \/ ProbeRestore
  PROVE  BarInv'
<1> USE DEF BarInv, Typed, CallTyped, EndpointTyped
<1>0. M \in Nat \ {0} /\ 0 \in Words /\ Ones \in 0 .. M
  BY WordAssumption DEF Words, Ones
<1>1. ASSUME NEW i \in DOMAIN bar, Probe(i)
      PROVE  BarInv'
  <2>1. record' \in [DOMAIN bar -> BarRecords]
    <3>1. bar[i].kind \in Kinds
      BY DEF BarRegisters
    <3>2. [Unsized EXCEPT !.kind = bar[i].kind] \in BarRecords
      BY <1>0, <3>1 DEF Unsized, BarRecords
    <3> QED
      BY <1>1, <3>2 DEF Probe
  <2>2. CallTyped'
    <3>1. BarRead(bar[i]) \in 0 .. M
      BY RegisterFacts
    <3>2. [NoCall EXCEPT !.at = "ones", !.i = i, !.original = BarRead(bar[i])] \in CallStates
      BY <1>0, <3>1, CallSet
    <3> QED
      BY <1>1, <3>2, NoCallTyped DEF Probe, Return, NoCall, CallStates
  <2> QED
    BY <1>1, <2>1, <2>2, WindowKept DEF Probe
<1>2. ASSUME ProbeOnes
      PROVE  BarInv'
  <2>1. BarWritten(bar[call.i], Ones) \in BarRegisters /\ call.i \in DOMAIN bar
    BY <1>0, <1>2, RegisterFacts DEF ProbeOnes
  <2>2. bar' \in [DOMAIN bar -> BarRegisters] /\ DOMAIN bar' = DOMAIN bar
    BY <1>2, <2>1 DEF ProbeOnes
  <2>3. CallTyped'
    BY <1>2, <2>1, <2>2, NoCallTyped DEF ProbeOnes, Return, CallStates
  <2> QED
    BY <1>2, <2>1, <2>2, <2>3, WindowKept DEF ProbeOnes
<1>3. ASSUME ProbeSize
      PROVE  BarInv'
  <2>1. BarRead(bar[call.i]) \in 0 .. M /\ call.i \in DOMAIN bar
    BY <1>3, RegisterFacts DEF ProbeSize
  <2>2. CallTyped'
    BY <1>3, <2>1 DEF ProbeSize, CallStates
  <2> QED
    BY <1>3, <2>1, <2>2, WindowKept DEF ProbeSize
<1>4. ASSUME ProbeRestore
      PROVE  BarInv'
  <2>1. call.i \in DOMAIN bar /\ call.original \in 0 .. M /\ call.probe \in 0 .. M
    BY <1>4 DEF ProbeRestore, CallStates
  <2>2. bar' \in [DOMAIN bar -> BarRegisters] /\ DOMAIN bar' = DOMAIN bar
    <3>1. BarWritten(bar[call.i], call.original) \in BarRegisters
      BY <2>1, RegisterFacts
    <3> QED
      BY <1>4, <2>1, <3>1 DEF ProbeRestore
  <2>3. record' \in [DOMAIN bar -> BarRecords]
    <3>1. (IF call.probe = 0 THEN 0 ELSE M - call.probe) \in 0 .. M
      BY <1>0, <2>1
    <3> QED
      BY <1>4, <2>1, <3>1 DEF ProbeRestore, BarRecords
  <2>4. CallTyped'
    BY <1>4, <2>2, NoCallTyped DEF ProbeRestore, Return, CallStates
  <2> QED
    BY <1>4, <2>1, <2>2, <2>3, <2>4, WindowKept DEF ProbeRestore
<1> QED
  BY <1>1, <1>2, <1>3, <1>4

\* lab_pcie_assign_bar32 up to the write: the range it takes lies behind all others.
LEMMA AssignStep ==
  ASSUME BarInv, NEW i \in DOMAIN bar, Assign(i)
  PROVE  BarInv'
<1> DEFINE size == record[i].size
<1> DEFINE got == Alloc(window, size, size)
<1>1. WindowTyped /\ EndpointTyped /\ CallTyped /\ AllocsTyped /\ Packed /\ RangesDisjoint
  BY DEF BarInv, Typed
<1>2. size \in 0 .. M
  BY <1>1 DEF EndpointTyped, BarRecords
<1>3. bar' = bar /\ record' = record /\ DOMAIN bar # {}
  BY DEF Assign
<1>4. EndpointTyped'
  BY <1>1, <1>3 DEF EndpointTyped
<1>5. CASE UNCHANGED <<window, allocs>> /\ call' = NoCall
  <2>1. CallTyped'
    BY <1>3, <1>5, NoCallTyped DEF CallTyped, CallStates
  <2> QED
    BY <1>3, <1>4, <1>5, <2>1, WindowKept
<1>6. ASSUME NEW start \in got,
             window' = [window EXCEPT !.next = (start + size) % M],
             allocs' = Append(allocs, [start |-> start, size |-> size]),
             call' = [NoCall EXCEPT !.at = "program", !.i = i, !.bus = start]
      PROVE  BarInv'
  <2>1. /\ size \in 1 .. M /\ start \in Words /\ start % size = 0
        /\ start >= window.next \/ start = 0
        /\ window.base <= start
        /\ (start + size) % M \in Words
        /\ window.base # 0 => /\ start + size <= window.base + window.size
                              /\ (start + size) % M = start + size
    BY <1>1, <1>2, AllocFacts
  <2> DEFINE range == [start |-> start, size |-> size]
  <2>2. range \in [start : Words, size : 1 .. M]
    BY <2>1
  <2>3. WindowTyped'
    BY <1>1, <1>6, <2>1 DEF WindowTyped
  <2>4. CallTyped'
    <3>1. call' \in CallStates /\ call'.i = i
      <4>1. 0 \in 0 .. M
        BY WordAssumption
      <4>2. call' \in CallStates
        BY <1>6, <2>1, <4>1, CallSet
      <4> QED
        BY <1>6, <4>2 DEF NoCall
    <3> QED
      BY <1>3, <3>1 DEF CallTyped, CallStates
  <2>5. AllocsTyped'
    BY <1>1, <1>3, <1>6, <2>2 DEF AllocsTyped
  <2>6. /\ Len(allocs) \in Nat /\ DOMAIN allocs = 1 .. Len(allocs)
        /\ DOMAIN allocs' = 1 .. Len(allocs) + 1
        /\ \A k \in DOMAIN allocs : allocs'[k] = allocs[k]
        /\ allocs'[Len(allocs) + 1] = range
    BY <1>1, <1>6, <2>2 DEF AllocsTyped
  <2>7. \A k \in DOMAIN allocs : allocs[k].start \in Words /\ allocs[k].size \in 1 .. M
    <3>1. allocs \in Seq([start : Words, size : 1 .. M])
      BY <1>1 DEF AllocsTyped
    <3>2. \A k \in DOMAIN allocs : allocs[k] \in [start : Words, size : 1 .. M]
      BY <3>1, SeqElements
    <3> QED
      BY <3>2
  <2>8. ASSUME window.base # 0
        PROVE  \A k \in DOMAIN allocs : allocs[k].start + allocs[k].size <= start
    <3>1. window.base \in Words /\ window.next \in Words
      BY <1>1 DEF WindowTyped
    <3>2. start >= window.next
      BY <2>1, <2>8, <3>1, WordAssumption DEF Words
    <3>3. \A k \in DOMAIN allocs : allocs[k].start + allocs[k].size <= window.next
      BY <1>1, <2>8 DEF Packed
    <3> QED
      BY <2>1, <2>7, <3>1, <3>2, <3>3, WordAssumption DEF Words
  <2>9. /\ window'.base = window.base /\ window'.size = window.size
        /\ window'.next = (start + size) % M
    BY <1>1, <1>6 DEF WindowTyped
  <2>10. range.start = start /\ range.size = size
    OBVIOUS
  <2> HIDE DEF size, got, range
  <2>11. Packed'
    <3>1. ASSUME window.base # 0
          PROVE  /\ window.base <= start + size
                 /\ \A k \in DOMAIN allocs : allocs[k].start + allocs[k].size <= start + size
      <4>1. window.base \in Int /\ start \in Int /\ size \in Int /\ size >= 1
        BY <1>1, <2>1, WordAssumption DEF WindowTyped, Words
      <4> QED
        BY <2>1, <2>7, <2>8, <3>1, <4>1, WordAssumption DEF Words
    <3>2. ASSUME window.base # 0, NEW k \in DOMAIN allocs'
          PROVE  allocs'[k].start + allocs'[k].size <= start + size
      <4>1. CASE k \in DOMAIN allocs
        BY <2>6, <3>1, <3>2, <4>1
      <4>2. CASE k = Len(allocs) + 1
        <5>1. start \in Int /\ size \in Int
          BY <2>1, WordAssumption DEF Words
        <5>2. allocs'[k].start = start /\ allocs'[k].size = size
          BY <2>6, <2>10, <4>2
        <5> QED
          BY <5>1, <5>2
      <4> QED
        BY <2>6, <3>2, <4>1, <4>2
    <3> QED
      BY <2>1, <2>9, <3>1, <3>2 DEF Packed
  <2>12. RangesDisjoint'
    <3>1. ASSUME window.base # 0, NEW k \in DOMAIN allocs'
          PROVE  /\ allocs'[k].start >= window.base
                 /\ allocs'[k].start + allocs'[k].size <= window.base + window.size
                 /\ allocs'[k].start % allocs'[k].size = 0
      <4>1. CASE k \in DOMAIN allocs
        BY <1>1, <2>6, <3>1, <4>1 DEF RangesDisjoint
      <4>2. CASE k = Len(allocs) + 1
        <5>1. start >= window.base
          BY <1>1, <2>1, WordAssumption DEF WindowTyped, Words
        <5> QED
          BY <2>1, <2>6, <2>10, <3>1, <4>2, <5>1
      <4> QED
        BY <2>6, <3>1, <4>1, <4>2
    <3>2. ASSUME window.base # 0, NEW k \in DOMAIN allocs', NEW l \in DOMAIN allocs', k < l
          PROVE  allocs'[k].start + allocs'[k].size <= allocs'[l].start
      <4>1. k \in DOMAIN allocs
        BY <2>6, <3>2
      <4>2. CASE l \in DOMAIN allocs
        BY <1>1, <2>6, <3>2, <4>1, <4>2 DEF RangesDisjoint
      <4>3. CASE l = Len(allocs) + 1
        BY <2>6, <2>8, <2>10, <3>2, <4>1, <4>3
      <4> QED
        BY <2>6, <3>2, <4>2, <4>3
    <3> QED
      BY <2>9, <3>1, <3>2 DEF RangesDisjoint
  <2> QED
    BY <1>4, <2>3, <2>4, <2>5, <2>11, <2>12 DEF BarInv, Typed
<1> QED
  BY <1>5, <1>6 DEF Assign, Return

\* lab_pcie_assign_bar32's write, and lab_pcie_enable_memory_space.
LEMMA ProgramStep ==
  ASSUME BarInv, AssignProgram \/ EnableRead \/ EnableWrite
  PROVE  BarInv'
<1>0. WindowTyped /\ EndpointTyped /\ CallTyped /\ AllocsTyped
  BY DEF BarInv, Typed
<1>1. CASE AssignProgram
  <2>1. call.i \in DOMAIN bar /\ call.bus \in Words /\ call.bus \in 0 .. M
    BY <1>0, <1>1, WordAssumption DEF AssignProgram, CallTyped, CallStates, Words
  <2>2. bar' \in [DOMAIN bar -> BarRegisters] /\ DOMAIN bar' = DOMAIN bar
    <3>1. BarWritten(bar[call.i], call.bus) \in BarRegisters
      BY <1>0, <2>1, RegisterFacts DEF EndpointTyped
    <3> QED
      BY <1>0, <1>1, <2>1, <3>1 DEF AssignProgram, EndpointTyped
  <2>3. \A cpu \in Translate(window, call.bus) : cpu \in Words
    <3>1. /\ M \in Nat \ {0} /\ window.base \in Words /\ window.cpu \in Words
      BY <1>0, WordAssumption DEF WindowTyped
    <3>2. ~(call.bus < window.base) => window.cpu + (call.bus - window.base) \in Nat
      BY <2>1, <3>1 DEF Words
    <3>3. ~(call.bus < window.base) =>
            (window.cpu + (call.bus - window.base)) % M \in Words
      BY <3>1, <3>2, ModRange DEF Words
    <3> QED
      BY <3>3 DEF Translate
  <2>4. record' \in [DOMAIN bar -> BarRecords]
    <3>1. ASSUME NEW cpu \in Words
          PROVE  [record EXCEPT ![call.i].bus = call.bus, ![call.i].cpu = cpu]
                   \in [DOMAIN bar -> BarRecords]
      BY <1>0, <2>1, <3>1 DEF EndpointTyped, BarRecords
    <3>2. record \in [DOMAIN bar -> BarRecords]
      BY <1>0 DEF EndpointTyped
    <3>3. \/ record' = record
          \/ \E cpu \in Translate(window, call.bus) :
               record' = [record EXCEPT ![call.i].bus = call.bus, ![call.i].cpu = cpu]
      BY <1>1, ZenonT(30) DEF AssignProgram
    <3>4. CASE record' = record
      BY <3>2, <3>4
    <3>5. ASSUME NEW cpu \in Translate(window, call.bus),
                 record' = [record EXCEPT ![call.i].bus = call.bus, ![call.i].cpu = cpu]
          PROVE  record' \in [DOMAIN bar -> BarRecords]
      <4>1. cpu \in Words
        BY <2>3, <3>5
      <4> QED
        BY <3>1, <3>5, <4>1
    <3> QED
      BY <3>3, <3>4, <3>5
  <2>5. CallTyped'
    BY <1>1, <2>2, NoCallTyped DEF AssignProgram, Return, CallTyped, CallStates
  <2>6. EndpointTyped'
    BY <2>2, <2>4 DEF EndpointTyped
  <2> QED
    BY <1>1, <2>1, <2>2, <2>5, <2>6, WindowKept DEF AssignProgram
<1>2. CASE EnableRead
  <2>1. 1 \in DOMAIN bar /\ 0 \in Words /\ 0 \in 0 .. M
    BY <1>2, WordAssumption DEF EnableRead, Calls, Words
  <2>2. CallTyped'
    <3>1. call' \in CallStates /\ call'.at \in {"none", "enable"}
      BY <1>2, <2>1, NoCallTyped, CallSet DEF EnableRead, Return, NoCall
    <3> QED
      BY <1>2, <3>1 DEF EnableRead, CallTyped, CallStates
  <2>3. EndpointTyped'
    BY <1>0, <1>2 DEF EnableRead, EndpointTyped
  <2> QED
    BY <1>2, <2>1, <2>2, <2>3, WindowKept DEF EnableRead
<1>3. CASE EnableWrite
  <2>1. CallTyped'
    BY <1>3, NoCallTyped DEF EnableWrite, Return, CallTyped, CallStates
  <2>2. EndpointTyped'
    BY <1>0, <1>3 DEF EnableWrite, EndpointTyped
  <2>3. DOMAIN bar # {}
    BY <1>0, <1>3 DEF EnableWrite, AllocsTyped
  <2> QED
    BY <1>3, <2>1, <2>2, <2>3, WindowKept DEF EnableWrite
<1> QED
  BY <1>1, <1>2, <1>3

-----------------------------------------------------------------------------

\* It holds before a board is there ...
LEMMA BarInitial == BarInit => BarInv
<1> SUFFICES ASSUME BarInit
             PROVE  BarInv
  OBVIOUS
<1>1. M \in Nat \ {0} /\ 0 \in Words
  BY WordAssumption DEF Words
<1>2. WindowTyped
  BY <1>1 DEF BarInit, WindowTyped
<1>3. EndpointTyped /\ DOMAIN bar = {}
  BY DEF BarInit, EndpointTyped
<1>4. CallTyped
  BY NoCallTyped DEF BarInit, CallTyped
<1>5. allocs = <<>> /\ call.at = "none" /\ window.base = 0
  BY NoCallTyped DEF BarInit
<1> QED
  BY <1>2, <1>3, <1>4, <1>5 DEF BarInv, Typed, AllocsTyped, Packed, RangesDisjoint

\* ... and every access keeps it.
LEMMA BarInvariance == BarInv /\ [BarNext]_barVars => BarInv'
<1> SUFFICES ASSUME BarInv, [BarNext]_barVars
             PROVE  BarInv'
  OBVIOUS
<1>1. CASE BoardInit
  BY <1>1, BoardInitStep
<1>2. CASE (\E i \in DOMAIN bar : Probe(i)) \/ ProbeOnes \/ ProbeSize \/ ProbeRestore
  BY <1>2, ProbeStep
<1>3. CASE \E i \in DOMAIN bar : Assign(i)
  BY <1>3, AssignStep
<1>4. CASE AssignProgram \/ EnableRead \/ EnableWrite
  BY <1>4, ProgramStep
<1>5. CASE UNCHANGED barVars
  BY <1>5 DEF barVars, BarInv, Typed, WindowTyped, EndpointTyped, CallTyped, CallStates,
              AllocsTyped, Packed, RangesDisjoint
<1> QED
  BY <1>1, <1>2, <1>3, <1>4, <1>5 DEF BarNext

\* The window never gives a piece of the address space out twice
\* (pcie_resource.c:6-50, 136-176).
THEOREM RangesNeverOverlap == BarSpec => []RangesDisjoint
<1>1. BarInv => RangesDisjoint
  BY DEF BarInv
<1> QED
  BY <1>1, BarInitial, BarInvariance, PTL DEF BarSpec

-----------------------------------------------------------------------------
(* Lab 19: what the BARs decode. *)

\* What the endpoint's BARs and the caller's records agree on.
Sizes ==
  \A i \in DOMAIN bar :
    /\ bar[i].value \in Words
    /\ bar[i].kind = "none" => ~bar[i].probing
    /\ record[i].size # 0 => record[i].size = bar[i].size /\ bar[i].kind # "none"

Decoded ==
  \A i \in DOMAIN bar : record[i].bus # 0 =>
    /\ bar[i].value = record[i].bus /\ ~bar[i].probing
    /\ Granted(record[i].bus, bar[i].size)
    /\ record[i].cpu = (window.cpu + (record[i].bus - window.base)) % M

Distinct ==
  window.base # 0 =>
    \A i \in DOMAIN bar : record[i].bus # 0 =>
      \A j \in DOMAIN bar \ {i} : record[j].bus # record[i].bus

\* A BAR that is being sized has no address on record.
InProbe ==
  /\ call.at \in {"ones", "size", "restore", "undo"} =>
       record[call.i].bus = 0 /\ call.original \in Words
  /\ call.at = "size" => bar[call.i].probing \/ bar[call.i].kind = "none"
  /\ call.at = "restore" /\ call.probe # 0 =>
       M - call.probe = bar[call.i].size /\ bar[call.i].kind # "none"

\* The range a BAR is about to get is its own.
InAssign ==
  call.at = "program" =>
    /\ bar[call.i].kind # "none" /\ Granted(call.bus, bar[call.i].size)
    /\ window.base # 0 => \A j \in DOMAIN bar : record[j].bus # 0 => record[j].bus # call.bus

\* Only a failed access leaves a BAR in sizing mode.
Sizing ==
  ~faulty => \A i \in DOMAIN bar :
    bar[i].probing => call.at \in {"size", "restore"} /\ call.i = i

\* How far main is.
MainRuns ==
  /\ DOMAIN bar = {} => ~memOn
  /\ byMain /\ DOMAIN bar # {} =>
       /\ call.at \in {"ones", "size", "restore", "undo"} => stage = 0 /\ call.i = 1
       /\ call.at = "program" => stage = 1 /\ call.i = 1
       /\ call.at = "enable" => stage = 2
       /\ stage \in {2, 3} => Granted(bar[1].value, bar[1].size)
       /\ stage \in 0 .. 3 \cup {Failed}
       /\ memOn => stage = 3

DecodeInv == Sizes /\ Decoded /\ Distinct /\ InProbe /\ InAssign /\ Sizing /\ MainRuns

\* What is known of the endpoint before a step, and of the call that runs.
LEMMA BarState ==
  ASSUME BarInv
  PROVE  /\ bar \in [DOMAIN bar -> BarRegisters] /\ record \in [DOMAIN bar -> BarRecords]
         /\ call.at \in {"ones", "size", "restore", "undo", "program"} => call.i \in DOMAIN bar
         /\ call.at \in {"none", "ones", "size", "restore", "undo", "program", "enable"}
         /\ call.bus \in Words /\ M \in Nat \ {0} /\ 0 \in Words /\ 1 \in Nat
         /\ Failed \notin 0 .. 3
         /\ DOMAIN bar = {} => call.at = "none"
         /\ call \in [at : {"none", "ones", "size", "restore", "undo", "program", "enable"},
                      i : {1} \cup DOMAIN bar, original : 0 .. M, probe : 0 .. M, bus : Words]
<1>1. M \in Nat \ {0} /\ 0 \in Words /\ Failed \notin 0 .. 3
  BY WordAssumption, BarAssumption DEF BarAssumption, Words, Failed
<1> QED
  BY <1>1 DEF BarInv, Typed, EndpointTyped, CallTyped, CallStates, AllocsTyped

\* A BAR that was written: with all ones, it answers with its size from then on.
LEMMA BarFacts ==
  ASSUME NEW b \in BarRegisters, NEW v \in Words
  PROVE  /\ BarWritten(b, v).kind = b.kind /\ BarWritten(b, v).size = b.size
         /\ b.kind = "none" => BarWritten(b, v) = b
         /\ b.kind # "none" => BarWritten(b, v).value = v /\ ~BarWritten(b, v).probing
         /\ BarWritten(b, Ones).kind = b.kind /\ BarWritten(b, Ones).size = b.size
         /\ BarWritten(b, Ones).value = b.value
         /\ b.kind = "none" => BarWritten(b, Ones) = b
         /\ b.kind # "none" => BarWritten(b, Ones).probing
<1>1. v # Ones
  BY WordAssumption DEF Words, Ones
<1> QED
  BY <1>1 DEF BarWritten, BarRegisters

\* What a BAR answers; in sizing mode, the mask of its size.
LEMMA ReadFacts ==
  ASSUME NEW b \in BarRegisters, b.value \in Words
  PROVE  /\ BarRead(b) \in Words
         /\ (b.probing \/ b.kind = "none") /\ BarRead(b) # 0 =>
              M - BarRead(b) = b.size /\ b.kind # "none"
<1>1. M \in Nat \ {0} /\ b.size \in 0 .. M - 1
  BY WordAssumption DEF BarRegisters, Words
<1>2. ProbeValue(b) \in Words /\ (ProbeValue(b) # 0 => M - ProbeValue(b) = b.size)
  BY <1>1 DEF ProbeValue, Words
<1>3. 0 \in Words
  BY <1>1 DEF Words
<1> QED
  BY <1>2, <1>3 DEF BarRead

\* A call begins when none runs; main's calls come in turn.
LEMMA CallBegins ==
  ASSUME BarInv, DecodeInv, NEW at, NEW i, Calls(at, i)
  PROVE  /\ call = NoCall /\ call.at = "none" /\ i \in DOMAIN bar /\ DOMAIN bar # {}
         /\ byMain => /\ i = 1
                      /\ at = "probe" => stage = 0
                      /\ at = "assign" => stage = 1
                      /\ at = "enable" => stage = 2
<1>1. call = NoCall /\ call.at = "none" /\ i \in DOMAIN bar /\ DOMAIN bar # {}
  BY NoCallTyped DEF Calls
<1>2. ASSUME byMain
      PROVE  /\ i = 1
             /\ at = "probe" => stage = 0
             /\ at = "assign" => stage = 1
             /\ at = "enable" => stage = 2
  <2>1. i = 1 /\ stage < 3 /\ at = <<"probe", "assign", "enable">>[stage + 1] /\ stage # Failed
    BY <1>2 DEF Calls
  <2>2. stage \in 0 .. 3
    BY <1>1, <1>2, <2>1 DEF DecodeInv, MainRuns
  <2>3. stage = 0 \/ stage = 1 \/ stage = 2
    BY <2>1, <2>2
  <2> QED
    BY <2>1, <2>3
<1> QED
  BY <1>1, <1>2

\* What was given out stays given out.
LEMMA GrantedStays ==
  ASSUME UNCHANGED allocs, NEW addr, NEW size
  PROVE  Granted(addr, size)' <=> Granted(addr, size)
BY DEF Granted

\* Steps that change neither BARs, nor records, nor the window.
LEMMA BarsKept ==
  ASSUME BarInv, DecodeInv, UNCHANGED <<bar, record, window, allocs>>
  PROVE  Sizes' /\ Decoded' /\ Distinct'
BY DEF DecodeInv, Sizes, Decoded, Distinct, Granted

\* A call ends.
LEMMA CallEnds ==
  ASSUME BarInv, NEW result, Return(result)
  PROVE  /\ call' = NoCall /\ call'.at = "none" /\ InProbe' /\ InAssign'
         /\ byMain /\ result # "OK" => stage' = Failed
         /\ ~byMain \/ result = "OK" => stage' = stage + 1
<1>1. call' = NoCall /\ NoCall.at = "none"
  BY NoCallTyped DEF Return
<1>2. call'.at = "none"
  BY <1>1
<1> QED
  BY <1>1, <1>2 DEF Return, InProbe, InAssign

\* An access that fails is remembered.
LEMMA AccessFacts ==
  ASSUME NEW ok \in BOOLEAN, Access(ok)
  PROVE  (ok => (faulty' <=> faulty)) /\ (~ok => faulty')
BY DEF Access

\* A board starts.
LEMMA BoardInitDecodes ==
  ASSUME BarInv, DecodeInv, BoardInit
  PROVE  DecodeInv'
<1>1. PICK b \in Boards :
        /\ bar' = Endpoint(b.bars)
        /\ record' = [i \in DOMAIN b.bars |-> Unsized]
        /\ stage' = IF b.size = 0 THEN Failed ELSE 0
  BY DEF BoardInit
<1>2. DOMAIN bar = {} /\ call' = call /\ memOn' = memOn
  BY DEF BoardInit
<1>3. call.at = "none" /\ ~memOn /\ call'.at = "none"
  BY <1>2, BarState DEF DecodeInv, MainRuns
<1>4. \A i \in DOMAIN b.bars : b.bars[i].value \in Words
  BY BarAssumption DEF BarAssumption, Words, M
<1>5. /\ DOMAIN bar' = DOMAIN b.bars
      /\ \A i \in DOMAIN b.bars :
           /\ bar'[i].value \in Words /\ ~bar'[i].probing
           /\ record'[i].size = 0 /\ record'[i].bus = 0
  BY <1>1, <1>4 DEF Endpoint, Unsized
<1>6. Sizes' /\ Decoded' /\ Distinct' /\ Sizing'
  BY <1>5 DEF Sizes, Decoded, Distinct, Sizing, Words
<1>7. InProbe' /\ InAssign'
  BY <1>3 DEF InProbe, InAssign
<1>8. MainRuns'
  BY <1>1, <1>2, <1>3, BarState DEF MainRuns, Failed
<1> QED
  BY <1>6, <1>7, <1>8 DEF DecodeInv

\* lab_pcie_probe_bar32's first read.
LEMMA ProbeDecodes ==
  ASSUME BarInv, DecodeInv, NEW i \in DOMAIN bar, Probe(i)
  PROVE  DecodeInv'
<1>1. /\ call = NoCall /\ call.at = "none" /\ DOMAIN bar # {} /\ (byMain => i = 1 /\ stage = 0)
  BY CallBegins DEF Probe
<1>2. PICK ok \in BOOLEAN :
        /\ Access(ok)
        /\ IF ~ok THEN Return("ERROR") /\ UNCHANGED record
           ELSE /\ record' = [record EXCEPT ![i] = [Unsized EXCEPT !.kind = bar[i].kind]]
                /\ IF bar[i].kind = "memory64" THEN Return("UNSUPPORTED")
                   ELSE /\ call' = [NoCall EXCEPT !.at = "ones", !.i = i,
                                                  !.original = BarRead(bar[i])]
                        /\ UNCHANGED stage
  BY DEF Probe
<1>3. UNCHANGED <<bar, memOn, window, byMain, allocs>>
  BY DEF Probe
<1>4. Sizing'
  BY <1>1, <1>2, <1>3 DEF DecodeInv, Sizing, Access
<1>5. Sizes' /\ Decoded' /\ Distinct'
  <2>1. CASE ~ok
    BY <1>2, <1>3, <2>1, BarsKept
  <2>2. CASE ok
    <3>1. /\ record'[i].size = 0 /\ record'[i].bus = 0
          /\ \A j \in DOMAIN bar \ {i} : record'[j] = record[j]
      BY <1>2, <2>2, BarState DEF Unsized
    <3> QED
      BY <1>3, <3>1 DEF DecodeInv, Sizes, Decoded, Distinct, Granted
  <2> QED
    BY <2>1, <2>2
<1>6. CASE \E result \in {"ERROR", "UNSUPPORTED"} : Return(result)
  <2>1. call'.at = "none" /\ InProbe' /\ InAssign' /\ (byMain => stage' = Failed)
    BY <1>6, CallEnds
  <2>2. MainRuns'
    BY <1>1, <1>3, <2>1, BarState DEF DecodeInv, MainRuns
  <2> QED
    BY <1>4, <1>5, <2>1, <2>2 DEF DecodeInv
<1>7. CASE /\ ok /\ call' = [NoCall EXCEPT !.at = "ones", !.i = i, !.original = BarRead(bar[i])]
           /\ UNCHANGED stage
  <2>1. call'.at = "ones" /\ call'.i = i /\ call'.original = BarRead(bar[i])
    BY <1>7 DEF NoCall
  <2>2. BarRead(bar[i]) \in Words
    BY BarState, ReadFacts DEF DecodeInv, Sizes
  <2>3. record'[i].bus = 0
    BY <1>2, <1>7, BarState DEF Unsized
  <2>4. InProbe' /\ InAssign'
    BY <2>1, <2>2, <2>3 DEF InProbe, InAssign
  <2>5. MainRuns'
    BY <1>1, <1>3, <1>7, <2>1, BarState DEF DecodeInv, MainRuns
  <2> QED
    BY <1>4, <1>5, <2>4, <2>5 DEF DecodeInv
<1> QED
  BY <1>2, <1>6, <1>7

\* Its write of all ones, while the record has no address of the BAR.
LEMMA ProbeOnesDecodes ==
  ASSUME BarInv, DecodeInv, ProbeOnes
  PROVE  DecodeInv'
<1>1. PICK ok \in BOOLEAN :
        /\ Access(ok)
        /\ IF ok THEN /\ bar' = [bar EXCEPT ![call.i] = BarWritten(@, Ones)]
                      /\ call' = [call EXCEPT !.at = "size"] /\ UNCHANGED stage
           ELSE Return("ERROR") /\ UNCHANGED bar
  BY DEF ProbeOnes
<1>2. /\ call.at = "ones" /\ call.i \in DOMAIN bar /\ DOMAIN bar # {}
      /\ UNCHANGED <<memOn, window, record, byMain, allocs>>
      /\ record[call.i].bus = 0 /\ call.original \in Words /\ (byMain => stage = 0 /\ call.i = 1)
  BY BarState DEF ProbeOnes, DecodeInv, InProbe, MainRuns
<1>3. CASE ~ok
  <2>1. call'.at = "none" /\ InProbe' /\ InAssign' /\ (byMain => stage' = Failed) /\ bar' = bar
    BY <1>1, <1>3, CallEnds
  <2>2. Sizes' /\ Decoded' /\ Distinct'
    BY <1>2, <2>1, BarsKept
  <2>3. Sizing'
    BY <1>1, <1>3, AccessFacts DEF Sizing
  <2>4. MainRuns'
    BY <1>2, <2>1, BarState DEF DecodeInv, MainRuns
  <2> QED
    BY <2>1, <2>2, <2>3, <2>4 DEF DecodeInv
<1>4. CASE ok
  <2> DEFINE b == bar[call.i]
  <2>1. /\ bar'[call.i] = BarWritten(b, Ones) /\ DOMAIN bar' = DOMAIN bar
        /\ \A j \in DOMAIN bar \ {call.i} : bar'[j] = bar[j]
        /\ call'.at = "size" /\ call'.i = call.i /\ call'.original = call.original
        /\ stage' = stage /\ (faulty' <=> faulty)
    BY <1>1, <1>2, <1>4, BarState, AccessFacts
  <2>2. b \in BarRegisters /\ 0 \in Words
    BY <1>2, BarState
  <2>3. /\ bar'[call.i].kind = b.kind /\ bar'[call.i].size = b.size /\ bar'[call.i].value = b.value
        /\ b.kind = "none" => bar'[call.i] = b
        /\ b.kind # "none" => bar'[call.i].probing
    BY <2>1, <2>2, BarFacts
  <2> HIDE DEF b
  <2>4. Sizes'
    BY <1>2, <2>1, <2>3 DEF DecodeInv, Sizes, b
  <2>5. Decoded'
    BY <1>2, <2>1 DEF DecodeInv, Decoded, Granted
  <2>6. Distinct'
    BY <1>2, <2>1 DEF DecodeInv, Distinct
  <2>7. InProbe' /\ InAssign'
    BY <1>2, <2>1, <2>3 DEF InProbe, InAssign
  <2>8. Sizing'
    BY <1>2, <2>1 DEF DecodeInv, Sizing
  <2>9. MainRuns'
    BY <1>2, <2>1, BarState DEF DecodeInv, MainRuns
  <2> QED
    BY <2>4, <2>5, <2>6, <2>7, <2>8, <2>9 DEF DecodeInv
<1> QED
  BY <1>3, <1>4

\* Its read of the mask.
LEMMA ProbeSizeDecodes ==
  ASSUME BarInv, DecodeInv, ProbeSize
  PROVE  DecodeInv'
<1>1. PICK ok \in BOOLEAN :
        /\ Access(ok)
        /\ call' = [call EXCEPT !.at = IF ok THEN "restore" ELSE "undo",
                                !.probe = BarRead(bar[call.i])]
  BY DEF ProbeSize
<1>2. /\ call.at = "size" /\ call.i \in DOMAIN bar /\ DOMAIN bar # {}
      /\ UNCHANGED <<bar, memOn, window, record, stage, byMain, allocs>>
      /\ record[call.i].bus = 0 /\ call.original \in Words /\ (byMain => stage = 0 /\ call.i = 1)
      /\ bar[call.i].probing \/ bar[call.i].kind = "none"
  BY BarState DEF ProbeSize, DecodeInv, InProbe, MainRuns
<1>3. /\ call'.i = call.i /\ call'.original = call.original
      /\ call'.probe = BarRead(bar[call.i])
      /\ ok => call'.at = "restore"
      /\ ~ok => call'.at = "undo"
      /\ call'.at \in {"restore", "undo"}
  BY <1>1, BarState
<1>4. Sizes' /\ Decoded' /\ Distinct'
  BY <1>2, BarsKept
<1>5. InProbe' /\ InAssign'
  <2>1. bar[call.i] \in BarRegisters /\ bar[call.i].value \in Words
    BY <1>2, BarState DEF DecodeInv, Sizes
  <2>2. call'.probe # 0 => M - call'.probe = bar[call.i].size /\ bar[call.i].kind # "none"
    BY <1>2, <1>3, <2>1, ReadFacts
  <2> QED
    BY <1>2, <1>3, <2>2 DEF InProbe, InAssign
<1>6. Sizing'
  <2>1. CASE ok
    BY <1>1, <1>2, <1>3, <2>1, AccessFacts DEF DecodeInv, Sizing
  <2>2. CASE ~ok
    BY <1>1, <2>2, AccessFacts DEF Sizing
  <2> QED
    BY <2>1, <2>2
<1>7. MainRuns'
  BY <1>2, <1>3, BarState DEF DecodeInv, MainRuns
<1> QED
  BY <1>4, <1>5, <1>6, <1>7 DEF DecodeInv

\* Its last write, which puts the BAR back.
LEMMA ProbeRestoreDecodes ==
  ASSUME BarInv, DecodeInv, ProbeRestore
  PROVE  DecodeInv'
<1> DEFINE b == bar[call.i]
<1>1. PICK ok \in BOOLEAN :
        /\ Access(ok)
        /\ bar' = IF ok THEN [bar EXCEPT ![call.i] = BarWritten(@, call.original)] ELSE bar
  BY DEF ProbeRestore
<1>2. /\ call.at \in {"restore", "undo"} /\ call.i \in DOMAIN bar /\ DOMAIN bar # {}
      /\ UNCHANGED <<memOn, window, byMain, allocs>>
      /\ record[call.i].bus = 0 /\ call.original \in Words /\ (byMain => stage = 0 /\ call.i = 1)
      /\ b \in BarRegisters
      /\ call.at = "restore" /\ call.probe # 0 => M - call.probe = b.size /\ b.kind # "none"
  BY BarState DEF ProbeRestore, DecodeInv, InProbe, MainRuns
<1>3. /\ DOMAIN bar' = DOMAIN bar /\ \A j \in DOMAIN bar \ {call.i} : bar'[j] = bar[j]
      /\ bar'[call.i].kind = b.kind /\ bar'[call.i].size = b.size
      /\ bar'[call.i].value \in Words /\ (b.kind = "none" => ~bar'[call.i].probing)
      /\ ok => ~bar'[call.i].probing
  <2>1. b.value \in Words /\ (b.kind = "none" => ~b.probing)
    BY <1>2 DEF DecodeInv, Sizes
  <2>2. CASE ~ok
    BY <1>1, <1>2, <2>1, <2>2
  <2>3. CASE ok
    <3>1. /\ bar'[call.i] = BarWritten(b, call.original) /\ DOMAIN bar' = DOMAIN bar
          /\ \A j \in DOMAIN bar \ {call.i} : bar'[j] = bar[j]
      BY <1>1, <1>2, <2>3, BarState
    <3> HIDE DEF b
    <3> QED
      BY <1>2, <2>1, <3>1, BarFacts
  <2> QED
    BY <2>2, <2>3
<1>4. /\ \A j \in DOMAIN bar \ {call.i} : record'[j] = record[j]
      /\ record'[call.i].bus = 0
      /\ record'[call.i].size # 0 => record'[call.i].size = b.size /\ b.kind # "none"
  <2>1. CASE call.at = "undo"
    <3>1. record' = record
      BY <2>1 DEF ProbeRestore
    <3> QED
      BY <1>2, <3>1 DEF DecodeInv, Sizes
  <2>2. CASE call.at = "restore"
    <3>1. record' = [record EXCEPT ![call.i].size = IF call.probe = 0 THEN 0 ELSE M - call.probe]
      BY <2>2 DEF ProbeRestore
    <3>2. record \in [DOMAIN bar -> BarRecords] /\ record[call.i] \in BarRecords
      BY <1>2, BarState
    <3>3. /\ \A j \in DOMAIN bar \ {call.i} : record'[j] = record[j]
          /\ record'[call.i].bus = record[call.i].bus
          /\ record'[call.i].size = IF call.probe = 0 THEN 0 ELSE M - call.probe
      BY <1>2, <3>1, <3>2 DEF BarRecords
    <3> QED
      BY <1>2, <2>2, <3>3
  <2> QED
    BY <1>2, <2>1, <2>2
<1> HIDE DEF b
<1>5. Sizes'
  BY <1>2, <1>3, <1>4 DEF DecodeInv, Sizes, b
<1>6. Decoded'
  BY <1>2, <1>3, <1>4 DEF DecodeInv, Decoded, Granted
<1>7. Distinct'
  BY <1>2, <1>3, <1>4 DEF DecodeInv, Distinct
<1>8. PICK result : Return(result) /\ result \in {"OK", "ERROR"}
  BY <1>2 DEF ProbeRestore
<1>9. /\ call'.at = "none" /\ InProbe' /\ InAssign'
      /\ byMain => stage' = Failed \/ stage' = 1
  BY <1>2, <1>8, CallEnds
<1>10. Sizing'
  <2>1. CASE ok
    <3>1. ASSUME ~faulty', NEW i \in DOMAIN bar
          PROVE  ~bar'[i].probing
      BY <1>1, <1>3, <2>1, <3>1, AccessFacts DEF DecodeInv, Sizing
    <3> QED
      BY <1>3, <3>1 DEF Sizing
  <2>2. CASE ~ok
    BY <1>1, <2>2, AccessFacts DEF Sizing
  <2> QED
    BY <2>1, <2>2
<1>11. MainRuns'
  BY <1>2, <1>3, <1>9, BarState DEF DecodeInv, MainRuns
<1> QED
  BY <1>5, <1>6, <1>7, <1>9, <1>10, <1>11 DEF DecodeInv

\* lab_pcie_assign_bar32 takes a range that no BAR has.
LEMMA AssignDecodes ==
  ASSUME BarInv, BarInv', DecodeInv, NEW i \in DOMAIN bar, Assign(i)
  PROVE  DecodeInv'
<1> DEFINE size == record[i].size
           got == Alloc(window, size, size)
<1>1. /\ call = NoCall /\ call.at = "none" /\ DOMAIN bar # {} /\ (byMain => i = 1 /\ stage = 1)
      /\ UNCHANGED <<bar, memOn, record, byMain, faulty>>
  BY CallBegins DEF Assign
<1>2. \/ Return("NO_RESOURCE") /\ UNCHANGED <<window, allocs>>
      \/ \E start \in got :
           /\ window' = [window EXCEPT !.next = (start + size) % M]
           /\ allocs' = Append(allocs, [start |-> start, size |-> size])
           /\ call' = [NoCall EXCEPT !.at = "program", !.i = i, !.bus = start]
           /\ UNCHANGED stage
  BY DEF Assign
<1>3. Sizing'
  BY <1>1 DEF DecodeInv, Sizing
<1>4. CASE Return("NO_RESOURCE") /\ UNCHANGED <<window, allocs>>
  <2>1. call'.at = "none" /\ InProbe' /\ InAssign' /\ (byMain => stage' = Failed)
    BY <1>4, CallEnds
  <2>2. Sizes' /\ Decoded' /\ Distinct'
    BY <1>1, <1>4, BarsKept
  <2>3. MainRuns'
    BY <1>1, <2>1, BarState DEF DecodeInv, MainRuns
  <2> QED
    BY <1>3, <2>1, <2>2, <2>3 DEF DecodeInv
<1>5. ASSUME NEW start \in got,
             window' = [window EXCEPT !.next = (start + size) % M],
             allocs' = Append(allocs, [start |-> start, size |-> size]),
             call' = [NoCall EXCEPT !.at = "program", !.i = i, !.bus = start],
             UNCHANGED stage
      PROVE  DecodeInv'
  <2>1. /\ size \in 1 .. M /\ start \in Words /\ size \in Nat
        /\ window'.base = window.base /\ window'.cpu = window.cpu
    <3>1. WindowTyped /\ size \in 0 .. M
      BY BarState DEF BarInv, Typed, BarRecords
    <3>2. size \in 1 .. M /\ start \in Words
      BY <3>1, AllocFacts
    <3>3. window'.base = window.base /\ window'.cpu = window.cpu
      BY <1>5, <3>1 DEF WindowTyped
    <3> QED
      BY <3>2, <3>3, BarState
  <2>2. call'.at = "program" /\ call'.i = i /\ call'.bus = start
    BY <1>5 DEF NoCall
  <2> DEFINE range == [start |-> start, size |-> size]
  <2>3. range.start = start /\ range.size = size /\ range \in [start : Words, size : 1 .. M]
    BY <2>1
  <2>4. /\ Len(allocs) \in Nat /\ DOMAIN allocs = 1 .. Len(allocs)
        /\ DOMAIN allocs' = 1 .. Len(allocs) + 1
        /\ \A k \in DOMAIN allocs : allocs'[k] = allocs[k]
        /\ allocs'[Len(allocs) + 1] = range
    BY <1>5, <2>3 DEF BarInv, Typed, AllocsTyped
  <2>5. \A addr, s : Granted(addr, s) => Granted(addr, s)'
    BY <2>4 DEF Granted
  <2>6. bar[i].kind # "none" /\ size = bar[i].size
    BY <2>1 DEF DecodeInv, Sizes
  <2>7. Granted(start, bar[i].size)'
    <3>1. /\ Len(allocs) + 1 \in DOMAIN allocs' /\ bar'[i].size = size
          /\ allocs'[Len(allocs) + 1] = [start |-> start, size |-> bar'[i].size]
      BY <1>1, <2>4, <2>6
    <3> QED
      BY <3>1 DEF Granted
  <2> HIDE DEF size, got, range
  <2>8. ASSUME window.base # 0, NEW j \in DOMAIN bar, record[j].bus # 0
        PROVE  record[j].bus # start
    <3>1. PICK k \in DOMAIN allocs : allocs[k] = [start |-> record[j].bus, size |-> bar[j].size]
      BY <2>8 DEF DecodeInv, Decoded, Granted
    <3>2. /\ allocs'[k].start = record[j].bus /\ allocs'[k].size = bar[j].size
          /\ k \in DOMAIN allocs' /\ Len(allocs) + 1 \in DOMAIN allocs' /\ k < Len(allocs) + 1
      BY <2>4, <3>1
    <3>3. record[j].bus + bar[j].size <= start
      BY <2>1, <2>3, <2>4, <2>8, <3>2 DEF BarInv, RangesDisjoint
    <3>4. bar[j].size \in 1 .. M
      <4>1. allocs \in Seq([start : Words, size : 1 .. M])
        BY DEF BarInv, Typed, AllocsTyped
      <4>2. allocs[k] \in [start : Words, size : 1 .. M]
        BY <4>1, SeqElements
      <4> QED
        BY <3>1, <4>2
    <3>5. record[j].bus \in Int /\ start \in Int /\ bar[j].size \in Int /\ bar[j].size > 0
      <4>1. record[j].bus \in Words
        BY <2>8, BarState DEF BarRecords
      <4>2. M \in Nat
        BY BarState
      <4> QED
        BY <2>1, <3>4, <4>1, <4>2 DEF Words
    <3> QED
      BY <3>3, <3>5
  <2>9. Sizes' /\ Distinct'
    BY <1>1, <2>1 DEF DecodeInv, Sizes, Distinct
  <2>10. Decoded'
    BY <1>1, <2>1, <2>5 DEF DecodeInv, Decoded
  <2>11. InProbe' /\ InAssign'
    <3>1. InProbe'
      BY <2>2 DEF InProbe
    <3>2. bar'[call'.i].kind # "none" /\ Granted(call.bus, bar[call.i].size)'
      BY <1>1, <2>2, <2>6, <2>7 DEF Granted
    <3>3. window'.base # 0 =>
            \A j \in DOMAIN bar' : record'[j].bus # 0 => record'[j].bus # call'.bus
      BY <1>1, <2>1, <2>2, <2>8
    <3> QED
      BY <3>1, <3>2, <3>3 DEF InAssign
  <2>12. MainRuns'
    BY <1>1, <1>5, <2>2, <2>5, BarState DEF DecodeInv, MainRuns
  <2> QED
    BY <1>3, <2>9, <2>10, <2>11, <2>12 DEF DecodeInv
<1> QED
  BY <1>2, <1>4, <1>5

\* Its write: from then on the BAR decodes at the address on record.
LEMMA AssignProgramDecodes ==
  ASSUME BarInv, DecodeInv, AssignProgram
  PROVE  DecodeInv'
<1> DEFINE b == bar[call.i]
<1>1. PICK ok \in BOOLEAN :
        /\ Access(ok)
        /\ IF ok THEN /\ bar' = [bar EXCEPT ![call.i] = BarWritten(@, call.bus)]
                      /\ \E cpu \in Translate(window, call.bus) :
                           record' = [record EXCEPT ![call.i].bus = call.bus,
                                                    ![call.i].cpu = cpu]
                      /\ Return("OK")
           ELSE Return("ERROR") /\ UNCHANGED <<bar, record>>
  BY DEF AssignProgram
<1>2. /\ call.at = "program" /\ call.i \in DOMAIN bar /\ DOMAIN bar # {}
      /\ UNCHANGED <<memOn, window, byMain, allocs>>
      /\ b.kind # "none" /\ Granted(call.bus, b.size) /\ b \in BarRegisters /\ call.bus \in Words
      /\ window.base # 0 => \A j \in DOMAIN bar : record[j].bus # 0 => record[j].bus # call.bus
      /\ (byMain => stage = 1 /\ call.i = 1)
  BY BarState DEF AssignProgram, DecodeInv, InAssign, MainRuns
<1>3. CASE ~ok
  <2>1. /\ call'.at = "none" /\ InProbe' /\ InAssign' /\ (byMain => stage' = Failed)
        /\ UNCHANGED <<bar, record>>
    BY <1>1, <1>3, CallEnds
  <2>2. Sizes' /\ Decoded' /\ Distinct'
    BY <1>2, <2>1, BarsKept
  <2>3. Sizing'
    BY <1>1, <1>3, AccessFacts DEF Sizing
  <2>4. MainRuns'
    BY <1>2, <2>1, BarState DEF DecodeInv, MainRuns
  <2> QED
    BY <2>1, <2>2, <2>3, <2>4 DEF DecodeInv
<1>4. CASE ok
  <2>1. /\ call'.at = "none" /\ InProbe' /\ InAssign' /\ (byMain => stage' = 2)
        /\ (faulty' <=> faulty)
    <3>1. Return("OK") /\ Access(ok)
      BY <1>1, <1>4
    <3>2. (faulty' <=> faulty)
      BY <1>4, <3>1, AccessFacts
    <3>3. call'.at = "none" /\ InProbe' /\ InAssign' /\ stage' = stage + 1
      BY <3>1, CallEnds
    <3> QED
      BY <1>2, <3>2, <3>3
  <2>2. /\ bar'[call.i] = BarWritten(b, call.bus) /\ DOMAIN bar' = DOMAIN bar
        /\ \A j \in DOMAIN bar \ {call.i} : bar'[j] = bar[j]
    BY <1>1, <1>2, <1>4, BarState
  <2>3. PICK cpu \in Translate(window, call.bus) :
          record' = [record EXCEPT ![call.i].bus = call.bus, ![call.i].cpu = cpu]
    BY <1>1, <1>4
  <2>4. /\ record'[call.i].bus = call.bus /\ record'[call.i].cpu = cpu
        /\ record'[call.i].size = record[call.i].size
        /\ \A j \in DOMAIN bar \ {call.i} : record'[j] = record[j]
    <3>1. record \in [DOMAIN bar -> BarRecords] /\ call.i \in DOMAIN bar
      BY <1>2, BarState
    <3> QED
      BY <2>3, <3>1 DEF BarRecords
  <2>5. cpu = (window.cpu + (call.bus - window.base)) % M
    BY <2>3 DEF Translate
  <2> HIDE DEF b
  <2>6. /\ bar'[call.i].kind = b.kind /\ bar'[call.i].size = b.size
        /\ bar'[call.i].value = call.bus /\ ~bar'[call.i].probing
    BY <1>2, <2>2, BarFacts
  <2>7. Sizes'
    BY <1>2, <2>2, <2>4, <2>6 DEF DecodeInv, Sizes, b
  <2>8. Decoded'
    BY <1>2, <2>2, <2>4, <2>5, <2>6 DEF DecodeInv, Decoded, Granted
  <2>9. Distinct'
    BY <1>2, <2>2, <2>4 DEF DecodeInv, Distinct
  <2>10. Sizing'
    BY <1>2, <2>1, <2>2, <2>6 DEF DecodeInv, Sizing
  <2>11. MainRuns'
    BY <1>2, <2>1, <2>2, <2>6, BarState DEF DecodeInv, MainRuns, Granted
  <2> QED
    BY <2>1, <2>7, <2>8, <2>9, <2>10, <2>11 DEF DecodeInv
<1> QED
  BY <1>3, <1>4

\* lab_pcie_enable_memory_space.
LEMMA EnableDecodes ==
  ASSUME BarInv, DecodeInv, EnableRead \/ EnableWrite
  PROVE  DecodeInv'
<1>1. UNCHANGED <<bar, window, record, byMain, allocs>>
  BY DEF EnableRead, EnableWrite
<1>2. Sizes' /\ Decoded' /\ Distinct'
  BY <1>1, BarsKept
<1>3. call.at \in {"none", "enable"} /\ DOMAIN bar # {} /\ (byMain => stage = 2)
  <2>1. CASE EnableRead
    BY <2>1, CallBegins DEF EnableRead
  <2>2. CASE EnableWrite
    <3>1. call.at = "enable"
      BY <2>2 DEF EnableWrite
    <3> QED
      BY <3>1, BarState DEF DecodeInv, MainRuns
  <2> QED
    BY <2>1, <2>2
<1>4. Sizing'
  <2>1. faulty => faulty'
    BY DEF EnableRead, EnableWrite, Access
  <2> QED
    BY <1>1, <1>3, <2>1 DEF DecodeInv, Sizing
<1>5. CASE EnableRead
  <2>1. memOn' = memOn
    BY <1>5 DEF EnableRead
  <2>2. CASE Return("ERROR")
    <3>1. call'.at = "none" /\ InProbe' /\ InAssign' /\ (byMain => stage' = Failed)
      BY <2>2, CallEnds
    <3>2. MainRuns'
      BY <1>1, <1>3, <2>1, <3>1, BarState DEF DecodeInv, MainRuns
    <3> QED
      BY <1>2, <1>4, <3>1, <3>2 DEF DecodeInv
  <2>3. CASE call' = [NoCall EXCEPT !.at = "enable"] /\ UNCHANGED stage
    <3>1. call'.at = "enable"
      BY <2>3 DEF NoCall
    <3>2. InProbe' /\ InAssign'
      BY <3>1 DEF InProbe, InAssign
    <3>3. MainRuns'
      BY <1>1, <1>3, <2>1, <2>3, <3>1 DEF DecodeInv, MainRuns, Granted
    <3> QED
      BY <1>2, <1>4, <3>2, <3>3 DEF DecodeInv
  <2> QED
    BY <1>5, <2>2, <2>3 DEF EnableRead
<1>6. CASE EnableWrite
  <2>1. PICK ok \in BOOLEAN : memOn' = (memOn \/ ok) /\ Return(IF ok THEN "OK" ELSE "ERROR")
    BY <1>6 DEF EnableWrite
  <2>2. /\ call'.at = "none" /\ InProbe' /\ InAssign'
        /\ byMain /\ ~ok => stage' = Failed
        /\ byMain /\ ok => stage' = 3
    BY <1>3, <2>1, CallEnds
  <2>3. byMain => ~memOn
    BY <1>3 DEF DecodeInv, MainRuns
  <2>4. MainRuns'
    BY <1>1, <1>3, <2>1, <2>2, <2>3, BarState DEF DecodeInv, MainRuns, Granted
  <2> QED
    BY <1>2, <1>4, <2>2, <2>4 DEF DecodeInv
<1> QED
  BY <1>5, <1>6

\* Nothing is on record before a board starts.
LEMMA DecodeInitial == BarInit => DecodeInv
BY NoCallTyped DEF BarInit, DecodeInv, Sizes, Decoded, Distinct, InProbe, InAssign, Sizing, MainRuns

\* Every step keeps BARs and records in agreement.
LEMMA DecodeInvariance == BarInv /\ BarInv' /\ DecodeInv /\ [BarNext]_barVars => DecodeInv'
<1> SUFFICES ASSUME BarInv, BarInv', DecodeInv, [BarNext]_barVars
             PROVE  DecodeInv'
  OBVIOUS
<1>1. CASE BarNext
  BY <1>1, BoardInitDecodes, ProbeDecodes, ProbeOnesDecodes, ProbeSizeDecodes, ProbeRestoreDecodes,
     AssignDecodes, AssignProgramDecodes, EnableDecodes DEF BarNext
<1>2. CASE UNCHANGED barVars
  BY <1>2 DEF barVars, DecodeInv, Sizes, Decoded, Distinct, InProbe, InAssign, Sizing,
              MainRuns, Granted
<1> QED
  BY <1>1, <1>2

\* A BAR decodes where the caller's record says, in a range of its own, and main does
\* not enable memory before its BAR has one (pcie_resource.c:52-201, main.c).
THEOREM RecordsDecode == BarSpec => []BarsDecode
<1>1. BarInv /\ DecodeInv => BarsDecode
  <2> SUFFICES ASSUME BarInv, DecodeInv PROVE BarsDecode
    OBVIOUS
  <2>1. \A i \in DOMAIN bar :
          window.cpu + (record[i].bus - window.base) = window.cpu + record[i].bus - window.base
    BY BarState DEF BarInv, Typed, WindowTyped, BarRecords, Words
  <2>2. \A i \in DOMAIN bar : record[i].bus # 0 =>
          /\ bar[i].value = record[i].bus /\ ~bar[i].probing
          /\ Granted(record[i].bus, bar[i].size)
          /\ record[i].cpu = (window.cpu + record[i].bus - window.base) % M
          /\ window.base # 0 => \A j \in DOMAIN bar \ {i} : record[j].bus # record[i].bus
    BY <2>1 DEF DecodeInv, Decoded, Distinct
  <2>3. call = NoCall /\ ~faulty => \A i \in DOMAIN bar : ~bar[i].probing
    BY NoCallTyped DEF DecodeInv, Sizing
  <2>4. byMain /\ memOn => Granted(bar[1].value, bar[1].size)
    BY DEF DecodeInv, MainRuns
  <2> QED
    BY <2>2, <2>3, <2>4 DEF BarsDecode
<1> QED
  BY <1>1, BarInitial, BarInvariance, DecodeInitial, DecodeInvariance, PTL DEF BarSpec

-----------------------------------------------------------------------------
(* Lab 21: the register update. *)

\* What raced accounts for: the register against what updates done in one step would
\* have left, and, inside an update, against the value it has read.
Fresh ==
  /\ Xor(reg, due) \subseteq raced \ TEST_MASK
  /\ Updating => Xor(old_value, reg) \subseteq raced

UpdateResult == (original \ TEST_MASK) \cup (TEST_VALUE \cap TEST_MASK)

Undisturbed ==
  /\ test \notin {"off", "DONE"} => reg \ TEST_MASK = first \ TEST_MASK
  /\ test = "READ_ORIGINAL" => reg = first
  /\ test \notin {"off", "READ_ORIGINAL", "ERROR"} => original = first
  /\ test = "VERIFY_WRITE" => reg = DirectValue
  /\ test = "UPDATE" => reg = original
  /\ test = "UPDATE_WRITE" => reg = original /\ old_value = reg
  /\ test = "VERIFY_UPDATE" => reg = UpdateResult
  /\ test = "NOOP_WRITE" => old_value = reg
  /\ test = "ERROR" => bad

\* Where the program is.
Course ==
  /\ changes \in Nat
  /\ test = "DONE" /\ ~since => reg = original
  /\ changes = 0 => Undisturbed
  /\ test = "ERROR" => bad \/ changes > 0

RegInv == Fresh /\ Course

-----------------------------------------------------------------------------
\* Two bytes do not differ from themselves, ...
LEMMA XorSelf == \A s : Xor(s, s) = {}
BY DEF Xor

\* A byte with one bit flipped.
Flipped(b, s) == IF b \in s THEN s \ {b} ELSE s \cup {b}

\* ... a bit flipped in both makes no difference, ...
LEMMA XorFlipBoth ==
  ASSUME NEW b, NEW s, NEW t
  PROVE  Xor(Flipped(b, s), Flipped(b, t)) = Xor(s, t)
<1>1. CASE b \in s /\ b \in t
  BY <1>1 DEF Xor, Flipped
<1>2. CASE b \in s /\ b \notin t
  BY <1>2 DEF Xor, Flipped
<1>3. CASE b \notin s /\ b \in t
  BY <1>3 DEF Xor, Flipped
<1>4. CASE b \notin s /\ b \notin t
  BY <1>4 DEF Xor, Flipped
<1> QED
  BY <1>1, <1>2, <1>3, <1>4

\* ... and one flipped in one of them no other.
LEMMA XorFlipOne ==
  ASSUME NEW b, NEW s, NEW t
  PROVE  Xor(s, Flipped(b, t)) \subseteq Xor(s, t) \cup {b}
BY DEF Xor, Flipped

\* What an update leaves differs from what it would leave in one step by the bits
\* outside the mask in which the value it had read differs from the one now due.
LEMMA XorMerged ==
  ASSUME NEW old, NEW now, NEW dueNow, NEW mask, NEW value, NEW r,
         Xor(old, now) \subseteq r, Xor(now, dueNow) \subseteq r \ mask
  PROVE  Xor(Merged(old, mask, value), Merged(dueNow, mask, value)) \subseteq r \ mask
BY DEF Xor, Merged

\* A step that leaves the register alone, and one that leaves it as meant.
LEMMA FreshKept ==
  ASSUME Fresh, UNCHANGED <<reg, due, raced>>,
         \/ ~Updating' \/ old_value' = reg' \/ (Updating /\ UNCHANGED old_value)
  PROVE  Fresh'
<1>1. Xor(reg', due') \subseteq raced' \ TEST_MASK
  BY DEF Fresh
<1>2. Updating' => Xor(old_value', reg') \subseteq raced'
  <2>1. CASE old_value' = reg'
    BY <2>1, XorSelf
  <2>2. CASE Updating /\ UNCHANGED old_value
    BY <2>2 DEF Fresh
  <2> QED
    BY <2>1, <2>2
<1> QED
  BY <1>1, <1>2 DEF Fresh, Xor, Updating

LEMMA FreshWritten ==
  ASSUME reg' = due', ~Updating'
  PROVE  Fresh'
BY DEF Fresh, Updating, Xor

-----------------------------------------------------------------------------
(* One lemma for each kind of step. *)

\* The program starts, or the sensor changes a bit: a change during an update
\* is what raced records.
LEMMA SensorStep ==
  ASSUME RegInv, RegStart \/ SensorChanges
  PROVE  RegInv'
<1>1. CASE RegStart
  <2>1. Fresh'
    BY <1>1, FreshWritten DEF RegStart, Updating
  <2>2. Course'
    BY <1>1 DEF RegInv, Course, Undisturbed, RegStart
  <2> QED
    BY <2>1, <2>2 DEF RegInv
<1>2. CASE SensorChanges
  <2>1. changes' \in Nat /\ changes' # 0 /\ changes' > 0
    BY <1>2 DEF RegInv, Course, SensorChanges
  <2>2. Fresh'
    <3>1. PICK b \in Bits :
            /\ reg' = Flipped(b, reg) /\ due' = Flipped(b, due)
            /\ raced' = IF Updating THEN raced \cup {b} ELSE raced
      BY <1>2 DEF SensorChanges, Flipped
    <3>2. Xor(reg', due') = Xor(reg, due)
      BY <3>1, XorFlipBoth
    <3>3. Xor(old_value, reg') \subseteq Xor(old_value, reg) \cup {b}
      BY <3>1, XorFlipOne
    <3>4. Xor(reg, due) \subseteq raced \ TEST_MASK /\ raced \subseteq raced'
      BY <3>1 DEF RegInv, Fresh
    <3>5. old_value' = old_value /\ (Updating' <=> Updating)
      BY <1>2 DEF SensorChanges, Updating
    <3>6. Updating => Xor(old_value, reg) \subseteq raced /\ b \in raced'
      BY <3>1 DEF RegInv, Fresh
    <3>7. Updating' => Xor(old_value, reg') \subseteq raced'
      BY <3>3, <3>4, <3>5, <3>6
    <3>8. Xor(reg', due') \subseteq raced' \ TEST_MASK
      BY <3>2, <3>4
    <3> QED
      BY <3>5, <3>7, <3>8 DEF Fresh, Xor
  <2>3. since'
    BY <1>2 DEF SensorChanges
  <2> QED
    BY <2>1, <2>2, <2>3 DEF RegInv, Course
<1> QED
  BY <1>1, <1>2

\* A read fails and the program stops where it is.
LEMMA FailedReadStep ==
  ASSUME RegInv, ReadFails
  PROVE  RegInv'
<1>1. Fresh'
  BY FreshKept DEF RegInv, ReadFails, TransferFails, Updating
<1>2. Course'
  BY DEF RegInv, Course, Undisturbed, ReadFails, TransferFails
<1> QED
  BY <1>1, <1>2 DEF RegInv

\* The reads of main: what was read is the register, and a value that was not
\* expected stops the program.
LEMMA MainReadStep ==
  ASSUME RegInv, ReadOriginal \/ VerifyWrite \/ VerifyUpdate
  PROVE  RegInv'
<1>1. Fresh'
  BY FreshKept DEF RegInv, ReadOriginal, VerifyWrite, VerifyUpdate, reg_read_byte, Updating
<1>2. Course'
  <2> USE DEF RegInv, Course, Undisturbed, reg_read_byte, UpdateResult
  <2>1. CASE ReadOriginal
    BY <2>1 DEF ReadOriginal
  <2>2. CASE VerifyWrite
    BY <2>2 DEF VerifyWrite, DirectValue, Xor
  <2>3. CASE VerifyUpdate
    BY <2>3 DEF VerifyUpdate
  <2> QED
    BY <2>1, <2>2, <2>3
<1> QED
  BY <1>1, <1>2 DEF RegInv

\* The writes of main, which leave the register as meant or, when they fail,
\* as it was or as meant.
LEMMA MainWriteStep ==
  ASSUME RegInv, DirectWrite \/ RestoreAfterWrite \/ FinalRestore
  PROVE  RegInv'
<1>1. Fresh'
  BY FreshWritten DEF DirectWrite, RestoreAfterWrite, FinalRestore, reg_write_byte, TransferFails,
     Updating
<1>2. Course'
  <2> USE DEF RegInv, Course, Undisturbed, reg_write_byte, TransferFails
  <2>1. CASE DirectWrite
    BY <2>1 DEF DirectWrite, DirectValue, Xor
  <2>2. CASE RestoreAfterWrite
    BY <2>2 DEF RestoreAfterWrite
  <2>3. CASE FinalRestore
    BY <2>3 DEF FinalRestore
  <2> QED
    BY <2>1, <2>2, <2>3
<1> QED
  BY <1>1, <1>2 DEF RegInv

\* The read of an update: nothing is written when nothing would change.
LEMMA UpdateReadStep ==
  ASSUME RegInv,
         \/ UpdateRead("UPDATE", "UPDATE_WRITE", "VERIFY_UPDATE", TEST_VALUE)
         \/ UpdateRead("NOOP_UPDATE", "NOOP_WRITE", "FINAL_RESTORE", updated)
  PROVE  RegInv'
<1>1. Fresh'
  <2>1. UNCHANGED <<reg, due, raced>> /\ old_value' = reg'
    BY DEF UpdateRead, reg_read_byte
  <2> QED
    BY <2>1, FreshKept DEF RegInv
<1>2. Course'
  BY DEF RegInv, Course, Undisturbed, reg_read_byte, UpdateRead, Merged, UpdateResult
<1> QED
  BY <1>1, <1>2 DEF RegInv

\* The write of an update, from the value its read left in old_value: the bits that
\* changed since, and no others, are lost.
LEMMA UpdateWriteStep ==
  ASSUME RegInv,
         \/ UpdateWrite("UPDATE_WRITE", "VERIFY_UPDATE", TEST_VALUE)
         \/ UpdateWrite("NOOP_WRITE", "FINAL_RESTORE", updated)
  PROVE  RegInv'
<1>1. Fresh'
  <2>1. ~Updating'
    BY DEF UpdateWrite, reg_write_byte, TransferFails, Updating
  <2>2. CASE reg' = due'
    BY <2>1, <2>2, FreshWritten
  <2>3. CASE reg' # due'
    <3>1. PICK value : /\ reg' = Merged(old_value, TEST_MASK, value)
                       /\ due' = Merged(due, TEST_MASK, value)
      BY <2>3 DEF UpdateWrite, reg_write_byte, Merged
    <3>2. Updating /\ raced' = raced
      BY DEF UpdateWrite, reg_write_byte, TransferFails, Updating
    <3>3. Xor(old_value, reg) \subseteq raced /\ Xor(reg, due) \subseteq raced \ TEST_MASK
      BY <3>2 DEF RegInv, Fresh
    <3>4. Xor(Merged(old_value, TEST_MASK, value), Merged(due, TEST_MASK, value))
            \subseteq raced \ TEST_MASK
      BY <3>3, XorMerged
    <3>5. Xor(reg', due') \subseteq raced' \ TEST_MASK
      BY <3>1, <3>2, <3>4
    <3> QED
      BY <2>1, <3>5 DEF Fresh, Updating, Xor
  <2> QED
    BY <2>2, <2>3
<1>2. Course'
  BY DEF RegInv, Course, Undisturbed, reg_write_byte, TransferFails, UpdateWrite, Merged,
     UpdateResult
<1> QED
  BY <1>1, <1>2 DEF RegInv

-----------------------------------------------------------------------------

\* The invariant holds in every state of the specification.
LEMMA RegInvariance == RegSpec => []RegInv
<1>1. RegInit => RegInv
  BY DEF RegInit, RegInv, Fresh, Course, Undisturbed, Updating, Xor
<1>2. RegInv /\ [RegNext]_regVars => RegInv'
  <2> SUFFICES ASSUME RegInv, [RegNext]_regVars
               PROVE  RegInv'
    OBVIOUS
  <2>1. CASE RegNext
    BY <2>1, SensorStep, FailedReadStep, MainReadStep, MainWriteStep, UpdateReadStep,
       UpdateWriteStep DEF RegNext, Update, NoopUpdate
  <2>2. CASE UNCHANGED regVars
    BY <2>2 DEF RegInv, Fresh, Course, Undisturbed, Updating, UpdateResult, DirectValue, Xor, regVars
  <2> QED
    BY <2>1, <2>2
<1> QED
  BY <1>1, <1>2, PTL DEF RegSpec

\* reg_update_byte is atomic but for the bits that something else changes between
\* its read and its write.
THEOREM UpdatesAtomic == RegSpec => []UpdateAtomic
<1>1. RegInv => UpdateAtomic
  BY DEF RegInv, Fresh, UpdateAtomic
<1> QED
  BY <1>1, RegInvariance, PTL

\* The program leaves the sensor as it found it, or stops for a reason, and on
\* its own never changes a bit outside the mask.
THEOREM RegisterRestored == RegSpec => []RegisterLeft
<1>1. RegInv => RegisterLeft
  BY DEF RegInv, Course, Undisturbed, RegisterLeft
<1> QED
  BY <1>1, RegInvariance, PTL

-----------------------------------------------------------------------------
(* Lab 16: transfers through the PL022. *)

InTransfer == ssp \in {"tnf", "rne"}

Held == Len(rxFifo) + Len(txFifo)

\* Bytes of the transfer that have gone into the controller.
Sent == Len(rx) + (IF ssp = "rne" THEN 1 ELSE 0)

SspData ==
  /\ txFifo \in Seq(SspBytes) /\ rxFifo \in Seq(SspBytes) /\ left \in Seq(SspBytes)
  /\ tx \in Seq(SspBytes) /\ rx \in Seq(SspBytes) /\ late \in Nat /\ Depth \in Nat \ {0}

SspTyped ==
  /\ SspData
  /\ ssp \in {"off", "idle", "tnf", "rne"}
  /\ InTransfer => sspResult = "running" /\ Len(rx) < Len(tx)
  /\ sspResult = "OK" => ~InTransfer /\ Len(rx) = Len(tx)

\* What was read and what the controller holds are what it held before the
\* transfer and then what was sent, as long as none of it can overrun.
Queueing ==
  (InTransfer \/ sspResult = "OK") /\ Len(left) < Depth =>
    rx \o rxFifo \o txFifo = left \o SubSeq(tx, 1, Sent)

\* The controller holds a byte for every answer that came late, and the one the
\* driver waits for.
LateHeld == late < Depth => Held = late + (IF ssp = "rne" THEN 1 ELSE 0)

StartsEmpty == (InTransfer \/ sspResult = "OK") /\ late = 0 => left = <<>>

SspInv == SspTyped /\ Queueing /\ LateHeld /\ StartsEmpty

-----------------------------------------------------------------------------
(* What a step does to the sequence of bytes. *)

\* Two sequences, one after the other.
LEMMA ConcatType ==
  ASSUME NEW S, NEW a \in Seq(S), NEW b \in Seq(S)
  PROVE  a \o b \in Seq(S) /\ Len(a \o b) = Len(a) + Len(b)
BY ConcatProperties

\* Three of them, in either order of joining.
LEMMA ConcatThree ==
  ASSUME NEW a \in Seq(SspBytes), NEW b \in Seq(SspBytes), NEW c \in Seq(SspBytes)
  PROVE  (a \o b) \o c = a \o (b \o c)
BY ConcatAssociative, Z3

\* The first of the second sequence goes to the end of the first one.
LEMMA MoveFirst ==
  ASSUME NEW S, NEW a \in Seq(S), NEW b \in Seq(S), b # <<>>
  PROVE  /\ Head(b) \in S /\ Tail(b) \in Seq(S) /\ Len(Tail(b)) = Len(b) - 1
         /\ Append(a, Head(b)) \in Seq(S) /\ Len(Append(a, Head(b))) = Len(a) + 1
         /\ Append(a, Head(b)) \o Tail(b) = a \o b
<1>1. /\ Head(b) \in S /\ Tail(b) \in Seq(S) /\ Len(Tail(b)) = Len(b) - 1
      /\ \A i \in 1 .. Len(Tail(b)) : Tail(b)[i] = b[i + 1]
  BY HeadTailProperties
<1> DEFINE e == Head(b)
           c == Tail(b)
<1>2. /\ Append(a, e) \in Seq(S) /\ Len(Append(a, e)) = Len(a) + 1
      /\ Append(a, e) = a \o <<e>>
  BY <1>1, AppendProperties, AppendIsConcat
<1>3. <<e>> \o c = b
  <2>1. Len(b) \in 1 .. Len(b) /\ 1 \in 1 .. Len(b) /\ b[1] = e
    BY <1>1
  <2>2. SubSeq(b, 1, Len(b)) = <<b[1]>> \o SubSeq(b, 1 + 1, Len(b))
    BY <2>1, SubSeqRecursiveFirst
  <2>3. SubSeq(b, 1, Len(b)) = b /\ c = SubSeq(b, 2, Len(b))
    BY SubSeqFull, TailIsSubSeq
  <2> QED
    BY <2>1, <2>2, <2>3
<1>4. (a \o <<e>>) \o c = a \o (<<e>> \o c)
  <2>1. <<e>> \in Seq(S) /\ c \in Seq(S)
    BY <1>1
  <2> HIDE DEF e, c
  <2> QED
    BY <2>1, ConcatAssociative, Z3
<1> QED
  BY <1>1, <1>2, <1>3, <1>4

\* Appending to the last of two sequences.
LEMMA AppendBehind ==
  ASSUME NEW S, NEW a \in Seq(S), NEW b \in Seq(S), NEW e \in S
  PROVE  a \o Append(b, e) = Append(a \o b, e)
<1>1. Append(b, e) = b \o <<e>> /\ <<e>> \in Seq(S) /\ a \o b \in Seq(S)
  BY AppendIsConcat, ConcatType
<1>2. Append(a \o b, e) = (a \o b) \o <<e>>
  BY <1>1, AppendIsConcat
<1> QED
  BY <1>1, <1>2, ConcatAssociative, Z3

\* One byte more of the transfer.
LEMMA SubSeqNext ==
  ASSUME NEW S, NEW a \in Seq(S), NEW n \in Nat, n < Len(a)
  PROVE  a[n + 1] \in S /\ SubSeq(a, 1, n + 1) = Append(SubSeq(a, 1, n), a[n + 1])
<1>1. n + 1 \in 1 .. Len(a) /\ 1 \in 1 .. Len(a) /\ n + 1 \in 1 .. Len(a) /\ n + 1 - 1 = n
  OBVIOUS
<1>2. a[n + 1] \in S /\ SubSeq(a, 1, n) \in Seq(S)
  <2>1. \A i \in 1 .. n : a[i] \in S
    BY <1>1
  <2> QED
    BY <1>1, <2>1, SubSeqProperties
<1>3. SubSeq(a, 1, n + 1) = SubSeq(a, 1, n + 1 - 1) \o <<a[n + 1]>>
  BY <1>1, SubSeqRecursiveSecond
<1> QED
  BY <1>1, <1>2, <1>3, AppendIsConcat

-----------------------------------------------------------------------------
(* One lemma per step. *)

\* While a transfer runs, or after its OK, the controller holds what it held
\* before and the byte the driver waits for.
LEMMA QueueLength ==
  ASSUME SspTyped, Queueing, InTransfer \/ sspResult = "OK", Len(left) < Depth
  PROVE  Held = Len(left) + (IF ssp = "rne" THEN 1 ELSE 0)
<1> USE DEF SspData
<1>0. SspData
  BY DEF SspTyped
<1>1. rx \o rxFifo \o txFifo = left \o SubSeq(tx, 1, Sent)
  BY DEF Queueing
<1>2. Len(rx \o rxFifo \o txFifo) = Len(rx) + Len(rxFifo) + Len(txFifo)
  BY <1>0, ConcatType
<1>3. Sent \in 0 .. Len(tx)
  BY <1>0 DEF SspTyped, Sent, InTransfer
<1>4. SubSeq(tx, 1, Sent) \in Seq(SspBytes) /\ Len(SubSeq(tx, 1, Sent)) = Sent
  <2>1. \A i \in 1 .. Sent : tx[i] \in SspBytes
    BY <1>0, <1>3
  <2> QED
    BY <1>0, <1>3, <2>1, SubSeqProperties
<1>5. Len(left \o SubSeq(tx, 1, Sent)) = Len(left) + Sent
  BY <1>0, <1>4, ConcatType
<1> QED
  BY <1>0, <1>1, <1>2, <1>3, <1>5 DEF Held, Sent

\* The controller shifts an entry: in the counted cases it has room for it.
LEMMA ShiftStep ==
  ASSUME SspInv, Shift
  PROVE  SspInv'
<1> USE DEF SspData
<1>0. SspData /\ SspTyped /\ Queueing /\ LateHeld /\ StartsEmpty
  BY DEF SspInv, SspTyped
<1>1. UNCHANGED <<tx, rx, ssp, sspResult, late, left>> /\ txFifo # <<>>
  BY DEF Shift
<1>2. /\ Head(txFifo) \in SspBytes /\ Tail(txFifo) \in Seq(SspBytes)
      /\ Len(Tail(txFifo)) = Len(txFifo) - 1
      /\ Append(rxFifo, Head(txFifo)) \in Seq(SspBytes)
      /\ Len(Append(rxFifo, Head(txFifo))) = Len(rxFifo) + 1
      /\ Append(rxFifo, Head(txFifo)) \o Tail(txFifo) = rxFifo \o txFifo
  BY <1>0, <1>1, MoveFirst
<1>3. SspTyped'
  BY <1>0, <1>1, <1>2 DEF SspTyped, InTransfer, Shift
<1>4. ASSUME Held <= Depth
      PROVE  Held' = Held /\ rx' \o rxFifo' \o txFifo' = rx \o rxFifo \o txFifo
  <2>1. Len(rxFifo) < Depth
    BY <1>0, <1>1, <1>2, <1>4 DEF Held
  <2>2. rxFifo' = Append(rxFifo, Head(txFifo)) /\ txFifo' = Tail(txFifo)
    BY <2>1 DEF Shift
  <2> DEFINE d == Append(rxFifo, Head(txFifo))
             f == Tail(txFifo)
  <2>3. rx \o d \o f = rx \o rxFifo \o txFifo
    <3>1. rx \in Seq(SspBytes) /\ d \in Seq(SspBytes) /\ f \in Seq(SspBytes)
      BY <1>0, <1>2
    <3>2. d \o f = rxFifo \o txFifo
      BY <1>2
    <3>3. rx \in Seq(SspBytes) /\ rxFifo \in Seq(SspBytes) /\ txFifo \in Seq(SspBytes)
      BY <1>0
    <3> HIDE DEF d, f
    <3>4. (rx \o d) \o f = rx \o (d \o f)
      BY <3>1, ConcatThree
    <3>5. (rx \o rxFifo) \o txFifo = rx \o (rxFifo \o txFifo)
      BY <3>3, ConcatThree
    <3> QED
      BY <3>2, <3>4, <3>5
  <2>4. Held' = Held
    BY <1>0, <1>2, <2>2 DEF Held
  <2> QED
    BY <1>1, <2>2, <2>3, <2>4
<1>5. Queueing'
  <2> SUFFICES ASSUME InTransfer \/ sspResult = "OK", Len(left) < Depth
               PROVE  rx' \o rxFifo' \o txFifo' = left \o SubSeq(tx, 1, Sent)
    BY <1>1 DEF Queueing, InTransfer, Sent
  <2>1. Held <= Depth
    BY <1>0, QueueLength
  <2> QED
    BY <1>0, <1>4, <2>1 DEF Queueing
<1>6. LateHeld'
  <2> SUFFICES ASSUME late < Depth
               PROVE  Held' = late + (IF ssp = "rne" THEN 1 ELSE 0)
    BY <1>1 DEF LateHeld
  <2>1. Held = late + (IF ssp = "rne" THEN 1 ELSE 0) /\ Held <= Depth
    BY <1>0 DEF LateHeld
  <2> QED
    BY <1>4, <2>1
<1>7. StartsEmpty'
  BY <1>0, <1>1 DEF StartsEmpty, InTransfer
<1> QED
  BY <1>3, <1>5, <1>6, <1>7 DEF SspInv

\* Between transfers: initialisation and the interrupt masks.
LEMMA BetweenStep ==
  ASSUME SspInv, Configure \/ Interrupts
  PROVE  SspInv'
<1>1. /\ UNCHANGED <<fifos, tx, rx, sspResult, late, left>> /\ ssp' = "idle"
      /\ ssp \in {"off", "idle"}
  BY DEF Configure, Interrupts
<1> QED
  BY <1>1 DEF SspInv, SspTyped, SspData, Queueing, LateHeld, StartsEmpty, InTransfer, Held,
              Sent, fifos

\* mps2_ssp_transfer is called: nothing is sent yet.
LEMMA TransferCallStep ==
  ASSUME SspInv, TransferCall
  PROVE  SspInv'
<1> USE DEF SspData
<1>0. SspData /\ SspTyped /\ LateHeld
  BY DEF SspInv, SspTyped
<1>1. /\ UNCHANGED <<rxFifo, txFifo, late>> /\ ssp = "idle" /\ ssp' = "tnf"
      /\ sspResult' = "running" /\ rx' = <<>> /\ left' = rxFifo \o txFifo
  BY DEF TransferCall, fifos
<1>2. tx' \in Seq(SspBytes) /\ Len(tx') \in Nat \ {0}
  <2>1. PICK n \in 1 .. SspMaxLen : tx' \in [1 .. n -> SspBytes]
    BY DEF TransferCall
  <2>2. n \in Nat \ {0}
    BY SspAssumption
  <2> QED
    BY <2>1, <2>2
<1>3. left' \in Seq(SspBytes) /\ Len(left') = Held
  BY <1>0, <1>1, ConcatType DEF Held
<1>4. SspTyped'
  BY <1>0, <1>1, <1>2, <1>3 DEF SspTyped, InTransfer
<1>5. Queueing'
  <2>1. Sent' = 0
    BY <1>1 DEF Sent
  <2>2. SubSeq(tx', 1, 0) = <<>>
    BY SubSeqEmpty
  <2>3. left' \o <<>> = left' /\ <<>> \o rxFifo = rxFifo
    BY <1>0, <1>3, ConcatEmptySeq
  <2> QED
    BY <1>1, <2>1, <2>2, <2>3 DEF Queueing
<1>6. LateHeld'
  BY <1>0, <1>1 DEF LateHeld, Held
<1>7. StartsEmpty'
  <2> SUFFICES ASSUME late = 0
               PROVE  left' = <<>>
    BY <1>1 DEF StartsEmpty
  <2>1. Held = 0
    BY <1>0, <1>1 DEF LateHeld
  <2> QED
    BY <1>3, <2>1
<1> QED
  BY <1>4, <1>5, <1>6, <1>7 DEF SspInv

\* A byte goes in.
LEMMA SendByteStep ==
  ASSUME SspInv, SendByte
  PROVE  SspInv'
<1> USE DEF SspData
<1>0. SspData /\ SspTyped /\ Queueing /\ LateHeld /\ StartsEmpty
  BY DEF SspInv, SspTyped
<1> DEFINE e == tx[Len(rx) + 1]
<1>1. /\ UNCHANGED <<rxFifo, tx, rx, sspResult, late, left>> /\ ssp = "tnf" /\ ssp' = "rne"
      /\ txFifo' = Append(txFifo, e)
  BY DEF SendByte
<1>2. /\ Len(rx) < Len(tx) /\ e \in SspBytes
      /\ SubSeq(tx, 1, Len(rx) + 1) = Append(SubSeq(tx, 1, Len(rx)), e)
      /\ SubSeq(tx, 1, Len(rx)) \in Seq(SspBytes)
  <2>1. Len(rx) < Len(tx)
    BY <1>0, <1>1 DEF SspTyped, InTransfer
  <2>2. \A i \in 1 .. Len(rx) : tx[i] \in SspBytes
    BY <1>0, <2>1
  <2>3. SubSeq(tx, 1, Len(rx)) \in Seq(SspBytes)
    BY <1>0, <2>2, SubSeqProperties
  <2> QED
    BY <1>0, <2>1, <2>3, SubSeqNext
<1> HIDE DEF e
<1>3. txFifo' \in Seq(SspBytes) /\ Len(txFifo') = Len(txFifo) + 1
  BY <1>0, <1>1, <1>2, AppendProperties
<1>4. SspTyped'
  BY <1>0, <1>1, <1>2, <1>3 DEF SspTyped, InTransfer
<1>5. Queueing'
  <2> SUFFICES ASSUME Len(left) < Depth
               PROVE  rx \o rxFifo \o txFifo' = left \o SubSeq(tx, 1, Len(rx) + 1)
    BY <1>1 DEF Queueing, Sent
  <2>1. rx \o rxFifo \o txFifo = left \o SubSeq(tx, 1, Len(rx))
    <3>1. Sent = Len(rx)
      BY <1>0, <1>1 DEF Sent
    <3> QED
      BY <1>0, <1>1, <3>1 DEF Queueing, InTransfer
  <2>2. rx \o rxFifo \in Seq(SspBytes) /\ txFifo \in Seq(SspBytes) /\ left \in Seq(SspBytes)
    BY <1>0, ConcatType
  <2>3. (rx \o rxFifo) \o Append(txFifo, e) = Append(rx \o rxFifo \o txFifo, e)
    BY <1>2, <2>2, AppendBehind
  <2>4. left \o Append(SubSeq(tx, 1, Len(rx)), e) = Append(left \o SubSeq(tx, 1, Len(rx)), e)
    BY <1>2, <2>2, AppendBehind
  <2>5. left \o SubSeq(tx, 1, Len(rx) + 1) = Append(left \o SubSeq(tx, 1, Len(rx)), e)
    BY <1>2, <2>4
  <2>6. (rx \o rxFifo) \o Append(txFifo, e) = left \o SubSeq(tx, 1, Len(rx) + 1)
    BY <2>1, <2>3, <2>5
  <2> QED
    BY <1>1, <2>6
<1>6. LateHeld'
  <2> SUFFICES ASSUME late < Depth
               PROVE  Held' = late + 1
    BY <1>1 DEF LateHeld
  <2>1. Held = late
    BY <1>0, <1>1 DEF LateHeld
  <2>2. Held' = Held + 1
    BY <1>0, <1>1, <1>3 DEF Held
  <2> QED
    BY <1>0, <2>1, <2>2
<1>7. StartsEmpty'
  BY <1>0, <1>1 DEF StartsEmpty, InTransfer
<1> QED
  BY <1>4, <1>5, <1>6, <1>7 DEF SspInv

\* The oldest entry is read.
LEMMA ReceiveByteStep ==
  ASSUME SspInv, ReceiveByte
  PROVE  SspInv'
<1> USE DEF SspData
<1>0. SspData /\ SspTyped /\ Queueing /\ LateHeld /\ StartsEmpty
  BY DEF SspInv, SspTyped
<1>1. /\ UNCHANGED <<txFifo, tx, late, left>> /\ ssp = "rne" /\ rxFifo # <<>>
      /\ rx' = Append(rx, Head(rxFifo)) /\ rxFifo' = Tail(rxFifo)
      /\ \/ Len(rx') = Len(tx) /\ ssp' = "idle" /\ sspResult' = "OK"
         \/ Len(rx') # Len(tx) /\ ssp' = "tnf" /\ sspResult' = sspResult
  BY DEF ReceiveByte, Rne, Returned
<1>2. /\ rxFifo' \in Seq(SspBytes) /\ Len(rxFifo') = Len(rxFifo) - 1
      /\ rx' \in Seq(SspBytes) /\ Len(rx') = Len(rx) + 1
      /\ rx' \o rxFifo' = rx \o rxFifo
  <2>1. rx \in Seq(SspBytes) /\ rxFifo \in Seq(SspBytes) /\ rxFifo # <<>>
    BY <1>0, <1>1
  <2>2. /\ Tail(rxFifo) \in Seq(SspBytes) /\ Len(Tail(rxFifo)) = Len(rxFifo) - 1
        /\ Append(rx, Head(rxFifo)) \in Seq(SspBytes)
        /\ Len(Append(rx, Head(rxFifo))) = Len(rx) + 1
        /\ Append(rx, Head(rxFifo)) \o Tail(rxFifo) = rx \o rxFifo
    BY <2>1, MoveFirst
  <2> QED
    BY <1>1, <2>2
<1>3. Len(rx) < Len(tx) /\ sspResult = "running" /\ InTransfer
  BY <1>0, <1>1 DEF SspTyped, InTransfer
<1>4. SspTyped'
  BY <1>0, <1>1, <1>2, <1>3 DEF SspTyped, InTransfer
<1>5. Queueing'
  <2>1. Sent' = Sent
    BY <1>1, <1>2 DEF Sent
  <2> QED
    BY <1>0, <1>1, <1>2, <1>3, <2>1 DEF Queueing
<1>6. LateHeld'
  BY <1>0, <1>1, <1>2 DEF LateHeld, Held
<1>7. StartsEmpty'
  BY <1>0, <1>1, <1>3 DEF StartsEmpty
<1> QED
  BY <1>4, <1>5, <1>6, <1>7 DEF SspInv

\* A wait runs out: for an answer, whose byte stays in the controller, or for
\* room, which only happens when too many answers are late to be counted.
LEMMA TimeoutStep ==
  ASSUME SspInv, TxTimeout \/ RxTimeout
  PROVE  SspInv'
<1> USE DEF SspData
<1>0. SspData /\ SspTyped /\ LateHeld
  BY DEF SspInv, SspTyped
<1>1. /\ UNCHANGED <<rxFifo, txFifo, tx, rx, left>> /\ ssp' = "idle"
      /\ sspResult' \in {"TX_TIMEOUT", "RX_TIMEOUT"}
  BY DEF TxTimeout, RxTimeout, Returned, fifos
<1>2. late' \in Nat
  BY <1>0 DEF TxTimeout, RxTimeout
<1>3. SspTyped'
  BY <1>0, <1>1, <1>2 DEF SspTyped, InTransfer
<1>4. Queueing' /\ StartsEmpty'
  BY <1>1 DEF Queueing, StartsEmpty, InTransfer
<1>5. LateHeld'
  <2>1. CASE TxTimeout
    <3>1. late' = late /\ ssp = "tnf" /\ Len(txFifo) >= Depth
      BY <1>0, <2>1 DEF TxTimeout, Tnf
    <3>2. Held >= Depth
      BY <1>0, <3>1 DEF Held
    <3> QED
      BY <1>0, <3>1, <3>2 DEF LateHeld
  <2>2. CASE RxTimeout
    <3>1. late' = late + 1 /\ ssp = "rne"
      BY <2>2 DEF RxTimeout
    <3> QED
      BY <1>0, <1>1, <3>1 DEF LateHeld, Held
  <2> QED
    BY <2>1, <2>2
<1> QED
  BY <1>3, <1>4, <1>5 DEF SspInv

-----------------------------------------------------------------------------

\* Every step of a transfer keeps it.
LEMMA SspInvariance == SspSpec => []SspInv
<1>1. SspInit => SspInv
  <2> SUFFICES ASSUME SspInit
               PROVE  SspInv
    OBVIOUS
  <2>1. <<>> \in Seq(SspBytes) /\ Len(<<>>) = 0
    OBVIOUS
  <2> QED
    BY <2>1, SspAssumption
       DEF SspInit, SspInv, SspTyped, SspData, Queueing, LateHeld, StartsEmpty, InTransfer, Held
<1>2. SspInv /\ [SspNext]_sspVars => SspInv'
  <2> SUFFICES ASSUME SspInv, [SspNext]_sspVars
               PROVE  SspInv'
    OBVIOUS
  <2>1. CASE SspNext
    BY <2>1, ShiftStep, BetweenStep, TransferCallStep, SendByteStep, ReceiveByteStep,
       TimeoutStep DEF SspNext
  <2>2. CASE UNCHANGED sspVars
    BY <2>2 DEF SspInv, SspTyped, SspData, Queueing, LateHeld, StartsEmpty, InTransfer, Held, Sent,
                sspVars
  <2> QED
    BY <2>1, <2>2
<1> QED
  BY <1>1, <1>2, PTL DEF SspSpec

\* A transfer reads back what it sent, shifted by one byte for every answer that
\* came late before it, and the controller holds exactly these bytes.
THEOREM TransfersShifted == SspSpec => []TransferShifted
<1>1. SspInv => TransferShifted
  <2> SUFFICES ASSUME SspInv
               PROVE  TransferShifted
    OBVIOUS
  <2> USE DEF SspData
  <2>0. SspData /\ SspTyped /\ Queueing /\ LateHeld /\ StartsEmpty
    BY DEF SspInv, SspTyped
  <2>1. ASSUME sspResult = "OK", Len(left) < Depth
        PROVE  rx \o rxFifo \o txFifo = left \o tx /\ Held = Len(left)
    <3>1. ssp # "rne" /\ Len(rx) = Len(tx) /\ Sent = Len(tx)
      BY <2>0, <2>1 DEF SspTyped, InTransfer, Sent
    <3>2. SubSeq(tx, 1, Len(tx)) = tx
      BY <2>0, SubSeqFull
    <3>3. rx \o rxFifo \o txFifo = left \o SubSeq(tx, 1, Sent)
      BY <2>0, <2>1 DEF Queueing
    <3>4. Held = Len(left) + (IF ssp = "rne" THEN 1 ELSE 0)
      BY <2>0, <2>1, QueueLength
    <3>5. Held = Len(left)
      BY <2>0, <3>1, <3>4
    <3> QED
      BY <3>1, <3>2, <3>3, <3>5
  <2>2. ASSUME sspResult = "OK", late = 0
        PROVE  rx = tx
    <3>1. left = <<>> /\ Len(left) < Depth
      BY <2>0, <2>2 DEF StartsEmpty
    <3>2. rx \o rxFifo \o txFifo = tx /\ rxFifo = <<>> /\ txFifo = <<>>
      BY <2>0, <2>1, <2>2, <3>1, ConcatEmptySeq DEF Held
    <3> QED
      BY <2>0, <3>2, ConcatEmptySeq
  <2>3. ssp = "idle" /\ late < Depth => Len(rxFifo) + Len(txFifo) = late
    BY <2>0 DEF LateHeld, Held
  <2> QED
    BY <2>1, <2>2, <2>3 DEF TransferShifted
<1> QED
  BY <1>1, SspInvariance, PTL

-----------------------------------------------------------------------------
(* Lab 18: the enumeration. *)

FunctionLists == Seq([dev : Nat, fn : Nat, multi : BOOLEAN, normal : BOOLEAN])
Entries == [dev : Nat, fn : Nat, multi : BOOLEAN]
Positions ==
  [at : {"off", "device", "function", "read", "counted", "header"},
   dev : 0 .. Devices - 1, fn : 0 .. Functions - 1, reads : Nat]

Found == { <<table[i].dev, table[i].fn>> : i \in DOMAIN table }

\* The visible functions before a place of the scan.
Upto(d, f) == { p \in Visible : Before(p, <<d, f>>) }

EnumTyped == controller \in FunctionLists /\ table \in Seq(Entries) /\ scan \in Positions

Ordered ==
  \A i, j \in DOMAIN table : i < j =>
    Before(<<table[i].dev, table[i].fn>>, <<table[j].dev, table[j].fn>>)

TableCounted ==
  IsFiniteSet(Found) /\ Cardinality(Found) = Len(table) /\ Len(table) <= MaxDevices

\* How far the scan has come at each of its steps.
Progress ==
  /\ scan.at = "device" => scan.fn = 0 /\ Found = Upto(scan.dev, 0)
  /\ scan.at \in {"function", "read"} => Found = Upto(scan.dev, scan.fn)
  /\ scan.at = "counted" => Found = Upto(scan.dev, scan.fn + 1)
  /\ scan.at = "header" => scan.fn = 0 /\ Found = Upto(scan.dev, 1)

\* The device the scan is in.
InDevice ==
  /\ scan.at \in {"function", "read", "counted", "header"} =>
       Present(scan.dev, 0) /\ (scan.fn > 0 => Find(scan.dev, 0).multi)
  /\ scan.at = "read" => Present(scan.dev, scan.fn) /\ Len(table) < MaxDevices

\* Where it ended.
Ended ==
  /\ scan.at # "off" => enumResult = "none"
  /\ scan.at = "off" =>
       \E d, f \in Nat :
         /\ Found = Upto(d, f)
         /\ enumResult = "ARGUMENT" => Len(table) = MaxDevices /\ <<d, f>> \in Visible
  /\ enumResult = "OK" => Found = Visible

EnumInv == EnumTyped /\ Ordered /\ TableCounted /\ Progress /\ InDevice /\ Ended

-----------------------------------------------------------------------------
(* The places of the scan. *)

\* The bounds of the scan.
LEMMA EnumConstants ==
  /\ Devices \in Nat /\ Devices > 0 /\ Functions \in Nat /\ Functions > 1
  /\ MaxDevices \in Nat /\ Controllers \subseteq FunctionLists
BY EnumAssumption DEF FunctionLists

\* A visible function lies on a bus.
LEMMA VisiblePlaces ==
  /\ \A p \in Visible :
       p = <<p[1], p[2]>> /\ p[1] \in 0 .. Devices - 1 /\ p[2] \in 0 .. Functions - 1
  /\ \A d, f \in Nat :
       <<d, f>> \in Visible <=>
         /\ d < Devices /\ f < Functions /\ Present(d, 0) /\ Present(d, f)
         /\ f > 0 => Find(d, 0).multi
<1>1. \A p \in Visible :
        p = <<p[1], p[2]>> /\ p[1] \in 0 .. Devices - 1 /\ p[2] \in 0 .. Functions - 1
  BY DEF Visible
<1>2. ASSUME NEW d \in Nat, NEW f \in Nat
      PROVE  <<d, f>> \in Visible <=>
               /\ d < Devices /\ f < Functions /\ Present(d, 0) /\ Present(d, f)
               /\ f > 0 => Find(d, 0).multi
  <2>1. <<d, f>> \in (0 .. Devices - 1) \X (0 .. Functions - 1) <=> d < Devices /\ f < Functions
    BY EnumConstants
  <2>2. <<d, f>>[1] = d /\ <<d, f>>[2] = f
    OBVIOUS
  <2> QED
    BY <2>1, <2>2 DEF Visible
<1> QED
  BY <1>1, <1>2

\* What lies before a place.
LEMMA UptoPlace ==
  ASSUME NEW d \in Nat, NEW f \in Nat, NEW p
  PROVE  p \in Upto(d, f) <=> p \in Visible /\ (p[1] < d \/ (p[1] = d /\ p[2] < f))
<1>1. <<d, f>>[1] = d /\ <<d, f>>[2] = f
  OBVIOUS
<1> QED
  BY <1>1 DEF Upto, Before

\* A function the scan passes, or adds, and a device it leaves.
LEMMA UptoMoves ==
  ASSUME NEW d \in Nat, NEW f \in Nat
  PROVE  /\ <<d, f>> \notin Visible => Upto(d, f + 1) = Upto(d, f)
         /\ <<d, f>> \in Visible => Upto(d, f + 1) = Upto(d, f) \cup {<<d, f>>}
         /\ <<d, f>> \notin Upto(d, f)
         /\ (\A g \in Nat : f <= g => <<d, g>> \notin Visible) => Upto(d + 1, 0) = Upto(d, f)
<1>1. \A p \in Visible : p = <<p[1], p[2]>> /\ p[1] \in Nat /\ p[2] \in Nat
  BY VisiblePlaces, EnumConstants
<1>2. \A p : p \in Upto(d, f) <=> p \in Visible /\ (p[1] < d \/ (p[1] = d /\ p[2] < f))
  BY UptoPlace
<1>3. \A p : p \in Upto(d, f + 1) <=> p \in Visible /\ (p[1] < d \/ (p[1] = d /\ p[2] < f + 1))
  <2>1. f + 1 \in Nat
    OBVIOUS
  <2> QED
    BY <2>1, UptoPlace
<1>4. \A p : p \in Upto(d + 1, 0) <=> p \in Visible /\ (p[1] < d + 1 \/ (p[1] = d + 1 /\ p[2] < 0))
  <2>1. d + 1 \in Nat /\ 0 \in Nat
    OBVIOUS
  <2> QED
    BY <2>1, UptoPlace
<1>5. \A p \in Visible : p[2] < f + 1 <=> p[2] < f \/ p[2] = f
  BY <1>1
<1>6. <<d, f>>[1] = d /\ <<d, f>>[2] = f /\ ~(d < d) /\ ~(f < f)
  OBVIOUS
<1>7. ASSUME <<d, f>> \notin Visible
      PROVE  Upto(d, f + 1) = Upto(d, f)
  <2>1. \A p \in Visible : p[1] = d => p[2] # f
    BY <1>1, <1>7
  <2>2. \A p : p \in Upto(d, f + 1) <=> p \in Upto(d, f)
    BY <1>2, <1>3, <1>5, <2>1
  <2> QED
    BY <2>2
<1>8. ASSUME <<d, f>> \in Visible
      PROVE  Upto(d, f + 1) = Upto(d, f) \cup {<<d, f>>}
  <2>1. \A p \in Visible : p[1] = d /\ p[2] = f => p = <<d, f>>
    BY <1>1
  <2>2. ASSUME NEW p
        PROVE  p \in Upto(d, f + 1) <=> p \in Upto(d, f) \cup {<<d, f>>}
    <3>1. CASE p = <<d, f>>
      BY <1>3, <1>5, <1>6, <1>8, <3>1
    <3>2. CASE p # <<d, f>>
      BY <1>2, <1>3, <1>5, <2>1, <3>2
    <3> QED
      BY <3>1, <3>2
  <2> QED
    BY <2>2
<1>9. <<d, f>> \notin Upto(d, f)
  BY <1>2, <1>6
<1>10. ASSUME \A g \in Nat : f <= g => <<d, g>> \notin Visible
       PROVE  Upto(d + 1, 0) = Upto(d, f)
  <2>1. \A p \in Visible : p[1] = d => p[2] < f
    <3> TAKE p \in Visible
    <3> HAVE p[1] = d
    <3>1. p = <<d, p[2]>> /\ p[2] \in Nat
      BY <1>1
    <3>2. ~(f <= p[2])
      BY <1>10, <3>1
    <3> QED
      BY <3>1, <3>2
  <2>2. \A p \in Visible : /\ p[1] < d + 1 <=> p[1] < d \/ p[1] = d
                           /\ ~(p[2] < 0)
    BY <1>1
  <2>3. \A p : p \in Upto(d + 1, 0) <=> p \in Upto(d, f)
    BY <1>2, <1>4, <2>1, <2>2
  <2> QED
    BY <2>3
<1> QED
  BY <1>7, <1>8, <1>9, <1>10

\* A device with nothing to see.
LEMMA UptoLeaves ==
  ASSUME NEW d \in Nat, \A g \in Nat : <<d, g>> \notin Visible
  PROVE  Upto(d + 1, 0) = Upto(d, 0)
<1>1. PICK z \in Nat : z = 0
  OBVIOUS
<1>2. \A g \in Nat : z <= g => <<d, g>> \notin Visible
  OBVIOUS
<1>3. Upto(d + 1, 0) = Upto(d, z)
  BY <1>2, UptoMoves
<1> QED
  BY <1>1, <1>3

\* At the start of the scan nothing, at its end everything.
LEMMA UptoEnds == Upto(0, 0) = {} /\ Upto(Devices, 0) = Visible
<1>1. \A p \in Visible : p[1] \in Nat /\ p[2] \in Nat /\ p[1] < Devices
  BY VisiblePlaces, EnumConstants
<1>2. \A p : p \in Upto(0, 0) <=> p \in Visible /\ (p[1] < 0 \/ (p[1] = 0 /\ p[2] < 0))
  BY UptoPlace
<1>3. \A p : p \in Upto(Devices, 0)
              <=> p \in Visible /\ (p[1] < Devices \/ (p[1] = Devices /\ p[2] < 0))
  BY UptoPlace, EnumConstants
<1>4. \A p : p \notin Upto(0, 0)
  BY <1>1, <1>2
<1>5. \A p : p \in Upto(Devices, 0) <=> p \in Visible
  BY <1>1, <1>3
<1> QED
  BY <1>4, <1>5

\* Before the first place there is nothing.
LEMMA UptoStart == Upto(0, 0) = {}
BY UptoEnds

\* sim_find_function finds a function with the address, if there is one.
LEMMA FindFacts ==
  ASSUME controller \in FunctionLists, NEW d, NEW f, Present(d, f)
  PROVE  /\ Find(d, f) \in [dev : Nat, fn : Nat, multi : BOOLEAN, normal : BOOLEAN]
         /\ Find(d, f).dev = d /\ Find(d, f).fn = f
<1> DEFINE Places == At(controller, d, f)
<1>1. Places # {} /\ Places \subseteq DOMAIN controller /\ DOMAIN controller \subseteq Nat
  BY DEF Present, At, FunctionLists
<1>2. PICK m \in Places : \A i \in Places : ~(<<i, m>> \in OpToRel(<, Nat))
  <2> HIDE DEF Places
  <2>1. Places \subseteq Nat
    BY <1>1
  <2> QED
    BY <1>1, <2>1, NatLessThanWellFounded, WFMin, Zenon
<1>3. \A i \in Places : m <= i
  <2> TAKE i \in Places
  <2>1. i \in Nat /\ m \in Nat /\ ~(<<i, m>> \in OpToRel(<, Nat))
    BY <1>1, <1>2
  <2> QED
    BY <2>1 DEF OpToRel
<1> DEFINE c == CHOOSE i \in Places : \A j \in Places : i <= j
<1>4. c \in Places
  BY <1>2, <1>3
<1>5. Find(d, f) = controller[c]
  BY DEF Find
<1> HIDE DEF c
<1>6. c \in DOMAIN controller /\ controller[c].dev = d /\ controller[c].fn = f
  BY <1>4 DEF At
<1>7. controller[c] \in [dev : Nat, fn : Nat, multi : BOOLEAN, normal : BOOLEAN]
  <2>1. \A i \in DOMAIN controller :
          controller[i] \in [dev : Nat, fn : Nat, multi : BOOLEAN, normal : BOOLEAN]
    BY SeqElements DEF FunctionLists
  <2> QED
    BY <1>6, <2>1
<1> QED
  BY <1>5, <1>6, <1>7

-----------------------------------------------------------------------------
(* Steps that several actions share. *)

\* A step of the scan begins inside it.
LEMMA Scanning ==
  ASSUME EnumInv
  PROVE  /\ scan = [at |-> scan.at, dev |-> scan.dev, fn |-> scan.fn, reads |-> scan.reads]
         /\ scan.dev \in Nat /\ scan.dev < Devices /\ scan.fn \in Nat /\ scan.fn < Functions
         /\ scan.dev \in 0 .. Devices - 1 /\ scan.fn \in 0 .. Functions - 1 /\ scan.reads \in Nat
         /\ 0 \in 0 .. Devices - 1 /\ 0 \in 0 .. Functions - 1
BY EnumConstants DEF EnumInv, EnumTyped, Positions

\* At every step the table holds the visible functions before some place.
LEMMA Somewhere ==
  ASSUME EnumInv
  PROVE  \E d, f \in Nat : Found = Upto(d, f)
<1>1. scan.dev \in Nat /\ scan.fn \in Nat /\ scan.fn + 1 \in Nat /\ 0 \in Nat /\ 1 \in Nat
  BY Scanning
<1>2. scan.at \in {"off", "device", "function", "read", "counted", "header"}
  BY DEF EnumInv, EnumTyped, Positions
<1>3. Progress /\ Ended
  BY DEF EnumInv
<1> QED
  BY <1>1, <1>2, <1>3 DEF Progress, Ended

\* A step that changes neither the controller nor the table.
LEMMA ScanMoves ==
  ASSUME EnumInv, UNCHANGED <<controller, table, enumResult>>, scan' \in Positions,
         scan.at # "off", scan'.at # "off", Progress', InDevice'
  PROVE  EnumInv'
<1>1. EnumTyped' /\ Ordered' /\ TableCounted'
  BY DEF EnumInv, EnumTyped, Ordered, TableCounted, Found
<1>2. Ended'
  BY DEF EnumInv, Ended
<1> QED
  BY <1>1, <1>2 DEF EnumInv

\* The enumeration returns.
LEMMA FinishStep ==
  ASSUME EnumInv, NEW result \in {"OK", "ERROR", "ARGUMENT"}, Finish(result),
         result = "OK" => Found = Visible,
         result = "ARGUMENT" =>
           /\ scan.at = "function" /\ Len(table) = MaxDevices
           /\ <<scan.dev, scan.fn>> \in Visible
  PROVE  EnumInv'
<1>1. scan' = Idle /\ enumResult' = result /\ UNCHANGED <<controller, table>>
  BY DEF Finish
<1>2. Found' = Found /\ Visible' = Visible /\ \A d, f : Upto(d, f)' = Upto(d, f)
  BY <1>1 DEF Found, Visible, Upto, Present, Find
<1>3. EnumTyped' /\ Ordered' /\ TableCounted'
  <2>1. Idle \in Positions
    BY Scanning DEF Idle, Positions
  <2> QED
    BY <1>1, <2>1 DEF EnumInv, EnumTyped, Ordered, TableCounted, Found
<1>4. Progress' /\ InDevice'
  BY <1>1 DEF Progress, InDevice, Idle
<1>5. Ended'
  <2>1. \E d, f \in Nat :
          /\ Found = Upto(d, f)
          /\ result = "ARGUMENT" => Len(table) = MaxDevices /\ <<d, f>> \in Visible
    <3>1. CASE result = "ARGUMENT"
      <4>1. Found = Upto(scan.dev, scan.fn) /\ scan.dev \in Nat /\ scan.fn \in Nat
        BY <3>1, Scanning DEF EnumInv, Progress
      <4> QED
        BY <3>1, <4>1
    <3>2. CASE result # "ARGUMENT"
      BY <3>2, Somewhere
    <3> QED
      BY <3>1, <3>2
  <2> QED
    BY <1>1, <1>2, <2>1 DEF Ended, Idle
<1> QED
  BY <1>3, <1>4, <1>5 DEF EnumInv

\* The loop of pcie_scan_bus goes on, when the device holds nothing more.
LEMMA NextDeviceStep ==
  ASSUME EnumInv, scan.at # "off", Found = Upto(scan.dev + 1, 0), NextDevice
  PROVE  EnumInv'
<1>1. CASE scan.dev + 1 = Devices
  <2>1. Finish("OK") /\ Found = Visible
    BY <1>1, UptoEnds DEF NextDevice
  <2> QED
    BY <2>1, FinishStep
<1>2. CASE scan.dev + 1 # Devices
  <2>1. /\ scan' = [Idle EXCEPT !.at = "device", !.dev = scan.dev + 1]
        /\ UNCHANGED <<controller, table, enumResult>>
    BY <1>2 DEF NextDevice
  <2>2. scan' = [at |-> "device", dev |-> scan.dev + 1, fn |-> 0, reads |-> 0]
    BY <2>1 DEF Idle
  <2>3. scan' \in Positions
    BY <1>2, <2>2, Scanning, EnumConstants DEF Positions
  <2>4. Progress'
    <3>1. Found' = Found /\ \A d, f : Upto(d, f)' = Upto(d, f)
      BY <2>1 DEF Found, Visible, Upto, Present, Find
    <3>2. scan'.at = "device" /\ scan'.dev = scan.dev + 1 /\ scan'.fn = 0
      BY <2>2
    <3> QED
      BY <3>1, <3>2 DEF Progress
  <2>5. InDevice'
    BY <2>2 DEF InDevice
  <2> QED
    BY <2>1, <2>2, <2>3, <2>4, <2>5, ScanMoves
<1> QED
  BY <1>1, <1>2

\* The scan goes on inside the device.
LEMMA GoOnStep ==
  ASSUME EnumInv, NEW at \in {"header", "function", "read"}, NEW f \in 0 .. Functions - 1,
         NEW reads \in Nat, GoOn([at |-> at, dev |-> scan.dev, fn |-> f, reads |-> reads]),
         scan.at # "off", Present(scan.dev, 0), f > 0 => Find(scan.dev, 0).multi,
         at = "header" => f = 0 /\ Found = Upto(scan.dev, 1),
         at # "header" => Found = Upto(scan.dev, f),
         at = "read" => Present(scan.dev, f) /\ Len(table) < MaxDevices
  PROVE  EnumInv'
<1>1. /\ scan' = [at |-> at, dev |-> scan.dev, fn |-> f, reads |-> reads]
      /\ UNCHANGED <<controller, table, enumResult>>
  BY DEF GoOn
<1>2. scan'.at = at /\ scan'.dev = scan.dev /\ scan'.fn = f
  BY <1>1
<1>3. scan' \in Positions
  BY <1>1, Scanning DEF Positions
<1>4. Found' = Found /\ \A d, g : Upto(d, g)' = Upto(d, g)
  BY <1>1 DEF Found, Visible, Upto, Present, Find
<1>5. Progress'
  BY <1>2, <1>4 DEF Progress
<1>6. InDevice'
  BY <1>1, <1>2 DEF InDevice, Present, Find
<1> QED
  BY <1>1, <1>2, <1>3, <1>5, <1>6, ScanMoves

\* The loop of pcie_scan_device goes on behind the function the scan is at.
LEMMA NextFunctionStep ==
  ASSUME EnumInv, scan.at \in {"function", "counted"}, Found = Upto(scan.dev, scan.fn + 1),
         scan.fn = 0 => scan.at = "counted", NextFunction
  PROVE  EnumInv'
<1>1. Present(scan.dev, 0) /\ (scan.fn > 0 => Find(scan.dev, 0).multi)
  BY DEF EnumInv, InDevice
<1>2. CASE scan.fn = 0
  <2>1. GoOn([scan EXCEPT !.at = "header"])
    BY <1>2 DEF NextFunction
  <2>2. [scan EXCEPT !.at = "header"] =
          [at |-> "header", dev |-> scan.dev, fn |-> 0, reads |-> scan.reads]
    BY <1>2, Scanning
  <2>3. GoOn([at |-> "header", dev |-> scan.dev, fn |-> 0, reads |-> scan.reads])
    BY <2>1, <2>2
  <2>4. Found = Upto(scan.dev, 1) /\ 0 \in 0 .. Functions - 1 /\ scan.reads \in Nat /\ ~(0 > 0)
    BY <1>2, Scanning
  <2> QED
    BY <1>1, <2>3, <2>4, GoOnStep
<1>3. CASE scan.fn # 0 /\ scan.fn + 1 # Functions
  <2>3. GoOn([at |-> "function", dev |-> scan.dev, fn |-> scan.fn + 1, reads |-> 0])
    BY <1>3 DEF NextFunction, AtFunction
  <2>4. scan.fn + 1 \in 0 .. Functions - 1 /\ scan.fn > 0
    BY <1>3, Scanning, EnumConstants
  <2> QED
    BY <1>1, <2>3, <2>4, GoOnStep
<1>4. CASE scan.fn # 0 /\ scan.fn + 1 = Functions
  <2>1. NextDevice
    BY <1>4 DEF NextFunction
  <2>2. scan.dev \in Nat /\ scan.fn + 1 \in Nat
    BY Scanning
  <2>3. \A g \in Nat : scan.fn + 1 <= g => <<scan.dev, g>> \notin Visible
    BY <1>4, <2>2, VisiblePlaces, EnumConstants
  <2>4. Upto(scan.dev + 1, 0) = Upto(scan.dev, scan.fn + 1)
    BY <2>2, <2>3, UptoMoves
  <2> QED
    BY <2>1, <2>4, NextDeviceStep
<1> QED
  BY <1>2, <1>3, <1>4

-----------------------------------------------------------------------------
(* One lemma per action. *)

\* pcie_enumerate is called, on an empty table.
LEMMA EnumerateStep ==
  ASSUME EnumInv, Enumerate
  PROVE  EnumInv'
<1>1. /\ controller' \in Controllers /\ table' = <<>> /\ enumResult' = "none"
      /\ scan' = [Idle EXCEPT !.at = "device"]
  BY DEF Enumerate
<1>2. scan' = [at |-> "device", dev |-> 0, fn |-> 0, reads |-> 0]
  BY <1>1 DEF Idle
<1>3. EnumTyped'
  <2>1. scan' \in Positions
    BY <1>2, Scanning DEF Positions
  <2>2. table' \in Seq(Entries) /\ controller' \in FunctionLists
    BY <1>1, EnumConstants
  <2> QED
    BY <2>1, <2>2 DEF EnumTyped
<1>4. Found' = {}
  BY <1>1 DEF Found
<1>5. Ordered' /\ TableCounted'
  <2>1. Len(table') = 0 /\ DOMAIN table' = {}
    BY <1>1
  <2>2. IsFiniteSet({}) /\ Cardinality({}) = 0 /\ 0 <= MaxDevices
    BY FS_EmptySet, EnumConstants
  <2>3. Ordered'
    BY <2>1 DEF Ordered
  <2>4. TableCounted'
    BY <1>4, <2>1, <2>2 DEF TableCounted
  <2> QED
    BY <2>3, <2>4
<1>6. Progress' /\ InDevice'
  <2>1. (Upto(0, 0) = {})'
    BY UptoStart, PTL
  <2> QED
    BY <1>2, <1>4, <2>1 DEF Progress, InDevice
<1>7. Ended'
  BY <1>1, <1>2 DEF Ended
<1> QED
  BY <1>3, <1>5, <1>6, <1>7 DEF EnumInv

\* A read is refused.
LEMMA ReadRefusedStep ==
  ASSUME EnumInv, ReadRefused
  PROVE  EnumInv'
BY FinishStep DEF ReadRefused

\* A device that does not answer has nothing to see; otherwise its functions follow.
LEMMA ScanDeviceStep ==
  ASSUME EnumInv, ScanDevice
  PROVE  EnumInv'
<1>1. scan.at = "device" /\ scan.fn = 0 /\ Found = Upto(scan.dev, 0) /\ scan.dev \in Nat
  BY Scanning DEF ScanDevice, EnumInv, Progress
<1>2. CASE ~Present(scan.dev, 0)
  <2>1. \A g \in Nat : <<scan.dev, g>> \notin Visible
    BY <1>1, <1>2, VisiblePlaces
  <2>3. Upto(scan.dev + 1, 0) = Upto(scan.dev, 0)
    BY <1>1, <2>1, UptoLeaves
  <2> QED
    BY <1>1, <1>2, <2>3, NextDeviceStep DEF ScanDevice
<1>3. CASE Present(scan.dev, 0)
  <2>1. [scan EXCEPT !.at = "function"] =
          [at |-> "function", dev |-> scan.dev, fn |-> 0, reads |-> scan.reads]
    BY <1>1, Scanning
  <2>2. GoOn([at |-> "function", dev |-> scan.dev, fn |-> 0, reads |-> scan.reads])
    BY <1>3, <2>1 DEF ScanDevice
  <2>3. 0 \in 0 .. Functions - 1 /\ scan.reads \in Nat /\ ~(0 > 0)
    BY Scanning
  <2> QED
    BY <1>1, <1>3, <2>2, <2>3, GoOnStep
<1> QED
  BY <1>2, <1>3

\* A function is passed, read, or does not fit.
LEMMA ScanFunctionStep ==
  ASSUME EnumInv, ScanFunction
  PROVE  EnumInv'
<1>1. /\ scan.at = "function" /\ Found = Upto(scan.dev, scan.fn)
      /\ Present(scan.dev, 0) /\ (scan.fn > 0 => Find(scan.dev, 0).multi)
  BY DEF ScanFunction, EnumInv, Progress, InDevice
<1>2. scan.dev \in Nat /\ scan.fn \in Nat /\ scan.dev < Devices /\ scan.fn < Functions
  BY Scanning
<1>3. CASE ~Present(scan.dev, scan.fn)
  <2>1. <<scan.dev, scan.fn>> \notin Visible
    BY <1>2, <1>3, VisiblePlaces
  <2>2. Upto(scan.dev, scan.fn + 1) = Upto(scan.dev, scan.fn)
    BY <1>2, <2>1, UptoMoves
  <2>3. scan.fn # 0 /\ NextFunction
    BY <1>1, <1>3 DEF ScanFunction
  <2> QED
    BY <1>1, <2>2, <2>3, NextFunctionStep
<1>4. CASE Present(scan.dev, scan.fn)
  <2>1. <<scan.dev, scan.fn>> \in Visible
    BY <1>1, <1>2, <1>4, VisiblePlaces
  <2>2. Len(table) \in Nat /\ Len(table) <= MaxDevices /\ MaxDevices \in Nat
    BY EnumConstants DEF EnumInv, EnumTyped, TableCounted
  <2>3. CASE Len(table) >= MaxDevices
    <3>1. Finish("ARGUMENT") /\ Len(table) = MaxDevices
      BY <1>4, <2>2, <2>3 DEF ScanFunction
    <3> QED
      BY <1>1, <2>1, <3>1, FinishStep
  <2>4. CASE ~(Len(table) >= MaxDevices)
    <3>1. [scan EXCEPT !.at = "read"] =
            [at |-> "read", dev |-> scan.dev, fn |-> scan.fn, reads |-> scan.reads]
      BY Scanning
    <3>2. GoOn([at |-> "read", dev |-> scan.dev, fn |-> scan.fn, reads |-> scan.reads])
      BY <1>4, <2>4, <3>1 DEF ScanFunction
    <3>3. scan.fn \in 0 .. Functions - 1 /\ scan.reads \in Nat /\ Len(table) < MaxDevices
      BY <2>2, <2>4, Scanning
    <3> QED
      BY <1>1, <1>4, <3>2, <3>3, GoOnStep
  <2> QED
    BY <2>3, <2>4
<1> QED
  BY <1>3, <1>4

\* The header says whether the device has more functions.
LEMMA ScanHeaderStep ==
  ASSUME EnumInv, ScanHeader
  PROVE  EnumInv'
<1>1. /\ scan.at = "header" /\ scan.fn = 0 /\ Found = Upto(scan.dev, 1)
      /\ Present(scan.dev, 0) /\ scan.dev \in Nat
  BY Scanning DEF ScanHeader, EnumInv, Progress, InDevice
<1>2. CASE ~Find(scan.dev, 0).multi
  <2>1. \A g \in Nat : 1 <= g => g > 0
    OBVIOUS
  <2>2. \A g \in Nat : 1 <= g => <<scan.dev, g>> \notin Visible
    BY <1>1, <1>2, <2>1, VisiblePlaces
  <2>3. Upto(scan.dev + 1, 0) = Upto(scan.dev, 1)
    BY <1>1, <2>2, UptoMoves
  <2> QED
    BY <1>1, <1>2, <2>3, NextDeviceStep DEF ScanHeader
<1>3. CASE Find(scan.dev, 0).multi
  <2>2. GoOn([at |-> "function", dev |-> scan.dev, fn |-> 1, reads |-> 0])
    BY <1>3 DEF ScanHeader, AtFunction
  <2>3. 1 \in 0 .. Functions - 1
    BY Scanning, EnumConstants
  <2> QED
    BY <1>1, <1>3, <2>2, <2>3, GoOnStep
<1> QED
  BY <1>2, <1>3

\* An entry that was counted.
LEMMA FunctionCountedStep ==
  ASSUME EnumInv, FunctionCounted
  PROVE  EnumInv'
<1>1. scan.at = "counted" /\ NextFunction /\ Found = Upto(scan.dev, scan.fn + 1)
  BY DEF FunctionCounted, EnumInv, Progress
<1> QED
  BY <1>1, NextFunctionStep

\* A register is read, and after the last one the entry counts.
LEMMA ReadFunctionStep ==
  ASSUME EnumInv, ReadFunction
  PROVE  EnumInv'
<1> DEFINE d == scan.dev
           f == scan.fn
           e == Entry(Find(d, f))
<1>1. /\ scan.at = "read" /\ Found = Upto(d, f) /\ Present(d, 0) /\ Present(d, f)
      /\ (f > 0 => Find(d, 0).multi) /\ Len(table) < MaxDevices
  BY DEF ReadFunction, EnumInv, Progress, InDevice
<1>2. /\ d \in Nat /\ f \in Nat /\ d < Devices /\ f < Functions
      /\ f \in 0 .. Functions - 1 /\ scan.reads \in Nat
  BY Scanning
<1>3. e \in Entries /\ e.dev = d /\ e.fn = f
  <2>1. controller \in FunctionLists
    BY DEF EnumInv, EnumTyped
  <2>2. /\ Find(d, f) \in [dev : Nat, fn : Nat, multi : BOOLEAN, normal : BOOLEAN]
        /\ Find(d, f).dev = d /\ Find(d, f).fn = f
    BY <1>1, <2>1, FindFacts
  <2> QED
    BY <2>2 DEF Entry, Entries
<1>4. CASE scan.reads + 1 < Registers(Find(d, f))
  <2>1. [scan EXCEPT !.reads = scan.reads + 1] =
          [at |-> "read", dev |-> d, fn |-> f, reads |-> scan.reads + 1]
    BY <1>1, Scanning
  <2>2. GoOn([at |-> "read", dev |-> d, fn |-> f, reads |-> scan.reads + 1])
    BY <1>4, <2>1 DEF ReadFunction
  <2>3. scan.reads + 1 \in Nat
    BY <1>2
  <2> QED
    BY <1>1, <1>2, <2>2, <2>3, GoOnStep
<1>5. CASE ~(scan.reads + 1 < Registers(Find(d, f)))
  <2>1. /\ table' = Append(table, e) /\ scan' = [scan EXCEPT !.at = "counted", !.reads = 0]
        /\ UNCHANGED <<controller, enumResult>>
    BY <1>5 DEF ReadFunction
  <2> HIDE DEF e
  <2>2. scan' = [at |-> "counted", dev |-> d, fn |-> f, reads |-> 0]
    BY <2>1, Scanning
  <2>3. table \in Seq(Entries) /\ Len(table) \in Nat /\ DOMAIN table = 1 .. Len(table)
    BY DEF EnumInv, EnumTyped
  <2>4. /\ table' \in Seq(Entries) /\ Len(table') = Len(table) + 1
        /\ DOMAIN table' = 1 .. Len(table) + 1
        /\ \A i \in DOMAIN table : table'[i] = table[i]
        /\ table'[Len(table) + 1] = e
    BY <1>3, <2>1, <2>3, AppendProperties
  <2>5. Found' = Found \cup {<<d, f>>}
    <3>1. <<table'[Len(table) + 1].dev, table'[Len(table) + 1].fn>> = <<d, f>>
      BY <1>3, <2>4
    <3>2. \A i \in DOMAIN table : <<table'[i].dev, table'[i].fn>> = <<table[i].dev, table[i].fn>>
      BY <2>4
    <3>3. DOMAIN table' = DOMAIN table \cup {Len(table) + 1}
      BY <2>3, <2>4
    <3>4. Found = {<<table'[i].dev, table'[i].fn>> : i \in DOMAIN table}
      BY <3>2 DEF Found
    <3>5. Found' = {<<table'[i].dev, table'[i].fn>> : i \in DOMAIN table}
                     \cup {<<table'[Len(table) + 1].dev, table'[Len(table) + 1].fn>>}
      BY <3>3 DEF Found
    <3> QED
      BY <3>1, <3>4, <3>5
  <2>6. /\ <<d, f>> \in Visible /\ Upto(d, f + 1) = Upto(d, f) \cup {<<d, f>>}
        /\ <<d, f>> \notin Upto(d, f)
    BY <1>1, <1>2, VisiblePlaces, UptoMoves
  <2>7. EnumTyped'
    <3>1. scan' \in Positions
      BY <1>2, <2>2, Scanning DEF Positions
    <3> QED
      BY <2>1, <2>4, <3>1 DEF EnumInv, EnumTyped
  <2>8. Ordered'
    <3>1. ASSUME NEW i \in DOMAIN table
          PROVE  Before(<<table[i].dev, table[i].fn>>, <<d, f>>)
      <4>1. <<table[i].dev, table[i].fn>> \in Upto(d, f)
        BY <1>1 DEF Found
      <4> QED
        BY <4>1 DEF Upto
    <3>2. ASSUME NEW i \in DOMAIN table', NEW j \in DOMAIN table', i < j
          PROVE  Before(<<table'[i].dev, table'[i].fn>>, <<table'[j].dev, table'[j].fn>>)
      <4>1. i \in DOMAIN table /\ table'[i] = table[i]
        BY <2>3, <2>4, <3>2
      <4>2. CASE j \in DOMAIN table
        <5>1. Before(<<table[i].dev, table[i].fn>>, <<table[j].dev, table[j].fn>>)
          BY <3>2, <4>1, <4>2 DEF EnumInv, Ordered
        <5> QED
          BY <2>4, <4>1, <4>2, <5>1
      <4>3. CASE j = Len(table) + 1
        BY <1>3, <2>4, <3>1, <4>1, <4>3
      <4> QED
        BY <2>3, <2>4, <3>2, <4>2, <4>3
    <3> QED
      BY <3>2 DEF Ordered
  <2>9. TableCounted'
    <3>1. IsFiniteSet(Found) /\ Cardinality(Found) = Len(table)
      BY DEF EnumInv, TableCounted
    <3>2. <<d, f>> \notin Found
      BY <1>1, <2>6
    <3>3. /\ IsFiniteSet(Found \cup {<<d, f>>})
          /\ Cardinality(Found \cup {<<d, f>>}) = Len(table) + 1
      BY <3>1, <3>2, FS_AddElement
    <3>4. Len(table) + 1 <= MaxDevices
      BY <1>1, <2>3, EnumConstants
    <3> QED
      BY <2>4, <2>5, <3>3, <3>4 DEF TableCounted
  <2>10. Progress'
    <3>1. Upto(d, f + 1)' = Upto(d, f + 1) /\ scan'.at = "counted" /\ scan'.dev = d /\ scan'.fn = f
      BY <2>1, <2>2 DEF Upto, Visible, Present, Find
    <3>2. Found' = Upto(d, f + 1)
      BY <1>1, <2>5, <2>6
    <3>3. Found' = Upto(scan.dev, scan.fn + 1)'
      BY <2>1, <2>2, <3>2 DEF Upto, Visible, Present, Find
    <3> QED
      BY <3>1, <3>3 DEF Progress
  <2>11. InDevice'
    BY <1>1, <2>1, <2>2 DEF InDevice, Present, Find
  <2>12. Ended'
    BY <1>1, <2>1, <2>2 DEF EnumInv, Ended
  <2> QED
    BY <2>7, <2>8, <2>9, <2>10, <2>11, <2>12 DEF EnumInv
<1> QED
  BY <1>4, <1>5

-----------------------------------------------------------------------------

\* It holds before a scan ...
LEMMA EnumInitial == EnumInit => EnumInv
<1> SUFFICES ASSUME EnumInit
             PROVE  EnumInv
  OBVIOUS
<1>1. /\ controller = <<>> /\ table = <<>> /\ enumResult = "none" /\ Len(table) = 0
      /\ DOMAIN table = {} /\ Found = {}
  BY DEF EnumInit, Found
<1>2. scan = [at |-> "off", dev |-> 0, fn |-> 0, reads |-> 0]
  BY DEF EnumInit, Idle
<1>3. EnumTyped
  BY <1>1, <1>2, EnumConstants DEF EnumTyped, FunctionLists, Positions
<1>4. Ordered /\ Progress /\ InDevice
  BY <1>1, <1>2 DEF Ordered, Progress, InDevice
<1>5. TableCounted
  BY <1>1, FS_EmptySet, EnumConstants DEF TableCounted
<1>6. Ended
  <2>1. Found = Upto(0, 0) /\ 0 \in Nat
    BY <1>1, UptoEnds
  <2> QED
    BY <1>1, <1>2, <2>1 DEF Ended
<1> QED
  BY <1>3, <1>4, <1>5, <1>6 DEF EnumInv

\* ... and every access keeps it.
LEMMA EnumInvariance == EnumSpec => []EnumInv
<1>1. EnumInv /\ [EnumNext]_enumVars => EnumInv'
  <2> SUFFICES ASSUME EnumInv, [EnumNext]_enumVars
               PROVE  EnumInv'
    OBVIOUS
  <2>1. CASE EnumNext
    BY <2>1, EnumerateStep, ReadRefusedStep, ScanDeviceStep, ScanFunctionStep,
       ReadFunctionStep, FunctionCountedStep, ScanHeaderStep DEF EnumNext
  <2>2. CASE UNCHANGED enumVars
    <3>1. /\ UNCHANGED <<controller, scan, table, enumResult>>
          /\ Found' = Found /\ Visible' = Visible /\ \A d, f : Upto(d, f)' = Upto(d, f)
      BY <2>2 DEF enumVars, Found, Visible, Upto, Present, Find
    <3> QED
      BY <3>1 DEF EnumInv, EnumTyped, Ordered, TableCounted, Progress, InDevice, Ended,
                  Present, Find
  <2> QED
    BY <2>1, <2>2
<1> QED
  BY <1>1, EnumInitial, PTL DEF EnumSpec

\* pcie_enumerate finds the functions software can see, each once and in order,
\* up to the one at which a read failed or the table was full, for any bus, any
\* functions on it and any table.
THEOREM EnumerationFaithful == EnumSpec => []EnumerationExact
<1>1. EnumInv => EnumerationExact
  <2> SUFFICES ASSUME EnumInv
               PROVE  EnumerationExact
    OBVIOUS
  <2>1. PICK d, f \in Nat : Found = Upto(d, f)
    BY Somewhere
  <2>2. Found \subseteq Visible
    BY <2>1 DEF Upto
  <2>3. ASSUME NEW p \in Visible, NEW q \in Found, Before(p, q)
        PROVE  p \in Found
    <3>1. p[1] \in Nat /\ p[2] \in Nat /\ q[1] \in Nat /\ q[2] \in Nat
      BY <2>2, <2>3, VisiblePlaces
    <3>2. q[1] < d \/ (q[1] = d /\ q[2] < f)
      BY <2>1, <2>3, UptoPlace
    <3>3. p[1] < q[1] \/ (p[1] = q[1] /\ p[2] < q[2])
      BY <2>3 DEF Before
    <3>4. p[1] < d \/ (p[1] = d /\ p[2] < f)
      BY <3>1, <3>2, <3>3
    <3> QED
      BY <2>1, <2>3, <3>4, UptoPlace
  <2>4. ASSUME enumResult = "ARGUMENT"
        PROVE  Len(table) = MaxDevices /\ Found # Visible
    <3>1. PICK g, h \in Nat :
            Found = Upto(g, h) /\ Len(table) = MaxDevices /\ <<g, h>> \in Visible
      BY <2>4 DEF EnumInv, Ended
    <3>2. <<g, h>> \notin Upto(g, h)
      BY UptoMoves
    <3> QED
      BY <3>1, <3>2
  <2>5. Ordered /\ TableCounted /\ (enumResult = "OK" => Found = Visible)
    BY DEF EnumInv, Ended
  <2> QED
    BY <2>2, <2>3, <2>4, <2>5 DEF EnumerationExact, Ordered, TableCounted, Found
<1> QED
  BY <1>1, EnumInvariance, PTL

-----------------------------------------------------------------------------
(* Labs 10 to 12: echo. *)

\* A remainder of a sum of two cell numbers.
LEMMA RingSlot ==
  ASSUME NEW n \in Nat, n > 1, NEW k \in 0 .. 2 * n - 1
  PROVE  k % n = IF k < n THEN k ELSE k - n
OBVIOUS

EchoTyped ==
  /\ lab \in {"off", "lab10", "lab11", "lab12"}
  /\ rxbf \in BOOLEAN /\ irq \in BOOLEAN /\ irqen \in BOOLEAN /\ rx_overflow \in BOOLEAN
  /\ data \in Int /\ isrByte \in Int /\ mainByte \in Int /\ arrived \in Nat
  /\ isr \in {"off", "clear", "putc"}
  /\ head \in 0 .. RB_SIZE - 1 /\ tail \in 0 .. RB_SIZE - 1
  /\ cells \in [0 .. RB_SIZE - 1 -> Int]
  /\ text \in Seq(Int) /\ out \in Seq(Int)

\* Where the handler and main can be, and what they have in hand there.
EchoPlace ==
  /\ lab = "off" => pc = "off" /\ isr = "off" /\ out = <<>> /\ ~irqen /\ ~rxbf
  /\ lab = "lab10" => pc = "wfi"
  /\ lab = "lab11" => pc \in {"check", "load", "advance", "putc"} /\ isr # "putc"
  /\ lab = "lab12" => pc \in {"print", "getc", "putc"} /\ isr = "off" /\ ~irqen
  /\ lab # "lab11" => head = tail
  /\ ~irqen => ~irq
  /\ irq /\ isr # "clear" => rxbf
  /\ pc \in {"load", "advance"} => head # tail
  /\ pc = "advance" => mainByte = cells[tail]

\* How much of the banner is out.
Greets ==
  /\ \A i \in DOMAIN out : i <= Len(Greeting) => out[i] = Greeting[i]
  /\ pc = "print" => /\ Len(out) + Len(text) = Len(Greeting)
                     /\ \A i \in DOMAIN text : text[i] = Greeting[Len(out) + i]
  /\ pc \notin {"print", "off"} => Len(out) >= Len(Greeting)

EchoOrdered ==
  /\ Ascending(Stream) /\ ToSet(Stream) \subseteq 1 .. arrived
  /\ rx_overflow \/ 1 .. arrived \subseteq ToSet(Stream) \cup lost

EchoInv == EchoTyped /\ EchoPlace /\ Greets /\ EchoOrdered

-----------------------------------------------------------------------------
(* The banner. *)

\* Sequences of sequences, one after the other, are a sequence.
LEMMA FlattenType ==
  ASSUME NEW S, NEW ss \in Seq(Seq(S))
  PROVE  FlattenSeq(ss) \in Seq(S)
<1> DEFINE Join(f, i) == IF i = 1 THEN ss[i] ELSE f[i - 1] \o ss[i]
           flat == CHOOSE f : f = [i \in 1 .. Len(ss) |-> Join(f, i)]
           Short == {n \in Nat : ~\E f : f = [i \in 1 .. n |-> Join(f, i)]}
           Wrong == {n \in Nat : n \in 1 .. Len(ss) /\ flat[n] \notin Seq(S)}
<1>1. Short = {}
  <2> SUFFICES ASSUME Short # {} PROVE FALSE
    OBVIOUS
  <2>1. PICK m \in Short : \A k \in Short : ~(<<k, m>> \in OpToRel(<, Nat))
    <3> HIDE DEF Short
    <3>1. Short \subseteq Nat
      BY DEF Short
    <3> QED
      BY <3>1, NatLessThanWellFounded, WFMin, Zenon
  <2>2. \A k \in Nat : k < m => k \notin Short
    BY <2>1 DEF OpToRel
  <2>3. CASE m = 0
    <3>1. 1 .. m = {}
      BY <2>3
    <3> DEFINE e == [i \in 1 .. m |-> ss[i]]
    <3>2. e = [i \in 1 .. m |-> Join(e, i)]
      BY <3>1
    <3> QED
      BY <2>1, <3>2
  <2>4. CASE m # 0
    <3>1. m \in Nat /\ m - 1 \in Nat /\ m - 1 \notin Short
      <4>1. m \in Nat
        OBVIOUS
      <4> HIDE DEF Short
      <4> QED
        BY <4>1, <2>2, <2>4
    <3>2. PICK f : f = [i \in 1 .. m - 1 |-> Join(f, i)]
      BY <3>1
    <3> DEFINE g == [i \in 1 .. m |-> IF i = m THEN Join(f, m) ELSE f[i]]
    <3>3. \A i \in 1 .. m : g[i] = Join(g, i)
      <4> TAKE i \in 1 .. m
      <4>1. i # 1 => g[i - 1] = f[i - 1]
        OBVIOUS
      <4>2. i # m => f[i] = Join(f, i)
        <5>1. i # m => i \in 1 .. m - 1
          BY <3>1
        <5> QED
          BY <3>2, <5>1
      <4> QED
        BY <4>1, <4>2
    <3>4. g = [i \in 1 .. m |-> Join(g, i)]
      BY <3>3
    <3> QED
      BY <3>4
  <2> QED
    BY <2>3, <2>4
<1>2. Len(ss) \in Nat /\ Len(ss) \notin Short
  <2>1. Len(ss) \in Nat
    OBVIOUS
  <2> HIDE DEF Short
  <2> QED
    BY <1>1, <2>1
<1>3. \E f : f = [i \in 1 .. Len(ss) |-> Join(f, i)]
  BY <1>2
<1>4. flat = [i \in 1 .. Len(ss) |-> Join(flat, i)]
  BY <1>3
<1>5. FlattenSeq(ss) = IF Len(ss) = 0 THEN ss ELSE flat[Len(ss)]
  BY DEF FlattenSeq
<1> HIDE DEF flat
<1>6. \A i \in 1 .. Len(ss) : flat[i] = IF i = 1 THEN ss[i] ELSE flat[i - 1] \o ss[i]
  BY <1>4
<1>7. Wrong = {}
  <2> SUFFICES ASSUME Wrong # {} PROVE FALSE
    OBVIOUS
  <2>1. PICK m \in Wrong : \A k \in Wrong : ~(<<k, m>> \in OpToRel(<, Nat))
    <3> HIDE DEF Wrong
    <3>1. Wrong \subseteq Nat
      BY DEF Wrong
    <3> QED
      BY <3>1, NatLessThanWellFounded, WFMin, Zenon
  <2>2. m \in 1 .. Len(ss) /\ flat[m] \notin Seq(S) /\ \A k \in Nat : k < m => k \notin Wrong
    BY <2>1 DEF OpToRel
  <2>3. ss[m] \in Seq(S)
    BY <2>2, ElementOfSeq
  <2>4. m # 1
    BY <1>6, <2>2, <2>3
  <2>5. m - 1 \in Nat /\ m - 1 \in 1 .. Len(ss) /\ m - 1 < m
    BY <2>2, <2>4
  <2>6. flat[m - 1] \in Seq(S)
    BY <2>2, <2>5
  <2>7. flat[m] = flat[m - 1] \o ss[m]
    BY <1>6, <2>2, <2>4
  <2> QED
    BY <2>2, <2>3, <2>6, <2>7, ConcatType
<1>8. CASE Len(ss) = 0
  BY <1>5, <1>8
<1>9. CASE Len(ss) # 0
  <2>1. Len(ss) \in Nat /\ Len(ss) \in 1 .. Len(ss) /\ Len(ss) \notin Wrong
    BY <1>2, <1>7, <1>9
  <2> QED
    BY <1>5, <1>9, <2>1
<1> QED
  BY <1>8, <1>9

\* What lab 12 prints is a sequence of codes.
LEMMA GreetingType == Greeting \in Seq(Int) /\ Retarget(Banner) \in Seq(Int)
<1> DEFINE line == [i \in DOMAIN Banner |-> IF Banner[i] = Newline
                                            THEN <<CarriageReturn, Newline>> ELSE <<Banner[i]>>]
<1>1. Banner \in Seq(Int) /\ Len(Banner) \in Nat /\ DOMAIN Banner = 1 .. Len(Banner)
  BY EchoAssumption DEF EchoAssumption
<1>2. \A i \in 1 .. Len(Banner) : line[i] \in Seq(Int)
  BY <1>1 DEF Newline, CarriageReturn
<1>3. line \in Seq(Seq(Int))
  <2>1. line \in [1 .. Len(Banner) -> Seq(Int)]
    BY <1>1, <1>2
  <2> QED
    BY <1>1, <2>1
<1>4. Retarget(Banner) \in Seq(Int)
  BY <1>3, FlattenType DEF Retarget
<1> QED
  BY <1>4 DEF Greeting

-----------------------------------------------------------------------------
(* The ring: what a push and a pop do to the bytes in it. *)

RingOf(n, h, t, c) == [i \in 1 .. (h + n - t) % n |-> c[(t + i - 1) % n]]
RingLen(n, h, t) == IF t <= h THEN h - t ELSE h - t + n
RingCell(n, k) == IF k < n THEN k ELSE k - n

IsRing(n, h, t, c) ==
  n \in Nat \ {0, 1} /\ {h, t} \subseteq 0 .. n - 1 /\ c \in [0 .. n - 1 -> Int]

\* Positions without the remainders.
LEMMA RingFacts ==
  ASSUME NEW n, NEW h, NEW t, NEW c, IsRing(n, h, t, c)
  PROVE  /\ RingLen(n, h, t) \in 0 .. n - 1
         /\ RingOf(n, h, t, c) \in Seq(Int)
         /\ Len(RingOf(n, h, t, c)) = RingLen(n, h, t)
         /\ \A i \in 1 .. RingLen(n, h, t) :
              RingOf(n, h, t, c)[i] = c[RingCell(n, t + i - 1)]
         /\ (h + 1) % n = RingCell(n, h + 1) /\ (t + 1) % n = RingCell(n, t + 1)
<1>0. /\ n \in Nat /\ n > 1 /\ h \in Int /\ 0 <= h /\ h < n /\ t \in Int /\ 0 <= t /\ t < n
      /\ c \in [0 .. n - 1 -> Int]
  BY DEF IsRing
<1>1. (h + n - t) % n = RingLen(n, h, t) /\ RingLen(n, h, t) \in 0 .. n - 1
  <2> DEFINE k == h + n - t
  <2>1. k \in 0 .. 2 * n - 1
    BY <1>0
  <2>2. k % n = IF k < n THEN k ELSE k - n
    <3> HIDE DEF k
    <3> QED
      BY <1>0, <2>1, RingSlot
  <2>3. k % n = RingLen(n, h, t) /\ RingLen(n, h, t) \in 0 .. n - 1
    BY <1>0, <2>2 DEF RingLen
  <2> QED
    BY <2>3
<1>2. \A i \in 1 .. RingLen(n, h, t) :
        (t + i - 1) % n = RingCell(n, t + i - 1) /\ RingCell(n, t + i - 1) \in 0 .. n - 1
  <2> TAKE i \in 1 .. RingLen(n, h, t)
  <2> DEFINE k == t + i - 1
  <2>1. k \in 0 .. 2 * n - 1
    <3> HIDE DEF RingLen
    <3>1. i \in Int /\ 1 <= i /\ i < n
      BY <1>0, <1>1
    <3> QED
      BY <1>0, <3>1
  <2> HIDE DEF k
  <2>2. k % n = IF k < n THEN k ELSE k - n
    BY <1>0, <2>1, RingSlot
  <2>3. k % n = RingCell(n, k) /\ RingCell(n, k) \in 0 .. n - 1
    BY <1>0, <2>1, <2>2 DEF RingCell
  <2> QED
    BY <2>3 DEF k
<1>3. RingOf(n, h, t, c) = [i \in 1 .. RingLen(n, h, t) |-> c[RingCell(n, t + i - 1)]]
  BY <1>1, <1>2 DEF RingOf
<1>4. \A i \in 1 .. RingLen(n, h, t) : c[RingCell(n, t + i - 1)] \in Int
  BY <1>0, <1>2
<1>5. \A k \in {h + 1, t + 1} : k % n = RingCell(n, k)
  <2> TAKE k \in {h + 1, t + 1}
  <2>1. k \in 0 .. 2 * n - 1
    BY <1>0
  <2> QED
    BY <1>0, <2>1, RingSlot DEF RingCell
<1> HIDE DEF RingLen, RingCell
<1>6. /\ RingOf(n, h, t, c) \in Seq(Int)
      /\ Len(RingOf(n, h, t, c)) = RingLen(n, h, t)
  <2> DEFINE l == RingLen(n, h, t)
             f == RingOf(n, h, t, c)
  <2>1. f \in [1 .. l -> Int] /\ l \in Nat
    BY <1>1, <1>3, <1>4
  <2> HIDE DEF l, f
  <2>2. f \in Seq(Int) /\ Len(f) = l
    BY <2>1
  <2> QED
    BY <2>2 DEF l, f
<1> QED
  BY <1>1, <1>3, <1>5, <1>6

\* A push puts its byte behind the others.
Pushed(n, h, t, c, x) ==
  /\ (h + 1) % n \in 0 .. n - 1
  /\ RingOf(n, (h + 1) % n, t, [c EXCEPT ![h] = x]) = Append(RingOf(n, h, t, c), x)
  /\ h # t => [c EXCEPT ![h] = x][t] = c[t]

\* It does unless the ring is full.
LEMMA RingPush ==
  ASSUME NEW n, NEW h, NEW t, NEW c, IsRing(n, h, t, c), NEW x \in Int, (h + 1) % n # t
  PROVE  Pushed(n, h, t, c, x)
<1> DEFINE g == (h + 1) % n
           d == [c EXCEPT ![h] = x]
           old == RingOf(n, h, t, c)
           new == RingOf(n, g, t, d)
<1>1. /\ g = RingCell(n, h + 1) /\ g \in 0 .. n - 1 /\ d \in [0 .. n - 1 -> Int]
      /\ n \in Nat \ {0, 1} /\ h \in 0 .. n - 1 /\ t \in 0 .. n - 1 /\ IsRing(n, g, t, d)
  <2>1. g = RingCell(n, h + 1)
    BY RingFacts
  <2> QED
    BY <2>1 DEF RingCell, IsRing
<1> HIDE DEF g, d
<1>2. RingLen(n, g, t) = RingLen(n, h, t) + 1
  <2>1. g # t
    BY DEF g
  <2> QED
    BY <1>1, <2>1 DEF RingLen, RingCell
<1>3. /\ old \in Seq(Int) /\ Len(old) = RingLen(n, h, t) /\ RingLen(n, h, t) \in Nat
      /\ \A i \in 1 .. RingLen(n, h, t) : old[i] = c[RingCell(n, t + i - 1)]
  BY RingFacts
<1>4. /\ new \in Seq(Int) /\ Len(new) = RingLen(n, g, t)
      /\ \A i \in 1 .. RingLen(n, g, t) : new[i] = d[RingCell(n, t + i - 1)]
  <2> HIDE DEF g, d
  <2>1. IsRing(n, g, t, d)
    BY <1>1
  <2> QED
    BY <2>1, RingFacts
<1>5. \A i \in 1 .. RingLen(n, h, t) :
        RingCell(n, t + i - 1) \in 0 .. n - 1 /\ RingCell(n, t + i - 1) # h
  BY <1>1 DEF RingLen, RingCell
<1>6. RingCell(n, t + RingLen(n, g, t) - 1) = h
  BY <1>1 DEF RingLen, RingCell
<1>7. \A k \in 0 .. n - 1 : d[k] = IF k = h THEN x ELSE c[k]
  BY DEF IsRing, d
<1>8. /\ Append(old, x) \in Seq(Int) /\ Len(Append(old, x)) = RingLen(n, h, t) + 1
      /\ \A i \in 1 .. RingLen(n, h, t) : Append(old, x)[i] = old[i]
      /\ Append(old, x)[RingLen(n, h, t) + 1] = x
  <2> HIDE DEF old
  <2> QED
    BY <1>3, AppendProperties
<1> HIDE DEF g, d, old, new
<1>9. \A i \in 1 .. Len(new) : new[i] = Append(old, x)[i]
  <2> TAKE i \in 1 .. Len(new)
  <2>1. i \in 1 .. RingLen(n, g, t) /\ new[i] = d[RingCell(n, t + i - 1)]
    BY <1>4
  <2>2. CASE i = RingLen(n, g, t)
    <3>1. new[i] = x
      BY <1>1, <1>6, <1>7, <2>1, <2>2
    <3>2. Append(old, x)[i] = x
      BY <1>2, <1>8, <2>2
    <3> QED
      BY <3>1, <3>2
  <2>3. CASE i # RingLen(n, g, t)
    <3>1. i \in 1 .. RingLen(n, h, t)
      BY <1>2, <1>3, <2>1, <2>3
    <3>2. new[i] = c[RingCell(n, t + i - 1)]
      BY <1>5, <1>7, <2>1, <3>1
    <3> QED
      BY <1>3, <1>8, <3>1, <3>2
  <2> QED
    BY <2>2, <2>3
<1>10. new = Append(old, x)
  BY <1>2, <1>4, <1>8, <1>9, SeqEqual
<1> QED
  BY <1>1, <1>7, <1>10 DEF g, d, old, new, Pushed

\* A pop takes the oldest byte.
LEMMA RingPop ==
  ASSUME NEW n, NEW h, NEW t, NEW c, IsRing(n, h, t, c), h # t
  PROVE  /\ (t + 1) % n \in 0 .. n - 1
         /\ RingOf(n, h, t, c) # <<>> /\ Head(RingOf(n, h, t, c)) = c[t]
         /\ RingOf(n, h, (t + 1) % n, c) = Tail(RingOf(n, h, t, c))
<1> DEFINE u == (t + 1) % n
           old == RingOf(n, h, t, c)
           new == RingOf(n, h, u, c)
<1>1. /\ u = RingCell(n, t + 1) /\ u \in 0 .. n - 1
      /\ n \in Nat \ {0, 1} /\ h \in 0 .. n - 1 /\ t \in 0 .. n - 1 /\ IsRing(n, h, u, c)
  <2>1. u = RingCell(n, t + 1)
    BY RingFacts
  <2> QED
    BY <2>1 DEF RingCell, IsRing
<1>2. RingLen(n, h, t) = RingLen(n, h, u) + 1 /\ RingLen(n, h, u) \in Nat
  BY <1>1 DEF RingLen, RingCell
<1>3. /\ old \in Seq(Int) /\ Len(old) = RingLen(n, h, t)
      /\ \A i \in 1 .. RingLen(n, h, t) : old[i] = c[RingCell(n, t + i - 1)]
  BY RingFacts
<1>4. /\ new \in Seq(Int) /\ Len(new) = RingLen(n, h, u)
      /\ \A i \in 1 .. RingLen(n, h, u) : new[i] = c[RingCell(n, u + i - 1)]
  <2> HIDE DEF u
  <2>1. IsRing(n, h, u, c)
    BY <1>1
  <2> QED
    BY <2>1, RingFacts
<1>5. RingCell(n, t + 1 - 1) = t
  BY <1>1 DEF RingCell
<1>6. \A i \in 1 .. RingLen(n, h, u) : RingCell(n, u + i - 1) = RingCell(n, t + (i + 1) - 1)
  BY <1>1 DEF RingLen, RingCell
<1> HIDE DEF u, old, new
<1>7. old # <<>> /\ Head(old) = c[t]
  <2>1. Len(old) # 0 /\ 1 \in 1 .. RingLen(n, h, t)
    BY <1>2, <1>3
  <2>2. old # <<>> /\ old[1] = c[t]
    BY <1>3, <1>5, <2>1
  <2> QED
    BY <1>3, <2>2
<1>8. /\ Tail(old) \in Seq(Int) /\ Len(Tail(old)) = RingLen(n, h, u)
      /\ \A i \in 1 .. RingLen(n, h, u) : Tail(old)[i] = old[i + 1]
  <2>1. /\ Tail(old) \in Seq(Int) /\ Len(Tail(old)) = Len(old) - 1
        /\ \A i \in 1 .. Len(Tail(old)) : Tail(old)[i] = old[i + 1]
    BY <1>3, <1>7, HeadTailProperties
  <2>2. Len(Tail(old)) = RingLen(n, h, u)
    BY <1>2, <1>3, <2>1
  <2> QED
    BY <2>1, <2>2
<1>9. \A i \in 1 .. RingLen(n, h, u) : new[i] = Tail(old)[i]
  <2> TAKE i \in 1 .. RingLen(n, h, u)
  <2>1. i + 1 \in 1 .. RingLen(n, h, t)
    BY <1>2
  <2>2. old[i + 1] = c[RingCell(n, t + (i + 1) - 1)]
    BY <1>3, <2>1
  <2> QED
    BY <1>4, <1>6, <1>8, <2>2
<1>10. new = Tail(old)
  BY <1>4, <1>8, <1>9, SeqEqual
<1> QED
  BY <1>1, <1>7, <1>10 DEF u, old, new

-----------------------------------------------------------------------------
(* Sequences of byte numbers. *)

\* Where the elements of two joined sequences lie.
LEMMA ConcatIndex ==
  ASSUME NEW a \in Seq(Int), NEW b \in Seq(Int)
  PROVE  /\ a \o b \in Seq(Int) /\ Len(a \o b) = Len(a) + Len(b)
         /\ \A i \in 1 .. Len(a) : (a \o b)[i] = a[i]
         /\ \A i \in 1 .. Len(b) : (a \o b)[Len(a) + i] = b[i]
OBVIOUS

\* The elements of a sequence ...
LEMMA SetOf ==
  ASSUME NEW s \in Seq(Int), NEW y
  PROVE  y \in ToSet(s) <=> \E i \in 1 .. Len(s) : y = s[i]
<1>1. DOMAIN s = 1 .. Len(s)
  OBVIOUS
<1> QED
  BY <1>1 DEF ToSet

\* ... those of two joined ones ...
LEMMA SetOfConcat ==
  ASSUME NEW a \in Seq(Int), NEW b \in Seq(Int)
  PROVE  ToSet(a \o b) = ToSet(a) \cup ToSet(b)
<1> DEFINE s == a \o b
<1>1. /\ s \in Seq(Int) /\ Len(s) = Len(a) + Len(b) /\ Len(a) \in Nat /\ Len(b) \in Nat
      /\ \A i \in 1 .. Len(a) : s[i] = a[i]
      /\ \A i \in 1 .. Len(b) : s[Len(a) + i] = b[i]
  BY ConcatIndex
<1> HIDE DEF s
<1>2. \A i \in 1 .. Len(s) :
        \/ i \in 1 .. Len(a)
        \/ i - Len(a) \in 1 .. Len(b) /\ i = Len(a) + (i - Len(a))
  BY <1>1
<1>3. ASSUME NEW y \in ToSet(s)
      PROVE  y \in ToSet(a) \cup ToSet(b)
  <2>0. s \in Seq(Int) /\ y \in ToSet(s)
    BY <1>1
  <2>1. PICK i \in 1 .. Len(s) : y = s[i]
    BY <2>0, SetOf
  <2>2. CASE i \in 1 .. Len(a)
    <3>1. y = a[i]
      BY <1>1, <2>1, <2>2
    <3> QED
      BY <2>2, <3>1, SetOf
  <2>3. CASE i - Len(a) \in 1 .. Len(b) /\ i = Len(a) + (i - Len(a))
    <3> DEFINE k == i - Len(a)
    <3>1. k \in 1 .. Len(b) /\ i = Len(a) + k
      BY <2>3
    <3> HIDE DEF k
    <3>2. y = b[k]
      BY <1>1, <2>1, <3>1
    <3> QED
      BY <3>1, <3>2, SetOf
  <2> QED
    BY <1>2, <2>2, <2>3
<1>4. ASSUME NEW y \in ToSet(a) \cup ToSet(b)
      PROVE  y \in ToSet(s)
  <2>1. CASE y \in ToSet(a)
    <3>1. PICK i \in 1 .. Len(a) : y = a[i]
      BY <2>1, SetOf
    <3>2. i \in 1 .. Len(s) /\ y = s[i]
      BY <1>1, <3>1
    <3> QED
      BY <1>1, <3>2, SetOf
  <2>2. CASE y \in ToSet(b)
    <3>1. PICK i \in 1 .. Len(b) : y = b[i]
      BY <2>2, SetOf
    <3>2. Len(a) + i \in 1 .. Len(s) /\ y = s[Len(a) + i]
      BY <1>1, <3>1
    <3> QED
      BY <1>1, <3>2, SetOf
  <2> QED
    BY <2>1, <2>2
<1> QED
  BY <1>3, <1>4 DEF s

\* ... and of a single one.
LEMMA SetOfOne ==
  ASSUME NEW x
  PROVE  ToSet(<<x>>) = {x} /\ ToSet(<<>>) = {}
BY DEF ToSet

\* A greater number goes behind.
LEMMA AscendingGrows ==
  ASSUME NEW s \in Seq(Int), NEW x \in Int, Ascending(s), \A y \in ToSet(s) : y < x
  PROVE  Ascending(s \o <<x>>)
<1>1. s \o <<x>> \in Seq(Int) /\ Len(s \o <<x>>) = Len(s) + 1
      /\ \A i \in 1 .. Len(s) : (s \o <<x>>)[i] = s[i]
      /\ (s \o <<x>>)[Len(s) + 1] = x
  OBVIOUS
<1>2. \A i \in 1 .. Len(s) : s[i] < x
  BY DEF ToSet
<1> DEFINE t == s \o <<x>>
<1> HIDE DEF t
<1>3. \A i \in 1 .. Len(t) - 1 : t[i] < t[i + 1]
  <2> TAKE i \in 1 .. Len(t) - 1
  <2>1. i \in 1 .. Len(s) /\ Len(t) = Len(s) + 1
    BY <1>1 DEF t
  <2>2. CASE i = Len(s)
    BY <1>1, <1>2, <2>1, <2>2 DEF t
  <2>3. CASE i # Len(s)
    <3>1. i \in 1 .. Len(s) - 1 /\ i + 1 \in 1 .. Len(s)
      BY <2>1, <2>3
    <3>2. s[i] < s[i + 1]
      BY <3>1 DEF Ascending
    <3> QED
      BY <1>1, <2>1, <3>1, <3>2 DEF t
  <2> QED
    BY <2>2, <2>3
<1> QED
  BY <1>3 DEF t, Ascending

\* What is left ascends when the second of three is taken out.
LEMMA AscendingDrop ==
  ASSUME NEW a \in Seq(Int), NEW x \in Int, NEW b \in Seq(Int), Ascending((a \o <<x>>) \o b)
  PROVE  Ascending(a \o b)
<1> DEFINE s == (a \o <<x>>) \o b
           t == a \o b
           n == Len(a)
<1>1. /\ s \in Seq(Int) /\ Len(s) = n + 1 + Len(b)
      /\ \A i \in 1 .. n : s[i] = a[i]
      /\ s[n + 1] = x
      /\ \A i \in 1 .. Len(b) : s[n + 1 + i] = b[i]
  <2>1. /\ a \o <<x>> \in Seq(Int) /\ Len(a \o <<x>>) = n + 1
        /\ \A i \in 1 .. n : (a \o <<x>>)[i] = a[i]
        /\ (a \o <<x>>)[n + 1] = x
    OBVIOUS
  <2> DEFINE c == a \o <<x>>
  <2> HIDE DEF c
  <2>2. c \in Seq(Int) /\ Len(c) = n + 1
    BY <2>1 DEF c
  <2>3. /\ c \o b \in Seq(Int) /\ Len(c \o b) = Len(c) + Len(b)
        /\ \A i \in 1 .. Len(c) : (c \o b)[i] = c[i]
        /\ \A i \in 1 .. Len(b) : (c \o b)[Len(c) + i] = b[i]
    BY <2>2, ConcatIndex
  <2>4. /\ c \o b \in Seq(Int) /\ Len(c \o b) = n + 1 + Len(b)
        /\ \A i \in 1 .. n + 1 : (c \o b)[i] = c[i]
        /\ \A i \in 1 .. Len(b) : (c \o b)[n + 1 + i] = b[i]
    BY <2>2, <2>3
  <2> QED
    BY <2>1, <2>4 DEF c
<1>2. /\ t \in Seq(Int) /\ Len(t) = n + Len(b)
      /\ \A i \in 1 .. n : t[i] = a[i]
      /\ \A i \in 1 .. Len(b) : t[n + i] = b[i]
  OBVIOUS
<1>3. \A i \in 1 .. Len(s) - 1 : s[i] < s[i + 1]
  BY DEF Ascending
<1>4. n \in Nat /\ Len(b) \in Nat
  OBVIOUS
<1>5. /\ \A i \in 1 .. n : a[i] \in Int
      /\ \A i \in 1 .. Len(b) : b[i] \in Int
  OBVIOUS
<1> HIDE DEF s, t, n
<1>6. \A i \in 1 .. n - 1 : t[i] < t[i + 1]
  <2> TAKE i \in 1 .. n - 1
  <2>1. i \in 1 .. n /\ i + 1 \in 1 .. n /\ i \in 1 .. Len(s) - 1
    BY <1>1, <1>4
  <2> QED
    BY <1>1, <1>2, <1>3, <2>1
<1>7. \A j \in 1 .. Len(b) - 1 : t[n + j] < t[n + j + 1]
  <2> TAKE j \in 1 .. Len(b) - 1
  <2>1. /\ j \in 1 .. Len(b) /\ j + 1 \in 1 .. Len(b) /\ n + 1 + j \in 1 .. Len(s) - 1
        /\ n + 1 + j + 1 = n + 1 + (j + 1) /\ n + j + 1 = n + (j + 1)
    BY <1>1, <1>4
  <2>2. s[n + 1 + j] < s[n + 1 + (j + 1)]
    BY <1>3, <2>1
  <2>3. s[n + 1 + j] = b[j] /\ s[n + 1 + (j + 1)] = b[j + 1]
    BY <1>1, <2>1
  <2>4. t[n + j] = b[j] /\ t[n + (j + 1)] = b[j + 1]
    BY <1>2, <2>1
  <2> QED
    BY <2>1, <2>2, <2>3, <2>4
<1>8. ASSUME n > 0, Len(b) > 0
      PROVE  t[n] < t[n + 1]
  <2>1. /\ n \in 1 .. n /\ 1 \in 1 .. Len(b)
        /\ n \in 1 .. Len(s) - 1 /\ n + 1 \in 1 .. Len(s) - 1 /\ n + 1 + 1 = n + 1 + 1
    BY <1>1, <1>4, <1>8
  <2>2. s[n] < s[n + 1] /\ s[n + 1] < s[n + 1 + 1]
    BY <1>3, <2>1
  <2>3. s[n] = a[n] /\ s[n + 1] = x /\ s[n + 1 + 1] = b[1]
    BY <1>1, <2>1
  <2>4. t[n] = a[n] /\ t[n + 1] = b[1]
    BY <1>2, <2>1
  <2> QED
    BY <1>5, <2>1, <2>2, <2>3, <2>4
<1>9. \A i \in 1 .. Len(t) - 1 : t[i] < t[i + 1]
  <2> TAKE i \in 1 .. Len(t) - 1
  <2>1. CASE i < n
    BY <1>4, <1>6, <2>1
  <2>2. CASE i = n
    BY <1>2, <1>4, <1>8, <2>2
  <2>3. CASE i > n
    <3>1. i - n \in 1 .. Len(b) - 1 /\ n + (i - n) = i
      BY <1>2, <1>4, <2>3
    <3> QED
      BY <1>7, <3>1
  <2> QED
    BY <1>4, <2>1, <2>2, <2>3
<1> QED
  BY <1>9 DEF t, Ascending

-----------------------------------------------------------------------------
(* The stream: what is echoed, with main, in the ring, with the handler, and
   in the data register. *)

InMain == InHand(pc \in {"advance", "putc"}, mainByte)
InRing == IF pc = "advance" THEN Tail(Queued) ELSE Queued
InHandler == InHand(isr # "off", isrByte)
OnLine == InHand(rxbf, data)

\* The stream is its parts, and the queue is the ring's.
LEMMA StreamParts ==
  /\ Stream = Echoed \o InMain \o InRing \o InHandler \o OnLine
  /\ Stream' = Echoed' \o InMain' \o InRing' \o InHandler' \o OnLine'
  /\ Queued = RingOf(RB_SIZE, head, tail, cells)
  /\ Queued' = RingOf(RB_SIZE, head', tail', cells')
BY DEF Stream, InMain, InRing, InHandler, OnLine, Queued, RingOf

\* A byte in hand is a sequence of at most one number.
LEMMA InHandType ==
  ASSUME NEW here, NEW b \in Int
  PROVE  InHand(here, b) \in Seq(Int)
BY DEF InHand

\* Associativity, over the integers.
LEMMA ConcatInts ==
  ASSUME NEW a \in Seq(Int), NEW b \in Seq(Int), NEW c \in Seq(Int)
  PROVE  (a \o b) \o c = a \o (b \o c)
BY ConcatAssociative, Z3

\* Its parts are sequences of numbers, and those of the ring make a ring.
LEMMA PartsTyped ==
  ASSUME EchoTyped, EchoPlace
  PROVE  /\ IsRing(RB_SIZE, head, tail, cells)
         /\ Queued \in Seq(Int) /\ Len(Greeting) \in Nat /\ Len(out) \in Nat
         /\ Echoed \in Seq(Int) /\ InMain \in Seq(Int) /\ InRing \in Seq(Int)
         /\ InHandler \in Seq(Int) /\ OnLine \in Seq(Int)
         /\ Echoed \o InMain \in Seq(Int) /\ Echoed \o InMain \o InRing \in Seq(Int)
         /\ Echoed \o InMain \o InRing \o InHandler \in Seq(Int)
<1>1. IsRing(RB_SIZE, head, tail, cells)
  BY EchoAssumption DEF EchoAssumption, EchoTyped, IsRing
<1>2. Queued \in Seq(Int)
  BY <1>1, RingFacts, StreamParts
<1>3. Greeting \in Seq(Int) /\ Len(Greeting) \in Nat /\ out \in Seq(Int) /\ Len(out) \in Nat
  BY GreetingType DEF EchoTyped
<1>4. Echoed \in Seq(Int)
  <2>1. \A i \in Len(Greeting) + 1 .. Len(out) : out[i] \in Int
    BY <1>3
  <2> QED
    BY <1>3, <2>1, SubSeqProperties DEF Echoed
<1>5. InMain \in Seq(Int) /\ InHandler \in Seq(Int) /\ OnLine \in Seq(Int)
  BY InHandType DEF InMain, InHandler, OnLine, EchoTyped
<1>6. InRing \in Seq(Int)
  <2>1. CASE pc = "advance"
    <3>1. Queued # <<>>
      BY <1>1, <2>1, RingPop, StreamParts DEF EchoPlace
    <3> QED
      BY <1>2, <2>1, <3>1, HeadTailProperties DEF InRing
  <2> QED
    BY <1>2, <2>1 DEF InRing
<1> QED
  BY <1>1, <1>2, <1>3, <1>4, <1>5, <1>6, ConcatType

\* A byte on the way out of main: behind the greeting, it is echoed.
LEMMA EchoedGrows ==
  ASSUME EchoTyped, EchoPlace, NEW x \in Int, out' = Append(out, x), lab' = lab,
         Len(out) >= Len(Greeting)
  PROVE  Echoed' = Echoed \o <<x>>
<1>1. Greeting' = Greeting
  BY DEF Greeting
<1>2. Greeting \in Seq(Int) /\ Len(Greeting) \in Nat /\ out \in Seq(Int) /\ Len(out) \in Nat
  BY GreetingType DEF EchoTyped
<1> DEFINE g == Len(Greeting)
           n == Len(out)
<1>3. /\ out' \in Seq(Int) /\ Len(out') = n + 1 /\ out'[n + 1] = x
      /\ \A i \in 1 .. n : out'[i] = out[i]
  BY <1>2, AppendProperties
<1>4. /\ SubSeq(out, g + 1, n) \in Seq(Int)
      /\ Len(SubSeq(out, g + 1, n)) = IF g + 1 <= n THEN n - (g + 1) + 1 ELSE 0
      /\ \A i \in 1 .. n - (g + 1) + 1 : SubSeq(out, g + 1, n)[i] = out[g + 1 + i - 1]
  <2>1. \A i \in g + 1 .. n : out[i] \in Int
    BY <1>2
  <2>2. g + 1 \in Int /\ n \in Int
    BY <1>2
  <2> QED
    BY <2>1, <2>2, SubSeqProperties
<1>5. /\ SubSeq(out', g + 1, n + 1) \in Seq(Int)
      /\ Len(SubSeq(out', g + 1, n + 1)) = IF g + 1 <= n + 1 THEN n + 1 - (g + 1) + 1 ELSE 0
      /\ \A i \in 1 .. n + 1 - (g + 1) + 1 : SubSeq(out', g + 1, n + 1)[i] = out'[g + 1 + i - 1]
  <2>1. \A i \in g + 1 .. n + 1 : out'[i] \in Int
    BY <1>2, <1>3
  <2>2. g + 1 \in Int /\ n + 1 \in Int
    BY <1>2
  <2> QED
    BY <2>1, <2>2, SubSeqProperties
<1> DEFINE s == SubSeq(out, g + 1, n)
           t == SubSeq(out', g + 1, n + 1)
<1>6. s \in Seq(Int) /\ Len(s) = n - g /\ \A i \in 1 .. n - g : s[i] = out[g + i]
  <2>1. \A i \in 1 .. n - g : g + 1 + i - 1 = g + i /\ i \in 1 .. n - (g + 1) + 1
    BY <1>2
  <2> QED
    BY <1>2, <1>4, <2>1
<1>7. t \in Seq(Int) /\ Len(t) = n - g + 1 /\ \A i \in 1 .. n - g + 1 : t[i] = out'[g + i]
  <2>1. \A i \in 1 .. n - g + 1 : g + 1 + i - 1 = g + i /\ i \in 1 .. n + 1 - (g + 1) + 1
    BY <1>2
  <2> QED
    BY <1>2, <1>5, <2>1
<1>8. n - g \in Nat /\ g \in Nat /\ n \in Nat
  BY <1>2
<1> HIDE DEF s, t, g, n
<1>9. /\ s \o <<x>> \in Seq(Int) /\ Len(s \o <<x>>) = n - g + 1
      /\ \A i \in 1 .. n - g : (s \o <<x>>)[i] = s[i]
      /\ (s \o <<x>>)[n - g + 1] = x
  <2>1. /\ s \o <<x>> \in Seq(Int) /\ Len(s \o <<x>>) = Len(s) + 1
        /\ \A i \in 1 .. Len(s) : (s \o <<x>>)[i] = s[i]
        /\ (s \o <<x>>)[Len(s) + 1] = x
    BY <1>6
  <2> QED
    BY <1>6, <2>1
<1>10. \A i \in 1 .. n - g + 1 : t[i] = (s \o <<x>>)[i]
  <2> TAKE i \in 1 .. n - g + 1
  <2>1. CASE i = n - g + 1
    <3>1. g + i = n + 1
      BY <1>8, <2>1
    <3> QED
      BY <1>3, <1>7, <1>9, <2>1, <3>1 DEF n
  <2>2. CASE i # n - g + 1
    <3>1. i \in 1 .. n - g /\ g + i \in 1 .. n
      BY <1>8, <2>2
    <3>2. t[i] = out[g + i]
      BY <1>3, <1>7, <3>1 DEF n
    <3> QED
      BY <1>6, <1>9, <3>1, <3>2
  <2> QED
    BY <2>1, <2>2
<1>11. t = s \o <<x>>
  BY <1>7, <1>9, <1>10, SeqEqual
<1> QED
  BY <1>1, <1>3, <1>11 DEF s, t, g, n, Echoed

\* An empty ring holds nothing.
LEMMA QueueEmpty ==
  ASSUME EchoTyped, EchoPlace, head = tail
  PROVE  Queued = <<>>
<1>1. IsRing(RB_SIZE, head, tail, cells) /\ Queued \in Seq(Int)
  BY PartsTyped
<1>2. Len(Queued) = RingLen(RB_SIZE, head, tail)
  BY <1>1, RingFacts, StreamParts
<1>3. RingLen(RB_SIZE, head, tail) = 0
  BY DEF RingLen, EchoTyped
<1> QED
  BY <1>1, <1>2, <1>3, EmptySeq

\* Steps that move a byte on, or none.
LEMMA StreamKept ==
  ASSUME EchoOrdered, Stream' = Stream, UNCHANGED <<arrived, lost, rx_overflow>>
  PROVE  EchoOrdered'
BY DEF EchoOrdered, Ascending

\* What is echoed changes with the output alone.
LEMMA OutputKept ==
  ASSUME UNCHANGED <<lab, out>>
  PROVE  Greeting' = Greeting /\ Echoed' = Echoed
BY DEF Greeting, Echoed

\* Steps that print nothing.
LEMMA GreetsKept ==
  ASSUME Greets, UNCHANGED <<lab, out>>, pc' = "print" => pc = "print" /\ text' = text,
         pc' \notin {"print", "off"} => Len(out) >= Len(Greeting)
  PROVE  Greets'
BY OutputKept DEF Greets

\* uart_init of each lab.
LEMMA EchoStarts ==
  ASSUME EchoInv, Start
  PROVE  EchoInv'
<1>1. /\ lab = "off" /\ pc = "off" /\ isr = "off" /\ out = <<>> /\ ~irqen /\ ~rxbf /\ ~irq
      /\ head = tail
  BY DEF EchoInv, EchoPlace, Start
<1>2. UNCHANGED <<uartRx, txbf, isr, isrByte, mainByte, ring, out>>
  BY DEF Start
<1>3. \/ lab' = "lab10" /\ irqen' = TRUE /\ pc' = "wfi" /\ text' = <<>>
      \/ lab' = "lab11" /\ irqen' = TRUE /\ pc' = "check" /\ text' = <<>>
      \/ lab' = "lab12" /\ irqen' = FALSE /\ pc' = "print" /\ text' = Retarget(Banner)
  BY DEF Start
<1>4. Greeting \in Seq(Int) /\ Greeting' \in Seq(Int) /\ Retarget(Banner) \in Seq(Int)
  <2>1. Greeting' = IF lab' = "lab12" THEN Retarget(Banner) ELSE <<>>
    BY DEF Greeting
  <2> QED
    BY <2>1, GreetingType
<1>5. EchoTyped'
  <2>1. text' \in Seq(Int) /\ lab' \in {"off", "lab10", "lab11", "lab12"} /\ irqen' \in BOOLEAN
    <3>1. <<>> \in Seq(Int)
      OBVIOUS
    <3> QED
      BY <1>3, <1>4, <3>1
  <2>2. /\ rxbf' = rxbf /\ data' = data /\ irq' = irq /\ arrived' = arrived /\ isr' = isr
        /\ isrByte' = isrByte /\ mainByte' = mainByte /\ head' = head /\ tail' = tail
        /\ cells' = cells /\ rx_overflow' = rx_overflow /\ out' = out
    BY <1>2 DEF uartRx, ring
  <2> QED
    BY <2>1, <2>2 DEF EchoInv, EchoTyped
<1>6. EchoPlace'
  BY <1>1, <1>2, <1>3 DEF EchoPlace, uartRx, ring
<1>7. Greets'
  <2>1. pc' = "print" => Greeting' = text'
    BY <1>3 DEF Greeting
  <2>2. pc' # "print" => Greeting' = <<>>
    BY <1>3 DEF Greeting
  <2>3. out' = <<>> /\ Len(out') = 0 /\ DOMAIN out' = {}
    BY <1>1, <1>2
  <2>4. ASSUME pc' = "print"
        PROVE  /\ Len(out') + Len(text') = Len(Greeting')
               /\ \A i \in DOMAIN text' : text'[i] = Greeting'[Len(out') + i]
    <3>1. text' \in Seq(Int) /\ Greeting' = text' /\ Len(text') \in Nat
      BY <1>4, <2>1, <2>4
    <3>2. \A i \in DOMAIN text' : Len(out') + i = i
      BY <2>3, <3>1
    <3> QED
      BY <2>3, <3>1, <3>2
  <2>5. pc' # "print" => Len(out') >= Len(Greeting')
    BY <2>2, <2>3
  <2> QED
    BY <2>3, <2>4, <2>5 DEF Greets
<1>8. Stream' = Stream
  <2>1. Echoed = <<>> /\ Echoed' = <<>>
    <3>1. Len(Greeting) \in Nat /\ Len(Greeting') \in Nat /\ Len(out) = 0 /\ Len(out') = 0
      BY <1>1, <1>2, <1>4
    <3>2. 0 < Len(Greeting) + 1 /\ 0 < Len(Greeting') + 1
      BY <3>1
    <3>3. /\ Echoed = SubSeq(out, Len(Greeting) + 1, 0)
          /\ Echoed' = SubSeq(out', Len(Greeting') + 1, 0)
      BY <3>1 DEF Echoed
    <3> QED
      BY <3>1, <3>2, <3>3, SubSeqEmpty
  <2>2. Queued' = Queued
    BY <1>2 DEF Queued, ring
  <2>3. InMain' = InMain /\ InRing' = InRing /\ InHandler' = InHandler /\ OnLine' = OnLine
    BY <1>1, <1>2, <1>3, <2>2 DEF InMain, InRing, InHandler, OnLine, InHand, uartRx, ring
  <2> QED
    BY <2>1, <2>3, StreamParts
<1>9. EchoOrdered'
  BY <1>2, <1>8, StreamKept DEF EchoInv, uartRx, ring
<1> QED
  BY <1>5, <1>6, <1>7, <1>9 DEF EchoInv

\* A byte comes: behind the others, in the place of the one that waits, or
\* lost itself.
LEMMA EchoArrives ==
  ASSUME EchoInv, Arrive
  PROVE  EchoInv'
<1> DEFINE B == Echoed \o InMain \o InRing \o InHandler
<1>1. /\ UNCHANGED <<mainVars, txbf, isr, isrByte, ring, out>>
      /\ lab # "off" /\ arrived' = arrived + 1 /\ rxbf' = TRUE /\ irq' = irqen
      /\ data' \in IF rxbf THEN {data, arrived + 1} ELSE {arrived + 1}
      /\ lost' = IF ~rxbf THEN lost ELSE lost \cup ({data, arrived + 1} \ {data'})
  BY DEF Arrive
<1>2. arrived \in Nat /\ data \in Int
  BY DEF EchoInv, EchoTyped
<1>3. EchoTyped'
  BY <1>1, <1>2 DEF EchoInv, EchoTyped, mainVars, ring
<1>4. EchoPlace'
  BY <1>1 DEF EchoInv, EchoPlace, EchoTyped, mainVars, ring
<1>5. Greets'
  BY <1>1, GreetsKept DEF EchoInv, EchoPlace, EchoTyped, Greets, mainVars
<1>6. Stream = B \o OnLine /\ Stream' = B \o <<data'>> /\ B \in Seq(Int) /\ OnLine \in Seq(Int)
  <2>1. Echoed' = Echoed /\ Queued' = Queued
    BY <1>1, OutputKept DEF Queued, mainVars, ring
  <2>2. InMain' = InMain /\ InRing' = InRing /\ InHandler' = InHandler /\ OnLine' = <<data'>>
    BY <1>1, <2>1 DEF InMain, InRing, InHandler, OnLine, InHand, mainVars, ring
  <2> QED
    BY <2>1, <2>2, StreamParts, PartsTyped DEF EchoInv
<1>7. OnLine = IF rxbf THEN <<data>> ELSE <<>>
  BY DEF OnLine, InHand
<1> HIDE DEF B
<1>8. ToSet(Stream) = ToSet(B) \cup ToSet(OnLine) /\ ToSet(Stream') = ToSet(B) \cup {data'}
  <2>1. data' \in Int /\ <<data'>> \in Seq(Int)
    BY <1>1, <1>2
  <2> QED
    BY <1>6, <2>1, SetOfConcat, SetOfOne
<1>9. ToSet(OnLine) = IF rxbf THEN {data} ELSE {}
  BY <1>7, SetOfOne
<1>10. Ascending(Stream) /\ ToSet(Stream) \subseteq 1 .. arrived
       /\ (rx_overflow \/ 1 .. arrived \subseteq ToSet(Stream) \cup lost)
  BY DEF EchoInv, EchoOrdered
<1>11. Ascending(B)
  <2>1. CASE rxbf
    <3>1. <<>> \in Seq(Int) /\ (B \o <<data>>) \o <<>> = B \o <<data>> /\ B \o <<>> = B
      BY <1>2, <1>6
    <3>2. Ascending((B \o <<data>>) \o <<>>)
      BY <1>6, <1>7, <1>10, <2>1, <3>1
    <3>3. Ascending(B \o <<>>)
      BY <1>2, <1>6, <3>1, <3>2, AscendingDrop
    <3> QED
      BY <3>1, <3>3
  <2>2. CASE ~rxbf
    <3>1. B \o <<>> = B
      BY <1>6
    <3> QED
      BY <1>6, <1>7, <1>10, <2>2, <3>1
  <2> QED
    BY <2>1, <2>2
<1>12. rx_overflow' = rx_overflow
  BY <1>1 DEF ring
<1>13. CASE data' = arrived + 1
  <2>1. Ascending(Stream')
    <3>1. \A y \in ToSet(B) : y < arrived + 1
      BY <1>2, <1>8, <1>10
    <3>2. Ascending(B \o <<arrived + 1>>)
      <4>1. arrived + 1 \in Int
        BY <1>2
      <4> QED
        BY <1>6, <1>11, <3>1, <4>1, AscendingGrows
    <3> QED
      BY <1>6, <1>13, <3>2
  <2>2. ToSet(Stream') \subseteq 1 .. arrived'
    BY <1>1, <1>2, <1>8, <1>10, <1>13
  <2>3. rxbf => data \in lost'
    <3>1. rxbf => data \in 1 .. arrived
      BY <1>8, <1>9, <1>10
    <3> QED
      BY <1>1, <1>2, <1>13, <3>1
  <2>4. ASSUME ~rx_overflow, NEW y \in 1 .. arrived'
        PROVE  y \in ToSet(Stream') \cup lost'
    <3>1. CASE y = arrived + 1
      BY <1>8, <1>13, <3>1
    <3>2. CASE y # arrived + 1
      <4>1. y \in 1 .. arrived
        BY <1>1, <1>2, <3>2
      <4>2. y \in ToSet(B) \cup ToSet(OnLine) \cup lost
        BY <1>8, <1>10, <2>4, <4>1
      <4>3. lost \subseteq lost'
        BY <1>1
      <4> QED
        BY <1>8, <1>9, <2>3, <4>2, <4>3
    <3> QED
      BY <3>1, <3>2
  <2>5. EchoOrdered'
    BY <1>12, <2>1, <2>2, <2>4 DEF EchoOrdered, Ascending
  <2> QED
    BY <1>3, <1>4, <1>5, <2>5 DEF EchoInv
<1>14. CASE data' # arrived + 1
  <2>1. rxbf /\ data' = data /\ arrived + 1 \in lost' /\ lost \subseteq lost'
    BY <1>1, <1>14
  <2>2. Stream' = Stream
    BY <1>6, <1>7, <2>1
  <2>3. Ascending(Stream') /\ ToSet(Stream') \subseteq 1 .. arrived'
    BY <1>1, <1>2, <1>10, <2>2
  <2>4. ASSUME ~rx_overflow, NEW y \in 1 .. arrived'
        PROVE  y \in ToSet(Stream') \cup lost'
    <3>1. CASE y = arrived + 1
      BY <2>1, <3>1
    <3>2. CASE y # arrived + 1
      <4>1. y \in 1 .. arrived
        BY <1>1, <1>2, <3>2
      <4> QED
        BY <1>10, <2>1, <2>2, <2>4, <4>1
    <3> QED
      BY <3>1, <3>2
  <2>5. EchoOrdered'
    BY <1>12, <2>3, <2>4 DEF EchoOrdered, Ascending
  <2> QED
    BY <1>3, <1>4, <1>5, <2>5 DEF EchoInv
<1> QED
  BY <1>13, <1>14

-----------------------------------------------------------------------------
(* The steps. *)

\* An empty sequence adds nothing.
LEMMA EmptyNeutral ==
  ASSUME NEW a \in Seq(Int)
  PROVE  a \o <<>> = a /\ <<>> \o a = a
OBVIOUS

\* A byte goes out behind the greeting.
LEMMA GreetsGrows ==
  ASSUME EchoTyped, Greets, NEW x \in Int, out' = Append(out, x), lab' = lab,
         Len(out) >= Len(Greeting), pc' # "print"
  PROVE  Greets' /\ out' \in Seq(Int)
<1>1. Greeting' = Greeting /\ Len(Greeting) \in Nat
  BY GreetingType DEF Greeting
<1>2. out \in Seq(Int) /\ Len(out) \in Nat /\ DOMAIN out = 1 .. Len(out)
  BY DEF EchoTyped
<1>3. /\ out' \in Seq(Int) /\ Len(out') = Len(out) + 1 /\ DOMAIN out' = 1 .. Len(out) + 1
      /\ \A i \in 1 .. Len(out) : out'[i] = out[i]
  BY <1>2, AppendProperties
<1>4. \A i \in DOMAIN out' : i <= Len(Greeting') => out'[i] = Greeting'[i]
  <2> SUFFICES ASSUME NEW i \in DOMAIN out', i <= Len(Greeting) PROVE out'[i] = Greeting[i]
    BY <1>1
  <2>1. i \in 1 .. Len(out)
    BY <1>1, <1>2, <1>3
  <2> QED
    BY <1>2, <1>3, <2>1 DEF Greets
<1>5. Len(out') >= Len(Greeting')
  BY <1>1, <1>2, <1>3
<1> QED
  BY <1>3, <1>4, <1>5 DEF Greets

\* The transmitter has room again.
LEMMA EchoTransmitted ==
  ASSUME EchoInv, Transmitted
  PROVE  EchoInv'
<1>1. UNCHANGED <<mainVars, uartRx, isr, isrByte, ring, out>>
  BY DEF Transmitted
<1>2. EchoTyped' /\ EchoPlace'
  BY <1>1 DEF EchoInv, EchoTyped, EchoPlace, mainVars, uartRx, ring
<1>3. Greets'
  BY <1>1, GreetsKept DEF EchoInv, Greets, mainVars
<1>4. Stream' = Stream
  BY <1>1, OutputKept DEF Stream, Queued, InHand, mainVars, uartRx, ring
<1>5. EchoOrdered'
  BY <1>1, <1>4, StreamKept DEF EchoInv, uartRx, ring
<1> QED
  BY <1>2, <1>3, <1>5 DEF EchoInv

\* From the data register to the handler.
LEMMA EchoIsrRead ==
  ASSUME EchoInv, IsrRead
  PROVE  EchoInv'
<1>1. /\ isr = "off" /\ irq /\ isr' = "clear" /\ isrByte' = data /\ rxbf' = FALSE
      /\ UNCHANGED <<lab, irqen, pc, mainByte, text, data, irq, arrived, lost, head, tail, cells,
                     rx_overflow, out>>
  BY DEF IsrRead, mainVars, ring
<1>2. EchoTyped'
  BY <1>1 DEF EchoInv, EchoTyped
<1>3. EchoPlace' /\ rxbf
  BY <1>1 DEF EchoInv, EchoPlace
<1>4. Greets'
  BY <1>1, GreetsKept DEF EchoInv, Greets
<1>5. Stream' = Stream
  <2>1. Echoed' = Echoed /\ Queued' = Queued
    BY <1>1, OutputKept DEF Queued
  <2>2. /\ InMain' = InMain /\ InRing' = InRing
        /\ InHandler = <<>> /\ InHandler' = <<data>> /\ OnLine = <<data>> /\ OnLine' = <<>>
    BY <1>1, <1>3, <2>1 DEF InMain, InRing, InHandler, OnLine, InHand
  <2> DEFINE B == Echoed \o InMain \o InRing
  <2>3. B \in Seq(Int) /\ B \o <<data>> \in Seq(Int)
    BY PartsTyped DEF EchoInv, EchoTyped
  <2>4. Stream = B \o <<>> \o <<data>> /\ Stream' = B \o <<data>> \o <<>>
    BY <2>1, <2>2, StreamParts
  <2> HIDE DEF B
  <2> QED
    BY <2>3, <2>4, EmptyNeutral
<1>6. EchoOrdered'
  BY <1>1, <1>5, StreamKept DEF EchoInv
<1> QED
  BY <1>2, <1>3, <1>4, <1>6 DEF EchoInv

\* Lab 10's handler clears its interrupt and keeps its byte.
LEMMA EchoIsrClear10 ==
  ASSUME EchoInv, IsrClear10
  PROVE  EchoInv'
<1>1. /\ isr = "clear" /\ lab = "lab10" /\ isr' = "putc" /\ irq' = FALSE
      /\ UNCHANGED <<lab, irqen, pc, mainByte, text, rxbf, data, isrByte, arrived, lost, head, tail,
                     cells, rx_overflow, out>>
  BY DEF IsrClear10, mainVars, ring
<1>2. EchoTyped' /\ EchoPlace'
  BY <1>1 DEF EchoInv, EchoTyped, EchoPlace
<1>3. Greets'
  BY <1>1, GreetsKept DEF EchoInv, Greets
<1>4. Stream' = Stream
  <2>1. Echoed' = Echoed /\ Queued' = Queued
    BY <1>1, OutputKept DEF Queued
  <2>2. InMain' = InMain /\ InRing' = InRing /\ InHandler' = InHandler /\ OnLine' = OnLine
    BY <1>1, <2>1 DEF InMain, InRing, InHandler, OnLine, InHand
  <2> QED
    BY <2>1, <2>2, StreamParts
<1>5. EchoOrdered'
  BY <1>1, <1>4, StreamKept DEF EchoInv
<1> QED
  BY <1>2, <1>3, <1>5 DEF EchoInv

\* Lab 10's handler echoes what it has in hand.
LEMMA EchoIsrEcho ==
  ASSUME EchoInv, IsrEcho
  PROVE  EchoInv'
<1>1. /\ isr = "putc" /\ isr' = "off" /\ out' = Append(out, isrByte)
      /\ UNCHANGED <<lab, irqen, pc, mainByte, text, rxbf, data, irq, isrByte, arrived, lost, head,
                     tail, cells, rx_overflow>>
  BY DEF IsrEcho, uart_putc, mainVars, uartRx, ring
<1>2. isrByte \in Int /\ lab = "lab10" /\ pc = "wfi" /\ head = tail
  BY <1>1 DEF EchoInv, EchoTyped, EchoPlace
<1>3. Len(out) >= Len(Greeting)
  BY <1>2 DEF EchoInv, Greets
<1>4. Greets' /\ out' \in Seq(Int)
  BY <1>1, <1>2, <1>3, GreetsGrows DEF EchoInv
<1>5. EchoTyped'
  BY <1>1, <1>4 DEF EchoInv, EchoTyped
<1>6. EchoPlace'
  BY <1>1, <1>2 DEF EchoInv, EchoPlace
<1>7. Stream' = Stream
  <2>1. Echoed' = Echoed \o <<isrByte>>
    BY <1>1, <1>2, <1>3, EchoedGrows DEF EchoInv
  <2>2. Queued = <<>>
    BY <1>2, QueueEmpty DEF EchoInv
  <2>3. Queued' = Queued
    BY <1>1 DEF Queued
  <2>4. /\ InMain = <<>> /\ InMain' = <<>> /\ InRing = <<>> /\ InRing' = <<>>
        /\ InHandler = <<isrByte>> /\ InHandler' = <<>> /\ OnLine' = OnLine
    BY <1>1, <1>2, <2>2, <2>3 DEF InMain, InRing, InHandler, OnLine, InHand
  <2>5. Echoed \in Seq(Int) /\ Echoed \o <<isrByte>> \in Seq(Int)
    BY <1>2, PartsTyped DEF EchoInv
  <2> HIDE DEF EchoInv
  <2>6. Stream = Echoed \o <<>> \o <<>> \o <<isrByte>> \o OnLine
    BY <2>4, StreamParts
  <2>7. Stream' = (Echoed \o <<isrByte>>) \o <<>> \o <<>> \o <<>> \o OnLine
    BY <2>1, <2>4, StreamParts
  <2> QED
    BY <2>5, <2>6, <2>7, EmptyNeutral
<1>8. EchoOrdered'
  BY <1>1, <1>7, StreamKept DEF EchoInv
<1> QED
  BY <1>4, <1>5, <1>6, <1>8 DEF EchoInv

\* Lab 11's handler hands its byte to the ring, or drops it and says so.
LEMMA EchoIsrPush ==
  ASSUME EchoInv, IsrPush
  PROVE  EchoInv'
<1>1. /\ isr = "clear" /\ lab = "lab11" /\ isr' = "off" /\ irq' = FALSE
      /\ UNCHANGED <<lab, irqen, pc, mainByte, text, rxbf, data, isrByte, arrived, lost, tail, out>>
  BY DEF IsrPush, mainVars
<1>2. IsRing(RB_SIZE, head, tail, cells) /\ isrByte \in Int
  BY PartsTyped DEF EchoInv, EchoTyped
<1>3. Greets'
  BY <1>1, GreetsKept DEF EchoInv, Greets
<1> DEFINE B == Echoed \o InMain \o InRing
<1>4. /\ B \in Seq(Int) /\ Echoed \o InMain \in Seq(Int) /\ InRing \in Seq(Int)
      /\ OnLine \in Seq(Int) /\ <<isrByte>> \in Seq(Int)
  BY <1>2, PartsTyped DEF EchoInv
<1>5. InMain' = InMain /\ Echoed' = Echoed /\ OnLine' = OnLine
      /\ InHandler = <<isrByte>> /\ InHandler' = <<>>
  BY <1>1, OutputKept DEF InMain, InHandler, OnLine, InHand
<1>6. Stream = (B \o <<isrByte>>) \o OnLine
  BY <1>5, StreamParts
<1>7. CASE rb_full
  <2>1. rx_overflow' = TRUE /\ head' = head /\ cells' = cells
    BY <1>7 DEF IsrPush
  <2>2. EchoTyped' /\ EchoPlace'
    BY <1>1, <2>1 DEF EchoInv, EchoTyped, EchoPlace
  <2>3. InRing' = InRing
    BY <1>1, <2>1 DEF InRing, Queued
  <2>4. Stream' = (B \o <<>>) \o OnLine
    BY <1>5, <2>3, StreamParts
  <2> HIDE DEF B
  <2>5. Stream' = B \o OnLine
    BY <1>4, <2>4, EmptyNeutral
  <2>6. Ascending(Stream) /\ ToSet(Stream) \subseteq 1 .. arrived
    BY DEF EchoInv, EchoOrdered
  <2>7. Ascending(B \o OnLine)
    BY <1>2, <1>4, <1>6, <2>6, AscendingDrop
  <2>8. ToSet(B \o OnLine) \subseteq ToSet(Stream)
    <3>1. B \o <<isrByte>> \in Seq(Int)
      BY <1>4, ConcatType
    <3>2. ToSet(Stream) = ToSet(B \o <<isrByte>>) \cup ToSet(OnLine)
      BY <1>4, <1>6, <3>1, SetOfConcat
    <3>3. ToSet(B \o <<isrByte>>) = ToSet(B) \cup ToSet(<<isrByte>>)
      BY <1>4, SetOfConcat
    <3>4. ToSet(B \o OnLine) = ToSet(B) \cup ToSet(OnLine)
      BY <1>4, SetOfConcat
    <3> QED
      BY <3>2, <3>3, <3>4
  <2>9. Ascending(Stream') /\ ToSet(Stream') \subseteq 1 .. arrived'
    BY <1>1, <2>5, <2>6, <2>7, <2>8
  <2>10. EchoOrdered'
    BY <2>1, <2>9 DEF EchoOrdered, Ascending
  <2> QED
    BY <1>3, <2>2, <2>10 DEF EchoInv
<1>8. CASE ~rb_full
  <2>1. /\ cells' = [cells EXCEPT ![head] = isrByte] /\ head' = (head + 1) % RB_SIZE
        /\ rx_overflow' = rx_overflow /\ (head + 1) % RB_SIZE # tail
    BY <1>8 DEF IsrPush, rb_full
  <2>2. /\ head' \in 0 .. RB_SIZE - 1 /\ (head # tail => cells'[tail] = cells[tail])
        /\ RingOf(RB_SIZE, head', tail, cells')
             = Append(RingOf(RB_SIZE, head, tail, cells), isrByte)
    <3>1. /\ (head + 1) % RB_SIZE \in 0 .. RB_SIZE - 1
          /\ RingOf(RB_SIZE, (head + 1) % RB_SIZE, tail, [cells EXCEPT ![head] = isrByte])
               = Append(RingOf(RB_SIZE, head, tail, cells), isrByte)
          /\ head # tail => [cells EXCEPT ![head] = isrByte][tail] = cells[tail]
      <4>1. IsRing(RB_SIZE, head, tail, cells)
        BY <1>2
      <4>2. isrByte \in Int
        BY <1>2
      <4>3. (head + 1) % RB_SIZE # tail
        BY <2>1
      <4>4. Pushed(RB_SIZE, head, tail, cells, isrByte)
        BY <4>1, <4>2, <4>3, RingPush
      <4> QED
        BY <4>4 DEF Pushed
    <3>2. cells' = [cells EXCEPT ![head] = isrByte]
      BY <2>1
    <3>3. head' = (head + 1) % RB_SIZE
      BY <2>1
    <3> QED
      BY <3>1, <3>2, <3>3, Zenon
  <2>3. cells' \in [0 .. RB_SIZE - 1 -> Int]
    BY <1>2, <2>1 DEF EchoInv, EchoTyped
  <2>4. EchoTyped'
    BY <1>1, <2>1, <2>2, <2>3 DEF EchoInv, EchoTyped
  <2>5. EchoPlace'
    BY <1>1, <2>1, <2>2 DEF EchoInv, EchoPlace
  <2>6. Queued' = Append(Queued, isrByte) /\ Queued \in Seq(Int)
    BY <1>1, <2>2, StreamParts, PartsTyped DEF EchoInv
  <2>7. InRing' = InRing \o <<isrByte>>
    <3>1. CASE pc = "advance"
      <4>1. Queued # <<>>
        BY <1>2, <3>1, RingPop, StreamParts DEF EchoInv, EchoPlace
      <4>2. Tail(Append(Queued, isrByte)) = Append(Tail(Queued), isrByte)
        <5> DEFINE q == Queued
        <5> HIDE DEF q
        <5>1. q \in Seq(Int) /\ q # <<>> => Tail(Append(q, isrByte)) = Append(Tail(q), isrByte)
          BY <1>2
        <5> QED
          BY <2>6, <4>1, <5>1 DEF q
      <4>3. Append(InRing, isrByte) = InRing \o <<isrByte>>
        BY <1>2, <1>4
      <4> QED
        BY <1>1, <2>6, <3>1, <4>2, <4>3 DEF InRing
    <3>2. CASE pc # "advance"
      <4>1. Append(InRing, isrByte) = InRing \o <<isrByte>>
        BY <1>2, <1>4
      <4> QED
        BY <1>1, <2>6, <3>2, <4>1 DEF InRing
    <3> QED
      BY <3>1, <3>2
  <2>8. Stream' = Stream
    <3>1. Stream' = (Echoed \o InMain) \o (InRing \o <<isrByte>>) \o <<>> \o OnLine
      BY <1>5, <2>7, StreamParts
    <3>2. (Echoed \o InMain) \o (InRing \o <<isrByte>>) = B \o <<isrByte>>
      BY <1>4, ConcatInts
    <3>3. B \o <<isrByte>> \in Seq(Int)
      BY <1>4, ConcatType
    <3>4. (B \o <<isrByte>>) \o <<>> = B \o <<isrByte>>
      BY <3>3, EmptyNeutral
    <3> QED
      BY <1>6, <3>1, <3>2, <3>4
  <2>9. EchoOrdered'
    BY <1>1, <2>1, <2>8, StreamKept DEF EchoInv
  <2> QED
    BY <1>3, <2>4, <2>5, <2>9 DEF EchoInv
<1> QED
  BY <1>7, <1>8

\* main finds the ring not empty.
LEMMA EchoPopCheck ==
  ASSUME EchoInv, PopCheck
  PROVE  EchoInv'
<1>1. /\ pc = "check" /\ head # tail /\ isr = "off" /\ pc' = "load"
      /\ UNCHANGED <<lab, irqen, mainByte, text, rxbf, data, irq, isr, isrByte, arrived, lost, head,
                     tail, cells, rx_overflow, out>>
  BY DEF PopCheck, Goto, rb_empty, uartRx, ring
<1>2. EchoTyped' /\ EchoPlace'
  BY <1>1 DEF EchoInv, EchoTyped, EchoPlace
<1>3. Greets'
  BY <1>1, GreetsKept DEF EchoInv, Greets
<1>4. Stream' = Stream
  <2>1. Echoed' = Echoed /\ Queued' = Queued
    BY <1>1, OutputKept DEF Queued
  <2>2. InMain' = InMain /\ InRing' = InRing /\ InHandler' = InHandler /\ OnLine' = OnLine
    BY <1>1, <2>1 DEF InMain, InRing, InHandler, OnLine, InHand
  <2> QED
    BY <2>1, <2>2, StreamParts
<1>5. EchoOrdered'
  BY <1>1, <1>4, StreamKept DEF EchoInv
<1> QED
  BY <1>2, <1>3, <1>5 DEF EchoInv

\* From the ring to main: the cell is read ...
LEMMA EchoPopLoad ==
  ASSUME EchoInv, PopLoad
  PROVE  EchoInv'
<1>1. /\ pc = "load" /\ isr = "off" /\ pc' = "advance" /\ mainByte' = cells[tail]
      /\ UNCHANGED <<lab, irqen, text, rxbf, data, irq, isr, isrByte, arrived, lost, head, tail,
                     cells, rx_overflow, out>>
  BY DEF PopLoad, Goto, uartRx, ring
<1>2. mainByte' \in Int /\ head # tail /\ lab = "lab11"
  BY <1>1 DEF EchoInv, EchoTyped, EchoPlace
<1>3. EchoTyped' /\ EchoPlace'
  BY <1>1, <1>2 DEF EchoInv, EchoTyped, EchoPlace
<1>4. Greets'
  BY <1>1, GreetsKept DEF EchoInv, Greets
<1>5. Stream' = Stream
  <2>1. Echoed' = Echoed /\ Queued' = Queued
    BY <1>1, OutputKept DEF Queued
  <2>2. /\ InMain = <<>> /\ InMain' = <<mainByte'>> /\ InRing = Queued /\ InRing' = Tail(Queued)
        /\ InHandler' = InHandler /\ OnLine' = OnLine
    BY <1>1, <2>1 DEF InMain, InRing, InHandler, OnLine, InHand
  <2>3. IsRing(RB_SIZE, head, tail, cells) /\ Queued \in Seq(Int) /\ Echoed \in Seq(Int)
    BY PartsTyped DEF EchoInv
  <2>4. Queued # <<>> /\ Head(Queued) = mainByte'
    BY <1>1, <1>2, <2>3, RingPop, StreamParts
  <2> HIDE DEF EchoInv
  <2>5. Append(Echoed, Head(Queued)) \o Tail(Queued) = Echoed \o Queued
    BY <2>3, <2>4, MoveFirst
  <2>6. Append(Echoed, mainByte') = Echoed \o <<mainByte'>>
    BY <1>2, <2>3
  <2>7. (Echoed \o <<mainByte'>>) \o Tail(Queued) = (Echoed \o <<>>) \o Queued
    BY <2>3, <2>4, <2>5, <2>6, EmptyNeutral
  <2>8. Stream = ((Echoed \o <<>>) \o Queued) \o InHandler \o OnLine
    BY <2>2, StreamParts
  <2>9. Stream' = ((Echoed \o <<mainByte'>>) \o Tail(Queued)) \o InHandler \o OnLine
    BY <2>1, <2>2, StreamParts
  <2> QED
    BY <2>7, <2>8, <2>9
<1>6. EchoOrdered'
  BY <1>1, <1>5, StreamKept DEF EchoInv
<1> QED
  BY <1>3, <1>4, <1>6 DEF EchoInv

\* ... and freed.
LEMMA EchoPopAdvance ==
  ASSUME EchoInv, PopAdvance
  PROVE  EchoInv'
<1>1. /\ pc = "advance" /\ isr = "off" /\ pc' = "putc" /\ tail' = (tail + 1) % RB_SIZE
      /\ UNCHANGED <<lab, irqen, mainByte, text, rxbf, data, irq, isr, isrByte, arrived, lost, head,
                     cells, rx_overflow, out>>
  BY DEF PopAdvance, Goto, uartRx
<1>2. lab = "lab11" /\ head # tail
  BY <1>1 DEF EchoInv, EchoTyped, EchoPlace
<1>3. IsRing(RB_SIZE, head, tail, cells)
  BY PartsTyped DEF EchoInv
<1>4. tail' \in 0 .. RB_SIZE - 1 /\ Queued' = Tail(Queued)
  BY <1>1, <1>2, <1>3, RingPop, StreamParts
<1>5. EchoTyped' /\ EchoPlace'
  BY <1>1, <1>2, <1>4 DEF EchoInv, EchoTyped, EchoPlace
<1>6. Greets'
  BY <1>1, GreetsKept DEF EchoInv, Greets
<1>7. Stream' = Stream
  <2>1. Echoed' = Echoed
    BY <1>1, OutputKept
  <2>2. InMain' = InMain /\ InRing' = InRing /\ InHandler' = InHandler /\ OnLine' = OnLine
    BY <1>1, <1>4 DEF InMain, InRing, InHandler, OnLine, InHand
  <2> QED
    BY <2>1, <2>2, StreamParts
<1>8. EchoOrdered'
  BY <1>1, <1>7, StreamKept DEF EchoInv
<1> QED
  BY <1>5, <1>6, <1>8 DEF EchoInv

\* main echoes what it has in hand.
LEMMA EchoMainEcho ==
  ASSUME EchoInv, MainEcho
  PROVE  EchoInv'
<1>1. /\ pc = "putc" /\ isr = "off" /\ pc' = IF lab = "lab11" THEN "check" ELSE "getc"
      /\ out' = Append(out, mainByte)
      /\ UNCHANGED <<lab, irqen, mainByte, text, rxbf, data, irq, isr, isrByte, arrived, lost, head,
                     tail, cells, rx_overflow>>
  BY DEF MainEcho, Goto, uart_putc, uartRx, ring
<1>2. mainByte \in Int /\ lab \in {"lab11", "lab12"}
  BY <1>1 DEF EchoInv, EchoTyped, EchoPlace
<1>3. Len(out) >= Len(Greeting)
  BY <1>1 DEF EchoInv, Greets
<1>4. Greets' /\ out' \in Seq(Int)
  BY <1>1, <1>2, <1>3, GreetsGrows DEF EchoInv
<1>5. EchoTyped'
  BY <1>1, <1>4 DEF EchoInv, EchoTyped
<1>6. EchoPlace'
  BY <1>1, <1>2 DEF EchoInv, EchoPlace
<1>7. Stream' = Stream
  <2>1. Echoed' = Echoed \o <<mainByte>>
    BY <1>1, <1>2, <1>3, EchoedGrows DEF EchoInv
  <2>2. Queued' = Queued
    BY <1>1 DEF Queued
  <2>3. /\ InMain = <<mainByte>> /\ InMain' = <<>> /\ InRing = Queued /\ InRing' = Queued
        /\ InHandler' = InHandler /\ OnLine' = OnLine
    BY <1>1, <2>2 DEF InMain, InRing, InHandler, OnLine, InHand
  <2>4. Echoed \o <<mainByte>> \in Seq(Int)
    BY <2>3, PartsTyped DEF EchoInv
  <2>5. (Echoed \o <<mainByte>>) \o <<>> = Echoed \o <<mainByte>>
    BY <2>4, EmptyNeutral
  <2> QED
    BY <2>1, <2>3, <2>5, StreamParts
<1>8. EchoOrdered'
  BY <1>1, <1>7, StreamKept DEF EchoInv
<1> QED
  BY <1>4, <1>5, <1>6, <1>8 DEF EchoInv

\* Lab 12 before its first echo: the next character of the banner goes out.
LEMMA EchoPrintChar ==
  ASSUME EchoInv, PrintChar
  PROVE  EchoInv'
<1>1. /\ pc = "print" /\ text # <<>> /\ isr = "off" /\ pc' = "print"
      /\ out' = Append(out, Head(text)) /\ text' = Tail(text)
      /\ UNCHANGED <<lab, irqen, mainByte, rxbf, data, irq, isr, isrByte, arrived, lost, head, tail,
                     cells, rx_overflow>>
  BY DEF PrintChar, Goto, uart_putc, uartRx, ring
<1>2. /\ text \in Seq(Int) /\ out \in Seq(Int) /\ Len(text) \in Nat /\ Len(out) \in Nat
      /\ Len(Greeting) \in Nat
  BY GreetingType DEF EchoInv, EchoTyped
<1>3. /\ Head(text) \in Int /\ Head(text) = text[1] /\ Tail(text) \in Seq(Int)
      /\ Len(Tail(text)) = Len(text) - 1 /\ Len(text) > 0
      /\ \A i \in 1 .. Len(text) - 1 : Tail(text)[i] = text[i + 1]
  BY <1>1, <1>2
<1>4. /\ out' \in Seq(Int) /\ Len(out') = Len(out) + 1 /\ out'[Len(out) + 1] = text[1]
      /\ \A i \in 1 .. Len(out) : out'[i] = out[i]
  BY <1>1, <1>2, <1>3, AppendProperties
<1>5. EchoTyped'
  BY <1>1, <1>3, <1>4 DEF EchoInv, EchoTyped
<1>6. EchoPlace'
  <2>1. out' = <<>> \/ lab # "off"
    BY <1>1 DEF EchoInv, EchoPlace
  <2>2. lab # "off"
    BY <1>1 DEF EchoInv, EchoPlace
  <2> QED
    BY <1>1, <2>2 DEF EchoInv, EchoPlace
<1>7. Greeting' = Greeting
  BY <1>1 DEF Greeting
<1>8. /\ \A i \in 1 .. Len(out) : i <= Len(Greeting) => out[i] = Greeting[i]
      /\ Len(out) + Len(text) = Len(Greeting)
      /\ \A i \in 1 .. Len(text) : text[i] = Greeting[Len(out) + i]
  <2>1. DOMAIN out = 1 .. Len(out) /\ DOMAIN text = 1 .. Len(text)
    BY <1>2
  <2>2. Greets /\ pc = "print"
    BY <1>1 DEF EchoInv
  <2> QED
    BY <2>1, <2>2, Zenon DEF Greets
<1>9. Greets'
  <2>1. ASSUME NEW i \in 1 .. Len(out) + 1, i <= Len(Greeting) PROVE out'[i] = Greeting[i]
    <3>1. CASE i = Len(out) + 1
      <4>1. 1 \in 1 .. Len(text)
        BY <1>2, <1>3
      <4>2. text[1] = Greeting[Len(out) + 1]
        BY <1>8, <4>1
      <4> QED
        BY <1>4, <3>1, <4>2
    <3>2. CASE i # Len(out) + 1
      <4>1. i \in 1 .. Len(out)
        BY <1>2, <2>1, <3>2
      <4> QED
        BY <1>4, <1>8, <2>1, <4>1
    <3> QED
      BY <3>1, <3>2
  <2>2. ASSUME NEW i \in 1 .. Len(text) - 1 PROVE Tail(text)[i] = Greeting[Len(out) + 1 + i]
    <3>1. i + 1 \in 1 .. Len(text) /\ Len(out) + (i + 1) = Len(out) + 1 + i
      BY <1>2, <2>2
    <3>2. text[i + 1] = Greeting[Len(out) + (i + 1)]
      BY <1>8, <3>1
    <3> QED
      BY <1>3, <2>2, <3>1, <3>2
  <2>3. DOMAIN out' = 1 .. Len(out) + 1 /\ DOMAIN text' = 1 .. Len(text) - 1
        /\ Len(text') = Len(text) - 1
    BY <1>1, <1>3, <1>4
  <2>4. Len(out') + Len(text') = Len(Greeting)
    <3> DEFINE m == Len(out)
               n == Len(text)
    <3>1. m \in Nat /\ n \in Nat /\ m + n = Len(Greeting)
      BY <1>2, <1>8
    <3>2. Len(out') = m + 1 /\ Len(text') = n - 1
      BY <1>4, <2>3
    <3> HIDE DEF m, n
    <3>3. m + 1 + (n - 1) = m + n
      BY <3>1
    <3> QED
      BY <3>1, <3>2, <3>3
  <2>5. \A i \in DOMAIN text' : text'[i] = Greeting'[Len(out') + i]
    BY <1>1, <1>4, <1>7, <2>2, <2>3
  <2>6. \A i \in DOMAIN out' : i <= Len(Greeting') => out'[i] = Greeting'[i]
    BY <1>7, <2>1, <2>3
  <2> QED
    BY <1>1, <1>7, <2>4, <2>5, <2>6 DEF Greets
<1>10. Stream' = Stream
  <2>1. Echoed = <<>> /\ Echoed' = <<>>
    <3>1. Len(out) < Len(Greeting) + 1 /\ Len(out) + 1 < Len(Greeting) + 1
      BY <1>2, <1>3, <1>8
    <3>2. /\ Echoed = SubSeq(out, Len(Greeting) + 1, Len(out))
          /\ Echoed' = SubSeq(out', Len(Greeting) + 1, Len(out) + 1)
      BY <1>4, <1>7 DEF Echoed
    <3> QED
      BY <1>2, <3>1, <3>2, SubSeqEmpty
  <2>2. Queued' = Queued
    BY <1>1 DEF Queued
  <2>3. InMain' = InMain /\ InRing' = InRing /\ InHandler' = InHandler /\ OnLine' = OnLine
    BY <1>1, <2>2 DEF InMain, InRing, InHandler, OnLine, InHand
  <2> QED
    BY <2>1, <2>3, StreamParts
<1>11. EchoOrdered'
  BY <1>1, <1>10, StreamKept DEF EchoInv
<1> QED
  BY <1>5, <1>6, <1>9, <1>11 DEF EchoInv

\* The banner is out.
LEMMA EchoPrinted ==
  ASSUME EchoInv, Printed
  PROVE  EchoInv'
<1>1. /\ pc = "print" /\ text = <<>> /\ isr = "off" /\ pc' = "getc"
      /\ UNCHANGED <<lab, irqen, mainByte, text, rxbf, data, irq, isr, isrByte, arrived, lost, head,
                     tail, cells, rx_overflow, out>>
  BY DEF Printed, Goto, uartRx, ring
<1>2. EchoTyped' /\ EchoPlace'
  BY <1>1 DEF EchoInv, EchoTyped, EchoPlace
<1>3. Len(out) >= Len(Greeting)
  <2>1. Len(out) \in Nat /\ Len(text) = 0 /\ Len(out) + Len(text) = Len(Greeting)
    BY <1>1 DEF EchoInv, EchoTyped, Greets
  <2> QED
    BY <2>1
<1>4. Greets'
  BY <1>1, <1>3, GreetsKept DEF EchoInv
<1>5. Stream' = Stream
  <2>1. Echoed' = Echoed /\ Queued' = Queued
    BY <1>1, OutputKept DEF Queued
  <2>2. InMain' = InMain /\ InRing' = InRing /\ InHandler' = InHandler /\ OnLine' = OnLine
    BY <1>1, <2>1 DEF InMain, InRing, InHandler, OnLine, InHand
  <2> QED
    BY <2>1, <2>2, StreamParts
<1>6. EchoOrdered'
  BY <1>1, <1>5, StreamKept DEF EchoInv
<1> QED
  BY <1>2, <1>4, <1>6 DEF EchoInv

\* Lab 12's main takes the byte from the data register.
LEMMA EchoGetc ==
  ASSUME EchoInv, Getc
  PROVE  EchoInv'
<1>1. /\ pc = "getc" /\ isr = "off" /\ rxbf /\ mainByte' = data /\ rxbf' = FALSE /\ pc' = "putc"
      /\ UNCHANGED <<lab, irqen, text, data, irq, isr, isrByte, arrived, lost, head, tail, cells,
                     rx_overflow, out>>
  BY DEF Getc, ring
<1>2. lab = "lab12" /\ head = tail /\ ~irq /\ data \in Int
  BY <1>1 DEF EchoInv, EchoTyped, EchoPlace
<1>3. EchoTyped' /\ EchoPlace'
  BY <1>1, <1>2 DEF EchoInv, EchoTyped, EchoPlace
<1>4. Greets'
  BY <1>1, GreetsKept DEF EchoInv, Greets
<1>5. Stream' = Stream
  <2>1. Queued = <<>>
    BY <1>2, QueueEmpty DEF EchoInv
  <2>2. Echoed' = Echoed /\ Queued' = Queued
    BY <1>1, OutputKept DEF Queued
  <2>3. /\ InMain = <<>> /\ InMain' = <<data>> /\ InRing = <<>> /\ InRing' = <<>>
        /\ InHandler = <<>> /\ InHandler' = <<>> /\ OnLine = <<data>> /\ OnLine' = <<>>
    BY <1>1, <2>1, <2>2 DEF InMain, InRing, InHandler, OnLine, InHand
  <2>4. Echoed \in Seq(Int) /\ Echoed \o <<data>> \in Seq(Int)
    BY <2>3, PartsTyped DEF EchoInv
  <2> HIDE DEF EchoInv
  <2>5. Stream = Echoed \o <<>> \o <<>> \o <<>> \o <<data>>
    BY <2>3, StreamParts
  <2>6. Stream' = (Echoed \o <<data>>) \o <<>> \o <<>> \o <<>>
    BY <2>2, <2>3, StreamParts
  <2> QED
    BY <2>4, <2>5, <2>6, EmptyNeutral
<1>6. EchoOrdered'
  BY <1>1, <1>5, StreamKept DEF EchoInv
<1> QED
  BY <1>3, <1>4, <1>6 DEF EchoInv

\* Before reset nothing is on its way.
LEMMA EchoInitially ==
  ASSUME EchoInit
  PROVE  EchoInv
<1>1. RB_SIZE \in Nat /\ RB_SIZE > 1
  BY EchoAssumption DEF EchoAssumption
<1>2. EchoTyped
  <2>1. 0 \in 0 .. RB_SIZE - 1 /\ cells \in [0 .. RB_SIZE - 1 -> Int]
    BY <1>1 DEF EchoInit
  <2>2. <<>> \in Seq(Int)
    OBVIOUS
  <2> QED
    BY <2>1, <2>2 DEF EchoInit, EchoTyped
<1>3. EchoPlace
  BY DEF EchoInit, EchoPlace
<1>4. Greeting = <<>> /\ Len(Greeting) = 0
  BY DEF EchoInit, Greeting
<1>5. Greets
  BY <1>4 DEF EchoInit, Greets
<1>6. Stream = <<>>
  <2>1. Echoed = <<>>
    <3>1. Echoed = SubSeq(out, 1, 0) /\ out = <<>>
      BY <1>4 DEF Echoed, EchoInit
    <3> QED
      BY <3>1, SubSeqEmpty
  <2>2. Queued = <<>>
    BY <1>2, <1>3, QueueEmpty DEF EchoInit
  <2>3. InMain = <<>> /\ InRing = <<>> /\ InHandler = <<>> /\ OnLine = <<>>
    BY <2>2 DEF EchoInit, InMain, InRing, InHandler, OnLine, InHand
  <2> QED
    BY <2>1, <2>3, StreamParts, EmptyNeutral
<1>7. Ascending(Stream) /\ ToSet(Stream) = {} /\ arrived = 0 /\ 1 .. arrived = {}
  <2>1. Len(Stream) = 0 /\ 1 .. Len(Stream) - 1 = {} /\ 1 .. 0 = {}
    BY <1>6
  <2>2. Ascending(Stream)
    BY <2>1 DEF Ascending
  <2>3. ToSet(Stream) = {}
    BY <1>6, SetOfOne
  <2>4. arrived = 0
    BY DEF EchoInit
  <2> QED
    BY <2>1, <2>2, <2>3, <2>4
<1>8. EchoOrdered
  BY <1>7 DEF EchoOrdered
<1> QED
  BY <1>2, <1>3, <1>5, <1>8 DEF EchoInv

\* The parts of the invariant hold in every state, and every step keeps them.
LEMMA EchoInvariance == EchoSpec => []EchoInv
<1>1. EchoInit => EchoInv
  BY EchoInitially
<1>2. EchoInv /\ [EchoNext]_echoVars => EchoInv'
  <2> SUFFICES ASSUME EchoInv, [EchoNext]_echoVars PROVE EchoInv'
    OBVIOUS
  <2>1. CASE Start
    BY <2>1, EchoStarts
  <2>2. CASE Arrive
    BY <2>2, EchoArrives
  <2>3. CASE Transmitted
    BY <2>3, EchoTransmitted
  <2>4. CASE Handler
    BY <2>4, EchoIsrRead, EchoIsrClear10, EchoIsrEcho, EchoIsrPush DEF Handler
  <2>5. CASE Main
    BY <2>5, EchoPopCheck, EchoPopLoad, EchoPopAdvance, EchoMainEcho, EchoPrintChar, EchoPrinted,
       EchoGetc DEF Main
  <2>6. CASE UNCHANGED echoVars
    <3>1. /\ UNCHANGED <<lab, irqen, pc, mainByte, text, rxbf, data, irq, isr, isrByte, arrived>>
          /\ UNCHANGED <<lost, head, tail, cells, rx_overflow, out>>
      BY <2>6 DEF echoVars
    <3>2. EchoTyped' /\ EchoPlace'
      BY <3>1 DEF EchoInv, EchoTyped, EchoPlace
    <3>3. Greets'
      BY <3>1, GreetsKept DEF EchoInv, Greets
    <3>4. Stream' = Stream
      BY <3>1, OutputKept DEF Stream, Queued, InHand
    <3>5. EchoOrdered'
      BY <3>1, <3>4, StreamKept DEF EchoInv
    <3> QED
      BY <3>2, <3>3, <3>5 DEF EchoInv
  <2> QED
    BY <2>1, <2>2, <2>3, <2>4, <2>5, <2>6 DEF EchoNext
<1> QED
  BY <1>1, <1>2, PTL DEF EchoSpec

\* In labs 10 to 12, for every ring size, banner and number of bytes: whatever the
\* handler interrupts, the bytes leave in the order they came, none twice, and one
\* that is missing was overrun or is what rx_overflow reports; the banner goes first
\* and whole (ringbuffer.c, lab11 main.c, lab10 uart.c, lab12 retarget.c).
THEOREM EchoesOrdered == EchoSpec => []EchoInOrder
<1>1. EchoInv => EchoInOrder
  BY DEF EchoInv, EchoOrdered, Greets, EchoInOrder
<1> QED
  BY <1>1, EchoInvariance, PTL

-----------------------------------------------------------------------------
(* Lab 15: bits, bytes and the targets that hear them. *)

WireBytes == [1 .. Wide -> {0, 1}]

Targets ==
  [kind : {"simulated", "ordinary"}, sclk : {0, 1}, mosi : {0, 1}, cs : {0, 1},
   command : BOOLEAN, byte : Nat, bit : 0 .. Wide - 1, read : Seq({0, 1}),
   sampled : Seq({0, 1}), shifted : Nat]

\* A selected target between two bits.
Ready(mode) == {t \in Targets : t.cs = 0 /\ t.sclk = spi_get_cpol(mode)}

\* What a selected target answers the next bit with.
Reply(t) ==
  IF t.kind = "simulated" THEN Answer(t)
  ELSE Response[((t.shifted \div Wide) % Len(Response)) + 1][(t.shifted % Wide) + 1]

\* What the simulated device's counters become with it.
Counted(t, u) ==
  /\ u.bit = IF t.command /\ t.byte >= Len(Response) THEN t.bit
             ELSE IF t.bit + 1 = Wide THEN 0 ELSE t.bit + 1
  /\ u.command <=> (t.command \/ t.bit + 1 = Wide)
  /\ u.byte = IF t.command /\ t.byte < Len(Response) /\ t.bit + 1 = Wide THEN t.byte + 1
              ELSE t.byte

\* The i-th byte on the wire starts behind i - 1 bytes.
Spot(i, b) == (i - 1) * Wide + b

-----------------------------------------------------------------------------
(* Induction over a stretch of numbers, and loops written as functions. *)

\* A set of numbers that holds 0 and goes on up to n holds all of them.
LEMMA StretchInduction ==
  ASSUME NEW n \in Nat, NEW T, 0 \in T, \A k \in 0 .. n - 1 : k \in T => k + 1 \in T
  PROVE  \A k \in 0 .. n : k \in T
<1> DEFINE Wrong == {k \in Nat : k <= n /\ k \notin T}
<1>1. Wrong = {}
  <2> SUFFICES ASSUME Wrong # {} PROVE FALSE
    OBVIOUS
  <2>1. PICK m \in Wrong : \A k \in Wrong : ~(<<k, m>> \in OpToRel(<, Nat))
    <3> HIDE DEF Wrong
    <3>1. Wrong \subseteq Nat
      BY DEF Wrong
    <3> QED
      BY <3>1, NatLessThanWellFounded, WFMin, Zenon
  <2>2. m \in Nat /\ m <= n /\ m \notin T /\ \A k \in Nat : k < m => k \notin Wrong
    BY <2>1 DEF OpToRel
  <2>3. m # 0 /\ m - 1 \in Nat /\ m - 1 < m /\ m - 1 \in 0 .. n - 1 /\ (m - 1) + 1 = m
    BY <2>2
  <2>4. m - 1 \in T
    BY <2>2, <2>3
  <2> QED
    BY <2>2, <2>3, <2>4
<1> QED
  BY <1>1

\* The values of a loop that starts with x and whose turns are S[1], ..., S[n].
IsLoop(f, x, n, S) == f = [k \in 0 .. n |-> IF k = 0 THEN x ELSE S[k][f[k - 1]]]

\* A loop of n turns, each of which makes a value of X of one, has a value after each turn.
LEMMA LoopDefined ==
  ASSUME NEW X, NEW x \in X, NEW n \in Nat, NEW S \in [1 .. n -> [X -> X]]
  PROVE  \E f \in [0 .. n -> X] : IsLoop(f, x, n, S)
<1> DEFINE Turn(f, k) == IF k = 0 THEN x ELSE S[k][f[k - 1]]
           T == {m \in 0 .. n : \E f \in [0 .. m -> X] : \A k \in 0 .. m : f[k] = Turn(f, k)}
<1>1. 0 \in T
  <2> DEFINE e == [k \in 0 .. 0 |-> x]
  <2>1. e \in [0 .. 0 -> X] /\ \A k \in 0 .. 0 : e[k] = Turn(e, k)
    OBVIOUS
  <2>2. 0 \in 0 .. n
    OBVIOUS
  <2> HIDE DEF e
  <2> QED
    BY <2>1, <2>2
<1>2. \A m \in 0 .. n - 1 : m \in T => m + 1 \in T
  <2> SUFFICES ASSUME NEW m \in 0 .. n - 1, m \in T PROVE m + 1 \in T
    OBVIOUS
  <2>0. m \in Nat /\ m \in 0 .. n /\ m + 1 \in 0 .. n /\ m + 1 \in 1 .. n /\ m + 1 \in Nat
    <3> HIDE DEF T
    <3> QED
      OBVIOUS
  <2>1. PICK f \in [0 .. m -> X] : \A k \in 0 .. m : f[k] = Turn(f, k)
    OBVIOUS
  <2> DEFINE y == S[m + 1][f[m]]
             g == [k \in 0 .. m + 1 |-> IF k = m + 1 THEN y ELSE f[k]]
  <2>2. y \in X
    <3> HIDE DEF T
    <3>1. m \in 0 .. m
      BY <2>0
    <3> QED
      BY <2>0, <3>1
  <2>3. g \in [0 .. m + 1 -> X]
    <3> HIDE DEF T, y
    <3>1. \A k \in 0 .. m + 1 : k # m + 1 => k \in 0 .. m
      BY <2>0
    <3> QED
      BY <2>1, <2>2, <3>1
  <2>4. \A k \in 0 .. m + 1 : g[k] = Turn(g, k)
    <3> HIDE DEF T
    <3> TAKE k \in 0 .. m + 1
    <3>1. CASE k = m + 1
      <4>1. k # 0 /\ k - 1 = m /\ m \in 0 .. m + 1 /\ m # m + 1
        BY <2>0, <3>1
      <4>2. g[k] = y /\ g[m] = f[m]
        BY <3>1, <4>1
      <4> QED
        BY <3>1, <4>1, <4>2
    <3>2. CASE k # m + 1
      <4>1. k \in 0 .. m /\ (k # 0 => k - 1 \in 0 .. m + 1 /\ k - 1 # m + 1)
        BY <2>0, <3>2
      <4>2. g[k] = f[k] /\ (k # 0 => g[k - 1] = f[k - 1])
        BY <3>2, <4>1
      <4>3. f[k] = Turn(f, k)
        BY <2>1, <4>1
      <4> QED
        BY <4>2, <4>3
    <3> QED
      BY <3>1, <3>2
  <2> HIDE DEF g, Turn
  <2> QED
    BY <2>0, <2>3, <2>4
<1>3. n \in T
  <2> HIDE DEF T
  <2>1. \A k \in 0 .. n : k \in T
    BY <1>1, <1>2, StretchInduction
  <2> QED
    BY <2>1
<1>4. PICK f \in [0 .. n -> X] : \A k \in 0 .. n : f[k] = Turn(f, k)
  BY <1>3
<1>5. f = [k \in 0 .. n |-> Turn(f, k)]
  BY <1>4
<1> QED
  BY <1>5 DEF IsLoop

-----------------------------------------------------------------------------
(* Places on the wire. *)

\* Division by the width of a byte.
LEMMA WireDivision ==
  ASSUME NEW q \in Nat, NEW r \in 0 .. Wide - 1
  PROVE  (q * Wide + r) \div Wide = q /\ (q * Wide + r) % Wide = r
<1>1. Wide \in Nat \ {0}
  BY SpiAssumption
<1>2. \A w \in Nat \ {0} : \A s \in 0 .. w - 1 : (q * w + s) \div w = q /\ (q * w + s) % w = s
  BY SMT
<1> QED
  BY <1>1, <1>2

\* A bit has one place.
LEMMA SpotUnique ==
  ASSUME NEW i \in Nat \ {0}, NEW j \in Nat \ {0}, NEW b \in 1 .. Wide, NEW c \in 1 .. Wide,
         Spot(i, b) = Spot(j, c)
  PROVE  i = j /\ b = c
<1>1. Wide \in Nat \ {0}
  BY SpiAssumption
<1>2. i - 1 \in Nat /\ b - 1 \in 0 .. Wide - 1 /\ j - 1 \in Nat /\ c - 1 \in 0 .. Wide - 1
  BY <1>1
<1>3. (i - 1) * Wide + (b - 1) = (j - 1) * Wide + (c - 1)
  <2> DEFINE x == (i - 1) * Wide
             y == (j - 1) * Wide
  <2>1. x \in Nat /\ y \in Nat /\ x + b = y + c
    BY <1>1, <1>2 DEF Spot
  <2>2. x + (b - 1) = y + (c - 1)
    <3> HIDE DEF x, y
    <3> QED
      BY <1>1, <2>1
  <2> QED
    BY <2>2
<1>4. i - 1 = j - 1 /\ b - 1 = c - 1
  <2>1. ((i - 1) * Wide + (b - 1)) \div Wide = i - 1 /\ ((i - 1) * Wide + (b - 1)) % Wide = b - 1
    BY <1>2, WireDivision
  <2>2. ((j - 1) * Wide + (c - 1)) \div Wide = j - 1 /\ ((j - 1) * Wide + (c - 1)) % Wide = c - 1
    BY <1>2, WireDivision
  <2> QED
    BY <1>3, <2>1, <2>2
<1> QED
  BY <1>4

\* The bits of m bytes and k more end before the bit k + 1 of byte m + 1.
LEMMA SpotNext ==
  ASSUME NEW m \in Nat, NEW k \in 0 .. Wide - 1
  PROVE  /\ m * Wide + k \in Nat
         /\ Spot(m + 1, k + 1) = m * Wide + k + 1
         /\ Spot(m + 1, k + 1) \in Nat
         /\ k + 1 \in 1 .. Wide
         /\ k + 1 = Wide => Spot(m + 2, 1) = m * Wide + k + 2
         /\ k + 1 = Wide => (m + 1) * Wide = m * Wide + k + 1
<1>1. Wide \in Nat \ {0}
  BY SpiAssumption
<1>2. (m + 1) * Wide = m * Wide + Wide /\ m * Wide \in Nat
  BY <1>1
<1>3. (m + 1) - 1 = m /\ (m + 2) - 1 = m + 1
  OBVIOUS
<1> DEFINE x == m * Wide
<1>4. Spot(m + 1, k + 1) = x + (k + 1) /\ Spot(m + 2, 1) = (x + Wide) + 1
  BY <1>2, <1>3 DEF Spot
<1> HIDE DEF x
<1>5. x \in Nat /\ (m + 1) * Wide = x + Wide
  BY <1>2 DEF x
<1>6. x + k \in Nat /\ Spot(m + 1, k + 1) = x + k + 1 /\ k + 1 \in 1 .. Wide
  BY <1>1, <1>4, <1>5
<1>7. k + 1 = Wide => Spot(m + 2, 1) = x + k + 2 /\ (m + 1) * Wide = x + k + 1
  BY <1>1, <1>4, <1>5
<1> QED
  BY <1>6, <1>7 DEF x

\* The bits of n bytes lie before the end of the n-th.
LEMMA SpotRange ==
  ASSUME NEW n \in Nat, NEW i \in 1 .. n, NEW b \in 1 .. Wide
  PROVE  Spot(i, b) \in 1 .. n * Wide
<1>1. Wide \in Nat \ {0}
  BY SpiAssumption
<1>2. n - i \in Nat /\ i - 1 \in Nat
  OBVIOUS
<1>3. n * Wide = (i - 1) * Wide + Wide + (n - i) * Wide
  BY <1>1
<1> DEFINE x == (i - 1) * Wide
           y == (n - i) * Wide
<1>4. x \in Nat /\ y \in Nat /\ Spot(i, b) = x + b /\ n * Wide = x + Wide + y
  BY <1>1, <1>2, <1>3 DEF Spot
<1> HIDE DEF x, y
<1> QED
  BY <1>1, <1>4

-----------------------------------------------------------------------------
(* Lab 15: what a bit does to the target. *)

\* The clock's idle level, and the other one.
LEMMA ClockLevels ==
  ASSUME NEW mode \in 0 .. 3
  PROVE  /\ spi_get_cpol(mode) \in {0, 1} /\ 1 - spi_get_cpol(mode) \in {0, 1}
         /\ 1 - spi_get_cpol(mode) # spi_get_cpol(mode)
         /\ spi_get_cpha(mode) \in {0, 1}
BY DEF spi_get_cpol, spi_get_cpha

\* The quotient and the remainder of a number.
LEMMA WholeParts == \A s \in Nat, w \in Nat \ {0} : s \div w \in Nat /\ s % w \in 0 .. w - 1
BY SMT

\* A bit of the response is a bit.
LEMMA ReplyIsBit ==
  ASSUME NEW t \in Targets, t.cs = 0
  PROVE  Reply(t) \in {0, 1}
<1>1. /\ Wide \in Nat \ {0} /\ Len(Response) \in Nat \ {0}
      /\ \A i \in 1 .. Len(Response), b \in 1 .. Wide : Response[i][b] \in {0, 1}
  BY SpiAssumption
<1>2. t.shifted \in Nat /\ t.byte \in Nat /\ t.bit \in 0 .. Wide - 1
  BY DEF Targets
<1>3. CASE t.kind = "simulated"
  <2>1. t.byte < Len(Response) => t.byte + 1 \in 1 .. Len(Response)
    BY <1>1, <1>2
  <2>2. t.bit + 1 \in 1 .. Wide
    BY <1>1, <1>2
  <2>3. t.byte >= Len(Response) \/ t.byte < Len(Response)
    BY <1>1, <1>2
  <2> QED
    BY <1>1, <1>3, <2>1, <2>2, <2>3 DEF Reply, Answer
<1>4. CASE t.kind # "simulated"
  <2> DEFINE q == t.shifted \div Wide
             i == q % Len(Response)
             b == t.shifted % Wide
  <2>1. q \in Nat /\ b \in 0 .. Wide - 1
    BY <1>1, <1>2, WholeParts
  <2>2. i \in 0 .. Len(Response) - 1
    <3> HIDE DEF q
    <3> QED
      BY <1>1, <2>1, ModRange
  <2>3. i + 1 \in 1 .. Len(Response) /\ b + 1 \in 1 .. Wide
    <3> HIDE DEF i, b
    <3> QED
      BY <1>1, <2>1, <2>2
  <2> HIDE DEF q, i, b
  <2>4. Reply(t) = Response[i + 1][b + 1]
    BY <1>4 DEF Reply, q, i, b
  <2> QED
    BY <1>1, <2>3, <2>4
<1> QED
  BY <1>3, <1>4

\* Two targets that differ in the pins the master drives.
SameInside(t, u) ==
  /\ u.kind = t.kind /\ u.cs = t.cs /\ u.command = t.command /\ u.byte = t.byte
  /\ u.bit = t.bit /\ u.read = t.read

\* A level on MOSI.
LEMMA MosiSet ==
  ASSUME NEW t \in Targets, NEW level \in {0, 1}
  PROVE  /\ SetMosi(t, level) \in Targets /\ SameInside(t, SetMosi(t, level))
         /\ SetMosi(t, level).sclk = t.sclk /\ SetMosi(t, level).mosi = level
         /\ SetMosi(t, level).sampled = t.sampled /\ SetMosi(t, level).shifted = t.shifted
BY DEF SetMosi, SameInside, Targets

\* The target takes the bit on MOSI; it moves MISO on; the master reads it.
Took(t, u, level) ==
  /\ u \in Targets /\ SameInside(t, u) /\ u.sclk = level /\ u.mosi = t.mosi
  /\ u.sampled = Append(t.sampled, t.mosi) /\ u.shifted = t.shifted

MovedOn(t, u, level) ==
  /\ u \in Targets /\ SameInside(t, u) /\ u.sclk = level /\ u.mosi = t.mosi
  /\ u.sampled = t.sampled /\ u.shifted = t.shifted + 1

WasRead(t, u, answer) ==
  /\ u \in Targets /\ u.kind = t.kind /\ u.cs = 0 /\ u.sclk = t.sclk
  /\ u.mosi = t.mosi /\ u.sampled = t.sampled /\ u.shifted = t.shifted
  /\ u.read = Append(t.read, answer)
  /\ t.kind = "simulated" => Counted(t, u)

\* With CPHA the target takes a bit when the clock goes to its idle level.
Takes(mode, level) == IF spi_get_cpha(mode) = 1 THEN level = spi_get_cpol(mode)
                      ELSE level # spi_get_cpol(mode)

\* The edge on which the target takes a bit.
LEMMA TakingEdge ==
  ASSUME NEW t \in Targets, NEW mode \in 0 .. 3, NEW level \in {0, 1},
         t.cs = 0, level # t.sclk, Takes(mode, level)
  PROVE  Took(t, SetSclk(t, level, mode), level)
<1>1. SetSclk(t, level, mode) = [t EXCEPT !.sclk = level, !.sampled = Append(@, t.mosi)]
  BY DEF SetSclk, Takes, spi_get_cpol, spi_get_cpha
<1>2. Append(t.sampled, t.mosi) \in Seq({0, 1})
  BY AppendProperties DEF Targets
<1> DEFINE u == [t EXCEPT !.sclk = level, !.sampled = Append(@, t.mosi)]
<1>3. /\ u \in Targets /\ SameInside(t, u) /\ u.sclk = level /\ u.mosi = t.mosi
      /\ u.sampled = Append(t.sampled, t.mosi) /\ u.shifted = t.shifted
  BY <1>2 DEF Targets, SameInside
<1> QED
  BY <1>1, <1>3 DEF Took

\* The edge on which the target moves MISO on.
LEMMA MovingEdge ==
  ASSUME NEW t \in Targets, NEW mode \in 0 .. 3, NEW level \in {0, 1},
         t.cs = 0, level # t.sclk, ~Takes(mode, level)
  PROVE  MovedOn(t, SetSclk(t, level, mode), level)
<1> DEFINE next == t.shifted + 1
           u == [t EXCEPT !.sclk = level, !.shifted = next]
<1>1. SetSclk(t, level, mode) = u
  BY DEF SetSclk, Takes, spi_get_cpol, spi_get_cpha
<1>2. next \in Nat
  BY DEF Targets
<1> HIDE DEF next
<1>3. u \in Targets
  BY <1>2 DEF Targets
<1>4. /\ SameInside(t, u) /\ u.sclk = level /\ u.mosi = t.mosi
      /\ u.sampled = t.sampled /\ u.shifted = next
  BY DEF Targets, SameInside
<1> QED
  BY <1>1, <1>3, <1>4 DEF MovedOn, next

\* A reading of MISO.
LEMMA MisoRead ==
  ASSUME NEW t \in Targets, NEW mode, t.cs = 0,
         NEW answer \in {0, 1},
         answer = IF t.kind = "simulated" THEN Answer(t) ELSE Miso(t, mode)
  PROVE  WasRead(t, GetMiso(t, mode), answer)
<1>1. /\ t.read \in Seq({0, 1}) /\ Append(t.read, answer) \in Seq({0, 1})
      /\ t.bit \in 0 .. Wide - 1 /\ t.byte \in Nat /\ t.command \in BOOLEAN
      /\ Wide \in Nat \ {0} /\ Len(Response) \in Nat
  BY AppendProperties, SpiAssumption DEF Targets
<1>2. CASE t.kind = "simulated"
  <2> DEFINE v == Answered(t)
             u == [v EXCEPT !.read = Append(@, answer)]
  <2>1. /\ v \in Targets /\ v.kind = t.kind /\ v.cs = 0 /\ v.sclk = t.sclk
        /\ v.mosi = t.mosi /\ v.sampled = t.sampled /\ v.shifted = t.shifted
        /\ v.read = t.read /\ Counted(t, v)
    <3> DEFINE full == t.bit + 1 = Wide
               w == [t EXCEPT !.bit = IF full THEN 0 ELSE @ + 1,
                              !.command = @ \/ full,
                              !.byte = IF full /\ t.command THEN @ + 1 ELSE @]
    <3>1. CASE t.command /\ t.byte >= Len(Response)
      <4>1. v = t
        BY <3>1 DEF Answered
      <4>2. Counted(t, t)
        BY <1>1, <3>1 DEF Counted
      <4> HIDE DEF v
      <4> QED
        BY <4>1, <4>2
    <3>2. CASE ~(t.command /\ t.byte >= Len(Response))
      <4>1. v = w
        BY <3>2 DEF Answered
      <4>2. /\ (IF full THEN 0 ELSE t.bit + 1) \in 0 .. Wide - 1
            /\ (IF full /\ t.command THEN t.byte + 1 ELSE t.byte) \in Nat
            /\ (t.command \/ full) \in BOOLEAN
        BY <1>1
      <4>3. /\ w.bit = (IF full THEN 0 ELSE t.bit + 1)
            /\ w.command <=> (t.command \/ full)
            /\ w.byte = (IF full /\ t.command THEN t.byte + 1 ELSE t.byte)
            /\ w.kind = t.kind /\ w.cs = t.cs /\ w.sclk = t.sclk /\ w.mosi = t.mosi
            /\ w.sampled = t.sampled /\ w.shifted = t.shifted /\ w.read = t.read
        BY DEF Targets
      <4>4. w \in Targets
        <5> DEFINE bit == IF full THEN 0 ELSE t.bit + 1
                   command == t.command \/ full
                   byte == IF full /\ t.command THEN t.byte + 1 ELSE t.byte
        <5>1. w = [t EXCEPT !.bit = bit, !.command = command, !.byte = byte]
          OBVIOUS
        <5>2. bit \in 0 .. Wide - 1 /\ command \in BOOLEAN /\ byte \in Nat
          BY <4>2
        <5> HIDE DEF w, bit, command, byte
        <5> QED
          BY <5>1, <5>2 DEF Targets
      <4>5. t.command => t.byte < Len(Response)
        BY <1>1, <3>2
      <4> HIDE DEF v, w
      <4>6. Counted(t, w)
        BY <1>1, <3>2, <4>3, <4>5 DEF Counted
      <4> QED
        BY <4>1, <4>3, <4>4, <4>6
    <3> QED
      BY <3>1, <3>2
  <2>2. GetMiso(t, mode) = [v EXCEPT !.read = Append(@, answer)]
    BY <1>2 DEF GetMiso
  <2> HIDE DEF v
  <2>3. /\ u \in Targets /\ u.kind = t.kind /\ u.cs = 0 /\ u.sclk = t.sclk
        /\ u.mosi = t.mosi /\ u.sampled = t.sampled /\ u.shifted = t.shifted
        /\ u.read = Append(t.read, answer)
        /\ u.bit = v.bit /\ u.command = v.command /\ u.byte = v.byte
    BY <1>1, <2>1 DEF Targets
  <2> HIDE DEF u
  <2>4. Counted(t, u)
    BY <2>1, <2>3 DEF Counted
  <2>5. GetMiso(t, mode) = u
    BY <2>2 DEF u
  <2> QED
    BY <2>3, <2>4, <2>5 DEF WasRead
<1>3. CASE t.kind # "simulated"
  <2> DEFINE u == [t EXCEPT !.read = Append(@, answer)]
  <2>1. GetMiso(t, mode) = u
    BY <1>3 DEF GetMiso
  <2>2. /\ u \in Targets /\ u.kind = t.kind /\ u.cs = 0 /\ u.sclk = t.sclk
        /\ u.mosi = t.mosi /\ u.sampled = t.sampled /\ u.shifted = t.shifted
        /\ u.read = Append(t.read, answer)
    BY <1>1 DEF Targets
  <2> HIDE DEF u
  <2> QED
    BY <1>3, <2>1, <2>2 DEF WasRead
<1> QED
  BY <1>2, <1>3

\* A bit has been heard on both sides.
Heard(t, u, bit, mode) ==
  /\ u \in Ready(mode) /\ u.kind = t.kind
  /\ u.sampled = Append(t.sampled, bit) /\ u.shifted = t.shifted + 1
  /\ u.read = Append(t.read, Reply(t))
  /\ t.kind = "simulated" => Counted(t, u)

\* Whatever the mode, the target hears the bit that was sent, and the master the reply.
LEMMA BitSent ==
  ASSUME NEW mode \in 0 .. 3, NEW t \in Ready(mode), NEW bit \in {0, 1}
  PROVE  Heard(t, TransferBit(t, bit, mode), bit, mode)
<1> DEFINE idle   == spi_get_cpol(mode)
           active == 1 - idle
           reply  == Reply(t)
<1>1. /\ idle \in {0, 1} /\ active \in {0, 1} /\ active # idle
      /\ t \in Targets /\ t.cs = 0 /\ t.sclk = idle
  BY ClockLevels DEF Ready
<1>2. reply \in {0, 1}
  BY <1>1, ReplyIsBit
<1>3. t.shifted \in Nat
  BY <1>1 DEF Targets
<1> HIDE DEF idle, active, reply
<1>4. CASE spi_get_cpha(mode) = 0
  <2> DEFINE a == SetMosi(t, bit)
             b == SetSclk(a, active, mode)
             c == GetMiso(b, mode)
             d == SetSclk(c, idle, mode)
  <2>0. Takes(mode, active) /\ ~Takes(mode, idle)
    BY <1>1, <1>4 DEF Takes, idle
  <2>1. /\ a \in Targets /\ SameInside(t, a) /\ a.sclk = idle /\ a.mosi = bit
        /\ a.sampled = t.sampled /\ a.shifted = t.shifted
    BY <1>1, MosiSet
  <2> HIDE DEF a
  <2>2. Took(a, b, active)
    <3>1. a.cs = 0 /\ active # a.sclk
      BY <1>1, <2>1 DEF SameInside
    <3> QED
      BY <1>1, <2>0, <2>1, <3>1, TakingEdge
  <2> HIDE DEF b
  <2>3. /\ b \in Targets /\ b.kind = t.kind /\ b.cs = 0 /\ b.command = t.command
        /\ b.byte = t.byte /\ b.bit = t.bit /\ b.read = t.read /\ b.mosi = bit
        /\ b.sampled = Append(t.sampled, bit) /\ b.shifted = t.shifted /\ b.sclk = active
    BY <1>1, <2>1, <2>2 DEF Took, SameInside
  <2>4. reply = IF b.kind = "simulated" THEN Answer(b) ELSE Miso(b, mode)
    BY <1>1, <1>4, <2>3 DEF reply, Reply, Answer, Miso, spi_get_cpha
  <2>5. WasRead(b, c, reply)
    BY <1>2, <2>3, <2>4, MisoRead
  <2> HIDE DEF c
  <2>6. /\ c \in Targets /\ c.kind = t.kind /\ c.cs = 0 /\ c.sclk = active
        /\ c.mosi = bit /\ c.sampled = Append(t.sampled, bit) /\ c.shifted = t.shifted
        /\ c.read = Append(t.read, reply)
        /\ t.kind = "simulated" => Counted(b, c)
    BY <2>3, <2>5 DEF WasRead
  <2>7. MovedOn(c, d, idle)
    <3>1. idle # c.sclk
      BY <1>1, <2>6
    <3> QED
      BY <1>1, <2>0, <2>6, <3>1, MovingEdge
  <2>8. TransferBit(t, bit, mode) = d
    BY <1>4 DEF TransferBit, a, b, c, idle, active
  <2> HIDE DEF d
  <2>9. /\ d \in Ready(mode) /\ d.kind = t.kind /\ d.read = Append(t.read, reply)
        /\ d.sampled = Append(t.sampled, bit) /\ d.shifted = t.shifted + 1
    BY <2>6, <2>7 DEF MovedOn, SameInside, Ready, idle
  <2>10. t.kind = "simulated" => Counted(t, d)
    BY <2>3, <2>6, <2>7 DEF MovedOn, SameInside, Counted
  <2> QED
    BY <2>8, <2>9, <2>10 DEF Heard, reply
<1>5. CASE spi_get_cpha(mode) # 0
  <2> DEFINE a == SetSclk(t, active, mode)
             b == SetMosi(a, bit)
             c == SetSclk(b, idle, mode)
             d == GetMiso(c, mode)
  <2>0. spi_get_cpha(mode) = 1 /\ ~Takes(mode, active) /\ Takes(mode, idle)
    BY <1>1, <1>5, ClockLevels DEF Takes, idle
  <2>1. MovedOn(t, a, active)
    BY <1>1, <2>0, MovingEdge
  <2> HIDE DEF a
  <2>2. a \in Targets /\ SameInside(t, a) /\ a.sclk = active
    BY <2>1 DEF MovedOn
  <2>3. /\ b \in Targets /\ SameInside(a, b) /\ b.sclk = active /\ b.mosi = bit
        /\ b.sampled = a.sampled /\ b.shifted = a.shifted
    BY <1>1, <2>2, MosiSet
  <2> HIDE DEF b
  <2>4. Took(b, c, idle)
    <3>1. b.cs = 0 /\ idle # b.sclk
      BY <1>1, <2>2, <2>3 DEF SameInside
    <3> QED
      BY <1>1, <2>0, <2>3, <3>1, TakingEdge
  <2> HIDE DEF c
  <2>5. /\ c \in Targets /\ c.kind = t.kind /\ c.cs = 0 /\ c.command = t.command
        /\ c.byte = t.byte /\ c.bit = t.bit /\ c.read = t.read /\ c.sclk = idle
        /\ c.sampled = Append(t.sampled, bit) /\ c.shifted = t.shifted + 1
    BY <1>1, <2>1, <2>3, <2>4 DEF MovedOn, Took, SameInside
  <2>6. reply = IF c.kind = "simulated" THEN Answer(c) ELSE Miso(c, mode)
    <3>1. c.shifted - 1 = t.shifted /\ mode \in {1, 3}
      BY <1>3, <2>0, <2>5 DEF spi_get_cpha
    <3> QED
      BY <1>1, <2>5, <3>1 DEF reply, Reply, Answer, Miso
  <2>7. WasRead(c, d, reply)
    BY <1>2, <2>5, <2>6, MisoRead
  <2>8. TransferBit(t, bit, mode) = d
    BY <1>5 DEF TransferBit, a, b, c, idle, active
  <2> HIDE DEF d
  <2>9. /\ d \in Ready(mode) /\ d.kind = t.kind /\ d.read = Append(t.read, reply)
        /\ d.sampled = Append(t.sampled, bit) /\ d.shifted = t.shifted + 1
    BY <2>5, <2>7 DEF WasRead, Ready, idle
  <2>10. t.kind = "simulated" => Counted(t, d)
    BY <2>5, <2>7 DEF WasRead, Counted
  <2> QED
    BY <2>8, <2>9, <2>10 DEF Heard, reply
<1> QED
  BY <1>4, <1>5

-----------------------------------------------------------------------------
(* Lab 15: what the bits of a transfer add up to. *)

\* Bit b of the answer to byte i, in the order the bits travel.
AnswerBit(kind, i, b) ==
  LET n == Len(Response) IN
  IF kind = "ordinary" THEN Response[((i - 1) % n) + 1][b]
  ELSE IF i \in 2 .. n + 1 THEN Response[i - 1][b] ELSE 1

\* The simulated device before bit b of byte i.
DeviceAt(t, i, b) ==
  /\ t.command <=> i > 1
  /\ i <= Len(Response) + 1 => t.bit = b - 1 /\ t.byte = IF i = 1 THEN 0 ELSE i - 2
  /\ i > Len(Response) + 1 => t.byte >= Len(Response)

\* The first g bits of bytes have gone over the wire.
Sofar(t, kind, b, bytes, g) ==
  /\ t \in Ready(b.mode) /\ t.kind = kind
  /\ t.shifted = g /\ Len(t.sampled) = g /\ Len(t.read) = g
  /\ \A i \in 1 .. Len(bytes), c \in 1 .. Wide :
        Spot(i, c) <= g => /\ t.sampled[Spot(i, c)] = Travelling(bytes[i], b.order)[c]
                           /\ t.read[Spot(i, c)] = AnswerBit(kind, i, c)
  /\ kind = "simulated" => \A i \in Nat \ {0}, c \in 1 .. Wide :
                              Spot(i, c) = g + 1 => DeviceAt(t, i, c)

Buses == [mode : 0 .. 3, order : {"msb", "lsb"}]

\* The bits of a byte travel in one order or the other, and are the byte again when they
\* are put together in the same order.
LEMMA TravellingFacts ==
  ASSUME NEW byte \in WireBytes, NEW order
  PROVE  /\ Travelling(byte, order) \in WireBytes
         /\ Travelling(Travelling(byte, order), order) = byte
<1>1. Wide \in Nat \ {0}
  BY SpiAssumption
<1>2. \A x \in WireBytes : x \in Seq({0, 1}) /\ Len(x) = Wide
  BY <1>1 DEF WireBytes
<1>3. \A x \in WireBytes : Reverse(x) = [i \in 1 .. Wide |-> x[(Wide - i) + 1]]
  BY <1>2 DEF Reverse
<1>4. \A i \in 1 .. Wide : (Wide - i) + 1 \in 1 .. Wide /\ (Wide - ((Wide - i) + 1)) + 1 = i
  BY <1>1
<1>5. \A x \in WireBytes : Reverse(x) \in WireBytes
  <2> TAKE x \in WireBytes
  <2>1. \A i \in 1 .. Wide : x[(Wide - i) + 1] \in {0, 1}
    BY <1>4 DEF WireBytes
  <2>2. [i \in 1 .. Wide |-> x[(Wide - i) + 1]] \in [1 .. Wide -> {0, 1}]
    BY <2>1
  <2> QED
    BY <1>3, <2>2 DEF WireBytes
<1>6. \A x \in WireBytes : Reverse(Reverse(x)) = x
  <2> TAKE x \in WireBytes
  <2> DEFINE y == Reverse(x)
  <2>1. y \in WireBytes /\ \A i \in 1 .. Wide : y[i] = x[(Wide - i) + 1]
    BY <1>3, <1>5
  <2>2. Reverse(y) = [i \in 1 .. Wide |-> y[(Wide - i) + 1]]
    BY <1>3, <2>1
  <2> HIDE DEF y
  <2>3. \A i \in 1 .. Wide : y[(Wide - i) + 1] = x[i]
    BY <1>4, <2>1
  <2>4. Reverse(y) = [i \in 1 .. Wide |-> x[i]]
    BY <2>2, <2>3
  <2>5. x = [i \in 1 .. Wide |-> x[i]]
    BY DEF WireBytes
  <2> QED
    BY <2>4, <2>5 DEF y
<1> QED
  BY <1>5, <1>6 DEF Travelling

\* The reply to bit k + 1 of byte m + 1.
LEMMA ReplyAt ==
  ASSUME NEW t, NEW kind \in {"simulated", "ordinary"}, NEW b \in Buses, NEW bytes,
         NEW m \in Nat, NEW k \in 0 .. Wide - 1, Sofar(t, kind, b, bytes, m * Wide + k)
  PROVE  Reply(t) = AnswerBit(kind, m + 1, k + 1)
<1>1. /\ Wide \in Nat \ {0} /\ Len(Response) \in Nat \ {0}
      /\ \A i \in 1 .. Len(Response), c \in 1 .. Wide : Response[i][c] \in {0, 1}
  BY SpiAssumption
<1>2. /\ Spot(m + 1, k + 1) = m * Wide + k + 1 /\ k + 1 \in 1 .. Wide
      /\ m + 1 \in Nat \ {0} /\ (m + 1) - 1 = m /\ k \in Nat /\ (k + 1) - 1 = k
  BY <1>1, SpotNext
<1>3. CASE kind = "ordinary"
  <2>1. t.shifted = m * Wide + k /\ t.kind = kind
    BY DEF Sofar
  <2>2. (m * Wide + k) \div Wide = m /\ (m * Wide + k) % Wide = k
    BY WireDivision
  <2>3. Reply(t) = Response[(m % Len(Response)) + 1][k + 1]
    BY <1>3, <2>1, <2>2 DEF Reply
  <2>4. AnswerBit(kind, m + 1, k + 1) = Response[(m % Len(Response)) + 1][k + 1]
    BY <1>2, <1>3 DEF AnswerBit
  <2> QED
    BY <2>3, <2>4
<1>4. CASE kind = "simulated"
  <2>1. DeviceAt(t, m + 1, k + 1) /\ t \in Targets /\ t.cs = 0 /\ t.kind = "simulated"
    BY <1>2, <1>4 DEF Sofar, Ready
  <2>2. t.byte \in Nat /\ t.bit \in Nat
    BY <1>1, <2>1 DEF Targets
  <2>3. CASE m = 0
    BY <1>1, <1>2, <1>4, <2>1, <2>2, <2>3 DEF Reply, Answer, AnswerBit, DeviceAt
  <2>4. CASE m # 0 /\ m <= Len(Response)
    <3>1. /\ t.command /\ t.bit + 1 = k + 1 /\ t.byte + 1 = m /\ ~(t.byte >= Len(Response))
          /\ m + 1 \in 2 .. Len(Response) + 1
      BY <1>1, <1>2, <2>1, <2>2, <2>4 DEF DeviceAt
    <3> QED
      BY <1>2, <1>4, <2>1, <3>1 DEF Reply, Answer, AnswerBit
  <2>5. CASE m > Len(Response)
    <3>1. t.byte >= Len(Response) /\ m + 1 \notin 2 .. Len(Response) + 1
      BY <1>1, <1>2, <2>1, <2>2, <2>5 DEF DeviceAt
    <3> QED
      BY <1>2, <1>4, <2>1, <3>1 DEF Reply, Answer, AnswerBit
  <2> QED
    BY <1>1, <2>3, <2>4, <2>5
<1> QED
  BY <1>3, <1>4

\* What the simulated device's counters are before the next bit.
LEMMA DeviceNext ==
  ASSUME NEW t \in Targets, NEW u \in Targets, NEW m \in Nat, NEW k \in 0 .. Wide - 1,
         DeviceAt(t, m + 1, k + 1), Counted(t, u),
         NEW i \in Nat \ {0}, NEW c \in 1 .. Wide, Spot(i, c) = m * Wide + k + 2
  PROVE  DeviceAt(u, i, c)
<1>0. Wide \in Nat \ {0} /\ Len(Response) \in Nat \ {0}
  BY SpiAssumption
<1>1. /\ Wide \in Nat \ {0} /\ Len(Response) \in Nat \ {0}
      /\ t.byte \in Nat /\ t.bit \in Nat /\ t.command \in BOOLEAN
      /\ u.byte \in Nat /\ u.bit \in Nat /\ u.command \in BOOLEAN
  <2>1. t.byte \in Nat /\ t.bit \in Nat /\ t.command \in BOOLEAN
    BY <1>0 DEF Targets
  <2>2. u.byte \in Nat /\ u.bit \in Nat /\ u.command \in BOOLEAN
    BY <1>0 DEF Targets
  <2> QED
    BY <1>0, <2>1, <2>2
<1>2. /\ k + 1 \in 1 .. Wide /\ (k + 1) - 1 = k /\ (m + 1) - 2 = m - 1
      /\ k + 1 = Wide => Spot(m + 2, 1) = m * Wide + k + 2
  BY <1>1, SpotNext
<1>3. CASE k + 1 < Wide
  <2>1. k + 1 \in 0 .. Wide - 1
    BY <1>1, <1>3
  <2>2. Spot(m + 1, (k + 1) + 1) = m * Wide + (k + 1) + 1 /\ (k + 1) + 1 \in 1 .. Wide
        /\ m * Wide + k \in Nat
    BY <2>1, SpotNext
  <2>3. m * Wide + (k + 1) + 1 = m * Wide + k + 2
    <3>1. m * Wide \in Nat /\ k \in Nat
      BY <1>1
    <3> QED
      BY <3>1
  <2>4. m + 1 \in Nat \ {0} /\ Spot(i, c) = Spot(m + 1, (k + 1) + 1)
    BY <2>2, <2>3
  <2>5. i = m + 1 /\ c = (k + 1) + 1
    BY <2>2, <2>4, SpotUnique
  <2> QED
    BY <1>1, <1>2, <1>3, <2>5 DEF DeviceAt, Counted
<1>4. CASE k + 1 = Wide
  <2>1. Spot(i, c) = Spot(m + 2, 1) /\ m + 2 \in Nat \ {0} /\ 1 \in 1 .. Wide
    BY <1>1, <1>2, <1>4
  <2>2. i = m + 2 /\ c = 1
    BY <2>1, SpotUnique
  <2>3. u.command /\ i > 1
    BY <1>1, <1>2, <1>4, <2>2 DEF DeviceAt, Counted
  <2>4. CASE m = 0
    BY <1>1, <1>2, <1>4, <2>2, <2>3, <2>4 DEF DeviceAt, Counted
  <2>5. CASE m # 0 /\ m <= Len(Response)
    BY <1>1, <1>2, <1>4, <2>2, <2>3, <2>5 DEF DeviceAt, Counted
  <2>6. CASE m > Len(Response)
    BY <1>1, <1>2, <1>4, <2>2, <2>3, <2>6 DEF DeviceAt, Counted
  <2> QED
    BY <1>1, <2>4, <2>5, <2>6
<1> QED
  BY <1>1, <1>2, <1>3, <1>4

\* One more bit.
LEMMA SofarBit ==
  ASSUME NEW t, NEW kind \in {"simulated", "ordinary"}, NEW b \in Buses,
         NEW bytes \in Seq(WireBytes), NEW m \in 0 .. Len(bytes) - 1, NEW k \in 0 .. Wide - 1,
         Sofar(t, kind, b, bytes, m * Wide + k)
  PROVE  Sofar(TransferBit(t, Travelling(bytes[m + 1], b.order)[k + 1], b.mode), kind, b, bytes,
               m * Wide + k + 1)
<1> DEFINE g == m * Wide + k
           bit == Travelling(bytes[m + 1], b.order)[k + 1]
           u == TransferBit(t, bit, b.mode)
           reply == AnswerBit(kind, m + 1, k + 1)
<1>1. /\ Wide \in Nat \ {0} /\ Len(bytes) \in Nat /\ m \in Nat /\ m + 1 \in 1 .. Len(bytes)
      /\ b.mode \in 0 .. 3
  BY SpiAssumption DEF Buses
<1>2. /\ g \in Nat /\ Spot(m + 1, k + 1) = g + 1 /\ k + 1 \in 1 .. Wide
  BY <1>1, SpotNext
<1>3. bit \in {0, 1}
  <2>1. bytes[m + 1] \in WireBytes
    BY <1>1, ElementOfSeq
  <2>2. Travelling(bytes[m + 1], b.order) \in WireBytes
    BY <2>1, TravellingFacts
  <2> QED
    BY <1>2, <2>2 DEF WireBytes
<1>4. Reply(t) = reply
  BY <1>1, ReplyAt
<1> HIDE DEF g
<1>5. /\ t \in Ready(b.mode) /\ t \in Targets /\ t.kind = kind
      /\ t.shifted = g /\ Len(t.sampled) = g /\ Len(t.read) = g
      /\ t.sampled \in Seq({0, 1}) /\ t.read \in Seq({0, 1})
  BY DEF Sofar, Ready, Targets, g
<1>6. \A i \in 1 .. Len(bytes), c \in 1 .. Wide :
        Spot(i, c) <= g => /\ t.sampled[Spot(i, c)] = Travelling(bytes[i], b.order)[c]
                           /\ t.read[Spot(i, c)] = AnswerBit(kind, i, c)
  BY DEF Sofar, g
<1>7. kind = "simulated" => DeviceAt(t, m + 1, k + 1)
  BY <1>1, <1>2 DEF Sofar, g
<1> HIDE DEF bit, reply
<1>0. Heard(t, u, bit, b.mode)
  BY <1>1, <1>3, <1>5, BitSent
<1>8. /\ u \in Ready(b.mode) /\ u.kind = kind
      /\ u.sampled = Append(t.sampled, bit) /\ u.shifted = g + 1
      /\ u.read = Append(t.read, reply)
      /\ kind = "simulated" => Counted(t, u)
  BY <1>0, <1>4, <1>5 DEF Heard
<1> HIDE DEF u
<1>9. reply \in {0, 1}
  BY <1>4, <1>5, ReplyIsBit DEF Ready
<1>10. /\ Len(u.sampled) = g + 1 /\ Len(u.read) = g + 1
       /\ u.sampled[g + 1] = bit /\ u.read[g + 1] = reply
       /\ \A x \in 1 .. g : u.sampled[x] = t.sampled[x] /\ u.read[x] = t.read[x]
  <2>1. /\ Len(u.sampled) = Len(t.sampled) + 1 /\ u.sampled[Len(t.sampled) + 1] = bit
        /\ \A x \in 1 .. Len(t.sampled) : u.sampled[x] = t.sampled[x]
    BY <1>3, <1>5, <1>8, AppendProperties
  <2>2. /\ Len(u.read) = Len(t.read) + 1 /\ u.read[Len(t.read) + 1] = reply
        /\ \A x \in 1 .. Len(t.read) : u.read[x] = t.read[x]
    BY <1>5, <1>8, <1>9, AppendProperties
  <2> QED
    BY <1>5, <2>1, <2>2
<1>11. \A i \in 1 .. Len(bytes), c \in 1 .. Wide :
          Spot(i, c) <= g + 1 => /\ u.sampled[Spot(i, c)] = Travelling(bytes[i], b.order)[c]
                                 /\ u.read[Spot(i, c)] = AnswerBit(kind, i, c)
  <2> SUFFICES ASSUME NEW i \in 1 .. Len(bytes), NEW c \in 1 .. Wide, Spot(i, c) <= g + 1
               PROVE  /\ u.sampled[Spot(i, c)] = Travelling(bytes[i], b.order)[c]
                      /\ u.read[Spot(i, c)] = AnswerBit(kind, i, c)
    OBVIOUS
  <2>1. Spot(i, c) \in Nat \ {0}
    <3>1. Len(bytes) * Wide \in Nat /\ Spot(i, c) \in 1 .. Len(bytes) * Wide
      BY <1>1, SpotRange
    <3> QED
      BY <3>1
  <2>2. CASE Spot(i, c) = g + 1
    <3>1. i = m + 1 /\ c = k + 1
      BY <1>1, <1>2, <2>2, SpotUnique
    <3> QED
      BY <1>10, <2>2, <3>1 DEF bit, reply
  <2>3. CASE Spot(i, c) # g + 1
    <3>1. Spot(i, c) <= g /\ Spot(i, c) \in 1 .. g
      BY <1>2, <2>1, <2>3
    <3> QED
      BY <1>6, <1>10, <3>1
  <2> QED
    BY <2>2, <2>3
<1>12. kind = "simulated" => \A i \in Nat \ {0}, c \in 1 .. Wide :
                               Spot(i, c) = (g + 1) + 1 => DeviceAt(u, i, c)
  <2> SUFFICES ASSUME kind = "simulated", NEW i \in Nat \ {0}, NEW c \in 1 .. Wide,
                      Spot(i, c) = (g + 1) + 1
               PROVE  DeviceAt(u, i, c)
    OBVIOUS
  <2>1. Spot(i, c) = m * Wide + k + 2
    <3>1. (g + 1) + 1 = g + 2
      BY <1>2
    <3> QED
      BY <3>1 DEF g
  <2>2. u \in Targets
    BY <1>8 DEF Ready
  <2> QED
    BY <1>1, <1>5, <1>7, <1>8, <2>1, <2>2, DeviceNext
<1> QED
  BY <1>8, <1>10, <1>11, <1>12 DEF Sofar, g, u, bit

\* The target after each bit of a byte.
AfterBits(at, t, byte, b) ==
  /\ at[0] = t /\ spi_bitbang_transfer_byte(t, byte, b) = at[Wide]
  /\ \A k \in 0 .. Wide : at[k] \in Ready(b.mode)
  /\ \A k \in 0 .. Wide - 1 :
       at[k + 1] = TransferBit(at[k], Travelling(byte, b.order)[k + 1], b.mode)

\* The loop over the bits of a byte.
LEMMA BitLoop ==
  ASSUME NEW b \in Buses, NEW t \in Ready(b.mode), NEW byte \in WireBytes
  PROVE  \E at : AfterBits(at, t, byte, b)
<1> DEFINE bits == Travelling(byte, b.order)
           X == Ready(b.mode)
           S == [k \in 1 .. Wide |-> [x \in X |-> TransferBit(x, bits[k], b.mode)]]
           at == CHOOSE f : f = [k \in 0 .. Wide |-> IF k = 0 THEN t
                                                     ELSE TransferBit(f[k - 1], bits[k], b.mode)]
<1>1. Wide \in Nat /\ b.mode \in 0 .. 3
  BY SpiAssumption DEF Buses
<1>2. \A k \in 1 .. Wide : bits[k] \in {0, 1}
  BY TravellingFacts DEF WireBytes
<1>3. \A k \in 1 .. Wide : \A x \in X : TransferBit(x, bits[k], b.mode) \in X
  BY <1>1, <1>2, BitSent DEF Heard
<1>4. spi_bitbang_transfer_byte(t, byte, b) = at[Wide]
  BY DEF spi_bitbang_transfer_byte
<1> HIDE DEF bits, X
<1>5. S \in [1 .. Wide -> [X -> X]]
  BY <1>3
<1>6. t \in X
  BY DEF X
<1>7. /\ \A k \in 1 .. Wide, x \in X : S[k][x] = TransferBit(x, bits[k], b.mode)
  OBVIOUS
<1> HIDE DEF S
<1>8. PICK f \in [0 .. Wide -> X] : IsLoop(f, t, Wide, S)
  BY <1>1, <1>5, <1>6, LoopDefined
<1>9. \A k \in 0 .. Wide : k # 0 => k \in 1 .. Wide /\ k - 1 \in 0 .. Wide
  BY <1>1
<1>10. \A k \in 0 .. Wide : f[k] = IF k = 0 THEN t ELSE TransferBit(f[k - 1], bits[k], b.mode)
  <2> TAKE k \in 0 .. Wide
  <2>1. f[k] = IF k = 0 THEN t ELSE S[k][f[k - 1]]
    BY <1>8 DEF IsLoop
  <2>2. k # 0 => f[k - 1] \in X
    BY <1>8, <1>9
  <2> QED
    BY <1>7, <1>9, <2>1, <2>2
<1>11. f = [k \in 0 .. Wide |-> IF k = 0 THEN t ELSE TransferBit(f[k - 1], bits[k], b.mode)]
  BY <1>8, <1>10 DEF IsLoop
<1>12. at = [k \in 0 .. Wide |-> IF k = 0 THEN t ELSE TransferBit(at[k - 1], bits[k], b.mode)]
  BY <1>11
<1> HIDE DEF at
<1>13. \A k \in 0 .. Wide : at[k] = IF k = 0 THEN t ELSE TransferBit(at[k - 1], bits[k], b.mode)
  BY <1>12
<1>14. at[0] = t
  BY <1>1, <1>13
<1>15. \A k \in 0 .. Wide - 1 : at[k + 1] = TransferBit(at[k], bits[k + 1], b.mode)
  <2> TAKE k \in 0 .. Wide - 1
  <2>1. k + 1 \in 0 .. Wide /\ k + 1 # 0 /\ (k + 1) - 1 = k
    BY <1>1
  <2> QED
    BY <1>13, <2>1
<1>16. \A k \in 0 .. Wide : at[k] \in X
  <2> DEFINE T == {k \in 0 .. Wide : at[k] \in X}
  <2>1. 0 \in T
    BY <1>1, <1>6, <1>14
  <2>2. \A k \in 0 .. Wide - 1 : k \in T => k + 1 \in T
    <3> SUFFICES ASSUME NEW k \in 0 .. Wide - 1, at[k] \in X PROVE k + 1 \in T
      OBVIOUS
    <3>1. k + 1 \in 0 .. Wide /\ k + 1 \in 1 .. Wide
      BY <1>1
    <3> QED
      BY <1>3, <1>15, <3>1
  <2>3. \A k \in 0 .. Wide : k \in T
    <3> HIDE DEF T
    <3> QED
      BY <1>1, <2>1, <2>2, StretchInduction
  <2> QED
    BY <2>3
<1> QED
  BY <1>4, <1>14, <1>15, <1>16 DEF bits, X, AfterBits

\* One more byte.
LEMMA SofarByte ==
  ASSUME NEW t, NEW kind \in {"simulated", "ordinary"}, NEW b \in Buses,
         NEW bytes \in Seq(WireBytes), NEW m \in 0 .. Len(bytes) - 1,
         Sofar(t, kind, b, bytes, m * Wide)
  PROVE  Sofar(spi_bitbang_transfer_byte(t, bytes[m + 1], b), kind, b, bytes, (m + 1) * Wide)
<1>1. /\ Wide \in Nat \ {0} /\ Len(bytes) \in Nat /\ m \in Nat /\ m + 1 \in 1 .. Len(bytes)
      /\ m * Wide \in Nat /\ (m + 1) * Wide = m * Wide + Wide
  BY SpiAssumption
<1>2. bytes[m + 1] \in WireBytes /\ t \in Ready(b.mode)
  BY <1>1, ElementOfSeq DEF Sofar
<1>0. PICK at : AfterBits(at, t, bytes[m + 1], b)
  BY <1>2, BitLoop
<1>3. /\ at[0] = t /\ spi_bitbang_transfer_byte(t, bytes[m + 1], b) = at[Wide]
      /\ \A k \in 0 .. Wide - 1 :
           at[k + 1] = TransferBit(at[k], Travelling(bytes[m + 1], b.order)[k + 1], b.mode)
  BY <1>0 DEF AfterBits
<1> DEFINE T == {k \in 0 .. Wide : Sofar(at[k], kind, b, bytes, m * Wide + k)}
<1>4. 0 \in T
  <2>1. m * Wide + 0 = m * Wide /\ 0 \in 0 .. Wide
    BY <1>1
  <2> QED
    BY <1>3, <2>1
<1>5. \A k \in 0 .. Wide - 1 : k \in T => k + 1 \in T
  <2> SUFFICES ASSUME NEW k \in 0 .. Wide - 1, Sofar(at[k], kind, b, bytes, m * Wide + k)
               PROVE  k + 1 \in T
    OBVIOUS
  <2>1. k + 1 \in 0 .. Wide /\ m * Wide + (k + 1) = m * Wide + k + 1
    BY <1>1
  <2>2. Sofar(TransferBit(at[k], Travelling(bytes[m + 1], b.order)[k + 1], b.mode), kind, b, bytes,
              m * Wide + k + 1)
    BY SofarBit
  <2>3. Sofar(at[k + 1], kind, b, bytes, m * Wide + (k + 1))
    BY <1>3, <2>1, <2>2
  <2> QED
    BY <2>1, <2>3
<1>6. Wide \in T
  <2> HIDE DEF T
  <2>1. \A k \in 0 .. Wide : k \in T
    BY <1>1, <1>4, <1>5, StretchInduction
  <2> QED
    BY <1>1, <2>1
<1> QED
  BY <1>1, <1>3, <1>6

\* The loop over the bytes of a transfer.
LEMMA SofarBytes ==
  ASSUME NEW t, NEW kind \in {"simulated", "ordinary"}, NEW b \in Buses,
         NEW bytes \in Seq(WireBytes), Sofar(t, kind, b, bytes, 0)
  PROVE  Sofar(TransferBytes(t, bytes, b), kind, b, bytes, Len(bytes) * Wide)
<1> DEFINE n == Len(bytes)
           X == Ready(b.mode)
           S == [i \in 1 .. n |-> [x \in X |-> spi_bitbang_transfer_byte(x, bytes[i], b)]]
           at == CHOOSE f : f = [i \in 0 .. Len(bytes) |->
                                   IF i = 0 THEN t
                                   ELSE spi_bitbang_transfer_byte(f[i - 1], bytes[i], b)]
<1>1. n \in Nat /\ Wide \in Nat \ {0}
  BY SpiAssumption
<1>2. \A i \in 1 .. n : bytes[i] \in WireBytes
  BY ElementOfSeq
<1>3. \A i \in 1 .. n : \A x \in X : spi_bitbang_transfer_byte(x, bytes[i], b) \in X
  <2> TAKE i \in 1 .. n
  <2> TAKE x \in X
  <2>1. PICK f : AfterBits(f, x, bytes[i], b)
    BY <1>2, BitLoop
  <2>2. Wide \in 0 .. Wide
    BY <1>1
  <2> QED
    BY <2>1, <2>2 DEF AfterBits
<1>4. TransferBytes(t, bytes, b) = at[n]
  BY DEF TransferBytes
<1>5. t \in X
  BY DEF Sofar
<1>6. S \in [1 .. n -> [X -> X]]
  <2> HIDE DEF X, n
  <2> QED
    BY <1>3
<1>7. \A i \in 1 .. n, x \in X : S[i][x] = spi_bitbang_transfer_byte(x, bytes[i], b)
  OBVIOUS
<1> HIDE DEF S, X
<1>8. PICK f \in [0 .. n -> X] : IsLoop(f, t, n, S)
  <2> HIDE DEF n
  <2> QED
    BY <1>1, <1>5, <1>6, LoopDefined
<1>9. \A i \in 0 .. n : i # 0 => i \in 1 .. n /\ i - 1 \in 0 .. n
  BY <1>1
<1>10. \A i \in 0 .. n :
          f[i] = IF i = 0 THEN t ELSE spi_bitbang_transfer_byte(f[i - 1], bytes[i], b)
  <2> TAKE i \in 0 .. n
  <2>1. f[i] = IF i = 0 THEN t ELSE S[i][f[i - 1]]
    BY <1>8 DEF IsLoop
  <2>2. i # 0 => f[i - 1] \in X
    BY <1>8, <1>9
  <2> QED
    BY <1>7, <1>9, <2>1, <2>2
<1>11. f = [i \in 0 .. n |-> IF i = 0 THEN t ELSE spi_bitbang_transfer_byte(f[i - 1], bytes[i], b)]
  BY <1>8, <1>10 DEF IsLoop
<1>12. at = [i \in 0 .. n |->
               IF i = 0 THEN t ELSE spi_bitbang_transfer_byte(at[i - 1], bytes[i], b)]
  BY <1>11
<1> HIDE DEF at
<1>13. \A i \in 0 .. n :
          at[i] = IF i = 0 THEN t ELSE spi_bitbang_transfer_byte(at[i - 1], bytes[i], b)
  BY <1>12
<1> DEFINE T == {i \in 0 .. n : Sofar(at[i], kind, b, bytes, i * Wide)}
<1>14. 0 \in T
  <2>1. 0 \in 0 .. n /\ 0 * Wide = 0
    BY <1>1
  <2> QED
    BY <1>13, <2>1
<1>15. \A m \in 0 .. n - 1 : m \in T => m + 1 \in T
  <2> SUFFICES ASSUME NEW m \in 0 .. n - 1, Sofar(at[m], kind, b, bytes, m * Wide)
               PROVE  m + 1 \in T
    OBVIOUS
  <2>1. m + 1 \in 0 .. n /\ m + 1 # 0 /\ (m + 1) - 1 = m
    BY <1>1
  <2>2. Sofar(spi_bitbang_transfer_byte(at[m], bytes[m + 1], b), kind, b, bytes, (m + 1) * Wide)
    BY SofarByte
  <2>3. at[m + 1] = spi_bitbang_transfer_byte(at[m], bytes[m + 1], b)
    BY <1>13, <2>1
  <2> QED
    BY <2>1, <2>2, <2>3
<1>16. n \in T
  <2> HIDE DEF T, n
  <2>1. \A i \in 0 .. n : i \in T
    BY <1>1, <1>14, <1>15, StretchInduction
  <2> QED
    BY <1>1, <2>1
<1> QED
  BY <1>4, <1>16

-----------------------------------------------------------------------------
(* Lab 15: a transfer. *)

\* The bits of n bytes, one after the other.
OnWire(bits, n, bytes) ==
  /\ bytes \in [1 .. n -> WireBytes] /\ Len(bits) = n * Wide
  /\ \A i \in 1 .. n, c \in 1 .. Wide : bits[Spot(i, c)] = bytes[i][c]

\* The bytes that travelled as the given ones.
Together(n, bytes, order) == [i \in 1 .. n |-> Travelling(bytes[i], order)]

\* A run of received bits, put together byte by byte.
LEMMA BytesPutTogether ==
  ASSUME NEW bits \in Seq({0, 1}), NEW n \in Nat, NEW order,
         NEW bytes, OnWire(bits, n, bytes)
  PROVE  BytesOf(bits, order) = Together(n, bytes, order)
<1>0. /\ bytes \in [1 .. n -> WireBytes] /\ Len(bits) = n * Wide
      /\ \A i \in 1 .. n, c \in 1 .. Wide : bits[Spot(i, c)] = bytes[i][c]
  BY DEF OnWire
<1>1. Wide \in Nat \ {0}
  BY SpiAssumption
<1>2. Len(bits) \div Wide = n
  <2>1. n * Wide + 0 = n * Wide /\ 0 \in 0 .. Wide - 1
    BY <1>1
  <2> QED
    BY <1>0, <2>1, WireDivision
<1>3. \A i \in 1 .. n : SubSeq(bits, (i - 1) * Wide + 1, i * Wide) = bytes[i]
  <2> TAKE i \in 1 .. n
  <2> DEFINE x == (i - 1) * Wide
             y == i * Wide
             s == SubSeq(bits, x + 1, y)
  <2>1. x \in Nat /\ y = x + Wide /\ \A c \in 1 .. Wide : Spot(i, c) = x + c
    BY <1>1 DEF Spot
  <2>2. \A c \in 1 .. Wide : x + c \in 1 .. Len(bits)
    <3> TAKE c \in 1 .. Wide
    <3>1. Spot(i, c) \in 1 .. n * Wide
      BY SpotRange
    <3> QED
      BY <1>0, <2>1, <3>1
  <2> HIDE DEF x, y
  <2>3. s = [c \in 1 .. Wide |-> bits[x + c]]
    <3>1. (y - (x + 1)) + 1 = Wide
      BY <1>1, <2>1
    <3>2. \A c \in 1 .. Wide : ((x + 1) + c) - 1 = x + c
      BY <1>1, <2>1
    <3>3. x + 1 \in 1 .. Len(bits) + 1 /\ y \in (x + 1) - 1 .. Len(bits) /\ x + 1 <= y
      <4>1. 1 \in 1 .. Wide /\ Wide \in 1 .. Wide
        BY <1>1
      <4>2. x + 1 \in 1 .. Len(bits) /\ x + Wide \in 1 .. Len(bits)
        BY <2>2, <4>1
      <4> QED
        BY <1>1, <2>1, <4>2
    <3>4. /\ s \in Seq({0, 1}) /\ Len(s) = (y - (x + 1)) + 1
          /\ \A c \in 1 .. (y - (x + 1)) + 1 : s[c] = bits[((x + 1) + c) - 1]
      BY <3>3, SubSeqProperties
    <3> HIDE DEF s
    <3>5. s = [c \in 1 .. Len(s) |-> s[c]]
      BY <3>4
    <3> QED
      BY <3>1, <3>2, <3>4, <3>5
  <2>4. \A c \in 1 .. Wide : bits[x + c] = bytes[i][c]
    BY <1>0, <2>1
  <2>5. s = [c \in 1 .. Wide |-> bytes[i][c]]
    BY <2>3, <2>4
  <2>6. bytes[i] = [c \in 1 .. Wide |-> bytes[i][c]]
    BY <1>0 DEF WireBytes
  <2> QED
    BY <2>5, <2>6 DEF x, y
<1>4. BytesOf(bits, order) =
        [i \in 1 .. n |-> Travelling(SubSeq(bits, (i - 1) * Wide + 1, i * Wide), order)]
  BY <1>2 DEF BytesOf
<1> QED
  BY <1>3, <1>4 DEF Together

\* The bytes a target answers a transfer with, as they travel.
Replies(kind, n) == [i \in 1 .. n |-> [c \in 1 .. Wide |-> AnswerBit(kind, i, c)]]

\* Their bytes, as the master puts them together.
LEMMA RepliesAreBytes ==
  ASSUME NEW kind \in {"simulated", "ordinary"}, NEW n \in Nat, NEW i \in 1 .. n
  PROVE  /\ Replies(kind, n)[i] \in WireBytes
         /\ Replies(kind, n)[i] =
              IF kind = "ordinary" THEN Response[((i - 1) % Len(Response)) + 1]
              ELSE IF i \in 2 .. Len(Response) + 1 THEN Response[i - 1] ELSE AllOnes
<1>1. Wide \in Nat \ {0} /\ Len(Response) \in Nat \ {0} /\ Response \in Seq(WireBytes)
  BY SpiAssumption DEF WireBytes
<1>2. i \in Nat /\ i - 1 \in Nat
  OBVIOUS
<1>3. (i - 1) % Len(Response) \in 0 .. Len(Response) - 1
  BY <1>1, <1>2, ModRange
<1>4. ((i - 1) % Len(Response)) + 1 \in 1 .. Len(Response)
  BY <1>1, <1>3
<1>5. i \in 2 .. Len(Response) + 1 => i - 1 \in 1 .. Len(Response)
  BY <1>1, <1>2
<1>6. AllOnes \in WireBytes
  BY DEF AllOnes, WireBytes
<1> DEFINE byte == IF kind = "ordinary" THEN Response[((i - 1) % Len(Response)) + 1]
                   ELSE IF i \in 2 .. Len(Response) + 1 THEN Response[i - 1] ELSE AllOnes
<1>7. byte \in WireBytes
  BY <1>1, <1>4, <1>5, <1>6, ElementOfSeq
<1>8. \A c \in 1 .. Wide : AnswerBit(kind, i, c) = byte[c]
  BY DEF AnswerBit, AllOnes
<1> HIDE DEF byte
<1>9. byte = [c \in 1 .. Wide |-> byte[c]]
  BY <1>7 DEF WireBytes
<1>10. Replies(kind, n)[i] = byte
  BY <1>8, <1>9 DEF Replies
<1> QED
  BY <1>7, <1>10 DEF byte

\* A byte of ones is one in either order.
LEMMA OnesTravelling == \A order : Travelling(AllOnes, order) = AllOnes
<1>1. Wide \in Nat \ {0}
  BY SpiAssumption
<1>2. AllOnes \in Seq({0, 1}) /\ Len(AllOnes) = Wide /\ \A i \in 1 .. Wide : AllOnes[i] = 1
  BY <1>1 DEF AllOnes
<1>3. \A i \in 1 .. Wide : (Wide - i) + 1 \in 1 .. Wide
  BY <1>1
<1>4. Reverse(AllOnes) = [i \in 1 .. Wide |-> AllOnes[(Wide - i) + 1]]
  BY <1>2 DEF Reverse
<1>5. Reverse(AllOnes) = [i \in 1 .. Wide |-> 1]
  BY <1>2, <1>3, <1>4
<1> QED
  BY <1>5 DEF Travelling, AllOnes

\* Between calls the clock idles, and a target that is selected has heard nothing.
Resting(t, b) ==
  /\ t \in Targets /\ t.sclk = spi_get_cpol(b.mode)
  /\ t.cs = 0 => t.sampled = <<>> /\ t.shifted = 0

\* A selection starts a transfer of nothing.
LEMMA Selected ==
  ASSUME NEW t, NEW b \in Buses, NEW bytes \in Seq(WireBytes), Resting(t, b)
  PROVE  Sofar(spi_bitbang_select([t EXCEPT !.read = <<>>]), t.kind, b, bytes, 0)
<1> DEFINE r == [t EXCEPT !.read = <<>>]
           u == spi_bitbang_select(r)
<1>1. Wide \in Nat \ {0} /\ Len(Response) \in Nat \ {0} /\ Len(bytes) \in Nat
  BY SpiAssumption
<1>2. /\ r \in Targets /\ r.kind = t.kind /\ r.sclk = t.sclk /\ r.cs = t.cs /\ r.read = <<>>
      /\ r.sampled = t.sampled /\ r.shifted = t.shifted
  <2> DEFINE empty == <<>>
  <2>1. t \in Targets /\ empty \in Seq({0, 1})
    BY DEF Resting
  <2>2. r = [t EXCEPT !.read = empty]
    OBVIOUS
  <2> HIDE DEF empty, r
  <2>3. r \in Targets
    BY <2>1, <2>2 DEF Targets
  <2>4. /\ r.kind = t.kind /\ r.sclk = t.sclk /\ r.cs = t.cs /\ r.read = empty
        /\ r.sampled = t.sampled /\ r.shifted = t.shifted
    BY <2>1, <2>2 DEF Targets
  <2> QED
    BY <2>3, <2>4 DEF empty
<1> HIDE DEF r
<1>3. /\ u \in Targets /\ u.kind = t.kind /\ u.sclk = t.sclk /\ u.cs = 0 /\ u.read = <<>>
      /\ u.sampled = <<>> /\ u.shifted = 0 /\ ~u.command /\ u.byte = 0 /\ u.bit = 0
  <2> DEFINE none == IF r.cs = 1 THEN <<>> ELSE r.sampled
             zero == IF r.cs = 1 THEN 0 ELSE r.shifted
  <2>1. r.cs \in {0, 1} /\ 0 \in 0 .. Wide - 1
    BY <1>1, <1>2 DEF Targets
  <2>2. none = <<>> /\ zero = 0
    BY <1>2, <2>1 DEF Resting
  <2>3. u = [r EXCEPT !.cs = 0, !.command = FALSE, !.byte = 0, !.bit = 0,
                      !.sampled = none, !.shifted = zero]
    BY DEF spi_bitbang_select, SetCs
  <2> HIDE DEF u, r, none, zero
  <2>4. u = [r EXCEPT !.cs = 0, !.command = FALSE, !.byte = 0, !.bit = 0,
                      !.sampled = <<>>, !.shifted = 0]
    BY <2>2, <2>3
  <2>5. <<>> \in Seq({0, 1})
    OBVIOUS
  <2>6. u \in Targets
    BY <1>2, <2>1, <2>4, <2>5 DEF Targets
  <2>7. /\ u.kind = r.kind /\ u.sclk = r.sclk /\ u.cs = 0 /\ u.read = r.read
        /\ u.sampled = <<>> /\ u.shifted = 0 /\ u.command = FALSE /\ u.byte = 0 /\ u.bit = 0
    BY <1>2, <2>4 DEF Targets
  <2> QED
    BY <1>2, <2>6, <2>7
<1> HIDE DEF u
<1>4. u \in Ready(b.mode) /\ Len(u.sampled) = 0 /\ Len(u.read) = 0
  BY <1>3 DEF Ready, Resting
<1>5. \A i \in 1 .. Len(bytes), c \in 1 .. Wide : ~(Spot(i, c) <= 0)
  <2> TAKE i \in 1 .. Len(bytes), c \in 1 .. Wide
  <2>1. Len(bytes) * Wide \in Nat /\ Spot(i, c) \in 1 .. Len(bytes) * Wide
    BY <1>1, SpotRange
  <2> QED
    BY <2>1
<1>6. \A i \in Nat \ {0}, c \in 1 .. Wide : Spot(i, c) = 0 + 1 => DeviceAt(u, i, c)
  <2> SUFFICES ASSUME NEW i \in Nat \ {0}, NEW c \in 1 .. Wide, Spot(i, c) = 0 + 1
               PROVE  DeviceAt(u, i, c)
    OBVIOUS
  <2>1. Spot(1, 1) = 1 /\ 1 \in 1 .. Wide
    BY <1>1 DEF Spot
  <2>2. i = 1 /\ c = 1
    BY <2>1, SpotUnique
  <2> QED
    BY <1>1, <1>3, <2>2 DEF DeviceAt
<1> QED
  BY <1>3, <1>4, <1>5, <1>6 DEF Sofar, u, r

\* A deselection leaves what was heard, and the clock idle.
LEMMA Deselected ==
  ASSUME NEW b \in Buses, NEW t \in Ready(b.mode)
  PROVE  LET u == spi_bitbang_deselect(t, b)
         IN /\ Resting(u, b) /\ u.kind = t.kind /\ u.cs = 1
            /\ u.sampled = t.sampled /\ u.read = t.read
<1> DEFINE idle == spi_get_cpol(b.mode)
           v == [t EXCEPT !.sclk = idle]
           u == [v EXCEPT !.cs = 1]
<1>1. t \in Targets /\ t.sclk = idle /\ idle \in {0, 1}
  BY ClockLevels DEF Ready, Buses
<1>2. SetSclk(t, idle, b.mode) = v
  BY <1>1 DEF SetSclk
<1>3. spi_bitbang_deselect(t, b) = u
  BY <1>2 DEF spi_bitbang_deselect, SetCs
<1> HIDE DEF idle
<1>4. v \in Targets /\ v.kind = t.kind /\ v.sclk = idle /\ v.sampled = t.sampled
      /\ v.read = t.read
  BY <1>1 DEF Targets
<1> HIDE DEF v
<1>5. u \in Targets /\ u.kind = v.kind /\ u.sclk = v.sclk /\ u.cs = 1
      /\ u.sampled = v.sampled /\ u.read = v.read
  BY <1>4 DEF Targets
<1> QED
  BY <1>3, <1>4, <1>5 DEF Resting, idle

\* What a transfer brings and leaves.
Brought(t, u, b, n, bytes) ==
  /\ Resting(u, b) /\ u.kind = t.kind /\ u.cs = 1 /\ Len(u.sampled) = Wide * n
  /\ BytesOf(u.sampled, b.order) = bytes
  /\ BytesOf(u.read, b.order) = [i \in 1 .. n |-> Travelling(Replies(t.kind, n)[i], b.order)]

\* A transfer brings the bytes of either side to the other.
LEMMA Transferred ==
  ASSUME NEW t, NEW b \in Buses, NEW n \in Nat, NEW bytes \in [1 .. n -> WireBytes], Resting(t, b)
  PROVE  Brought(t, spi_bitbang_deselect(TransferBytes(
                      spi_bitbang_select([t EXCEPT !.read = <<>>]), bytes, b), b), b, n, bytes)
<1> DEFINE selected == spi_bitbang_select([t EXCEPT !.read = <<>>])
           v == TransferBytes(selected, bytes, b)
           u == spi_bitbang_deselect(v, b)
           sent == [i \in 1 .. n |-> Travelling(bytes[i], b.order)]
<1>1. bytes \in Seq(WireBytes) /\ Len(bytes) = n /\ Wide \in Nat \ {0}
  BY SpiAssumption
<1>2. t.kind \in {"simulated", "ordinary"}
  BY DEF Resting, Targets
<1>3. Sofar(selected, t.kind, b, bytes, 0)
  BY <1>1, Selected
<1> HIDE DEF selected
<1>4. Sofar(v, t.kind, b, bytes, n * Wide)
  <2>1. Sofar(v, t.kind, b, bytes, Len(bytes) * Wide)
    BY <1>1, <1>2, <1>3, SofarBytes
  <2> QED
    BY <1>1, <2>1
<1> HIDE DEF v
<1>5. /\ v \in Ready(b.mode) /\ v.kind = t.kind
      /\ v.sampled \in Seq({0, 1}) /\ v.read \in Seq({0, 1})
      /\ Len(v.sampled) = n * Wide /\ Len(v.read) = n * Wide
  BY <1>4 DEF Sofar, Ready, Targets
<1>6. \A i \in 1 .. n, c \in 1 .. Wide :
        /\ v.sampled[Spot(i, c)] = Travelling(bytes[i], b.order)[c]
        /\ v.read[Spot(i, c)] = AnswerBit(t.kind, i, c)
  <2> TAKE i \in 1 .. n, c \in 1 .. Wide
  <2>1. n * Wide \in Nat /\ Spot(i, c) \in 1 .. n * Wide
    BY <1>1, SpotRange
  <2>2. Spot(i, c) <= n * Wide /\ i \in 1 .. Len(bytes)
    BY <1>1, <2>1
  <2> QED
    BY <1>4, <2>2 DEF Sofar
<1>7. /\ Resting(u, b) /\ u.kind = v.kind /\ u.cs = 1
      /\ u.sampled = v.sampled /\ u.read = v.read
  BY <1>5, Deselected
<1> HIDE DEF u
<1>8. BytesOf(v.sampled, b.order) = bytes
  <2>1. \A i \in 1 .. n : bytes[i] \in WireBytes
    OBVIOUS
  <2>2. sent \in [1 .. n -> WireBytes]
    BY <2>1, TravellingFacts
  <2>3. \A i \in 1 .. n, c \in 1 .. Wide : v.sampled[Spot(i, c)] = sent[i][c]
    BY <1>6
  <2>4. \A i \in 1 .. n : Travelling(sent[i], b.order) = bytes[i]
    BY <2>1, TravellingFacts
  <2> HIDE DEF sent
  <2>5. BytesOf(v.sampled, b.order) = [i \in 1 .. n |-> Travelling(sent[i], b.order)]
    <3>1. OnWire(v.sampled, n, sent)
      BY <1>5, <2>2, <2>3 DEF OnWire
    <3>2. BytesOf(v.sampled, b.order) = Together(n, sent, b.order)
      BY <1>5, <3>1, BytesPutTogether
    <3> QED
      BY <3>2 DEF Together
  <2>6. bytes = [i \in 1 .. n |-> bytes[i]]
    OBVIOUS
  <2> QED
    BY <2>4, <2>5, <2>6
<1>9. BytesOf(v.read, b.order) = [i \in 1 .. n |-> Travelling(Replies(t.kind, n)[i], b.order)]
  <2> DEFINE replies == Replies(t.kind, n)
  <2>1. \A i \in 1 .. n : replies[i] \in WireBytes
    BY <1>2, RepliesAreBytes
  <2>2. replies \in [1 .. n -> WireBytes]
    BY <2>1 DEF Replies
  <2>3. \A i \in 1 .. n, c \in 1 .. Wide : v.read[Spot(i, c)] = replies[i][c]
    BY <1>6 DEF Replies
  <2> HIDE DEF replies
  <2>4. BytesOf(v.read, b.order) = [i \in 1 .. n |-> Travelling(replies[i], b.order)]
    <3>1. OnWire(v.read, n, replies)
      BY <1>5, <2>2, <2>3 DEF OnWire
    <3>2. BytesOf(v.read, b.order) = Together(n, replies, b.order)
      BY <1>5, <3>1, BytesPutTogether
    <3> QED
      BY <3>2 DEF Together
  <2> QED
    BY <2>4 DEF replies
<1>10. n * Wide = Wide * n
  BY <1>1
<1> QED
  BY <1>5, <1>7, <1>8, <1>9, <1>10 DEF Brought, u, v, selected

-----------------------------------------------------------------------------
(* Lab 15: every transfer. *)

SpiInv ==
  /\ calls \in Int /\ calls >= -1 /\ bus \in Buses
  /\ calls >= 0 => Resting(target, bus)
  /\ FullDuplex

\* spi_bitbang_init leaves an idle clock and a target that has heard nothing.
LEMMA SpiInitStep ==
  ASSUME SpiInv, SpiInitCall
  PROVE  SpiInv'
<1>1. calls' = 0
  BY DEF SpiInitCall
<1>2. PICK mode \in 0 .. 3, order \in {"msb", "lsb"}, kind \in {"simulated", "ordinary"} :
        /\ bus' = [mode |-> mode, order |-> order]
        /\ target' = spi_bitbang_select(
                       SetMosi(SetSclk(Target(kind), spi_get_cpol(mode), mode), 0))
  BY DEF SpiInitCall
<1>3. bus' \in Buses /\ bus'.mode = mode
  BY <1>2 DEF Buses
<1> DEFINE idle == spi_get_cpol(mode)
           a == Target(kind)
           b == SetSclk(a, idle, mode)
           c == SetMosi(b, 0)
           d == spi_bitbang_select(c)
<1>4. Wide \in Nat \ {0} /\ idle \in {0, 1}
  BY SpiAssumption, ClockLevels
<1>5. a \in Targets /\ a.cs = 1
  <2>1. 0 \in 0 .. Wide - 1 /\ <<>> \in Seq({0, 1})
    BY <1>4
  <2> QED
    BY <2>1 DEF Target, Targets
<1> HIDE DEF a, idle
<1>6. b \in Targets /\ b.cs = 1 /\ b.sclk = idle
  <2>1. b = [a EXCEPT !.sclk = idle]
    BY <1>5 DEF SetSclk
  <2> HIDE DEF b
  <2> QED
    BY <1>4, <1>5, <2>1 DEF Targets
<1> HIDE DEF b
<1>7. c \in Targets /\ c.cs = 1 /\ c.sclk = idle
  BY <1>6, MosiSet DEF SameInside
<1> HIDE DEF c
<1>8. d \in Targets /\ d.sclk = idle /\ d.sampled = <<>> /\ d.shifted = 0
  <2>1. d = [c EXCEPT !.cs = 0, !.command = FALSE, !.byte = 0, !.bit = 0,
                      !.sampled = <<>>, !.shifted = 0]
    BY <1>7 DEF spi_bitbang_select, SetCs
  <2>2. 0 \in 0 .. Wide - 1 /\ <<>> \in Seq({0, 1})
    BY <1>4
  <2> HIDE DEF d
  <2> QED
    BY <1>7, <2>1, <2>2 DEF Targets
<1>9. target' = d
  BY <1>2 DEF a, b, c, idle
<1> HIDE DEF d
<1>10. Resting(target', bus')
  BY <1>3, <1>8, <1>9 DEF Resting, idle
<1> QED
  BY <1>1, <1>3, <1>10 DEF SpiInv, FullDuplex, Resting

\* A transfer is full duplex.
LEMMA SpiTransferStep ==
  ASSUME SpiInv, SpiTransfer
  PROVE  SpiInv'
<1>1. calls >= 0 /\ calls' = calls + 1 /\ calls \in Int /\ bus \in Buses /\ Resting(target, bus)
      /\ bus' = bus /\ SpiMaxLen \in Nat
  BY SpiAssumption DEF SpiTransfer, SpiInv
<1>2. PICK n \in 0 .. SpiMaxLen :
        \E bytes \in [1 .. n -> SpiBytes] \cup {[i \in 1 .. n |-> AllOnes]} :
          LET selected == spi_bitbang_select([target EXCEPT !.read = <<>>])
              t == spi_bitbang_deselect(TransferBytes(selected, bytes, bus), bus)
          IN /\ target' = t
             /\ last' = [tx |-> bytes, rx |-> BytesOf(t.read, bus.order),
                         heard |-> BytesOf(t.sampled, bus.order)]
  BY DEF SpiTransfer
<1>3. PICK bytes \in [1 .. n -> SpiBytes] \cup {[i \in 1 .. n |-> AllOnes]} :
        /\ target' = spi_bitbang_deselect(TransferBytes(
                       spi_bitbang_select([target EXCEPT !.read = <<>>]), bytes, bus), bus)
        /\ last' = [tx |-> bytes, rx |-> BytesOf(target'.read, bus.order),
                    heard |-> BytesOf(target'.sampled, bus.order)]
  BY <1>2
<1>4. n \in Nat /\ bytes \in [1 .. n -> WireBytes]
  <2>1. AllOnes \in WireBytes /\ SpiBytes \subseteq WireBytes
    BY SpiAssumption DEF AllOnes, WireBytes
  <2>2. n \in Nat
    BY <1>1
  <2> QED
    BY <2>1, <2>2
<1>0. Brought(target, target', bus, n, bytes)
  BY <1>1, <1>3, <1>4, Transferred
<1>5. /\ Resting(target', bus) /\ target'.kind = target.kind /\ target'.cs = 1
      /\ Len(target'.sampled) = Wide * n
      /\ BytesOf(target'.sampled, bus.order) = bytes
      /\ BytesOf(target'.read, bus.order) =
           [i \in 1 .. n |-> Travelling(Replies(target.kind, n)[i], bus.order)]
  BY <1>0 DEF Brought
<1>6. /\ last'.tx = bytes /\ last'.heard = bytes /\ DOMAIN bytes = 1 .. n /\ Len(bytes) = n
      /\ last'.rx = [i \in 1 .. n |-> Travelling(Replies(target.kind, n)[i], bus.order)]
  BY <1>3, <1>4, <1>5
<1>7. \A i \in 1 .. n : Travelling(Replies(target.kind, n)[i], bus.order) = Expected(i)'
  <2> TAKE i \in 1 .. n
  <2>1. target.kind \in {"simulated", "ordinary"}
    BY <1>1 DEF Resting, Targets
  <2>2. Replies(target.kind, n)[i] =
          IF target.kind = "ordinary" THEN Response[((i - 1) % Len(Response)) + 1]
          ELSE IF i \in 2 .. Len(Response) + 1 THEN Response[i - 1] ELSE AllOnes
    BY <1>4, <2>1, RepliesAreBytes
  <2> QED
    BY <1>1, <1>5, <2>2, OnesTravelling DEF Expected
<1>8. FullDuplex'
  <2>1. last'.rx = [i \in DOMAIN last'.tx |-> Expected(i)']
    BY <1>6, <1>7
  <2>2. target'.sclk = IF bus'.mode \in {2, 3} THEN 1 ELSE 0
    BY <1>1, <1>5 DEF Resting, spi_get_cpol
  <2> QED
    BY <1>5, <1>6, <2>1, <2>2 DEF FullDuplex
<1> QED
  BY <1>1, <1>5, <1>8 DEF SpiInv

\* The invariant holds in every state of lab 15.
LEMMA SpiInvariance == SpiSpec => []SpiInv
<1>1. SpiInit => SpiInv
  BY DEF SpiInit, SpiInv, Buses, FullDuplex
<1>2. SpiInv /\ UNCHANGED spiVars => SpiInv'
  BY DEF SpiInv, spiVars, FullDuplex, Expected
<1>3. SpiInv /\ [SpiNext]_spiVars => SpiInv'
  BY <1>2, SpiInitStep, SpiTransferStep DEF SpiNext
<1> QED
  BY <1>1, <1>3, PTL DEF SpiSpec

\* In every mode and bit order an ordinary target hears exactly the bytes that were sent and
\* the master exactly the target's, and the simulated device answers from the second byte of
\* every transfer on, whatever the width of a byte and the length of its response
\* (spi_bitbang.c:74-141, simulated_spi_device.c:22-85).
THEOREM TransfersFullDuplex == SpiSpec => []FullDuplex
<1>1. SpiInv => FullDuplex
  BY DEF SpiInv
<1> QED
  BY <1>1, SpiInvariance, PTL
=============================================================================
