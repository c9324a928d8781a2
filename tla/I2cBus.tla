------------------------------- MODULE I2cBus -------------------------------
(***************************************************************************)
(* The two wires of an I2C bus and the EEPROM on it, as the bit-banging    *)
(* drivers of labs 13 and 14 see them through the CONTROL register.  The   *)
(* wires are open drain: a line is high when nobody pulls it low.  The     *)
(* device answers to edges, may stretch the clock after any falling edge   *)
(* of SCL, and is busy for a while after a STOP that ends a write.         *)
(*                                                                         *)
(* A byte has Width bits here (8 in the code); the address byte is the     *)
(* device address and the read bit.                                        *)
(***************************************************************************)
EXTENDS Integers, Sequences

CONSTANTS
  Width,         \* bits of a byte
  TargetAddr,    \* address of the EEPROM
  AddressWidth,  \* bytes of a memory address
  Cells,         \* size of the memory
  PageSize       \* bytes it writes at once, page_size of the descriptor

ASSUME BusAssumption ==
  /\ Width \in Nat \ {0, 1} /\ TargetAddr \in 0 .. 2 ^ (Width - 1) - 2
  /\ AddressWidth \in {1, 2} /\ Cells \in Nat \ {0}
  /\ PageSize \in Nat \ {0} /\ Cells % PageSize = 0

\* What the provers are told of powers of two.
ASSUME PowerAssumption ==
  /\ 2 ^ 0 = 1
  /\ \A i \in 0 .. Width : 2 ^ i \in Nat /\ 2 ^ (i + 1) = 2 * 2 ^ i

VARIABLES
  bus,           \* what master and device do to the lines: 0 is pulling low
  dev,           \* the EEPROM's protocol state
  mem,           \* its memory
  stretches      \* how often the device may still stretch the clock

busVars == <<bus, dev, mem, stretches>>

Byte == 0 .. 2 ^ Width - 1
\* Bit i of a byte, the most significant first.
Bit(v, i) == (v \div 2 ^ (Width - i)) % 2

SDA(b) == b.msda = 1 /\ b.dsda = 1
SCL(b) == b.mscl = 1 /\ ~b.hold

BusInit ==
  /\ bus = [msda |-> 1, mscl |-> 1, dsda |-> 1, hold |-> FALSE]
  /\ dev = [st |-> "idle", n |-> 0, sh |-> 0, words |-> 0, ptr |-> 0,
            page |-> <<>>, busy |-> FALSE]
  /\ mem = [a \in 0 .. Cells - 1 |-> 0]
  /\ stretches = 0

-----------------------------------------------------------------------------
(* The EEPROM.  n counts the clocks of the byte: Width bits, then the ACK. *)

Receiving == dev.st \in {"addr", "word", "data"}
Matches == dev.sh \div 2 = TargetAddr

\* START: the device listens for its address, unless it is busy writing.
StartSeen(b) ==
  /\ bus' = [b EXCEPT !.dsda = 1]
  /\ dev' = [dev EXCEPT !.st = IF dev.busy THEN "idle" ELSE "addr", !.n = 0, !.sh = 0,
                        !.page = IF dev.busy THEN @ ELSE <<>>]
  /\ UNCHANGED <<mem, stretches>>

\* STOP: received data bytes start the internal write cycle.
StopSeen(b) ==
  /\ bus' = [b EXCEPT !.dsda = 1]
  /\ dev' = [dev EXCEPT !.st = "idle", !.n = 0, !.busy = @ \/ dev.page # <<>>]
  /\ UNCHANGED <<mem, stretches>>

\* The byte just acknowledged: an address, part of a memory address, data.
Taken ==
  LET next == [dev EXCEPT !.n = Width + 1, !.sh = 0]
      ptr  == (dev.ptr * 2 ^ Width + dev.sh) % Cells
  IN CASE dev.st = "addr" /\ Matches ->
            IF dev.sh % 2 = 1 THEN [next EXCEPT !.st = "read"]
            ELSE [next EXCEPT !.st = "word", !.words = 0, !.ptr = 0]
       [] dev.st = "word" ->
            [next EXCEPT !.ptr = ptr, !.words = @ + 1,
                         !.st = IF dev.words + 1 = AddressWidth THEN "data" ELSE "word"]
       [] dev.st = "data" -> [next EXCEPT !.page = Append(@, dev.sh)]
       [] OTHER -> [dev EXCEPT !.st = "idle"]

\* SCL rises: a bit is clocked in or out.
Clocked(b) ==
  /\ bus' = b
  /\ dev' = CASE Receiving /\ dev.n < Width ->
                   [dev EXCEPT !.n = @ + 1, !.sh = 2 * @ + (IF SDA(b) THEN 1 ELSE 0)]
              [] Receiving /\ dev.n = Width -> Taken
              [] dev.st = "read" /\ dev.n < Width -> [dev EXCEPT !.n = @ + 1]
              [] dev.st = "read" /\ dev.n = Width ->
                   IF SDA(b) THEN [dev EXCEPT !.st = "idle"]
                   ELSE [dev EXCEPT !.n = Width + 1, !.ptr = (@ + 1) % Cells]
              [] OTHER -> dev
  /\ UNCHANGED <<mem, stretches>>

\* SCL falls: the device puts out its next bit or its ACK, and may hold SCL.
Shifted(b) ==
  LET n == IF dev.n = Width + 1 THEN 0 ELSE dev.n
      out == CASE Receiving /\ n = Width -> IF dev.st = "addr" /\ ~Matches THEN 1 ELSE 0
               [] dev.st = "read" /\ n < Width -> Bit(mem[dev.ptr], n + 1)
               [] OTHER -> 1
  IN /\ dev' = [dev EXCEPT !.n = n]
     /\ \E h \in BOOLEAN :
          /\ h => stretches > 0 /\ dev.st # "idle"
          /\ bus' = [b EXCEPT !.dsda = out, !.hold = h]
          /\ stretches' = IF h THEN stretches - 1 ELSE stretches
     /\ UNCHANGED mem

\* The lines become those of b, and the device reacts to the edge.
Drive(b) ==
  \/ SCL(bus) /\ SCL(b) /\ SDA(bus) /\ ~SDA(b) /\ StartSeen(b)
  \/ SCL(bus) /\ SCL(b) /\ ~SDA(bus) /\ SDA(b) /\ StopSeen(b)
  \/ ~SCL(bus) /\ SCL(b) /\ Clocked(b)
  \/ SCL(bus) /\ ~SCL(b) /\ Shifted(b)
  \/ SCL(bus) = SCL(b) /\ (SCL(b) => SDA(bus) = SDA(b)) /\ bus' = b
     /\ UNCHANGED <<dev, mem, stretches>>

\* The device lets the clock go.
Unstretch == bus.hold /\ Drive([bus EXCEPT !.hold = FALSE])

\* The internal write cycle ends: the page is in the memory.  Addresses roll
\* over at the end of the page.
WriteCycleDone ==
  /\ dev.busy
  /\ dev' = [dev EXCEPT !.busy = FALSE, !.page = <<>>]
  /\ mem' = [a \in DOMAIN mem |->
               LET i == ((a - dev.ptr) % PageSize) + 1
               IN IF a \div PageSize = dev.ptr \div PageSize /\ i \in DOMAIN dev.page
                  THEN dev.page[i] ELSE mem[a]]
  /\ UNCHANGED <<bus, stretches>>

BusTypeOK ==
  /\ bus \in [msda : {0, 1}, mscl : {0, 1}, dsda : {0, 1}, hold : BOOLEAN]
  /\ dev \in [st : {"idle", "addr", "word", "data", "read"}, n : 0 .. Width + 1, sh : Byte,
              words : 0 .. AddressWidth, ptr : 0 .. Cells - 1, page : Seq(Byte), busy : BOOLEAN]
  /\ mem \in [0 .. Cells - 1 -> Byte] /\ stretches \in Nat
=============================================================================
