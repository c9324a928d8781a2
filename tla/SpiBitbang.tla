----------------------------- MODULE SpiBitbang -----------------------------
(***************************************************************************)
(* Lab 15: the bit-banged SPI master (spi_bitbang.c) and the simulated     *)
(* device (simulated_spi_device.c).  Nothing runs besides the master, so   *)
(* one step is one call of the driver; what a call does to the pins it     *)
(* does, operation by operation, to the target behind them.                *)
(*                                                                         *)
(* The target is the lab's simulated device, which answers each reading of *)
(* MISO, or an ordinary SPI target of the mode, driven by clock edges.  A  *)
(* byte is its sequence of Wide bits, most significant first.              *)
(***************************************************************************)
EXTENDS Integers, Sequences, SequencesExt

CONSTANTS
  Wide,       \* bits of a byte
  Response,   \* bytes the simulated device answers with, after one of ones
  SpiBytes,   \* bytes a transfer may send
  SpiMaxLen,  \* bound: bytes of a transfer
  SpiMaxCalls \* bound: transfers

ASSUME SpiAssumption ==
  /\ Wide \in Nat \ {0} /\ SpiMaxLen \in Nat /\ SpiMaxCalls \in Nat
  /\ SpiBytes \subseteq [1 .. Wide -> {0, 1}]
  /\ Response \in Seq([1 .. Wide -> {0, 1}]) /\ Len(Response) > 0

VARIABLES
  bus,      \* spi_bitbang_bus: [mode, order]; chip select is active low
  target,   \* the target and its pins
  calls,    \* transfers made; -1 before spi_bitbang_init
  last      \* the last transfer: [tx, rx, heard], heard by the ordinary target

spiVars == <<bus, target, calls, last>>

AllOnes == [i \in 1 .. Wide |-> 1]

spi_get_cpol(mode) == IF mode \in {2, 3} THEN 1 ELSE 0

\* With a bug: modes 2 and 3 are taken for the ones with CPHA.
spi_get_cpha_high(mode) == IF mode \in {2, 3} THEN 1 ELSE 0

spi_get_cpha(mode) == IF mode \in {1, 3} THEN 1 ELSE 0

-----------------------------------------------------------------------------
(* The pins of the target. *)

\* simulated_spi_device_init; sampled and shifted are those of the ordinary target.
Target(kind) ==
  [kind |-> kind, sclk |-> 0, mosi |-> 0, cs |-> 1, command |-> FALSE, byte |-> 0,
   bit |-> 0, read |-> <<>>, sampled |-> <<>>, shifted |-> 0]

\* simulated_set_cs: a selection starts a new command.
SetCs(t, level) ==
  IF level = 1 THEN [t EXCEPT !.cs = 1]
  ELSE [t EXCEPT !.cs = 0, !.command = FALSE, !.byte = 0, !.bit = 0,
                 !.sampled = IF t.cs = 1 THEN <<>> ELSE @,
                 !.shifted = IF t.cs = 1 THEN 0 ELSE @]

\* simulated_set_mosi.
SetMosi(t, level) == [t EXCEPT !.mosi = level]

\* The ordinary target, when selected, takes MOSI on the edge its mode samples on
\* and moves MISO on the other one.
SetSclk(t, level, mode) ==
  LET cpol  == IF mode \in {2, 3} THEN 1 ELSE 0
      takes == level = IF mode \in {1, 3} THEN cpol ELSE 1 - cpol
  IN IF t.cs = 1 \/ level = t.sclk THEN [t EXCEPT !.sclk = level]
     ELSE IF takes THEN [t EXCEPT !.sclk = level, !.sampled = Append(@, t.mosi)]
     ELSE [t EXCEPT !.sclk = level, !.shifted = @ + 1]

\* What the ordinary target has on MISO: the bits of Response, over and over.  With
\* CPHA the first one comes with the first edge.
Miso(t, mode) ==
  LET n == IF mode \in {1, 3} THEN t.shifted - 1 ELSE t.shifted
  IN Response[((n \div Wide) % Len(Response)) + 1][(n % Wide) + 1]

\* simulated_get_miso: a byte of ones, the response, then ones again.
Answer(t) ==
  IF t.cs = 1 \/ ~t.command \/ t.byte >= Len(Response) THEN 1
  ELSE Response[t.byte + 1][t.bit + 1]

Answered(t) ==
  LET full == t.bit + 1 = Wide IN
  IF t.cs = 1 \/ (t.command /\ t.byte >= Len(Response)) THEN t
  ELSE [t EXCEPT !.bit = IF full THEN 0 ELSE @ + 1,
                 !.command = @ \/ full,
                 !.byte = IF full /\ t.command THEN @ + 1 ELSE @]

GetMiso(t, mode) ==
  IF t.kind = "simulated" THEN [Answered(t) EXCEPT !.read = Append(@, Answer(t))]
  ELSE [t EXCEPT !.read = Append(@, Miso(t, mode))]

-----------------------------------------------------------------------------
(* spi_bitbang.c *)

\* spi_get_tx_bit and spi_store_rx_bit: the bits of a byte in the order they travel.
Travelling(byte, order) == IF order = "msb" THEN byte ELSE Reverse(byte)

\* One turn of the loop of spi_bitbang_transfer_byte.
TransferBit(t, bit, mode) ==
  LET idle   == spi_get_cpol(mode)
      active == 1 - idle
  IN IF spi_get_cpha(mode) = 0
     THEN SetSclk(GetMiso(SetSclk(SetMosi(t, bit), active, mode), mode), idle, mode)
     ELSE GetMiso(SetSclk(SetMosi(SetSclk(t, active, mode), bit), idle, mode), mode)

spi_bitbang_transfer_byte(t, byte, b) ==
  LET at[i \in 0 .. Wide] ==
        IF i = 0 THEN t ELSE TransferBit(at[i - 1], Travelling(byte, b.order)[i], b.mode)
  IN at[Wide]

spi_bitbang_select(t) == SetCs(t, 0)

spi_bitbang_deselect(t, b) == SetCs(SetSclk(t, spi_get_cpol(b.mode), b.mode), 1)

\* spi_bitbang_init leaves the target selected.
SpiInitCall ==
  /\ calls = -1 /\ calls' = 0
  /\ \E mode \in 0 .. 3, order \in {"msb", "lsb"}, kind \in {"simulated", "ordinary"} :
       /\ bus' = [mode |-> mode, order |-> order]
       /\ target' = spi_bitbang_select(
                      SetMosi(SetSclk(Target(kind), spi_get_cpol(mode), mode), 0))
  /\ UNCHANGED last

\* The loop of spi_bitbang_transfer over the bytes.
TransferBytes(t, tx, b) ==
  LET at[i \in 0 .. Len(tx)] ==
        IF i = 0 THEN t ELSE spi_bitbang_transfer_byte(at[i - 1], tx[i], b)
  IN at[Len(tx)]

\* The bytes of a run of received bits.
BytesOf(bits, order) ==
  [k \in 1 .. Len(bits) \div Wide |->
     Travelling(SubSeq(bits, (k - 1) * Wide + 1, k * Wide), order)]

\* spi_bitbang_transfer; a null tx buffer sends ones.
SpiTransfer ==
  /\ calls \in 0 .. SpiMaxCalls - 1 /\ calls' = calls + 1
  /\ \E n \in 0 .. SpiMaxLen : \E tx \in [1 .. n -> SpiBytes] \cup {[i \in 1 .. n |-> AllOnes]} :
       LET selected == spi_bitbang_select([target EXCEPT !.read = <<>>])
           t == spi_bitbang_deselect(TransferBytes(selected, tx, bus), bus)
       IN /\ target' = t
          /\ last' = [tx |-> tx, rx |-> BytesOf(t.read, bus.order),
                      heard |-> BytesOf(t.sampled, bus.order)]
  /\ UNCHANGED bus

SpiInit ==
  /\ bus = [mode |-> 0, order |-> "msb"] /\ target = Target("simulated") /\ calls = -1
  /\ last = [tx |-> <<>>, rx |-> <<>>, heard |-> <<>>]

SpiNext == SpiInitCall \/ SpiTransfer

\* The lab by itself.
SpiSpec == SpiInit /\ [][SpiNext]_spiVars

-----------------------------------------------------------------------------
\* The byte the target answers the i-th byte of a transfer with.
Expected(i) ==
  LET n == Len(Response) IN
  IF target.kind = "ordinary" THEN Travelling(Response[((i - 1) % n) + 1], bus.order)
  ELSE IF i \in 2 .. n + 1 THEN Travelling(Response[i - 1], bus.order) ELSE AllOnes

\* Whatever mode and bit order, an ordinary target of the mode hears exactly the bytes
\* sent, no bit more at the selections and the idle levels around them, and the master
\* hears the target's; the simulated device's answer starts with the second byte of
\* every transfer (spi_bitbang.c:74-141, simulated_spi_device.c:22-85).
FullDuplex ==
  calls > 0 =>
    /\ last.rx = [i \in DOMAIN last.tx |-> Expected(i)]
    /\ target.kind = "ordinary" =>
         /\ last.heard = last.tx
         /\ Len(target.sampled) = Wide * Len(last.tx)
    /\ target.cs = 1 /\ target.sclk = (IF bus.mode \in {2, 3} THEN 1 ELSE 0)
=============================================================================
