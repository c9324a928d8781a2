-------------------------------- MODULE Ssp --------------------------------
(***************************************************************************)
(* Lab 16: transfers through the PL022 in internal loopback (mps2_ssp.c).  *)
(* The controller shifts at its own pace: a wait of the driver may run out *)
(* while its flag is still clear, and the byte it gave up on arrives later *)
(* all the same.                                                           *)
(***************************************************************************)
EXTENDS Integers, Sequences, SequencesExt

CONSTANTS
  Depth,        \* entries of each FIFO of the controller
  SspBytes,     \* bytes a transfer may send
  SspMaxLen,    \* bound: bytes of a transfer
  SspMaxCalls   \* bound: transfers

ASSUME SspAssumption ==
  Depth \in Nat \ {0} /\ SspMaxLen \in Nat /\ SspMaxCalls \in Nat /\ SspBytes \subseteq Nat

VARIABLES
  sse, imsc,      \* CR1.SSE with LBM; the interrupts IMSC lets through
  txFifo, rxFifo, \* the FIFOs of the PL022
  tx, rx,         \* buffers of the transfer that runs or ran last
  ssp,            \* what the driver does: "off", "idle", "tnf" or "rne"
  sspResult,      \* result of the last transfer
  sspCalls,       \* transfers made
  late, left      \* history: waits for an answer that ran out; what the controller
                  \* held when the last transfer was called

sspVars == <<sse, imsc, txFifo, rxFifo, tx, rx, ssp, sspResult, sspCalls, late, left>>
fifos == <<txFifo, rxFifo>>

SspInit ==
  /\ sse = FALSE /\ imsc = {} /\ txFifo = <<>> /\ rxFifo = <<>>
  /\ tx = <<>> /\ rx = <<>> /\ ssp = "off" /\ sspResult = "none" /\ sspCalls = 0
  /\ late = 0 /\ left = <<>>

-----------------------------------------------------------------------------
(* The PL022: an entry is shifted out and back in; a full FIFO overruns. *)
Shift ==
  /\ sse /\ txFifo # <<>>
  /\ txFifo' = Tail(txFifo)
  /\ rxFifo' = IF Len(rxFifo) < Depth THEN Append(rxFifo, Head(txFifo)) ELSE rxFifo
  /\ UNCHANGED <<sse, imsc, tx, rx, ssp, sspResult, sspCalls, late, left>>

Tnf == Len(txFifo) < Depth
Rne == rxFifo # <<>>

-----------------------------------------------------------------------------
\* board_ssp3_init and mps2_ssp_init: refused without a clock; main goes on anyway.
Configure ==
  /\ ssp = "off" /\ ssp' = "idle"
  /\ \E clock \in BOOLEAN : sse' = clock
  /\ imsc' = {} /\ UNCHANGED <<fifos, tx, rx, sspResult, sspCalls, late, left>>

\* mps2_ssp_enable_interrupts and mps2_ssp_disable_interrupts.
Interrupts ==
  /\ ssp = "idle"
  /\ \E mask \in {{"RX", "RT"}} : imsc' \in {imsc \cup mask, imsc \ mask}
  /\ UNCHANGED <<sse, fifos, tx, rx, ssp, sspResult, sspCalls, late, left>>

\* mps2_ssp_transfer is called.
TransferCall ==
  /\ ssp = "idle" /\ sspCalls < SspMaxCalls /\ sspCalls' = sspCalls + 1
  /\ \E n \in 1 .. SspMaxLen : tx' \in [1 .. n -> SspBytes]
  /\ rx' = <<>> /\ ssp' = "tnf" /\ sspResult' = "running"
  /\ left' = rxFifo \o txFifo
  /\ UNCHANGED <<sse, imsc, fifos, late>>

Returned(result) == ssp' = "idle" /\ sspResult' = result

\* wait_flag for room, then the byte goes in.
SendByte ==
  /\ ssp = "tnf" /\ Tnf
  /\ txFifo' = Append(txFifo, tx[Len(rx) + 1]) /\ ssp' = "rne"
  /\ UNCHANGED <<sse, imsc, rxFifo, tx, rx, sspResult, sspCalls, late, left>>

TxTimeout ==
  /\ ssp = "tnf" /\ ~Tnf /\ Returned("TX_TIMEOUT")
  /\ UNCHANGED <<sse, imsc, fifos, tx, rx, sspCalls, late, left>>

\* With a bug: the byte is read whether or not the flag was seen.
ReceiveByteAnyway ==
  /\ ssp = "rne"
  /\ rx' = Append(rx, IF Rne THEN Head(rxFifo) ELSE 0)
  /\ rxFifo' = IF Rne THEN Tail(rxFifo) ELSE rxFifo
  /\ IF Len(rx') = Len(tx) THEN Returned("OK") ELSE ssp' = "tnf" /\ UNCHANGED sspResult
  /\ UNCHANGED <<sse, imsc, txFifo, tx, sspCalls, late, left>>

\* wait_flag for the answer, then it is read: the oldest entry, whose ever it is.
ReceiveByte ==
  /\ ssp = "rne" /\ Rne
  /\ rx' = Append(rx, Head(rxFifo)) /\ rxFifo' = Tail(rxFifo)
  /\ IF Len(rx') = Len(tx) THEN Returned("OK") ELSE ssp' = "tnf" /\ UNCHANGED sspResult
  /\ UNCHANGED <<sse, imsc, txFifo, tx, sspCalls, late, left>>

\* The wait runs out: the byte stays in the controller.
RxTimeout ==
  /\ ssp = "rne" /\ ~Rne /\ Returned("RX_TIMEOUT")
  /\ late' = late + 1
  /\ UNCHANGED <<sse, imsc, fifos, tx, rx, sspCalls, left>>

SspNext ==
  \/ Shift \/ Configure \/ Interrupts \/ TransferCall \/ SendByte \/ TxTimeout
  \/ ReceiveByte \/ RxTimeout

SspSpec == SspInit /\ [][SspNext]_sspVars

-----------------------------------------------------------------------------
\* A transfer that returns OK read back what it sent, as long as no wait for an
\* answer ran out before.  Each one that did leaves its byte in the controller, and
\* every later transfer reads that many bytes late, while the FIFOs hold them
\* (mps2_ssp.c:69-99, main.c:65-74).
TransferShifted ==
  /\ sspResult = "OK" /\ late = 0 => rx = tx
  /\ sspResult = "OK" /\ Len(left) < Depth => rx \o rxFifo \o txFifo = left \o tx
  /\ ssp = "idle" /\ late < Depth => Len(rxFifo) + Len(txFifo) = late
=============================================================================
