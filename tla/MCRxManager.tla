----------------------------- MODULE MCRxManager -----------------------------
(* RxManager on two driver buffers of two bytes and a ring of three. *)
EXTENDS RxManager

MCBuffers == 0..(RX_DRIVER_COUNT - 1)
MCBufLen == [b \in MCBuffers |-> RX_DRIVER_SIZE]
=============================================================================
