---------------------------- MODULE MCUartClient ----------------------------
(* UartClient on three buffers, of one, one and two bytes. *)
EXTENDS UartClient, TLC

CONSTANTS b1, b2, b3
MCBuffers == {b1, b2, b3}
MCBufLen == (b1 :> 1) @@ (b2 :> 1) @@ (b3 :> 2)
=============================================================================
