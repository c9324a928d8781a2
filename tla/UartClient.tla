------------------------------ MODULE UartClient ------------------------------
(***************************************************************************)
(* The asynchronous UART driver of lab 20 (UartAsync) under the most       *)
(* general client of the Zephyr API: threads and callbacks call it in any  *)
(* order with any buffer, answer a buffer request at once, late or never,  *)
(* and overwrite the buffers that are theirs.  A refused call changes      *)
(* nothing, so only accepted calls are actions.                            *)
(***************************************************************************)
EXTENDS UartAsync

VARIABLES
  lent,       \* buffers given to the driver and not yet released by it
  delivered   \* bytes the client has read in RX_RDY callbacks, in order

clientVars == <<lent, delivered>>
allVars == <<vars, clientVars>>

-----------------------------------------------------------------------------
(* Calls, from a thread or from inside a callback. *)

Set(cb) ==
  /\ CanCall
  /\ CallbackSet(cb)
  /\ UNCHANGED <<evt, clientVars>>

Enable(b) ==
  /\ CanCall
  /\ RxEnable(b)
  /\ lent' = lent \cup {b}
  /\ UNCHANGED <<evt, delivered>>

Respond(b) ==
  /\ CanCall
  /\ RxBufRsp(b)
  /\ lent' = lent \cup {b}
  /\ UNCHANGED <<evt, delivered>>

Disable ==
  /\ CanCall
  /\ RxDisable
  /\ UNCHANGED <<evt, clientVars>>

\* A released buffer belongs to the client from the start of its callback.
Released == IF evt.type = "RX_BUF_RELEASED" THEN {evt.buf} ELSE {}

\* The client reuses a buffer of its own for something else.
Overwrite(b) ==
  /\ CanCall
  /\ b \notin lent \ Released
  /\ mem' = [mem EXCEPT ![b] = [i \in 1..BufLen[b] |-> 0]]
  /\ UNCHANGED <<uartVars, drvVars, isr, evt, held_next, accepted, clientVars>>

\* The callback has copied the bytes, or noted the release, and returns.
CallbackReturn ==
  /\ in_callback
  /\ evt' = NoEvent
  /\ delivered' = IF evt.type = "RX_RDY" THEN delivered \o Span ELSE delivered
  /\ lent' = lent \ Released
  /\ UNCHANGED <<uartVars, drvVars, isr, held_next, mem, accepted>>

Call ==
  \/ \E cb \in BOOLEAN : Set(cb)
  \/ \E b \in Buffers : Enable(b) \/ Respond(b) \/ Overwrite(b)
  \/ Disable

-----------------------------------------------------------------------------

Init ==
  /\ UartInit
  /\ lent = {}
  /\ delivered = <<>>

Next ==
  \/ Call
  \/ CallbackReturn
  \/ (ByteArrives \/ IsrEnter \/ IsrStep) /\ UNCHANGED clientVars

Spec == Init /\ [][Next]_allVars

(***************************************************************************)
(* An enabled interrupt that is pending is taken, the handler runs on, and *)
(* callbacks return: Kconfig says they must not block.  Nothing is assumed *)
(* of the line or of the client's calls.                                   *)
(***************************************************************************)
Fairness ==
  /\ WF_allVars(IsrEnter /\ UNCHANGED clientVars)
  /\ WF_allVars(IsrStep /\ UNCHANGED clientVars)
  /\ WF_allVars(CallbackReturn)

FairSpec == Spec /\ Fairness

-----------------------------------------------------------------------------
\* The promise of the API, which the driver implements under this mapping.
Stream == INSTANCE RxStream WITH
  phase <- state, lent <- lent, got <- accepted, told <- delivered

(* Properties. *)

\* The driver implements the receive contract of Zephyr's asynchronous API.
ImplementsStream == Stream!StreamSpec

TypeOK ==
  /\ UartTypeOK
  /\ lent \subseteq Buffers
  /\ delivered \in Seq(Nat)

\* Every lent buffer is one the driver still knows: none leaks when reception
\* is stopped, overruns or runs out of buffers, none is kept after release.
Ownership == lent = Held

\* The driver never takes a buffer it has not released, whatever the client
\* tries and whenever it tries it (buffers_overlap and the state checks).
RefusesLent ==
  CanCall => \A b \in lent : RxBufRspRet(b) # "OK" /\ RxEnableRet # "OK"

\* The byte is stored inside a buffer that is lent.
WriteInBounds ==
  isr = "data" =>
    current_buf \in lent /\ current_pos \in 0..(BufLen[current_buf] - 1)

\* No byte is lost, repeated or reported out of order between the DATA
\* register and the RX_RDY callbacks, across buffer switches and restarts.
Delivery == accepted = delivered \o Unreported

\* The handler never calls through a callback pointer the client has cleared.
CallbackPresent == isr # "off" => callback

\* uart_rx_disable completes with RX_DISABLED.
StopCompletes == state = "STOPPING" ~> state = "IDLE"

\* A received byte is fetched unless reception ends.
ByteFetched == (state = "ACTIVE" /\ rxbf) ~> (~rxbf \/ state # "ACTIVE")
=============================================================================
