------------------------------ MODULE UartAsync ------------------------------
(***************************************************************************)
(* Lab 20: the interrupt-backed asynchronous receiver of the CMSDK UART    *)
(* (drivers/uart/uart_cmsdk_async.c) on one Cortex-M3 core.                *)
(*                                                                         *)
(* The driver is called by its client (rx_enable, rx_buf_rsp, rx_disable,  *)
(* callback_set) and calls it back from the UART interrupt, one event at a *)
(* time.  A callback is a state here, evt # NoEvent, during which the      *)
(* client may call the driver again; the interrupt handler continues when  *)
(* the callback returns.  Interrupt handler and API calls run with         *)
(* interrupts locked, so they never interleave; the hardware does: a byte  *)
(* may arrive between any two steps of the handler.                        *)
(*                                                                         *)
(* The module has no Next of its own: UartClient closes it with the most   *)
(* general client, RxManager with the one of the lab.                      *)
(***************************************************************************)
EXTENDS Integers, Sequences

CONSTANTS
  Buffers,   \* receive buffers a client can lend; distinct ones do not overlap
  BufLen,    \* BufLen[b] is the length always given with buffer b
  NULL,      \* the null pointer
  MaxBytes   \* bound: number of bytes the line delivers in a behaviour

ASSUME BufferAssumption ==
  /\ NULL \notin Buffers
  /\ BufLen \in [Buffers -> Nat \ {0}]
  /\ MaxBytes \in Nat

VARIABLES
  \* UART registers and the NVIC pending bit of its receive interrupt
  rxen,                 \* CTRL.RXEN and CTRL.RXIRQEN, always written together
  rxbf, rxor, data,     \* STATE.RXBF, STATE.RXOR, DATA
  pending,              \* NVIC pending bit, set by hardware and by software
  sent,                 \* number of bytes that arrived; byte i has value i
  \* struct lab20_uart_data
  callback,             \* a callback is registered
  state,                \* enum lab20_rx_state
  initial_request, request_outstanding,
  current_buf, current_pos, reported, next_buf,
  \* the interrupt handler
  isr,                  \* the step the handler is at, "off" when not running
  evt,                  \* event being delivered to the client
  held_next,            \* finish_rx's local copy of next_buf
  \* memory
  mem,                  \* contents of every buffer
  accepted              \* history: bytes stored into buffers, in order

uartVars == <<rxen, rxbf, rxor, data, pending, sent>>
ownVars  == <<current_buf, next_buf, held_next>>
drvVars  == <<callback, state, initial_request, request_outstanding,
              current_buf, current_pos, reported, next_buf>>
vars == <<uartVars, drvVars, isr, evt, held_next, mem, accepted>>

-----------------------------------------------------------------------------
(* Events and return codes. *)

EventTypes == {"NONE", "RX_BUF_REQUEST", "RX_RDY", "RX_BUF_RELEASED",
               "RX_STOPPED", "RX_DISABLED"}

Event(type, buf, offset, len) ==
  [type |-> type, buf |-> buf, offset |-> offset, len |-> len]

NoEvent == Event("NONE", NULL, 0, 0)

\* data->in_callback
in_callback == evt # NoEvent

\* The bytes a callback finds at buf + offset .. buf + offset + len - 1.
Span == [i \in 1..evt.len |-> mem[evt.buf][evt.offset + i]]

\* A thread runs only while no interrupt handler does; a callback may call in.
CanCall == isr = "off" \/ in_callback

-----------------------------------------------------------------------------
(* Hardware: a byte completes on the line.  With RXBF still set this is an *)
(* overrun and one of the two bytes is lost.                                *)
ByteArrives ==
  /\ rxen
  /\ sent < MaxBytes
  /\ sent' = sent + 1
  /\ IF rxbf
     THEN /\ rxor' = TRUE
          /\ data' \in {data, sent + 1}
          /\ UNCHANGED rxbf
     ELSE /\ rxbf' = TRUE
          /\ data' = sent + 1
          /\ UNCHANGED rxor
  /\ pending' = TRUE
  /\ UNCHANGED <<rxen, drvVars, isr, evt, held_next, mem, accepted>>

-----------------------------------------------------------------------------
(* The API.  Each call has its return code and, when the code is 0, its     *)
(* effect; a refused call changes nothing.                                  *)

CallbackSetRet == IF state # "IDLE" \/ in_callback THEN "EBUSY" ELSE "OK"

CallbackSet(cb) ==
  /\ CallbackSetRet = "OK"
  /\ callback' = cb
  /\ UNCHANGED <<state, initial_request, request_outstanding, current_buf,
                 current_pos, reported, next_buf>>
  /\ UNCHANGED <<uartVars, isr, held_next, mem, accepted>>

RxEnableRet ==
  IF state # "IDLE" THEN "EBUSY" ELSE IF ~callback THEN "EINVAL" ELSE "OK"

\* With a bug: the interrupt is not made pending.
RxEnableSilent(b) ==
  /\ RxEnableRet = "OK"
  /\ current_buf' = b /\ current_pos' = 0 /\ reported' = 0 /\ next_buf' = NULL
  /\ request_outstanding' = FALSE /\ initial_request' = TRUE
  /\ state' = "ACTIVE" /\ rxen' = TRUE
  /\ UNCHANGED <<pending, rxbf, rxor, data, sent, callback>>
  /\ UNCHANGED <<isr, held_next, mem, accepted>>

RxEnable(b) ==
  /\ RxEnableRet = "OK"
  /\ current_buf' = b
  /\ current_pos' = 0
  /\ reported' = 0
  /\ next_buf' = NULL
  /\ request_outstanding' = FALSE
  /\ initial_request' = TRUE
  /\ state' = "ACTIVE"
  /\ rxen' = TRUE
  /\ pending' = TRUE
  /\ UNCHANGED <<rxbf, rxor, data, sent, callback>>
  /\ UNCHANGED <<isr, held_next, mem, accepted>>

\* With a bug: no test for overlap with the current buffer.
RxBufRspRetNoOverlap(b) ==
  IF state # "ACTIVE" THEN "EACCES"
  ELSE IF next_buf # NULL \/ ~request_outstanding THEN "EBUSY" ELSE "OK"

RxBufRspRet(b) ==
  IF state # "ACTIVE" THEN "EACCES"
  ELSE IF next_buf # NULL \/ ~request_outstanding THEN "EBUSY"
  ELSE IF b = current_buf THEN "EINVAL"
  ELSE "OK"

RxBufRsp(b) ==
  /\ RxBufRspRet(b) = "OK"
  /\ next_buf' = b
  /\ request_outstanding' = FALSE
  /\ UNCHANGED <<callback, state, initial_request, current_buf, current_pos,
                 reported>>
  /\ UNCHANGED <<uartVars, isr, held_next, mem, accepted>>

RxDisableRet ==
  IF state = "IDLE" THEN "EFAULT"
  ELSE IF state = "STOPPING" THEN "EALREADY" ELSE "OK"

\* With a bug: the interrupt that finishes the stop is not made pending.
RxDisableSilent ==
  /\ RxDisableRet = "OK"
  /\ state' = "STOPPING"
  /\ rxen' = FALSE
  /\ UNCHANGED <<pending, rxbf, rxor, data, sent>>
  /\ UNCHANGED <<callback, initial_request, request_outstanding, current_buf,
                 current_pos, reported, next_buf>>
  /\ UNCHANGED <<isr, held_next, mem, accepted>>

RxDisable ==
  /\ RxDisableRet = "OK"
  /\ state' = "STOPPING"
  /\ rxen' = FALSE
  /\ pending' = TRUE
  /\ UNCHANGED <<rxbf, rxor, data, sent>>
  /\ UNCHANGED <<callback, initial_request, request_outstanding, current_buf,
                 current_pos, reported, next_buf>>
  /\ UNCHANGED <<isr, held_next, mem, accepted>>

-----------------------------------------------------------------------------
(* The interrupt handler, cut where it touches the hardware and where it    *)
(* calls the client.  A step is taken only when the last callback returned. *)

Continue(step) == isr = step /\ ~in_callback

\* Head of finish_rx: receiver off, and RX_STOPPED first if there is a reason.
BeginFinish(overrun) ==
  /\ rxen' = FALSE
  /\ state' = "STOPPING"
  /\ initial_request' = FALSE
  /\ request_outstanding' = FALSE
  /\ isr' = "flush"
  /\ evt' = IF overrun
            THEN Event("RX_STOPPED", current_buf, reported, current_pos - reported)
            ELSE NoEvent
  /\ UNCHANGED <<callback, current_buf, current_pos, reported, next_buf>>

\* Entry: the NVIC and INTCLEAR drop the request that brought us here.
IsrEnter ==
  /\ isr = "off"
  /\ pending
  /\ pending' = FALSE
  /\ \/ /\ state = "IDLE"
        /\ UNCHANGED <<rxen, drvVars, isr, evt>>
     \/ /\ state = "STOPPING"
        /\ BeginFinish(FALSE)
     \/ /\ state = "ACTIVE"
        /\ ~initial_request
        /\ isr' = "status"
        /\ UNCHANGED <<rxen, drvVars, evt>>
     \/ /\ state = "ACTIVE"
        /\ initial_request
        /\ initial_request' = FALSE
        /\ request_outstanding' = TRUE
        /\ evt' = Event("RX_BUF_REQUEST", NULL, 0, 0)
        /\ isr' = "first_request"
        /\ UNCHANGED <<rxen, callback, state, current_buf, current_pos,
                       reported, next_buf>>
  /\ UNCHANGED <<rxbf, rxor, data, sent, held_next, mem, accepted>>

\* Back from the initial RX_BUF_REQUEST.
AfterFirstRequest ==
  /\ Continue("first_request")
  /\ IF state = "STOPPING"
     THEN BeginFinish(FALSE)
     ELSE isr' = "status" /\ UNCHANGED <<rxen, drvVars, evt>>
  /\ UNCHANGED <<rxbf, rxor, data, pending, sent, held_next, mem, accepted>>

\* status = regs->state, and the decision it leads to.
ReadStatus ==
  /\ Continue("status")
  /\ \/ /\ rxor
        /\ rxor' = FALSE
        /\ BeginFinish(TRUE)
     \/ /\ ~rxor
        /\ isr' = IF rxbf THEN "data" ELSE "off"
        /\ UNCHANGED <<rxor, rxen, drvVars, evt>>
  /\ UNCHANGED <<rxbf, data, pending, sent, held_next, mem, accepted>>

\* With a bug: the bytes of a full buffer stay unreported.
ReadDataUnreported ==
  /\ Continue("data")
  /\ rxbf' = FALSE
  /\ mem' = [mem EXCEPT ![current_buf][current_pos + 1] = data]
  /\ accepted' = Append(accepted, data)
  /\ current_pos' = current_pos + 1
  /\ IF current_pos + 1 < BufLen[current_buf]
     THEN isr' = "off" /\ UNCHANGED evt
     ELSE /\ evt' = Event("RX_RDY", current_buf, reported, current_pos + 1 - reported)
          /\ isr' = "full"
  /\ UNCHANGED <<rxen, rxor, data, pending, sent, callback, state, reported,
                 initial_request, request_outstanding, ownVars>>

\* The byte goes from DATA into the current buffer; a full one is reported.
ReadData ==
  /\ Continue("data")
  /\ rxbf' = FALSE
  /\ mem' = [mem EXCEPT ![current_buf][current_pos + 1] = data]
  /\ accepted' = Append(accepted, data)
  /\ current_pos' = current_pos + 1
  /\ IF current_pos + 1 < BufLen[current_buf]
     THEN isr' = "off" /\ UNCHANGED <<reported, evt>>
     ELSE /\ reported' = current_pos + 1
          /\ evt' = Event("RX_RDY", current_buf, reported, current_pos + 1 - reported)
          /\ isr' = "full"
  /\ UNCHANGED <<rxen, rxor, data, pending, sent, callback, state,
                 initial_request, request_outstanding, ownVars>>

\* Switch to the next buffer and release the full one, or stop without one.
SwapBuffers ==
  /\ Continue("full")
  /\ IF state = "STOPPING" \/ next_buf = NULL
     THEN BeginFinish(FALSE)
     ELSE /\ evt' = Event("RX_BUF_RELEASED", current_buf, 0, 0)
          /\ current_buf' = next_buf
          /\ current_pos' = 0
          /\ reported' = 0
          /\ next_buf' = NULL
          /\ isr' = "swapped"
          /\ UNCHANGED <<rxen, callback, state, initial_request,
                         request_outstanding>>
  /\ UNCHANGED <<rxbf, rxor, data, pending, sent, held_next, mem, accepted>>

\* Ask for the buffer after this one, unless the client stopped meanwhile.
RequestNext ==
  /\ Continue("swapped")
  /\ IF state = "ACTIVE"
     THEN /\ request_outstanding' = TRUE
          /\ evt' = Event("RX_BUF_REQUEST", NULL, 0, 0)
          /\ isr' = "requested"
          /\ UNCHANGED <<rxen, callback, state, initial_request, current_buf,
                         current_pos, reported, next_buf>>
     ELSE BeginFinish(FALSE)
  /\ UNCHANGED <<rxbf, rxor, data, pending, sent, held_next, mem, accepted>>

AfterRequest ==
  /\ Continue("requested")
  /\ IF state = "STOPPING"
     THEN BeginFinish(FALSE)
     ELSE isr' = "off" /\ UNCHANGED <<rxen, drvVars, evt>>
  /\ UNCHANGED <<rxbf, rxor, data, pending, sent, held_next, mem, accepted>>

\* finish_rx: report_current.
FinishReport ==
  /\ Continue("flush")
  /\ isr' = "release"
  /\ reported' = current_pos
  /\ evt' = IF current_pos = reported
            THEN NoEvent
            ELSE Event("RX_RDY", current_buf, reported, current_pos - reported)
  /\ UNCHANGED <<uartVars, callback, state, initial_request,
                 request_outstanding, ownVars, current_pos, mem, accepted>>

\* With a bug: next_buf is cleared before it is copied.
FinishReleaseLeak ==
  /\ Continue("release")
  /\ isr' = "release_next"
  /\ evt' = IF current_buf = NULL
            THEN NoEvent
            ELSE Event("RX_BUF_RELEASED", current_buf, 0, 0)
  /\ current_buf' = NULL /\ next_buf' = NULL /\ held_next' = NULL
  /\ current_pos' = 0 /\ reported' = 0
  /\ UNCHANGED <<uartVars, callback, state, initial_request,
                 request_outstanding, mem, accepted>>

\* finish_rx: forget both buffers, then release the current one.
FinishRelease ==
  /\ Continue("release")
  /\ isr' = "release_next"
  /\ held_next' = next_buf
  /\ evt' = IF current_buf = NULL
            THEN NoEvent
            ELSE Event("RX_BUF_RELEASED", current_buf, 0, 0)
  /\ current_buf' = NULL
  /\ next_buf' = NULL
  /\ current_pos' = 0
  /\ reported' = 0
  /\ UNCHANGED <<uartVars, callback, state, initial_request,
                 request_outstanding, mem, accepted>>

\* finish_rx: release the next buffer if there is one.
FinishReleaseNext ==
  /\ Continue("release_next")
  /\ isr' = "disable"
  /\ held_next' = NULL
  /\ evt' = IF held_next = NULL
            THEN NoEvent
            ELSE Event("RX_BUF_RELEASED", held_next, 0, 0)
  /\ UNCHANGED <<uartVars, drvVars, mem, accepted>>

\* finish_rx: idle before RX_DISABLED, so its callback may enable again.
FinishDisable ==
  /\ Continue("disable")
  /\ isr' = "return"
  /\ state' = "IDLE"
  /\ evt' = Event("RX_DISABLED", NULL, 0, 0)
  /\ UNCHANGED <<uartVars, callback, initial_request, request_outstanding,
                 current_buf, current_pos, reported, next_buf>>
  /\ UNCHANGED <<held_next, mem, accepted>>

IsrReturn ==
  /\ Continue("return")
  /\ isr' = "off"
  /\ UNCHANGED <<uartVars, drvVars, evt, held_next, mem, accepted>>

IsrStep ==
  \/ AfterFirstRequest \/ ReadStatus \/ ReadData
  \/ SwapBuffers \/ RequestNext \/ AfterRequest
  \/ FinishReport \/ FinishRelease \/ FinishReleaseNext \/ FinishDisable
  \/ IsrReturn

-----------------------------------------------------------------------------
\* lab20_uart_init: receiver off, interrupt enabled and not pending.
UartInit ==
  /\ rxen = FALSE /\ rxbf = FALSE /\ rxor = FALSE /\ data = 0
  /\ pending = FALSE
  /\ sent = 0
  /\ callback = FALSE
  /\ state = "IDLE"
  /\ initial_request = FALSE /\ request_outstanding = FALSE
  /\ current_buf = NULL /\ current_pos = 0 /\ reported = 0 /\ next_buf = NULL
  /\ isr = "off" /\ evt = NoEvent /\ held_next = NULL
  /\ mem = [b \in Buffers |-> [i \in 1..BufLen[b] |-> 0]]
  /\ accepted = <<>>

\* Buffers the driver may still touch or has yet to hand back.
Held ==
  ({current_buf, next_buf, held_next}
     \cup IF evt.type = "RX_BUF_RELEASED" THEN {evt.buf} ELSE {}) \ {NULL}

\* Bytes accepted into a buffer that no completed callback has reported yet.
Unreported ==
  (IF evt.type = "RX_RDY" THEN Span ELSE <<>>) \o
  (IF current_buf = NULL
   THEN <<>>
   ELSE [i \in 1..(current_pos - reported) |-> mem[current_buf][reported + i]])

IsrSteps == {"off", "first_request", "status", "data", "full", "swapped",
             "requested", "flush", "release", "release_next", "disable",
             "return"}

Events == [type: EventTypes, buf: Buffers \cup {NULL}, offset: Nat, len: Nat]

\* Type invariant of the driver (struct lab20_uart_data) and its hardware.
RegsTypeOK ==
  /\ rxen \in BOOLEAN /\ rxbf \in BOOLEAN /\ rxor \in BOOLEAN
  /\ pending \in BOOLEAN
  /\ data \in Nat /\ sent \in Nat

DriverTypeOK ==
  /\ callback \in BOOLEAN
  /\ state \in {"IDLE", "ACTIVE", "STOPPING"}
  /\ initial_request \in BOOLEAN /\ request_outstanding \in BOOLEAN
  /\ current_buf \in Buffers \cup {NULL}
  /\ next_buf \in Buffers \cup {NULL}
  /\ current_pos \in Nat /\ reported \in Nat

HandlerTypeOK ==
  /\ isr \in IsrSteps
  /\ evt \in Events
  /\ held_next \in Buffers \cup {NULL}

MemoryTypeOK ==
  /\ DOMAIN mem = Buffers
  /\ \A b \in Buffers : mem[b] \in [1..BufLen[b] -> Nat]
  /\ accepted \in Seq(Nat)

UartTypeOK == RegsTypeOK /\ DriverTypeOK /\ HandlerTypeOK /\ MemoryTypeOK
=============================================================================
