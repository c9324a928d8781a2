------------------------------ MODULE RxManager ------------------------------
(***************************************************************************)
(* Lab 20: the RX manager (rx_manager.c) between the asynchronous driver    *)
(* (UartAsync) and the polling loop of main.c.  The manager owns the        *)
(* driver's buffers, answers its requests from the interrupt, and copies    *)
(* reported bytes into a ring the main thread reads every 20 ms.  A         *)
(* debugger sets g_stop_requested and g_consume_enabled while the core is   *)
(* halted, so between any two steps.                                        *)
(***************************************************************************)
EXTENDS UartAsync, FiniteSets

CONSTANTS
  RX_DRIVER_COUNT, RX_DRIVER_SIZE,  \* driver buffers and their common length
  RX_RING_SIZE,                     \* capacity of the application ring
  READ_SIZE                         \* sizeof(g_last_read)

ASSUME ManagerAssumption ==
  /\ RX_DRIVER_COUNT \in Nat \ {0, 1} /\ RX_DRIVER_SIZE \in Nat \ {0}
  /\ RX_RING_SIZE \in Nat \ {0} /\ READ_SIZE \in Nat \ {0}
  /\ Buffers = 0..(RX_DRIVER_COUNT - 1)
  /\ BufLen = [b \in Buffers |-> RX_DRIVER_SIZE]

VARIABLES
  \* struct rx_manager
  driver_owned,      \* driver_owned[i]: buffer i is with the driver
  ring,              \* app_ring, oldest byte first
  enabled,
  bytes_received, bytes_buffered, bytes_read, dropped_bytes,
  last_error,
  \* main.c
  pc,                \* the step the main thread is at
  n,                 \* bytes of the last rx_manager_read
  g_consume_enabled, g_stop_requested, g_stop_rc, g_total_read,
  \* history
  consumed           \* bytes the application has read, in order

countVars == <<bytes_received, bytes_buffered, bytes_read, dropped_bytes>>
mgrVars == <<driver_owned, ring, enabled, countVars, last_error>>
mainVars == <<pc, n, g_stop_rc, g_total_read, consumed>>
dbgVars == <<g_consume_enabled, g_stop_requested>>
allVars == <<vars, mgrVars, mainVars, dbgVars>>

\* What a handler of the manager leaves alone: all but drvVars, evt, mgrVars.
handlerFrame == <<uartVars, isr, held_next, mem, accepted, mainVars, dbgVars>>

AtMost(a, b) == IF a < b THEN a ELSE b

\* How many of len bytes the ring takes.
ring_buf_put(len) == AtMost(len, RX_RING_SIZE - Len(ring))

\* How many bytes a read takes out of it.
ring_buf_get == AtMost(AtMost(READ_SIZE, RX_RING_SIZE), Len(ring))

-----------------------------------------------------------------------------
(* rx_manager_event, one action per event, called by the driver's handler. *)

On(type) == evt.type = type /\ evt' = NoEvent

OnReady ==
  /\ On("RX_RDY")
  /\ LET valid == /\ evt.buf \in Buffers
                  /\ driver_owned[evt.buf]
                  /\ evt.offset <= RX_DRIVER_SIZE
                  /\ evt.len <= RX_DRIVER_SIZE - evt.offset
         copied == ring_buf_put(evt.len)
     IN IF valid
        THEN /\ ring' = ring \o SubSeq(Span, 1, copied)
             /\ bytes_received' = bytes_received + evt.len
             /\ bytes_buffered' = bytes_buffered + copied
             /\ dropped_bytes' = dropped_bytes + (evt.len - copied)
             /\ UNCHANGED last_error
        ELSE /\ last_error' = "EINVAL"
             /\ UNCHANGED <<ring, bytes_received, bytes_buffered, dropped_bytes>>
  /\ UNCHANGED <<driver_owned, enabled, bytes_read, drvVars, handlerFrame>>

\* The first buffer not with the driver is lent, unless the driver refuses it.
OnRequest ==
  /\ On("RX_BUF_REQUEST")
  /\ IF \A i \in Buffers : driver_owned[i]
     THEN /\ last_error' = "ENOBUFS"
          /\ UNCHANGED <<driver_owned, drvVars>>
          /\ UNCHANGED handlerFrame
     ELSE LET available == CHOOSE i \in Buffers :
                /\ ~driver_owned[i]
                /\ \A j \in Buffers : j < i => driver_owned[j]
          IN IF RxBufRspRet(available) = "OK"
             THEN /\ RxBufRsp(available)
                  /\ driver_owned' = [driver_owned EXCEPT ![available] = TRUE]
                  /\ UNCHANGED <<last_error, mainVars, dbgVars>>
             ELSE /\ last_error' = RxBufRspRet(available)
                  /\ UNCHANGED <<driver_owned, drvVars, handlerFrame>>
  /\ UNCHANGED <<ring, enabled, countVars>>

\* With a bug: the released buffer is still taken to be with the driver.
OnReleasedKept ==
  /\ On("RX_BUF_RELEASED")
  /\ last_error' = IF evt.buf \in Buffers /\ driver_owned[evt.buf]
                   THEN last_error ELSE "EINVAL"
  /\ UNCHANGED <<driver_owned, ring, enabled, countVars, drvVars, handlerFrame>>

OnReleased ==
  /\ On("RX_BUF_RELEASED")
  /\ IF evt.buf \in Buffers /\ driver_owned[evt.buf]
     THEN /\ driver_owned' = [driver_owned EXCEPT ![evt.buf] = FALSE]
          /\ UNCHANGED last_error
     ELSE /\ last_error' = "EINVAL"
          /\ UNCHANGED driver_owned
  /\ UNCHANGED <<ring, enabled, countVars, drvVars, handlerFrame>>

OnDisabled ==
  /\ On("RX_DISABLED")
  /\ enabled' = FALSE
  /\ UNCHANGED <<driver_owned, ring, countVars, last_error, drvVars, handlerFrame>>

OnStopped ==
  /\ On("RX_STOPPED")
  /\ last_error' = "EIO"
  /\ UNCHANGED <<driver_owned, ring, enabled, countVars, drvVars, handlerFrame>>

rx_manager_event == OnReady \/ OnRequest \/ OnReleased \/ OnDisabled \/ OnStopped

-----------------------------------------------------------------------------
(* The main thread, cut where an interrupt can come in between. *)

At(step) == isr = "off" /\ pc = step

InitCallback ==
  /\ At("callback_set")
  /\ pc' = "lend"
  /\ CallbackSet(TRUE)
  /\ UNCHANGED <<evt, mgrVars, n, g_stop_rc, g_total_read, consumed, dbgVars>>

InitLend ==
  /\ At("lend")
  /\ pc' = "rx_enable"
  /\ driver_owned' = [driver_owned EXCEPT ![0] = TRUE]
  /\ enabled' = TRUE
  /\ UNCHANGED <<ring, countVars, last_error, n, g_stop_rc, g_total_read,
                 consumed, dbgVars, vars>>

InitEnable ==
  /\ At("rx_enable")
  /\ pc' = "poll"
  /\ RxEnable(0)
  /\ UNCHANGED <<evt, mgrVars, n, g_stop_rc, g_total_read, consumed, dbgVars>>

\* With a bug: the request is consumed and forgotten.
PollStopLost ==
  /\ At("poll")
  /\ pc' = "consume"
  /\ g_stop_requested' = FALSE
  /\ UNCHANGED <<vars, mgrVars, n, g_stop_rc, g_total_read, consumed,
                 g_consume_enabled>>

PollStop ==
  /\ At("poll")
  /\ pc' = IF g_stop_requested THEN "disable" ELSE "consume"
  /\ g_stop_requested' = FALSE
  /\ UNCHANGED <<vars, mgrVars, n, g_stop_rc, g_total_read, consumed,
                 g_consume_enabled>>

CallDisable ==
  /\ At("disable")
  /\ pc' = "consume"
  /\ g_stop_rc' = RxDisableRet
  /\ RxDisable \/ (RxDisableRet # "OK" /\ UNCHANGED <<vars>>)
  /\ UNCHANGED <<evt, mgrVars, n, g_total_read, consumed, dbgVars>>

\* main takes count bytes out of the ring.
Consume(count) ==
  /\ At("consume")
  /\ g_consume_enabled
  /\ n' = count
  /\ ring' = SubSeq(ring, count + 1, Len(ring))
  /\ bytes_read' = bytes_read + count
  /\ consumed' = consumed \o SubSeq(ring, 1, count)
  /\ pc' = IF count = 0 THEN "poll" ELSE "account"
  /\ UNCHANGED <<vars, driver_owned, enabled, bytes_received, bytes_buffered,
                 dropped_bytes, last_error, g_stop_rc, g_total_read, dbgVars>>

\* With a bug: nothing is read once reception has ended.
rx_manager_read_enabled == Consume(IF enabled THEN ring_buf_get ELSE 0)

\* rx_manager_read: ring_buf_get with interrupts locked.
rx_manager_read == Consume(ring_buf_get)

SkipRead ==
  /\ At("consume")
  /\ ~g_consume_enabled
  /\ pc' = "poll"
  /\ UNCHANGED <<vars, mgrVars, n, g_stop_rc, g_total_read, consumed, dbgVars>>

AfterRead ==
  /\ At("account")
  /\ pc' = "poll"
  /\ g_total_read' = g_total_read + n
  /\ UNCHANGED <<vars, mgrVars, n, g_stop_rc, consumed, dbgVars>>

MainStep ==
  \/ InitCallback \/ InitLend \/ InitEnable
  \/ PollStop \/ CallDisable \/ rx_manager_read \/ SkipRead \/ AfterRead

-----------------------------------------------------------------------------
(* The debugger. *)

RequestStop ==
  /\ g_stop_requested' = TRUE
  /\ UNCHANGED <<vars, mgrVars, mainVars, g_consume_enabled>>

ToggleConsume ==
  /\ g_consume_enabled' = ~g_consume_enabled
  /\ UNCHANGED <<vars, mgrVars, mainVars, g_stop_requested>>

-----------------------------------------------------------------------------

Init ==
  /\ UartInit
  /\ driver_owned = [i \in Buffers |-> FALSE]
  /\ ring = <<>>
  /\ enabled = FALSE
  /\ bytes_received = 0 /\ bytes_buffered = 0 /\ bytes_read = 0
  /\ dropped_bytes = 0
  /\ last_error = "OK"
  /\ pc = "callback_set"
  /\ n = 0 /\ g_stop_rc = "OK" /\ g_total_read = 0 /\ consumed = <<>>
  /\ g_consume_enabled = TRUE /\ g_stop_requested = FALSE

Driver == (ByteArrives \/ IsrEnter \/ IsrStep) /\ UNCHANGED <<mgrVars, mainVars, dbgVars>>

Next == Driver \/ rx_manager_event \/ MainStep \/ RequestStop \/ ToggleConsume

Spec == Init /\ [][Next]_allVars

(***************************************************************************)
(* The handler runs whenever its interrupt is pending, the manager's        *)
(* callbacks are straight-line code, and the main thread, alone above the   *)
(* idle thread, wakes every 20 ms.  However long bytes keep coming, main    *)
(* gets on: between two of them, 87 us at 115200 baud, the handler returns. *)
(***************************************************************************)
Fairness ==
  /\ WF_allVars((IsrEnter \/ IsrStep) /\ UNCHANGED <<mgrVars, mainVars, dbgVars>>)
  /\ WF_allVars(rx_manager_event)
  /\ SF_allVars(MainStep)

FairSpec == Spec /\ Fairness

-----------------------------------------------------------------------------
(* Properties. *)

\* The manager's own view is the driver's at every instant after
\* rx_manager_init, also when reception ends before it has returned: a buffer
\* is marked exactly while the driver holds it, so none is reused early and
\* none is lost; enabled falls with RX_DISABLED and not before; and every event
\* is one the manager accepts, so an overrun is the only error of a session.
ManagerTracks ==
  pc \notin {"callback_set", "lend", "rx_enable"} =>
    /\ \A i \in Buffers : driver_owned[i] <=> i \in Held
    /\ enabled <=> state # "IDLE" \/ evt.type = "RX_DISABLED"
    /\ last_error \in {"OK", "EIO"}

\* Every byte fetched from the UART is with the driver, in the ring, read, or
\* counted as dropped, and what the application reads is in the order of the
\* line, none twice, whether or not bytes were dropped or overrun in between.
Accounting ==
  /\ Len(accepted) = bytes_received + Len(Unreported)
  /\ bytes_received = bytes_buffered + dropped_bytes
  /\ bytes_buffered = bytes_read + Len(ring)
  /\ bytes_read = Len(consumed)
  /\ bytes_read = g_total_read + IF pc = "account" THEN n ELSE 0
  /\ LET all == consumed \o ring
     IN \A i, j \in 1..Len(all) : i < j => all[i] < all[j]

Stopped == state = "IDLE" /\ ~enabled /\ \A i \in Buffers : ~driver_owned[i]

\* A stop requested by the debugger ends reception for good, also when it
\* comes before reception started or races an overrun.
StopIsFinal == g_stop_requested ~> []Stopped

\* A stop costs no byte: rx_disable returns before the bytes of the buffer in use
\* have been reported, the interrupt it makes pending hands them over while main
\* already reads on, and the ring may hold more than main reads at a time.  Once
\* reception has ended, every byte ever fetched from the UART gets to the
\* application or is counted as dropped, as long as the debugger leaves
\* consumption on in the end (main.c:40-60, uart_cmsdk_async.c:243-264).
StopLosesNothing ==
  <>[]g_consume_enabled /\ <>g_stop_requested
    => <>[](Stopped /\ g_total_read + dropped_bytes = Len(accepted))
=============================================================================
