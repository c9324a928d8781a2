-------------------------- MODULE RxManagerProofs --------------------------
(***************************************************************************)
(* Proofs about lab 20's RX manager and main loop over the asynchronous    *)
(* driver, for any number of driver buffers from two on, any buffer        *)
(* length, ring capacity, read size and any line.                          *)
(*                                                                         *)
(* To the driver the manager is one of its clients: it has lent the        *)
(* buffers the driver holds and been delivered the bytes it counts as      *)
(* received.  So the driver's invariant, proved in UartClientProofs for    *)
(* every client, is kept by each step that is a step of that client        *)
(* (ClientStep); answering a buffer request is two such steps in one       *)
(* (RequestStep).  Added to it is what the manager itself keeps: nothing   *)
(* happens before main enables reception (Quiet), a buffer is asked for    *)
(* only when one is free (Asking), the counters agree (Counts), and the    *)
(* bytes read or still in the ring are among those reported (Traced).      *)
(***************************************************************************)
EXTENDS RxManager, SequenceTheorems, TLAPS

\* What the manager has been told of the bytes accepted.
Reported == SubSeq(accepted, 1, bytes_received)

\* The driver with the manager as its client.
Client == INSTANCE UartClientProofs WITH lent <- Held, delivered <- Reported

\* Both views of the driver have the same actions.
LEMMA SameSteps ==
  /\ ByteArrives => Client!ByteArrives
  /\ IsrEnter => Client!IsrEnter
  /\ IsrStep => Client!IsrStep
  /\ Held = Client!Held /\ Unreported = Client!Unreported /\ Span = Client!Span
<1>0. NoEvent = Client!NoEvent /\ drvVars = Client!drvVars /\ uartVars = Client!uartVars
      /\ ownVars = Client!ownVars
      /\ \A t, b, o, l : Event(t, b, o, l) = Client!Event(t, b, o, l)
  BY DEF Event, NoEvent, drvVars, uartVars, ownVars, Client!Event, Client!NoEvent, Client!drvVars,
     Client!uartVars, Client!ownVars
<1>1. ByteArrives => Client!ByteArrives
  BY DEF ByteArrives, Client!ByteArrives, drvVars, Client!drvVars
<1>2. \A o : BeginFinish(o) => Client!BeginFinish(o)
  BY <1>0 DEF BeginFinish, Client!BeginFinish
<1>3. \A s : Continue(s) <=> Client!Continue(s)
  BY <1>0 DEF Continue, Client!Continue, in_callback, Client!in_callback
<1>4. IsrEnter => Client!IsrEnter
  BY <1>0, <1>2 DEF IsrEnter, Client!IsrEnter, drvVars, Client!drvVars
<1>5. Span = Client!Span
  BY DEF Span, Client!Span
<1>6. Held = Client!Held /\ Unreported = Client!Unreported
  BY <1>5 DEF Held, Client!Held, Unreported, Client!Unreported
<1>7. /\ AfterFirstRequest => Client!AfterFirstRequest
      /\ ReadStatus => Client!ReadStatus
      /\ ReadData => Client!ReadData
      /\ SwapBuffers => Client!SwapBuffers
      /\ RequestNext => Client!RequestNext
      /\ AfterRequest => Client!AfterRequest
  BY <1>0, <1>2, <1>3
     DEF AfterFirstRequest, Client!AfterFirstRequest, ReadStatus, Client!ReadStatus,
         ReadData, Client!ReadData, SwapBuffers, Client!SwapBuffers, RequestNext,
         Client!RequestNext, AfterRequest, Client!AfterRequest, drvVars, Client!drvVars,
         ownVars, Client!ownVars
<1>8. /\ FinishReport => Client!FinishReport
      /\ FinishRelease => Client!FinishRelease
      /\ FinishReleaseNext => Client!FinishReleaseNext
      /\ FinishDisable => Client!FinishDisable
      /\ IsrReturn => Client!IsrReturn
  BY <1>0, <1>3
     DEF FinishReport, Client!FinishReport, FinishRelease, Client!FinishRelease,
         FinishReleaseNext, Client!FinishReleaseNext, FinishDisable, Client!FinishDisable,
         IsrReturn, Client!IsrReturn, drvVars, Client!drvVars, uartVars, Client!uartVars,
         ownVars, Client!ownVars
<1> QED
  BY <1>1, <1>4, <1>5, <1>6, <1>7, <1>8 DEF IsrStep, Client!IsrStep

-----------------------------------------------------------------------------
(* The inductive invariant. *)

Starting == {"callback_set", "lend", "rx_enable"}   \* before reception

PcSteps == Starting \cup {"poll", "disable", "consume", "account"}

ManagerTypeOK ==
  /\ driver_owned \in [Buffers -> BOOLEAN]
  /\ enabled \in BOOLEAN
  /\ ring \in Seq(Nat) /\ consumed \in Seq(Nat)
  /\ bytes_received \in Nat /\ bytes_buffered \in Nat
  /\ bytes_read \in Nat /\ dropped_bytes \in Nat
  /\ pc \in PcSteps
  /\ n \in Nat /\ g_total_read \in Nat

\* A buffer is asked for only while one can be taken, and RX_DISABLED comes
\* from an idle driver.
Asking ==
  /\ evt.type = "RX_BUF_REQUEST" =>
       /\ isr \in {"first_request", "requested"}
       /\ state = "ACTIVE" /\ next_buf = NULL /\ request_outstanding
  /\ evt.type = "RX_DISABLED" => state = "IDLE"

\* Nothing happens on the UART before main has enabled reception.
Quiet ==
  pc \in Starting =>
    /\ state = "IDLE" /\ isr = "off" /\ ~pending /\ ~rxen
    /\ Held = {}
    /\ last_error = "OK"
    /\ pc = "callback_set" \/ callback
    /\ enabled <=> pc = "rx_enable"
    /\ \A i \in Buffers : driver_owned[i] <=> pc = "rx_enable" /\ i = 0

\* The counters agree with each other and with what is in the ring.
Counts ==
  /\ bytes_received <= Len(accepted)
  /\ bytes_received = bytes_buffered + dropped_bytes
  /\ bytes_buffered = bytes_read + Len(ring)
  /\ bytes_read = Len(consumed)
  /\ bytes_read = g_total_read + IF pc = "account" THEN n ELSE 0
  /\ Len(ring) <= RX_RING_SIZE

Ascending(s) == \A i, j \in 1..Len(s) : i < j => s[i] < s[j]

\* Every byte of s is among the first r of a.
Among(s, a, r) == \A i \in 1..Len(s) : \E k \in 1..r : s[i] = a[k]

\* The bytes the manager has, read or not, are among those reported to it.
Traced ==
  /\ Ascending(accepted)
  /\ Ascending(consumed \o ring)
  /\ Among(consumed \o ring, accepted, bytes_received)

ManagerInv ==
  /\ Client!SInv
  /\ ManagerTypeOK /\ Asking /\ Quiet /\ ManagerTracks /\ Counts /\ Traced

\* What the driver's invariant says, in the words of this module.
LEMMA DriverFacts ==
  ASSUME Client!SInv
  PROVE  /\ UartTypeOK
         /\ isr = "off" => evt = NoEvent
         /\ state = "IDLE" => isr \in {"off", "return"} /\ current_buf = NULL /\ next_buf = NULL
         /\ isr \in {"release_next", "disable"} => current_buf = NULL /\ next_buf = NULL
         /\ isr \in {"flush", "release", "release_next", "disable"} => state = "STOPPING"
         /\ isr \in {"status", "data"} => state = "ACTIVE"
         /\ held_next # NULL => isr = "release_next"
         /\ isr = "swapped" => next_buf = NULL
         /\ initial_request => next_buf = NULL
         /\ evt.type = "RX_BUF_RELEASED" =>
              /\ evt.buf # NULL /\ evt.buf # current_buf /\ evt.buf # held_next
              /\ evt.buf # next_buf
         /\ evt.type = "RX_RDY" =>
              /\ evt.buf = current_buf /\ current_buf # NULL
              /\ evt.offset + evt.len <= BufLen[evt.buf]
         /\ accepted = Reported \o Unreported
         /\ NoEvent \in Events /\ NoEvent.type = "NONE"
         /\ isr = "data" => rxbf
         /\ accepted # <<>> /\ rxbf => accepted[Len(accepted)] < data
<1>1. /\ Client!UartTypeOK /\ Client!Control /\ Client!Distinct /\ Client!Bounds
      /\ Client!Reports /\ Client!Delivery /\ Client!Numbered
  BY DEF Client!SInv, Client!DInv, Client!IInv, Client!TypeOK
<1>2. UartTypeOK
  BY <1>1
     DEF UartTypeOK, RegsTypeOK, DriverTypeOK, HandlerTypeOK, MemoryTypeOK, IsrSteps, Events,
         EventTypes, Client!UartTypeOK, Client!RegsTypeOK, Client!DriverTypeOK,
         Client!HandlerTypeOK, Client!MemoryTypeOK, Client!IsrSteps, Client!Events,
         Client!EventTypes
<1>3. NoEvent = Client!NoEvent /\ NoEvent \in Events /\ NoEvent.type = "NONE"
  BY DEF NoEvent, Client!NoEvent, Event, Client!Event, Events, EventTypes
<1>4. /\ isr = "off" => evt = NoEvent
      /\ state = "IDLE" => isr \in {"off", "return"} /\ current_buf = NULL /\ next_buf = NULL
      /\ isr \in {"release_next", "disable"} => current_buf = NULL /\ next_buf = NULL
      /\ isr \in {"flush", "release", "release_next", "disable"} => state = "STOPPING"
      /\ isr \in {"status", "data"} => state = "ACTIVE"
      /\ held_next # NULL => isr = "release_next"
      /\ isr = "swapped" => next_buf = NULL
      /\ initial_request => next_buf = NULL
  BY <1>1, <1>3 DEF Client!Control, Client!Finishing, Client!Dropped
<1>5. evt.type = "RX_BUF_RELEASED" =>
        /\ evt.buf # NULL /\ evt.buf # current_buf /\ evt.buf # held_next
        /\ evt.buf # next_buf
  BY <1>1, <1>4 DEF Client!Distinct, Client!Dropped
<1>6. evt.type = "RX_RDY" =>
        /\ evt.buf = current_buf /\ current_buf # NULL
        /\ evt.offset + evt.len <= BufLen[evt.buf]
  BY <1>1 DEF Client!Reports, Client!Bounds
<1>7. accepted = Reported \o Unreported
  BY <1>1, SameSteps DEF Client!Delivery
<1>8. /\ isr = "data" => rxbf
      /\ accepted # <<>> /\ rxbf => accepted[Len(accepted)] < data
  BY <1>1 DEF Client!Numbered
<1> QED
  BY <1>2, <1>3, <1>4, <1>5, <1>6, <1>7, <1>8

\* The hardware and the handler keep every buffer they know: one is let go of
\* only when the callback that hands it back returns.
LEMMA HandlerHolds ==
  ASSUME Client!SInv, ByteArrives \/ IsrEnter \/ IsrStep
  PROVE  Held' = Held
<1> USE DriverFacts DEF UartTypeOK, DriverTypeOK, HandlerTypeOK, Held
<1>1. ASSUME NEW o \in BOOLEAN, BeginFinish(o), held_next' = held_next, evt = NoEvent
      PROVE  Held' = Held
  BY <1>1 DEF BeginFinish, Event, NoEvent
<1>2. CASE ByteArrives
  BY <1>2 DEF ByteArrives, drvVars
<1>3. CASE IsrEnter
  <2>1. CASE \E o \in BOOLEAN : BeginFinish(o)
    BY <1>1, <1>3, <2>1 DEF IsrEnter
  <2>2. CASE UNCHANGED drvVars /\ evt' = evt
    BY <1>3, <2>2 DEF IsrEnter, drvVars
  <2>3. CASE state = "ACTIVE" /\ initial_request
    BY <1>3, <2>3 DEF IsrEnter, Event, NoEvent
  <2> QED
    BY <1>3, <2>1, <2>2, <2>3 DEF IsrEnter
<1>4. CASE ReadData
  BY <1>4 DEF ReadData, ownVars, Event, NoEvent, Continue, in_callback
<1>5. CASE SwapBuffers
  <2>1. evt = NoEvent /\ held_next' = held_next
    BY <1>5 DEF SwapBuffers, Continue, in_callback
  <2>2. CASE BeginFinish(FALSE)
    BY <1>1, <2>1, <2>2
  <2>3. CASE ~BeginFinish(FALSE)
    <3>1. /\ evt' = Event("RX_BUF_RELEASED", current_buf, 0, 0)
          /\ current_buf' = next_buf /\ next_buf' = NULL
      BY <1>5, <2>3 DEF SwapBuffers
    <3>2. evt'.type = "RX_BUF_RELEASED" /\ evt'.buf = current_buf
      BY <3>1 DEF Event
    <3>3. evt.type # "RX_BUF_RELEASED"
      BY <2>1
    <3> QED
      BY <2>1, <3>1, <3>2, <3>3
  <2> QED
    BY <2>2, <2>3
<1>6. CASE RequestNext
  <2>1. evt = NoEvent /\ held_next' = held_next
    BY <1>6 DEF RequestNext, Continue, in_callback
  <2>2. CASE BeginFinish(FALSE)
    BY <1>1, <2>1, <2>2
  <2>3. CASE ~BeginFinish(FALSE)
    <3>1. /\ evt' = Event("RX_BUF_REQUEST", NULL, 0, 0)
          /\ current_buf' = current_buf /\ next_buf' = next_buf
      BY <1>6, <2>3 DEF RequestNext
    <3>2. evt.type # "RX_BUF_RELEASED" /\ evt'.type # "RX_BUF_RELEASED"
      BY <2>1, <3>1 DEF Event
    <3> QED
      BY <2>1, <3>1, <3>2
  <2> QED
    BY <2>2, <2>3
<1>7. CASE AfterFirstRequest \/ ReadStatus \/ AfterRequest
  <2>1. evt = NoEvent /\ held_next' = held_next
    BY <1>7 DEF AfterFirstRequest, ReadStatus, AfterRequest, Continue, in_callback
  <2>2. (\E o \in BOOLEAN : BeginFinish(o)) \/ (UNCHANGED drvVars /\ evt' = evt)
    BY <1>7 DEF AfterFirstRequest, ReadStatus, AfterRequest
  <2>3. CASE \E o \in BOOLEAN : BeginFinish(o)
    BY <1>1, <2>1, <2>3
  <2>4. CASE UNCHANGED drvVars /\ evt' = evt
    BY <2>1, <2>4 DEF drvVars
  <2> QED
    BY <2>2, <2>3, <2>4
<1>8. CASE FinishReport
  BY <1>8 DEF FinishReport, ownVars, Event, NoEvent, Continue, in_callback
<1>9. CASE FinishRelease
  BY <1>9 DEF FinishRelease, Event, NoEvent, Continue, in_callback
<1>10. CASE FinishReleaseNext
  BY <1>10 DEF FinishReleaseNext, drvVars, Event, NoEvent, Continue, in_callback
<1>11. CASE FinishDisable
  BY <1>11 DEF FinishDisable, Event, NoEvent, Continue, in_callback
<1>12. CASE IsrReturn
  BY <1>12 DEF IsrReturn, drvVars
<1> QED
  BY <1>2, <1>3, <1>4, <1>5, <1>6, <1>7, <1>8, <1>9, <1>10, <1>11, <1>12 DEF IsrStep

\* What else a step of the hardware or of the handler does that the manager
\* depends on: it needs an enabled receiver or a pending interrupt, it keeps
\* the session open, and it asks for a buffer only when one can be taken.
LEMMA HandlerEffect ==
  ASSUME Client!SInv, Asking, ByteArrives \/ IsrEnter \/ IsrStep
  PROVE  /\ rxen \/ pending \/ isr # "off"
         /\ (state # "IDLE" \/ evt.type = "RX_DISABLED")'
              <=> state # "IDLE" \/ evt.type = "RX_DISABLED"
         /\ accepted' = accepted \/ (isr = "data" /\ accepted' = Append(accepted, data))
         /\ Asking'
<1> DEFINE Open == state # "IDLE" \/ evt.type = "RX_DISABLED"
<1> USE DriverFacts DEF UartTypeOK, DriverTypeOK, HandlerTypeOK
<1>1. ASSUME NEW o \in BOOLEAN, BeginFinish(o), evt = NoEvent, state # "IDLE"
      PROVE  (Open' <=> Open) /\ Asking'
  <2>1. state' = "STOPPING" /\ evt'.type \in {"RX_STOPPED", "NONE"}
    BY <1>1 DEF BeginFinish, Event, NoEvent
  <2> QED
    BY <1>1, <2>1 DEF Asking
<1>2. CASE ByteArrives
  BY <1>2 DEF ByteArrives, drvVars, Asking
<1>3. CASE IsrEnter
  <2>1. accepted' = accepted /\ pending /\ evt = NoEvent
    BY <1>3 DEF IsrEnter
  <2>2. CASE \E o \in BOOLEAN : BeginFinish(o) /\ state # "IDLE"
    BY <1>1, <2>1, <2>2
  <2>3. CASE UNCHANGED <<drvVars, evt>>
    BY <2>1, <2>3 DEF drvVars, Asking
  <2>4. CASE state = "ACTIVE" /\ initial_request
    <3>1. evt' = Event("RX_BUF_REQUEST", NULL, 0, 0)
      BY <1>3, <2>4 DEF IsrEnter, BeginFinish, NoEvent, Event
    <3>2. evt'.type = "RX_BUF_REQUEST"
      BY <3>1 DEF Event
    <3>3. /\ isr' = "first_request" /\ state' = "ACTIVE" /\ next_buf' = next_buf
          /\ request_outstanding'
      BY <1>3, <2>4, <3>1 DEF IsrEnter
    <3> QED
      BY <2>1, <2>4, <3>2, <3>3 DEF Asking
  <2> QED
    BY <1>3, <2>2, <2>3, <2>4 DEF IsrEnter
<1>4. CASE ReadData
  <2>1. /\ isr = "data" /\ accepted' = Append(accepted, data)
        /\ evt = NoEvent /\ state' = state /\ state = "ACTIVE"
    BY <1>4 DEF ReadData, Continue, in_callback
  <2>2. evt'.type \in {"NONE", "RX_RDY"}
    BY <1>4, <2>1 DEF ReadData, Event, NoEvent
  <2> QED
    BY <2>1, <2>2 DEF Asking
<1>5. CASE SwapBuffers
  <2>1. evt = NoEvent /\ isr = "full" /\ state # "IDLE" /\ accepted' = accepted
    BY <1>5 DEF SwapBuffers, Continue, in_callback
  <2>2. CASE BeginFinish(FALSE)
    BY <1>1, <2>1, <2>2
  <2>3. CASE ~BeginFinish(FALSE)
    <3>1. evt' = Event("RX_BUF_RELEASED", current_buf, 0, 0) /\ state' = state
      BY <1>5, <2>3 DEF SwapBuffers
    <3>2. evt'.type = "RX_BUF_RELEASED"
      BY <3>1 DEF Event
    <3> QED
      BY <2>1, <3>1, <3>2 DEF Asking
  <2> QED
    BY <2>2, <2>3
<1>6. CASE RequestNext
  <2>1. evt = NoEvent /\ isr = "swapped" /\ state # "IDLE" /\ accepted' = accepted
    BY <1>6 DEF RequestNext, Continue, in_callback
  <2>2. CASE BeginFinish(FALSE)
    BY <1>1, <2>1, <2>2
  <2>3. CASE ~BeginFinish(FALSE)
    <3>1. /\ evt' = Event("RX_BUF_REQUEST", NULL, 0, 0)
          /\ state = "ACTIVE" /\ state' = "ACTIVE" /\ next_buf' = next_buf
          /\ isr' = "requested" /\ request_outstanding'
      BY <1>6, <2>3 DEF RequestNext
    <3>2. evt'.type = "RX_BUF_REQUEST"
      BY <3>1 DEF Event
    <3> QED
      BY <2>1, <3>1, <3>2 DEF Asking
  <2> QED
    BY <2>2, <2>3
<1>7. CASE AfterFirstRequest \/ ReadStatus \/ AfterRequest
  <2>1. evt = NoEvent /\ isr # "off" /\ state # "IDLE" /\ accepted' = accepted
    BY <1>7 DEF AfterFirstRequest, ReadStatus, AfterRequest, Continue, in_callback
  <2>2. (\E o \in BOOLEAN : BeginFinish(o)) \/ (UNCHANGED drvVars /\ evt' = evt)
    BY <1>7 DEF AfterFirstRequest, ReadStatus, AfterRequest
  <2>3. CASE \E o \in BOOLEAN : BeginFinish(o)
    BY <1>1, <2>1, <2>3
  <2>4. CASE UNCHANGED drvVars /\ evt' = evt
    BY <2>1, <2>4 DEF drvVars, Asking
  <2> QED
    BY <2>1, <2>2, <2>3, <2>4
<1>8. CASE FinishReport \/ FinishRelease \/ FinishReleaseNext
  <2>1. evt = NoEvent /\ isr \in {"flush", "release", "release_next"}
    BY <1>8 DEF FinishReport, FinishRelease, FinishReleaseNext, Continue, in_callback
  <2>2. state' = state /\ state = "STOPPING" /\ accepted' = accepted
    BY <1>8, <2>1 DEF FinishReport, FinishRelease, FinishReleaseNext, drvVars
  <2>3. evt'.type \in {"NONE", "RX_RDY", "RX_BUF_RELEASED"}
    <3>1. CASE FinishReport
      BY <3>1 DEF FinishReport, Event, NoEvent
    <3>2. CASE FinishRelease
      BY <3>2 DEF FinishRelease, Event, NoEvent
    <3>3. CASE FinishReleaseNext
      BY <3>3 DEF FinishReleaseNext, Event, NoEvent
    <3> QED
      BY <1>8, <3>1, <3>2, <3>3
  <2> QED
    BY <2>1, <2>2, <2>3 DEF Asking
<1>9. CASE FinishDisable
  <2>1. /\ isr = "disable" /\ state' = "IDLE" /\ accepted' = accepted
        /\ evt' = Event("RX_DISABLED", NULL, 0, 0)
    BY <1>9 DEF FinishDisable, Continue
  <2>2. evt'.type = "RX_DISABLED" /\ state = "STOPPING"
    BY <2>1 DEF Event
  <2> QED
    BY <2>1, <2>2 DEF Asking
<1>10. CASE IsrReturn
  <2>1. evt = NoEvent /\ evt' = evt /\ isr = "return" /\ UNCHANGED <<state, accepted>>
    BY <1>10 DEF IsrReturn, Continue, in_callback, drvVars
  <2> QED
    BY <2>1 DEF Asking
<1> QED
  BY <1>2, <1>3, <1>4, <1>5, <1>6, <1>7, <1>8, <1>9, <1>10 DEF IsrStep

-----------------------------------------------------------------------------
(* Sequences. *)

\* Appending changes none of the bytes before.
LEMMA AppendKeeps ==
  ASSUME NEW s \in Seq(Nat), NEW e \in Nat, NEW k \in 0..Len(s)
  PROVE  /\ Append(s, e) \in Seq(Nat) /\ Len(Append(s, e)) = Len(s) + 1
         /\ \A i \in 1..Len(s) : Append(s, e)[i] = s[i]
         /\ Append(s, e)[Len(s) + 1] = e
         /\ SubSeq(Append(s, e), 1, k) = SubSeq(s, 1, k)
  OBVIOUS

\* A larger byte at the end keeps a sequence ascending.
LEMMA AscendingAppend ==
  ASSUME NEW s \in Seq(Nat), NEW e \in Nat, Ascending(s),
         s # <<>> => s[Len(s)] < e
  PROVE  Ascending(Append(s, e))
<1> DEFINE t == Append(s, e)
<1>1. Len(t) = Len(s) + 1 /\ t[Len(s) + 1] = e /\ \A i \in 1..Len(s) : t[i] = s[i] /\ s[i] \in Nat
  BY AppendKeeps
<1>2. \A i \in 1..Len(s) : s[i] < e
  <2> TAKE i \in 1..Len(s)
  <2>1. s # <<>> /\ s[Len(s)] < e /\ (i < Len(s) => s[i] < s[Len(s)])
    BY DEF Ascending
  <2> QED
    BY <1>1, <2>1
<1> HIDE DEF t
<1>3. Ascending(t)
  <2> SUFFICES ASSUME NEW i \in 1..Len(t), NEW j \in 1..Len(t), i < j
               PROVE  t[i] < t[j]
    BY DEF Ascending
  <2>1. CASE j \in 1..Len(s)
    <3>1. i \in 1..Len(s) /\ s[i] < s[j]
      BY <2>1 DEF Ascending
    <3> QED
      BY <1>1, <2>1, <3>1
  <2>2. CASE j = Len(s) + 1
    BY <1>1, <1>2, <2>2
  <2> QED
    BY <1>1, <2>1, <2>2
<1> QED
  BY <1>3 DEF t

-----------------------------------------------------------------------------
(* A step of the hardware or of the handler. *)

\* A step of the manager that is one of the client's keeps the driver's part.
LEMMA ClientStep ==
  ASSUME Client!SInv, Client!Next \/ UNCHANGED Client!allVars
  PROVE  Client!SInv'
<1>1. Client!SInv /\ [Client!Next]_(Client!allVars)
  OBVIOUS
<1>2. Client!DInv'
  BY <1>1, BufferAssumption, Client!NextDInv DEF Client!SInv
<1>3. Client!Numbered'
  BY <1>1, BufferAssumption, Client!NextNumbered
<1> QED
  BY <1>2, <1>3 DEF Client!SInv

\* While the manager does nothing, what it has been told stays the same.
LEMMA DriverStep == ManagerInv /\ Driver => ManagerInv'
<1> SUFFICES ASSUME ManagerInv, Driver
             PROVE  ManagerInv'
  OBVIOUS
<1>0. /\ Client!SInv /\ ManagerTypeOK /\ Asking /\ Quiet /\ ManagerTracks /\ Counts /\ Traced
      /\ ByteArrives \/ IsrEnter \/ IsrStep
      /\ UNCHANGED <<mgrVars, mainVars, dbgVars>>
  BY DEF ManagerInv, Driver
<1>1. /\ rxen \/ pending \/ isr # "off"
      /\ (state # "IDLE" \/ evt.type = "RX_DISABLED")'
           <=> state # "IDLE" \/ evt.type = "RX_DISABLED"
      /\ accepted' = accepted \/ (isr = "data" /\ accepted' = Append(accepted, data))
      /\ Asking'
  BY <1>0, HandlerEffect, Zenon
<1>2. Held' = Held
  BY <1>0, HandlerHolds
<1>3. /\ UNCHANGED <<driver_owned, ring, enabled, bytes_received, bytes_buffered, bytes_read>>
      /\ UNCHANGED <<dropped_bytes, last_error, pc, n, g_total_read, consumed>>
  BY <1>0 DEF mgrVars, mainVars, countVars
<1>4. pc \notin Starting
  BY <1>0, <1>1 DEF Quiet
<1>5. /\ accepted \in Seq(Nat) /\ data \in Nat /\ bytes_received \in 0..Len(accepted)
      /\ isr = "data" /\ accepted # <<>> => accepted[Len(accepted)] < data
  <2>1. UartTypeOK /\ (isr = "data" => rxbf)
        /\ (accepted # <<>> /\ rxbf => accepted[Len(accepted)] < data)
    BY <1>0, DriverFacts
  <2> QED
    BY <1>0, <2>1 DEF UartTypeOK, RegsTypeOK, MemoryTypeOK, Counts, ManagerTypeOK
<1>6. /\ bytes_received <= Len(accepted')
      /\ \A k \in 1..bytes_received : accepted'[k] = accepted[k]
      /\ SubSeq(accepted', 1, bytes_received) = SubSeq(accepted, 1, bytes_received)
      /\ Ascending(accepted')
  <2>1. CASE accepted' = accepted
    BY <1>0, <1>5, <2>1 DEF Traced
  <2>2. CASE isr = "data" /\ accepted' = Append(accepted, data)
    <3>1. Ascending(Append(accepted, data))
      BY <1>0, <1>5, <2>2, AscendingAppend DEF Traced
    <3>2. 1..bytes_received \subseteq 1..Len(accepted)
      BY <1>5
    <3> QED
      BY <1>5, <2>2, <3>1, <3>2, AppendKeeps
  <2> QED
    BY <1>1, <2>1, <2>2
<1>7. Client!SInv'
  <2>1. Reported' = Reported
    BY <1>3, <1>6 DEF Reported
  <2>2. Client!Next
    BY <1>0, <1>2, <2>1, SameSteps DEF Client!Next, Client!clientVars
  <2> QED
    BY <1>0, <2>2, ClientStep
<1>8. ManagerTypeOK'
  BY <1>0, <1>3 DEF ManagerTypeOK
<1>9. Quiet'
  BY <1>3, <1>4 DEF Quiet
<1>10. ManagerTracks'
  BY <1>0, <1>1, <1>2, <1>3 DEF ManagerTracks
<1>11. Counts'
  <2>1. bytes_received' <= Len(accepted')
    BY <1>3, <1>6
  <2> QED
    BY <1>0, <1>3, <2>1 DEF Counts
<1>12. Traced'
  <2>1. (consumed \o ring)' = consumed \o ring /\ bytes_received' = bytes_received
    BY <1>3
  <2>2. Ascending(consumed \o ring)'
    BY <1>0, <2>1 DEF Traced, Ascending
  <2>3. Ascending(accepted)'
    BY <1>6 DEF Ascending
  <2>4. Among(consumed \o ring, accepted', bytes_received)
    BY <1>0, <1>6 DEF Traced, Among
  <2> QED
    BY <2>1, <2>2, <2>3, <2>4 DEF Traced, Among
<1> QED
  BY <1>1, <1>7, <1>8, <1>9, <1>10, <1>11, <1>12 DEF ManagerInv

-----------------------------------------------------------------------------
(* A callback of the manager returns. *)

\* A callback comes from the handler, after main has enabled reception.
LEMMA InCallback ==
  ASSUME ManagerInv, evt # NoEvent
  PROVE  isr # "off" /\ pc \notin Starting
BY DriverFacts DEF ManagerInv, Quiet

\* A callback that leaves the driver alone hands back what was released and has
\* taken note of what was reported.
LEMMA CallbackStep ==
  ASSUME ManagerInv, evt # NoEvent, evt' = NoEvent,
         UNCHANGED <<drvVars, uartVars, isr, held_next, mem, accepted>>,
         Reported' = IF evt.type = "RX_RDY" THEN Reported \o Span ELSE Reported
  PROVE  /\ Client!SInv' /\ Asking'
         /\ Held' = IF evt.type = "RX_BUF_RELEASED" THEN Held \ {evt.buf} ELSE Held
<1>1. Client!SInv /\ NoEvent.type = "NONE"
  BY DriverFacts DEF ManagerInv
<1>2. Held' = IF evt.type = "RX_BUF_RELEASED" THEN Held \ {evt.buf} ELSE Held
  <2>1. UNCHANGED <<current_buf, next_buf, held_next>> /\ evt'.type = "NONE"
    BY <1>1 DEF drvVars
  <2>2. evt.type = "RX_BUF_RELEASED" =>
          evt.buf # current_buf /\ evt.buf # held_next /\ evt.buf # next_buf
    BY <1>1, DriverFacts
  <2> QED
    BY <2>1, <2>2 DEF Held
<1>3. Asking'
  BY <1>1 DEF Asking
<1>4. Client!CallbackReturn
  <2>1. NoEvent = Client!NoEvent /\ Span = Client!Span
    BY SameSteps DEF NoEvent, Client!NoEvent, Event, Client!Event
  <2>2. Client!in_callback /\ evt' = Client!NoEvent
    BY <2>1 DEF Client!in_callback
  <2>3. Held' = Held \ Client!Released
    BY <1>2 DEF Client!Released
  <2>4. UNCHANGED <<Client!uartVars, Client!drvVars, isr, held_next, mem, accepted>>
    BY DEF uartVars, drvVars, Client!uartVars, Client!drvVars
  <2> QED
    BY <2>1, <2>2, <2>3, <2>4 DEF Client!CallbackReturn
<1>5. Client!SInv'
  BY <1>1, <1>4, ClientStep DEF Client!Next
<1> QED
  BY <1>2, <1>3, <1>5

\* Concatenation of byte strings.
LEMMA Joined ==
  ASSUME NEW s \in Seq(Nat), NEW t \in Seq(Nat)
  PROVE  /\ s \o t \in Seq(Nat) /\ Len(s \o t) = Len(s) + Len(t)
         /\ \A i \in 1..Len(s) : (s \o t)[i] = s[i]
         /\ \A i \in 1..Len(t) : (s \o t)[Len(s) + i] = t[i]
<1>1. s \o t \in Seq(Nat) /\ Len(s \o t) = Len(s) + Len(t)
  OBVIOUS
<1>2. \A i \in 1..Len(s) : (s \o t)[i] = s[i]
  OBVIOUS
<1>3. ASSUME NEW i \in 1..Len(t)
      PROVE  (s \o t)[Len(s) + i] = t[i]
  <2>1. Len(s) + i \in 1..(Len(s) + Len(t)) /\ ~(Len(s) + i <= Len(s))
        /\ (Len(s) + i) - Len(s) = i
    OBVIOUS
  <2> QED
    BY <2>1
<1> QED
  BY <1>1, <1>2, <1>3

\* Byte strings can be joined in either order.
LEMMA JoinedThree ==
  ASSUME NEW s \in Seq(Nat), NEW t \in Seq(Nat), NEW u \in Seq(Nat)
  PROVE  (s \o t) \o u = s \o (t \o u)
BY ConcatAssociative, Z3

\* A first part of a byte string.
LEMMA Cut ==
  ASSUME NEW s \in Seq(Nat), NEW k \in Nat, k <= Len(s)
  PROVE  /\ SubSeq(s, 1, k) \in Seq(Nat) /\ Len(SubSeq(s, 1, k)) = k
         /\ \A i \in 1..k : SubSeq(s, 1, k)[i] = s[i]
  OBVIOUS

\* a goes on with s after p.
GoesOn(a, p, s) == \E u \in Seq(Nat) : a = p \o (s \o u)

\* The bytes of an RX_RDY are the next ones accepted.
LEMMA ReportedGrows ==
  ASSUME NEW a \in Seq(Nat), NEW s \in Seq(Nat), NEW r \in Nat,
         NEW p, p = SubSeq(a, 1, r), r <= Len(a), GoesOn(a, p, s)
  PROVE  /\ r + Len(s) <= Len(a)
         /\ SubSeq(a, 1, r + Len(s)) = p \o s
         /\ \A i \in 1..Len(s) : a[r + i] = s[i]
<1>0. PICK u \in Seq(Nat) : a = p \o (s \o u)
  BY DEF GoesOn
<1> DEFINE t == s \o u
           x == SubSeq(a, 1, r + Len(s))
           y == p \o s
<1>1. p \in Seq(Nat) /\ Len(p) = r /\ \A i \in 1..r : p[i] = a[i]
  BY Cut, Zenon
<1>2. /\ t \in Seq(Nat) /\ Len(t) = Len(s) + Len(u)
      /\ \A i \in 1..Len(s) : t[i] = s[i]
  BY Joined, Zenon
<1>3. a = p \o t
  BY <1>0
<1> HIDE DEF t
<1>4. Len(p \o t) = Len(p) + Len(t) /\ \A i \in 1..Len(t) : (p \o t)[Len(p) + i] = t[i]
  BY <1>1, <1>2, Joined, Zenon
<1>5. Len(a) = r + Len(t) /\ \A i \in 1..Len(t) : a[r + i] = t[i]
  BY <1>1, <1>3, <1>4, Zenon
<1>6. r + Len(s) <= Len(a) /\ \A i \in 1..Len(s) : a[r + i] = s[i]
  <2>1. Len(s) \in Nat /\ Len(u) \in Nat
    OBVIOUS
  <2>2. 1..Len(s) \subseteq 1..Len(t) /\ Len(s) <= Len(t)
    BY <1>2, <2>1
  <2>3. \A i \in 1..Len(s) : a[r + i] = s[i]
    BY <1>2, <1>5, <2>2, Zenon
  <2> QED
    BY <1>5, <2>2, <2>3
<1>7. x \in Seq(Nat) /\ Len(x) = r + Len(s) /\ \A i \in 1..(r + Len(s)) : x[i] = a[i]
  <2>1. r + Len(s) \in Nat
    OBVIOUS
  <2> QED
    BY <1>6, <2>1, Cut, Zenon
<1>8. /\ y \in Seq(Nat) /\ Len(y) = r + Len(s)
      /\ \A i \in 1..r : y[i] = p[i]
      /\ \A i \in 1..Len(s) : y[r + i] = s[i]
  <2>1. /\ p \o s \in Seq(Nat) /\ Len(p \o s) = Len(p) + Len(s)
        /\ \A i \in 1..Len(p) : (p \o s)[i] = p[i]
        /\ \A i \in 1..Len(s) : (p \o s)[Len(p) + i] = s[i]
    <3>1. p \in Seq(Nat) /\ s \in Seq(Nat)
      BY <1>1
    <3> QED
      BY <3>1, Joined, Zenon
  <2>2. Len(p) = r
    BY <1>1
  <2> QED
    BY <2>1, <2>2, Zenon
<1> HIDE DEF x, y
<1>9. x = y
  <2>1. \A i \in 1..(r + Len(s)) : x[i] = y[i]
    <3> TAKE i \in 1..(r + Len(s))
    <3>1. CASE i \in 1..r
      BY <1>1, <1>7, <1>8, <3>1
    <3>2. CASE i \notin 1..r
      <4>1. PICK k \in 1..Len(s) : i = r + k
        <5>1. i - r \in 1..Len(s) /\ i = r + (i - r)
          BY <3>2
        <5> QED
          BY <5>1
      <4> QED
        BY <1>6, <1>7, <1>8, <4>1
    <3> QED
      BY <3>1, <3>2
  <2>2. Len(x) = Len(y)
    BY <1>7, <1>8
  <2> QED
    BY <1>7, <1>8, <2>1, <2>2, SeqEqual
<1> QED
  BY <1>6, <1>9 DEF x, y

\* An RX_RDY carries the bytes of the current buffer that come next.
LEMMA ReadyFacts ==
  ASSUME Client!SInv, evt.type = "RX_RDY"
  PROVE  /\ Span \in Seq(Nat) /\ evt.len \in Nat /\ Len(Span) = evt.len
         /\ evt.offset \in Nat /\ evt.buf \in Held /\ evt.buf \in Buffers
         /\ evt.offset + evt.len <= BufLen[evt.buf]
         /\ GoesOn(accepted, Reported, Span)
<1>1. /\ evt.offset \in Nat /\ evt.len \in Nat /\ evt.buf \in Buffers /\ evt.buf = current_buf
      /\ evt.offset + evt.len <= BufLen[evt.buf] /\ current_buf # NULL
      /\ accepted = Reported \o Unreported
  BY DriverFacts, BufferAssumption
     DEF UartTypeOK, HandlerTypeOK, DriverTypeOK, Events, BufferAssumption
<1>2. /\ Client!InCallback \in Seq(Nat) /\ Client!InBuffer \in Seq(Nat)
      /\ Unreported = Client!InCallback \o Client!InBuffer
  <2>1. Client!IInv
    BY DEF Client!SInv, Client!DInv
  <2> QED
    BY <2>1, BufferAssumption, Client!PartsType, Client!UnreportedParts, SameSteps
<1>3. Span = Client!InCallback
  BY SameSteps DEF Client!InCallback
<1>4. Len(Span) = evt.len
  BY <1>1 DEF Span
<1>5. current_buf \in Held
  BY <1>1 DEF Held
<1> QED
  BY <1>1, <1>2, <1>3, <1>4, <1>5 DEF GoesOn

\* The bytes of x come in a right after the first r.
Follows(x, a, r) == \A i \in 1..Len(x) : x[i] = a[r + i]

\* Later bytes extend what is kept of earlier ones.
LEMMA KeptExtends ==
  ASSUME NEW a \in Seq(Nat), NEW s \in Seq(Nat), NEW x \in Seq(Nat),
         NEW r \in Nat, NEW m \in Nat, r + m <= Len(a), Len(x) <= m,
         Ascending(a), Ascending(s),
         Among(s, a, r), Follows(x, a, r)
  PROVE  Ascending(s \o x) /\ Among(s \o x, a, r + m)
<1> DEFINE y == s \o x
<1>1. /\ Len(y) = Len(s) + Len(x)
      /\ \A i \in 1..Len(s) : y[i] = s[i]
      /\ \A i \in 1..Len(x) : y[Len(s) + i] = x[i]
  BY Joined, Zenon
<1> HIDE DEF y
<1>2. ASSUME NEW i \in 1..Len(y)
      PROVE  i \in 1..Len(s) \/ \E k \in 1..Len(x) : i = Len(s) + k
  <2>1. CASE i \notin 1..Len(s)
    <3>1. i - Len(s) \in 1..Len(x) /\ i = Len(s) + (i - Len(s))
      BY <1>1, <2>1
    <3> QED
      BY <3>1
  <2> QED
    BY <2>1
<1>3. ASSUME NEW i \in 1..Len(x)
      PROVE  y[Len(s) + i] = a[r + i] /\ r + i \in 1..(r + m) /\ r + i \in 1..Len(a)
  BY <1>1 DEF Follows
<1>4. ASSUME NEW i \in 1..Len(s)
      PROVE  y[i] = s[i] /\ \E k \in 1..r : y[i] = a[k] /\ k \in 1..Len(a)
  <2>1. \A k \in 1..r : k \in 1..Len(a)
    OBVIOUS
  <2> QED
    BY <1>1, <2>1 DEF Among
<1>5. Ascending(y)
  <2> SUFFICES ASSUME NEW i \in 1..Len(y), NEW j \in 1..Len(y), i < j
               PROVE  y[i] < y[j]
    BY DEF Ascending
  <2>1. CASE i \in 1..Len(s) /\ j \in 1..Len(s)
    BY <1>4, <2>1 DEF Ascending
  <2>2. ASSUME i \in 1..Len(s), NEW q \in 1..Len(x), j = Len(s) + q
        PROVE  y[i] < y[j]
    <3>1. PICK k \in 1..r : y[i] = a[k] /\ k \in 1..Len(a)
      BY <1>4, <2>2
    <3>2. y[j] = a[r + q] /\ r + q \in 1..Len(a)
      BY <1>3, <2>2
    <3>3. k < r + q
      OBVIOUS
    <3>4. a[k] < a[r + q]
      BY <3>1, <3>2, <3>3 DEF Ascending
    <3> QED
      BY <3>1, <3>2, <3>4
  <2>3. ASSUME NEW p \in 1..Len(x), i = Len(s) + p, NEW q \in 1..Len(x), j = Len(s) + q
        PROVE  y[i] < y[j]
    <3>1. /\ y[i] = a[r + p] /\ y[j] = a[r + q]
          /\ r + p \in 1..Len(a) /\ r + q \in 1..Len(a)
      BY <1>3, <2>3
    <3>2. r + p < r + q
      BY <2>3
    <3>3. a[r + p] < a[r + q]
      BY <3>1, <3>2 DEF Ascending
    <3> QED
      BY <3>1, <3>3
  <2>4. ~(j \in 1..Len(s) /\ i \notin 1..Len(s))
    BY <1>1
  <2> QED
    BY <1>2, <2>1, <2>2, <2>3, <2>4
<1>6. ASSUME NEW i \in 1..Len(y)
      PROVE  \E k \in 1..(r + m) : y[i] = a[k]
  <2>1. 1..r \subseteq 1..(r + m)
    OBVIOUS
  <2>2. CASE i \in 1..Len(s)
    BY <1>4, <2>1, <2>2
  <2>3. ASSUME NEW k \in 1..Len(x), i = Len(s) + k
        PROVE  \E q \in 1..(r + m) : y[i] = a[q]
    BY <1>3, <2>3
  <2> QED
    BY <1>2, <2>2, <2>3
<1> QED
  BY <1>5, <1>6 DEF y, Among

\* A callback that keeps the bytes and the counters as they are.
LEMMA CountsKept ==
  ASSUME Counts, Traced,
         UNCHANGED <<accepted, ring, countVars, pc, n, g_total_read, consumed>>
  PROVE  Counts' /\ Traced'
<1>1. UNCHANGED <<bytes_received, bytes_buffered, bytes_read, dropped_bytes>>
  BY DEF countVars
<1>2. (consumed \o ring)' = consumed \o ring /\ accepted' = accepted
  OBVIOUS
<1>3. Counts'
  BY <1>1 DEF Counts
<1> QED
  BY <1>1, <1>2, <1>3 DEF Traced, Ascending, Among

\* The manager is told of received bytes (rx_manager_callback).
LEMMA ReadyStep == ManagerInv /\ OnReady => ManagerInv'
<1> SUFFICES ASSUME ManagerInv, OnReady
             PROVE  ManagerInv'
  OBVIOUS
<1> DEFINE copied == ring_buf_put(evt.len)
           x == SubSeq(Span, 1, copied)
           all == consumed \o ring
<1>0. /\ Client!SInv /\ ManagerTypeOK /\ ManagerTracks /\ Counts /\ Traced
      /\ evt.type = "RX_RDY" /\ evt' = NoEvent /\ evt # NoEvent /\ NoEvent.type = "NONE"
  BY DriverFacts DEF ManagerInv, OnReady, On
<1>1. /\ Span \in Seq(Nat) /\ evt.len \in Nat /\ Len(Span) = evt.len
      /\ evt.offset \in Nat /\ evt.buf \in Held /\ evt.buf \in Buffers
      /\ evt.offset + evt.len <= BufLen[evt.buf]
      /\ GoesOn(accepted, Reported, Span)
  BY <1>0, ReadyFacts
<1>2. isr # "off" /\ pc \notin Starting
  BY <1>0, InCallback
<1>3. /\ evt.buf \in Buffers /\ driver_owned[evt.buf]
      /\ evt.offset <= RX_DRIVER_SIZE /\ evt.len <= RX_DRIVER_SIZE - evt.offset
  <2>1. BufLen[evt.buf] = RX_DRIVER_SIZE /\ RX_DRIVER_SIZE \in Nat
    BY <1>1, ManagerAssumption DEF ManagerAssumption
  <2>2. driver_owned[evt.buf]
    BY <1>0, <1>1, <1>2 DEF ManagerTracks, Starting
  <2> QED
    BY <1>1, <2>1, <2>2
<1>4. /\ ring' = ring \o x
      /\ bytes_received' = bytes_received + evt.len
      /\ bytes_buffered' = bytes_buffered + copied
      /\ dropped_bytes' = dropped_bytes + (evt.len - copied)
      /\ UNCHANGED last_error
  BY <1>3 DEF OnReady
<1>5. /\ UNCHANGED <<driver_owned, enabled, bytes_read, drvVars, uartVars, isr, held_next, mem>>
      /\ UNCHANGED <<accepted, pc, n, g_total_read, consumed>>
  BY DEF OnReady, handlerFrame, mainVars
<1>6. copied \in Nat /\ copied <= evt.len /\ copied <= RX_RING_SIZE - Len(ring)
  <2>1. Len(ring) \in Nat /\ RX_RING_SIZE \in Nat /\ Len(ring) <= RX_RING_SIZE
    BY <1>0, ManagerAssumption DEF ManagerAssumption, ManagerTypeOK, Counts
  <2> QED
    BY <1>1, <2>1 DEF ring_buf_put, AtMost
<1>7. x \in Seq(Nat) /\ Len(x) = copied /\ \A i \in 1..copied : x[i] = Span[i]
  BY <1>1, <1>6, Cut, Zenon
<1> HIDE DEF copied, x
<1>8. accepted \in Seq(Nat) /\ bytes_received \in Nat /\ bytes_received <= Len(accepted)
  BY <1>0, DriverFacts DEF UartTypeOK, MemoryTypeOK, Counts, ManagerTypeOK
<1>9. /\ bytes_received + evt.len <= Len(accepted)
      /\ SubSeq(accepted, 1, bytes_received + evt.len) = Reported \o Span
      /\ \A i \in 1..evt.len : accepted[bytes_received + i] = Span[i]
  <2>1. /\ Reported = SubSeq(accepted, 1, bytes_received) /\ Span \in Seq(Nat)
        /\ GoesOn(accepted, Reported, Span)
    BY <1>1 DEF Reported
  <2>2. /\ bytes_received + Len(Span) <= Len(accepted)
        /\ SubSeq(accepted, 1, bytes_received + Len(Span)) = Reported \o Span
        /\ \A i \in 1..Len(Span) : accepted[bytes_received + i] = Span[i]
    BY <1>8, <2>1, ReportedGrows, Zenon
  <2>3. Len(Span) = evt.len
    BY <1>1
  <2> QED
    BY <2>2, <2>3, Zenon
<1>10. Client!SInv' /\ Asking' /\ Held' = Held
  <2>1. Reported' = Reported \o Span
    BY <1>4, <1>5, <1>9 DEF Reported
  <2> QED
    BY <1>0, <1>5, <2>1, CallbackStep
<1>11. ManagerTracks' /\ Quiet'
  <2>1. state' = state /\ evt'.type = "NONE"
    BY <1>0, <1>5 DEF drvVars
  <2> QED
    BY <1>0, <1>2, <1>4, <1>5, <1>10, <2>1 DEF ManagerTracks, Quiet, Starting
<1>12. ManagerTypeOK' /\ Counts'
  <2>1. ring \in Seq(Nat) /\ ring' \in Seq(Nat) /\ Len(ring') = Len(ring) + copied
    BY <1>0, <1>4, <1>7, Joined, Zenon DEF ManagerTypeOK
  <2>2. Len(ring) \in Nat /\ RX_RING_SIZE \in Nat
    BY <2>1, ManagerAssumption DEF ManagerAssumption
  <2>3. ManagerTypeOK'
    <3>1. /\ bytes_received \in Nat /\ bytes_buffered \in Nat /\ dropped_bytes \in Nat
          /\ evt.len \in Nat /\ copied \in Nat /\ copied <= evt.len
      BY <1>0, <1>1, <1>6 DEF ManagerTypeOK
    <3>2. /\ bytes_received + evt.len \in Nat /\ bytes_buffered + copied \in Nat
          /\ dropped_bytes + (evt.len - copied) \in Nat
      BY <3>1
    <3> QED
      BY <1>0, <1>4, <1>5, <2>1, <3>2 DEF ManagerTypeOK
  <2>4. Len(consumed) \in Nat /\ Len(consumed') = Len(consumed) /\ Len(accepted') = Len(accepted)
    BY <1>0, <1>5 DEF ManagerTypeOK
  <2>5. /\ bytes_received \in Nat /\ bytes_buffered \in Nat /\ dropped_bytes \in Nat
        /\ bytes_read \in Nat /\ evt.len \in Nat
    BY <1>0, <1>1 DEF ManagerTypeOK
  <2>6. /\ bytes_received = bytes_buffered + dropped_bytes
        /\ bytes_buffered = bytes_read + Len(ring)
        /\ bytes_read = Len(consumed)
        /\ bytes_read = g_total_read + IF pc = "account" THEN n ELSE 0
    BY <1>0 DEF Counts
  <2>7. /\ bytes_received + evt.len
             = (bytes_buffered + copied) + (dropped_bytes + (evt.len - copied))
        /\ bytes_buffered + copied = bytes_read + (Len(ring) + copied)
        /\ Len(ring) + copied <= RX_RING_SIZE
    <3>1. Len(ring) \in Nat /\ copied \in Nat /\ copied <= RX_RING_SIZE - Len(ring)
      BY <1>6, <2>2
    <3>2. Len(ring) + copied <= RX_RING_SIZE
      BY <2>2, <3>1
    <3>3. bytes_buffered + copied = bytes_read + (Len(ring) + copied)
      BY <2>5, <2>6, <3>1
    <3>4. copied <= evt.len
      BY <1>6
    <3>5. bytes_received + evt.len
            = (bytes_buffered + copied) + (dropped_bytes + (evt.len - copied))
      BY <2>5, <2>6, <3>1, <3>4
    <3> QED
      BY <3>2, <3>3, <3>5
  <2>8. Counts'
    BY <1>4, <1>5, <1>9, <2>1, <2>4, <2>6, <2>7 DEF Counts
  <2> QED
    BY <2>3, <2>8
<1>13. Traced'
  <2>1. all \in Seq(Nat)
    BY <1>0 DEF ManagerTypeOK
  <2>2. Follows(x, accepted, bytes_received)
    <3> SUFFICES \A i \in 1..Len(x) : x[i] = accepted[bytes_received + i]
      BY DEF Follows
    <3> TAKE i \in 1..Len(x)
    <3>1. i \in 1..copied /\ i \in 1..evt.len
      BY <1>1, <1>6, <1>7
    <3> QED
      BY <1>7, <1>9, <3>1, Zenon
  <2>3. /\ Ascending(accepted) /\ Ascending(all)
        /\ Among(all, accepted, bytes_received)
    BY <1>0 DEF Traced
  <2>4. (consumed \o ring)' = all \o x
    <3>1. consumed \in Seq(Nat) /\ ring \in Seq(Nat)
      BY <1>0 DEF ManagerTypeOK
    <3>2. (consumed \o ring) \o x = consumed \o (ring \o x)
      BY <1>7, <3>1, JoinedThree, Zenon
    <3> QED
      BY <1>4, <1>5, <3>2
  <2> HIDE DEF all
  <2>5. /\ Ascending(all \o x)
        /\ Among(all \o x, accepted, bytes_received + evt.len)
    <3>1. x \in Seq(Nat) /\ Len(x) <= evt.len /\ evt.len \in Nat
      BY <1>1, <1>6, <1>7
    <3>2. bytes_received + evt.len <= Len(accepted)
      BY <1>9
    <3> QED
      BY <1>8, <2>1, <2>2, <2>3, <3>1, <3>2, KeptExtends, Zenon
  <2> QED
    BY <1>4, <1>5, <2>3, <2>4, <2>5 DEF Traced, Ascending, Among
<1> QED
  BY <1>10, <1>11, <1>12, <1>13 DEF ManagerInv

\* The manager is told that a buffer is released.
LEMMA ReleasedStep == ManagerInv /\ OnReleased => ManagerInv'
<1> SUFFICES ASSUME ManagerInv, OnReleased
             PROVE  ManagerInv'
  OBVIOUS
<1>0. /\ Client!SInv /\ ManagerTypeOK /\ ManagerTracks /\ Counts /\ Traced
      /\ evt.type = "RX_BUF_RELEASED" /\ evt' = NoEvent /\ evt # NoEvent
      /\ NoEvent.type = "NONE"
  BY DriverFacts DEF ManagerInv, OnReleased, On
<1>1. pc \notin Starting
  BY <1>0, InCallback
<1>2. evt.buf \in Buffers /\ evt.buf \in Held
  <2>1. evt.buf # NULL /\ UartTypeOK
    BY <1>0, DriverFacts
  <2> QED
    BY <1>0, <2>1 DEF UartTypeOK, HandlerTypeOK, Events, Held
<1>3. driver_owned' = [driver_owned EXCEPT ![evt.buf] = FALSE] /\ UNCHANGED last_error
  BY <1>0, <1>1, <1>2 DEF OnReleased, ManagerTracks, Starting
<1>4. /\ UNCHANGED <<ring, enabled, countVars, drvVars, uartVars, isr, held_next, mem>>
      /\ UNCHANGED <<accepted, pc, n, g_total_read, consumed>>
  BY DEF OnReleased, handlerFrame, mainVars
<1>5. Client!SInv' /\ Asking' /\ Held' = Held \ {evt.buf}
  <2>1. Reported' = Reported
    BY <1>4 DEF Reported, countVars
  <2> QED
    BY <1>0, <1>4, <2>1, CallbackStep
<1>6. ManagerTracks' /\ Quiet'
  <2>1. state' = state /\ evt'.type = "NONE"
    BY <1>0, <1>4 DEF drvVars
  <2>2. \A i \in Buffers : driver_owned'[i] <=> i \in Held'
    BY <1>0, <1>1, <1>3, <1>5 DEF ManagerTracks, ManagerTypeOK, Starting
  <2> QED
    BY <1>0, <1>1, <1>3, <1>4, <2>1, <2>2 DEF ManagerTracks, Quiet, Starting
<1>7. ManagerTypeOK'
  BY <1>0, <1>3, <1>4 DEF ManagerTypeOK, countVars
<1> QED
  BY <1>0, <1>4, <1>5, <1>6, <1>7, CountsKept DEF ManagerInv

\* The manager is told that reception is disabled.
LEMMA DisabledStep == ManagerInv /\ OnDisabled => ManagerInv'
<1> SUFFICES ASSUME ManagerInv, OnDisabled
             PROVE  ManagerInv'
  OBVIOUS
<1>0. /\ Client!SInv /\ ManagerTypeOK /\ ManagerTracks /\ Counts /\ Traced
      /\ evt.type = "RX_DISABLED" /\ evt' = NoEvent /\ evt # NoEvent
      /\ NoEvent.type = "NONE" /\ state = "IDLE"
  BY DriverFacts DEF ManagerInv, OnDisabled, On, Asking
<1>1. pc \notin Starting
  BY <1>0, InCallback
<1>2. /\ UNCHANGED <<driver_owned, ring, countVars, last_error, drvVars, uartVars, isr>>
      /\ UNCHANGED <<held_next, mem, accepted, pc, n, g_total_read, consumed>>
      /\ enabled' = FALSE
  BY DEF OnDisabled, handlerFrame, mainVars
<1>3. Client!SInv' /\ Asking' /\ Held' = Held
  <2>1. Reported' = Reported
    BY <1>2 DEF Reported, countVars
  <2> QED
    BY <1>0, <1>2, <2>1, CallbackStep
<1>4. ManagerTracks' /\ Quiet'
  <2>1. state' = state /\ evt'.type = "NONE"
    BY <1>0, <1>2 DEF drvVars
  <2> QED
    BY <1>0, <1>1, <1>2, <1>3, <2>1 DEF ManagerTracks, Quiet, Starting
<1>5. ManagerTypeOK'
  BY <1>0, <1>2 DEF ManagerTypeOK, countVars
<1> QED
  BY <1>0, <1>2, <1>3, <1>4, <1>5, CountsKept DEF ManagerInv

\* The manager is told that reception has stopped.
LEMMA StoppedStep == ManagerInv /\ OnStopped => ManagerInv'
<1> SUFFICES ASSUME ManagerInv, OnStopped
             PROVE  ManagerInv'
  OBVIOUS
<1>0. /\ Client!SInv /\ ManagerTypeOK /\ ManagerTracks /\ Counts /\ Traced
      /\ evt.type = "RX_STOPPED" /\ evt' = NoEvent /\ evt # NoEvent
      /\ NoEvent.type = "NONE"
  BY DriverFacts DEF ManagerInv, OnStopped, On
<1>1. pc \notin Starting
  BY <1>0, InCallback
<1>2. /\ UNCHANGED <<driver_owned, ring, enabled, countVars, drvVars, uartVars, isr>>
      /\ UNCHANGED <<held_next, mem, accepted, pc, n, g_total_read, consumed>>
      /\ last_error' = "EIO"
  BY DEF OnStopped, handlerFrame, mainVars
<1>3. Client!SInv' /\ Asking' /\ Held' = Held
  <2>1. Reported' = Reported
    BY <1>2 DEF Reported, countVars
  <2> QED
    BY <1>0, <1>2, <2>1, CallbackStep
<1>4. ManagerTracks' /\ Quiet'
  <2>1. state' = state /\ evt'.type = "NONE"
    BY <1>0, <1>2 DEF drvVars
  <2> QED
    BY <1>0, <1>1, <1>2, <1>3, <2>1 DEF ManagerTracks, Quiet, Starting
<1>5. ManagerTypeOK'
  BY <1>0, <1>2 DEF ManagerTypeOK, countVars
<1> QED
  BY <1>0, <1>2, <1>3, <1>4, <1>5, CountsKept DEF ManagerInv

\* A buffer is always found for the driver, and it is not the current one.
LEMMA BufferFound ==
  ASSUME ManagerInv, evt.type = "RX_BUF_REQUEST"
  PROVE  /\ ~ \A i \in Buffers : driver_owned[i]
         /\ \A i \in Buffers : ~driver_owned[i] => RxBufRspRet(i) = "OK" /\ i \notin Held
         /\ \E i \in Buffers : ~driver_owned[i] /\ \A j \in Buffers : j < i => driver_owned[j]
<1>0. /\ Client!SInv /\ ManagerTypeOK /\ ManagerTracks /\ UartTypeOK
      /\ isr \in {"first_request", "requested"}
      /\ state = "ACTIVE" /\ next_buf = NULL /\ request_outstanding
      /\ held_next = NULL /\ evt # NoEvent
  BY DriverFacts DEF ManagerInv, Asking
<1>1. pc \notin Starting
  BY <1>0, InCallback
<1>2. \A i \in Buffers : driver_owned[i] <=> i \in Held
  BY <1>0, <1>1 DEF ManagerTracks, Starting
<1>3. Held \subseteq {current_buf}
  BY <1>0 DEF Held
<1>4. NULL \notin Buffers /\ 0 \in Buffers /\ 1 \in Buffers /\ Buffers \subseteq Nat
  BY ManagerAssumption, BufferAssumption DEF ManagerAssumption, BufferAssumption
<1>5. \A i \in Buffers : ~driver_owned[i] => RxBufRspRet(i) = "OK" /\ i \notin Held
  <2> TAKE i \in Buffers
  <2> HAVE ~driver_owned[i]
  <2>1. i \notin Held /\ i # NULL
    BY <1>2, <1>4
  <2>2. current_buf # NULL => current_buf \in Held
    BY DEF Held
  <2> QED
    BY <1>0, <2>1, <2>2 DEF RxBufRspRet
<1>6. \E i \in Buffers : ~driver_owned[i] /\ \A j \in Buffers : j < i => driver_owned[j]
  <2>1. CASE ~driver_owned[0]
    BY <1>4, <2>1
  <2>2. CASE driver_owned[0]
    <3>1. ~driver_owned[1]
      BY <1>2, <1>3, <1>4, <2>2
    <3>2. \A j \in Buffers : j < 1 => j = 0
      BY <1>4
    <3> QED
      BY <1>4, <2>2, <3>1, <3>2
  <2> QED
    BY <2>1, <2>2
<1> QED
  BY <1>5, <1>6

\* Two calls of the driver's client in one: it lends the buffer it was asked
\* for, and the callback returns.
LEMMA RequestStep == ManagerInv /\ OnRequest => ManagerInv'
<1> SUFFICES ASSUME ManagerInv, OnRequest
             PROVE  ManagerInv'
  OBVIOUS
<1>0. /\ Client!SInv /\ ManagerTypeOK /\ Asking /\ ManagerTracks /\ Counts /\ Traced
      /\ evt.type = "RX_BUF_REQUEST" /\ evt' = NoEvent /\ evt # NoEvent
      /\ NoEvent.type = "NONE" /\ UartTypeOK /\ NoEvent \in Events
  BY DriverFacts DEF ManagerInv, OnRequest, On
<1>1. /\ isr \in {"first_request", "requested"} /\ state = "ACTIVE"
      /\ next_buf = NULL /\ request_outstanding
  BY <1>0 DEF Asking
<1>2. pc \notin Starting
  BY <1>0, InCallback
<1> DEFINE available == CHOOSE i \in Buffers :
             /\ ~driver_owned[i]
             /\ \A j \in Buffers : j < i => driver_owned[j]
<1>3. available \in Buffers /\ ~driver_owned[available]
  BY <1>0, BufferFound
<1>4. RxBufRspRet(available) = "OK" /\ available \notin Held
  BY <1>0, <1>3, BufferFound
<1>5. /\ RxBufRsp(available)
      /\ driver_owned' = [driver_owned EXCEPT ![available] = TRUE]
      /\ UNCHANGED <<last_error, mainVars, dbgVars>>
      /\ UNCHANGED <<ring, enabled, countVars>>
  <2>1. ~ \A i \in Buffers : driver_owned[i]
    BY <1>0, BufferFound
  <2> QED
    BY <1>4, <2>1 DEF OnRequest
<1>6. PICK b : b = available
  OBVIOUS
<1> HIDE DEF available
<1>7. /\ b \in Buffers /\ ~driver_owned[b] /\ b \notin Held
      /\ driver_owned' = [driver_owned EXCEPT ![b] = TRUE]
      /\ next_buf' = b /\ request_outstanding' = FALSE
      /\ UNCHANGED <<callback, state, initial_request, current_buf, current_pos, reported>>
      /\ UNCHANGED <<rxen, rxbf, rxor, data, pending, sent, isr, held_next, mem, accepted>>
      /\ UNCHANGED <<pc, n, g_total_read, consumed>>
  BY <1>3, <1>4, <1>5, <1>6 DEF RxBufRsp, uartVars, mainVars
<1>8. Held' = Held \cup {b} /\ b # NULL
  BY <1>0, <1>1, <1>7, BufferAssumption DEF Held, BufferAssumption
<1>9. Client!SInv'
  <2>0. /\ Client!DInv /\ Client!IInv /\ Client!TypeOK /\ Client!Control /\ Client!Distinct
        /\ Client!Bounds /\ Client!Ownership /\ Client!Reports /\ Client!Numbered
    BY <1>0 DEF Client!SInv, Client!DInv, Client!IInv
  <2>1. Reported' = Reported
    BY <1>5, <1>7 DEF Reported, countVars
  <2>2. Client!TypeOK'
    <3>1. evt' \in Client!Events
      BY <1>0 DEF Events, EventTypes, Client!Events, Client!EventTypes
    <3>2. Client!UartTypeOK'
      BY <1>7, <2>0, <3>1
         DEF Client!TypeOK, Client!UartTypeOK, Client!RegsTypeOK, Client!DriverTypeOK,
             Client!HandlerTypeOK, Client!MemoryTypeOK
    <3> QED
      BY <1>7, <1>8, <2>0, <2>1, <3>2 DEF Client!TypeOK
  <2>3. Client!Control'
    BY <1>0, <1>1, <1>7, <2>0
       DEF Client!Control, Client!Finishing, Client!Dropped
  <2>4. Client!Distinct'
    BY <1>0, <1>7, <2>0 DEF Client!Distinct, Held
  <2>5. Client!Bounds'
    BY <1>0, <1>7, <2>0 DEF Client!Bounds
  <2>6. Client!Ownership'
    BY DEF Client!Ownership, Held, Client!Held
  <2>7. Client!IInv'
    BY <2>2, <2>3, <2>4, <2>5, <2>6 DEF Client!IInv
  <2>8. Client!Reports'
    BY <1>0, <1>7, <2>0 DEF Client!Reports
  <2>9. Client!DInv'
    BY <1>0, <1>7, <2>0, <2>1, <2>7, <2>8, BufferAssumption, Client!FrameStep
  <2>10. Client!Numbered'
    BY <1>7, <2>0 DEF Client!Numbered
  <2> QED
    BY <2>9, <2>10 DEF Client!SInv
<1>10. ManagerTracks'
  <2>1. \A i \in Buffers : driver_owned'[i] <=> i \in Held'
    BY <1>0, <1>2, <1>7, <1>8 DEF ManagerTracks, ManagerTypeOK, Starting
  <2> QED
    BY <1>0, <1>1, <1>2, <1>5, <1>7, <2>1 DEF ManagerTracks, Starting
<1>11. ManagerTypeOK' /\ Asking' /\ Quiet'
  BY <1>0, <1>2, <1>5, <1>7 DEF ManagerTypeOK, Asking, Quiet, countVars
<1> QED
  BY <1>0, <1>5, <1>7, <1>9, <1>10, <1>11, CountsKept DEF ManagerInv

-----------------------------------------------------------------------------
(* The main thread and the debugger. *)

\* Reading the ring, polling and what the debugger does leave the driver and
\* the manager's books on it alone.
LEMMA MainIdle ==
  ASSUME ManagerInv, pc \notin Starting, pc' \notin Starting,
         UNCHANGED <<vars, driver_owned, enabled, bytes_received, last_error>>
  PROVE  Client!SInv' /\ Asking' /\ Quiet' /\ ManagerTracks'
<1>0. Client!SInv /\ Asking /\ ManagerTracks
  BY DEF ManagerInv
<1>1. /\ UNCHANGED <<rxen, rxbf, rxor, data, pending, sent, callback, state, initial_request>>
      /\ UNCHANGED <<request_outstanding, current_buf, current_pos, reported, next_buf, isr>>
      /\ UNCHANGED <<evt, held_next, mem, accepted>>
  BY DEF vars, uartVars, drvVars
<1>2. Held' = Held /\ Reported' = Reported
  BY <1>1 DEF Held, Reported
<1>3. UNCHANGED Client!allVars
  BY <1>1, <1>2
     DEF Client!allVars, Client!vars, Client!uartVars, Client!drvVars, Client!clientVars
<1>4. Client!SInv'
  BY <1>0, <1>3, ClientStep
<1> QED
  BY <1>0, <1>1, <1>2, <1>4 DEF Asking, Quiet, ManagerTracks, Starting

\* rx_manager_init registers the callback.
LEMMA InitCallbackStep == ManagerInv /\ InitCallback => ManagerInv'
<1> SUFFICES ASSUME ManagerInv, InitCallback
             PROVE  ManagerInv'
  OBVIOUS
<1>0. /\ Client!SInv /\ ManagerTypeOK /\ Asking /\ Quiet /\ Counts /\ Traced
      /\ pc = "callback_set" /\ pc' = "lend" /\ isr = "off" /\ CallbackSet(TRUE)
      /\ UNCHANGED <<evt, mgrVars, n, g_total_read, consumed>>
  BY DEF ManagerInv, InitCallback, At
<1>1. /\ callback' = TRUE
      /\ UNCHANGED <<state, current_buf, next_buf, held_next, isr, accepted>>
      /\ UNCHANGED <<pending, rxen, request_outstanding>>
  BY <1>0 DEF CallbackSet, uartVars
<1>2. UNCHANGED <<driver_owned, ring, enabled, countVars, last_error, bytes_received>>
  BY <1>0 DEF mgrVars, countVars
<1>3. Held' = Held /\ Reported' = Reported
  BY <1>0, <1>1, <1>2 DEF Held, Reported
<1>4. Client!SInv'
  <2>1. Client!CanCall /\ UNCHANGED <<evt, Client!clientVars>>
    BY <1>0, <1>3 DEF Client!CanCall, Client!clientVars
  <2>2. Client!CallbackSet(TRUE)
    BY <1>0
       DEF CallbackSet, Client!CallbackSet, CallbackSetRet, Client!CallbackSetRet, in_callback,
           Client!in_callback, NoEvent, Client!NoEvent, Event, Client!Event, uartVars,
           Client!uartVars
  <2>3. Client!Set(TRUE)
    BY <2>1, <2>2 DEF Client!Set
  <2> QED
    BY <1>0, <2>3, ClientStep DEF Client!Next, Client!Call
<1>5. ManagerTypeOK' /\ Asking'
  BY <1>0, <1>1, <1>2 DEF ManagerTypeOK, PcSteps, Starting, Asking, countVars
<1>6. Quiet' /\ ManagerTracks'
  BY <1>0, <1>1, <1>2, <1>3 DEF Quiet, ManagerTracks, Starting
<1>7. Counts' /\ Traced'
  <2>1. (consumed \o ring)' = consumed \o ring
    BY <1>0, <1>2
  <2> QED
    BY <1>0, <1>1, <1>2, <2>1 DEF Counts, Traced, Ascending, Among, countVars
<1> QED
  BY <1>4, <1>5, <1>6, <1>7 DEF ManagerInv

\* rx_manager_init gives the first buffer to the driver.
LEMMA InitLendStep == ManagerInv /\ InitLend => ManagerInv'
<1> SUFFICES ASSUME ManagerInv, InitLend
             PROVE  ManagerInv'
  OBVIOUS
<1>0. /\ Client!SInv /\ ManagerTypeOK /\ Asking /\ Quiet /\ Counts /\ Traced
      /\ pc = "lend" /\ pc' = "rx_enable" /\ enabled' = TRUE
      /\ driver_owned' = [driver_owned EXCEPT ![0] = TRUE]
      /\ UNCHANGED <<ring, countVars, last_error, n, g_total_read, consumed, vars>>
  BY DEF ManagerInv, InitLend, At
<1>1. /\ UNCHANGED <<rxen, rxbf, rxor, data, pending, sent, callback, state, initial_request>>
      /\ UNCHANGED <<request_outstanding, current_buf, current_pos, reported, next_buf, isr>>
      /\ UNCHANGED <<evt, held_next, mem, accepted, bytes_received>>
  BY <1>0 DEF vars, uartVars, drvVars, countVars
<1>2. Held' = Held /\ Reported' = Reported
  BY <1>1 DEF Held, Reported
<1>3. Client!SInv'
  <2>1. UNCHANGED Client!allVars
    BY <1>1, <1>2
       DEF Client!allVars, Client!vars, Client!uartVars, Client!drvVars, Client!clientVars
  <2> QED
    BY <1>0, <2>1, ClientStep
<1>4. 0 \in Buffers
  BY ManagerAssumption DEF ManagerAssumption
<1>5. ManagerTypeOK' /\ Asking'
  BY <1>0, <1>1, <1>4 DEF ManagerTypeOK, PcSteps, Starting, Asking, countVars
<1>6. Quiet' /\ ManagerTracks'
  BY <1>0, <1>1, <1>2, <1>4 DEF Quiet, ManagerTracks, Starting, ManagerTypeOK
<1>7. Counts' /\ Traced'
  <2>1. (consumed \o ring)' = consumed \o ring
    BY <1>0
  <2> QED
    BY <1>0, <1>1, <2>1 DEF Counts, Traced, Ascending, Among, countVars
<1> QED
  BY <1>3, <1>5, <1>6, <1>7 DEF ManagerInv

\* rx_manager_init enables reception into the first buffer.
LEMMA InitEnableStep == ManagerInv /\ InitEnable => ManagerInv'
<1> SUFFICES ASSUME ManagerInv, InitEnable
             PROVE  ManagerInv'
  OBVIOUS
<1>0. /\ Client!SInv /\ ManagerTypeOK /\ Quiet /\ Counts /\ Traced
      /\ pc = "rx_enable" /\ pc' = "poll" /\ isr = "off" /\ RxEnable(0)
      /\ UNCHANGED <<evt, mgrVars, n, g_total_read, consumed>>
      /\ evt = NoEvent /\ NoEvent.type = "NONE" /\ held_next = NULL
  BY DriverFacts DEF ManagerInv, InitEnable, At
<1>1. /\ current_buf' = 0 /\ next_buf' = NULL /\ state' = "ACTIVE"
      /\ UNCHANGED <<held_next, isr, accepted>>
  BY <1>0 DEF RxEnable
<1>2. UNCHANGED <<driver_owned, ring, enabled, countVars, last_error, bytes_received>>
  BY <1>0 DEF mgrVars, countVars
<1>3. 0 \in Buffers /\ 0 # NULL
  BY ManagerAssumption, BufferAssumption DEF ManagerAssumption, BufferAssumption
<1>4. Held = {} /\ Held' = {0} /\ Reported' = Reported
  BY <1>0, <1>1, <1>2, <1>3 DEF Held, Reported, Quiet, Starting
<1>5. Client!SInv'
  <2>1. Client!CanCall /\ Held' = Held \cup {0}
    BY <1>0, <1>4 DEF Client!CanCall
  <2>2. Client!RxEnable(0)
    BY <1>0 DEF RxEnable, Client!RxEnable, RxEnableRet, Client!RxEnableRet
  <2>3. Client!Enable(0)
    BY <1>0, <1>4, <2>1, <2>2 DEF Client!Enable
  <2> QED
    BY <1>0, <1>3, <2>3, ClientStep DEF Client!Next, Client!Call
<1>6. ManagerTypeOK' /\ Asking' /\ Quiet'
  BY <1>0, <1>1, <1>2 DEF ManagerTypeOK, PcSteps, Starting, Asking, Quiet, countVars
<1>7. ManagerTracks'
  BY <1>0, <1>1, <1>2, <1>3, <1>4 DEF Quiet, ManagerTracks, Starting
<1>8. Counts' /\ Traced'
  <2>1. (consumed \o ring)' = consumed \o ring
    BY <1>0, <1>2
  <2> QED
    BY <1>0, <1>1, <1>2, <2>1 DEF Counts, Traced, Ascending, Among, countVars
<1> QED
  BY <1>5, <1>6, <1>7, <1>8 DEF ManagerInv

\* The main loop disables reception; the driver may refuse.
LEMMA DisableStep == ManagerInv /\ CallDisable => ManagerInv'
<1> SUFFICES ASSUME ManagerInv, CallDisable
             PROVE  ManagerInv'
  OBVIOUS
<1>0. /\ Client!SInv /\ ManagerTypeOK /\ ManagerTracks /\ Counts /\ Traced
      /\ pc = "disable" /\ pc' = "consume" /\ isr = "off"
      /\ RxDisable \/ UNCHANGED vars
      /\ UNCHANGED <<evt, mgrVars, n, g_total_read, consumed>>
      /\ evt = NoEvent /\ NoEvent.type = "NONE"
  BY DriverFacts DEF ManagerInv, CallDisable, At
<1>1. UNCHANGED <<driver_owned, ring, enabled, countVars, last_error, bytes_received>>
  BY <1>0 DEF mgrVars, countVars
<1>2. CASE UNCHANGED vars
  <2>1. Client!SInv' /\ Asking' /\ Quiet' /\ ManagerTracks'
    BY <1>0, <1>1, <1>2, MainIdle DEF Starting
  <2>2. ManagerTypeOK'
    BY <1>0, <1>1 DEF ManagerTypeOK, PcSteps, countVars
  <2>3. Counts' /\ Traced'
    <3>1. (consumed \o ring)' = consumed \o ring /\ accepted' = accepted
      BY <1>0, <1>1, <1>2 DEF vars
    <3> QED
      BY <1>0, <1>1, <3>1 DEF Counts, Traced, Ascending, Among, countVars
  <2> QED
    BY <2>1, <2>2, <2>3 DEF ManagerInv
<1>3. CASE RxDisable
  <2>1. /\ UNCHANGED <<current_buf, next_buf, held_next, isr, accepted>>
        /\ state' = "STOPPING" /\ state # "IDLE"
    BY <1>3 DEF RxDisable, RxDisableRet
  <2>2. Held' = Held /\ Reported' = Reported
    BY <1>0, <1>1, <2>1 DEF Held, Reported
  <2>3. Client!SInv'
    <3>1. Client!CanCall /\ UNCHANGED <<evt, Client!clientVars>>
      BY <1>0, <2>2 DEF Client!CanCall, Client!clientVars
    <3>2. Client!RxDisable
      BY <1>3 DEF RxDisable, Client!RxDisable, RxDisableRet, Client!RxDisableRet
    <3>3. Client!Disable
      BY <3>1, <3>2 DEF Client!Disable
    <3> QED
      BY <1>0, <3>3, ClientStep DEF Client!Next, Client!Call
  <2>4. ManagerTypeOK' /\ Asking' /\ Quiet'
    BY <1>0, <1>1, <2>1 DEF ManagerTypeOK, PcSteps, Starting, Asking, Quiet, countVars
  <2>5. ManagerTracks'
    BY <1>0, <1>1, <2>1, <2>2 DEF ManagerTracks
  <2>6. Counts' /\ Traced'
    <3>1. (consumed \o ring)' = consumed \o ring
      BY <1>0, <1>1
    <3> QED
      BY <1>0, <1>1, <2>1, <3>1 DEF Counts, Traced, Ascending, Among, countVars
  <2> QED
    BY <2>3, <2>4, <2>5, <2>6 DEF ManagerInv
<1> QED
  BY <1>0, <1>2, <1>3

\* Taking bytes from the front of the ring moves them behind those read before.
LEMMA ReadMoves ==
  ASSUME NEW c \in Seq(Nat), NEW s \in Seq(Nat), NEW k \in 0..Len(s)
  PROVE  /\ c \o SubSeq(s, 1, k) \in Seq(Nat) /\ Len(c \o SubSeq(s, 1, k)) = Len(c) + k
         /\ SubSeq(s, k + 1, Len(s)) \in Seq(Nat) /\ Len(SubSeq(s, k + 1, Len(s))) = Len(s) - k
         /\ (c \o SubSeq(s, 1, k)) \o SubSeq(s, k + 1, Len(s)) = c \o s
<1> DEFINE f == SubSeq(s, 1, k)
           b == SubSeq(s, k + 1, Len(s))
<1>1. f \in Seq(Nat) /\ Len(f) = k /\ \A i \in 1..k : f[i] = s[i]
  OBVIOUS
<1>2. b \in Seq(Nat) /\ Len(b) = Len(s) - k /\ \A i \in 1..(Len(s) - k) : b[i] = s[k + i]
  OBVIOUS
<1> HIDE DEF f, b
<1>3. /\ f \o b \in Seq(Nat) /\ Len(f \o b) = Len(f) + Len(b)
      /\ \A i \in 1..Len(f) : (f \o b)[i] = f[i]
      /\ \A i \in 1..Len(b) : (f \o b)[Len(f) + i] = b[i]
  BY <1>1, <1>2, Joined, Zenon
<1>4. f \o b = s
  <2> DEFINE y == f \o b
  <2>1. /\ y \in Seq(Nat) /\ Len(y) = Len(s)
        /\ \A i \in 1..k : y[i] = s[i]
        /\ \A i \in 1..(Len(s) - k) : y[k + i] = s[k + i]
    <3>1. k + (Len(s) - k) = Len(s) /\ Len(f) = k /\ Len(b) = Len(s) - k
      BY <1>1, <1>2
    <3>2. \A i \in 1..k : y[i] = s[i]
      BY <1>1, <1>3, <3>1, Zenon
    <3>3. \A i \in 1..(Len(s) - k) : y[k + i] = s[k + i]
      BY <1>2, <1>3, <3>1, Zenon
    <3> QED
      BY <1>3, <3>1, <3>2, <3>3, Zenon
  <2> HIDE DEF y
  <2>2. \A i \in 1..Len(y) : y[i] = s[i]
    <3> TAKE i \in 1..Len(y)
    <3>1. CASE i \in 1..k
      BY <2>1, <3>1
    <3>2. CASE i \notin 1..k
      <4>1. i - k \in 1..(Len(s) - k) /\ k + (i - k) = i
        BY <2>1, <3>2
      <4>2. PICK j \in 1..(Len(s) - k) : k + j = i
        BY <4>1
      <4> QED
        BY <2>1, <4>2
    <3> QED
      BY <3>1, <3>2
  <2>3. y = s
    BY <2>1, <2>2, SeqEqual
  <2> QED
    BY <2>3 DEF y
<1>5. c \o f \in Seq(Nat) /\ Len(c \o f) = Len(c) + k
  BY <1>1, Joined, Zenon
<1>6. (c \o f) \o b = c \o s
  <2>1. c \in Seq(Nat) /\ f \in Seq(Nat) /\ b \in Seq(Nat)
    BY <1>1, <1>2
  <2>2. (c \o f) \o b = c \o (f \o b)
    BY <2>1, JoinedThree, Zenon
  <2> QED
    BY <1>4, <2>2
<1> QED
  BY <1>2, <1>5, <1>6 DEF f, b

\* The main loop reads from the ring.
LEMMA ReadStep == ManagerInv /\ rx_manager_read => ManagerInv'
<1> SUFFICES ASSUME ManagerInv, rx_manager_read
             PROVE  ManagerInv'
  OBVIOUS
<1>0. ManagerTypeOK /\ Counts /\ Traced
  BY DEF ManagerInv
<1>1. PICK k : k = ring_buf_get
  OBVIOUS
<1>2. Consume(k)
  BY <1>1 DEF rx_manager_read
<1>3. k \in 0..Len(ring)
  <2>1. Len(ring) \in Nat /\ RX_RING_SIZE \in Nat /\ READ_SIZE \in Nat
    BY <1>0, ManagerAssumption DEF ManagerAssumption, ManagerTypeOK
  <2> QED
    BY <1>1, <2>1 DEF ring_buf_get, AtMost
<1>4. /\ ring' = SubSeq(ring, k + 1, Len(ring))
      /\ consumed' = consumed \o SubSeq(ring, 1, k)
      /\ bytes_read' = bytes_read + k /\ n' = k
      /\ pc = "consume" /\ pc' = IF k = 0 THEN "poll" ELSE "account"
      /\ UNCHANGED <<vars, driver_owned, enabled, bytes_received, bytes_buffered>>
      /\ UNCHANGED <<dropped_bytes, last_error, g_total_read>>
  BY <1>2 DEF Consume, At
<1>5. /\ consumed' \in Seq(Nat) /\ Len(consumed') = Len(consumed) + k
      /\ ring' \in Seq(Nat) /\ Len(ring') = Len(ring) - k
      /\ consumed' \o ring' = consumed \o ring
  <2>1. consumed \in Seq(Nat) /\ ring \in Seq(Nat)
    BY <1>0 DEF ManagerTypeOK
  <2> QED
    BY <1>3, <1>4, <2>1, ReadMoves, Zenon
<1>6. Client!SInv' /\ Asking' /\ Quiet' /\ ManagerTracks'
  BY <1>4, MainIdle DEF Starting
<1>7. ManagerTypeOK'
  <2>1. k \in Nat /\ bytes_read + k \in Nat
    BY <1>0, <1>3 DEF ManagerTypeOK
  <2> QED
    BY <1>0, <1>4, <1>5, <2>1 DEF ManagerTypeOK, PcSteps
<1>8. Counts'
  <2>1. /\ bytes_buffered \in Nat /\ bytes_read \in Nat /\ g_total_read \in Nat
        /\ Len(ring) \in Nat /\ Len(consumed) \in Nat /\ k \in Nat /\ RX_RING_SIZE \in Nat
    BY <1>0, <1>3, ManagerAssumption DEF ManagerAssumption, ManagerTypeOK
  <2>2. /\ bytes_buffered = bytes_read + Len(ring) /\ bytes_read = Len(consumed)
        /\ bytes_read = g_total_read /\ Len(ring) <= RX_RING_SIZE
    BY <1>0, <1>4, <2>1 DEF Counts
  <2>3. /\ bytes_buffered = (bytes_read + k) + (Len(ring) - k)
        /\ bytes_read + k = Len(consumed) + k
        /\ bytes_read + k = g_total_read + IF pc' = "account" THEN k ELSE 0
        /\ Len(ring) - k <= RX_RING_SIZE
    BY <1>4, <2>1, <2>2
  <2>4. accepted' = accepted /\ bytes_received <= Len(accepted)
        /\ bytes_received = bytes_buffered + dropped_bytes
    BY <1>0, <1>4 DEF vars, Counts
  <2> QED
    BY <1>4, <1>5, <2>3, <2>4 DEF Counts
<1>9. Traced'
  <2>1. (consumed \o ring)' = consumed \o ring
    BY <1>5
  <2>2. accepted' = accepted /\ bytes_received' = bytes_received
    BY <1>4 DEF vars
  <2> QED
    BY <1>0, <2>1, <2>2 DEF Traced, Ascending, Among
<1> QED
  BY <1>6, <1>7, <1>8, <1>9 DEF ManagerInv

\* Steps that touch none of the books.
LEMMA OtherStep ==
  ManagerInv /\ (PollStop \/ SkipRead \/ AfterRead \/ RequestStop \/ ToggleConsume
                 \/ UNCHANGED allVars) => ManagerInv'
<1> SUFFICES ASSUME ManagerInv, PollStop \/ SkipRead \/ AfterRead \/ RequestStop \/ ToggleConsume
                                \/ UNCHANGED allVars
             PROVE  ManagerInv'
  OBVIOUS
<1>0. /\ Client!SInv /\ ManagerTypeOK /\ Asking /\ Quiet /\ ManagerTracks /\ Counts /\ Traced
      /\ UNCHANGED <<vars, mgrVars, n, consumed>>
  BY DEF ManagerInv, PollStop, SkipRead, AfterRead, RequestStop, ToggleConsume, allVars, mainVars
<1>1. UNCHANGED <<driver_owned, ring, enabled, countVars, last_error, bytes_received>>
  BY <1>0 DEF mgrVars, countVars
<1>2. /\ UNCHANGED <<rxen, rxbf, rxor, data, pending, sent, callback, state, initial_request>>
      /\ UNCHANGED <<request_outstanding, current_buf, current_pos, reported, next_buf, isr>>
      /\ UNCHANGED <<evt, held_next, mem, accepted>>
  BY <1>0 DEF vars, uartVars, drvVars
<1>3. Held' = Held /\ Reported' = Reported
  BY <1>1, <1>2 DEF Held, Reported
<1>4. Client!SInv'
  <2>1. UNCHANGED Client!allVars
    BY <1>2, <1>3
       DEF Client!allVars, Client!vars, Client!uartVars, Client!drvVars, Client!clientVars
  <2> QED
    BY <1>0, <2>1, ClientStep
<1>5. \/ UNCHANGED <<pc, g_total_read>>
      \/ /\ pc \notin Starting \cup {"account"} /\ pc' \in {"poll", "disable", "consume"}
         /\ g_total_read' = g_total_read
      \/ pc = "account" /\ pc' = "poll" /\ g_total_read' = g_total_read + n
  BY DEF PollStop, SkipRead, AfterRead, RequestStop, ToggleConsume, allVars, mainVars, At, Starting
<1>6. ManagerTypeOK' /\ Asking'
  BY <1>0, <1>1, <1>2, <1>5 DEF ManagerTypeOK, PcSteps, Asking, countVars
<1>7. Quiet' /\ ManagerTracks'
  BY <1>0, <1>1, <1>2, <1>3, <1>5 DEF Quiet, ManagerTracks, Starting
<1>8. Counts'
  <2>1. /\ UNCHANGED <<accepted, ring, consumed, n>>
        /\ UNCHANGED <<bytes_received, bytes_buffered, bytes_read, dropped_bytes>>
    BY <1>0, <1>1, <1>2 DEF countVars
  <2>2. bytes_read = g_total_read' + IF pc' = "account" THEN n ELSE 0
    <3>1. /\ bytes_read = g_total_read + IF pc = "account" THEN n ELSE 0
          /\ n \in Nat /\ g_total_read \in Nat
      BY <1>0 DEF Counts, ManagerTypeOK
    <3>2. CASE UNCHANGED <<pc, g_total_read>>
      BY <3>1, <3>2
    <3>3. CASE /\ pc \notin Starting \cup {"account"}
               /\ pc' \in {"poll", "disable", "consume"} /\ g_total_read' = g_total_read
      BY <3>1, <3>3
    <3>4. CASE pc = "account" /\ pc' = "poll" /\ g_total_read' = g_total_read + n
      BY <3>1, <3>4
    <3> QED
      BY <1>5, <3>2, <3>3, <3>4
  <2> QED
    BY <1>0, <2>1, <2>2 DEF Counts
<1>9. Traced'
  <2>1. (consumed \o ring)' = consumed \o ring
    BY <1>0, <1>1
  <2> QED
    BY <1>0, <1>1, <1>2, <2>1 DEF Traced, Ascending, Among
<1> QED
  BY <1>4, <1>6, <1>7, <1>8, <1>9 DEF ManagerInv

-----------------------------------------------------------------------------

\* The invariant holds at reset.
LEMMA InitManagerInv == Init => ManagerInv
<1> SUFFICES ASSUME Init
             PROVE  ManagerInv
  OBVIOUS
<1>0. UartInit /\ evt = NoEvent /\ NoEvent.type = "NONE"
  BY DEF Init, UartInit, NoEvent, Event
<1>1. Held = {} /\ Reported = <<>>
  BY <1>0 DEF Held, Reported, Init, UartInit
<1>2. Client!SInv
  <2>1. Client!Init
    BY <1>0, <1>1
       DEF UartInit, Client!Init, Client!UartInit, NoEvent, Client!NoEvent, Event, Client!Event
  <2>2. Client!DInv
    BY <2>1, BufferAssumption, Client!InitDInv
  <2>3. Client!Numbered
    BY <1>0 DEF UartInit, Client!Numbered
  <2> QED
    BY <2>2, <2>3 DEF Client!SInv
<1>3. ManagerTypeOK /\ Asking
  <2>1. ring \in Seq(Nat) /\ consumed \in Seq(Nat)
    BY DEF Init
  <2>2. driver_owned \in [Buffers -> BOOLEAN]
    BY DEF Init
  <2>3. ManagerTypeOK
    BY <2>1, <2>2 DEF Init, ManagerTypeOK, PcSteps, Starting
  <2>4. Asking
    BY <1>0 DEF Asking
  <2> QED
    BY <2>3, <2>4
<1>4. Quiet /\ ManagerTracks
  BY <1>0, <1>1 DEF Init, UartInit, Quiet, ManagerTracks, Starting
<1>5. Counts /\ Traced
  BY <1>0, ManagerAssumption
     DEF Init, UartInit, Counts, Traced, Ascending, Among, ManagerAssumption
<1> QED
  BY <1>2, <1>3, <1>4, <1>5 DEF ManagerInv

\* Every step preserves the invariant.
LEMMA NextManagerInv == ManagerInv /\ [Next]_allVars => ManagerInv'
BY DriverStep, ReadyStep, RequestStep, ReleasedStep, DisabledStep, StoppedStep,
   InitCallbackStep, InitLendStep, InitEnableStep, DisableStep, ReadStep, OtherStep
   DEF Next, rx_manager_event, MainStep

\* The manager's invariant holds in every reachable state.
LEMMA ManagerInvariance == Spec => []ManagerInv
BY InitManagerInv, NextManagerInv, PTL DEF Spec

\* At every instant after rx_manager_init the manager's view of who holds which
\* buffer, and of whether reception is on, is the driver's, and no callback was
\* refused or answered with an error other than an overrun.
THEOREM ManagerConsistent == Spec => []ManagerTracks
<1>1. ManagerInv => ManagerTracks
  BY DEF ManagerInv
<1> QED
  BY <1>1, ManagerInvariance, PTL

\* Every byte taken from the UART is unreported, dropped, in the ring or read,
\* and the application reads bytes in the order of the line, none twice, for
\* any number of buffers, buffer length, ring capacity and read size.
THEOREM BytesAccounted == Spec => []Accounting
<1>1. ManagerInv => Accounting
  <2> SUFFICES ASSUME ManagerInv
               PROVE  Accounting
    OBVIOUS
  <2>1. /\ Client!SInv /\ ManagerTypeOK /\ Counts /\ Traced
        /\ UartTypeOK /\ accepted = Reported \o Unreported
    BY DriverFacts DEF ManagerInv
  <2>2. accepted \in Seq(Nat) /\ bytes_received \in Nat /\ bytes_received <= Len(accepted)
    BY <2>1 DEF UartTypeOK, MemoryTypeOK, ManagerTypeOK, Counts
  <2>3. Len(accepted) = bytes_received + Len(Unreported)
    <3>1. Reported \in Seq(Nat) /\ Len(Reported) = bytes_received
      BY <2>2, Cut, Zenon DEF Reported
    <3>2. Unreported \in Seq(Nat)
      <4>1. Client!IInv
        BY <2>1 DEF Client!SInv, Client!DInv
      <4>2. Client!InCallback \in Seq(Nat) /\ Client!InBuffer \in Seq(Nat)
            /\ Unreported = Client!InCallback \o Client!InBuffer
        BY <4>1, BufferAssumption, Client!PartsType, Client!UnreportedParts, SameSteps
      <4> QED
        BY <4>2, Joined, Zenon
    <3> QED
      BY <2>1, <3>1, <3>2, Joined, Zenon
  <2> QED
    BY <2>1, <2>3 DEF Accounting, Counts, Traced, Ascending
<1> QED
  BY <1>1, ManagerInvariance, PTL
=============================================================================
