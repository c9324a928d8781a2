--------------------------- MODULE UartClientProofs ---------------------------
(***************************************************************************)
(* Proofs about the asynchronous UART driver of lab 20 under its most      *)
(* general client, for any set of buffers, any lengths and any number of   *)
(* bytes: its state is well typed, the buffers lent to it are the ones it  *)
(* still knows, it accepts none of them a second time, it writes inside    *)
(* them only, it never calls through a cleared callback pointer, no byte   *)
(* it accepted is lost or reordered before it is delivered, and all of it  *)
(* implements the abstract receive stream.                                 *)
(*                                                                         *)
(* None of this is inductive alone.  IInv adds what the step the handler   *)
(* is at says about the driver's pointers (Control), that the buffers it   *)
(* knows are distinct (Distinct), and where its positions lie (Bounds);    *)
(* DInv adds where the unreported bytes lie (Reports), SInv that their     *)
(* numbers grow (Numbered).                                                *)
(***************************************************************************)
EXTENDS UartClient, SequenceTheorems, TLAPS

Finishing == {"flush", "release", "release_next", "disable"}
Dropped   == {"release_next", "disable"}   \* finish_rx has cleared the pointers

Control ==
  /\ isr = "off" => evt = NoEvent
  /\ isr \in {"status", "data"} => state = "ACTIVE" /\ evt = NoEvent
  /\ isr \in {"first_request", "full", "swapped", "requested"} => state # "IDLE"
  /\ isr \in Finishing => state = "STOPPING"
  /\ state = "IDLE" => isr \in {"off", "return"}
  /\ state = "IDLE" \/ isr \in Dropped => current_buf = NULL /\ next_buf = NULL
  /\ state # "IDLE" /\ isr \notin Dropped => current_buf # NULL
  /\ held_next # NULL => isr = "release_next"
  /\ request_outstanding \/ initial_request => next_buf = NULL
  /\ initial_request => ~request_outstanding /\ isr \in {"off", "return"}
  /\ isr = "swapped" => ~request_outstanding /\ next_buf = NULL
  /\ state = "IDLE" \/ isr \in Finishing => ~request_outstanding
  /\ state # "IDLE" \/ isr # "off" => callback

Distinct ==
  /\ current_buf # NULL => current_buf # next_buf
  /\ evt.type = "RX_BUF_RELEASED" =>
       /\ evt.buf # NULL
       /\ isr \in {"swapped"} \cup Dropped
       /\ evt.buf # current_buf
       /\ evt.buf # held_next

Bounds ==
  /\ reported <= current_pos
  /\ current_buf = NULL => current_pos = 0
  /\ current_buf # NULL =>
       /\ current_pos <= BufLen[current_buf]
       /\ isr \notin {"full", "flush", "release"} => current_pos < BufLen[current_buf]
  /\ evt.type = "RX_RDY" => evt.buf # NULL /\ evt.offset + evt.len <= BufLen[evt.buf]

IInv == TypeOK /\ Control /\ Distinct /\ Bounds /\ Ownership

-----------------------------------------------------------------------------
(* Facts about events. *)

\* Event builds a well-typed record with the fields it was given.
LEMMA EventType ==
  ASSUME NEW type \in EventTypes, NEW buf \in Buffers \cup {NULL},
         NEW offset \in Nat, NEW len \in Nat,
         NEW e, e = Event(type, buf, offset, len)
  PROVE  /\ e \in Events
         /\ e.type = type /\ e.buf = buf /\ e.offset = offset /\ e.len = len
BY DEF Event, Events

\* The absence of an event is an event of type NONE.
LEMMA NoEventType == NoEvent \in Events /\ NoEvent.type = "NONE"
BY EventType DEF NoEvent, EventTypes

\* Events without a buffer: requests and RX_DISABLED.
LEMMA PlainEvent ==
  \A type \in EventTypes :
    Event(type, NULL, 0, 0) \in Events /\ Event(type, NULL, 0, 0).type = type
BY EventType DEF EventTypes

\* RX_BUF_RELEASED names the buffer it hands back.
LEMMA ReleasedEvent ==
  \A b \in Buffers :
    LET e == Event("RX_BUF_RELEASED", b, 0, 0)
    IN  e \in Events /\ e.type = "RX_BUF_RELEASED" /\ e.buf = b
<1> TAKE b \in Buffers
<1> "RX_BUF_RELEASED" \in EventTypes
  BY DEF EventTypes
<1> QED
  BY EventType

\* RX_RDY reports the bytes from one position up to another.
LEMMA ReadyEvent ==
  ASSUME NEW b \in Buffers,
         NEW from \in Nat, NEW to \in Nat, from <= to,
         NEW e, e = Event("RX_RDY", b, from, to - from)
  PROVE  e \in Events /\ e.type = "RX_RDY" /\ e.buf = b /\ e.offset + e.len = to
<1> "RX_RDY" \in EventTypes /\ to - from \in Nat
  BY DEF EventTypes
<1> QED
  BY EventType

\* A span of a buffer is a sequence of bytes.
LEMMA SpanSeq ==
  ASSUME NEW size \in Nat, NEW m \in [1..size -> Nat],
         NEW offset \in Nat, NEW len \in Nat, offset + len <= size
  PROVE  [i \in 1..len |-> m[offset + i]] \in Seq(Nat)
<1>1. \A i \in 1..len : m[offset + i] \in Nat
  <2> TAKE i \in 1..len
  <2>1. offset + i \in 1..size
    OBVIOUS
  <2> QED
    BY <2>1
<1> QED
  BY <1>1

\* A span that grows by the byte stored behind it.
LEMMA SpanAppend ==
  ASSUME NEW size \in Nat, NEW m \in [1..size -> Nat], NEW v \in Nat,
         NEW from \in Nat, NEW to \in Nat, from <= to, to < size,
         NEW m2, m2 = [m EXCEPT ![to + 1] = v]
  PROVE  [i \in 1..(to + 1 - from) |-> m2[from + i]]
           = Append([i \in 1..(to - from) |-> m[from + i]], v)
<1> DEFINE s == [i \in 1..(to - from) |-> m[from + i]]
           t == [i \in 1..(to + 1 - from) |-> m2[from + i]]
<1>1. s \in Seq(Nat) /\ Len(s) = to - from
  <2>1. to - from \in Nat /\ \A i \in 1..(to - from) : from + i \in 1..size
    OBVIOUS
  <2>2. s \in [1..(to - from) -> Nat]
    BY <2>1
  <2> QED
    BY <2>1, <2>2
<1>2. t \in Seq(Nat) /\ Len(t) = to + 1 - from
  <2>1. to + 1 - from \in Nat /\ \A i \in 1..(to + 1 - from) : from + i \in 1..size
    OBVIOUS
  <2>2. m2 \in [1..size -> Nat]
    OBVIOUS
  <2>3. t \in [1..(to + 1 - from) -> Nat]
    BY <2>1, <2>2
  <2> QED
    BY <2>1, <2>3
<1>3. /\ Append(s, v) \in Seq(Nat) /\ Len(Append(s, v)) = to + 1 - from
      /\ \A i \in 1..(to - from) : Append(s, v)[i] = s[i]
      /\ Append(s, v)[to + 1 - from] = v
  <2> HIDE DEF s
  <2>1. Len(s) + 1 = to + 1 - from
    BY <1>1
  <2> QED
    BY <1>1, <2>1, AppendProperties
<1>4. \A i \in 1..(to + 1 - from) : t[i] = Append(s, v)[i]
  <2> TAKE i \in 1..(to + 1 - from)
  <2>1. CASE i = to + 1 - from
    <3>1. t[i] = m2[to + 1]
      BY <2>1
    <3> QED
      BY <1>3, <2>1, <3>1
  <2>2. CASE i \in 1..(to - from)
    <3>1. t[i] = m2[from + i] /\ s[i] = m[from + i]
      BY <2>2
    <3>2. from + i \in 1..size /\ from + i # to + 1
      BY <2>2
    <3> QED
      BY <1>3, <2>2, <3>1, <3>2
  <2> QED
    BY <2>1, <2>2
<1> HIDE DEF s, t
<1>5. t = Append(s, v)
  BY <1>2, <1>3, <1>4, SeqEqual
<1> QED
  BY <1>5 DEF s, t

\* Concatenation is associative.
LEMMA ConcatByteStrings ==
  ASSUME NEW s \in Seq(Nat), NEW t \in Seq(Nat), NEW u \in Seq(Nat)
  PROVE  (s \o t) \o u = s \o (t \o u)
BY ConcatAssociative, Z3

\* Appending to the second of two sequences.
LEMMA AppendConcat ==
  ASSUME NEW s \in Seq(Nat), NEW t \in Seq(Nat), NEW v \in Nat
  PROVE  Append(s \o t, v) = s \o Append(t, v)
<1>1. s \o t \in Seq(Nat) /\ <<v>> \in Seq(Nat)
  BY ConcatProperties
<1>2. Append(s \o t, v) = (s \o t) \o <<v>>
  BY <1>1, AppendIsConcat
<1>3. Append(t, v) = t \o <<v>>
  BY AppendIsConcat
<1>4. (s \o t) \o <<v>> = s \o (t \o <<v>>)
  BY <1>1, ConcatByteStrings, Zenon
<1> QED
  BY <1>2, <1>3, <1>4, Zenon

-----------------------------------------------------------------------------
(* Steps that several actions share. *)

\* Entering finish_rx, from whichever step of the handler.
LEMMA FinishStep ==
  ASSUME IInv,
         NEW overrun \in BOOLEAN, BeginFinish(overrun),
         evt = NoEvent, state # "IDLE", isr \notin Finishing,
         RegsTypeOK', UNCHANGED <<held_next, mem, accepted, clientVars>>
  PROVE  IInv'
<1> USE BufferAssumption
    DEF BufferAssumption, IInv, TypeOK, UartTypeOK, clientVars,
        BeginFinish
<1>1. current_buf \in Buffers /\ held_next = NULL
  BY DEF Control, DriverTypeOK, Finishing, Dropped
<1>2. /\ evt' \in Events
      /\ evt'.type \in {"NONE", "RX_STOPPED"}
  <2>1. CASE overrun
    <3>1. reported \in Nat /\ current_pos \in Nat /\ reported <= current_pos
      BY DEF DriverTypeOK, Bounds
    <3>2. evt' = Event("RX_STOPPED", current_buf, reported, current_pos - reported)
      BY <2>1
    <3> HIDE DEF BufferAssumption, IInv, TypeOK, UartTypeOK, clientVars, BeginFinish
    <3>3. evt' \in Events /\ evt'.type = "RX_STOPPED"
      BY <1>1, <3>1, <3>2, EventType DEF EventTypes
    <3> QED
      BY <3>3
  <2>2. CASE ~overrun
    BY <2>2, NoEventType
  <2> QED
    BY <2>1, <2>2
<1>3. TypeOK'
  <2>1. DriverTypeOK'
    BY DEF DriverTypeOK
  <2>2. HandlerTypeOK'
    BY <1>2 DEF HandlerTypeOK, IsrSteps
  <2>3. MemoryTypeOK'
    BY DEF MemoryTypeOK
  <2> QED
    BY <2>1, <2>2, <2>3
<1>4. Control'
  BY DEF Control, Finishing, Dropped
<1>5. Distinct'
  BY <1>2 DEF Distinct
<1>6. Bounds'
  BY <1>2 DEF Bounds
<1>7. Ownership'
  BY <1>2, NoEventType DEF Ownership, Held
<1> QED
  BY <1>3, <1>4, <1>5, <1>6, <1>7

\* The handler only goes on to its next step, or returns.
LEMMA MoveStep ==
  ASSUME IInv, evt = NoEvent, evt' = evt,
         isr \notin {"data", "full"} \cup Finishing,
         \/ isr' = "off"
         \/ isr' \in {"status", "data"} /\ state = "ACTIVE" /\ ~initial_request,
         RegsTypeOK', UNCHANGED <<drvVars, held_next, mem, accepted, clientVars>>
  PROVE  IInv'
<1> USE DEF IInv, TypeOK, UartTypeOK, clientVars, drvVars
<1>1. TypeOK'
  BY DEF DriverTypeOK, HandlerTypeOK, MemoryTypeOK, IsrSteps
<1>2. Control'
  BY DEF Control, Finishing, Dropped
<1>3. Distinct' /\ Bounds' /\ Ownership'
  BY NoEventType DEF Distinct, Bounds, Ownership, Held, Finishing, Dropped
<1> QED
  BY <1>1, <1>2, <1>3

\* RX_BUF_REQUEST, the initial one and the one after a buffer switch.
LEMMA RequestStep ==
  ASSUME IInv, state = "ACTIVE", next_buf = NULL, ~initial_request',
         evt = NoEvent, evt' = Event("RX_BUF_REQUEST", NULL, 0, 0),
         \/ isr = "off" /\ isr' = "first_request"
         \/ isr = "swapped" /\ isr' = "requested",
         request_outstanding' = TRUE, initial_request' \in BOOLEAN,
         UNCHANGED <<callback, state, current_buf, current_pos, reported, next_buf>>,
         RegsTypeOK', UNCHANGED <<held_next, mem, accepted, clientVars>>
  PROVE  IInv'
<1> USE DEF IInv, TypeOK, UartTypeOK, clientVars
<1>1. evt' \in Events /\ evt'.type = "RX_BUF_REQUEST"
  BY PlainEvent DEF EventTypes
<1>2. TypeOK'
  BY <1>1 DEF DriverTypeOK, HandlerTypeOK, MemoryTypeOK, IsrSteps
<1>3. Control'
  BY DEF Control, Finishing, Dropped
<1>4. Distinct' /\ Bounds' /\ Ownership'
  BY <1>1, NoEventType DEF Distinct, Bounds, Ownership, Held
<1> QED
  BY <1>2, <1>3, <1>4

-----------------------------------------------------------------------------
(* One lemma per step of the hardware and of the handler. *)

\* A byte completing on the line.
LEMMA ByteArrivesStep ==
  ASSUME IInv, ByteArrives, UNCHANGED clientVars
  PROVE  IInv'
<1> USE BufferAssumption
    DEF BufferAssumption, IInv, TypeOK, UartTypeOK, clientVars,
        ByteArrives
<1>3. TypeOK'
  <2>1. RegsTypeOK'
    <3>1. data' \in Nat /\ sent' \in Nat
      BY DEF RegsTypeOK
    <3> QED
      BY <3>1 DEF RegsTypeOK
  <2>2. DriverTypeOK'
    BY DEF DriverTypeOK, drvVars
  <2>3. HandlerTypeOK'
    BY DEF HandlerTypeOK
  <2>4. MemoryTypeOK'
    BY DEF MemoryTypeOK
  <2>5. (lent \subseteq Buffers /\ delivered \in Seq(Nat))'
    OBVIOUS
  <2> QED
    BY <2>1, <2>2, <2>3, <2>4, <2>5
<1>4. Control'
  BY DEF Control, drvVars
<1>5. Distinct'
  BY DEF Distinct, drvVars
<1>6. Bounds'
  BY DEF Bounds, drvVars
<1>7. Ownership'
  BY DEF Ownership, Held, drvVars
<1> QED
  BY <1>3, <1>4, <1>5, <1>6, <1>7

\* The handler returns.
LEMMA IsrReturnStep ==
  ASSUME IInv, IsrReturn, UNCHANGED clientVars
  PROVE  IInv'
<1> USE BufferAssumption
    DEF BufferAssumption, IInv, TypeOK, UartTypeOK, clientVars,
        IsrReturn, Continue, in_callback
<1>3. TypeOK'
  <2>1. RegsTypeOK'
    BY DEF RegsTypeOK, drvVars, uartVars
  <2>2. DriverTypeOK'
    BY DEF DriverTypeOK, drvVars, uartVars
  <2>3. HandlerTypeOK'
    BY DEF HandlerTypeOK, IsrSteps
  <2>4. MemoryTypeOK'
    BY DEF MemoryTypeOK
  <2>5. (lent \subseteq Buffers /\ delivered \in Seq(Nat))'
    OBVIOUS
  <2> QED
    BY <2>1, <2>2, <2>3, <2>4, <2>5
<1>4. Control'
  BY DEF Control, Finishing, Dropped, drvVars, uartVars
<1>5. Distinct'
  BY DEF Distinct, Control, Finishing, Dropped, drvVars, uartVars
<1>6. Bounds'
  BY DEF Bounds, drvVars, uartVars
<1>7. Ownership'
  BY DEF Ownership, Held, drvVars, uartVars
<1> QED
  BY <1>3, <1>4, <1>5, <1>6, <1>7

\* finish_rx: RX_DISABLED.
LEMMA FinishDisableStep ==
  ASSUME IInv, FinishDisable, UNCHANGED clientVars
  PROVE  IInv'
<1> USE BufferAssumption
    DEF BufferAssumption, IInv, TypeOK, UartTypeOK, clientVars,
        FinishDisable, Continue, in_callback
<1>2. evt' \in Events /\ evt'.type = "RX_DISABLED"
  BY PlainEvent DEF EventTypes
<1>3. TypeOK'
  <2>1. RegsTypeOK'
    BY DEF RegsTypeOK, uartVars
  <2>2. DriverTypeOK'
    BY DEF DriverTypeOK
  <2>3. HandlerTypeOK'
    BY <1>2 DEF HandlerTypeOK, IsrSteps
  <2>4. MemoryTypeOK'
    BY DEF MemoryTypeOK
  <2>5. (lent \subseteq Buffers /\ delivered \in Seq(Nat))'
    OBVIOUS
  <2> QED
    BY <2>1, <2>2, <2>3, <2>4, <2>5
<1>4. Control'
  BY DEF Control, Finishing, Dropped
<1>5. Distinct'
  BY <1>2 DEF Distinct
<1>6. Bounds'
  BY <1>2 DEF Bounds
<1>7. Ownership'
  BY <1>2, NoEventType DEF Ownership, Held
<1> QED
  BY <1>3, <1>4, <1>5, <1>6, <1>7

\* finish_rx: the next buffer is released.
LEMMA FinishReleaseNextStep ==
  ASSUME IInv, FinishReleaseNext, UNCHANGED clientVars
  PROVE  IInv'
<1> USE BufferAssumption
    DEF BufferAssumption, IInv, TypeOK, UartTypeOK, clientVars,
        FinishReleaseNext, Continue, in_callback
<1>1. held_next \in Buffers \cup {NULL}
  BY DEF HandlerTypeOK
<1>2. /\ evt' \in Events
      /\ \/ held_next = NULL /\ evt'.type = "NONE"
         \/ held_next # NULL /\ evt'.type = "RX_BUF_RELEASED" /\ evt'.buf = held_next
  BY <1>1, ReleasedEvent, NoEventType
<1>3. TypeOK'
  <2>1. RegsTypeOK'
    BY DEF RegsTypeOK, drvVars, uartVars
  <2>2. DriverTypeOK'
    BY DEF DriverTypeOK, drvVars, uartVars
  <2>3. HandlerTypeOK'
    BY <1>2 DEF HandlerTypeOK, IsrSteps
  <2>4. MemoryTypeOK'
    BY DEF MemoryTypeOK
  <2>5. (lent \subseteq Buffers /\ delivered \in Seq(Nat))'
    OBVIOUS
  <2> QED
    BY <2>1, <2>2, <2>3, <2>4, <2>5
<1>4. Control'
  BY DEF Control, Finishing, Dropped, drvVars, uartVars
<1>5. Distinct'
  BY <1>2 DEF Distinct, Control, Finishing, Dropped, drvVars, uartVars
<1>6. Bounds'
  BY <1>2 DEF Bounds, drvVars, uartVars
<1>7. Ownership'
  BY <1>2, NoEventType DEF Ownership, Held, drvVars, uartVars
<1> QED
  BY <1>3, <1>4, <1>5, <1>6, <1>7

\* finish_rx: both pointers cleared, the current buffer released.
LEMMA FinishReleaseStep ==
  ASSUME IInv, FinishRelease, UNCHANGED clientVars
  PROVE  IInv'
<1> USE BufferAssumption
    DEF BufferAssumption, IInv, TypeOK, UartTypeOK, clientVars,
        FinishRelease, Continue, in_callback
<1>1. /\ current_buf \in Buffers /\ next_buf \in Buffers \cup {NULL}
      /\ held_next = NULL /\ evt.type = "NONE" /\ current_buf # next_buf
  BY NoEventType DEF DriverTypeOK, Control, Distinct, Dropped, Finishing
<1>2. /\ evt' \in Events
      /\ evt'.type = "RX_BUF_RELEASED" /\ evt'.buf = current_buf
  BY <1>1, ReleasedEvent
<1>3. TypeOK'
  <2>1. RegsTypeOK'
    BY DEF RegsTypeOK, uartVars
  <2>2. DriverTypeOK'
    BY <1>1, <1>2, NoEventType DEF DriverTypeOK, drvVars, ownVars, uartVars
  <2>3. HandlerTypeOK'
    BY <1>1, <1>2 DEF HandlerTypeOK, IsrSteps
  <2>4. MemoryTypeOK'
    BY DEF MemoryTypeOK
  <2>5. (lent \subseteq Buffers /\ delivered \in Seq(Nat))'
    OBVIOUS
  <2> QED
    BY <2>1, <2>2, <2>3, <2>4, <2>5
<1>4. Control'
  BY DEF Control, Finishing, Dropped
<1>5. Distinct'
  BY <1>2 DEF Distinct, Control, Finishing, Dropped
<1>6. Bounds'
  BY <1>2 DEF Bounds
<1>7. Ownership'
  BY <1>1, <1>2 DEF Ownership, Held
<1> QED
  BY <1>3, <1>4, <1>5, <1>6, <1>7

\* finish_rx: the bytes still unreported.
LEMMA FinishReportStep ==
  ASSUME IInv, FinishReport, UNCHANGED clientVars
  PROVE  IInv'
<1> USE BufferAssumption
    DEF BufferAssumption, IInv, TypeOK, UartTypeOK, clientVars,
        FinishReport, Continue, in_callback
<1>1. /\ current_buf \in Buffers /\ reported \in Nat /\ current_pos \in Nat
      /\ reported <= current_pos /\ current_pos <= BufLen[current_buf]
      /\ BufLen[current_buf] \in Nat /\ evt.type = "NONE"
  BY NoEventType DEF DriverTypeOK, Control, Bounds, Dropped, Finishing
<1>2. /\ evt' \in Events
      /\ \/ evt'.type = "NONE"
         \/ /\ evt'.type = "RX_RDY" /\ evt'.buf = current_buf
            /\ evt'.offset + evt'.len = current_pos
  BY <1>1, ReadyEvent, NoEventType
<1>3. TypeOK'
  <2>1. RegsTypeOK'
    BY DEF RegsTypeOK, ownVars, uartVars
  <2>2. DriverTypeOK'
    BY DEF DriverTypeOK, ownVars, uartVars
  <2>3. HandlerTypeOK'
    BY <1>2 DEF HandlerTypeOK, IsrSteps, ownVars, uartVars
  <2>4. MemoryTypeOK'
    BY DEF MemoryTypeOK
  <2>5. (lent \subseteq Buffers /\ delivered \in Seq(Nat))'
    OBVIOUS
  <2> QED
    BY <2>1, <2>2, <2>3, <2>4, <2>5
<1>4. Control'
  BY DEF Control, Finishing, Dropped, ownVars, uartVars
<1>5. Distinct'
  BY <1>2 DEF Distinct, ownVars, uartVars
<1>6. Bounds'
  BY <1>1, <1>2 DEF Bounds, ownVars, uartVars
<1>7. Ownership'
  BY <1>1, <1>2 DEF Ownership, Held, ownVars, uartVars
<1> QED
  BY <1>3, <1>4, <1>5, <1>6, <1>7

\* A byte stored; the full buffer reported.
LEMMA ReadDataStep ==
  ASSUME IInv, ReadData, UNCHANGED clientVars
  PROVE  IInv'
<1> USE BufferAssumption
    DEF BufferAssumption, IInv, TypeOK, UartTypeOK, clientVars,
        ReadData, Continue, in_callback
<1>1. /\ current_buf \in Buffers /\ reported \in Nat /\ current_pos \in Nat
      /\ reported <= current_pos /\ current_pos < BufLen[current_buf]
      /\ BufLen[current_buf] \in Nat /\ evt.type = "NONE" /\ state = "ACTIVE"
      /\ held_next = NULL
  BY NoEventType DEF DriverTypeOK, Control, Bounds, Dropped, Finishing
<1>2. /\ evt' \in Events
      /\ \/ isr' = "off" /\ evt' = NoEvent /\ current_pos + 1 < BufLen[current_buf]
         \/ /\ isr' = "full"
            /\ evt'.type = "RX_RDY" /\ evt'.buf = current_buf
            /\ evt'.offset + evt'.len = current_pos + 1
  <2>1. CASE current_pos + 1 < BufLen[current_buf]
    BY <2>1, NoEventType
  <2>2. CASE current_pos + 1 >= BufLen[current_buf]
    BY <1>1, <2>2, ReadyEvent
  <2> QED
    BY <1>1, <2>1, <2>2
<1>3. TypeOK'
  <2>1. RegsTypeOK'
    BY DEF RegsTypeOK
  <2>2. DriverTypeOK'
    BY DEF DriverTypeOK, ownVars
  <2>3. HandlerTypeOK'
    BY <1>2 DEF HandlerTypeOK, IsrSteps, ownVars
  <2>4. MemoryTypeOK'
    BY <1>1 DEF MemoryTypeOK, RegsTypeOK
  <2>5. (lent \subseteq Buffers /\ delivered \in Seq(Nat))'
    OBVIOUS
  <2> QED
    BY <2>1, <2>2, <2>3, <2>4, <2>5
<1>4. Control'
  BY DEF Control, Finishing, Dropped, ownVars
<1>5. Distinct'
  BY <1>1, <1>2 DEF Distinct, ownVars
<1>6. Bounds'
  BY <1>1, <1>2 DEF Bounds, ownVars
<1>7. Ownership'
  BY <1>1, <1>2 DEF Ownership, Held, ownVars
<1> QED
  BY <1>3, <1>4, <1>5, <1>6, <1>7

\* Entry of the handler.
LEMMA IsrEnterStep ==
  ASSUME IInv, IsrEnter, UNCHANGED clientVars
  PROVE  IInv'
<1>1. /\ evt = NoEvent /\ isr = "off"
      /\ initial_request => next_buf = NULL
  BY DEF IInv, Control, IsrEnter
<1>2. RegsTypeOK'
  BY DEF IInv, TypeOK, UartTypeOK, RegsTypeOK, IsrEnter, BeginFinish
<1>3. CASE state = "IDLE"
  BY <1>1, <1>2, <1>3, MoveStep DEF IsrEnter, Finishing
<1>4. CASE state = "STOPPING"
  BY <1>1, <1>2, <1>4, FinishStep DEF IsrEnter, Finishing
<1>5. CASE state = "ACTIVE" /\ ~initial_request
  BY <1>1, <1>2, <1>5, MoveStep DEF IsrEnter, Finishing
<1>6. CASE state = "ACTIVE" /\ initial_request
  BY <1>1, <1>2, <1>6, RequestStep DEF IsrEnter
<1> QED
  BY <1>3, <1>4, <1>5, <1>6 DEF IInv, TypeOK, UartTypeOK, DriverTypeOK

\* Back from the initial RX_BUF_REQUEST.
LEMMA AfterFirstRequestStep ==
  ASSUME IInv, AfterFirstRequest, UNCHANGED clientVars
  PROVE  IInv'
<1>1. /\ evt = NoEvent /\ isr = "first_request"
      /\ state \in {"ACTIVE", "STOPPING"} /\ ~initial_request
  BY DEF IInv, TypeOK, UartTypeOK, DriverTypeOK, Control, AfterFirstRequest,
     Continue, in_callback
<1>2. RegsTypeOK'
  BY DEF IInv, TypeOK, UartTypeOK, RegsTypeOK, AfterFirstRequest, BeginFinish
<1>3. CASE state = "STOPPING"
  BY <1>1, <1>2, <1>3, FinishStep DEF AfterFirstRequest, Finishing
<1>4. CASE state = "ACTIVE"
  BY <1>1, <1>2, <1>4, MoveStep DEF AfterFirstRequest, Finishing
<1> QED
  BY <1>1, <1>3, <1>4

\* The status register read.
LEMMA ReadStatusStep ==
  ASSUME IInv, ReadStatus, UNCHANGED clientVars
  PROVE  IInv'
<1>1. evt = NoEvent /\ isr = "status" /\ state = "ACTIVE" /\ ~initial_request
  BY DEF IInv, Control, ReadStatus, Continue, in_callback
<1>2. RegsTypeOK'
  BY DEF IInv, TypeOK, UartTypeOK, RegsTypeOK, ReadStatus, BeginFinish
<1>3. CASE rxor
  BY <1>1, <1>2, <1>3, FinishStep DEF ReadStatus, Finishing
<1>4. CASE ~rxor
  BY <1>1, <1>2, <1>4, MoveStep DEF ReadStatus, Finishing
<1> QED
  BY <1>3, <1>4

\* After the switch: the next buffer requested.
LEMMA RequestNextStep ==
  ASSUME IInv, RequestNext, UNCHANGED clientVars
  PROVE  IInv'
<1>1. /\ evt = NoEvent /\ isr = "swapped" /\ next_buf = NULL
      /\ state \in {"ACTIVE", "STOPPING"} /\ initial_request = FALSE
  BY DEF IInv, TypeOK, UartTypeOK, DriverTypeOK, Control, RequestNext,
     Continue, in_callback
<1>2. RegsTypeOK'
  BY DEF IInv, TypeOK, UartTypeOK, RegsTypeOK, RequestNext, BeginFinish
<1>3. CASE state = "STOPPING"
  BY <1>1, <1>2, <1>3, FinishStep DEF RequestNext, Finishing
<1>4. CASE state = "ACTIVE"
  BY <1>1, <1>2, <1>4, RequestStep DEF RequestNext
<1> QED
  BY <1>1, <1>3, <1>4

\* Back from the later RX_BUF_REQUEST.
LEMMA AfterRequestStep ==
  ASSUME IInv, AfterRequest, UNCHANGED clientVars
  PROVE  IInv'
<1>1. /\ evt = NoEvent /\ isr = "requested"
      /\ state \in {"ACTIVE", "STOPPING"} /\ ~initial_request
  BY DEF IInv, TypeOK, UartTypeOK, DriverTypeOK, Control, AfterRequest,
     Continue, in_callback
<1>2. RegsTypeOK'
  BY DEF IInv, TypeOK, UartTypeOK, RegsTypeOK, AfterRequest, BeginFinish
<1>3. CASE state = "STOPPING"
  BY <1>1, <1>2, <1>3, FinishStep DEF AfterRequest, Finishing
<1>4. CASE state = "ACTIVE"
  BY <1>1, <1>2, <1>4, MoveStep DEF AfterRequest, Finishing
<1> QED
  BY <1>1, <1>3, <1>4

\* The switch to the next buffer itself.
LEMMA SwapStep ==
  ASSUME IInv, SwapBuffers,
         state = "ACTIVE", next_buf # NULL, UNCHANGED clientVars
  PROVE  IInv'
<1> USE BufferAssumption
    DEF BufferAssumption, IInv, TypeOK, UartTypeOK, clientVars,
        SwapBuffers, Continue, in_callback
<1>1. /\ current_buf \in Buffers /\ next_buf \in Buffers /\ current_buf # next_buf
      /\ BufLen[next_buf] \in Nat \ {0}
      /\ held_next = NULL /\ evt.type = "NONE" /\ ~request_outstanding
      /\ ~initial_request
  BY NoEventType DEF DriverTypeOK, Control, Distinct
<1>2. /\ evt' \in Events
      /\ evt'.type = "RX_BUF_RELEASED" /\ evt'.buf = current_buf
  BY <1>1, ReleasedEvent
<1>3. TypeOK'
  <2>1. RegsTypeOK'
    BY DEF RegsTypeOK
  <2>2. DriverTypeOK'
    BY DEF DriverTypeOK
  <2>3. HandlerTypeOK'
    BY <1>2 DEF HandlerTypeOK, IsrSteps
  <2>4. MemoryTypeOK'
    BY DEF MemoryTypeOK
  <2>5. (lent \subseteq Buffers /\ delivered \in Seq(Nat))'
    OBVIOUS
  <2> QED
    BY <2>1, <2>2, <2>3, <2>4, <2>5
<1>4. Control'
  BY DEF Control, Finishing, Dropped
<1>5. Distinct'
  BY <1>1, <1>2 DEF Distinct
<1>6. Bounds'
  BY <1>1, <1>2 DEF Bounds
<1>7. Ownership'
  BY <1>1, <1>2 DEF Ownership, Held
<1> QED
  BY <1>3, <1>4, <1>5, <1>6, <1>7

\* The end of a full buffer: the switch, or finish_rx.
LEMMA SwapBuffersStep ==
  ASSUME IInv, SwapBuffers, UNCHANGED clientVars
  PROVE  IInv'
<1>1. /\ evt = NoEvent /\ isr = "full"
      /\ state \in {"ACTIVE", "STOPPING"}
  BY DEF IInv, TypeOK, UartTypeOK, DriverTypeOK, Control, SwapBuffers,
     Continue, in_callback
<1>2. CASE state = "STOPPING" \/ next_buf = NULL
  <2>1. RegsTypeOK'
    BY DEF IInv, TypeOK, UartTypeOK, RegsTypeOK, SwapBuffers, BeginFinish
  <2> QED
    BY <1>1, <1>2, <2>1, FinishStep DEF SwapBuffers, Finishing
<1>3. CASE state = "ACTIVE" /\ next_buf # NULL
  BY <1>3, SwapStep
<1> QED
  BY <1>1, <1>2, <1>3

-----------------------------------------------------------------------------
(* The calls of the client. *)

\* uart_callback_set accepted.
LEMMA SetStep ==
  ASSUME IInv, NEW cb \in BOOLEAN, Set(cb)
  PROVE  IInv'
<1> USE BufferAssumption
    DEF BufferAssumption, IInv, TypeOK, UartTypeOK, clientVars,
        Set, CallbackSet, CallbackSetRet, CanCall, in_callback
<1>3. TypeOK'
  <2>1. RegsTypeOK'
    BY DEF RegsTypeOK, drvVars, ownVars, uartVars
  <2>2. DriverTypeOK'
    BY DEF DriverTypeOK
  <2>3. HandlerTypeOK'
    BY DEF HandlerTypeOK
  <2>4. MemoryTypeOK'
    BY DEF MemoryTypeOK
  <2>5. (lent \subseteq Buffers /\ delivered \in Seq(Nat))'
    OBVIOUS
  <2> QED
    BY <2>1, <2>2, <2>3, <2>4, <2>5
<1>4. Control'
  BY DEF Control
<1>5. Distinct'
  BY DEF Distinct
<1>6. Bounds'
  BY DEF Bounds
<1>7. Ownership'
  BY DEF Ownership, Held
<1> QED
  BY <1>3, <1>4, <1>5, <1>6, <1>7

\* uart_rx_enable accepted.
LEMMA EnableStep ==
  ASSUME IInv, NEW b \in Buffers, Enable(b)
  PROVE  IInv'
<1> USE BufferAssumption
    DEF BufferAssumption, IInv, TypeOK, UartTypeOK, clientVars,
        Enable, RxEnable, RxEnableRet, CanCall, in_callback
<1>1. /\ state = "IDLE" /\ callback /\ held_next = NULL
      /\ BufLen[b] \in Nat \ {0} /\ b # NULL
  BY DEF Control
<1>3. TypeOK'
  <2>1. RegsTypeOK'
    BY DEF RegsTypeOK
  <2>2. DriverTypeOK'
    BY DEF DriverTypeOK
  <2>3. HandlerTypeOK'
    BY DEF HandlerTypeOK
  <2>4. MemoryTypeOK'
    BY DEF MemoryTypeOK
  <2>5. (lent \subseteq Buffers /\ delivered \in Seq(Nat))'
    OBVIOUS
  <2> QED
    BY <2>1, <2>2, <2>3, <2>4, <2>5
<1>4. Control'
  BY DEF Control, Finishing, Dropped
<1>5. Distinct'
  BY DEF Distinct, Control, Finishing, Dropped
<1>6. Bounds'
  BY DEF Bounds
<1>7. Ownership'
  BY DEF Ownership, Held, Control
<1> QED
  BY <1>3, <1>4, <1>5, <1>6, <1>7

\* uart_rx_buf_rsp accepted.
LEMMA RespondStep ==
  ASSUME IInv, NEW b \in Buffers, Respond(b)
  PROVE  IInv'
<1> USE BufferAssumption
    DEF BufferAssumption, IInv, TypeOK, UartTypeOK, clientVars,
        Respond, RxBufRsp, RxBufRspRet, CanCall, in_callback
<1>1. /\ state = "ACTIVE" /\ b # current_buf /\ next_buf = NULL
      /\ request_outstanding /\ b # NULL
  BY DEF DriverTypeOK
<1>3. TypeOK'
  <2>1. RegsTypeOK'
    BY DEF RegsTypeOK, drvVars, ownVars, uartVars
  <2>2. DriverTypeOK'
    BY DEF DriverTypeOK
  <2>3. HandlerTypeOK'
    BY DEF HandlerTypeOK
  <2>4. MemoryTypeOK'
    BY DEF MemoryTypeOK
  <2>5. (lent \subseteq Buffers /\ delivered \in Seq(Nat))'
    OBVIOUS
  <2> QED
    BY <2>1, <2>2, <2>3, <2>4, <2>5
<1>4. Control'
  BY DEF Control, Finishing, Dropped
<1>5. Distinct'
  BY DEF Distinct
<1>6. Bounds'
  BY DEF Bounds
<1>7. Ownership'
  BY DEF Ownership, Held
<1> QED
  BY <1>3, <1>4, <1>5, <1>6, <1>7

\* uart_rx_disable accepted.
LEMMA DisableStep ==
  ASSUME IInv, Disable
  PROVE  IInv'
<1> USE BufferAssumption
    DEF BufferAssumption, IInv, TypeOK, UartTypeOK, clientVars,
        Disable, RxDisable, RxDisableRet, CanCall, in_callback
<1>1. state = "ACTIVE"
  BY DEF DriverTypeOK
<1>3. TypeOK'
  <2>1. RegsTypeOK'
    BY DEF RegsTypeOK
  <2>2. DriverTypeOK'
    BY DEF DriverTypeOK
  <2>3. HandlerTypeOK'
    BY DEF HandlerTypeOK
  <2>4. MemoryTypeOK'
    BY DEF MemoryTypeOK
  <2>5. (lent \subseteq Buffers /\ delivered \in Seq(Nat))'
    OBVIOUS
  <2> QED
    BY <2>1, <2>2, <2>3, <2>4, <2>5
<1>4. Control'
  BY DEF Control
<1>5. Distinct'
  BY DEF Distinct
<1>6. Bounds'
  BY DEF Bounds
<1>7. Ownership'
  BY DEF Ownership, Held
<1> QED
  BY <1>3, <1>4, <1>5, <1>6, <1>7

\* The client reuses a buffer of its own.
LEMMA OverwriteStep ==
  ASSUME IInv, NEW b \in Buffers, Overwrite(b)
  PROVE  IInv'
<1> USE BufferAssumption
    DEF BufferAssumption, IInv, TypeOK, UartTypeOK, clientVars,
        Overwrite, uartVars, CanCall, in_callback
<1>3. TypeOK'
  <2>1. RegsTypeOK'
    BY DEF RegsTypeOK
  <2>2. DriverTypeOK'
    BY DEF DriverTypeOK, drvVars, uartVars
  <2>3. HandlerTypeOK'
    BY DEF HandlerTypeOK
  <2>4. MemoryTypeOK'
    BY DEF MemoryTypeOK
  <2>5. (lent \subseteq Buffers /\ delivered \in Seq(Nat))'
    OBVIOUS
  <2> QED
    BY <2>1, <2>2, <2>3, <2>4, <2>5
<1>4. Control'
  BY DEF Control, drvVars, uartVars
<1>5. Distinct'
  BY DEF Distinct, drvVars, uartVars
<1>6. Bounds'
  BY DEF Bounds, drvVars, uartVars
<1>7. Ownership'
  BY DEF Ownership, Held, drvVars, uartVars
<1> QED
  BY <1>3, <1>4, <1>5, <1>6, <1>7

\* A callback returns.
LEMMA CallbackReturnStep ==
  ASSUME IInv, CallbackReturn
  PROVE  IInv'
<1> USE BufferAssumption
    DEF BufferAssumption, IInv, TypeOK, UartTypeOK, clientVars,
        CallbackReturn, Released, in_callback
<1>3. TypeOK'
  <2>1. RegsTypeOK'
    BY DEF RegsTypeOK, drvVars, uartVars
  <2>2. DriverTypeOK'
    BY DEF DriverTypeOK, drvVars, uartVars
  <2>3. HandlerTypeOK'
    BY NoEventType DEF HandlerTypeOK
  <2>4. MemoryTypeOK'
    BY DEF MemoryTypeOK
  <2>5. (lent \subseteq Buffers /\ delivered \in Seq(Nat))'
    <3>1. CASE evt.type = "RX_RDY"
      <4>1. /\ evt.buf \in Buffers /\ evt.offset \in Nat /\ evt.len \in Nat
            /\ evt.offset + evt.len <= BufLen[evt.buf] /\ BufLen[evt.buf] \in Nat
            /\ mem[evt.buf] \in [1..BufLen[evt.buf] -> Nat]
        BY <3>1 DEF Bounds, HandlerTypeOK, Events, MemoryTypeOK
      <4> HIDE DEF BufferAssumption, IInv, TypeOK, UartTypeOK, CallbackReturn
      <4>3. Span \in Seq(Nat)
        BY <4>1, SpanSeq DEF Span
      <4> QED
        BY <3>1, <4>3 DEF IInv, TypeOK, CallbackReturn
    <3>2. CASE evt.type # "RX_RDY"
      BY <3>2
    <3> QED
      BY <3>1, <3>2
  <2> QED
    BY <2>1, <2>2, <2>3, <2>4, <2>5
<1>4. Control'
  BY DEF Control, drvVars, uartVars
<1>5. Distinct'
  BY NoEventType DEF Distinct, drvVars, uartVars
<1>6. Bounds'
  BY NoEventType DEF Bounds, drvVars, uartVars
<1>7. Ownership'
  <2>1. CASE evt.type = "RX_BUF_RELEASED"
    <3>1. evt.buf \notin {current_buf, next_buf, held_next}
      BY <2>1 DEF Distinct, Control
    <3>2. Held = ({current_buf, next_buf, held_next} \cup {evt.buf}) \ {NULL}
      BY <2>1 DEF Held
    <3>3. Held' = {current_buf, next_buf, held_next} \ {NULL}
      BY NoEventType DEF Held, drvVars
    <3> QED
      BY <2>1, <3>1, <3>2, <3>3 DEF Ownership
  <2>2. CASE evt.type # "RX_BUF_RELEASED"
    <3>1. Held' = Held
      BY <2>2, NoEventType DEF Held, drvVars
    <3> QED
      BY <2>2, <3>1 DEF Ownership
  <2> QED
    BY <2>1, <2>2
<1> QED
  BY <1>3, <1>4, <1>5, <1>6, <1>7

-----------------------------------------------------------------------------
(* The invariant, and what follows from it. *)

\* The initial state satisfies the invariant.
LEMMA InitIInv == Init => IInv
<1> SUFFICES ASSUME Init PROVE IInv
  OBVIOUS
<1> USE BufferAssumption DEF BufferAssumption, Init, UartInit
<1>1. TypeOK
  <2>1. RegsTypeOK /\ DriverTypeOK
    BY DEF RegsTypeOK, DriverTypeOK
  <2>2. HandlerTypeOK
    BY NoEventType DEF HandlerTypeOK, IsrSteps
  <2>3. MemoryTypeOK
    BY DEF MemoryTypeOK
  <2>4. lent \subseteq Buffers /\ delivered \in Seq(Nat)
    OBVIOUS
  <2> QED
    BY <2>1, <2>2, <2>3, <2>4 DEF TypeOK, UartTypeOK
<1>2. Control /\ Distinct /\ Bounds /\ Ownership
  BY NoEventType DEF Control, Distinct, Bounds, Ownership, Held, Finishing,
     Dropped
<1> QED
  BY <1>1, <1>2 DEF IInv

\* Every step preserves the invariant.
LEMMA NextIInv == IInv /\ [Next]_allVars => IInv'
<1> SUFFICES ASSUME IInv, [Next]_allVars PROVE IInv'
  OBVIOUS
<1>1. ASSUME Call PROVE IInv'
  BY <1>1, SetStep, EnableStep, RespondStep, OverwriteStep, DisableStep DEF
     Call
<1>2. ASSUME (ByteArrives \/ IsrEnter \/ IsrStep) /\ UNCHANGED clientVars
      PROVE  IInv'
  BY <1>2, ByteArrivesStep, IsrEnterStep, AfterFirstRequestStep,
     ReadStatusStep, ReadDataStep, SwapBuffersStep, RequestNextStep,
     AfterRequestStep, FinishReportStep, FinishReleaseStep,
     FinishReleaseNextStep, FinishDisableStep, IsrReturnStep DEF IsrStep
<1>3. ASSUME UNCHANGED allVars PROVE IInv'
  BY <1>3 DEF allVars, vars, uartVars, drvVars, clientVars, IInv, TypeOK,
     UartTypeOK, RegsTypeOK, DriverTypeOK, HandlerTypeOK, MemoryTypeOK,
     Control, Distinct, Bounds, Ownership, Held
<1> QED
  BY <1>1, <1>2, <1>3, CallbackReturnStep DEF Next

\* The inductive invariant: what the step the handler is at says about the
\* pointers, positions and flags of struct lab20_uart_data.
THEOREM Invariance == Spec => []IInv
BY InitIInv, NextIInv, PTL DEF Spec

\* Every register, field, buffer and event of the driver keeps its type.
THEOREM TypeCorrect == Spec => []TypeOK
<1>1. IInv => TypeOK
  BY DEF IInv
<1> QED
  BY <1>1, Invariance, PTL

\* The buffers lent and not yet released are exactly those the driver still
\* holds, whatever stops the reception: finish_rx leaks none and keeps none.
THEOREM BuffersAccounted == Spec => []Ownership
<1>1. IInv => Ownership
  BY DEF IInv
<1> QED
  BY <1>1, Invariance, PTL

\* A buffer that is lent is refused, whichever call offers it.
LEMMA LentRefused ==
  ASSUME IInv, CanCall, NEW b \in lent
  PROVE  RxBufRspRet(b) # "OK" /\ RxEnableRet # "OK"
<1>1. b \in Held /\ b # NULL
  BY DEF IInv, Ownership, Held
<1>2. RxEnableRet # "OK"
  BY <1>1 DEF RxEnableRet, IInv, Control, Ownership, Held, Distinct,
     Dropped, CanCall, in_callback
<1>3. RxBufRspRet(b) # "OK"
  BY <1>1 DEF RxBufRspRet, IInv, Control, Held, Distinct, Dropped, Finishing
<1> QED
  BY <1>2, <1>3

\* rx_buf_rsp and rx_enable never accept a buffer that is still lent, from any
\* thread and from inside any callback.
THEOREM NoDoubleLending == Spec => []RefusesLent
<1>1. IInv => RefusesLent
  BY LentRefused DEF RefusesLent
<1> QED
  BY <1>1, Invariance, PTL

\* When the handler is about to store a byte, the place it stores it to lies
\* inside a buffer the client has lent.
THEOREM StoresInBounds == Spec => []WriteInBounds
<1>1. IInv => WriteInBounds
  <2> SUFFICES ASSUME IInv, isr = "data"
               PROVE  current_buf \in lent /\ current_pos \in 0..(BufLen[current_buf] - 1)
    BY DEF WriteInBounds
  <2>1. current_buf \in Buffers /\ current_buf # NULL /\ state = "ACTIVE"
    BY DEF IInv, TypeOK, UartTypeOK, DriverTypeOK, Control, Dropped
  <2>2. current_buf \in lent
    BY <2>1 DEF IInv, Ownership, Held
  <2>3. current_pos \in Nat /\ current_pos < BufLen[current_buf]
    BY <2>1 DEF IInv, TypeOK, UartTypeOK, DriverTypeOK, Bounds
  <2>4. BufLen[current_buf] \in Nat
    BY <2>1, BufferAssumption DEF BufferAssumption
  <2> QED
    BY <2>2, <2>3, <2>4
<1> QED
  BY <1>1, Invariance, PTL

\* emit always has a callback to call while the handler runs: callback_set
\* cannot clear it under the handler's feet.
THEOREM CallbackStays == Spec => []CallbackPresent
<1>1. IInv => CallbackPresent
  BY DEF IInv, Control, CallbackPresent
<1> QED
  BY <1>1, Invariance, PTL
-----------------------------------------------------------------------------
(***************************************************************************)
(* Delivery: the bytes accepted are those delivered and those Unreported,  *)
(* which are the bytes a callback is reading (InCallback) and the rest of  *)
(* the current buffer (InBuffer).  Reports is what a switch or a release   *)
(* needs: the buffer it lets go of has nothing left to report, and the     *)
(* buffer a callback reads from is still the current one.                  *)
(***************************************************************************)

Reports ==
  /\ isr \in {"full", "release", "swapped"} => reported = current_pos
  /\ evt.type = "RX_RDY" =>
       evt.buf = current_buf /\ evt.len > 0 /\ isr \in {"full", "release"}

DInv == IInv /\ Reports /\ Delivery

InCallback == IF evt.type = "RX_RDY" THEN Span ELSE <<>>

InBuffer ==
  IF current_buf = NULL
  THEN <<>>
  ELSE [i \in 1..(current_pos - reported) |-> mem[current_buf][reported + i]]

\* What is unreported, before and after a step, in its two parts.
LEMMA UnreportedParts ==
  Unreported = InCallback \o InBuffer /\ Unreported' = InCallback' \o InBuffer'
BY DEF Unreported, InCallback, InBuffer

\* The unreported bytes are sequences of bytes.
LEMMA PartsType ==
  ASSUME IInv
  PROVE  InCallback \in Seq(Nat) /\ InBuffer \in Seq(Nat)
<1>0. TypeOK /\ UartTypeOK /\ Bounds
  BY DEF IInv, TypeOK
<1>1. InCallback \in Seq(Nat)
  <2>1. CASE evt.type = "RX_RDY"
    <3>1. /\ evt.buf \in Buffers /\ evt.offset \in Nat /\ evt.len \in Nat
          /\ evt.offset + evt.len <= BufLen[evt.buf]
      BY <1>0, <2>1 DEF Bounds, UartTypeOK, HandlerTypeOK, Events
    <3>2. BufLen[evt.buf] \in Nat /\ mem[evt.buf] \in [1..BufLen[evt.buf] -> Nat]
      BY <1>0, <3>1, BufferAssumption DEF BufferAssumption, UartTypeOK, MemoryTypeOK
    <3>3. Span \in Seq(Nat)
      BY <3>1, <3>2, SpanSeq DEF Span
    <3> QED
      BY <2>1, <3>3 DEF InCallback
  <2>2. CASE evt.type # "RX_RDY"
    BY <2>2 DEF InCallback
  <2> QED
    BY <2>1, <2>2
<1>2. InBuffer \in Seq(Nat)
  <2>1. CASE current_buf # NULL
    <3>1. /\ current_buf \in Buffers /\ reported \in Nat /\ current_pos \in Nat
          /\ reported <= current_pos /\ current_pos <= BufLen[current_buf]
      BY <1>0, <2>1 DEF Bounds, UartTypeOK, DriverTypeOK
    <3>2. BufLen[current_buf] \in Nat /\ mem[current_buf] \in [1..BufLen[current_buf] -> Nat]
      BY <1>0, <3>1, BufferAssumption DEF BufferAssumption, UartTypeOK, MemoryTypeOK
    <3>3. current_pos - reported \in Nat /\ reported + (current_pos - reported) <= BufLen[current_buf]
      BY <3>1, <3>2
    <3>4. [i \in 1..(current_pos - reported) |-> mem[current_buf][reported + i]] \in Seq(Nat)
      BY <3>1, <3>2, <3>3, SpanSeq
    <3> QED
      BY <2>1, <3>4 DEF InBuffer
  <2>2. CASE current_buf = NULL
    BY <2>2 DEF InBuffer
  <2> QED
    BY <2>1, <2>2
<1> QED
  BY <1>1, <1>2

\* Nothing is left in the buffer when its last position has been reported.
LEMMA NothingLeft ==
  ASSUME TypeOK, current_buf = NULL \/ reported = current_pos
  PROVE  InBuffer = <<>>
<1>1. CASE current_buf = NULL
  BY <1>1 DEF InBuffer
<1>2. CASE current_buf # NULL /\ reported = current_pos
  <2>1. current_pos - reported = 0
    BY <1>2 DEF TypeOK, UartTypeOK, DriverTypeOK
  <2> QED
    BY <1>2, <2>1 DEF InBuffer
<1> QED
  BY <1>1, <1>2

\* A step that moves no byte between the buffer, the callback and the client.
LEMMA Undisturbed ==
  ASSUME DInv, IInv', Reports', UNCHANGED <<accepted, delivered>>,
         InCallback' = InCallback, InBuffer' = InBuffer
  PROVE  DInv'
BY UnreportedParts DEF DInv, Delivery

\* A step that touches neither the current buffer nor what was read from it.
LEMMA FrameStep ==
  ASSUME DInv, IInv', Reports',
         UNCHANGED <<accepted, delivered, current_buf, current_pos, reported, mem>>,
         evt' = evt \/ (evt.type # "RX_RDY" /\ evt'.type # "RX_RDY")
  PROVE  DInv'
<1>1. InBuffer' = InBuffer
  BY DEF InBuffer
<1>2. InCallback' = InCallback
  BY DEF InCallback, Span
<1> QED
  BY <1>1, <1>2, Undisturbed

\* The handler enters finish_rx: RX_STOPPED carries no byte.
LEMMA FinishDelivers ==
  ASSUME DInv, IInv', NEW overrun \in BOOLEAN, BeginFinish(overrun),
         evt = NoEvent, UNCHANGED <<mem, accepted, delivered>>
  PROVE  DInv'
<1>1. evt.type # "RX_RDY" /\ evt'.type # "RX_RDY"
  BY NoEventType DEF BeginFinish, Event
<1>2. Reports'
  BY <1>1 DEF Reports, BeginFinish
<1> QED
  BY <1>1, <1>2, FrameStep DEF BeginFinish

\* The handler moves on, or calls the client for something other than bytes.
LEMMA MoveDelivers ==
  ASSUME DInv, IInv', isr' \notin {"full", "release", "swapped"},
         evt = NoEvent, evt'.type # "RX_RDY",
         UNCHANGED <<current_buf, current_pos, reported, mem, accepted, delivered>>
  PROVE  DInv'
<1>1. evt.type # "RX_RDY"
  BY NoEventType
<1>2. Reports'
  BY DEF Reports
<1> QED
  BY <1>1, <1>2, FrameStep

\* What stays of the invariant when a call of the client leaves isr, evt and the
\* current buffer alone.
LEMMA CallDelivers ==
  ASSUME DInv, IInv',
         UNCHANGED <<current_buf, current_pos, reported, mem, accepted, delivered, isr, evt>>
  PROVE  DInv'
<1>1. Reports'
  BY DEF DInv, Reports
<1> QED
  BY <1>1, FrameStep

\* uart_rx_enable: no buffer is current before, and none of its bytes is after.
LEMMA EnableDelivers ==
  ASSUME DInv, IInv', NEW b \in Buffers, Enable(b)
  PROVE  DInv'
<1>1. current_buf = NULL /\ isr \in {"off", "return"} /\ evt' = evt /\ isr' = isr
  BY DEF DInv, IInv, Control, Enable, RxEnable, RxEnableRet
<1>2. InBuffer = <<>>
  BY <1>1, NothingLeft DEF DInv, IInv
<1>3. InBuffer' = <<>>
  BY DEF InBuffer, Enable, RxEnable
<1>4. InCallback' = InCallback
  BY DEF InCallback, Span, Enable, RxEnable
<1>5. Reports'
  BY <1>1 DEF DInv, Reports
<1> QED
  BY <1>2, <1>3, <1>4, <1>5, Undisturbed DEF Enable, RxEnable

\* The client overwrites a buffer of its own: not the current one, which is
\* also the one a callback reads.
LEMMA OverwriteDelivers ==
  ASSUME DInv, IInv', NEW b \in Buffers, Overwrite(b)
  PROVE  DInv'
<1>1. current_buf # NULL => current_buf # b
  BY DEF DInv, IInv, Ownership, Held, Distinct, Overwrite, Released
<1>2. \A c \in Buffers : c # b => mem'[c] = mem[c]
  BY DEF DInv, IInv, TypeOK, UartTypeOK, MemoryTypeOK, Overwrite
<1>3. current_buf \in Buffers \cup {NULL} /\ NULL \notin Buffers
  BY BufferAssumption DEF BufferAssumption, DInv, IInv, TypeOK, UartTypeOK, DriverTypeOK
<1>4. InBuffer' = InBuffer
  <2>1. UNCHANGED <<current_buf, current_pos, reported>>
    BY DEF Overwrite, drvVars
  <2>2. CASE current_buf # NULL
    <3>1. mem'[current_buf] = mem[current_buf]
      BY <1>1, <1>2, <1>3, <2>2
    <3> QED
      BY <2>1, <3>1 DEF InBuffer
  <2>3. CASE current_buf = NULL
    BY <2>1, <2>3 DEF InBuffer
  <2> QED
    BY <2>2, <2>3
<1>5. InCallback' = InCallback
  <2>1. CASE evt.type = "RX_RDY"
    <3>1. evt.buf \in Buffers /\ evt.buf # b
      BY <1>1, <1>3, <2>1 DEF DInv, IInv, Bounds, Reports
    <3> QED
      BY <1>2, <2>1, <3>1 DEF InCallback, Span, Overwrite
  <2>2. CASE evt.type # "RX_RDY"
    BY <2>2 DEF InCallback, Overwrite
  <2> QED
    BY <2>1, <2>2
<1>6. Reports'
  BY DEF DInv, Reports, Overwrite, drvVars
<1> QED
  BY <1>4, <1>5, <1>6, Undisturbed DEF Overwrite, clientVars

\* A callback returns: the bytes it has read are delivered.
LEMMA ReturnDelivers ==
  ASSUME DInv, IInv', CallbackReturn
  PROVE  DInv'
<1>1. UNCHANGED <<accepted, current_buf, current_pos, reported, mem, isr>>
  BY DEF CallbackReturn, drvVars
<1>2. evt'.type = "NONE"
  BY NoEventType DEF CallbackReturn
<1>3. Reports'
  BY <1>1, <1>2 DEF DInv, Reports
<1>4. CASE evt.type = "RX_RDY"
  <2>1. delivered' = delivered \o InCallback
    BY <1>4 DEF CallbackReturn, InCallback
  <2>2. InCallback' = <<>> /\ InBuffer' = InBuffer
    BY <1>1, <1>2 DEF InCallback, InBuffer
  <2>3. /\ delivered \in Seq(Nat) /\ InCallback \in Seq(Nat) /\ InBuffer \in Seq(Nat)
    BY PartsType DEF DInv, IInv, TypeOK
  <2>4. Unreported' = <<>> \o InBuffer
    BY <2>2, UnreportedParts
  <2>5. Unreported' = InBuffer
    BY <2>3, <2>4, ConcatEmptySeq
  <2>6. accepted = delivered \o (InCallback \o InBuffer)
    BY UnreportedParts DEF DInv, Delivery
  <2>7. accepted = (delivered \o InCallback) \o InBuffer
    BY <2>3, <2>6, ConcatByteStrings, Zenon
  <2> QED
    <3>0. accepted' = accepted
      BY <1>1
    <3>1. accepted' = delivered' \o Unreported'
      BY <2>1, <2>5, <2>7, <3>0, Zenon
    <3> QED
      BY <1>3, <3>1 DEF DInv, Delivery
<1>5. CASE evt.type # "RX_RDY"
  BY <1>1, <1>2, <1>3, <1>5, FrameStep DEF CallbackReturn
<1> QED
  BY <1>4, <1>5

\* The byte goes to the end of what is unreported; a full buffer is handed to
\* the callback in one piece.
LEMMA ReadDataDelivers ==
  ASSUME DInv, IInv', ReadData, UNCHANGED clientVars
  PROVE  DInv'
<1>1. /\ current_buf \in Buffers /\ current_buf # NULL
      /\ reported \in Nat /\ current_pos \in Nat /\ data \in Nat
      /\ reported <= current_pos /\ current_pos < BufLen[current_buf]
      /\ BufLen[current_buf] \in Nat
      /\ mem[current_buf] \in [1..BufLen[current_buf] -> Nat]
      /\ mem'[current_buf] = [mem[current_buf] EXCEPT ![current_pos + 1] = data]
      /\ evt = NoEvent /\ evt.type = "NONE"
  <2>1. isr = "data" /\ evt = NoEvent /\ state = "ACTIVE"
    BY DEF ReadData, Continue, in_callback, DInv, IInv, Control
  <2>2. current_buf \in Buffers /\ current_buf # NULL
    BY <2>1 DEF DInv, IInv, Control, Dropped, TypeOK, UartTypeOK, DriverTypeOK
  <2>3. /\ reported \in Nat /\ current_pos \in Nat /\ data \in Nat
        /\ reported <= current_pos /\ current_pos < BufLen[current_buf]
    BY <2>1, <2>2 DEF DInv, IInv, Bounds, TypeOK, UartTypeOK, DriverTypeOK, RegsTypeOK
  <2>4. /\ BufLen[current_buf] \in Nat
        /\ mem[current_buf] \in [1..BufLen[current_buf] -> Nat]
    BY <2>2, BufferAssumption
       DEF BufferAssumption, DInv, IInv, TypeOK, UartTypeOK, MemoryTypeOK
  <2>5. mem'[current_buf] = [mem[current_buf] EXCEPT ![current_pos + 1] = data]
    BY <2>2 DEF ReadData, DInv, IInv, TypeOK, UartTypeOK, MemoryTypeOK
  <2> QED
    BY <2>1, <2>2, <2>3, <2>4, <2>5, NoEventType
<1>2. InCallback = <<>> /\ InBuffer \in Seq(Nat) /\ delivered \in Seq(Nat)
  BY <1>1, PartsType DEF InCallback, DInv, IInv, TypeOK
<1> DEFINE Longer ==
      [i \in 1..(current_pos + 1 - reported) |-> mem'[current_buf][reported + i]]
<1>3. Longer = Append(InBuffer, data) /\ Longer \in Seq(Nat)
  <2>1. Longer = Append(InBuffer, data)
    <3> DEFINE m == mem[current_buf]
               m2 == mem'[current_buf]
               size == BufLen[current_buf]
    <3>1. size \in Nat /\ m \in [1..size -> Nat] /\ m2 = [m EXCEPT ![current_pos + 1] = data]
      BY <1>1
    <3>2. /\ data \in Nat /\ reported \in Nat /\ current_pos \in Nat
          /\ reported <= current_pos /\ current_pos < size
      BY <1>1
    <3>3. InBuffer = [i \in 1..(current_pos - reported) |-> m[reported + i]]
      BY <1>1 DEF InBuffer
    <3>4. Longer = [i \in 1..(current_pos + 1 - reported) |-> m2[reported + i]]
      OBVIOUS
    <3> HIDE DEF m, m2, size, Longer
    <3>5. [i \in 1..(current_pos + 1 - reported) |-> m2[reported + i]]
            = Append([i \in 1..(current_pos - reported) |-> m[reported + i]], data)
      BY <3>1, <3>2, SpanAppend
    <3> QED
      BY <3>3, <3>4, <3>5, Zenon
  <2> HIDE DEF Longer
  <2>2. data \in Nat /\ InBuffer \in Seq(Nat)
    BY <1>1, <1>2
  <2>3. Append(InBuffer, data) \in Seq(Nat)
    BY <2>2, AppendProperties
  <2> QED
    BY <2>1, <2>3
<1> HIDE DEF Longer
<1>4. Unreported' = Longer /\ Reports'
  <2>1. CASE current_pos + 1 < BufLen[current_buf]
    <3>1. /\ evt' = evt /\ isr' = "off" /\ reported' = reported
          /\ current_pos' = current_pos + 1 /\ current_buf' = current_buf
      BY <2>1 DEF ReadData, ownVars
    <3>2. InCallback' = <<>>
      BY <1>1, <3>1 DEF InCallback
    <3>3. InBuffer' = Longer
      BY <1>1, <3>1 DEF InBuffer, Longer
    <3>4. Unreported' = <<>> \o Longer
      BY <3>2, <3>3, UnreportedParts
    <3> QED
      BY <1>1, <1>3, <3>1, <3>4, ConcatEmptySeq DEF Reports
  <2>2. CASE ~(current_pos + 1 < BufLen[current_buf])
    <3>1. /\ evt' = Event("RX_RDY", current_buf, reported, current_pos + 1 - reported)
          /\ isr' = "full" /\ reported' = current_pos + 1
          /\ current_pos' = current_pos + 1 /\ current_buf' = current_buf
      BY <2>2 DEF ReadData, ownVars
    <3>2. /\ evt'.type = "RX_RDY" /\ evt'.buf = current_buf /\ evt'.offset = reported
          /\ evt'.len = current_pos + 1 - reported
      BY <3>1 DEF Event
    <3>3. InCallback' = Longer
      BY <3>2 DEF InCallback, Span, Longer
    <3>4. InBuffer' = <<>>
      <4>1. current_pos' - reported' = 0
        BY <1>1, <3>1
      <4> QED
        BY <4>1 DEF InBuffer
    <3>5. Unreported' = Longer \o <<>>
      BY <3>3, <3>4, UnreportedParts
    <3>6. evt'.len > 0
      BY <1>1, <3>2
    <3>7. Reports'
      BY <3>1, <3>2, <3>6 DEF Reports
    <3> QED
      BY <1>3, <3>5, <3>7, ConcatEmptySeq
  <2> QED
    BY <2>1, <2>2
<1>5. accepted = delivered \o InBuffer
  <2>1. accepted = delivered \o (<<>> \o InBuffer)
    BY <1>2, UnreportedParts DEF DInv, Delivery
  <2> QED
    BY <1>2, <2>1, ConcatEmptySeq
<1>6. Append(delivered \o InBuffer, data) = delivered \o Append(InBuffer, data)
  BY <1>1, <1>2, AppendConcat
<1>7. accepted' = Append(accepted, data) /\ delivered' = delivered
  BY DEF ReadData, clientVars
<1> QED
  BY <1>3, <1>4, <1>5, <1>6, <1>7 DEF DInv, Delivery

\* The switch: the full buffer has no byte left, the next one none yet.
LEMMA SwapDelivers ==
  ASSUME DInv, IInv', SwapBuffers, state = "ACTIVE", next_buf # NULL,
         UNCHANGED clientVars
  PROVE  DInv'
<1>1. evt = NoEvent /\ isr = "full" /\ reported = current_pos
  BY DEF SwapBuffers, Continue, in_callback, DInv, Reports
<1>2. /\ current_pos' = 0 /\ reported' = 0 /\ isr' = "swapped"
      /\ UNCHANGED <<mem, accepted, delivered>>
      /\ evt'.type = "RX_BUF_RELEASED"
  BY DEF SwapBuffers, Event, clientVars
<1>3. InBuffer = <<>> /\ InBuffer' = <<>>
  <2>1. InBuffer = <<>>
    BY <1>1, NothingLeft DEF DInv, IInv
  <2>2. InBuffer' = <<>>
    BY <1>2 DEF InBuffer
  <2> QED
    BY <2>1, <2>2
<1>4. InCallback = <<>> /\ InCallback' = <<>>
  BY <1>1, <1>2, NoEventType DEF InCallback
<1>5. Reports'
  BY <1>2 DEF Reports
<1> QED
  BY <1>2, <1>3, <1>4, <1>5, Undisturbed

\* finish_rx reports what is left in the current buffer.
LEMMA FinishReportDelivers ==
  ASSUME DInv, IInv', FinishReport, UNCHANGED clientVars
  PROVE  DInv'
<1>1. /\ evt = NoEvent /\ evt.type = "NONE" /\ isr' = "release" /\ reported' = current_pos
      /\ UNCHANGED <<current_buf, current_pos, mem, accepted, delivered>>
      /\ reported \in Nat /\ current_pos \in Nat
  BY NoEventType DEF FinishReport, Continue, in_callback, ownVars, clientVars,
     DInv, IInv, TypeOK, UartTypeOK, DriverTypeOK
<1>2. InCallback = <<>> /\ InBuffer \in Seq(Nat)
  BY <1>1, PartsType DEF InCallback, DInv
<1>3. InBuffer' = <<>>
  <2>1. current_pos' - reported' = 0
    BY <1>1
  <2> QED
    BY <2>1 DEF InBuffer
<1>4. InCallback' = InBuffer /\ Reports'
  <2>1. CASE current_pos = reported
    <3>1. evt'.type = "NONE"
      BY <2>1, NoEventType DEF FinishReport
    <3>2. InBuffer = <<>>
      BY <2>1, NothingLeft DEF DInv, IInv
    <3> QED
      BY <1>1, <3>1, <3>2 DEF InCallback, Reports
  <2>2. CASE current_pos # reported
    <3>1. /\ evt'.type = "RX_RDY" /\ evt'.buf = current_buf /\ evt'.offset = reported
          /\ evt'.len = current_pos - reported
      BY <2>2 DEF FinishReport, Event
    <3>2. current_buf # NULL
      BY <1>1 DEF FinishReport, Continue, DInv, IInv, Control, Dropped, Finishing
    <3>3. InBuffer = [i \in 1..evt'.len |-> mem[evt'.buf][evt'.offset + i]]
      BY <3>1, <3>2 DEF InBuffer
    <3>4. InCallback' = [i \in 1..evt'.len |-> mem[evt'.buf][evt'.offset + i]]
      BY <1>1, <3>1 DEF InCallback, Span
    <3>5. evt'.len > 0
      <4>1. reported <= current_pos
        BY DEF DInv, IInv, Bounds
      <4> QED
        BY <1>1, <2>2, <3>1, <4>1
    <3> QED
      BY <1>1, <3>1, <3>3, <3>4, <3>5 DEF Reports
  <2> QED
    BY <2>1, <2>2
<1>5. Unreported = InBuffer
  <2>1. Unreported = <<>> \o InBuffer
    BY <1>2, UnreportedParts
  <2> QED
    BY <1>2, <2>1, ConcatEmptySeq
<1>6. Unreported' = InBuffer
  <2>1. Unreported' = InBuffer \o <<>>
    BY <1>3, <1>4, UnreportedParts
  <2> QED
    BY <1>2, <2>1, ConcatEmptySeq
<1> QED
  BY <1>1, <1>4, <1>5, <1>6 DEF DInv, Delivery

\* finish_rx forgets a buffer that has nothing left to report.
LEMMA FinishReleaseDelivers ==
  ASSUME DInv, IInv', FinishRelease, UNCHANGED clientVars
  PROVE  DInv'
<1>1. /\ evt = NoEvent /\ reported = current_pos /\ current_buf' = NULL
      /\ isr' = "release_next" /\ UNCHANGED <<mem, accepted, delivered>>
  BY DEF FinishRelease, Continue, in_callback, clientVars, DInv, Reports
<1>2. evt'.type # "RX_RDY"
  BY NoEventType DEF FinishRelease, Event
<1>3. InBuffer = <<>> /\ InBuffer' = <<>>
  <2>1. InBuffer = <<>>
    BY <1>1, NothingLeft DEF DInv, IInv
  <2>2. InBuffer' = <<>>
    BY <1>1 DEF InBuffer
  <2> QED
    BY <2>1, <2>2
<1>4. InCallback = <<>> /\ InCallback' = <<>>
  BY <1>1, <1>2, NoEventType DEF InCallback
<1>5. Reports'
  BY <1>1, <1>2 DEF Reports
<1> QED
  BY <1>1, <1>3, <1>4, <1>5, Undisturbed

\* The other steps of the handler move no byte.
LEMMA HandlerDelivers ==
  ASSUME DInv, IInv', IsrEnter \/ IsrStep, UNCHANGED clientVars
  PROVE  DInv'
<1>0. UNCHANGED delivered
  BY DEF clientVars
<1>1. CASE IsrEnter
  <2>1. evt = NoEvent /\ isr = "off"
    BY <1>1 DEF IsrEnter, DInv, IInv, Control
  <2>2. CASE BeginFinish(FALSE)
    BY <1>0, <1>1, <2>1, <2>2, FinishDelivers DEF IsrEnter
  <2>3. CASE ~BeginFinish(FALSE)
    <3>1. /\ isr' \in {"off", "status", "first_request"}
          /\ evt' = evt \/ evt' = Event("RX_BUF_REQUEST", NULL, 0, 0)
          /\ UNCHANGED <<current_buf, current_pos, reported, mem, accepted>>
      BY <1>1, <2>1, <2>3 DEF IsrEnter, drvVars
    <3>2. evt'.type # "RX_RDY"
      BY <2>1, <3>1, NoEventType DEF Event
    <3> QED
      BY <1>0, <2>1, <3>1, <3>2, MoveDelivers
  <2> QED
    BY <2>2, <2>3
<1>2. CASE AfterFirstRequest \/ ReadStatus \/ AfterRequest \/ RequestNext
  <2>1. evt = NoEvent /\ UNCHANGED <<mem, accepted>>
    BY <1>2 DEF AfterFirstRequest, ReadStatus, AfterRequest, RequestNext, Continue,
       in_callback
  <2>2. CASE \E overrun \in BOOLEAN : BeginFinish(overrun)
    BY <1>0, <2>1, <2>2, FinishDelivers
  <2>3. CASE ~\E overrun \in BOOLEAN : BeginFinish(overrun)
    <3>1. /\ isr' \in {"off", "status", "data", "requested"}
          /\ evt' = evt \/ evt' = Event("RX_BUF_REQUEST", NULL, 0, 0)
          /\ UNCHANGED <<current_buf, current_pos, reported>>
      BY <1>2, <2>3 DEF AfterFirstRequest, ReadStatus, AfterRequest, RequestNext, drvVars
    <3>2. evt'.type # "RX_RDY"
      BY <2>1, <3>1, NoEventType DEF Event
    <3> QED
      BY <1>0, <2>1, <3>1, <3>2, MoveDelivers
  <2> QED
    BY <2>2, <2>3
<1>3. CASE SwapBuffers
  <2>1. evt = NoEvent /\ UNCHANGED <<mem, accepted>> /\ state \in {"ACTIVE", "STOPPING"}
    BY <1>3 DEF SwapBuffers, Continue, in_callback, DInv, IInv, Control, TypeOK,
       UartTypeOK, DriverTypeOK
  <2>2. CASE state = "STOPPING" \/ next_buf = NULL
    BY <1>0, <1>3, <2>1, <2>2, FinishDelivers DEF SwapBuffers
  <2>3. CASE state = "ACTIVE" /\ next_buf # NULL
    BY <1>3, <2>3, SwapDelivers
  <2> QED
    BY <2>1, <2>2, <2>3
<1>4. CASE FinishReleaseNext \/ FinishDisable \/ IsrReturn
  <2>1. /\ evt = NoEvent /\ isr' \in {"disable", "return", "off"}
        /\ UNCHANGED <<current_buf, current_pos, reported, mem, accepted>>
    BY <1>4 DEF FinishReleaseNext, FinishDisable, IsrReturn, Continue, in_callback, drvVars
  <2>2. evt'.type # "RX_RDY"
    BY <1>4, <2>1, NoEventType DEF FinishReleaseNext, FinishDisable, IsrReturn, Event
  <2> QED
    BY <1>0, <2>1, <2>2, MoveDelivers
<1> QED
  BY <1>1, <1>2, <1>3, <1>4, ReadDataDelivers, FinishReportDelivers,
     FinishReleaseDelivers DEF IsrStep

\* Every step keeps the accepted bytes delivered or unreported, in order.
LEMMA NextDInv == DInv /\ [Next]_allVars => DInv'
<1> SUFFICES ASSUME DInv, [Next]_allVars PROVE DInv'
  OBVIOUS
<1>0. IInv /\ IInv'
  BY NextIInv DEF DInv
<1>1. CASE \E cb \in BOOLEAN : Set(cb)
  BY <1>0, <1>1, CallDelivers DEF Set, CallbackSet, clientVars
<1>2. CASE \E b \in Buffers : Respond(b)
  BY <1>0, <1>2, CallDelivers DEF Respond, RxBufRsp
<1>3. CASE Disable
  BY <1>0, <1>3, CallDelivers DEF Disable, RxDisable, clientVars
<1>4. CASE ByteArrives /\ UNCHANGED clientVars
  BY <1>0, <1>4, CallDelivers DEF ByteArrives, drvVars, clientVars
<1>5. CASE UNCHANGED allVars
  BY <1>0, <1>5, CallDelivers DEF allVars, vars, drvVars, clientVars
<1> QED
  BY <1>0, <1>1, <1>2, <1>3, <1>4, <1>5, EnableDelivers, OverwriteDelivers,
     ReturnDelivers, HandlerDelivers DEF Next, Call

\* Before the first byte there is nothing to deliver.
LEMMA InitDInv == Init => DInv
<1> SUFFICES ASSUME Init PROVE DInv
  OBVIOUS
<1>1. IInv
  BY InitIInv
<1>2. Reports /\ evt.type # "RX_RDY"
  BY NoEventType DEF Init, UartInit, Reports
<1>3. Unreported = <<>> \o <<>>
  BY <1>2 DEF Unreported, Init, UartInit
<1>4. <<>> \o (<<>> \o <<>>) = <<>>
  BY ConcatEmptySeq, EmptySeq
<1> QED
  BY <1>1, <1>2, <1>3, <1>4 DEF DInv, Delivery, Init, UartInit

\* The invariant of the bytes.
LEMMA DeliveryInvariance == Spec => []DInv
BY InitDInv, NextDInv, PTL DEF Spec

\* No byte is lost, repeated or reordered between the DATA register and the
\* RX_RDY callbacks, across buffer switches, stops, overruns and restarts, for
\* buffers of any number and length and a client that overwrites its own.
THEOREM BytesDelivered == Spec => []Delivery
<1>1. DInv => Delivery
  BY DEF DInv
<1> QED
  BY <1>1, DeliveryInvariance, PTL
-----------------------------------------------------------------------------
(***************************************************************************)
(* ImplementsStream: every step of the driver and its client is a step of  *)
(* RxStream, or changes nothing RxStream sees.  Beyond the delivery of the *)
(* bytes this needs that the line's numbers only grow (Numbered).          *)
(***************************************************************************)

Numbered ==
  /\ data <= sent
  /\ isr = "data" => rxbf
  /\ accepted # <<>> =>
       /\ accepted[Len(accepted)] <= sent
       /\ rxbf => accepted[Len(accepted)] < data

SInv == DInv /\ Numbered

\* The byte stored is the last one and is not above the line's count.
LEMMA ReadDataNumbered ==
  ASSUME SInv, ReadData
  PROVE  Numbered'
<1>1. accepted \in Seq(Nat) /\ data \in Nat /\ sent \in Nat /\ data <= sent
  BY DEF SInv, DInv, IInv, TypeOK, UartTypeOK, MemoryTypeOK, RegsTypeOK, Numbered
<1>2. /\ accepted' = Append(accepted, data) /\ rxbf' = FALSE /\ isr' # "data"
      /\ UNCHANGED <<data, sent>>
  BY DEF ReadData
<1>3. accepted'[Len(accepted')] = data
  BY <1>1, <1>2, AppendProperties
<1> QED
  BY <1>1, <1>2, <1>3 DEF Numbered

\* A byte that arrives has a number above all earlier ones; in an overrun one of
\* the two is lost, and both are above what was stored.
LEMMA ByteArrivesNumbered ==
  ASSUME SInv, ByteArrives
  PROVE  Numbered'
<1>1. accepted \in Seq(Nat) /\ data \in Nat /\ sent \in Nat
  BY DEF SInv, DInv, IInv, TypeOK, UartTypeOK, MemoryTypeOK, RegsTypeOK
<1>2. accepted # <<>> => accepted[Len(accepted)] \in Nat
  BY <1>1
<1>3. /\ UNCHANGED <<accepted, isr>> /\ sent' = sent + 1
      /\ \/ rxbf /\ data' \in {data, sent + 1} /\ rxbf' = rxbf
         \/ ~rxbf /\ rxbf' = TRUE /\ data' = sent + 1
  BY DEF ByteArrives
<1>4. data' <= sent'
  BY <1>1, <1>3 DEF SInv, Numbered
<1>5. isr' = "data" => rxbf'
  BY <1>3 DEF SInv, Numbered
<1>6. ASSUME accepted # <<>>
      PROVE  accepted[Len(accepted)] <= sent' /\ accepted[Len(accepted)] < data'
  BY <1>1, <1>2, <1>3, <1>6 DEF SInv, Numbered
<1> QED
  BY <1>3, <1>4, <1>5, <1>6 DEF Numbered

\* Every step keeps the numbers of the bytes growing.
LEMMA NextNumbered == SInv /\ [Next]_allVars => Numbered'
<1> SUFFICES ASSUME SInv, [Next]_allVars PROVE Numbered'
  OBVIOUS
<1>1. CASE ReadData \/ ByteArrives
  BY <1>1, ReadDataNumbered, ByteArrivesNumbered
<1>2. CASE ReadStatus
  BY <1>2 DEF ReadStatus, BeginFinish, SInv, Numbered
<1>3. ASSUME UNCHANGED <<data, sent, rxbf, accepted>>, isr' = isr \/ isr' # "data"
      PROVE  Numbered'
  BY <1>3 DEF SInv, Numbered
<1>4. CASE Call
  BY <1>3, <1>4 DEF Call, Set, Enable, Respond, Disable, Overwrite, CallbackSet, RxEnable,
     RxBufRsp, RxDisable, uartVars
<1>5. CASE CallbackReturn \/ UNCHANGED allVars
  BY <1>3, <1>5 DEF CallbackReturn, allVars, vars, uartVars
<1>6. CASE IsrEnter \/ AfterFirstRequest \/ RequestNext \/ AfterRequest \/ SwapBuffers
  BY <1>3, <1>6 DEF IsrEnter, AfterFirstRequest, RequestNext, AfterRequest, SwapBuffers,
     BeginFinish
<1>7. CASE FinishReport \/ FinishRelease \/ FinishReleaseNext \/ FinishDisable \/ IsrReturn
  BY <1>3, <1>7 DEF FinishReport, FinishRelease, FinishReleaseNext, FinishDisable, IsrReturn,
     uartVars
<1> QED
  BY <1>1, <1>2, <1>4, <1>5, <1>6, <1>7 DEF Next, IsrStep

\* The invariant of the refinement.
LEMMA StreamInvariance == Spec => []SInv
<1>1. Init => SInv
  BY InitDInv DEF SInv, Numbered, Init, UartInit
<1>2. SInv /\ [Next]_allVars => SInv'
  BY NextDInv, NextNumbered DEF SInv
<1> QED
  BY <1>1, <1>2, PTL DEF Spec

\* A sequence is a prefix of what it is continued to.
LEMMA PrefixFacts ==
  ASSUME NEW s \in Seq(Nat), NEW t \in Seq(Nat)
  PROVE  /\ Stream!IsPrefix(s, s \o t)
         /\ t # <<>> => Stream!IsStrictPrefix(s, s \o t)
<1>1. /\ s \o t \in Seq(Nat) /\ Len(s \o t) = Len(s) + Len(t)
      /\ \A i \in 1..Len(s) : (s \o t)[i] = s[i]
  BY ConcatProperties
<1>2. Len(s) \in Nat /\ Len(t) \in Nat
  OBVIOUS
<1>3. SubSeq(s, 1, Len(s)) = SubSeq(s \o t, 1, Len(s))
  <2>1. SubSeq(s \o t, 1, Len(s)) \in Seq(Nat) /\ Len(SubSeq(s \o t, 1, Len(s))) = Len(s)
    BY <1>1, <1>2
  <2>2. \A i \in 1..Len(s) : SubSeq(s \o t, 1, Len(s))[i] = s[i]
    BY <1>1, <1>2
  <2>3. SubSeq(s \o t, 1, Len(s)) = s
    BY <2>1, <2>2, SeqEqual
  <2> QED
    BY <2>3, SubSeqFull
<1>4. t # <<>> => s \o t # s
  <2>1. t # <<>> => Len(t) > 0
    OBVIOUS
  <2> QED
    BY <1>1, <1>2, <2>1
<1> QED
  BY <1>1, <1>2, <1>3, <1>4 DEF Stream!IsPrefix, Stream!IsStrictPrefix

\* What RxStream sees of a state.
seen == <<state, lent, accepted, delivered>>

\* Accepted by uart_rx_enable: nothing is lent before.
LEMMA EnableOpens ==
  ASSUME SInv, NEW b \in Buffers, Enable(b)
  PROVE  Stream!Open(b)
<1>1. state = "IDLE" /\ isr \in {"off", "return"}
  BY DEF SInv, DInv, IInv, Control, Enable, RxEnable, RxEnableRet
<1>2. current_buf = NULL /\ next_buf = NULL /\ held_next = NULL
  BY <1>1 DEF SInv, DInv, IInv, Control
<1>3. evt.type # "RX_BUF_RELEASED"
  BY <1>1 DEF SInv, DInv, IInv, Distinct, Dropped
<1>4. lent = {}
  BY <1>2, <1>3 DEF SInv, DInv, IInv, Ownership, Held
<1> QED
  BY <1>1, <1>4 DEF Stream!Open, Enable, RxEnable

\* Accepted by uart_rx_buf_rsp: the buffer is not lent yet.
LEMMA RespondLends ==
  ASSUME SInv, NEW b \in Buffers, Respond(b)
  PROVE  Stream!Lend(b)
<1>1. state = "ACTIVE" /\ RxBufRspRet(b) = "OK"
  BY DEF Respond, RxBufRsp, RxBufRspRet
<1>2. b \notin lent
  BY <1>1, LentRefused DEF SInv, DInv, Respond
<1> QED
  BY <1>1, <1>2 DEF Stream!Lend, Respond, RxBufRsp

\* Entering finish_rx closes the stream, unless uart_rx_disable has done so.
LEMMA FinishCloses ==
  ASSUME SInv, NEW overrun \in BOOLEAN, BeginFinish(overrun), state # "IDLE",
         UNCHANGED <<lent, accepted, delivered>>
  PROVE  Stream!Close \/ UNCHANGED seen
<1>1. state \in {"ACTIVE", "STOPPING"} /\ state' = "STOPPING"
  BY DEF BeginFinish, SInv, DInv, IInv, TypeOK, UartTypeOK, DriverTypeOK
<1> QED
  BY <1>1 DEF Stream!Close, seen

\* RX_RDY reports something; RX_BUF_RELEASED comes when all was reported, and
\* while reception goes on another buffer is lent.
LEMMA ReturnReports ==
  ASSUME SInv, CallbackReturn
  PROVE  (\E b \in Buffers : Stream!Return(b)) \/ Stream!Report \/ UNCHANGED seen
<1>0. UNCHANGED <<state, accepted>> /\ TypeOK /\ UartTypeOK
  BY DEF CallbackReturn, drvVars, SInv, DInv, IInv, TypeOK
<1>1. CASE evt.type = "RX_RDY"
  <2>1. delivered' = delivered \o InCallback /\ lent' = lent
    BY <1>1 DEF CallbackReturn, InCallback, Released
  <2>2. InCallback \in Seq(Nat) /\ InBuffer \in Seq(Nat) /\ delivered \in Seq(Nat)
    BY <1>0, PartsType DEF SInv, DInv, TypeOK
  <2>3. InCallback # <<>>
    <3>1. evt.len \in Nat /\ evt.len > 0
      BY <1>0, <1>1 DEF SInv, DInv, Reports, UartTypeOK, HandlerTypeOK, Events
    <3>2. Len(Span) = evt.len
      BY <3>1 DEF Span
    <3> QED
      BY <1>1, <3>1, <3>2 DEF InCallback
  <2>4. accepted = (delivered \o InCallback) \o InBuffer
    <3>1. accepted = delivered \o (InCallback \o InBuffer)
      BY UnreportedParts DEF SInv, DInv, Delivery
    <3> QED
      BY <2>2, <3>1, ConcatByteStrings, Zenon
  <2>5. delivered \o InCallback \in Seq(Nat)
    BY <2>2, ConcatProperties
  <2>6. Stream!IsPrefix(delivered', accepted)
    BY <2>1, <2>2, <2>4, <2>5, PrefixFacts, Zenon
  <2>7. Stream!IsStrictPrefix(delivered, delivered')
    BY <2>1, <2>2, <2>3, PrefixFacts, Zenon
  <2> QED
    BY <1>0, <2>1, <2>6, <2>7 DEF Stream!Report
<1>2. CASE evt.type = "RX_BUF_RELEASED"
  <2>1. /\ evt.buf \in Buffers /\ isr \in {"swapped", "release_next", "disable"}
        /\ evt.buf # current_buf
    BY <1>0, <1>2 DEF SInv, DInv, IInv, Distinct, Dropped, UartTypeOK, HandlerTypeOK, Events
  <2>2. evt.buf \in lent
    BY <1>2, <2>1, BufferAssumption DEF SInv, DInv, IInv, Ownership, Held, BufferAssumption
  <2>3. lent' = lent \ {evt.buf} /\ delivered' = delivered
    BY <1>2 DEF CallbackReturn, Released
  <2>4. delivered = accepted
    <3>1. current_buf = NULL \/ reported = current_pos
      BY <2>1 DEF SInv, DInv, IInv, Control, Dropped, Reports
    <3>2. InBuffer = <<>> /\ InCallback = <<>>
      BY <1>0, <1>2, <3>1, NothingLeft DEF InCallback
    <3>3. accepted = delivered \o (<<>> \o <<>>)
      BY <3>2, UnreportedParts DEF SInv, DInv, Delivery
    <3>4. delivered \in Seq(Nat)
      BY <1>0 DEF TypeOK
    <3> QED
      BY <3>3, <3>4, ConcatEmptySeq, EmptySeq
  <2>5. state = "STOPPING" \/ lent' # {}
    <3>1. CASE isr = "swapped"
      <4>1. current_buf # NULL
        BY <3>1 DEF SInv, DInv, IInv, Control, Dropped
      <4>2. current_buf \in lent
        BY <4>1 DEF SInv, DInv, IInv, Ownership, Held
      <4> QED
        BY <2>1, <2>3, <4>2
    <3>2. CASE isr # "swapped"
      BY <2>1, <3>2 DEF SInv, DInv, IInv, Control, Finishing
    <3> QED
      BY <3>1, <3>2
  <2> QED
    BY <1>0, <2>1, <2>2, <2>3, <2>4, <2>5 DEF Stream!Return
<1>3. CASE evt.type \notin {"RX_RDY", "RX_BUF_RELEASED"}
  <2>1. delivered' = delivered /\ lent' = lent
    BY <1>3 DEF CallbackReturn, Released
  <2> QED
    BY <1>0, <2>1 DEF seen
<1> QED
  BY <1>1, <1>2, <1>3

\* The byte fetched from DATA is a new one.
LEMMA ReadDataReceives ==
  ASSUME SInv, ReadData, UNCHANGED clientVars
  PROVE  Stream!Receive
<1>1. /\ accepted' = Append(accepted, data)
      /\ UNCHANGED <<state, lent, delivered>> /\ isr = "data"
  BY DEF ReadData, Continue, clientVars
<1>2. accepted \in Seq(Nat) /\ data \in Nat
  BY DEF SInv, DInv, IInv, TypeOK, UartTypeOK, MemoryTypeOK, RegsTypeOK
<1>3. state = "ACTIVE" /\ lent # {}
  BY <1>1 DEF SInv, DInv, IInv, Control, Dropped, Ownership, Held
<1>4. /\ Len(accepted') = Len(accepted) + 1
      /\ accepted'[Len(accepted')] = data
  BY <1>1, <1>2, AppendProperties
<1>5. Stream!IsStrictPrefix(accepted, accepted')
  <2>1. <<data>> \in Seq(Nat) /\ <<data>> # <<>>
    BY <1>2
  <2>2. accepted' = accepted \o <<data>>
    BY <1>1, <1>2, AppendIsConcat
  <2> QED
    BY <1>2, <2>1, <2>2, PrefixFacts, Zenon
<1>6. accepted # <<>> => accepted[Len(accepted)] < data
  BY <1>1 DEF SInv, Numbered
<1>7. accepted # <<>> => accepted'[Len(accepted')] > accepted[Len(accepted)]
  <2> SUFFICES ASSUME accepted # <<>> PROVE data > accepted[Len(accepted)]
    BY <1>4
  <2>1. accepted[Len(accepted)] \in Nat
    BY <1>2
  <2> QED
    BY <1>2, <1>6, <2>1
<1> QED
  BY <1>1, <1>3, <1>4, <1>5, <1>7 DEF Stream!Receive, Stream!Last

\* RX_DISABLED comes when no buffer is lent and every byte has been reported.
LEMMA FinishDisableEnds ==
  ASSUME SInv, FinishDisable, UNCHANGED clientVars
  PROVE  Stream!End
<1>1. isr = "disable" /\ evt = NoEvent /\ evt.type = "NONE"
  BY NoEventType DEF FinishDisable, Continue, in_callback
<1>2. /\ state = "STOPPING" /\ current_buf = NULL /\ next_buf = NULL /\ held_next = NULL
  BY <1>1 DEF SInv, DInv, IInv, Control, Finishing, Dropped
<1>3. lent = {}
  BY <1>1, <1>2 DEF SInv, DInv, IInv, Ownership, Held
<1>4. delivered = accepted
  <2>1. InBuffer = <<>> /\ InCallback = <<>>
    BY <1>1, <1>2 DEF InBuffer, InCallback
  <2>2. accepted = delivered \o (<<>> \o <<>>)
    BY <2>1, UnreportedParts DEF SInv, DInv, Delivery
  <2>3. delivered \in Seq(Nat)
    BY DEF SInv, DInv, IInv, TypeOK
  <2> QED
    BY <2>2, <2>3, ConcatEmptySeq, EmptySeq
<1> QED
  BY <1>2, <1>3, <1>4 DEF Stream!End, FinishDisable, clientVars

\* Every step maps to a step of the stream or to none.
LEMMA StepSimulated ==
  ASSUME SInv, [Next]_allVars
  PROVE  [Stream!StreamNext]_(Stream!streamVars)
<1>1. ASSUME UNCHANGED seen PROVE UNCHANGED Stream!streamVars
  BY <1>1 DEF seen, Stream!streamVars
<1>2. CASE Call
  <2>1. CASE \E cb \in BOOLEAN : Set(cb)
    BY <1>1, <2>1 DEF Set, CallbackSet, clientVars, seen
  <2>2. CASE \E b \in Buffers : Enable(b) \/ Respond(b)
    BY <2>2, EnableOpens, RespondLends DEF Stream!StreamNext
  <2>3. CASE \E b \in Buffers : Overwrite(b)
    BY <1>1, <2>3 DEF Overwrite, drvVars, clientVars, seen
  <2>4. CASE Disable
    <3>1. Stream!Close
      BY <2>4 DEF Disable, RxDisable, RxDisableRet, clientVars, Stream!Close, SInv, DInv,
         IInv, TypeOK, UartTypeOK, DriverTypeOK
    <3> QED
      BY <3>1 DEF Stream!StreamNext
  <2> QED
    BY <1>2, <2>1, <2>2, <2>3, <2>4 DEF Call
<1>3. CASE CallbackReturn
  BY <1>1, <1>3, ReturnReports DEF Stream!StreamNext
<1>4. CASE (ByteArrives \/ IsrEnter \/ IsrStep) /\ UNCHANGED clientVars
  <2>0. UNCHANGED <<lent, delivered>>
    BY <1>4 DEF clientVars
  <2>1. CASE ByteArrives \/ FinishReport \/ FinishRelease \/ FinishReleaseNext \/ IsrReturn
    BY <1>1, <2>0, <2>1 DEF ByteArrives, FinishReport, FinishRelease, FinishReleaseNext,
       IsrReturn, drvVars, seen
  <2>2. CASE ReadData
    BY <1>4, <2>2, ReadDataReceives DEF Stream!StreamNext
  <2>3. CASE FinishDisable
    BY <1>4, <2>3, FinishDisableEnds DEF Stream!StreamNext
  <2>4. CASE IsrEnter \/ AfterFirstRequest \/ ReadStatus \/ SwapBuffers \/ RequestNext
             \/ AfterRequest
    <3>0. UNCHANGED accepted
      BY <2>4 DEF IsrEnter, AfterFirstRequest, ReadStatus, SwapBuffers, RequestNext,
         AfterRequest
    <3>1. CASE (\E overrun \in BOOLEAN : BeginFinish(overrun)) /\ state # "IDLE"
      BY <1>1, <2>0, <3>0, <3>1, FinishCloses DEF Stream!StreamNext
    <3>2. CASE ~((\E overrun \in BOOLEAN : BeginFinish(overrun)) /\ state # "IDLE")
      <4>1. state' = state
        <5>1. CASE IsrEnter
          BY <3>2, <5>1 DEF IsrEnter, drvVars
        <5>2. isr \in {"first_request", "status", "full", "swapped", "requested"} =>
                state # "IDLE"
          BY DEF SInv, DInv, IInv, Control
        <5>3. CASE AfterFirstRequest \/ ReadStatus \/ SwapBuffers \/ RequestNext \/ AfterRequest
          BY <3>2, <5>2, <5>3 DEF AfterFirstRequest, ReadStatus, SwapBuffers, RequestNext,
             AfterRequest, Continue, drvVars
        <5> QED
          BY <2>4, <5>1, <5>3
      <4> QED
        BY <1>1, <2>0, <3>0, <4>1 DEF seen
    <3> QED
      BY <3>1, <3>2
  <2> QED
    BY <1>4, <2>1, <2>2, <2>3, <2>4 DEF IsrStep
<1>5. CASE UNCHANGED allVars
  BY <1>1, <1>5 DEF allVars, vars, drvVars, clientVars, seen
<1> QED
  BY <1>2, <1>3, <1>4, <1>5 DEF Next

\* The driver implements the receive contract of Zephyr's asynchronous API: under
\* any client, bytes in order into lent buffers, every byte reported before its
\* buffer comes back, and the end of reception only when nothing is owed.
THEOREM StreamImplemented == Spec => ImplementsStream
<1>1. Init => Stream!StreamInit
  BY DEF Init, UartInit, Stream!StreamInit
<1>2. SInv /\ [Next]_allVars => [Stream!StreamNext]_(Stream!streamVars)
  BY StepSimulated
<1> QED
  BY <1>1, <1>2, StreamInvariance, PTL DEF Spec, ImplementsStream, Stream!StreamSpec
=============================================================================
