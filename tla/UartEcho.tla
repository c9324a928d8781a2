------------------------------ MODULE UartEcho ------------------------------
(***************************************************************************)
(* Labs 10, 11 and 12: three ways to echo what a UART receives.  Lab 10    *)
(* echoes in the interrupt handler, lab 11 hands bytes to main through a   *)
(* ring buffer, lab 12 polls through a driver interface and prints a       *)
(* banner through the C library first.                                     *)
(*                                                                         *)
(* The handler preempts main between any two accesses to the ring; bytes   *)
(* arrive at any time.  Byte i has value i; an overrun loses the byte that *)
(* waits or the one that comes, as the data register is or is not loaded.  *)
(***************************************************************************)
EXTENDS Integers, Sequences, SequencesExt

CONSTANTS
  RB_SIZE,    \* cells of the ring
  MaxArrive,  \* bound: bytes that arrive
  Banner      \* what lab 12 prints: characters as negative codes

Newline == -10
CarriageReturn == -13

ASSUME EchoAssumption ==
  /\ RB_SIZE \in Nat \ {0, 1} /\ MaxArrive \in Nat
  /\ Banner \in Seq(Int) /\ \A i \in DOMAIN Banner : Banner[i] < 0

VARIABLES
  lab,                  \* which of the labs runs, "off" before reset
  rxbf, data, txbf,     \* STATE.RXBF, DATA, STATE.TXBF
  irq, irqen,           \* INTSTATUS.RXIRQ; CTRL.RXIRQEN with the NVIC enable
  arrived,              \* number of bytes that came over the line
  isr, isrByte,         \* the interrupt handler: step and its c
  pc, mainByte,         \* main: step and its c
  head, tail, cells,    \* rx_rb
  rx_overflow,
  text,                 \* what lab 12 has still to print
  out,                  \* history: what was written to the line, in order
  lost                  \* history: bytes overrun

echoVars == <<lab, rxbf, data, txbf, irq, irqen, arrived, isr, isrByte, pc, mainByte,
              head, tail, cells, rx_overflow, text, out, lost>>
uartRx == <<rxbf, data, irq, arrived, lost>>
ring == <<head, tail, cells, rx_overflow>>
mainVars == <<lab, irqen, pc, mainByte, text>>

EchoInit ==
  /\ lab = "off" /\ rxbf = FALSE /\ data = 0 /\ txbf = FALSE /\ irq = FALSE
  /\ irqen = FALSE /\ arrived = 0 /\ isr = "off" /\ isrByte = 0
  /\ pc = "off" /\ mainByte = 0
  /\ head = 0 /\ tail = 0 /\ cells = [i \in 0 .. RB_SIZE - 1 |-> 0]
  /\ rx_overflow = FALSE /\ text = <<>> /\ out = <<>> /\ lost = {}

-----------------------------------------------------------------------------
(* The UART. *)

Arrive ==
  /\ lab # "off" /\ arrived < MaxArrive
  /\ arrived' = arrived + 1
  /\ data' \in IF rxbf THEN {data, arrived + 1} ELSE {arrived + 1}
  /\ lost' = IF ~rxbf THEN lost ELSE lost \cup ({data, arrived + 1} \ {data'})
  /\ rxbf' = TRUE /\ irq' = irqen
  /\ UNCHANGED <<mainVars, txbf, isr, isrByte, ring, out>>

Transmitted ==
  /\ txbf /\ txbf' = FALSE
  /\ UNCHANGED <<mainVars, uartRx, isr, isrByte, ring, out>>

\* uart_putc: busy until the transmitter has room.
uart_putc(c) == ~txbf /\ txbf' = TRUE /\ out' = Append(out, c)

-----------------------------------------------------------------------------
(* retarget.c: a newline is preceded by a carriage return. *)

Retarget(s) ==
  FlattenSeq([i \in DOMAIN s |-> IF s[i] = Newline THEN <<CarriageReturn, Newline>> ELSE <<s[i]>>])

(* Start of main in lab 10, 11 and 12: uart_init, rb_init, and only then the
   interrupt. *)
Start ==
  /\ lab = "off"
  /\ \E l \in {"lab10", "lab11", "lab12"} :
       /\ lab' = l /\ irqen' = (l # "lab12")
       /\ pc' = CASE l = "lab10" -> "wfi" [] l = "lab11" -> "check" [] OTHER -> "print"
       /\ text' = IF l = "lab12" THEN Retarget(Banner) ELSE <<>>
  /\ UNCHANGED <<uartRx, txbf, isr, isrByte, mainByte, ring, out>>

-----------------------------------------------------------------------------
(* The interrupt handlers. *)

\* UART0_Handler reads DATA ...
IsrRead ==
  /\ isr = "off" /\ irq
  /\ isr' = "clear" /\ isrByte' = data /\ rxbf' = FALSE
  /\ UNCHANGED <<mainVars, data, irq, arrived, lost, txbf, ring, out>>

\* ... clears the interrupt, that of a byte that came in between included, and in
\* lab 10 goes on to echo.
IsrClear10 ==
  /\ isr = "clear" /\ lab = "lab10"
  /\ isr' = "putc" /\ irq' = FALSE
  /\ UNCHANGED <<mainVars, rxbf, data, arrived, lost, txbf, isrByte, ring, out>>

IsrEcho ==
  /\ isr = "putc" /\ uart_putc(isrByte) /\ isr' = "off"
  /\ UNCHANGED <<mainVars, uartRx, isrByte, ring>>

\* With a bug: a ring with one byte looks empty.
rb_empty_early == (tail + 1) % RB_SIZE = head \/ head = tail

rb_empty == head = tail

\* With a bug: the last cell is used too.
rb_full_never == FALSE

rb_full == (head + 1) % RB_SIZE = tail

\* In lab 11 it pushes the byte or notes the overflow: rb_push.
IsrPush ==
  /\ isr = "clear" /\ lab = "lab11"
  /\ isr' = "off" /\ irq' = FALSE
  /\ IF rb_full THEN rx_overflow' = TRUE /\ UNCHANGED <<head, cells>>
     ELSE /\ cells' = [cells EXCEPT ![head] = isrByte]
          /\ head' = (head + 1) % RB_SIZE
          /\ UNCHANGED rx_overflow
  /\ UNCHANGED <<mainVars, rxbf, data, arrived, lost, txbf, isrByte, tail, out>>

-----------------------------------------------------------------------------
(* main.  It runs while no handler does. *)

Goto(next) == isr = "off" /\ pc' = next /\ UNCHANGED <<uartRx, isr, isrByte, lab, irqen>>

\* rb_pop in three accesses.
PopCheck ==
  /\ pc = "check" /\ ~rb_empty /\ Goto("load")
  /\ UNCHANGED <<mainByte, text, txbf, ring, out>>

PopLoad ==
  /\ pc = "load" /\ mainByte' = cells[tail] /\ Goto("advance")
  /\ UNCHANGED <<text, txbf, ring, out>>

PopAdvance ==
  /\ pc = "advance" /\ tail' = (tail + 1) % RB_SIZE /\ Goto("putc")
  /\ UNCHANGED <<mainByte, text, txbf, head, cells, rx_overflow, out>>

MainEcho ==
  /\ pc = "putc" /\ uart_putc(mainByte)
  /\ Goto(IF lab = "lab11" THEN "check" ELSE "getc")
  /\ UNCHANGED <<mainByte, text, ring>>

\* Lab 12: fputc and printf, through sendchar and console_putc ...
PrintChar ==
  /\ pc = "print" /\ text # <<>> /\ uart_putc(Head(text))
  /\ text' = Tail(text) /\ Goto("print") /\ UNCHANGED <<mainByte, ring>>

Printed ==
  /\ pc = "print" /\ text = <<>> /\ Goto("getc")
  /\ UNCHANGED <<mainByte, text, txbf, ring, out>>

\* ... then console_getc waits for a byte.
Getc ==
  /\ pc = "getc" /\ isr = "off" /\ rxbf
  /\ mainByte' = data /\ rxbf' = FALSE /\ pc' = "putc"
  /\ UNCHANGED <<lab, irqen, text, data, irq, arrived, lost, txbf, isr, isrByte,
                 ring, out>>

Handler == IsrRead \/ IsrClear10 \/ IsrEcho \/ IsrPush
Main == PopCheck \/ PopLoad \/ PopAdvance \/ MainEcho \/ PrintChar \/ Printed \/ Getc

EchoNext == Start \/ Arrive \/ Transmitted \/ Handler \/ Main

EchoSpec == EchoInit /\ [][EchoNext]_echoVars

\* The core runs the handler or main; the transmitter finishes.
EchoFairness == WF_echoVars(Handler) /\ WF_echoVars(Main) /\ WF_echoVars(Transmitted)

-----------------------------------------------------------------------------
\* The bytes in the ring, oldest first.
Queued == [i \in 1 .. (head + RB_SIZE - tail) % RB_SIZE |-> cells[(tail + i - 1) % RB_SIZE]]

\* What lab 12 prints before the first echo, and the output after it.
Greeting == IF lab = "lab12" THEN Retarget(Banner) ELSE <<>>
Echoed == SubSeq(out, Len(Greeting) + 1, Len(out))

\* Bytes already echoed, and those on their way through the program.
InHand(here, b) == IF here THEN <<b>> ELSE <<>>
Stream ==
  Echoed \o InHand(pc \in {"advance", "putc"}, mainByte)
         \o (IF pc = "advance" THEN Tail(Queued) ELSE Queued)
         \o InHand(isr # "off", isrByte) \o InHand(rxbf, data)

Ascending(s) == \A i \in 1 .. Len(s) - 1 : s[i] < s[i + 1]

\* Whatever the handler interrupts, bytes leave in the order they came, none twice,
\* and one that is missing was overrun in the UART or is what rx_overflow reports; lab
\* 12's banner comes whole before the first echo, each newline after a carriage return
\* (ringbuffer.c:16-33, lab11 main.c:14-38, lab10 uart.c:42-58, lab12 retarget.c).
EchoInOrder ==
  /\ Ascending(Stream) /\ ToSet(Stream) \subseteq 1 .. arrived
  /\ rx_overflow \/ 1 .. arrived \subseteq ToSet(Stream) \cup lost
  /\ \A i \in DOMAIN out : i <= Len(Greeting) => out[i] = Greeting[i]

\* A byte that came between a handler's read of DATA and its clear, which cleared its
\* interrupt too, and that no later byte has raised again.
Stranded(b) == irqen /\ rxbf /\ data = b /\ ~irq

\* Every byte is echoed in the end, unless it was overrun or the ring was full, or it
\* is stranded; and then only until one more byte comes, whose interrupt fetches it
\* (lab11 main.c:16-18, lab10 uart.c:47-49).
ByteEchoed ==
  \A b \in 1 .. MaxArrive :
    (lab # "off" /\ arrived >= b)
      ~> (b \in ToSet(Echoed) \cup lost \/ rx_overflow \/ Stranded(b))
=============================================================================
