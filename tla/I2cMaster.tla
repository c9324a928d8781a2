----------------------------- MODULE I2cMaster ------------------------------
(***************************************************************************)
(* The bit-banging masters: mps2_i2c.c of lab 14, which waits for a        *)
(* stretched clock and gives up after a timeout, and i2c_message.c of lab  *)
(* 13, which only writes and never waits.                                  *)
(*                                                                         *)
(* A driver function is the sequence of line operations it performs; todo  *)
(* holds those still ahead of the call in progress, and a step performs    *)
(* one.  An operation that fails replaces the rest of the call by what the *)
(* function does on its way out, which cleanup names:                      *)
(*   sda0 sda1 scl0 scl1   write CONTROLC or CONTROLS                      *)
(*   start stop            the SDA edges of START and STOP                 *)
(*   poll pollstop         wait_scl_high, in generate_stop the second      *)
(*   free idle sample      read CONTROL                                    *)
(*   ack byte active       use what was read, note that the bus is ours    *)
(*   boot quit break       the branches of init and recover_bus            *)
(***************************************************************************)
EXTENDS I2cBus, SequencesExt

VARIABLES
  todo,     \* line operations still to do
  cleanup,  \* how the call ends on an error: "return", "stop", "message"
  rc,       \* its result so far
  in,       \* bits read since the last ACK or byte
  got       \* bytes read by the call

masterVars == <<todo, cleanup, rc, in, got>>

MasterInit == todo = <<>> /\ cleanup = "return" /\ rc = "OK" /\ in = <<>> /\ got = <<>>

-----------------------------------------------------------------------------
(* mps2_i2c.c *)

WaitSclHigh == <<"scl1", "poll">>

GenerateStart == <<"sda1">> \o WaitSclHigh \o <<"free", "start", "scl0">>

GenerateStop == <<"scl0", "sda0", "scl1", "pollstop", "stop", "idle">>

\* With a bug: SDA changes after SCL was released.
WriteBitLate(b) == WaitSclHigh \o <<IF b = 1 THEN "sda1" ELSE "sda0", "scl0">>

WriteBit(b) == <<IF b = 1 THEN "sda1" ELSE "sda0">> \o WaitSclHigh \o <<"scl0">>

ReadBit == <<"sda1">> \o WaitSclHigh \o <<"sample", "scl0">>

ReceiveAck == ReadBit \o <<"ack">>

WriteByte(v) == FlattenSeq([i \in 1 .. Width |-> WriteBit(Bit(v, i))]) \o ReceiveAck

ReadByte(ack) ==
  FlattenSeq([i \in 1 .. Width |-> ReadBit]) \o WriteBit(IF ack THEN 0 ELSE 1) \o <<"byte">>

SendAddress(target, read) == WriteByte(2 * target + (IF read THEN 1 ELSE 0))

\* A message is [buf, read, stop, restart]; the buffer of a read gives its length.
MessageBody(m) ==
  FlattenSeq([i \in 1 .. Len(m.buf) |->
    IF m.read THEN ReadByte(i < Len(m.buf)) ELSE WriteByte(m.buf[i])])

MessageOps(target, m) ==
  GenerateStart \o <<"active">> \o SendAddress(target, m.read) \o MessageBody(m)
    \o (IF m.stop THEN GenerateStop ELSE <<>>)

Messages(target, msgs) == FlattenSeq([k \in 1 .. Len(msgs) |-> MessageOps(target, msgs[k])])

ValidMessages(msgs) ==
  /\ msgs # <<>>
  /\ \A k \in 1 .. Len(msgs) :
       /\ msgs[k].buf # <<>>
       /\ k > 1 /\ ~msgs[k - 1].stop => msgs[k].restart

\* Begin a call that performs ops and, on an error, ends as `ending' says.
Perform(ops, result, ending) ==
  todo' = ops /\ rc' = result /\ cleanup' = ending /\ in' = <<>> /\ got' = <<>>

Transfer(target, msgs) ==
  IF ~ValidMessages(msgs) THEN Perform(<<>>, "ARGUMENT", "return")
  ELSE IF target = 2 ^ (Width - 1) - 1 THEN Perform(<<>>, "ADDRESS", "return")
  ELSE Perform(Messages(target, msgs), "OK", "return")

\* send_address, and generate_stop whatever it returned.
Probe(target) ==
  Perform(GenerateStart \o <<"active">> \o SendAddress(target, FALSE) \o GenerateStop,
          "OK", "return")

RecoverBus ==
  <<"sda1">> \o WaitSclHigh \o <<"quit">>
    \o FlattenSeq([i \in 1 .. Width + 1 |-> <<"scl0">> \o WaitSclHigh \o <<"break">>])
    \o GenerateStop

BusSetup == Perform(<<"sda1", "scl1", "boot">>, "OK", "return")

-----------------------------------------------------------------------------
(* i2c_message.c *)

MsgStart == <<"sda1", "scl1", "start", "scl0">>

MsgStop == <<"sda0", "scl1", "stop">>

MsgSendByte(v) ==
  FlattenSeq([i \in 1 .. Width |->
                <<IF Bit(v, i) = 1 THEN "sda1" ELSE "sda0", "scl1", "scl0">>])

MsgReceiveAck == <<"sda1", "scl1", "sample", "scl0", "ack">>

MsgSendAddress(target, read) ==
  MsgSendByte(2 * target + (IF read THEN 1 ELSE 0)) \o MsgReceiveAck

MsgWrite(m) == FlattenSeq([i \in 1 .. Len(m.buf) |-> MsgSendByte(m.buf[i]) \o MsgReceiveAck])

\* i2c_transfer_bitbang; "reject" and "unsupported" leave with an error.
MsgTransfer(target, msgs) ==
  LET message(k) ==
        IF msgs[k].buf = <<>> \/ (k > 1 /\ ~msgs[k].restart) THEN <<"reject">>
        ELSE MsgStart \o MsgSendAddress(target, msgs[k].read)
               \o (IF msgs[k].read THEN <<"unsupported">> ELSE MsgWrite(msgs[k]))
               \o (IF msgs[k].stop THEN MsgStop ELSE <<>>)
  IN IF msgs = <<>> THEN Perform(<<>>, "ARGUMENT", "return")
     ELSE IF target >= 2 ^ (Width - 1) THEN Perform(<<>>, "ADDRESS", "return")
     ELSE Perform(<<"sda1", "scl1">> \o FlattenSeq([k \in 1 .. Len(msgs) |-> message(k)]),
                  "OK", "message")

-----------------------------------------------------------------------------
(* One line operation. *)

Op == IF todo = <<>> THEN "none" ELSE Head(todo)
Pop == todo' = Tail(todo)

\* goto stop_on_error, or return.
Fail(error) ==
  /\ rc' = error /\ cleanup' = "return"
  /\ todo' = CASE cleanup = "stop" -> GenerateStop
               [] cleanup = "message" -> MsgStop
               [] OTHER -> <<>>
  /\ UNCHANGED <<busVars, in, got>>

\* sda_release, sda_drive_low, scl_release and scl_drive_low.
WriteControl ==
  /\ Op \in {"sda0", "sda1", "scl0", "scl1", "start", "stop"}
  /\ Drive(CASE Op \in {"sda0", "start"} -> [bus EXCEPT !.msda = 0]
             [] Op \in {"sda1", "stop"}  -> [bus EXCEPT !.msda = 1]
             [] Op = "scl0" -> [bus EXCEPT !.mscl = 0]
             [] Op = "scl1" -> [bus EXCEPT !.mscl = 1])
  /\ Pop /\ UNCHANGED <<cleanup, rc, in, got>>

Advance == Pop /\ UNCHANGED <<busVars, cleanup, rc, in, got>>
LeaveFor(ops) == todo' = ops /\ UNCHANGED <<busVars, cleanup, rc, in, got>>

PollSucceeds == Op \in {"poll", "pollstop"} /\ SCL(bus) /\ Advance
PollTimeout == Op = "poll" /\ ~SCL(bus) /\ Fail("TIMEOUT")

\* generate_stop lets SDA go before it returns the timeout.
StopTimeout ==
  /\ Op = "pollstop" /\ ~SCL(bus)
  /\ rc' = (IF rc = "OK" THEN "TIMEOUT" ELSE rc) /\ todo' = <<"stop">>
  /\ UNCHANGED <<busVars, cleanup, in, got>>

BusFree == Op = "free" /\ IF SDA(bus) THEN Advance ELSE Fail("BUSY")

\* An error of a STOP ends the call: nothing after it is sent.
StopChecked ==
  /\ Op = "idle"
  /\ IF SDA(bus) /\ SCL(bus) THEN Advance
     ELSE /\ rc' = (IF rc = "OK" THEN "BUSY" ELSE rc) /\ todo' = <<>>
          /\ UNCHANGED <<busVars, cleanup, in, got>>

Sample ==
  /\ Op = "sample"
  /\ in' = Append(in, IF SDA(bus) THEN 1 ELSE 0)
  /\ Pop /\ UNCHANGED <<busVars, cleanup, rc, got>>

\* With a bug: the ACK bit is not looked at, as with I2C_SIMULATE_ACK.
CheckAckSimulated == Op = "ack" /\ in' = <<>> /\ Pop /\ UNCHANGED <<busVars, cleanup, rc, got>>

\* The bits of a byte, the first one in its highest place.
Received(bits) ==
  LET value[i \in 0 .. Len(bits)] == IF i = 0 THEN 0 ELSE 2 * value[i - 1] + bits[i]
  IN value[Len(bits)]

CheckAck ==
  /\ Op = "ack"
  /\ IF Last(in) = 0 THEN in' = <<>> /\ Pop /\ UNCHANGED <<busVars, cleanup, rc, got>>
     ELSE Fail("NACK")

ByteRead ==
  /\ Op = "byte"
  /\ got' = Append(got, Received(in))
  /\ in' = <<>> /\ Pop /\ UNCHANGED <<busVars, cleanup, rc>>

BusActive == Op = "active" /\ cleanup' = "stop" /\ Pop /\ UNCHANGED <<busVars, rc, in, got>>

\* mps2_i2c_init recovers a bus that is not idle; recover_bus clocks until SDA is free.
Booted == Op = "boot" /\ LeaveFor(IF SDA(bus) /\ SCL(bus) THEN <<>> ELSE RecoverBus)
BusRecovered == Op = "quit" /\ IF SDA(bus) THEN LeaveFor(<<>>) ELSE Advance
PulseChecked == Op = "break" /\ IF SDA(bus) THEN LeaveFor(GenerateStop) ELSE Advance

Rejected ==
  \/ Op = "reject" /\ Fail("ARGUMENT")
  \/ Op = "unsupported" /\ Fail("UNSUPPORTED")

LineStep ==
  \/ WriteControl \/ PollSucceeds \/ PollTimeout \/ StopTimeout \/ BusFree \/ StopChecked
  \/ Sample \/ CheckAck \/ ByteRead \/ BusActive
  \/ Booted \/ BusRecovered \/ PulseChecked \/ Rejected
=============================================================================
