------------------------------ MODULE I2cBoard ------------------------------
(***************************************************************************)
(* Labs 13 and 14: eeprom.c on the bus driver, and a program that makes a  *)
(* script of calls and stops at the first that fails, as both main.c do.   *)
(* The board may be reset at any point; the EEPROM is not, so the program  *)
(* starts again on a bus in the middle of a byte.                          *)
(***************************************************************************)
EXTENDS I2cMaster

CONSTANTS
  ReadyPollLimit,  \* ready_poll_limit: probes after a write
  Scripts,         \* sequences of calls
  MaxResets,       \* bound: resets of the board
  DeviceStretch,   \* bound: stretches during a script of lab 14
  MessageStretch   \* bound: stretches during one of lab 13

ASSUME BoardAssumption ==
  /\ ReadyPollLimit \in Nat \ {0} /\ MaxResets \in Nat
  /\ DeviceStretch \in Nat /\ MessageStretch \in Nat

Calls ==
  [op : {"init"}] \cup [op : {"probe"}, target : Nat]
    \cup [op : {"write"}, addr : Nat, data : Seq(Byte)] \cup [op : {"read"}, addr : Nat, len : Nat]
    \cup [op : {"transfer", "message"}, target : Nat,
          msgs : Seq([buf : Seq(Byte), read : BOOLEAN, stop : BOOLEAN, restart : BOOLEAN])]

\* A program is lab 13's or lab 14's, and what it transfers ends with a STOP.
ASSUME ScriptAssumption ==
  \A s \in Scripts :
    /\ s \in Seq(Calls) /\ s # <<>>
    /\ \A i, j \in 1 .. Len(s) : s[i].op = "message" => s[j].op = "message"
    /\ \A i \in 1 .. Len(s) :
         s[i].op = "transfer" /\ s[i].msgs # <<>> => s[i].msgs[Len(s[i].msgs)].stop

VARIABLES
  script,   \* calls still to make; g_lab14_stage follows it
  call,     \* the call in progress, or the last one
  attempt,  \* probes eeprom_wait_ready has made; 0 while transferring
  ret,      \* what the last call returned, "none" before that
  resets    \* resets left

boardVars == <<script, call, attempt, ret, resets>>
i2cVars == <<busVars, masterVars, boardVars>>

NoCall == [op |-> "none"]

BoardInit ==
  /\ BusInit /\ MasterInit
  /\ script = <<>> /\ call = NoCall /\ attempt = 0 /\ ret = "none" /\ resets = MaxResets

-----------------------------------------------------------------------------
(* eeprom.c *)

Limit == IF AddressWidth = 1 THEN 2 ^ Width ELSE 2 ^ Width * 2 ^ Width

ValidRange(addr, len) == addr < Limit /\ len <= Limit - addr

MemoryAddress(addr) ==
  IF AddressWidth = 1 THEN <<addr % (2 ^ Width)>>
  ELSE <<addr \div (2 ^ Width), addr % (2 ^ Width)>>

Message(buf, read, stop, restart) ==
  [buf |-> buf, read |-> read, stop |-> stop, restart |-> restart]

\* With a bug: the page is not looked at.
WriteResultNoPage(addr, data) ==
  IF data = <<>> \/ Len(data) > PageSize THEN "EEPROM_ARGUMENT"
  ELSE IF ~ValidRange(addr, Len(data)) THEN "EEPROM_ARGUMENT" ELSE "OK"

\* What eeprom_write checks before it touches the bus.
WriteResult(addr, data) ==
  IF data = <<>> \/ Len(data) > PageSize THEN "EEPROM_ARGUMENT"
  ELSE IF ~ValidRange(addr, Len(data)) THEN "EEPROM_ARGUMENT"
  ELSE IF Len(data) > PageSize - (addr % PageSize) THEN "PAGE_BOUNDARY"
  ELSE "OK"

ReadResult(addr, len) == IF len = 0 \/ ~ValidRange(addr, len) THEN "EEPROM_ARGUMENT" ELSE "OK"

WriteEeprom(c) ==
  IF WriteResult(c.addr, c.data) # "OK"
  THEN Perform(<<>>, WriteResult(c.addr, c.data), "return")
  ELSE Transfer(TargetAddr, <<Message(MemoryAddress(c.addr) \o c.data, FALSE, TRUE, FALSE)>>)

ReadEeprom(c) ==
  IF ReadResult(c.addr, c.len) # "OK"
  THEN Perform(<<>>, ReadResult(c.addr, c.len), "return")
  ELSE Transfer(TargetAddr, <<Message(MemoryAddress(c.addr), FALSE, FALSE, FALSE),
                              Message([i \in 1 .. c.len |-> 0], TRUE, TRUE, TRUE)>>)

\* Errors of the bus driver, which eeprom.c reports as EEPROM_ERR_TRANSFER.
BusErrors == {"ARGUMENT", "ADDRESS", "NACK", "TIMEOUT", "BUSY"}

CallReturns(result) ==
  /\ ret' = result /\ script' = (IF result = "OK" THEN script ELSE <<>>)
  /\ attempt' = 0 /\ UNCHANGED <<busVars, masterVars, call, resets>>

\* The transfer has ended, well or not; a write goes on to poll for the ACK.
TransferDone ==
  /\ todo = <<>> /\ ret = "none" /\ attempt = 0 /\ call # NoCall
  /\ IF call.op = "write" /\ rc = "OK"
     THEN /\ attempt' = 1 /\ Probe(TargetAddr)
          /\ UNCHANGED <<busVars, script, call, ret, resets>>
     ELSE CallReturns(IF call.op \in {"write", "read"} /\ rc \in BusErrors THEN "TRANSFER" ELSE rc)

\* With a bug: the attempts are not counted.
WaitReadyForever ==
  /\ todo = <<>> /\ ret = "none" /\ attempt > 0
  /\ IF rc = "NACK"
     THEN Probe(TargetAddr) /\ UNCHANGED <<busVars, attempt, script, call, ret, resets>>
     ELSE CallReturns(IF rc = "OK" THEN "OK" ELSE "TRANSFER")

\* eeprom_wait_ready: probes until one is acknowledged, a bounded number of times.
WaitReady ==
  /\ todo = <<>> /\ ret = "none" /\ attempt > 0
  /\ IF rc = "NACK" /\ attempt < ReadyPollLimit
     THEN /\ attempt' = attempt + 1 /\ Probe(TargetAddr)
          /\ UNCHANGED <<busVars, script, call, ret, resets>>
     ELSE CallReturns(CASE rc = "OK" -> "OK" [] rc = "NACK" -> "NOT_READY" [] OTHER -> "TRANSFER")

-----------------------------------------------------------------------------
\* The program is started, after power-on or after the last script.
Boot ==
  /\ script = <<>> /\ todo = <<>> /\ call = NoCall
  /\ \E s \in Scripts :
       /\ script' = s
       /\ stretches' = IF Head(s).op = "message" THEN MessageStretch ELSE DeviceStretch
  /\ UNCHANGED <<bus, dev, mem, masterVars, call, attempt, ret, resets>>

\* The next call of main.
NextCall ==
  /\ script # <<>> /\ todo = <<>> /\ (call = NoCall \/ ret = "OK")
  /\ LET c == Head(script) IN
       /\ call' = c /\ script' = Tail(script) /\ ret' = "none" /\ attempt' = 0
       /\ CASE c.op = "init" -> BusSetup
            [] c.op = "probe" -> Probe(c.target)
            [] c.op = "write" -> WriteEeprom(c)
            [] c.op = "read" -> ReadEeprom(c)
            [] c.op = "transfer" -> Transfer(c.target, c.msgs)
            [] c.op = "message" -> MsgTransfer(c.target, c.msgs)
  /\ UNCHANGED <<busVars, resets>>

\* The processor and its registers are reset; CONTROL lets both lines go.
Reset ==
  /\ resets > 0 /\ call # NoCall /\ resets' = resets - 1
  /\ Drive([bus EXCEPT !.msda = 1, !.mscl = 1])
  /\ Perform(<<>>, "OK", "return")
  /\ script' = <<>> /\ call' = NoCall /\ attempt' = 0 /\ ret' = "none"

\* After its last call the program loops for ever.
Stopped == script = <<>> /\ ret # "none" /\ UNCHANGED i2cVars

BoardNext ==
  \/ LineStep /\ UNCHANGED boardVars
  \/ (Unstretch \/ WriteCycleDone) /\ UNCHANGED <<masterVars, boardVars>>
  \/ TransferDone \/ WaitReady \/ Boot \/ NextCall \/ Reset \/ Stopped

BoardSpec == BoardInit /\ [][BoardNext]_i2cVars

\* The device stretches only for a while: a driver that waits is answered.
FairSpec ==
  /\ BoardSpec
  /\ WF_i2cVars(LineStep /\ UNCHANGED boardVars) /\ WF_i2cVars(TransferDone \/ WaitReady)
  /\ WF_i2cVars(Boot) /\ WF_i2cVars(NextCall)

-----------------------------------------------------------------------------
\* A call that succeeds tells the truth about the memory: the bytes of an
\* eeprom_write are in it when the call returns, those of an eeprom_read are its
\* contents (eeprom.c:37-139), however the clock was stretched.  When a call of lab 14
\* has returned, on every path and after a timeout too, the master pulls no line
\* (generate_stop, mps2_i2c.c:125-138).
CallsHold ==
  /\ ret = "OK" /\ call.op = "write" =>
       \A i \in DOMAIN call.data : mem[(call.addr + i - 1) % Cells] = call.data[i]
  /\ ret = "OK" /\ call.op = "read" =>
       got = [i \in 1 .. call.len |-> mem[(call.addr + i - 1) % Cells]]
  /\ ret # "none" /\ call.op # "message" => bus.msda = 1 /\ bus.mscl = 1

\* A message lab 13 reports as sent was acknowledged to the last byte: it is in
\* the device's page buffer or already in its memory (i2c_message.c:123-249).  Only
\* from power-on: that driver neither frees the bus nor looks at it, and a START
\* while the device still holds SDA for the ACK of an earlier run is not seen.
MessageArrives ==
  ret = "OK" /\ call.op = "message" /\ Last(call.msgs).stop /\ resets = MaxResets =>
    LET data == SubSeq(Last(call.msgs).buf, AddressWidth + 1, Len(Last(call.msgs).buf))
    IN \/ dev.page = data
       \/ \E a \in DOMAIN mem : \A i \in DOMAIN data : mem[(a + i - 1) % Cells] = data[i]

\* SDA moves while SCL is high only in START and STOP: no data bit is taken for
\* one (write_bit and read_bit, mps2_i2c.c:140-176).
NoStrayCondition ==
  [][SCL(bus) /\ SCL(bus') /\ SDA(bus) # SDA(bus') /\ call' # NoCall /\ call.op # "message"
       => Op \in {"start", "stop"}]_i2cVars

\* Every call returns, also when the device never lets the clock go
\* (wait_scl_high, mps2_i2c.c:58-69).
CallsReturn == call # NoCall /\ ret = "none" ~> ret # "none" \/ call = NoCall
=============================================================================
