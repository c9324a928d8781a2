----------------------------- MODULE MCI2cBoard -----------------------------
(* The scripts of main.c of labs 13 and 14, and the other calls of eeprom.c. *)
EXTENDS I2cBoard

InitCall == [op |-> "init"]
ProbeCall == [op |-> "probe", target |-> TargetAddr]
WriteCall(a, d) == [op |-> "write", addr |-> a, data |-> d]
ReadCall(a, n) == [op |-> "read", addr |-> a, len |-> n]

Msg(op, m) == [op |-> op, target |-> TargetAddr, msgs |-> m]

MCScripts ==
  { <<InitCall, ProbeCall, WriteCall(1, <<2>>), ReadCall(1, 1)>>,
    <<InitCall, WriteCall(2, <<1, 3>>), ReadCall(1, 2), WriteCall(3, <<1, 1>>)>>,
    <<Msg("message", <<Message(<<0, 1, 2>>, FALSE, TRUE, FALSE)>>)>>,
    <<Msg("message", <<Message(<<0, 1, 2>>, FALSE, TRUE, FALSE), Message(<<0, 1, 3>>, FALSE, TRUE, TRUE)>>)>>,
    <<Msg("message", <<Message(<<0>>, FALSE, TRUE, FALSE), Message(<<2>>, FALSE, TRUE, FALSE)>>)>>,
    <<Msg("message", <<Message(<<0, 1>>, TRUE, TRUE, FALSE)>>)>>,
    <<InitCall, Msg("transfer", <<Message(<<0, 1, 2>>, FALSE, TRUE, FALSE), Message(<<0, 0>>, TRUE, TRUE, FALSE)>>)>>,
    <<Msg("transfer", <<Message(<<0>>, FALSE, FALSE, FALSE), Message(<<2>>, FALSE, TRUE, FALSE)>>)>> }
=============================================================================
