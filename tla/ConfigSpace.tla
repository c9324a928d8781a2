---------------------------- MODULE ConfigSpace -----------------------------
(***************************************************************************)
(* What the driver of lab H2 promises its caller: a configuration space    *)
(* in which a call that answers OK has taken effect once, between its      *)
(* invocation and its answer; one that answers BUSY has had no effect and  *)
(* was made while an earlier request was still in flight; and one that     *)
(* times out may still take effect later, but before any request after it. *)
(*                                                                         *)
(* The space and its caller move in the same clock, so the next-state      *)
(* relation joins a step of each.                                          *)
(***************************************************************************)
CONSTANTS
  Requests,          \* the requests a caller may make
  NoOp, None,        \* no call; no request in flight
  Initial,           \* the contents of the space at reset
  Apply(_, _),       \* Apply(s, r): the space after request r in space s
  Answer(_, _)       \* Answer(s, r): the value request r reads in space s

VARIABLES
  space,             \* contents of the configuration space
  answer,            \* value of the last read performed
  flight,            \* request that is started and not finished, or None
  call,              \* the call in progress, or NoOp
  started,           \* the call has put its request in flight
  code, value        \* what the last call returned

spaceVars == <<space, answer, flight>>
callVars == <<call, started, code, value>>

Init ==
  /\ space = Initial /\ flight = None
  /\ call = NoOp /\ started = FALSE /\ code = "OK" /\ answer = value

-----------------------------------------------------------------------------
Perform ==
  /\ flight # None /\ ~flight.performed
  /\ space' = Apply(space, flight.request)
  /\ answer' = IF flight.request.type = "READ" THEN Answer(space, flight.request)
               ELSE answer
  /\ flight' = [request |-> flight.request, performed |-> TRUE]

Finish ==
  /\ flight # None /\ flight.performed
  /\ flight' = None
  /\ UNCHANGED <<space, answer>>

Return(c) ==
  /\ call # NoOp
  /\ call' = NoOp /\ started' = FALSE /\ code' = c

Invoke ==
  /\ call = NoOp
  /\ call' \in Requests
  /\ UNCHANGED <<started, code, value>>

\* An earlier request, which timed out, is still in flight.
Refuse == ~started /\ flight # None /\ Return("BUSY")

TimeOut == started /\ Return("TIMEOUT")

Succeed ==
  /\ started /\ flight = None
  /\ Return("OK")
  /\ call.type = "READ" => value' = answer

Start ==
  /\ call # NoOp /\ ~started /\ flight = None
  /\ started' = TRUE
  /\ flight' = [request |-> call, performed |-> FALSE]
  /\ UNCHANGED <<space, answer, call, code, value>>

Next ==
  \/ Start
  \/ /\ Perform \/ Finish \/ UNCHANGED spaceVars
     /\ Invoke \/ Refuse \/ TimeOut \/ Succeed \/ UNCHANGED callVars

Spec == Init /\ [][Next]_<<spaceVars, callVars>>
=============================================================================
