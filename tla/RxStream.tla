------------------------------- MODULE RxStream -------------------------------
(***************************************************************************)
(* What Zephyr's asynchronous receive API promises a client, whatever the  *)
(* hardware and the interrupt handler do: bytes come in order into buffers *)
(* the client lent, every byte is reported, each buffer comes back after   *)
(* all that was put in it was reported, and reception ends only when       *)
(* nothing is owed to the client.                                          *)
(***************************************************************************)
EXTENDS Integers, Sequences, SequencesExt

CONSTANT Buffers

VARIABLES
  phase,     \* "IDLE", "ACTIVE" or "STOPPING"
  lent,      \* buffers the receiver may use
  got,       \* bytes received
  told       \* bytes reported

streamVars == <<phase, lent, got, told>>

StreamInit ==
  /\ phase = "IDLE"
  /\ lent = {}
  /\ got = <<>>
  /\ told = <<>>

Open(b) ==
  /\ phase = "IDLE"
  /\ phase' = "ACTIVE"
  /\ lent' = {b}
  /\ UNCHANGED <<got, told>>

Lend(b) ==
  /\ phase = "ACTIVE"
  /\ b \notin lent
  /\ lent' = lent \cup {b}
  /\ UNCHANGED <<phase, got, told>>

\* The line's bytes are numbered: a repeated or reordered one is impossible.
Receive ==
  /\ phase = "ACTIVE"
  /\ lent # {}
  /\ Len(got') = Len(got) + 1
  /\ IsStrictPrefix(got, got')
  /\ got # <<>> => Last(got') > Last(got)
  /\ UNCHANGED <<phase, lent, told>>

Report ==
  /\ IsStrictPrefix(told, told')
  /\ IsPrefix(told', got)
  /\ UNCHANGED <<phase, lent, got>>

\* While receiving, a buffer comes back only in exchange for another one.
Return(b) ==
  /\ b \in lent
  /\ told = got
  /\ lent' = lent \ {b}
  /\ phase = "STOPPING" \/ lent' # {}
  /\ UNCHANGED <<phase, got, told>>

Close ==
  /\ phase = "ACTIVE"
  /\ phase' = "STOPPING"
  /\ UNCHANGED <<lent, got, told>>

End ==
  /\ phase = "STOPPING"
  /\ lent = {}
  /\ told = got
  /\ phase' = "IDLE"
  /\ UNCHANGED <<lent, got, told>>

StreamNext ==
  \/ \E b \in Buffers : Open(b) \/ Lend(b) \/ Return(b)
  \/ Receive \/ Report \/ Close \/ End

StreamSpec == StreamInit /\ [][StreamNext]_streamVars
=============================================================================
