----------------------------- MODULE LabImages -----------------------------
(***************************************************************************)
(* The small labs side by side.  A build holds one of them, so a behaviour *)
(* is that of one program from its reset on; the others never start.       *)
(***************************************************************************)
EXTENDS PcieEnum, BarResource, UartEcho, RegUpdate, SpiBitbang, Ssp

VARIABLE image   \* the program that was built and runs, "none" before reset

vars == <<image, enumVars, barVars, echoVars, regVars, spiVars, sspVars>>

Init ==
  /\ image = "none"
  /\ EnumInit /\ BarInit /\ EchoInit /\ RegInit /\ SpiInit /\ SspInit

Runs(name, step, others) ==
  image \in {"none", name} /\ image' = name /\ step /\ UNCHANGED others

Next ==
  \/ Runs("lab18", EnumNext, <<barVars, echoVars, regVars, spiVars, sspVars>>)
  \/ Runs("lab19", BarNext, <<enumVars, echoVars, regVars, spiVars, sspVars>>)
  \/ Runs("lab10-12", EchoNext, <<enumVars, barVars, regVars, spiVars, sspVars>>)
  \/ Runs("lab21", RegNext, <<enumVars, barVars, echoVars, spiVars, sspVars>>)
  \/ Runs("lab15", SpiNext, <<enumVars, barVars, echoVars, regVars, sspVars>>)
  \/ Runs("lab16", SspNext, <<enumVars, barVars, echoVars, regVars, spiVars>>)

\* An image goes on while it has a step to make.
FairSpec == Init /\ [][Next]_vars /\ EchoFairness
=============================================================================
