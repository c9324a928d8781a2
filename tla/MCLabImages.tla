----------------------------- MODULE MCLabImages -----------------------------
EXTENDS LabImages

Fn(dev, fn, multi, normal) == [dev |-> dev, fn |-> fn, multi |-> multi, normal |-> normal]

\* Every set of functions of two devices, with every choice of multi-function devices;
\* function 1 has no BARs.
MCControllers ==
  {SimController} \cup
  { SetToSeq({ Fn(p[1], p[2], p[1] \in multi /\ p[2] = 0, p[2] # 1) : p \in fns }) :
      multi \in SUBSET {0, 2}, fns \in SUBSET ({0, 2} \X (0 .. 2)) }

B(kind, size, value) == [kind |-> kind, size |-> size, value |-> value]

\* Lab 19's board (a BAR of a page in a window of 16 MiB, scaled), and boards whose
\* windows are tight, end at the top of the address space, run over it, or start at 0.
MCBoards ==
  { [bars |-> <<B("memory", 2, 0), B("none", 0, 0)>>, base |-> 4, cpu |-> 8, size |-> 4,
     main |-> TRUE],
    [bars |-> <<B("memory", 2, 0), B("io", 1, 5), B("memory64", 2, 0)>>, base |-> 5,
     cpu |-> 12, size |-> 9, main |-> FALSE],
    [bars |-> <<B("memory", 4, 0), B("memory", 8, 0)>>, base |-> 10, cpu |-> 0, size |-> 5,
     main |-> FALSE],
    [bars |-> <<B("memory", 1, 0), B("memory", 2, 0)>>, base |-> 12, cpu |-> 0, size |-> 3,
     main |-> FALSE],
    [bars |-> <<B("memory", 1, 0), B("memory", 2, 0)>>, base |-> 12, cpu |-> 0, size |-> 4,
     main |-> FALSE],
    [bars |-> <<B("memory", 1, 0), B("memory", 2, 0)>>, base |-> 12, cpu |-> 0, size |-> 9,
     main |-> FALSE],
    [bars |-> <<B("memory", 8, 0), B("memory", 1, 0)>>, base |-> 0, cpu |-> 0, size |-> 15,
     main |-> FALSE],
    [bars |-> <<B("memory", 1, 0)>>, base |-> 4, cpu |-> 0, size |-> 0, main |-> TRUE] }

MCBanner == <<-65, Newline, -66>>
MCResponse == <<<<1, 1, 0>>>>
MCSpiBytes == {<<1, 0, 0>>, <<0, 1, 0>>}
=============================================================================
